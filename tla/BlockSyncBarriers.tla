------------------------- MODULE BlockSyncBarriers -------------------------
(***************************************************************************)
(* The block synchronizations side by side: that of the thread accelerator *)
(* and those of OpenMP threads and fibers, whose variables begin with team *)
(* here.  A block has one of them.                                         *)
(***************************************************************************)
EXTENDS BlockSyncBarrierThread

VARIABLES teamKind, teamGeneration, teamResult, teamCurThreadCount, teamSingle,
          teamPc, teamGenerationMod2, teamOp, teamPredicate

team == <<teamKind, teamGeneration, teamResult, teamCurThreadCount, teamSingle,
          teamPc, teamGenerationMod2, teamOp, teamPredicate>>

Team == INSTANCE BlockSyncBarrierTeam WITH
          kind <- teamKind, m_generation <- teamGeneration, m_result <- teamResult,
          m_curThreadCount <- teamCurThreadCount, single <- teamSingle, pc <- teamPc,
          generationMod2 <- teamGenerationMod2, op <- teamOp, predicate <- teamPredicate

\* BlockSyncBarrierOmp and BlockSyncBarrierFiber promise what the barriers of
\* threads do: nobody leaves early, and all leave with the combination of all
\* predicates, though the first one to leave already prepares the next result.
TeamImplementsBlockSync == Team!BS!Spec
=============================================================================
