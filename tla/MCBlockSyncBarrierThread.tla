---------------------- MODULE MCBlockSyncBarrierThread ----------------------
(* The block synchronizations for TLC: a block uses one of them, chosen at *)
(* the start.                                                              *)
EXTENDS BlockSyncBarriers

VARIABLE impl

\* One of them starts with zeros or junk in both slots, the other one is not used.
Both(n) == [i \in {0, 1} |-> n]
MCInit == /\ Init /\ Team!Init
          /\ \/ impl = "Thread" /\ m_result[0] = m_result[1] /\ teamResult = Both(0) /\ teamKind = "Omp"
             \/ impl = "Team" /\ teamResult[0] = teamResult[1] /\ m_result = Both(0)

ThreadStep(t) == impl = "Thread" /\ Step(t) /\ UNCHANGED <<impl, team>>
MCNext == \/ impl = "Thread" /\ Next /\ UNCHANGED <<impl, team>>
          \/ impl = "Team" /\ Team!Next /\ UNCHANGED <<impl, vars>>
MCSpec == /\ MCInit /\ [][MCNext]_<<impl, vars, team>>
          /\ \A t \in Threads : WF_vars(ThreadStep(t))
=============================================================================
