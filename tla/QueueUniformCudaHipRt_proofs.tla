-------------------- MODULE QueueUniformCudaHipRt_proofs --------------------
(***************************************************************************)
(* Proofs about QueueUniformCudaHipRt for any number of producers, host    *)
(* tasks and device operations, tasks that throw included.  A host task is *)
(* in two places at once: its host function is an item of the stream, its  *)
(* packaged task is somewhere between enqueue and the future.  StreamInv   *)
(* says what m_state knows of the first, TaskInv what the future knows of  *)
(* the second, DataInv how the mutex of the shared data ties the two, and  *)
(* ShutdownInv why nothing is left when the destructor returns.            *)
(***************************************************************************)
EXTENDS QueueUniformCudaHipRt, SequenceTheorems, TLAPS

\* Labels at which the callback thread holds a packaged task it has not completed.
Active == {"data", "dataAsleep", "run", "signal", "setValue"}

Distinct(s) == \A i, j \in 1..Len(s) : i # j => s[i] # s[j]

\* The host function of t has told the thread and has not returned.
InHostFunc(t) == stream # <<>> /\ Head(stream) = t /\ hostFunc \in {"signal", "check", "asleep"}

\* What the state of a host task says of the place of its host function.
StreamInv ==
  /\ Distinct(stream)
  /\ hostFunc # "idle" => stream # <<>> /\ Head(stream) \in HostTasks
  /\ \A t \in HostTasks :
       /\ m_state[t] = "none" => t \notin Elements(stream)
       /\ m_state[t] = "enqueued" => /\ t \in Elements(stream)
                                     /\ Head(stream) = t => hostFunc \in {"idle", "notify"}
       /\ m_state[t] = "notified" => InHostFunc(t)
       /\ m_state[t] = "finished" => t \in ran /\ (t \in Elements(stream) => InHostFunc(t))

\* A task runs with the mutex of its data held, after it has been notified.
DataInv ==
  /\ worker \in Active => task \in HostTasks
  /\ worker = "run" => m_mutexData[task] /\ m_state[task] = "notified"
  /\ worker \in {"signal", "setValue"} => m_state[task] = "finished"
  /\ \A t \in HostTasks : m_mutexData[t] => worker = "run" /\ task = t

\* What the future of a host task says of the place of its packaged task.
TaskInv ==
  /\ Distinct(m_tasks)
  /\ \A t \in Elements(m_tasks) : future[t] = "pending"
  /\ worker \in Active => future[task] = "pending" /\ task \notin Elements(m_tasks)
  /\ \A p \in Producers : pc[p] = "submit" =>
       /\ enqueuing[p] \in HostTasks
       /\ future[enqueuing[p]] = "none" /\ m_state[enqueuing[p]] # "none"
  /\ \A p, q \in Producers :
       p # q /\ pc[p] = "submit" /\ pc[q] = "submit" => enqueuing[p] # enqueuing[q]
  /\ \A t \in HostTasks :
       /\ future[t] = "none" =>
            m_state[t] = "none" \/ \E p \in Producers : pc[p] = "submit" /\ enqueuing[p] = t
       /\ future[t] = "pending" => t \in Elements(m_tasks) \/ (worker \in Active /\ task = t)
       /\ future[t] = "value" => m_state[t] = "finished"
       /\ future[t] = "exception" => m_state[t] = "notified"
       /\ future[t] # "none" => m_state[t] # "none"

\* The thread stops when nobody can submit any more and nothing is left.
ShutdownInv ==
  /\ \A p, q \in Producers :
       p # q /\ pc[p] \in {"destroy", "notifyStop", "join"} => pc[q] = "gone"
  /\ m_stop => \A p \in Producers : pc[p] \in {"notifyStop", "join", "gone"}
  /\ worker = "none" => m_tasks = <<>>
  /\ worker = "exit" => m_stop /\ m_tasks = <<>>
  /\ (\A p \in Producers : pc[p] = "gone") => worker \in {"none", "exit"}

IInv == TypeOK /\ StreamInv /\ DataInv /\ TaskInv /\ ShutdownInv

-----------------------------------------------------------------------------
(* Sequences without repetition                                            *)

\* What an append does to the elements and to the head.
LEMMA AppendElements ==
  ASSUME NEW S, NEW s \in Seq(S), NEW x \in S
  PROVE  /\ Append(s, x) \in Seq(S) /\ Append(s, x) # <<>>
         /\ Elements(Append(s, x)) = Elements(s) \cup {x}
         /\ s # <<>> => Head(Append(s, x)) = Head(s)
         /\ s = <<>> => Head(Append(s, x)) = x /\ Elements(s) = {}
         /\ Distinct(s) /\ x \notin Elements(s) => Distinct(Append(s, x))
<1> DEFINE a == Append(s, x)
<1>1. /\ a \in Seq(S) /\ a # <<>> /\ Len(a) = Len(s) + 1 /\ Len(s) \in Nat
      /\ a[Len(s) + 1] = x /\ \A i \in 1..Len(s) : a[i] = s[i]
  BY AppendProperties, LenProperties
<1>2. DOMAIN a = 1..(Len(s) + 1) /\ DOMAIN s = 1..Len(s)
  BY <1>1, LenProperties
<1> HIDE DEF a
<1>3. Elements(a) = Elements(s) \cup {x}
  <2>1. ASSUME NEW y \in Elements(a) PROVE y \in Elements(s) \cup {x}
    BY <1>1, <1>2, <2>1 DEF Elements
  <2>2. ASSUME NEW y \in Elements(s) PROVE y \in Elements(a)
    BY <1>1, <1>2, <2>2 DEF Elements
  <2>3. x \in Elements(a)
    <3>1. Len(s) + 1 \in DOMAIN a
      BY <1>1, <1>2
    <3>2. QED
      BY <1>1, <3>1 DEF Elements
  <2>4. QED
    BY <2>1, <2>2, <2>3
<1>4. s # <<>> => Head(a) = Head(s)
  BY <1>1, <1>2, HeadTailProperties, EmptySeq, LenProperties
<1>5. s = <<>> => Head(a) = x /\ Elements(s) = {}
  BY <1>1, <1>2, HeadTailProperties, EmptySeq DEF Elements
<1>6. Distinct(s) /\ x \notin Elements(s) => Distinct(a)
  <2>1. SUFFICES ASSUME Distinct(s), x \notin Elements(s) PROVE Distinct(a)
    OBVIOUS
  <2>2. \A i \in 1..Len(s) : s[i] # x
    BY <1>2, <2>1 DEF Elements
  <2>3. QED
    BY <1>1, <2>1, <2>2 DEF Distinct
<1>7. QED
  BY <1>1, <1>3, <1>4, <1>5, <1>6 DEF a

\* What taking the head does to the elements.
LEMMA TailElements ==
  ASSUME NEW S, NEW s \in Seq(S), s # <<>>, Distinct(s)
  PROVE  /\ Tail(s) \in Seq(S) /\ Distinct(Tail(s))
         /\ Head(s) \in S /\ Head(s) \in Elements(s)
         /\ Elements(Tail(s)) = Elements(s) \ {Head(s)}
<1> DEFINE a == Tail(s)
<1>1. /\ a \in Seq(S) /\ Len(a) = Len(s) - 1 /\ Len(s) \in Nat /\ Len(s) > 0
      /\ \A i \in 1..Len(a) : a[i] = s[i + 1]
      /\ Head(s) = s[1]
  BY HeadTailProperties, LenProperties, EmptySeq
<1>2. DOMAIN a = 1..(Len(s) - 1) /\ DOMAIN s = 1..Len(s)
  BY <1>1, LenProperties
<1> HIDE DEF a
<1>3. Distinct(a)
  BY <1>1 DEF Distinct
<1>4. Head(s) \in S /\ Head(s) \in Elements(s)
  <2>1. 1 \in DOMAIN s
    BY <1>1, <1>2
  <2>2. QED
    BY <1>1, <2>1, ElementOfSeq, <1>2 DEF Elements
<1>5. Elements(a) = Elements(s) \ {Head(s)}
  <2>1. ASSUME NEW y \in Elements(a) PROVE y \in Elements(s) /\ y # Head(s)
    <3>1. PICK i \in 1..(Len(s) - 1) : y = a[i]
      BY <1>2, <2>1 DEF Elements
    <3>2. y = s[i + 1] /\ i + 1 \in 1..Len(s) /\ i + 1 # 1 /\ 1 \in 1..Len(s)
      BY <1>1, <3>1
    <3>3. QED
      BY <1>1, <1>2, <3>2 DEF Elements, Distinct
  <2>2. ASSUME NEW y \in Elements(s), y # Head(s) PROVE y \in Elements(a)
    <3>1. PICK i \in 1..Len(s) : y = s[i]
      BY <1>2, <2>2 DEF Elements
    <3>2. i # 1
      BY <1>1, <2>2, <3>1
    <3>3. i - 1 \in 1..(Len(s) - 1) /\ a[i - 1] = y
      BY <1>1, <3>1, <3>2
    <3>4. QED
      BY <1>2, <3>3 DEF Elements
  <2>3. QED
    BY <2>1, <2>2
<1>6. QED
  BY <1>1, <1>3, <1>4, <1>5 DEF a

\* An element is in a sequence, which is then not empty.
LEMMA ElementsOfSeq ==
  ASSUME NEW S, NEW s \in Seq(S)
  PROVE  Elements(s) \subseteq S /\ (s = <<>> => Elements(s) = {})
BY ElementOfSeq, EmptySeq, LenProperties DEF Elements

-----------------------------------------------------------------------------
(* The steps                                                               *)

\* The types are kept.
LEMMA TypeStep ==
  ASSUME IInv, [Next]_vars
  PROVE  TypeOK'
<1> USE TasksAssumption DEF IInv, TypeOK, data, thread, workerVars, producerVars
<1>1. ASSUME WorkerLock PROVE TypeOK'
  <2>1. CASE m_tasks = <<>>
    BY <1>1, <2>1 DEF WorkerLock
  <2>2. CASE m_tasks # <<>>
    <3>1. Head(m_tasks) \in HostTasks /\ Tail(m_tasks) \in Seq(HostTasks)
      BY <2>2, TailElements DEF TaskInv
    <3>2. QED
      BY <1>1, <2>2, <3>1 DEF WorkerLock
  <2>3. QED
    BY <2>1, <2>2
<1>2. ASSUME WorkerBlock PROVE TypeOK'
  BY <1>2 DEF WorkerBlock
<1>3. ASSUME WorkerWake PROVE TypeOK'
  BY <1>3 DEF WorkerWake
<1>4. ASSUME WorkerWait PROVE TypeOK'
  <2>1. m_event' \in [HostTasks -> SUBSET {"worker", "hostFunc"}]
    BY <1>4 DEF WorkerWait, DataInv, Active
  <2>2. m_mutexData' \in [HostTasks -> BOOLEAN]
    BY <1>4 DEF WorkerWait, DataInv, Active
  <2>3. QED
    BY <1>4, <2>1, <2>2 DEF WorkerWait
<1>5. ASSUME WorkerNotified PROVE TypeOK'
  BY <1>5 DEF WorkerNotified
<1>6. ASSUME WorkerRun PROVE TypeOK'
  BY <1>6 DEF WorkerRun, DataInv, Active
<1>7. ASSUME WorkerThrow PROVE TypeOK'
  BY <1>7 DEF WorkerThrow, DataInv, Active
<1>8. ASSUME WorkerSignal PROVE TypeOK'
  BY <1>8 DEF WorkerSignal, NotifyOne, DataInv, Active
<1>9. ASSUME WorkerSetValue PROVE TypeOK'
  BY <1>9 DEF WorkerSetValue, DataInv, Active
<1>10. ASSUME ExecDeviceOp PROVE TypeOK'
  BY <1>10, TailElements DEF ExecDeviceOp, StreamInv
<1>11. ASSUME HostFuncBegins PROVE TypeOK'
  BY <1>11 DEF HostFuncBegins
<1>12. ASSUME HostFuncNotify PROVE TypeOK'
  BY <1>12 DEF HostFuncNotify, StreamInv
<1>13. ASSUME HostFuncSignal PROVE TypeOK'
  BY <1>13 DEF HostFuncSignal, NotifyOne, StreamInv
<1>14. ASSUME HostFuncCheck PROVE TypeOK'
  <2>1. stream' \in Seq(HostTasks \cup DeviceOps)
    <3>1. Tail(stream) \in Seq(HostTasks \cup DeviceOps)
      BY <1>14, TailElements DEF HostFuncCheck, StreamInv
    <3>2. QED
      BY <1>14, <3>1 DEF HostFuncCheck
  <2>2. m_event' \in [HostTasks -> SUBSET {"worker", "hostFunc"}]
    <3>1. Head(stream) \in HostTasks
      BY <1>14 DEF HostFuncCheck, StreamInv
    <3>2. CASE m_event' = [m_event EXCEPT ![Head(stream)] = @ \cup {"hostFunc"}]
      BY <3>1, <3>2
    <3>3. QED
      BY <1>14, <3>2 DEF HostFuncCheck
  <2>3. QED
    BY <1>14, <2>1, <2>2 DEF HostFuncCheck
<1>15. ASSUME HostFuncWakes PROVE TypeOK'
  BY <1>15 DEF HostFuncWakes
<1>16. ASSUME SpuriousWakeup PROVE TypeOK'
  <2>1. m_event' \in [HostTasks -> SUBSET {"worker", "hostFunc"}]
    <3>1. CASE UNCHANGED m_event
      BY <3>1
    <3>2. ASSUME NEW t \in HostTasks, NEW s \in {"worker", "hostFunc"},
                 m_event' = [m_event EXCEPT ![t] = @ \ {s}]
          PROVE  m_event' \in [HostTasks -> SUBSET {"worker", "hostFunc"}]
      BY <3>2
    <3>3. QED
      BY <1>16, <3>1, <3>2 DEF SpuriousWakeup
  <2>2. m_cond' \in BOOLEAN
    BY <1>16 DEF SpuriousWakeup
  <2>3. QED
    BY <1>16, <2>1, <2>2 DEF SpuriousWakeup
<1>17. ASSUME NEW p \in Producers, NEW t \in HostTasks, LaunchHostFunc(p, t) PROVE TypeOK'
  BY <1>17, AppendElements DEF LaunchHostFunc, Goto
<1>18. ASSUME NEW p \in Producers, NEW o \in DeviceOps, LaunchDeviceOp(p, o) PROVE TypeOK'
  BY <1>18, AppendElements DEF LaunchDeviceOp, Goto
<1>19. ASSUME NEW p \in Producers, Submit(p) PROVE TypeOK'
  BY <1>19, AppendElements DEF Submit, Goto, TaskInv
<1>20. ASSUME NEW p \in Producers, SubmitNotify(p) PROVE TypeOK'
  BY <1>20 DEF SubmitNotify, Goto
<1>21. ASSUME NEW p \in Producers, EnqueueReturns(p) PROVE TypeOK'
  BY <1>21 DEF EnqueueReturns, Goto
<1>22. ASSUME NEW p \in Producers, DropHandle(p) PROVE TypeOK'
  BY <1>22 DEF DropHandle, Goto
<1>23. ASSUME NEW p \in Producers, DtorStop(p) PROVE TypeOK'
  BY <1>23 DEF DtorStop, Goto
<1>24. ASSUME NEW p \in Producers, DtorNotify(p) PROVE TypeOK'
  BY <1>24 DEF DtorNotify, Goto
<1>25. ASSUME NEW p \in Producers, DtorJoin(p) PROVE TypeOK'
  BY <1>25 DEF DtorJoin, Goto
<1>26. ASSUME UNCHANGED vars PROVE TypeOK'
  BY <1>26 DEF vars
<1>27. QED
  BY <1>1, <1>2, <1>3, <1>4, <1>5, <1>6, <1>7, <1>8, <1>9, <1>10, <1>11, <1>12, <1>13,
     <1>14, <1>15, <1>16, <1>17, <1>18, <1>19, <1>20, <1>21, <1>22, <1>23, <1>24, <1>25, <1>26
     DEF Next, Worker, Stream, Call, Continue

\* The place of a host function is what the state says.
LEMMA StreamStep ==
  ASSUME IInv, [Next]_vars
  PROVE  StreamInv'
<1> USE TasksAssumption DEF IInv, TypeOK, InHostFunc, data, thread, workerVars, producerVars
<1>1. ASSUME WorkerLock PROVE StreamInv'
  BY <1>1 DEF WorkerLock, StreamInv
<1>2. ASSUME WorkerBlock PROVE StreamInv'
  BY <1>2 DEF WorkerBlock, StreamInv
<1>3. ASSUME WorkerWake PROVE StreamInv'
  BY <1>3 DEF WorkerWake, StreamInv
<1>4. ASSUME WorkerWait PROVE StreamInv'
  BY <1>4 DEF WorkerWait, StreamInv
<1>5. ASSUME WorkerNotified PROVE StreamInv'
  BY <1>5 DEF WorkerNotified, StreamInv
<1>6. ASSUME WorkerRun PROVE StreamInv'
  BY <1>6 DEF WorkerRun, StreamInv, DataInv, Active
<1>7. ASSUME WorkerThrow PROVE StreamInv'
  BY <1>7 DEF WorkerThrow, StreamInv
<1>8. ASSUME WorkerSignal PROVE StreamInv'
  BY <1>8 DEF WorkerSignal, StreamInv
<1>9. ASSUME WorkerSetValue PROVE StreamInv'
  BY <1>9 DEF WorkerSetValue, StreamInv
<1>10. ASSUME ExecDeviceOp PROVE StreamInv'
  <2>1. /\ Distinct(stream') /\ Head(stream) \in Elements(stream)
        /\ Elements(stream') = Elements(stream) \ {Head(stream)}
    BY <1>10, TailElements DEF ExecDeviceOp, StreamInv
  <2>2. QED
    BY <1>10, <2>1 DEF ExecDeviceOp, StreamInv
<1>11. ASSUME HostFuncBegins PROVE StreamInv'
  <2>1. ASSUME NEW t \in HostTasks PROVE m_state[t] # "notified" /\ (m_state[t] = "finished" => t \notin Elements(stream))
    BY <1>11 DEF HostFuncBegins, StreamInv
  <2>2. QED
    BY <1>11, <2>1 DEF HostFuncBegins, StreamInv
<1>12. ASSUME HostFuncNotify PROVE StreamInv'
  <2>1. Head(stream) \in HostTasks /\ stream # <<>> /\ Head(stream) \in Elements(stream)
    BY <1>12, TailElements DEF HostFuncNotify, StreamInv
  <2>2. QED
    BY <1>12, <2>1 DEF HostFuncNotify, StreamInv
<1>13. ASSUME HostFuncSignal PROVE StreamInv'
  BY <1>13 DEF HostFuncSignal, StreamInv
<1>14. ASSUME HostFuncCheck PROVE StreamInv'
  <2>1. Head(stream) \in HostTasks /\ stream # <<>>
    BY <1>14 DEF HostFuncCheck, StreamInv
  <2>2. CASE m_state[Head(stream)] = "finished"
    <3>1. /\ Distinct(stream')
          /\ Elements(stream') = Elements(stream) \ {Head(stream)}
      <4>1. Distinct(Tail(stream)) /\ Elements(Tail(stream)) = Elements(stream) \ {Head(stream)}
        BY <2>1, TailElements DEF StreamInv
      <4>2. QED
        BY <1>14, <2>2, <4>1 DEF HostFuncCheck
    <3>2. QED
      BY <1>14, <2>1, <2>2, <3>1 DEF HostFuncCheck, StreamInv
  <2>3. CASE m_state[Head(stream)] # "finished"
    BY <1>14, <2>1, <2>3 DEF HostFuncCheck, StreamInv
  <2>4. QED
    BY <2>2, <2>3
<1>15. ASSUME HostFuncWakes PROVE StreamInv'
  BY <1>15 DEF HostFuncWakes, StreamInv
<1>16. ASSUME SpuriousWakeup PROVE StreamInv'
  BY <1>16 DEF SpuriousWakeup, StreamInv
<1>17. ASSUME NEW p \in Producers, NEW t \in HostTasks, LaunchHostFunc(p, t) PROVE StreamInv'
  <2>1. t \notin Elements(stream)
    BY <1>17 DEF LaunchHostFunc, StreamInv
  <2>2. /\ Distinct(stream') /\ stream' # <<>>
        /\ Elements(stream') = Elements(stream) \cup {t}
        /\ stream # <<>> => Head(stream') = Head(stream)
        /\ stream = <<>> => Head(stream') = t /\ Elements(stream) = {}
    BY <1>17, <2>1, AppendElements DEF LaunchHostFunc, StreamInv
  <2>3. hostFunc # "idle" => stream # <<>> /\ Head(stream) \in HostTasks
    BY DEF StreamInv
  <2>4. ASSUME NEW u \in HostTasks, u # t
        PROVE  /\ m_state'[u] = "none" => u \notin Elements(stream')
               /\ m_state'[u] = "enqueued" => /\ u \in Elements(stream')
                                              /\ Head(stream') = u => hostFunc' \in {"idle", "notify"}
               /\ m_state'[u] = "notified" => InHostFunc(u)'
               /\ m_state'[u] = "finished" => u \in ran' /\ (u \in Elements(stream') => InHostFunc(u)')
    BY <1>17, <2>2, <2>4 DEF LaunchHostFunc, StreamInv
  <2>5. m_state'[t] = "enqueued" /\ t \in Elements(stream') /\ (Head(stream') = t => hostFunc' = "idle")
    BY <1>17, <2>1, <2>2, <2>3, TailElements DEF LaunchHostFunc, StreamInv
  <2>6. QED
    BY <1>17, <2>2, <2>3, <2>4, <2>5 DEF LaunchHostFunc, StreamInv
<1>18. ASSUME NEW p \in Producers, NEW o \in DeviceOps, LaunchDeviceOp(p, o) PROVE StreamInv'
  <2>1. /\ Distinct(stream') /\ stream' # <<>>
        /\ Elements(stream') = Elements(stream) \cup {o}
        /\ stream # <<>> => Head(stream') = Head(stream)
        /\ stream = <<>> => Head(stream') = o /\ Elements(stream) = {}
    BY <1>18, AppendElements DEF LaunchDeviceOp, StreamInv
  <2>2. QED
    BY <1>18, <2>1 DEF LaunchDeviceOp, StreamInv
<1>19. ASSUME NEW p \in Producers, Submit(p) PROVE StreamInv'
  BY <1>19 DEF Submit, Goto, StreamInv
<1>20. ASSUME NEW p \in Producers, SubmitNotify(p) PROVE StreamInv'
  BY <1>20 DEF SubmitNotify, Goto, StreamInv
<1>21. ASSUME NEW p \in Producers, EnqueueReturns(p) PROVE StreamInv'
  BY <1>21 DEF EnqueueReturns, Goto, StreamInv
<1>22. ASSUME NEW p \in Producers, DropHandle(p) PROVE StreamInv'
  BY <1>22 DEF DropHandle, Goto, StreamInv
<1>23. ASSUME NEW p \in Producers, DtorStop(p) PROVE StreamInv'
  BY <1>23 DEF DtorStop, Goto, StreamInv
<1>24. ASSUME NEW p \in Producers, DtorNotify(p) PROVE StreamInv'
  BY <1>24 DEF DtorNotify, Goto, StreamInv
<1>25. ASSUME NEW p \in Producers, DtorJoin(p) PROVE StreamInv'
  BY <1>25 DEF DtorJoin, Goto, StreamInv
<1>26. ASSUME UNCHANGED vars PROVE StreamInv'
  BY <1>26 DEF vars, StreamInv
<1>27. QED
  BY <1>1, <1>2, <1>3, <1>4, <1>5, <1>6, <1>7, <1>8, <1>9, <1>10, <1>11, <1>12, <1>13,
     <1>14, <1>15, <1>16, <1>17, <1>18, <1>19, <1>20, <1>21, <1>22, <1>23, <1>24, <1>25, <1>26
     DEF Next, Worker, Stream, Call, Continue

\* A task runs under the mutex of its data.
LEMMA DataStep ==
  ASSUME IInv, [Next]_vars
  PROVE  DataInv'
<1> USE TasksAssumption DEF IInv, TypeOK, Active, data, thread, workerVars, producerVars
<1>1. ASSUME WorkerLock PROVE DataInv'
  <2>1. CASE m_tasks = <<>>
    BY <1>1, <2>1 DEF WorkerLock, DataInv
  <2>2. CASE m_tasks # <<>>
    <3>1. Head(m_tasks) \in HostTasks
      BY <2>2, TailElements DEF TaskInv
    <3>2. QED
      BY <1>1, <2>2, <3>1 DEF WorkerLock, DataInv
  <2>3. QED
    BY <2>1, <2>2
<1>2. ASSUME WorkerBlock PROVE DataInv'
  BY <1>2 DEF WorkerBlock, DataInv
<1>3. ASSUME WorkerWake PROVE DataInv'
  BY <1>3 DEF WorkerWake, DataInv
<1>4. ASSUME WorkerWait PROVE DataInv'
  BY <1>4 DEF WorkerWait, DataInv
<1>5. ASSUME WorkerNotified PROVE DataInv'
  BY <1>5 DEF WorkerNotified, DataInv
<1>6. ASSUME WorkerRun PROVE DataInv'
  BY <1>6 DEF WorkerRun, DataInv
<1>7. ASSUME WorkerThrow PROVE DataInv'
  BY <1>7 DEF WorkerThrow, DataInv
<1>8. ASSUME WorkerSignal PROVE DataInv'
  BY <1>8 DEF WorkerSignal, DataInv
<1>9. ASSUME WorkerSetValue PROVE DataInv'
  BY <1>9 DEF WorkerSetValue, DataInv
<1>10. ASSUME ExecDeviceOp PROVE DataInv'
  BY <1>10 DEF ExecDeviceOp, DataInv
<1>11. ASSUME HostFuncBegins PROVE DataInv'
  BY <1>11 DEF HostFuncBegins, DataInv
<1>12. ASSUME HostFuncNotify PROVE DataInv'
  <2>1. Head(stream) \in HostTasks /\ stream # <<>> /\ Head(stream) \in Elements(stream)
    BY <1>12, TailElements DEF HostFuncNotify, StreamInv
  <2>2. m_state[Head(stream)] # "finished"
    BY <1>12, <2>1 DEF HostFuncNotify, StreamInv, InHostFunc
  <2>3. QED
    BY <1>12, <2>1, <2>2 DEF HostFuncNotify, DataInv
<1>13. ASSUME HostFuncSignal PROVE DataInv'
  BY <1>13 DEF HostFuncSignal, DataInv
<1>14. ASSUME HostFuncCheck PROVE DataInv'
  BY <1>14 DEF HostFuncCheck, DataInv
<1>15. ASSUME HostFuncWakes PROVE DataInv'
  BY <1>15 DEF HostFuncWakes, DataInv
<1>16. ASSUME SpuriousWakeup PROVE DataInv'
  BY <1>16 DEF SpuriousWakeup, DataInv
<1>17. ASSUME NEW p \in Producers, NEW t \in HostTasks, LaunchHostFunc(p, t) PROVE DataInv'
  BY <1>17 DEF LaunchHostFunc, DataInv, TaskInv
<1>18. ASSUME NEW p \in Producers, NEW o \in DeviceOps, LaunchDeviceOp(p, o) PROVE DataInv'
  BY <1>18 DEF LaunchDeviceOp, Goto, DataInv
<1>19. ASSUME NEW p \in Producers, Submit(p) PROVE DataInv'
  BY <1>19 DEF Submit, Goto, DataInv
<1>20. ASSUME NEW p \in Producers, SubmitNotify(p) PROVE DataInv'
  BY <1>20 DEF SubmitNotify, Goto, DataInv
<1>21. ASSUME NEW p \in Producers, EnqueueReturns(p) PROVE DataInv'
  BY <1>21 DEF EnqueueReturns, Goto, DataInv
<1>22. ASSUME NEW p \in Producers, DropHandle(p) PROVE DataInv'
  BY <1>22 DEF DropHandle, Goto, DataInv
<1>23. ASSUME NEW p \in Producers, DtorStop(p) PROVE DataInv'
  BY <1>23 DEF DtorStop, Goto, DataInv
<1>24. ASSUME NEW p \in Producers, DtorNotify(p) PROVE DataInv'
  BY <1>24 DEF DtorNotify, Goto, DataInv
<1>25. ASSUME NEW p \in Producers, DtorJoin(p) PROVE DataInv'
  BY <1>25 DEF DtorJoin, Goto, DataInv
<1>26. ASSUME UNCHANGED vars PROVE DataInv'
  BY <1>26 DEF vars, DataInv
<1>27. QED
  BY <1>1, <1>2, <1>3, <1>4, <1>5, <1>6, <1>7, <1>8, <1>9, <1>10, <1>11, <1>12, <1>13,
     <1>14, <1>15, <1>16, <1>17, <1>18, <1>19, <1>20, <1>21, <1>22, <1>23, <1>24, <1>25, <1>26
     DEF Next, Worker, Stream, Call, Continue

\* The place of a packaged task is what its future says.
LEMMA TaskStep ==
  ASSUME IInv, [Next]_vars
  PROVE  TaskInv'
<1> USE TasksAssumption DEF IInv, TypeOK, Active, data, thread, workerVars, producerVars
<1>1. ASSUME WorkerLock PROVE TaskInv'
  <2>1. CASE m_tasks = <<>>
    BY <1>1, <2>1 DEF WorkerLock, TaskInv
  <2>2. CASE m_tasks # <<>>
    <3>1. /\ Distinct(Tail(m_tasks)) /\ Head(m_tasks) \in HostTasks /\ Head(m_tasks) \in Elements(m_tasks)
          /\ Elements(Tail(m_tasks)) = Elements(m_tasks) \ {Head(m_tasks)}
      BY <2>2, TailElements DEF TaskInv
    <3>2. /\ worker = "lock" /\ worker' = "data" /\ task' = Head(m_tasks) /\ m_tasks' = Tail(m_tasks)
          /\ UNCHANGED <<pc, enqueuing, future, m_state>>
      BY <1>1, <2>2 DEF WorkerLock
    <3>3. QED
      BY <3>1, <3>2 DEF TaskInv
  <2>3. QED
    BY <2>1, <2>2
<1>2. ASSUME WorkerBlock PROVE TaskInv'
  BY <1>2 DEF WorkerBlock, TaskInv
<1>3. ASSUME WorkerWake PROVE TaskInv'
  BY <1>3 DEF WorkerWake, TaskInv
<1>4. ASSUME WorkerWait PROVE TaskInv'
  BY <1>4 DEF WorkerWait, TaskInv
<1>5. ASSUME WorkerNotified PROVE TaskInv'
  BY <1>5 DEF WorkerNotified, TaskInv
<1>6. ASSUME WorkerRun PROVE TaskInv'
  BY <1>6 DEF WorkerRun, TaskInv, DataInv
<1>7. ASSUME WorkerThrow PROVE TaskInv'
  BY <1>7 DEF WorkerThrow, TaskInv, DataInv
<1>8. ASSUME WorkerSignal PROVE TaskInv'
  BY <1>8 DEF WorkerSignal, TaskInv
<1>9. ASSUME WorkerSetValue PROVE TaskInv'
  BY <1>9 DEF WorkerSetValue, TaskInv, DataInv
<1>10. ASSUME ExecDeviceOp PROVE TaskInv'
  BY <1>10 DEF ExecDeviceOp, TaskInv
<1>11. ASSUME HostFuncBegins PROVE TaskInv'
  BY <1>11 DEF HostFuncBegins, TaskInv
<1>12. ASSUME HostFuncNotify PROVE TaskInv'
  <2>1. Head(stream) \in HostTasks /\ stream # <<>> /\ Head(stream) \in Elements(stream)
    BY <1>12, TailElements DEF HostFuncNotify, StreamInv
  <2>2. m_state[Head(stream)] \notin {"none", "finished"}
    BY <1>12, <2>1 DEF HostFuncNotify, StreamInv, InHostFunc
  <2>3. QED
    BY <1>12, <2>1, <2>2 DEF HostFuncNotify, TaskInv
<1>13. ASSUME HostFuncSignal PROVE TaskInv'
  BY <1>13 DEF HostFuncSignal, TaskInv
<1>14. ASSUME HostFuncCheck PROVE TaskInv'
  BY <1>14 DEF HostFuncCheck, TaskInv
<1>15. ASSUME HostFuncWakes PROVE TaskInv'
  BY <1>15 DEF HostFuncWakes, TaskInv
<1>16. ASSUME SpuriousWakeup PROVE TaskInv'
  BY <1>16 DEF SpuriousWakeup, TaskInv
<1>17. ASSUME NEW p \in Producers, NEW t \in HostTasks, LaunchHostFunc(p, t) PROVE TaskInv'
  BY <1>17 DEF LaunchHostFunc, Goto, TaskInv
<1>18. ASSUME NEW p \in Producers, NEW o \in DeviceOps, LaunchDeviceOp(p, o) PROVE TaskInv'
  BY <1>18 DEF LaunchDeviceOp, Goto, TaskInv
<1>19. ASSUME NEW p \in Producers, Submit(p) PROVE TaskInv'
  <2> DEFINE t == enqueuing[p]
  <2>1. t \in HostTasks /\ future[t] = "none" /\ m_state[t] # "none"
    BY <1>19 DEF Submit, TaskInv
  <2>2. t \notin Elements(m_tasks) /\ (worker \in Active => task # t)
    BY <2>1 DEF TaskInv
  <2>3. Distinct(m_tasks') /\ Elements(m_tasks') = Elements(m_tasks) \cup {t}
    BY <1>19, <2>1, <2>2, AppendElements DEF Submit, TaskInv
  <2>4. QED
    BY <1>19, <2>1, <2>2, <2>3 DEF Submit, Goto, TaskInv
<1>20. ASSUME NEW p \in Producers, SubmitNotify(p) PROVE TaskInv'
  BY <1>20 DEF SubmitNotify, Goto, TaskInv
<1>21. ASSUME NEW p \in Producers, EnqueueReturns(p) PROVE TaskInv'
  BY <1>21 DEF EnqueueReturns, Goto, TaskInv
<1>22. ASSUME NEW p \in Producers, DropHandle(p) PROVE TaskInv'
  BY <1>22 DEF DropHandle, Goto, TaskInv
<1>23. ASSUME NEW p \in Producers, DtorStop(p) PROVE TaskInv'
  BY <1>23 DEF DtorStop, Goto, TaskInv
<1>24. ASSUME NEW p \in Producers, DtorNotify(p) PROVE TaskInv'
  BY <1>24 DEF DtorNotify, Goto, TaskInv
<1>25. ASSUME NEW p \in Producers, DtorJoin(p) PROVE TaskInv'
  BY <1>25 DEF DtorJoin, Goto, TaskInv
<1>26. ASSUME UNCHANGED vars PROVE TaskInv'
  BY <1>26 DEF vars, TaskInv
<1>27. QED
  BY <1>1, <1>2, <1>3, <1>4, <1>5, <1>6, <1>7, <1>8, <1>9, <1>10, <1>11, <1>12, <1>13,
     <1>14, <1>15, <1>16, <1>17, <1>18, <1>19, <1>20, <1>21, <1>22, <1>23, <1>24, <1>25, <1>26
     DEF Next, Worker, Stream, Call, Continue

\* The thread stops last.
LEMMA ShutdownStep ==
  ASSUME IInv, [Next]_vars
  PROVE  ShutdownInv'
<1> USE TasksAssumption DEF IInv, TypeOK, data, thread, workerVars, producerVars
<1>1. ASSUME WorkerLock PROVE ShutdownInv'
  BY <1>1 DEF WorkerLock, ShutdownInv
<1>2. ASSUME WorkerBlock PROVE ShutdownInv'
  BY <1>2 DEF WorkerBlock, ShutdownInv
<1>3. ASSUME WorkerWake PROVE ShutdownInv'
  BY <1>3 DEF WorkerWake, ShutdownInv
<1>4. ASSUME WorkerWait PROVE ShutdownInv'
  BY <1>4 DEF WorkerWait, ShutdownInv
<1>5. ASSUME WorkerNotified PROVE ShutdownInv'
  BY <1>5 DEF WorkerNotified, ShutdownInv
<1>6. ASSUME WorkerRun PROVE ShutdownInv'
  BY <1>6 DEF WorkerRun, ShutdownInv
<1>7. ASSUME WorkerThrow PROVE ShutdownInv'
  BY <1>7 DEF WorkerThrow, ShutdownInv
<1>8. ASSUME WorkerSignal PROVE ShutdownInv'
  BY <1>8 DEF WorkerSignal, ShutdownInv
<1>9. ASSUME WorkerSetValue PROVE ShutdownInv'
  BY <1>9 DEF WorkerSetValue, ShutdownInv
<1>10. ASSUME ExecDeviceOp PROVE ShutdownInv'
  BY <1>10 DEF ExecDeviceOp, ShutdownInv
<1>11. ASSUME HostFuncBegins PROVE ShutdownInv'
  BY <1>11 DEF HostFuncBegins, ShutdownInv
<1>12. ASSUME HostFuncNotify PROVE ShutdownInv'
  BY <1>12 DEF HostFuncNotify, ShutdownInv
<1>13. ASSUME HostFuncSignal PROVE ShutdownInv'
  BY <1>13 DEF HostFuncSignal, ShutdownInv
<1>14. ASSUME HostFuncCheck PROVE ShutdownInv'
  BY <1>14 DEF HostFuncCheck, ShutdownInv
<1>15. ASSUME HostFuncWakes PROVE ShutdownInv'
  BY <1>15 DEF HostFuncWakes, ShutdownInv
<1>16. ASSUME SpuriousWakeup PROVE ShutdownInv'
  BY <1>16 DEF SpuriousWakeup, ShutdownInv
<1>17. ASSUME NEW p \in Producers, NEW t \in HostTasks, LaunchHostFunc(p, t) PROVE ShutdownInv'
  BY <1>17 DEF LaunchHostFunc, Goto, ShutdownInv
<1>18. ASSUME NEW p \in Producers, NEW o \in DeviceOps, LaunchDeviceOp(p, o) PROVE ShutdownInv'
  BY <1>18 DEF LaunchDeviceOp, Goto, ShutdownInv
<1>19. ASSUME NEW p \in Producers, Submit(p) PROVE ShutdownInv'
  <2>1. ~m_stop /\ worker # "exit" /\ worker' # "none" /\ worker' # "exit"
    BY <1>19 DEF Submit, ShutdownInv
  <2>2. QED
    BY <1>19, <2>1 DEF Submit, Goto, ShutdownInv
<1>20. ASSUME NEW p \in Producers, SubmitNotify(p) PROVE ShutdownInv'
  BY <1>20 DEF SubmitNotify, Goto, ShutdownInv
<1>21. ASSUME NEW p \in Producers, EnqueueReturns(p) PROVE ShutdownInv'
  BY <1>21 DEF EnqueueReturns, Goto, ShutdownInv
<1>22. ASSUME NEW p \in Producers, DropHandle(p) PROVE ShutdownInv'
  BY <1>22 DEF DropHandle, Goto, ShutdownInv
<1>23. ASSUME NEW p \in Producers, DtorStop(p) PROVE ShutdownInv'
  BY <1>23 DEF DtorStop, Goto, ShutdownInv
<1>24. ASSUME NEW p \in Producers, DtorNotify(p) PROVE ShutdownInv'
  BY <1>24 DEF DtorNotify, Goto, ShutdownInv
<1>25. ASSUME NEW p \in Producers, DtorJoin(p) PROVE ShutdownInv'
  BY <1>25 DEF DtorJoin, Goto, ShutdownInv
<1>26. ASSUME UNCHANGED vars PROVE ShutdownInv'
  BY <1>26 DEF vars, ShutdownInv
<1>27. QED
  BY <1>1, <1>2, <1>3, <1>4, <1>5, <1>6, <1>7, <1>8, <1>9, <1>10, <1>11, <1>12, <1>13,
     <1>14, <1>15, <1>16, <1>17, <1>18, <1>19, <1>20, <1>21, <1>22, <1>23, <1>24, <1>25, <1>26
     DEF Next, Worker, Stream, Call, Continue

-----------------------------------------------------------------------------
(* The theorems                                                            *)

\* The invariant holds in every state the queue can reach.
THEOREM Invariance == Spec => []IInv
<1>1. Init => IInv
  <2>1. SUFFICES ASSUME Init PROVE IInv
    OBVIOUS
  <2>2. TypeOK
    <3>1. /\ <<>> \in Seq(HostTasks \cup DeviceOps) /\ <<>> \in Seq(HostTasks)
          /\ m_event \in [HostTasks -> SUBSET {"worker", "hostFunc"}]
          /\ m_mutexData \in [HostTasks -> BOOLEAN]
      BY <2>1 DEF Init
    <3>2. QED
      BY <2>1, <3>1 DEF Init, TypeOK
  <2>3. Elements(<<>>) = {} /\ Distinct(<<>>)
    BY DEF Elements, Distinct
  <2>4. StreamInv /\ DataInv /\ TaskInv /\ ShutdownInv
    BY <2>1, <2>3 DEF Init, StreamInv, DataInv, TaskInv, ShutdownInv, Active
  <2>5. QED
    BY <2>2, <2>4 DEF IInv
<1>2. IInv /\ [Next]_vars => IInv'
  BY TypeStep, StreamStep, DataStep, TaskStep, ShutdownStep DEF IInv
<1>3. QED
  BY <1>1, <1>2, PTL DEF Spec

\* A host task runs in its turn, inside its host function, however the runtime
\* and the thread of the queue are scheduled.
THEOREM TasksRunInTheirTurn == Spec => []RunsInItsTurn
<1>1. IInv => RunsInItsTurn
  BY DEF IInv, StreamInv, DataInv, InHostFunc, RunsInItsTurn, Active
<1>2. QED
  BY <1>1, Invariance, PTL

\* A host task that has left the stream has run.
THEOREM WaitCountsHostTasks == Spec => []CompletedMeansRan
<1>1. IInv => CompletedMeansRan
  <2>1. IInv /\ stream # <<>> => Head(stream) \in Elements(stream)
    BY TailElements DEF IInv, TypeOK, StreamInv
  <2>2. QED
    BY <2>1 DEF IInv, TypeOK, StreamInv, InHostFunc, CompletedMeansRan
<1>2. QED
  BY <1>1, Invariance, PTL

\* The plain pointer a host function gets is to data that somebody still holds.
THEOREM PointersAreValid == Spec => []DataOutlivesHostFunc
<1>1. IInv => DataOutlivesHostFunc
  <2>1. SUFFICES ASSUME IInv, NEW t \in HostTasks \cap Elements(stream) PROVE Alive(t)
    BY DEF DataOutlivesHostFunc
  <2>2. m_state[t] # "none"
    BY <2>1 DEF IInv, StreamInv
  <2>3. CASE future[t] \in {"none", "pending"}
    BY <2>1, <2>2, <2>3 DEF IInv, TaskInv, Alive
  <2>4. CASE future[t] \in {"value", "exception"}
    BY <2>1, <2>4 DEF IInv, TaskInv, StreamInv, InHostFunc, Alive
  <2>5. QED
    BY <2>1, <2>3, <2>4 DEF IInv, TypeOK
<1>2. QED
  BY <1>1, Invariance, PTL

\* When the destructor of the queue has returned, every host task has run or
\* has thrown.
THEOREM NothingIsLeft == Spec => []DestroyedMeansDone
<1>1. IInv => DestroyedMeansDone
  <2>1. SUFFICES ASSUME IInv, \A p \in Producers : pc[p] = "gone",
                        NEW t \in HostTasks, m_state[t] # "none"
                 PROVE  t \in ran \/ future[t] = "exception"
    BY DEF DestroyedMeansDone
  <2>2. future[t] # "none"
    BY <2>1 DEF IInv, TaskInv
  <2>3. worker \notin Active /\ m_tasks = <<>>
    BY <2>1 DEF IInv, ShutdownInv, Active
  <2>4. future[t] # "pending"
    BY <2>1, <2>3, ElementsOfSeq DEF IInv, TypeOK, TaskInv
  <2>5. QED
    BY <2>1, <2>2, <2>4 DEF IInv, TypeOK, TaskInv, StreamInv
<1>2. QED
  BY <1>1, Invariance, PTL
=============================================================================
