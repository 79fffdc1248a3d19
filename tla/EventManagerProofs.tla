------------------------ MODULE EventManagerProofs ------------------------
(***************************************************************************)
(* Proofs about EventManager for any number of workers, callers, tasks and *)
(* descriptors.                                                            *)
(***************************************************************************)
EXTENDS EventManager, TLAPS

(* The part of TypeOK that the other invariants rest on: who holds the     *)
(* mutex, where each thread is, and what the thread set and the iterators  *)
(* range over.                                                             *)
ThreadInv ==
  /\ lock \in Workers \cup {None}
  /\ running \in BOOLEAN /\ wake \in BOOLEAN
  /\ threadSet \subseteq Workers
  /\ wpc \in [Workers -> Locked \cup Unlocked]
  /\ \A w \in Workers : wpc[w] \in Locked <=> lock = w
  /\ cpc \in [Callers -> {"idle", "stopping", "destroying", "destroyed"}]
  /\ iter \in [Callers -> Workers \cup {None}]

(* Steps that touch neither the threads nor the mutex.                     *)
LEMMA ThreadInvStutter ==
  ASSUME ThreadInv,
         UNCHANGED <<lock, running, threadSet, wpc, cpc, iter>>,
         wake' \in BOOLEAN
  PROVE  ThreadInv'
  BY Zenon DEF ThreadInv

(* The mutex is held exactly by the worker inside a long critical section  *)
(* of thread_main, for any pool size.                                      *)
LEMMA ThreadInvStep == ThreadInv /\ [Next]_vars => ThreadInv'
<1> SUFFICES ASSUME ThreadInv, [Next]_vars PROVE ThreadInv'
  BY Zenon
<1> USE EMAssumption DEF EMAssumption, Locked, Unlocked
<1>1. CASE Tick
  BY Zenon, <1>1, ThreadInvStutter DEF Tick, ThreadInv, workerVars, callerVars
<1>2. CASE \E fd \in Fds : CloseFd(fd) \/ \E s \in ReadyStates : SetReady(fd, s)
  BY Zenon, <1>2, ThreadInvStutter DEF CloseFd, SetReady, ThreadInv, workerVars, callerVars
<1>3. CASE \E c \in Callers, new \in SUBSET Workers : start(c, new)
  BY <1>3 DEF start, ThreadInv, callerVars
<1>4. ASSUME NEW c \in Callers, NEW mode \in {"stopping", "destroying"}, StopBegin(c, mode)
      PROVE  ThreadInv'
  <2>1. /\ lock' = lock /\ wpc' = wpc
        /\ running' \in BOOLEAN /\ wake' \in BOOLEAN
    BY Zenon, <1>4 DEF StopBegin, StopFlag, workerVars
  <2>2. threadSet' \subseteq Workers
    BY Zenon, <1>4 DEF StopBegin, StopFinish, ThreadInv
  <2>3. cpc' \in [Callers -> {"idle", "stopping", "destroying", "destroyed"}]
    BY ZenonT(60), <1>4 DEF StopBegin, ThreadInv
  <2>4. iter' \in [Callers -> Workers \cup {None}]
    BY <1>4 DEF StopBegin, ThreadInv
  <2> QED
    BY Zenon, <2>1, <2>2, <2>3, <2>4 DEF ThreadInv
<1>5. ASSUME NEW c \in Callers, StopJoin(c)
      PROVE  ThreadInv'
  <2>1. UNCHANGED <<lock, wpc, running, wake>>
    BY Zenon, <1>5 DEF StopJoin, workerVars
  <2>2. threadSet' \subseteq Workers
    BY Zenon, <1>5 DEF StopJoin, StopFinish, ThreadInv
  <2>3. cpc' \in [Callers -> {"idle", "stopping", "destroying", "destroyed"}]
    BY <1>5 DEF StopJoin, ThreadInv
  <2>4. iter' \in [Callers -> Workers \cup {None}]
    BY <1>5 DEF StopJoin, ThreadInv
  <2> QED
    BY Zenon, <2>1, <2>2, <2>3, <2>4 DEF ThreadInv
<1>6. CASE \E t \in Tasks : cancel(t) \/ \E at \in Times : enqueue(t, at)
  BY Zenon, <1>6, ThreadInvStutter DEF cancel, enqueue, ThreadInv, workerVars, callerVars
<1>7. CASE \E fd \in Fds, type \in EventTypes : watchFd(fd, type) \/ removeFd(fd, type)
  BY Zenon, <1>7, ThreadInvStutter DEF watchFd, removeFd, ThreadInv, workerVars, callerVars
<1>8. ASSUME NEW w \in Workers, WorkerStep(w) \/ EpollFail(w)
      PROVE  ThreadInv'
  <2>1. CASE Acquire(w)
    BY ZenonT(60), <2>1 DEF Acquire, AfterLock, ThreadInv, callerVars
  <2>2. CASE Sleep(w)
    BY ZenonT(60), <2>2 DEF Sleep, ThreadInv, callerVars
  <2>3. CASE Exit(w)
    BY ZenonT(60), <2>3 DEF Exit, ExitWake, ThreadInv, callerVars
  <2>4. CASE EpollReturn(w)
    BY ZenonT(60), <2>4 DEF EpollReturn, ThreadInv, callerVars
  <2>5. CASE TakeEvent(w)
    BY Zenon, <2>5 DEF TakeEvent, ThreadInv, callerVars
  <2>6. CASE CallHandler(w)
    BY ZenonT(60), <2>6 DEF CallHandler, ThreadInv, callerVars
  <2>7. CASE EndEvent(w)
    BY Zenon, <2>7 DEF EndEvent, ThreadInv, callerVars
  <2>8. CASE EndBatch(w)
    BY <2>8 DEF EndBatch, ThreadInv, callerVars
  <2>9. CASE PopTask(w)
    BY ZenonT(60), <2>9 DEF PopTask, ThreadInv, callerVars
  <2>10. CASE RunTask(w)
    BY <2>10 DEF RunTask, ThreadInv, callerVars
  <2>11. CASE Return(w)
    BY ZenonT(60), <2>11 DEF Return, InCallback, ThreadInv, callerVars
  <2>12. CASE EndDrain(w)
    BY ZenonT(60), <2>12 DEF EndDrain, ThreadInv, callerVars
  <2>13. CASE EpollFail(w)
    BY ZenonT(60), <2>13 DEF EpollFail, ThreadInv, callerVars
  <2> QED
    BY Zenon, <1>8, <2>1, <2>2, <2>3, <2>4, <2>5, <2>6, <2>7, <2>8, <2>9, <2>10, <2>11, <2>12,
       <2>13 DEF WorkerStep
<1>9. CASE UNCHANGED vars
  BY Zenon, <1>9, ThreadInvStutter DEF vars, ThreadInv, workerVars, callerVars
<1> QED
  BY Zenon, <1>1, <1>2, <1>3, <1>4, <1>5, <1>6, <1>7, <1>8, <1>9 DEF Next

-----------------------------------------------------------------------------
(* The rest of TypeOK.                                                     *)
DataInv ==
  /\ tstate \in [Tasks -> TaskStates] /\ when \in [Tasks -> Nat]
  /\ cancelled \subseteq Tasks
  /\ fds \in [Fds -> SUBSET EventTypes] /\ mask \in [Fds -> SUBSET EventTypes]
  /\ registered \subseteq Fds
  /\ ready \in [Fds -> SUBSET Flags]
  /\ now \in Nat /\ intr \in Nat
  /\ deadline \in [Workers -> Nat]
  /\ batch \in [Workers -> SUBSET [fd : Fds \cup {None}, flags : SUBSET Flags]]
  /\ cur \in [Workers -> [fd : Fds, flags : SUBSET Flags, stage : 0..3] \cup {None}]
  /\ task \in [Workers -> Tasks \cup {None}]

(* epollUpdate keeps the registration well typed.                          *)
LEMMA EpollUpdateType ==
  ASSUME DataInv, NEW fd \in Fds, NEW op, NEW types \in SUBSET EventTypes,
         epollUpdate(fd, op, types)
  PROVE  registered' \subseteq Fds /\ mask' \in [Fds -> SUBSET EventTypes]
  BY Zenon DEF epollUpdate, DataInv

(* What epoll_wait can return is a set of events.                          *)
LEMMA PendingType ==
  ASSUME DataInv
  PROVE  Pending \subseteq [fd : Fds \cup {None}, flags : SUBSET Flags]
<1>1. \A fd \in Fds : Reported(fd) \subseteq Flags
  BY Zenon DEF Reported, DataInv
<1> QED
  BY <1>1 DEF Pending, ReadyFds, Flags

(* Each step keeps the data well typed.                                    *)
LEMMA DataInvStep == ThreadInv /\ DataInv /\ [Next]_vars => DataInv'
<1> SUFFICES ASSUME ThreadInv, DataInv, [Next]_vars PROVE DataInv'
  BY Zenon
<1> USE EMAssumption DEF EMAssumption, taskVars, fdVars, workerVars, TaskStates
<1>1. CASE Tick
  BY <1>1 DEF Tick, DataInv
<1>2. CASE \E fd \in Fds : CloseFd(fd) \/ \E s \in ReadyStates : SetReady(fd, s)
  <2>1. \A s \in ReadyStates : s \in SUBSET Flags
    BY Zenon DEF Flags
  <2>2. ready' \in [Fds -> SUBSET Flags]
    <3>1. CASE \E fd \in Fds : CloseFd(fd)
      BY <3>1 DEF CloseFd, DataInv
    <3>2. CASE \E fd \in Fds : \E s \in ReadyStates : SetReady(fd, s)
      BY <3>2, <2>1 DEF SetReady, DataInv
    <3> QED
      BY Zenon, <1>2, <3>1, <3>2
  <2> QED
    BY <1>2, <2>2 DEF CloseFd, SetReady, DataInv
<1>3. CASE \E c \in Callers, new \in SUBSET Workers : start(c, new)
  BY <1>3 DEF start, DataInv
<1>4. ASSUME NEW c \in Callers, NEW mode \in {"stopping", "destroying"}, StopBegin(c, mode)
      PROVE  DataInv'
  BY <1>4 DEF StopBegin, StopFinish, DataInv
<1>5. ASSUME NEW c \in Callers, StopJoin(c)
      PROVE  DataInv'
  BY <1>5 DEF StopJoin, StopFinish, DataInv
<1>6. CASE \E t \in Tasks : cancel(t) \/ \E at \in Times : enqueue(t, at)
  BY <1>6 DEF cancel, enqueue, DataInv
<1>7. ASSUME NEW fd \in Fds, NEW type \in EventTypes, watchFd(fd, type) \/ removeFd(fd, type)
      PROVE  DataInv'
  <2>1. fds' \in [Fds -> SUBSET EventTypes]
    BY <1>7 DEF watchFd, removeFd, DataInv
  <2>2. fds'[fd] \in SUBSET EventTypes
    BY Zenon, <2>1
  <2>3. registered' \subseteq Fds /\ mask' \in [Fds -> SUBSET EventTypes]
    BY Zenon, <1>7, <2>2, EpollUpdateType DEF watchFd, removeFd
  <2> QED
    BY <1>7, <2>1, <2>3 DEF watchFd, removeFd, DataInv
<1>8. ASSUME NEW w \in Workers, WorkerStep(w) \/ EpollFail(w)
      PROVE  DataInv'
  <2>1. CASE Acquire(w)
    BY Zenon, <2>1 DEF Acquire, DataInv
  <2>2. CASE Sleep(w)
    <3>1. \A d \in Nat : TimeoutFor(d) \subseteq Nat
      BY DEF TimeoutFor
    <3>2. \A t \in queued : (IF when[t] < now THEN 0 ELSE when[t] - now) \in Nat
      BY DEF queued, DataInv
    <3>3. deadline' \in [Workers -> Nat]
      BY <2>2, <3>1, <3>2 DEF Sleep, DataInv
    <3> QED
      BY Zenon, <2>2, <3>3 DEF Sleep, DataInv
  <2>3. CASE Exit(w)
    BY Zenon, <2>3 DEF Exit, DataInv
  <2>4. CASE EpollReturn(w)
    BY <2>4, PendingType DEF EpollReturn, DataInv
  <2>5. CASE TakeEvent(w)
    <3>1. PICK e \in batch[w] :
            /\ batch' = [batch EXCEPT ![w] = @ \ {e}]
            /\ IF e.fd = None
               THEN wake' = FALSE /\ cur' = cur
               ELSE wake' = wake /\ cur' = [cur EXCEPT ![w] =
                                       [fd |-> e.fd, flags |-> e.flags, stage |-> 0]]
      BY Zenon, <2>5 DEF TakeEvent
    <3>0. e \in [fd : Fds \cup {None}, flags : SUBSET Flags]
      BY Zenon, <3>1 DEF DataInv
    <3>2. e.fd \in Fds \cup {None} /\ e.flags \in SUBSET Flags
      BY Zenon, <3>0
    <3>3. batch' \in [Workers -> SUBSET [fd : Fds \cup {None}, flags : SUBSET Flags]]
      BY Zenon, <3>1 DEF DataInv
    <3>4. cur' \in [Workers -> [fd : Fds, flags : SUBSET Flags, stage : 0..3] \cup {None}]
      BY <3>1, <3>2 DEF DataInv
    <3> QED
      BY Zenon, <2>5, <3>3, <3>4 DEF TakeEvent, DataInv
  <2>6. CASE CallHandler(w)
    <3>1. PICK k \in 1..3 : cur' = [cur EXCEPT ![w].stage = k]
      BY Zenon, <2>6 DEF CallHandler, Callable
    <3>2. cur[w] \in [fd : Fds, flags : SUBSET Flags, stage : 0..3]
      BY Zenon, <2>6 DEF CallHandler, DataInv
    <3>3. cur' \in [Workers -> [fd : Fds, flags : SUBSET Flags, stage : 0..3] \cup {None}]
      <4>1. [cur[w] EXCEPT !.stage = k] \in [fd : Fds, flags : SUBSET Flags, stage : 0..3]
        BY <3>2
      <4> QED BY Zenon, <3>1, <4>1 DEF DataInv
    <3> QED
      BY Zenon, <2>6, <3>3 DEF CallHandler, DataInv
  <2>7. CASE EndEvent(w)
    BY Zenon, <2>7 DEF EndEvent, DataInv
  <2>8. CASE EndBatch(w)
    BY Zenon, <2>8 DEF EndBatch, DataInv
  <2>9. CASE PopTask(w)
    BY <2>9 DEF PopTask, queued, DataInv
  <2>10. CASE RunTask(w)
    BY <2>10 DEF RunTask, DataInv
  <2>11. CASE Return(w)
    BY Zenon, <2>11 DEF Return, DataInv
  <2>12. CASE EndDrain(w)
    BY Zenon, <2>12 DEF EndDrain, DataInv
  <2>13. CASE EpollFail(w)
    BY <2>13 DEF EpollFail, DataInv
  <2> QED
    BY Zenon, <1>8, <2>1, <2>2, <2>3, <2>4, <2>5, <2>6, <2>7, <2>8, <2>9, <2>10, <2>11,
       <2>12, <2>13 DEF WorkerStep
<1>9. CASE UNCHANGED vars
  BY Zenon, <1>9 DEF vars, DataInv
<1> QED
  BY Zenon, <1>1, <1>2, <1>3, <1>4, <1>5, <1>6, <1>7, <1>8, <1>9 DEF Next

(* The constructor establishes the thread invariant.                       *)
LEMMA ThreadInvInit == Init => ThreadInv
<1> SUFFICES ASSUME Init PROVE ThreadInv
  BY Zenon
<1>1. \A w \in Workers : wpc[w] \notin Locked /\ lock # w
  BY Zenon, EMAssumption DEF EMAssumption, Init, Locked
<1>2. wpc \in [Workers -> Locked \cup Unlocked]
  BY Zenon DEF Init, Unlocked
<1> QED
  BY Zenon, <1>1, <1>2 DEF Init, ThreadInv

(* The two halves of TypeOK hold together.                                 *)
LEMMA TypesHold == Spec => [](ThreadInv /\ DataInv)
<1>1. Init => ThreadInv /\ DataInv
  <2>1. Init => ThreadInv
    BY Zenon, ThreadInvInit
  <2>2. Init => DataInv
    <3> SUFFICES ASSUME Init PROVE DataInv
      BY Zenon
    <3>1. fds \in [Fds -> SUBSET EventTypes] /\ mask \in [Fds -> SUBSET EventTypes]
      BY Zenon DEF Init
    <3>2. ready \in [Fds -> SUBSET Flags]
      BY Zenon DEF Init
    <3>3. batch \in [Workers -> SUBSET [fd : Fds \cup {None}, flags : SUBSET Flags]]
      BY Zenon DEF Init
    <3>4. cur \in [Workers -> [fd : Fds, flags : SUBSET Flags, stage : 0..3] \cup {None}]
      BY Zenon DEF Init
    <3> QED
      BY Zenon, <3>1, <3>2, <3>3, <3>4 DEF Init, DataInv, TaskStates
  <2> QED
    BY Zenon, <2>1, <2>2
<1>2. ThreadInv /\ DataInv /\ [Next]_vars => (ThreadInv /\ DataInv)'
  BY Zenon, ThreadInvStep, DataInvStep
<1> QED
  BY <1>1, <1>2, PTL DEF Spec

(* TypeOK holds in every state, whatever the size of the pool: in          *)
(* particular thread_main holds the mutex where, and only where, its code  *)
(* says so.                                                                *)
THEOREM TypeCorrect == Spec => []TypeOK
<1>1. ThreadInv /\ DataInv => TypeOK
  BY Zenon DEF ThreadInv, DataInv, TypeOK
<1> QED
  BY <1>1, TypesHold, PTL

-----------------------------------------------------------------------------
(* WakeChain is inductive given ThreadInv: a worker goes to sleep only     *)
(* while the pool runs, one that reads the eventfd is itself awake, and    *)
(* one that leaves writes it.                                              *)
LEMMA WakeChainStep == ThreadInv /\ WakeChain /\ [Next]_vars => WakeChain'
<1> SUFFICES ASSUME ThreadInv, WakeChain, [Next]_vars PROVE WakeChain'
  BY Zenon
<1> USE DEF WakeChain, Asleep, Live
<1>1. CASE Tick
  BY ZenonT(60), <1>1 DEF Tick, workerVars
<1>2. CASE \E fd \in Fds : CloseFd(fd) \/ \E s \in ReadyStates : SetReady(fd, s)
  BY <1>2 DEF CloseFd, SetReady, workerVars
<1>3. CASE \E c \in Callers, new \in SUBSET Workers : start(c, new)
  BY Zenon, <1>3 DEF start
<1>4. ASSUME NEW c \in Callers, NEW mode \in {"stopping", "destroying"}, StopBegin(c, mode)
      PROVE  WakeChain'
  BY Zenon, <1>4 DEF StopBegin, StopFlag
<1>5. ASSUME NEW c \in Callers, StopJoin(c)
      PROVE  WakeChain'
  BY Zenon, <1>5 DEF StopJoin, workerVars
<1>6. CASE \E t \in Tasks : cancel(t) \/ \E at \in Times : enqueue(t, at)
  <2>1. UNCHANGED <<running, wpc>>
    BY Zenon, <1>6 DEF cancel, enqueue, workerVars
  <2>2. wake => wake'
    BY Zenon, <1>6, Zenon DEF cancel, enqueue
  <2> QED
    BY Zenon, <2>1, <2>2
<1>7. CASE \E fd \in Fds, type \in EventTypes : watchFd(fd, type) \/ removeFd(fd, type)
  BY <1>7 DEF watchFd, removeFd, workerVars
<1>8. ASSUME NEW w \in Workers, WorkerStep(w) \/ EpollFail(w)
      PROVE  WakeChain'
  <2>1. CASE Acquire(w)
    BY ZenonT(60), <2>1 DEF Acquire, AfterLock, ThreadInv
  <2>2. CASE Sleep(w)
    BY Zenon, <2>2 DEF Sleep, ThreadInv
  <2>3. CASE Exit(w)
    BY Zenon, <2>3 DEF Exit, ExitWake, ThreadInv
  <2>4. CASE EpollReturn(w)
    BY Zenon, <2>4 DEF EpollReturn, ThreadInv
  <2>5. CASE TakeEvent(w)
    BY Zenon, <2>5 DEF TakeEvent, ThreadInv
  <2>6. CASE CallHandler(w)
    BY Zenon, <2>6 DEF CallHandler, ThreadInv
  <2>7. CASE EndEvent(w)
    BY Zenon, <2>7 DEF EndEvent, ThreadInv
  <2>8. CASE EndBatch(w)
    BY ZenonT(60), <2>8 DEF EndBatch, ThreadInv
  <2>9. CASE PopTask(w)
    BY ZenonT(60), <2>9 DEF PopTask, ThreadInv
  <2>10. CASE RunTask(w)
    BY Zenon, <2>10 DEF RunTask, ThreadInv
  <2>11. CASE Return(w)
    BY Zenon, <2>11 DEF Return, InCallback, ThreadInv
  <2>12. CASE EndDrain(w)
    BY Zenon, <2>12 DEF EndDrain, ThreadInv
  <2>13. CASE EpollFail(w)
    BY Zenon, <2>13 DEF EpollFail, ThreadInv
  <2> QED
    BY Zenon, <1>8, <2>1, <2>2, <2>3, <2>4, <2>5, <2>6, <2>7,
       <2>8, <2>9, <2>10, <2>11, <2>12, <2>13 DEF WorkerStep
<1>9. CASE UNCHANGED vars
  BY Zenon, <1>9 DEF vars, workerVars
<1> QED
  BY Zenon, <1>1, <1>2, <1>3, <1>4, <1>5, <1>6, <1>7, <1>8, <1>9 DEF Next

(* A stop() leaves nobody asleep, however many workers sleep in            *)
(* epoll_wait on the one eventfd that stop() writes once.                  *)
THEOREM WakeChainHolds == Spec => []WakeChain
<1>1. Init => ThreadInv /\ WakeChain
  <2>1. Init => WakeChain
    BY Zenon DEF Init, WakeChain, Asleep
  <2> QED
    BY Zenon, <2>1, ThreadInvInit
<1>2. ThreadInv /\ WakeChain /\ [Next]_vars => (ThreadInv /\ WakeChain)'
  BY Zenon, ThreadInvStep, WakeChainStep
<1> QED
  BY <1>1, <1>2, PTL DEF Spec

-----------------------------------------------------------------------------
(* NoOrphan strengthened: the loop of stop() has joined every thread that  *)
(* comes before its iterator, which points at a member of the set.         *)
TrackInv ==
  /\ NoOrphan
  /\ \A c \in Callers : cpc[c] \in {"stopping", "destroying"} =>
       /\ iter[c] \in threadSet
       /\ \A w \in threadSet : w < iter[c] => wpc[w] = "exited"

(* One controlling thread calls start, stop and the destructor.            *)
OneController == \A c, d \in Callers : c = d

(* When the loop of stop() ends, every thread of the set has been joined.  *)
LEMMA LoopJoinsAll ==
  ASSUME ThreadInv, TrackInv, NEW c \in Callers,
         cpc[c] \in {"stopping", "destroying"}, wpc[iter[c]] = "exited",
         NoNext(iter[c])
  PROVE  Live = {}
<1>1. \A w \in threadSet : wpc[w] = "exited"
  <2> SUFFICES ASSUME NEW w \in threadSet PROVE wpc[w] = "exited"
    BY Zenon
  <2>1. w <= iter[c]
    BY Zenon DEF NoNext
  <2>2. w \in Nat /\ iter[c] \in Nat
    BY Zenon, EMAssumption DEF EMAssumption, ThreadInv, TrackInv
  <2>3. w < iter[c] \/ w = iter[c]
    BY <2>1, <2>2
  <2> QED
    BY Zenon, <2>3 DEF TrackInv
<1> QED
  BY Zenon, <1>1 DEF TrackInv, NoOrphan, Live, ThreadInv

(* A step of a worker ends no thread's exit and creates no thread.         *)
LEMMA WorkerStepKeepsThreads ==
  ASSUME ThreadInv, NEW w \in Workers, WorkerStep(w) \/ EpollFail(w)
  PROVE  /\ UNCHANGED <<threadSet, cpc, iter>>
         /\ Live' \subseteq Live
         /\ \A v \in Workers : wpc[v] = "exited" => wpc'[v] = "exited"
<1> USE DEF Live, callerVars
<1>1. CASE Acquire(w)
  BY Zenon, <1>1 DEF Acquire, AfterLock, ThreadInv, Locked
<1>2. CASE Sleep(w)
  BY Zenon, <1>2 DEF Sleep, ThreadInv, Locked
<1>3. CASE Exit(w)
  BY Zenon, <1>3 DEF Exit, ExitWake, ThreadInv, Locked
<1>4. CASE EpollReturn(w)
  BY Zenon, <1>4 DEF EpollReturn, ThreadInv, Locked
<1>5. CASE TakeEvent(w)
  BY Zenon, <1>5 DEF TakeEvent, ThreadInv, Locked
<1>6. CASE CallHandler(w)
  BY Zenon, <1>6 DEF CallHandler, ThreadInv, Locked
<1>7. CASE EndEvent(w)
  BY Zenon, <1>7 DEF EndEvent, ThreadInv, Locked
<1>8. CASE EndBatch(w)
  BY Zenon, <1>8 DEF EndBatch, ThreadInv, Locked
<1>9. CASE PopTask(w)
  BY Zenon, <1>9 DEF PopTask, ThreadInv, Locked
<1>10. CASE RunTask(w)
  BY Zenon, <1>10 DEF RunTask, ThreadInv, Locked
<1>11. CASE Return(w)
  BY Zenon, <1>11 DEF Return, InCallback, ThreadInv, Locked
<1>12. CASE EndDrain(w)
  BY Zenon, <1>12 DEF EndDrain, ThreadInv, Locked
<1>13. CASE EpollFail(w)
  BY Zenon, <1>13 DEF EpollFail, ThreadInv, Locked
<1> QED
  BY Zenon, <1>1, <1>2, <1>3, <1>4, <1>5, <1>6, <1>7,
     <1>8, <1>9, <1>10, <1>11, <1>12, <1>13 DEF WorkerStep

(* A single controller cannot start threads while it is inside stop(), so  *)
(* the set it iterates over does not change under it.                      *)
LEMMA TrackInvStep ==
  ASSUME OneController, ThreadInv, TrackInv, [Next]_vars
  PROVE  TrackInv'
<1> USE EMAssumption DEF EMAssumption
<1>1. CASE /\ UNCHANGED <<threadSet, cpc, iter, wpc>>
  BY Zenon, <1>1 DEF TrackInv, NoOrphan, Live
<1>2. ASSUME NEW c \in Callers, NEW new \in SUBSET Workers, start(c, new)
      PROVE  TrackInv'
  <2>1. \A d \in Callers : cpc[d] = "idle" /\ cpc'[d] = "idle"
    BY Zenon, <1>2 DEF start, Free, OneController, callerVars
  <2>2. Live' \subseteq Live \cup new
    BY Zenon, <1>2 DEF start, Live, ThreadInv
  <2> QED
    BY Zenon, <1>2, <2>1, <2>2 DEF start, TrackInv, NoOrphan
<1>3. ASSUME NEW c \in Callers, NEW mode \in {"stopping", "destroying"}, StopBegin(c, mode)
      PROVE  TrackInv'
  <2>0. Live' = Live /\ wpc' = wpc
    BY Zenon, <1>3 DEF StopBegin, Live, workerVars
  <2>1. CASE /\ \E t \in threadSet : IsNext(t, None) /\ iter' = [iter EXCEPT ![c] = t]
             /\ cpc' = [cpc EXCEPT ![c] = mode]
             /\ UNCHANGED <<threadSet, fds, tstate>>
    <3>1. PICK t \in threadSet : IsNext(t, None) /\ iter' = [iter EXCEPT ![c] = t]
      BY Zenon, <2>1
    <3>2. iter'[c] = t /\ cpc'[c] = mode
      BY <2>1, <3>1 DEF ThreadInv
    <3>3. \A w \in threadSet : ~(w < t)
      BY <3>1 DEF IsNext, ThreadInv
    <3>4. \A d \in Callers : d = c
      BY Zenon DEF OneController
    <3> QED
      BY Zenon, <2>0, <2>1, <3>2, <3>3, <3>4 DEF TrackInv, NoOrphan
  <2>2. CASE NoNext(None) /\ StopFinish /\ cpc' = [cpc EXCEPT ![c] =
               IF mode = "stopping" THEN "idle" ELSE "destroyed"]
    <3>1. Live' = {}
      BY Zenon, <2>0, <2>2 DEF NoNext, TrackInv, NoOrphan
    <3>2. \A d \in Callers : cpc'[d] \in {"idle", "destroyed"}
      BY ZenonT(60), <2>2 DEF OneController, ThreadInv
    <3> QED
      BY Zenon, <3>1, <3>2 DEF TrackInv, NoOrphan
  <2> QED
    BY Zenon, <1>3, <2>1, <2>2 DEF StopBegin
<1>4. ASSUME NEW c \in Callers, StopJoin(c)
      PROVE  TrackInv'
  <2>0. Live' = Live /\ wpc' = wpc
    BY Zenon, <1>4 DEF StopJoin, Live, workerVars
  <2>1. /\ cpc[c] \in {"stopping", "destroying"}
        /\ wpc[iter[c]] = "exited"
        /\ iter[c] \in threadSet
    BY Zenon, <1>4 DEF StopJoin, Joined, TrackInv
  <2>2. CASE /\ \E t \in Workers : IsNext(t, iter[c]) /\ iter' = [iter EXCEPT ![c] = t]
             /\ UNCHANGED <<threadSet, cpc>>
    <3>1. PICK t \in Workers : IsNext(t, iter[c]) /\ iter' = [iter EXCEPT ![c] = t]
      BY Zenon, <2>2
    <3>2. iter'[c] = t /\ t \in threadSet
      BY ZenonT(60), <3>1 DEF ThreadInv, IsNext
    <3>3. \A w \in threadSet : w < t => wpc[w] = "exited"
      <4> SUFFICES ASSUME NEW w \in threadSet, w < t PROVE wpc[w] = "exited"
        BY Zenon
      <4>0. w \in Workers /\ t \in Workers /\ iter[c] \in Workers
        BY Zenon, <2>1 DEF ThreadInv
      <4>1. w \in Nat /\ t \in Nat /\ iter[c] \in Nat /\ iter[c] # None
        BY Zenon, <4>0
      <4>2. ~(w > iter[c])
        <5>1. w > iter[c] => t <= w
          BY Zenon, <3>1 DEF IsNext
        <5> QED
          BY <4>1, <5>1
      <4>3. w < iter[c] \/ w = iter[c]
        BY <4>1, <4>2
      <4> QED
        BY Zenon, <2>1, <4>3 DEF TrackInv
    <3>4. \A d \in Callers : d = c
      BY Zenon DEF OneController
    <3> QED
      BY Zenon, <2>0, <2>2, <3>2, <3>3, <3>4 DEF TrackInv, NoOrphan
  <2>3. CASE /\ NoNext(iter[c]) /\ StopFinish
             /\ cpc' = [cpc EXCEPT ![c] = IF cpc[c] = "stopping" THEN "idle" ELSE "destroyed"]
    <3>1. Live' = {}
      BY Zenon, <2>0, <2>1, <2>3, LoopJoinsAll
    <3>2. \A d \in Callers : cpc'[d] \in {"idle", "destroyed"}
      BY ZenonT(60), <2>3 DEF OneController, ThreadInv
    <3> QED
      BY Zenon, <3>1, <3>2 DEF TrackInv, NoOrphan
  <2> QED
    BY Zenon, <1>4, <2>1, <2>2, <2>3 DEF StopJoin
<1>5. ASSUME NEW w \in Workers, WorkerStep(w) \/ EpollFail(w)
      PROVE  TrackInv'
  <2>1. /\ UNCHANGED <<threadSet, cpc, iter>>
        /\ Live' \subseteq Live
        /\ \A v \in Workers : wpc[v] = "exited" => wpc'[v] = "exited"
    BY Zenon, <1>5, WorkerStepKeepsThreads
  <2>2. NoOrphan'
    BY Zenon, <2>1 DEF TrackInv, NoOrphan
  <2> QED
    BY Zenon, <2>1, <2>2 DEF TrackInv, ThreadInv
<1> QED
  <2>1. CASE \/ Tick \/ UNCHANGED vars
             \/ \E fd \in Fds : CloseFd(fd) \/ \E s \in ReadyStates : SetReady(fd, s)
    BY Zenon, <1>1, <2>1 DEF vars, Tick, CloseFd, SetReady, workerVars, callerVars
  <2>2. CASE \E t \in Tasks : cancel(t) \/ \E at \in Times : enqueue(t, at)
    BY Zenon, <1>1, <2>2 DEF cancel, enqueue, workerVars, callerVars
  <2>3. CASE \E fd \in Fds, type \in EventTypes : watchFd(fd, type) \/ removeFd(fd, type)
    BY Zenon, <1>1, <2>3 DEF watchFd, removeFd, workerVars, callerVars
  <2> QED
    BY Zenon, <1>2, <1>3, <1>4, <1>5, <2>1, <2>2, <2>3 DEF Next

(* With one controlling thread, stop() joins every worker before it        *)
(* forgets the handles, and nothing runs on a destroyed EventManager.      *)
THEOREM NoOrphanHolds ==
  ASSUME OneController
  PROVE  Spec => []NoOrphan
<1>1. Init => ThreadInv /\ TrackInv
  <2>1. Init => TrackInv
    BY Zenon DEF Init, TrackInv, NoOrphan, Live
  <2> QED
    BY Zenon, <2>1, ThreadInvInit
<1>2. ThreadInv /\ TrackInv /\ [Next]_vars => (ThreadInv /\ TrackInv)'
  BY Zenon, ThreadInvStep, TrackInvStep
<1>3. TrackInv => NoOrphan
  BY Zenon DEF TrackInv
<1> QED
  BY <1>1, <1>2, <1>3, PTL DEF Spec

-----------------------------------------------------------------------------
(* With one controller the pool stays stopped while stop() joins.          *)
Halted == \A c \in Callers : cpc[c] \in {"stopping", "destroying"} => ~running

(* A step of a worker leaves the handlers, epoll and the callers alone.    *)
LEMMA WorkerStepKeepsHandlers ==
  ASSUME NEW w \in Workers, WorkerStep(w) \/ EpollFail(w)
  PROVE  UNCHANGED <<fds, registered, mask, running, cpc>>
<1> USE DEF fdVars, callerVars
<1>1. CASE Acquire(w) \/ Sleep(w) \/ Exit(w) \/ EpollReturn(w)
  BY Zenon, <1>1 DEF Acquire, Sleep, Exit, EpollReturn
<1>2. CASE TakeEvent(w) \/ CallHandler(w) \/ EndEvent(w) \/ EndBatch(w)
  BY Zenon, <1>2 DEF TakeEvent, CallHandler, EndEvent, EndBatch
<1>3. CASE PopTask(w) \/ RunTask(w) \/ Return(w) \/ EndDrain(w) \/ EpollFail(w)
  BY Zenon, <1>3 DEF PopTask, RunTask, Return, EndDrain, EpollFail
<1> QED
  BY Zenon, <1>1, <1>2, <1>3 DEF WorkerStep

(* Watching or removing a handler keeps the agreement on every descriptor. *)
LEMMA HandlersKeepSync ==
  ASSUME DataInv, NEW fd \in Fds, NEW type \in EventTypes,
         watchFd(fd, type) \/ removeFd(fd, type), NEW gd \in Fds, InSync(gd)
  PROVE  InSync(gd)'
<1>1. fds \in [Fds -> SUBSET EventTypes] /\ mask \in [Fds -> SUBSET EventTypes]
  BY Zenon DEF DataInv
<1>2. CASE watchFd(fd, type)
  <2>1. CASE gd # fd
    BY Zenon, <1>1, <1>2, <2>1 DEF watchFd, epollUpdate, InSync
  <2>2. CASE gd = fd /\ fds[fd] = {}
    BY Zenon, <1>1, <1>2, <2>2 DEF watchFd, epollUpdate, InSync
  <2>3. CASE gd = fd /\ fds[fd] # {}
    BY Zenon, <1>1, <1>2, <2>3 DEF watchFd, epollUpdate, InSync
  <2> QED
    BY Zenon, <2>1, <2>2, <2>3
<1>3. CASE removeFd(fd, type)
  <2>1. CASE gd # fd
    BY Zenon, <1>1, <1>3, <2>1 DEF removeFd, RemoveOp, epollUpdate, InSync
  <2>2. CASE gd = fd /\ fds[fd] = {type}
    BY Zenon, <1>1, <1>3, <2>2 DEF removeFd, RemoveOp, epollUpdate, InSync
  <2>3. CASE gd = fd /\ fds[fd] # {type}
    <3>1. fds[fd] # {} /\ fds[fd] \ {type} # {}
      BY Zenon, <1>1, <1>3, <2>3 DEF removeFd
    <3> QED
      BY Zenon, <1>1, <1>3, <2>3, <3>1 DEF removeFd, RemoveOp, epollUpdate, InSync
  <2> QED
    BY Zenon, <2>1, <2>2, <2>3
<1> QED
  BY Zenon, <1>2, <1>3

(* What a step does to the handlers and to the registrations, and that the *)
(* pool stays stopped while its only controller is in stop().              *)
LEMMA SyncStep ==
  ASSUME OneController, ThreadInv, DataInv, Halted, [Next]_vars
  PROVE  /\ Halted'
         /\ \A fd \in Fds : InSync(fd) /\ ~InSync(fd)' =>
                              fds[fd] # {} /\ ~running' /\ threadSet' = {}
<1> DEFINE Forgets == \A fd \in Fds : InSync(fd) /\ ~InSync(fd)' =>
                                        fds[fd] # {} /\ ~running' /\ threadSet' = {}
<1>1. ASSUME UNCHANGED <<fds, registered, mask, running, cpc>> PROVE Halted' /\ Forgets
  BY Zenon, <1>1 DEF Halted, InSync
<1>2. CASE UNCHANGED vars \/ Tick
  BY Zenon, <1>1, <1>2 DEF vars, Tick, fdVars, callerVars
<1>3. ASSUME NEW fd \in Fds, CloseFd(fd) \/ \E s \in ReadyStates : SetReady(fd, s)
      PROVE  Halted' /\ Forgets
  <2>1. CASE CloseFd(fd)
    BY Zenon, <2>1 DEF CloseFd, Halted, InSync, callerVars
  <2>2. CASE \E s \in ReadyStates : SetReady(fd, s)
    BY Zenon, <1>1, <2>2 DEF SetReady, fdVars, callerVars
  <2> QED
    BY Zenon, <1>3, <2>1, <2>2
<1>4. ASSUME NEW c \in Callers, NEW new \in SUBSET Workers, start(c, new)
      PROVE  Halted' /\ Forgets
  <2>1. \A d \in Callers : cpc'[d] = "idle"
    BY Zenon, <1>4 DEF start, Free, OneController, callerVars
  <2> QED
    BY Zenon, <1>4, <2>1 DEF start, Halted, InSync, fdVars
<1>5. ASSUME StopFinish, ~running', UNCHANGED <<registered, mask>>, NEW fd \in Fds,
             InSync(fd), ~InSync(fd)'
      PROVE  fds[fd] # {} /\ ~running' /\ threadSet' = {}
  BY Zenon, <1>5 DEF StopFinish, InSync
<1>6. ASSUME NEW c \in Callers, NEW mode, StopBegin(c, mode) PROVE Halted' /\ Forgets
  <2>1. ~running' /\ UNCHANGED <<registered, mask>> /\ (fds' = fds \/ StopFinish)
    BY Zenon, <1>6 DEF StopBegin, StopFlag
  <2>2. Halted'
    BY Zenon, <2>1 DEF Halted
  <2>3. CASE fds' = fds
    BY Zenon, <2>1, <2>2, <2>3 DEF InSync
  <2> QED
    BY Zenon, <1>5, <2>1, <2>2, <2>3
<1>7. ASSUME NEW c \in Callers, StopJoin(c) PROVE Halted' /\ Forgets
  <2>1. ~running' /\ UNCHANGED <<registered, mask>> /\ (fds' = fds \/ StopFinish)
    BY Zenon, <1>7 DEF StopJoin, Halted
  <2>2. Halted'
    BY Zenon, <2>1 DEF Halted
  <2>3. CASE fds' = fds
    BY Zenon, <2>1, <2>2, <2>3 DEF InSync
  <2> QED
    BY Zenon, <1>5, <2>1, <2>2, <2>3
<1>8. CASE \E t \in Tasks : cancel(t) \/ \E at \in Times : enqueue(t, at)
  BY Zenon, <1>1, <1>8 DEF cancel, enqueue, fdVars, callerVars
<1>9. ASSUME NEW fd \in Fds, NEW type \in EventTypes, watchFd(fd, type) \/ removeFd(fd, type)
      PROVE  Halted' /\ Forgets
  <2>1. UNCHANGED <<running, cpc>>
    BY Zenon, <1>9 DEF watchFd, removeFd, callerVars
  <2> QED
    BY Zenon, <1>9, <2>1, HandlersKeepSync DEF Halted
<1>10. ASSUME NEW w \in Workers, WorkerStep(w) \/ EpollFail(w) PROVE Halted' /\ Forgets
  BY Zenon, <1>1, <1>10, WorkerStepKeepsHandlers
<1> QED
  BY Zenon, <1>2, <1>3, <1>4, <1>6, <1>7, <1>8, <1>9, <1>10 DEF Next

(* The handler table and the epoll registrations agree until a stop() that *)
(* finds handlers attached empties the table, and nothing else in          *)
(* eventmanager.cpp, whatever the order of the calls, makes them disagree. *)
THEOREM OnlyStopForgets ==
  ASSUME OneController
  PROVE  Spec => EpollInSync
<1>1. Init => Halted
  BY Zenon DEF Init, Halted
<1>2. ThreadInv /\ DataInv /\ Halted /\ [Next]_vars => Halted'
  BY Zenon, SyncStep
<1>3. ThreadInv /\ DataInv /\ Halted /\ [Next]_vars =>
        [\A fd \in Fds : InSync(fd) /\ ~InSync(fd)' =>
                           fds[fd] # {} /\ ~running' /\ threadSet' = {}]_vars
  BY Zenon, SyncStep
<1> QED
  BY <1>1, <1>2, <1>3, TypesHold, PTL DEF Spec, EpollInSync
=============================================================================
