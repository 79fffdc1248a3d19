------------------------------- MODULE Future -------------------------------
(***************************************************************************)
(* Future<T> and FutureBarrier of epoll_threadpool: threads set a future,  *)
(* wait for it, add callbacks to it or let it go, while another builds a   *)
(* FutureBarrier over all futures that further threads wait for.           *)
(*                                                                         *)
(* A critical section that does not wait is one step; the tests of _value  *)
(* and _counter before the lock, and the loops after it, are steps of      *)
(* their own.                                                              *)
(***************************************************************************)
EXTENDS Integers, Sequences, FiniteSets

CONSTANTS
  Futures, Threads,
  Jobs,       \* what the threads do: a set of [Threads -> [op : Ops, fut : Futures]]
  None

Ops == {"set", "abandon", "get", "tryWait", "addCallback",
        "build", "barrierAdd", "barrierWait", "idle"}
OnBarrier == {"build", "barrierAdd", "barrierWait", "idle"}

ASSUME FutAssumption ==
  /\ Jobs \subseteq [Threads -> [op : Ops, fut : Futures]]
  /\ \A j \in Jobs : \A s, t \in Threads : j[s].op = "build" /\ j[t].op = "build" => s = t
  /\ IsFiniteSet(Futures) /\ None \notin Threads /\ None \notin {"true", "false"}

(* FutureBarrier::addCallback links its callback into a list without the   *)
(* lock.  Two callers at once may each link to the same last node, and the *)
(* list loses what one of them added: one thread adds the callbacks.       *)
ASSUME OneAdder ==
  \A j \in Jobs : \A s, t \in Threads :
    j[s].op = "barrierAdd" /\ j[t].op = "barrierAdd" => s = t

VARIABLES
  job,         \* what each thread does; never changes
  value,       \* _value of a future: the thread that set it, or None
  callbacks,   \* _callbacks of a future
  errbacks,    \* _errbacks of a future
  holders,     \* the references to a future
  counter,     \* _counter of the barrier
  barrierCbs,  \* _callbacks of the barrier
  pc,          \* where a thread is
  cur,         \* the future a thread works on
  todo,        \* build: the items not yet registered
  pos,         \* the position of a loop over callbacks or errbacks
  notePos,     \* the position of the loop in FutureBarrier::signal
  back,        \* where to go on after that loop
  result,      \* what an operation returned
  ran          \* how often a callback ran

futs == <<job, value, callbacks, errbacks>>
vars == <<futs, holders, counter, barrierCbs, pc, cur, todo, pos, notePos, back,
          result, ran>>

Cb(t) == <<"cb", t>>
Signal(f) == <<"signal", f>>
Cbs == {Cb(t) : t \in Threads} \cup {Signal(f) : f \in Futures}

op(t) == job[t].op
Builders == {t \in Threads : op(t) = "build"}
Built == \A b \in Builders : pc[b] = "done"

-----------------------------------------------------------------------------
(* Thread t calls c and goes on at next.  FutureBarrier::signal counts     *)
(* down; the call that reaches zero wakes the waiters and runs the         *)
(* barrier's callbacks.                                                    *)
Woken(ts) == [t \in Threads |-> IF t \in ts THEN "woken" ELSE pc[t]]
BarrierWaiters == {t \in Threads : op(t) = "barrierWait" /\ pc[t] = "wait"}
FutureWaiters(f) ==
  {t \in Threads : op(t) \in {"get", "tryWait"} /\ cur[t] = f /\ pc[t] = "wait"}

LastSignal_Missed(n) == n = -1
LastSignal_Early(n) == n <= 1
LastSignal(n) == n = 0

Call(t, c, next) ==
  /\ ran' = [ran EXCEPT ![c] = @ + 1]
  /\ IF c[1] = "signal"
     THEN /\ counter' = counter - 1
          /\ IF LastSignal(counter')
             THEN /\ pc' = [Woken(BarrierWaiters) EXCEPT ![t] = "notify"]
                  /\ notePos' = [notePos EXCEPT ![t] = 1]
                  /\ back' = [back EXCEPT ![t] = next]
             ELSE pc' = [pc EXCEPT ![t] = next] /\ UNCHANGED <<notePos, back>>
     ELSE pc' = [pc EXCEPT ![t] = next] /\ UNCHANGED <<counter, notePos, back>>

(* One turn, or the end, of the loop in FutureBarrier::signal.             *)
Notify(t) ==
  /\ pc[t] = "notify"
  /\ IF notePos[t] <= Len(barrierCbs)
     THEN /\ ran' = [ran EXCEPT ![barrierCbs[notePos[t]]] = @ + 1]
          /\ notePos' = [notePos EXCEPT ![t] = @ + 1]
          /\ UNCHANGED <<pc, back>>
     ELSE /\ pc' = [pc EXCEPT ![t] = back[t]]
          /\ notePos' = [notePos EXCEPT ![t] = 1]
          /\ back' = [back EXCEPT ![t] = "done"]
          /\ UNCHANGED ran
  /\ UNCHANGED <<futs, holders, counter, barrierCbs, cur, todo, pos, result>>

Goto(t, l) == pc' = [pc EXCEPT ![t] = l]

Return(t, r, l) ==
  /\ result' = [result EXCEPT ![t] = r]
  /\ Goto(t, l)

-----------------------------------------------------------------------------
(* Future::Internal::set.  _value is published and the waiters are woken   *)
(* under the lock; the callbacks run after it, over the list itself.       *)
Taken_TestedOnce(t) == pc[t] = "start" /\ value[cur[t]] # None
Taken(t) == value[cur[t]] # None

set(t) ==
  /\ op(t) = "set" /\ pc[t] \in {"start", "locked"}
  /\ LET f == cur[t]
     IN  IF Taken(t)
         THEN Return(t, "false", "release") /\ UNCHANGED value
         ELSE IF pc[t] = "start"
         THEN Goto(t, "locked") /\ UNCHANGED <<value, result>>
         ELSE /\ value' = [value EXCEPT ![f] = t]
              /\ pc' = [Woken(FutureWaiters(f)) EXCEPT ![t] = "calls"]
              /\ UNCHANGED result
  /\ UNCHANGED <<job, callbacks, errbacks, holders, counter, barrierCbs, cur, todo, pos,
                 notePos, back, ran>>

RunCallback(t) ==
  /\ pc[t] = "calls" /\ pos[t] <= Len(callbacks[cur[t]])
  /\ Call(t, callbacks[cur[t]][pos[t]], "calls")
  /\ pos' = [pos EXCEPT ![t] = @ + 1]
  /\ UNCHANGED <<futs, holders, barrierCbs, cur, todo, result>>

(* Both clears are without the lock.  Nobody adds to _callbacks any more;  *)
(* the constructor of a barrier may be adding its errback.  It is the only *)
(* one, so the outcome is an empty list or that errback, as if one came    *)
(* after the other, and with a value set no errback is ever called.        *)
ClearCallbacks(t) ==
  /\ pc[t] = "calls" /\ pos[t] > Len(callbacks[cur[t]])
  /\ callbacks' = [callbacks EXCEPT ![cur[t]] = <<>>]
  /\ errbacks' = [errbacks EXCEPT ![cur[t]] = <<>>]
  /\ Return(t, "true", "release")
  /\ pos' = [pos EXCEPT ![t] = 1]
  /\ UNCHANGED <<job, value, holders, counter, barrierCbs, cur, todo, notePos, back, ran>>

(* get and tryWait: a test, a test under the lock, one wait.               *)
get(t) ==
  /\ op(t) \in {"get", "tryWait"} /\ pc[t] \in {"start", "locked"}
  /\ IF value[cur[t]] # None
     THEN Return(t, value[cur[t]], "release")
     ELSE Goto(t, IF pc[t] = "start" THEN "locked" ELSE "wait") /\ UNCHANGED result
  /\ UNCHANGED <<futs, holders, counter, barrierCbs, cur, todo, pos, notePos, back, ran>>

(* After the wait get dereferences _value and tryWait returns true, both   *)
(* without another look at it.                                             *)
Wake(t) ==
  /\ pc[t] = "woken"
  /\ IF op(t) = "barrierWait"
     THEN Return(t, "true", "done")
     ELSE Return(t, value[cur[t]], "release")
  /\ UNCHANGED <<futs, holders, counter, barrierCbs, cur, todo, pos, notePos, back, ran>>

Timeout(t) ==
  /\ op(t) \in {"tryWait", "barrierWait"} /\ pc[t] = "wait"
  /\ Return(t, "false", IF op(t) = "tryWait" THEN "release" ELSE "done")
  /\ UNCHANGED <<futs, holders, counter, barrierCbs, cur, todo, pos, notePos, back, ran>>

(* pthread_cond_wait may return without a broadcast.                       *)
SpuriousWakeup(t) ==
  /\ pc[t] = "wait"
  /\ Goto(t, "woken")
  /\ UNCHANGED <<futs, holders, counter, barrierCbs, cur, todo, pos, notePos, back,
                 result, ran>>

(* addCallback of a future, by a user or by the barrier's constructor.     *)
Register(t, c, next) ==
  IF value[cur[t]] # None
  THEN Call(t, c, next) /\ UNCHANGED callbacks
  ELSE IF pc[t] = "start"
  THEN Goto(t, "locked") /\ UNCHANGED <<callbacks, counter, notePos, back, ran>>
  ELSE /\ callbacks' = [callbacks EXCEPT ![cur[t]] = Append(@, c)]
       /\ Goto(t, next)
       /\ UNCHANGED <<counter, notePos, back, ran>>

addCallback(t) ==
  /\ op(t) = "addCallback" /\ pc[t] \in {"start", "locked"}
  /\ Register(t, Cb(t), "release")
  /\ UNCHANGED <<job, value, errbacks, holders, barrierCbs, cur, todo, pos, result>>

-----------------------------------------------------------------------------
(* The constructor of FutureBarrier: _counter is set first, then signal is *)
(* registered with each item, as callback and as errback.                  *)
NextItem(t) ==
  /\ op(t) = "build" /\ pc[t] = "items"
  /\ \E f \in todo[t] : cur' = [cur EXCEPT ![t] = f] /\ todo' = [todo EXCEPT ![t] = @ \ {f}]
  /\ Goto(t, "start")
  /\ UNCHANGED <<futs, holders, counter, barrierCbs, pos, notePos, back, result, ran>>

BuildCallback(t) ==
  /\ op(t) = "build" /\ pc[t] \in {"start", "locked"}
  /\ Register(t, Signal(cur[t]), "errback")
  /\ UNCHANGED <<job, value, errbacks, holders, barrierCbs, cur, todo, pos, result>>

BuildErrback(t) ==
  /\ op(t) = "build" /\ pc[t] = "errback"
  /\ errbacks' = [errbacks EXCEPT ![cur[t]] = Append(@, Signal(cur[t]))]
  /\ Goto(t, "items")
  /\ UNCHANGED <<job, value, callbacks, holders, counter, barrierCbs, cur, todo, pos,
                 notePos, back, result, ran>>

(* The set of items goes after the constructor; each item drops its future. *)
EndBuild(t) ==
  /\ op(t) = "build" /\ pc[t] = "items" /\ todo[t] = {}
  /\ \E f \in Futures : t \in holders[f] /\ cur' = [cur EXCEPT ![t] = f]
  /\ Goto(t, "release")
  /\ UNCHANGED <<futs, holders, counter, barrierCbs, todo, pos, notePos, back, result, ran>>

(* FutureBarrier::addCallback: the callback goes into the list before      *)
(* anything is tested, and once more under the lock: a callback added      *)
(* before the futures are resolved is in the list twice, and runs twice.   *)
(* The loop of signal reads the list meanwhile; with one thread adding, a  *)
(* node enters its path by a single store of the node before it.           *)
barrierAdd(t) ==
  /\ op(t) = "barrierAdd" /\ Built
  /\ \/ /\ pc[t] = "start"
        /\ barrierCbs' = Append(barrierCbs, Cb(t))
        /\ Goto(t, "test") /\ UNCHANGED ran
     \/ /\ pc[t] \in {"test", "locked"} /\ counter = 0
        /\ ran' = [ran EXCEPT ![Cb(t)] = @ + 1]
        /\ Goto(t, "done") /\ UNCHANGED barrierCbs
     \/ /\ pc[t] = "test" /\ counter # 0
        /\ Goto(t, "locked") /\ UNCHANGED <<barrierCbs, ran>>
     \/ /\ pc[t] = "locked" /\ counter # 0
        /\ barrierCbs' = Append(barrierCbs, Cb(t))
        /\ Goto(t, "done") /\ UNCHANGED ran
  /\ UNCHANGED <<futs, holders, counter, cur, todo, pos, notePos, back, result>>

barrierWait(t) ==
  /\ op(t) = "barrierWait" /\ Built /\ pc[t] \in {"start", "locked"}
  /\ IF counter = 0
     THEN Return(t, "true", "done")
     ELSE Goto(t, IF pc[t] = "start" THEN "locked" ELSE "wait") /\ UNCHANGED result
  /\ UNCHANGED <<futs, holders, counter, barrierCbs, cur, todo, pos, notePos, back, ran>>

-----------------------------------------------------------------------------
(* A thread drops its reference.  With the last one goes ~Internal, which  *)
(* runs the errbacks if there never was a value.                           *)
Dropped(t) == IF op(t) = "build" THEN "items" ELSE "done"

Dying_Always(f) == TRUE
Dying(f) == value[f] = None

Release(t) ==
  /\ pc[t] = "release"
  /\ holders' = [holders EXCEPT ![cur[t]] = @ \ {t}]
  /\ IF holders'[cur[t]] = {} /\ Dying(cur[t])
     THEN Goto(t, "errs")
     ELSE Goto(t, IF \E f \in Futures : t \in holders'[f] THEN Dropped(t) ELSE "done")
  /\ UNCHANGED <<futs, counter, barrierCbs, cur, todo, pos, notePos, back, result, ran>>

RunErrback(t) ==
  /\ pc[t] = "errs"
  /\ IF pos[t] <= Len(errbacks[cur[t]])
     THEN /\ Call(t, errbacks[cur[t]][pos[t]], "errs")
          /\ pos' = [pos EXCEPT ![t] = @ + 1]
     ELSE /\ Goto(t, IF \E f \in Futures : t \in holders[f] THEN Dropped(t) ELSE "done")
          /\ pos' = [pos EXCEPT ![t] = 1]
          /\ UNCHANGED <<counter, notePos, back, ran>>
  /\ UNCHANGED <<futs, holders, barrierCbs, cur, todo, result>>

-----------------------------------------------------------------------------
Counted == Cardinality(Futures)

Init ==
  /\ job \in Jobs
  /\ value = [f \in Futures |-> None]
  /\ callbacks = [f \in Futures |-> <<>>] /\ errbacks = [f \in Futures |-> <<>>]
  /\ holders = [f \in Futures |->
       {t \in Threads : op(t) = "build" \/ (op(t) \notin OnBarrier /\ job[t].fut = f)}]
  /\ counter = Counted /\ barrierCbs = <<>>
  /\ pc = [t \in Threads |-> CASE op(t) = "build" -> "items"
                               [] op(t) = "abandon" -> "release"
                               [] op(t) = "idle" -> "done"
                               [] OTHER -> "start"]
  /\ cur = [t \in Threads |-> job[t].fut]
  /\ todo = [t \in Threads |-> IF op(t) = "build" THEN Futures ELSE {}]
  /\ pos = [t \in Threads |-> 1] /\ notePos = [t \in Threads |-> 1]
  /\ back = [t \in Threads |-> "done"]
  /\ result = [t \in Threads |-> None]
  /\ ran = [c \in Cbs |-> 0]

Step(t) ==
  \/ set(t) \/ RunCallback(t) \/ ClearCallbacks(t) \/ get(t) \/ Wake(t)
  \/ addCallback(t) \/ NextItem(t) \/ BuildCallback(t) \/ BuildErrback(t) \/ EndBuild(t)
  \/ barrierAdd(t) \/ barrierWait(t) \/ Notify(t) \/ Release(t) \/ RunErrback(t)

Next == \E t \in Threads : Step(t) \/ Timeout(t) \/ SpuriousWakeup(t)

Spec == Init /\ [][Next]_vars
FairSpec == Spec /\ WF_vars(\E t \in Threads : Step(t))

-----------------------------------------------------------------------------
Resolved(f) == value[f] # None \/ holders[f] = {}

(* Of the threads that set a future one succeeds, and every get returns    *)
(* its value.                                                              *)
OneValue ==
  \A t \in Threads :
    /\ op(t) = "set" /\ result[t] = "true" => value[cur[t]] = t
    /\ op(t) = "set" /\ result[t] = "false" => value[cur[t]] \notin {None, t}
    /\ op(t) = "get" /\ result[t] # None => result[t] = value[cur[t]]

(* "the provided callback is triggered exactly once regardless of whether  *)
(* or not the Future is ever set": never twice, and the barrier's counter  *)
(* is the number of futures that have not signalled it.                    *)
OnceEach ==
  /\ \A f \in Futures : ran[Signal(f)] <= 1
  /\ counter = Cardinality({f \in Futures : ran[Signal(f)] = 0})
  /\ \A t \in Threads : op(t) = "addCallback" => ran[Cb(t)] <= 1

(* No callback of the barrier runs before each of its futures is resolved. *)
NeverEarly ==
  \A t \in Threads :
    op(t) = "barrierAdd" /\ ran[Cb(t)] > 0 => \A f \in Futures : Resolved(f)

(* set() runs over _callbacks without the lock: nobody else changes the    *)
(* list while it does.                                                     *)
ListIsStable ==
  [][\A t \in Threads : pc[t] = "calls" /\ callbacks'[cur[t]] # callbacks[cur[t]] =>
                          pos[t] > Len(callbacks[cur[t]])]_vars

(* "Returns the value, blocking if necessary until it becomes available":  *)
(* get never dereferences a null _value.                                   *)
GetHasValue ==
  \A t \in Threads : op(t) = "get" /\ pc[t] \in {"release", "done"} => result[t] # None

(* Every callback added to a future that gets a value, and every callback  *)
(* of the barrier, runs in the end.                                        *)
CallbacksServed ==
  \A t \in Threads :
    /\ op(t) = "addCallback" =>
         (value[job[t].fut] # None ~> ran[Cb(t)] > 0)
    /\ op(t) = "barrierAdd" =>
         ((\A f \in Futures : Resolved(f)) ~> ran[Cb(t)] > 0)
=============================================================================
