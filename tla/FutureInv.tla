----------------------------- MODULE FutureInv ------------------------------
(***************************************************************************)
(* The invariant that the theorems of FutureProofs rest on, for any        *)
(* futures, threads and jobs with at most one barrier, and that waiting,   *)
(* the barrier's own steps, set() and addCallback() keep it.               *)
(***************************************************************************)
EXTENDS Future, TLAPS

(* Where a thread goes on: the loop of FutureBarrier::signal and a wakeup  *)
(* change pc, not what the thread is doing.                                *)
At(t) == CASE pc[t] = "notify" -> back[t]
           [] pc[t] = "woken" -> "wait"
           [] OTHER -> pc[t]

Users == {"set", "abandon", "get", "tryWait", "addCallback"}
Early == {"start", "locked"}

Places == {"start", "locked", "wait", "woken", "calls", "notify", "items", "errback",
           "release", "errs", "test", "done"}

Types ==
  /\ job \in [Threads -> [op : Ops, fut : Futures]]
  /\ value \in [Futures -> Threads \cup {None}]
  /\ callbacks \in [Futures -> Seq(Cbs)] /\ errbacks \in [Futures -> Seq(Cbs)]
  /\ holders \in [Futures -> SUBSET Threads]
  /\ pc \in [Threads -> Places] /\ back \in [Threads -> Places]
  /\ cur \in [Threads -> Futures] /\ todo \in [Threads -> SUBSET Futures]
  /\ pos \in [Threads -> Nat \ {0}] /\ notePos \in [Threads -> Nat \ {0}]
  /\ result \in [Threads -> Threads \cup {None, "true", "false"}]
  /\ ran \in [Cbs -> Nat]

(* One thread builds the barrier, and its callbacks are those of the       *)
(* threads that add some.                                                  *)
Theirs == {c \in Cbs : \E t \in Threads : op(t) = "barrierAdd" /\ c = Cb(t)}
OneBarrier ==
  /\ \A s, t \in Threads : op(s) = "build" /\ op(t) = "build" => s = t
  /\ barrierCbs \in Seq(Theirs)

(* The places of each kind of thread, and the loop variables outside of    *)
(* the loops.                                                              *)
Placed ==
  \A t \in Threads :
    /\ At(t) = "calls" => op(t) = "set"
    /\ At(t) \in {"items", "errback"} => op(t) = "build"
    /\ At(t) \in {"release", "errs"} => op(t) \in Users \cup {"build"}
    /\ At(t) = "wait" => op(t) \in {"get", "tryWait", "barrierWait"}
    /\ pc[t] = "notify" => At(t) \in {"calls", "errback", "errs"}
    /\ At(t) \notin {"calls", "errs"} => pos[t] = 1
    /\ op(t) # "build" => cur[t] = job[t].fut /\ todo[t] = {}

(* A thread has a reference to every future it still works on; the one     *)
(* that runs ~Internal is alone, and there never was a value.              *)
Held ==
  /\ \A t \in Threads :
       /\ op(t) \in Users /\ At(t) \notin {"errs", "done"} => t \in holders[cur[t]]
       /\ op(t) = "build" =>
            /\ At(t) \in Early \cup {"errback", "release"} => t \in holders[cur[t]]
            /\ At(t) \in Early \cup {"errback"} => cur[t] \notin todo[t]
            /\ At(t) \notin Early \cup {"errback", "items"} => todo[t] = {}
            /\ \A f \in todo[t] : t \in holders[f]
       /\ At(t) = "errs" => holders[cur[t]] = {} /\ value[cur[t]] = None
  /\ \A s, t \in Threads :
       At(s) = "errs" /\ At(t) = "errs" /\ cur[s] = cur[t] => s = t

(* A value is that of a thread that got through set().                     *)
Valued ==
  /\ \A f \in Futures : value[f] # None =>
       op(value[f]) = "set" /\ cur[value[f]] = f /\ At(value[f]) \notin Early
  /\ \A t \in Threads : At(t) = "calls" => value[cur[t]] = t

(* The callbacks of future f, and those not yet registered with it.        *)
Mine(f) ==
  {Signal(f)} \cup {Cb(t) : t \in {u \in Threads : op(u) = "addCallback" /\ job[u].fut = f}}
Ahead(t, f) ==
  op(t) = "build" /\ (f \in todo[t] \/ (cur[t] = f /\ At(t) \in Early))
New(c) ==
  \/ \E t \in Threads : op(t) = "addCallback" /\ c = Cb(t) /\ At(t) \in Early
  \/ \E t \in Threads, f \in Futures : c = Signal(f) /\ Ahead(t, f)

(* What the lists of a future hold: its own callbacks, each once.          *)
Lists ==
  \A f \in Futures :
    /\ \A i \in 1..Len(callbacks[f]) :
         callbacks[f][i] \in Mine(f) /\ ~New(callbacks[f][i])
    /\ \A i, j \in 1..Len(callbacks[f]) : callbacks[f][i] = callbacks[f][j] => i = j
    /\ errbacks[f] \in {<<>>, <<Signal(f)>>}
    /\ \A t \in Threads :
         Ahead(t, f) \/ (cur[t] = f /\ At(t) = "errback") => errbacks[f] = <<>>

(* Entry i of the callbacks of f may still be run.                         *)
Open(f, i) ==
  IF value[f] = None THEN holders[f] # {}
  ELSE At(value[f]) = "calls" /\ pos[value[f]] <= i

(* What may still run has not run.                                         *)
Runs ==
  /\ \A f \in Futures :
       /\ \A c \in Mine(f) : ran[c] <= 1 /\ (New(c) => ran[c] = 0)
       /\ value[f] = None /\ holders[f] # {} => ran[Signal(f)] = 0
       /\ \A i \in 1..Len(callbacks[f]) : Open(f, i) => ran[callbacks[f][i]] = 0
  /\ \A t \in Threads : At(t) = "errs" /\ pos[t] = 1 => ran[Signal(cur[t])] = 0

Inv ==
  Types /\ OneBarrier /\ Placed /\ Held /\ Valued /\ Lists /\ Runs /\ OneValue

-----------------------------------------------------------------------------
(* One thread moves: for every other thread nothing changes, but that it   *)
(* may have been woken.                                                    *)
Same(u) ==
  /\ At(u)' = At(u) /\ cur'[u] = cur[u] /\ todo'[u] = todo[u] /\ pos'[u] = pos[u]
  /\ result'[u] = result[u]

Others(t) == job' = job /\ \A u \in Threads \ {t} : Same(u)

(* The effect of Call: the caller is at next, others may have been woken,  *)
(* and c has run once more.                                                *)
LEMMA CallEffect ==
  ASSUME Types, NEW t \in Threads, NEW c \in Cbs, NEW next \in Places,
         next \notin {"notify", "woken"}, Call(t, c, next)
  PROVE  /\ pc' \in [Threads -> Places] /\ back' \in [Threads -> Places]
         /\ notePos' \in [Threads -> Nat \ {0}]
         /\ ran' \in [Cbs -> Nat]
         /\ ran'[c] = ran[c] + 1 /\ \A d \in Cbs : d # c => ran'[d] = ran[d]
         /\ counter' = IF c[1] = "signal" THEN counter - 1 ELSE counter
         /\ At(t)' = next
         /\ \A u \in Threads \ {t} : At(u)' = At(u)
         /\ \A u \in Threads : pc'[u] = "notify" =>
              pc[u] = "notify" \/ (u = t /\ c[1] = "signal" /\ counter' = 0)
<1> USE DEF Types, Places
<1>1. /\ ran' \in [Cbs -> Nat]
      /\ ran'[c] = ran[c] + 1 /\ \A d \in Cbs : d # c => ran'[d] = ran[d]
      /\ counter' = IF c[1] = "signal" THEN counter - 1 ELSE counter
  BY DEF Call
<1>2. CASE c[1] = "signal" /\ LastSignal(counter')
  <2>1. /\ pc' = [Woken(BarrierWaiters) EXCEPT ![t] = "notify"]
        /\ notePos' = [notePos EXCEPT ![t] = 1]
        /\ back' = [back EXCEPT ![t] = next]
    BY Zenon, <1>2 DEF Call
  <2>2. /\ pc' \in [Threads -> Places] /\ pc'[t] = "notify" /\ back'[t] = next
        /\ \A u \in Threads \ {t} :
             /\ back'[u] = back[u]
             /\ pc'[u] = pc[u] \/ (pc[u] = "wait" /\ pc'[u] = "woken")
    BY ZenonT(60), <2>1 DEF Woken, BarrierWaiters
  <2>3. At(t)' = next
    BY Zenon, <2>2 DEF At
  <2>4. \A u \in Threads \ {t} : At(u)' = At(u)
    BY Zenon, <2>2 DEF At
  <2>5. \A u \in Threads : pc'[u] = "notify" =>
          pc[u] = "notify" \/ (u = t /\ c[1] = "signal" /\ counter' = 0)
    BY Zenon, <1>2, <2>2 DEF LastSignal
  <2>6. back' \in [Threads -> Places] /\ notePos' \in [Threads -> Nat \ {0}]
    BY <2>1
  <2> QED BY Zenon, <1>1, <2>2, <2>3, <2>4, <2>5, <2>6
<1>3. CASE ~(c[1] = "signal" /\ LastSignal(counter'))
  <2>1. pc' = [pc EXCEPT ![t] = next] /\ notePos' = notePos /\ back' = back
    BY Zenon, <1>3 DEF Call
  <2> QED BY Zenon, <1>1, <2>1 DEF At
<1> QED BY Zenon, <1>2, <1>3

(* What depends on the jobs only.                                          *)
LEMMA JobsKept ==
  ASSUME job' = job
  PROVE  /\ \A u \in Threads : op(u)' = op(u)
         /\ \A f \in Futures : Mine(f)' = Mine(f)
         /\ Theirs' = Theirs
         /\ OneBarrier /\ barrierCbs' = barrierCbs => OneBarrier'
<1>1. \A u \in Threads : op(u)' = op(u)
  BY Zenon DEF op
<1>2. \A f \in Futures : Mine(f)' = Mine(f)
  BY Zenon, <1>1 DEF Mine
<1>3. Theirs' = Theirs
  BY Zenon, <1>1 DEF Theirs
<1> QED BY Zenon, <1>1, <1>2, <1>3 DEF OneBarrier

(* What depends on where the threads are and on the values and holders.    *)
LEMMA StaysKept ==
  ASSUME UNCHANGED <<job, value, holders, cur, todo>>, \A u \in Threads : At(u)' = At(u)
  PROVE  (Held => Held') /\ (Valued /\ Types => Valued')
<1>1. \A u \in Threads : op(u)' = op(u)
  BY Zenon DEF op
<1>2. Held => Held'
  BY <1>1 DEF Held
<1>3. Valued /\ Types => Valued'
  <2>1. Types => \A f \in Futures : value[f] # None => value[f] \in Threads
    BY Zenon DEF Types, Places
  <2> QED BY Zenon, <1>1, <2>1 DEF Valued
<1> QED BY Zenon, <1>2, <1>3

(* What the types say of single entries.                                   *)
LEMMA Ranges ==
  ASSUME Types
  PROVE  /\ \A f \in Futures : value[f] # None => value[f] \in Threads
         /\ \A f \in Futures : callbacks[f] \in Seq(Cbs) /\ Len(callbacks[f]) \in Nat
         /\ \A f \in Futures : holders[f] \subseteq Threads
         /\ \A t \in Threads : cur[t] \in Futures /\ todo[t] \subseteq Futures
         /\ \A t \in Threads : pos[t] \in Nat /\ pos[t] > 0
         /\ \A c \in Cbs : ran[c] \in Nat
BY DEF Types

(* Numbers and lists that grow by one, and the places of a list.           *)
LEMMA Grows ==
  /\ \A n \in Nat : n + 1 \in Nat \ {0} /\ ~(n + 1 <= n)
  /\ \A n \in Nat : \A i \in 1..n : i \in Nat
  /\ \A S : \A q \in Seq(S), e \in S : Append(q, e) \in Seq(S)
  /\ \A S : \A q \in Seq(S), n \in Nat \ {0} : n <= Len(q) => q[n] \in S
OBVIOUS

(* Values stay those of setters if these do not go back, and no other      *)
(* thread takes over a loop.                                               *)
LEMMA ValuesKept ==
  ASSUME Types, Valued, value' = value, job' = job,
         \A u \in Threads : op(u) = "set" => cur'[u] = cur[u],
         \A u \in Threads : op(u) = "set" /\ At(u)' \in Early => At(u) \in Early,
         \A u \in Threads : At(u)' = "calls" => At(u) = "calls" /\ cur'[u] = cur[u]
  PROVE  Valued'
<1>1. \A u \in Threads : op(u)' = op(u)
  BY Zenon DEF op
<1>2. ASSUME NEW f \in Futures, value[f] # None
      PROVE  op(value[f])' = "set" /\ cur'[value[f]] = f /\ At(value[f])' \notin Early
  <2>1. value[f] \in Threads /\ op(value[f]) = "set" /\ cur[value[f]] = f
        /\ At(value[f]) \notin Early
    BY Zenon, <1>2, Ranges DEF Valued
  <2> QED BY Zenon, <1>1, <2>1
<1>3. \A u \in Threads : At(u)' = "calls" => value'[cur'[u]] = u
  BY DEF Valued
<1> QED BY Zenon, <1>2, <1>3 DEF Valued, Early

(* No entry of a list is opened again.                                     *)
LEMMA OpensKept ==
  ASSUME Types, value' = value, \A f \in Futures : holders'[f] \subseteq holders[f],
         \A u \in Threads : At(u)' = "calls" =>
           At(u) = "calls" /\ pos'[u] \in Nat /\ pos[u] <= pos'[u]
  PROVE  \A f \in Futures, i \in Nat : Open(f, i)' => Open(f, i)
<1> SUFFICES ASSUME NEW f \in Futures, NEW i \in Nat, Open(f, i)' PROVE Open(f, i)
  BY Zenon
<1>1. CASE value[f] = None
  BY Zenon, <1>1 DEF Open
<1>2. CASE value[f] # None
  <2>1. value[f] \in Threads /\ pos[value[f]] \in Nat
    BY Zenon, <1>2, Ranges
  <2>2. At(value[f])' = "calls" /\ pos'[value[f]] <= i
    BY Zenon, <1>2 DEF Open
  <2> QED BY <1>2, <2>1, <2>2 DEF Open
<1> QED BY Zenon, <1>1, <1>2

LEMMA OpensStay ==
  ASSUME Types, UNCHANGED <<value, pos>>, \A f \in Futures : holders'[f] \subseteq holders[f],
         \A u \in Threads : At(u)' = "calls" => At(u) = "calls"
  PROVE  \A f \in Futures, i \in Nat : Open(f, i)' => Open(f, i)
<1>1. \A u \in Threads : pos'[u] \in Nat /\ pos[u] <= pos'[u]
  BY Ranges
<1> QED BY Zenon, <1>1, OpensKept

(* What has not run is not run by a step that opens no entry and begins    *)
(* no ~Internal whose signal has run.                                      *)
LEMMA RunsKept ==
  ASSUME Types, Runs, UNCHANGED <<callbacks, ran, value>>,
         \A f \in Futures : holders'[f] \subseteq holders[f],
         \A f \in Futures : Mine(f)' = Mine(f), \A c : New(c)' => New(c),
         \A f \in Futures, i \in Nat : Open(f, i)' => Open(f, i),
         \A u \in Threads : At(u)' = "errs" /\ pos'[u] = 1 => ran[Signal(cur'[u])] = 0
  PROVE  Runs'
<1>1. \A f \in Futures : \A i \in 1..Len(callbacks[f]) : i \in Nat
  BY Zenon, Ranges, Grows
<1> QED BY <1>1 DEF Runs

(* What has to be shown when callbacks run or leave their lists.           *)
LEMMA RunsFrom ==
  ASSUME UNCHANGED <<value, holders, cur>>, \A f \in Futures : Mine(f)' = Mine(f),
         \A f \in Futures : \A c \in Mine(f) : ran'[c] <= 1 /\ (New(c)' => ran'[c] = 0),
         \A f \in Futures : value[f] = None /\ holders[f] # {} => ran'[Signal(f)] = 0,
         \A f \in Futures : \A i \in 1..Len(callbacks'[f]) :
           Open(f, i)' => ran'[callbacks'[f][i]] = 0,
         \A u \in Threads : At(u)' = "errs" /\ pos'[u] = 1 => ran'[Signal(cur[u])] = 0
  PROVE  Runs'
BY DEF Runs

LEMMA ResultsKept ==
  ASSUME UNCHANGED <<job, value, cur, result>>, OneValue
  PROVE  OneValue'
BY Zenon DEF OneValue, op

(* No callback belongs to two futures.                                     *)
LEMMA MineApart ==
  ASSUME NEW f \in Futures, NEW g \in Futures, NEW c \in Mine(f), c \in Mine(g)
  PROVE  f = g
BY DEF Mine, Cb, Signal

(* A callback once registered does not become a new one: it is enough that *)
(* the thread that moves does not go back.                                 *)
LEMMA NewShrinks ==
  ASSUME NEW t \in Threads, Others(t),
         op(t) = "addCallback" /\ At(t)' \in Early => At(t) \in Early,
         \A f \in Futures : Ahead(t, f)' => Ahead(t, f)
  PROVE  /\ \A c : New(c)' => New(c)
         /\ \A f \in Futures, u \in Threads : Ahead(u, f)' => Ahead(u, f)
<1>1. \A f \in Futures, u \in Threads : Ahead(u, f)' => Ahead(u, f)
  BY Zenon DEF Others, Same, Ahead, op
<1>2. \A u \in Threads : op(u)' = op(u)
  BY Zenon DEF Others, op
<1>3. \A u \in Threads : op(u) = "addCallback" /\ At(u)' \in Early => At(u) \in Early
  BY Zenon DEF Others, Same
<1>4. ASSUME NEW c, New(c)' PROVE New(c)
  <2>1. CASE \E u \in Threads : op(u)' = "addCallback" /\ c = Cb(u) /\ At(u)' \in Early
    BY Zenon, <1>2, <1>3, <2>1 DEF New
  <2>2. CASE \E u \in Threads, f \in Futures : c = Signal(f) /\ Ahead(u, f)'
    BY Zenon, <1>1, <2>2 DEF New
  <2> QED BY Zenon, <1>4, <2>1, <2>2 DEF New, Early, Cb, Signal
<1> QED BY Zenon, <1>1, <1>4

(* The lists stay right if none of their entries becomes new and no thread *)
(* gets to where the errback is missing.                                   *)
LEMMA ListsKept ==
  ASSUME Lists, callbacks' = callbacks, errbacks' = errbacks,
         \A f \in Futures : Mine(f)' = Mine(f), \A c : New(c)' => New(c),
         \A f \in Futures, u \in Threads : Ahead(u, f)' => Ahead(u, f),
         \A u \in Threads : At(u)' = "errback" => At(u) = "errback" /\ cur'[u] = cur[u]
  PROVE  Lists'
BY DEF Lists

(* What has to be shown when only the callbacks of a future change.        *)
LEMMA ListsFrom ==
  ASSUME errbacks' = errbacks, cur' = cur, \A f \in Futures : Mine(f)' = Mine(f),
         \A f \in Futures :
           /\ \A i \in 1..Len(callbacks'[f]) :
                callbacks'[f][i] \in Mine(f) /\ ~New(callbacks[f][i])'
           /\ \A i, j \in 1..Len(callbacks'[f]) :
                callbacks'[f][i] = callbacks'[f][j] => i = j
           /\ errbacks[f] \in {<<>>, <<Signal(f)>>}
           /\ \A u \in Threads :
                Ahead(u, f)' \/ (cur[u] = f /\ At(u)' = "errback") => errbacks[f] = <<>>
  PROVE  Lists'
BY DEF Lists

(* The places stay right if the thread that moves leaves no loop in the    *)
(* middle and is where its operation may be.                               *)
LEMMA PlacedKept ==
  ASSUME Placed, NEW t \in Threads, job' = job,
         \A u \in Threads \ {t} : /\ At(u)' = At(u) /\ pos'[u] = pos[u]
                                  /\ cur'[u] = cur[u] /\ todo'[u] = todo[u]
                                  /\ pc'[u] = "notify" => pc[u] = "notify",
         pc'[t] # "notify",
         At(t)' \in {"release", "items", "errs", "done"}, pos'[t] = 1,
         At(t)' = "items" => op(t) = "build",
         op(t) \in Users \cup {"build"},
         op(t) # "build" => cur'[t] = cur[t] /\ todo'[t] = todo[t]
  PROVE  Placed'
<1>1. \A u \in Threads : op(u)' = op(u)
  BY Zenon DEF op
<1> QED BY <1>1 DEF Placed

(* References stay those of the threads that need them if the thread that  *)
(* moves keeps its own and does not begin ~Internal.                       *)
LEMMA HeldKept ==
  ASSUME Held, NEW t \in Threads, UNCHANGED <<job, value, holders>>,
         \A u \in Threads \ {t} : At(u)' = At(u) /\ cur'[u] = cur[u] /\ todo'[u] = todo[u],
         At(t)' # "errs",
         op(t) \in Users /\ At(t)' # "done" => t \in holders[cur'[t]],
         op(t) = "build" =>
           /\ At(t)' \in Early \cup {"errback", "release"} => t \in holders[cur'[t]]
           /\ At(t)' \in Early \cup {"errback"} => cur'[t] \notin todo'[t]
           /\ At(t)' \notin Early \cup {"errback", "items"} => todo'[t] = {}
           /\ \A f \in todo'[t] : t \in holders[f]
  PROVE  Held'
<1>1. \A u \in Threads : op(u)' = op(u)
  BY Zenon DEF op
<1> QED BY <1>1 DEF Held

(* What holds of values and results goes on to hold if no value is lost    *)
(* and it holds of the thread that moves.                                  *)
LEMMA OneValueKept ==
  ASSUME OneValue, NEW t \in Threads, Others(t),
         \A f \in Futures : value[f] # None => value'[f] = value[f],
         cur \in [Threads -> Futures], None \notin Threads,
         op(t) = "set" /\ result'[t] = "true" => value'[cur'[t]] = t,
         op(t) = "set" /\ result'[t] = "false" => value'[cur'[t]] \notin {None, t},
         op(t) = "get" /\ result'[t] # None => result'[t] = value'[cur'[t]]
  PROVE  OneValue'
<1> SUFFICES ASSUME NEW u \in Threads
             PROVE  /\ op(u) = "set" /\ result'[u] = "true" => value'[cur'[u]] = u
                    /\ op(u) = "set" /\ result'[u] = "false" => value'[cur'[u]] \notin {None, u}
                    /\ op(u) = "get" /\ result'[u] # None => result'[u] = value'[cur'[u]]
  BY Zenon DEF OneValue, Others, op
<1>1. CASE u = t
  BY Zenon, <1>1
<1>2. CASE u # t
  <2>1. result'[u] = result[u] /\ cur'[u] = cur[u] /\ cur[u] \in Futures
    BY Zenon, <1>2 DEF Others, Same
  <2> QED BY ZenonT(60), <2>1 DEF OneValue
<1> QED BY Zenon, <1>1, <1>2

-----------------------------------------------------------------------------
(* Steps that touch no callback of a future: the tests before the lock,    *)
(* waiting and waking, and what is done at the barrier.                    *)
Strays(t) ==
  \/ At(t)' = At(t)
  \/ At(t) = "start" /\ At(t)' = "locked"
  \/ /\ op(t) \in {"set", "get", "tryWait"} /\ At(t) \in Early \cup {"wait"}
     /\ At(t)' = "release" \/ (At(t)' = "wait" /\ op(t) # "set")
  \/ /\ op(t) \in {"barrierAdd", "barrierWait"}
     /\ At(t)' \in {"locked", "test", "done"} \/ (At(t)' = "wait" /\ op(t) = "barrierWait")

LEMMA StrayKeeps ==
  ASSUME Inv, NEW t \in Threads, Others(t), Strays(t),
         UNCHANGED <<job, value, callbacks, errbacks, holders, cur, todo, pos>>,
         \A u \in Threads : pc'[u] = "notify" => pc[u] = "notify",
         \A f \in Futures : \A c \in Mine(f) : ran'[c] = ran[c]
  PROVE  /\ Placed' /\ Held' /\ Valued' /\ Lists' /\ Runs'
<1>1. /\ \A u \in Threads : op(u)' = op(u) /\ (u # t => At(u)' = At(u))
      /\ \A f \in Futures : Mine(f)' = Mine(f)
  BY Zenon DEF Others, Same, op, Mine
<1>2. /\ At(t)' \in {"calls", "errs", "items", "errback"} => At(t)' = At(t)
      /\ At(t)' \in Early /\ op(t) \notin {"barrierAdd", "barrierWait"} => At(t) \in Early
      /\ At(t) \in {"calls", "errs", "items", "errback"} => At(t)' = At(t)
  BY Zenon DEF Strays, Early, Inv, Placed, Users
<1>3. /\ \A c : New(c)' => New(c)
      /\ \A f \in Futures, u \in Threads : Ahead(u, f)' => Ahead(u, f)
  <2>1. \A f \in Futures : Ahead(t, f)' => Ahead(t, f)
    BY Zenon, <1>1, <1>2 DEF Ahead
  <2> QED BY Zenon, <1>2, <2>1, NewShrinks
<1>4. Placed'
  BY <1>1 DEF Inv, Placed, Strays, Early, Users
<1>5. Held'
  BY <1>1 DEF Inv, Held, Strays, Early, Users
<1>6. Valued'
  BY ZenonT(60), <1>1, <1>2, ValuesKept DEF Inv
<1>7. Lists'
  BY <1>1, <1>2, <1>3 DEF Inv, Lists
<1>8. Runs'
  <2>1. \A f \in Futures : Signal(f) \in Mine(f)
    BY Zenon DEF Mine
  <2>2. \A f \in Futures, i \in Nat : Open(f, i)' => Open(f, i)
    BY <1>1, <1>2, OpensKept, Ranges DEF Inv
  <2>3. \A f \in Futures : \A i \in 1..Len(callbacks[f]) :
          Open(f, i)' => ran'[callbacks'[f][i]] = 0
    <3>1. \A f \in Futures : \A i \in 1..Len(callbacks[f]) :
            Open(f, i)' => ran[callbacks[f][i]] = 0
      BY <2>2, Ranges DEF Inv, Runs
    <3> QED BY ZenonT(60), <3>1 DEF Inv, Lists
  <2>4. \A u \in Threads : At(u)' = "errs" /\ pos'[u] = 1 => ran'[Signal(cur'[u])] = 0
    <3>1. \A u \in Threads : At(u)' = "errs" /\ pos'[u] = 1 =>
            ran[Signal(cur[u])] = 0 /\ cur[u] \in Futures
      BY <1>1, <1>2, Ranges DEF Inv, Runs
    <3> QED BY Zenon, <2>1, <3>1
  <2> QED BY ZenonT(60), <1>1, <1>3, <2>1, <2>3, <2>4 DEF Inv, Runs
<1> QED BY Zenon, <1>4, <1>5, <1>6, <1>7, <1>8

(* The steps of get, tryWait and the barrier's wait.                       *)
LEMMA WaitStep ==
  ASSUME Inv, NEW t \in Threads,
         get(t) \/ Wake(t) \/ Timeout(t) \/ SpuriousWakeup(t) \/ barrierWait(t)
  PROVE  Inv'
<1>1. UNCHANGED <<futs, holders, counter, barrierCbs, cur, todo, pos, notePos, back, ran>>
  BY Zenon DEF get, Wake, Timeout, SpuriousWakeup, barrierWait
<1>2. UNCHANGED <<job, value, callbacks, errbacks>>
  BY Zenon, <1>1 DEF futs
<1> DEFINE Waits == {"start", "locked", "wait", "woken"}
           l == pc'[t]
<1>3. /\ pc' = [pc EXCEPT ![t] = l] /\ pc[t] \in Waits
      /\ l \in {"locked", "wait", "woken", "release", "done"}
      /\ l = "locked" => pc[t] = "start"
      /\ l = "woken" => pc[t] = "wait"
      /\ l = "wait" => op(t) \in {"get", "tryWait", "barrierWait"}
      /\ l = "release" => op(t) \in {"get", "tryWait"}
      /\ l = "done" => op(t) = "barrierWait"
  <2>1. pc \in [Threads -> Places]
    BY Zenon DEF Inv, Types
  <2>2. pc[t] \in {"wait", "woken"} => op(t) \in {"get", "tryWait", "barrierWait"}
    BY Zenon DEF Inv, Placed, At
  <2>3. CASE get(t)
    BY Zenon, <2>1, <2>3 DEF get, Return, Goto
  <2>4. CASE Wake(t)
    BY Zenon, <2>1, <2>2, <2>4 DEF Wake, Return, Goto
  <2>5. CASE Timeout(t)
    BY Zenon, <2>1, <2>5 DEF Timeout, Return, Goto
  <2>6. CASE SpuriousWakeup(t)
    BY Zenon, <2>1, <2>6 DEF SpuriousWakeup, Goto
  <2>7. CASE barrierWait(t)
    BY Zenon, <2>1, <2>7 DEF barrierWait, Return, Goto
  <2> QED BY Zenon, <2>3, <2>4, <2>5, <2>6, <2>7
<1>4. /\ result' = [result EXCEPT ![t] = result'[t]]
      /\ result'[t] \in {result[t], "true", "false", value[cur[t]]}
      /\ op(t) \in {"set", "get"} => result'[t] \in {result[t], value[cur[t]]}
      /\ op(t) # "set"
  <2>1. result \in [Threads -> Threads \cup {None, "true", "false"}]
    BY Zenon DEF Inv, Types
  <2>2. CASE get(t)
    BY Zenon, <2>1, <2>2 DEF get, Return, Goto
  <2>3. CASE Wake(t)
    <3>1. op(t) # "set"
      BY Zenon, <2>3 DEF Wake, Inv, Placed, At
    <3> QED BY Zenon, <2>1, <2>3, <3>1 DEF Wake, Return, Goto
  <2>4. CASE Timeout(t)
    BY Zenon, <2>1, <2>4 DEF Timeout, Return, Goto
  <2>5. CASE SpuriousWakeup(t)
    <3>1. op(t) # "set"
      BY Zenon, <2>5 DEF SpuriousWakeup, Inv, Placed, At
    <3> QED BY Zenon, <2>1, <2>5, <3>1 DEF SpuriousWakeup
  <2>6. CASE barrierWait(t)
    BY Zenon, <2>1, <2>6 DEF barrierWait, Return, Goto
  <2> QED BY Zenon, <2>2, <2>3, <2>4, <2>5, <2>6
<1> HIDE DEF l
<1>5. At(t) \in {"start", "locked", "wait"} /\ At(t)' = (IF l = "woken" THEN "wait" ELSE l)
  BY Zenon, <1>3 DEF At, Inv, Types, Places
<1>6. Others(t)
  BY ZenonT(60), <1>1, <1>2, <1>3, <1>4 DEF Others, Same, At, Inv, Types, Places
<1>7. Strays(t)
  BY Zenon, <1>3, <1>5, <1>4 DEF Strays, Early, Inv, Placed, At
<1>8. \A u \in Threads : pc'[u] = "notify" => pc[u] = "notify"
  BY Zenon, <1>3 DEF Inv, Types, Places
<1>9. Types' /\ OneBarrier'
  <2>1. value[cur[t]] \in Threads \cup {None}
    BY Zenon DEF Inv, Types, Places
  <2>2. pc' \in [Threads -> Places]
    BY Zenon, <1>3 DEF Inv, Types, Places
  <2>3. result' \in [Threads -> Threads \cup {None, "true", "false"}]
    BY Zenon, <1>4, <2>1 DEF Inv, Types, Places
  <2> QED BY Zenon, <1>1, <1>2, <2>2, <2>3, JobsKept DEF Inv, Types, Places
<1>10. OneValue'
  <2>1. op(t) = "get" /\ result'[t] # None => result'[t] = value'[cur'[t]]
    BY Zenon, <1>1, <1>2, <1>4 DEF Inv, OneValue
  <2> QED BY Zenon, <1>1, <1>2, <1>4, <1>6, <2>1, OneValueKept, FutAssumption DEF Inv, Types, Places
<1>11. /\ Placed' /\ Held' /\ Valued' /\ Lists' /\ Runs'
  BY Zenon, <1>1, <1>2, <1>6, <1>7, <1>8, StrayKeeps
<1> QED BY Zenon, <1>9, <1>10, <1>11 DEF Inv

(* FutureBarrier::addCallback, and the loop over the barrier's callbacks.  *)
LEMMA BarrierStep ==
  ASSUME Inv, NEW t \in Threads, barrierAdd(t) \/ Notify(t)
  PROVE  Inv'
<1>1. UNCHANGED <<job, value, callbacks, errbacks, holders, counter, cur, todo, pos, result>>
  BY Zenon DEF barrierAdd, Notify, futs
<1>2. /\ Theirs \subseteq Cbs /\ \A f \in Futures : Mine(f) \subseteq Cbs
      /\ \A f \in Futures, c \in Theirs : c \notin Mine(f)
      /\ ran \in [Cbs -> Nat]
  BY DEF Theirs, Mine, Cbs, Cb, Signal, Inv, Types
<1>3. CASE barrierAdd(t)
  <2>1. op(t) = "barrierAdd" /\ Cb(t) \in Theirs /\ pc[t] \in {"start", "test", "locked"}
    BY Zenon, <1>3 DEF barrierAdd, Theirs, Cbs
  <2>2. /\ pc' = [pc EXCEPT ![t] = pc'[t]] /\ pc'[t] \in {"test", "locked", "done"}
        /\ UNCHANGED <<notePos, back>>
    BY ZenonT(60), <1>3 DEF barrierAdd, Goto, Inv, Types, Places
  <2>3. barrierCbs' \in Seq(Theirs)
    <3>1. barrierCbs \in Seq(Theirs)
      BY Zenon DEF Inv, OneBarrier
    <3>2. Append(barrierCbs, Cb(t)) \in Seq(Theirs)
      BY Zenon, <2>1, <3>1, Grows
    <3> QED BY Zenon, <1>3, <3>1, <3>2 DEF barrierAdd
  <2>4. /\ ran' = ran \/ (counter = 0 /\ ran' = [ran EXCEPT ![Cb(t)] = @ + 1])
    BY Zenon, <1>3 DEF barrierAdd
  <2>5. /\ ran' \in [Cbs -> Nat]
        /\ \A f \in Futures : \A c \in Mine(f) : ran'[c] = ran[c]
    BY <1>2, <2>1, <2>4
  <2>7. Others(t)
    BY Zenon, <1>1, <2>2 DEF Others, Same, At, Inv, Types, Places
  <2>8. Strays(t)
    BY Zenon, <2>1, <2>2 DEF Strays, At, Inv, Types, Places
  <2>9. \A u \in Threads : pc'[u] = "notify" => pc[u] = "notify"
    BY Zenon, <2>2 DEF Inv, Types, Places
  <2>10. Types'
    <3>1. pc' \in [Threads -> Places]
      BY Zenon, <2>2 DEF Inv, Types, Places
    <3> QED BY Zenon, <1>1, <2>2, <2>5, <3>1 DEF Inv, Types, Places
  <2>11. OneValue' /\ OneBarrier'
    BY Zenon, <1>1, <2>3, ResultsKept, JobsKept DEF Inv, OneBarrier
  <2>12. /\ Placed' /\ Held' /\ Valued' /\ Lists' /\ Runs'
    BY Zenon, <1>1, <2>5, <2>7, <2>8, <2>9, StrayKeeps
  <2> QED BY Zenon, <2>10, <2>11, <2>12 DEF Inv
<1>4. CASE Notify(t)
  <2>1. pc[t] = "notify" /\ barrierCbs' = barrierCbs
    BY Zenon, <1>4 DEF Notify
  <2>2. /\ pc' \in [Threads -> Places] /\ back' \in [Threads -> Places]
        /\ notePos' \in [Threads -> Nat \ {0}]
        /\ \A u \in Threads : At(u)' = At(u)
        /\ \A u \in Threads : pc'[u] = "notify" => pc[u] = "notify"
    <3>0. /\ pc \in [Threads -> Places] /\ back \in [Threads -> Places]
          /\ notePos \in [Threads -> Nat \ {0}]
      BY Zenon DEF Inv, Types
    <3>1. CASE notePos[t] <= Len(barrierCbs)
      <4>1. notePos' = [notePos EXCEPT ![t] = @ + 1] /\ UNCHANGED <<pc, back>>
        BY Zenon, <1>4, <3>1 DEF Notify
      <4> QED BY <3>0, <4>1 DEF At
    <3>2. CASE ~(notePos[t] <= Len(barrierCbs))
      <4>1. back[t] \in {"calls", "errback", "errs"}
        BY Zenon, <2>1 DEF Inv, Placed, At
      <4>2. /\ pc' = [pc EXCEPT ![t] = back[t]] /\ notePos' = [notePos EXCEPT ![t] = 1]
            /\ back' = [back EXCEPT ![t] = "done"]
        BY ZenonT(60), <1>4, <3>2 DEF Notify
      <4> QED BY <2>1, <3>0, <4>1, <4>2 DEF At, Places
    <3> QED BY Zenon, <3>1, <3>2
  <2>3. ran' = ran \/ \E c \in Theirs : ran' = [ran EXCEPT ![c] = @ + 1]
    <3>1. notePos[t] \in Nat \ {0} /\ barrierCbs \in Seq(Theirs)
      BY Zenon DEF Inv, Types, OneBarrier
    <3>2. notePos[t] <= Len(barrierCbs) => barrierCbs[notePos[t]] \in Theirs
      BY Zenon, <3>1, Grows
    <3> QED BY Zenon, <1>4, <3>2 DEF Notify
  <2>4. /\ ran' \in [Cbs -> Nat]
        /\ \A f \in Futures : \A c \in Mine(f) : ran'[c] = ran[c]
    BY <1>2, <2>3
  <2>5. Others(t) /\ Strays(t)
    BY Zenon, <1>1, <2>2 DEF Others, Same, Strays
  <2>6. Types'
    BY Zenon, <1>1, <2>2, <2>4 DEF Inv, Types, Places
  <2>7. OneValue' /\ OneBarrier'
    BY Zenon, <1>1, <2>1, ResultsKept, JobsKept DEF Inv
  <2>8. /\ Placed' /\ Held' /\ Valued' /\ Lists' /\ Runs'
    BY Zenon, <1>1, <2>1, <2>2, <2>4, <2>5, StrayKeeps
  <2> QED BY Zenon, <2>6, <2>7, <2>8 DEF Inv
<1> QED BY Zenon, <1>3, <1>4

-----------------------------------------------------------------------------
(* set() publishes the value: the callbacks registered so far become its   *)
(* own to run, and none of them has run.                                   *)
LEMMA PublishStep ==
  ASSUME Inv, NEW t \in Threads, set(t), ~Taken(t), pc[t] = "locked"
  PROVE  Inv'
<1> DEFINE f == cur[t]
<1>1. /\ op(t) = "set" /\ f \in Futures /\ value[f] = None
      /\ value' = [value EXCEPT ![f] = t]
      /\ pc' = [Woken(FutureWaiters(f)) EXCEPT ![t] = "calls"]
      /\ UNCHANGED <<job, callbacks, errbacks, holders, counter, barrierCbs, cur, todo, pos,
                     notePos, back, ran, result>>
  BY Zenon DEF set, Taken, Inv, Types, Places
<1>2. /\ pc' \in [Threads -> Places] /\ pc'[t] = "calls"
      /\ \A u \in Threads \ {t} : pc'[u] = pc[u] \/ (pc[u] = "wait" /\ pc'[u] = "woken")
  BY Zenon, <1>1 DEF Woken, FutureWaiters, Inv, Types, Places
<1>3. /\ At(t) = "locked" /\ At(t)' = "calls"
      /\ \A u \in Threads \ {t} : At(u)' = At(u)
      /\ \A u \in Threads : op(u)' = op(u)
  BY Zenon, <1>1, <1>2 DEF At, op
<1>4. /\ value' \in [Futures -> Threads \cup {None}] /\ value'[f] = t
      /\ \A g \in Futures : g # f => value'[g] = value[g] /\ value[g] # t
      /\ t \in holders[f] /\ pos[t] = 1 /\ None # t
  <2>1. value \in [Futures -> Threads \cup {None}] /\ None # t
    BY Zenon, FutAssumption DEF Inv, Types
  <2>2. \A g \in Futures : value[g] # t
    BY ZenonT(60), <1>3, <2>1 DEF Inv, Valued, Early
  <2>3. t \in holders[f] /\ pos[t] = 1
    BY Zenon, <1>1, <1>3 DEF Inv, Held, Placed, Users
  <2> QED BY Zenon, <1>1, <2>1, <2>2, <2>3
<1> HIDE DEF f
<1>5. Types' /\ OneBarrier'
  BY Zenon, <1>1, <1>2, <1>4, JobsKept DEF Inv, Types, Places
<1>6. Others(t)
  BY Zenon, <1>1, <1>3 DEF Others, Same
<1>7. OneValue'
  <2>1. result[t] \notin {"true", "false"}
    BY ZenonT(60), <1>1, <1>3, <1>4 DEF Inv, OneValue, Valued, Early, f
  <2> QED BY Zenon, <1>1, <1>4, <1>6, <2>1, OneValueKept, FutAssumption DEF Inv, Types, Places
<1>8. Placed'
  BY <1>1, <1>2, <1>3 DEF Inv, Placed
<1>9. Held'
  BY <1>1, <1>3, <1>4 DEF Inv, Held, Early, f
<1>10. Valued'
  <2>1. \A u \in Threads : u # t /\ At(u) = "calls" => cur[u] # f
    BY ZenonT(60), <1>1, FutAssumption DEF Inv, Valued
  <2>2. ASSUME NEW g \in Futures, value'[g] # None
        PROVE  op(value[g])' = "set" /\ cur'[value'[g]] = g /\ At(value[g])' \notin Early
    <3>1. CASE g = f
      BY Zenon, <1>1, <1>3, <1>4, <3>1 DEF Early, f
    <3>2. CASE g # f
      <4>1. value'[g] = value[g] /\ value[g] # t /\ value[g] \in Threads
        BY Zenon, <1>4, <2>2, <3>2, Ranges DEF Inv
      <4>2. op(value[g]) = "set" /\ cur[value[g]] = g /\ At(value[g]) \notin Early
        BY Zenon, <2>2, <4>1 DEF Inv, Valued
      <4> QED BY Zenon, <1>1, <1>3, <4>1, <4>2
    <3> QED BY Zenon, <3>1, <3>2
  <2>3. \A u \in Threads : At(u)' = "calls" => value'[cur[u]] = u
    BY <1>3, <1>4, <2>1, Ranges DEF Inv, Valued, f
  <2> QED BY Zenon, <1>1, <2>2, <2>3 DEF Valued
<1>11. /\ \A c : New(c)' => New(c)
       /\ \A g \in Futures, u \in Threads : Ahead(u, g)' => Ahead(u, g)
       /\ \A g \in Futures : Mine(g)' = Mine(g)
  BY ZenonT(60), <1>1, <1>3, <1>6, NewShrinks DEF Ahead, Mine, op
<1>12. Lists'
  BY <1>1, <1>3, <1>11 DEF Inv, Lists
<1>13. Runs'
  <2>1. \A g \in Futures, i \in Nat \ {0} : Open(g, i)' => Open(g, i)
    BY ZenonT(60), <1>1, <1>3, <1>4 DEF Open, Inv, Types, Places
  <2>2. \A g \in Futures : \A i \in 1..Len(callbacks[g]) :
          Open(g, i)' => ran[callbacks[g][i]] = 0
    BY <2>1 DEF Inv, Runs, Types, Places
  <2>3. \A g \in Futures : value'[g] = None => value[g] = None
    BY Zenon, <1>1, <1>4
  <2> QED BY ZenonT(60), <1>1, <1>3, <1>11, <2>2, <2>3 DEF Inv, Runs
<1> QED BY Zenon, <1>5, <1>7, <1>8, <1>9, <1>10, <1>12, <1>13 DEF Inv

(* set() that finds a value, or has yet to take the lock.                  *)
LEMMA SetStep ==
  ASSUME Inv, NEW t \in Threads, set(t)
  PROVE  Inv'
<1>1. CASE ~Taken(t) /\ pc[t] = "locked"
  BY Zenon, <1>1, PublishStep
<1>2. CASE Taken(t) \/ pc[t] = "start"
  <2>1. /\ op(t) = "set" /\ pc[t] \in {"start", "locked"}
        /\ UNCHANGED <<job, value, callbacks, errbacks, holders, counter, barrierCbs, cur,
                       todo, pos, notePos, back, ran>>
    BY Zenon, <1>2 DEF set
  <2>2. \/ /\ Taken(t) /\ result' = [result EXCEPT ![t] = "false"]
           /\ pc' = [pc EXCEPT ![t] = "release"]
        \/ result' = result /\ pc[t] = "start" /\ pc' = [pc EXCEPT ![t] = "locked"]
    BY Zenon, <1>2 DEF set, Return, Goto
  <2>3. /\ pc' \in [Threads -> Places] /\ Others(t)
        /\ result' \in [Threads -> Threads \cup {None, "true", "false"}]
        /\ \A u \in Threads : pc'[u] = "notify" => pc[u] = "notify"
    <3>1. pc \in [Threads -> Places]
          /\ result \in [Threads -> Threads \cup {None, "true", "false"}]
      BY Zenon DEF Inv, Types
    <3>2. /\ pc' \in [Threads -> Places] /\ pc'[t] # "notify"
          /\ \A u \in Threads \ {t} : pc'[u] = pc[u] /\ result'[u] = result[u]
          /\ result' \in [Threads -> Threads \cup {None, "true", "false"}]
      BY Zenon, <2>2, <3>1 DEF Places
    <3> QED BY Zenon, <2>1, <3>2 DEF Others, Same, At
  <2>4. Strays(t)
    BY ZenonT(60), <2>1, <2>2 DEF Inv, Types, Places, Strays, At, Early
  <2>5. Types' /\ OneBarrier'
    BY Zenon, <2>1, <2>3, JobsKept DEF Inv, Types, Places
  <2>6. OneValue'
    <3>1. CASE result' = result
      BY Zenon, <2>1, <3>1, ResultsKept DEF Inv
    <3>2. CASE Taken(t) /\ result' = [result EXCEPT ![t] = "false"]
      <4>1. value[cur[t]] \notin {None, t} /\ result'[t] = "false"
        BY ZenonT(60), <2>1, <3>2 DEF Taken, Inv, Types, Places, Valued, At, Early
      <4> QED BY Zenon, <2>1, <2>3, <4>1, OneValueKept, FutAssumption DEF Inv, Types, Places
    <3> QED BY Zenon, <2>2, <3>1, <3>2
  <2>7. /\ Placed' /\ Held' /\ Valued' /\ Lists' /\ Runs'
    BY Zenon, <2>1, <2>3, <2>4, StrayKeeps
  <2> QED BY Zenon, <2>5, <2>6, <2>7 DEF Inv
<1> QED BY Zenon, <1>1, <1>2 DEF set

(* The setter's loop runs each callback of its future once.                *)
LEMMA RunCallbackFacts ==
  ASSUME Inv, NEW t \in Threads, RunCallback(t), NEW f, f = cur[t],
         NEW c, c = callbacks[f][pos[t]]
  PROVE  /\ f \in Futures /\ pos[t] \in 1..Len(callbacks[f]) /\ Call(t, c, "calls")
         /\ pos' = [pos EXCEPT ![t] = @ + 1] /\ At(t) = "calls"
         /\ UNCHANGED <<job, value, callbacks, errbacks, holders, barrierCbs, cur, todo, result>>
         /\ value[f] = t /\ t # None /\ op(t) = "set"
         /\ c \in Mine(f) /\ ~New(c) /\ ran[c] = 0 /\ c \in Cbs
<1>1. /\ f \in Futures /\ pos[t] \in 1..Len(callbacks[f]) /\ Call(t, c, "calls")
      /\ pos' = [pos EXCEPT ![t] = @ + 1] /\ At(t) = "calls"
      /\ UNCHANGED <<job, value, callbacks, errbacks, holders, barrierCbs, cur, todo, result>>
  BY DEF RunCallback, futs, Inv, Types, Places, At
<1>2. value[f] = t /\ t # None /\ op(t) = "set"
  BY Zenon, <1>1, FutAssumption DEF Inv, Valued, Placed
<1>3. c \in Mine(f) /\ ~New(c) /\ ran[c] = 0 /\ c \in Cbs
  <2>1. Open(f, pos[t])
    <3>1. pos[t] <= pos[t]
      BY Ranges DEF Inv
    <3> QED BY ZenonT(60), <1>1, <1>2, <3>1 DEF Open
  <2>2. c \in Mine(f) /\ ~New(c) /\ ran[c] = 0
    BY ZenonT(60), <1>1, <2>1 DEF Inv, Lists, Runs
  <2> QED BY ZenonT(60), <1>1, <2>2 DEF Mine, Cbs
<1> QED BY Zenon, <1>1, <1>2, <1>3

LEMMA RunCallbackStep ==
  ASSUME Inv, NEW t \in Threads, RunCallback(t)
  PROVE  Inv'
<1> DEFINE f == cur[t]
           c == callbacks[f][pos[t]]
<1>1. /\ f \in Futures /\ pos[t] \in 1..Len(callbacks[f]) /\ Call(t, c, "calls")
      /\ pos' = [pos EXCEPT ![t] = @ + 1] /\ At(t) = "calls"
      /\ UNCHANGED <<job, value, callbacks, errbacks, holders, barrierCbs, cur, todo, result>>
  BY RunCallbackFacts
<1>2. value[f] = t /\ t # None /\ op(t) = "set"
  BY ZenonT(60), RunCallbackFacts
<1>3. c \in Mine(f) /\ ~New(c) /\ ran[c] = 0 /\ c \in Cbs
  BY RunCallbackFacts
<1>4. \A i \in 1..Len(callbacks[f]) : callbacks[f][i] = c => i = pos[t]
  BY Zenon, <1>1 DEF Inv, Lists
<1> HIDE DEF c, f
<1>5. /\ pc' \in [Threads -> Places] /\ back' \in [Threads -> Places]
      /\ notePos' \in [Threads -> Nat \ {0}]
      /\ ran' \in [Cbs -> Nat]
      /\ ran'[c] = ran[c] + 1 /\ \A d \in Cbs : d # c => ran'[d] = ran[d]
      /\ \A u \in Threads : At(u)' = At(u)
      /\ \A u \in Threads : pc'[u] = "notify" => pc[u] = "notify" \/ u = t
  BY <1>1, <1>3, CallEffect DEF Inv, Places
<1>7. Types' /\ OneBarrier'
  <2>1. pos' \in [Threads -> Nat \ {0}]
    <3>1. pos \in [Threads -> Nat \ {0}]
      BY Zenon DEF Inv, Types
    <3>2. pos[t] + 1 \in Nat \ {0}
      BY Zenon, Ranges, Grows DEF Inv
    <3> QED BY Zenon, <1>1, <3>1, <3>2
  <2> QED BY Zenon, <1>1, <1>5, <2>1, JobsKept DEF Inv, Types, Places
<1>8. OneValue' /\ Held' /\ Valued'
  BY Zenon, <1>1, <1>5, ResultsKept, StaysKept DEF Inv
<1>9. Placed'
  <2>1. \A u \in Threads \ {t} : pos'[u] = pos[u]
    BY Zenon, <1>1 DEF Inv, Types, Places
  <2> QED BY <1>1, <1>5, <2>1, JobsKept DEF Inv, Placed
<1>10. /\ \A d : New(d)' <=> New(d)
       /\ \A g \in Futures : Mine(g)' = Mine(g)
       /\ \A g \in Futures, u \in Threads : Ahead(u, g)' <=> Ahead(u, g)
  BY ZenonT(60), <1>1, <1>5 DEF New, Ahead, Mine, op
<1>11. Lists'
  BY ZenonT(60), <1>1, <1>5, <1>10, ListsKept DEF Inv
<1>12. Runs'
  <2>1. \A g \in Futures : \A d \in Mine(g) : d \in Cbs /\ (g # f => d # c)
    <3>1. \A g \in Futures : Mine(g) \subseteq Cbs
      BY DEF Mine, Cbs
    <3> QED BY Zenon, <1>1, <1>3, <3>1, MineApart
  <2>2. \A g \in Futures : \A d \in Mine(g) : ran'[d] <= 1 /\ (New(d) => ran'[d] = 0)
    BY <1>3, <1>5, <2>1 DEF Inv, Runs
  <2>3. \A g \in Futures : Signal(g) \in Mine(g)
    BY Zenon DEF Mine
  <2>4. \A g \in Futures : value[g] = None => g # f
    BY Zenon, <1>2
  <2>5. \A g \in Futures : value[g] = None /\ holders[g] # {} => ran'[Signal(g)] = 0
    BY ZenonT(60), <1>5, <2>1, <2>3, <2>4 DEF Inv, Runs
  <2>6. \A u \in Threads : At(u) = "errs" /\ pos'[u] = 1 => ran'[Signal(cur[u])] = 0
    <3> SUFFICES ASSUME NEW u \in Threads, At(u) = "errs", pos'[u] = 1
                 PROVE  ran'[Signal(cur[u])] = 0
      BY Zenon
    <3>1. u # t /\ pos'[u] = pos[u] /\ cur[u] \in Futures /\ value[cur[u]] = None
      BY ZenonT(60), <1>1 DEF Inv, Types, Places, Held
    <3> QED BY ZenonT(60), <1>5, <2>1, <2>3, <2>4, <3>1 DEF Inv, Runs
  <2>7. \A g \in Futures : \A i \in 1..Len(callbacks[g]) :
          Open(g, i)' => ran'[callbacks[g][i]] = 0
    <3> SUFFICES ASSUME NEW g \in Futures, NEW i \in 1..Len(callbacks[g]), Open(g, i)'
                 PROVE  ran'[callbacks[g][i]] = 0
      BY Zenon
    <3>1. callbacks[g][i] \in Mine(g)
      BY Zenon DEF Inv, Lists
    <3>2. CASE g = f
      <4>1. pos'[t] = pos[t] + 1 /\ pos'[t] <= i /\ pos[t] \in Nat /\ i \in Nat
        <5>1. i \in Nat /\ pos[t] \in Nat
          BY Zenon, Ranges, Grows DEF Inv
        <5>2. pos'[t] = pos[t] + 1
          BY Zenon, <1>1 DEF Inv, Types
        <5>3. pos'[t] <= i
          BY Zenon, <1>1, <1>2, <3>2 DEF Open
        <5> QED BY Zenon, <5>1, <5>2, <5>3
      <4>2. callbacks[g][i] # c
        <5>1. i # pos[t]
          BY Zenon, <4>1, Grows
        <5> QED BY Zenon, <1>4, <3>2, <5>1
      <4>3. Open(g, i)
        BY <1>1, <1>2, <3>2, <4>1 DEF Open
      <4> QED BY Zenon, <1>5, <2>1, <3>1, <4>2, <4>3 DEF Inv, Runs
    <3>3. CASE g # f
      <4>1. value[g] # t
        BY Zenon, <1>2, <3>3 DEF Inv, Valued, f
      <4>2. Open(g, i)
        <5>1. value[g] # None => value[g] \in Threads /\ pos'[value[g]] = pos[value[g]]
          BY Zenon, <1>1, <4>1 DEF Inv, Types
        <5> QED BY Zenon, <1>1, <1>5, <5>1 DEF Open
      <4> QED BY ZenonT(60), <1>5, <2>1, <3>1, <3>3, <4>2 DEF Inv, Runs
    <3> QED BY Zenon, <3>2, <3>3
  <2> QED BY <1>1, <1>5, <1>10, <2>2, <2>5, <2>6, <2>7 DEF Runs
<1> QED BY Zenon, <1>7, <1>8, <1>9, <1>11, <1>12 DEF Inv

(* The setter clears the lists after its loop.                             *)
LEMMA ClearStep ==
  ASSUME Inv, NEW t \in Threads, ClearCallbacks(t)
  PROVE  Inv'
<1> DEFINE f == cur[t]
<1>1. /\ f \in Futures /\ At(t) = "calls"
      /\ callbacks' = [callbacks EXCEPT ![f] = <<>>]
      /\ errbacks' = [errbacks EXCEPT ![f] = <<>>]
      /\ result' = [result EXCEPT ![t] = "true"] /\ pc' = [pc EXCEPT ![t] = "release"]
      /\ pos' = [pos EXCEPT ![t] = 1]
      /\ UNCHANGED <<job, value, holders, counter, barrierCbs, cur, todo, notePos, back, ran>>
  BY Zenon DEF ClearCallbacks, Return, Goto, Inv, Types, Places, At
<1>2. value[f] = t /\ t # None /\ op(t) = "set" /\ t \in holders[f]
  BY ZenonT(60), <1>1, FutAssumption DEF Inv, Valued, Placed, Held, Users
<1>3. /\ At(t)' = "release" /\ \A u \in Threads : op(u)' = op(u)
      /\ \A u \in Threads : pc'[u] = "notify" => pc[u] = "notify"
      /\ Others(t)
  BY Zenon, <1>1 DEF At, Others, Same, op, Inv, Types, Places
<1>4. \A g \in Futures :
        g # f => value[g] # t /\ callbacks'[g] = callbacks[g] /\ errbacks'[g] = errbacks[g]
  BY ZenonT(60), <1>1, <1>2 DEF Inv, Valued, Types, Places
<1>5. callbacks'[f] = <<>> /\ errbacks'[f] = <<>>
  BY Zenon, <1>1 DEF Inv, Types, Places
<1> HIDE DEF f
<1>6. Types' /\ OneBarrier'
  <2>1. callbacks' \in [Futures -> Seq(Cbs)] /\ errbacks' \in [Futures -> Seq(Cbs)]
    <3>1. <<>> \in Seq(Cbs)
      OBVIOUS
    <3> QED BY Zenon, <1>1, <3>1 DEF Inv, Types
  <2>2. pos' \in [Threads -> Nat \ {0}]
    <3>1. 1 \in Nat \ {0}
      OBVIOUS
    <3> QED BY Zenon, <1>1, <3>1 DEF Inv, Types
  <2> QED BY Zenon, <1>1, <2>1, <2>2, JobsKept DEF Inv, Types, Places
<1>7. OneValue'
  BY ZenonT(60), <1>1, <1>2, <1>3, OneValueKept, FutAssumption DEF Inv, Types, Places, f
<1>8. Placed' /\ Held' /\ Valued'
  <2>1. Placed'
    <3>1. \A u \in Threads \ {t} : At(u)' = At(u) /\ cur'[u] = cur[u] /\ todo'[u] = todo[u]
                                     /\ pos'[u] = pos[u]
      BY Zenon, <1>3 DEF Others, Same
    <3>2. pos'[t] = 1 /\ pc'[t] = "release"
      BY Zenon, <1>1 DEF Inv, Types
    <3>3. UNCHANGED <<job, cur, todo>>
      BY Zenon, <1>1
    <3> QED BY <1>2, <1>3, <3>1, <3>2, <3>3 DEF Inv, Placed, Users
  <2>2. Held'
    <3>1. UNCHANGED <<value, holders, cur, todo>>
      BY Zenon, <1>1
    <3>2. \A u \in Threads \ {t} : At(u)' = At(u)
      BY ZenonT(60), <1>3 DEF Others, Same
    <3> QED BY <1>2, <1>3, <3>1, <3>2 DEF Inv, Held, f
  <2>3. Valued'
    <3>1. value' = value /\ cur' = cur /\ \A u \in Threads \ {t} : At(u)' = At(u)
      BY ZenonT(60), <1>1, <1>3 DEF Others, Same
    <3> QED BY Zenon, <1>1, <1>3, <3>1, ValuesKept DEF Inv, Early
  <2> QED BY ZenonT(60), <2>1, <2>2, <2>3
<1>9. /\ \A c : New(c)' => New(c)
      /\ \A g \in Futures, u \in Threads : Ahead(u, g)' => Ahead(u, g)
      /\ \A g \in Futures : Mine(g)' = Mine(g)
  BY ZenonT(60), <1>1, <1>2, <1>3, NewShrinks DEF Ahead, Mine, op
<1>10. Lists'
  <2>1. \A u \in Threads : At(u)' = "errback" => At(u) = "errback"
    BY ZenonT(60), <1>3 DEF Others, Same
  <2> QED BY <1>1, <1>4, <1>5, <1>9, <2>1 DEF Inv, Lists
<1>11. Runs'
  <2>1. \A g \in Futures, i \in Nat : Open(g, i)' => Open(g, i)
    <3>1. \A u \in Threads : At(u)' = "calls" => At(u) = "calls" /\ pos'[u] = pos[u]
      BY ZenonT(60), <1>3 DEF Others, Same
    <3>2. \A u \in Threads : pos[u] \in Nat /\ pos[u] <= pos[u]
      BY Ranges DEF Inv
    <3>3. \A g \in Futures : holders'[g] \subseteq holders[g]
      BY Zenon, <1>1
    <3> QED BY ZenonT(60), <1>1, <3>1, <3>2, <3>3, OpensKept DEF Inv
  <2>2. \A g \in Futures : \A i \in 1..Len(callbacks'[g]) :
          Open(g, i)' => ran[callbacks'[g][i]] = 0
    <3> SUFFICES ASSUME NEW g \in Futures, NEW i \in 1..Len(callbacks'[g]), Open(g, i)'
                 PROVE  ran[callbacks'[g][i]] = 0
      BY Zenon
    <3>1. CASE g = f
      <4>1. 1..Len(<<>>) = {}
        OBVIOUS
      <4> QED BY Zenon, <1>5, <3>1, <4>1
    <3>2. CASE g # f
      <4>1. callbacks'[g] = callbacks[g] /\ i \in Nat
        BY ZenonT(60), <1>4, <3>2, Ranges, Grows DEF Inv
      <4> QED BY ZenonT(60), <2>1, <4>1 DEF Inv, Runs
    <3> QED BY Zenon, <3>1, <3>2
  <2>3. \A u \in Threads : At(u)' = "errs" => u # t /\ At(u) = "errs" /\ pos'[u] = pos[u]
    BY Zenon, <1>3 DEF Others, Same
  <2>4. /\ \A g \in Futures : \A d \in Mine(g) : ran'[d] <= 1 /\ (New(d)' => ran'[d] = 0)
        /\ \A g \in Futures : value[g] = None /\ holders[g] # {} => ran'[Signal(g)] = 0
    BY ZenonT(60), <1>1, <1>9 DEF Inv, Runs
  <2>5. \A u \in Threads : At(u)' = "errs" /\ pos'[u] = 1 => ran'[Signal(cur[u])] = 0
    BY ZenonT(60), <1>1, <2>3 DEF Inv, Runs
  <2>6. UNCHANGED <<value, holders, cur, ran>>
    BY Zenon, <1>1
  <2> QED BY ZenonT(60), <1>9, <2>2, <2>4, <2>5, <2>6, RunsFrom
<1> QED BY Zenon, <1>6, <1>7, <1>8, <1>10, <1>11 DEF Inv

-----------------------------------------------------------------------------
(* addCallback of a future: a new callback c runs at once or joins the     *)
(* list.  After it c is no longer new.                                     *)
LEMMA RegisterFacts ==
  ASSUME Inv, NEW t \in Threads, NEW c, pc[t] \in Early, NEW f, f = cur[t],
         \/ op(t) = "addCallback" /\ c = Cb(t)
         \/ op(t) = "build" /\ c = Signal(f)
  PROVE  /\ f \in Futures /\ At(t) = pc[t]
         /\ c \in Mine(f) /\ c \in Cbs /\ New(c)
         /\ ran[c] = 0 /\ \A g \in Futures : \A i \in 1..Len(callbacks[g]) : callbacks[g][i] # c
<1>1. f \in Futures /\ At(t) = pc[t] /\ At(t) \in Early
  BY Zenon DEF Inv, Types, At, Early
<1>2. c \in Mine(f) /\ c \in Cbs /\ New(c)
  BY ZenonT(60), <1>1 DEF Mine, Cbs, New, Ahead, Inv, Placed
<1>3. ran[c] = 0 /\ \A g \in Futures : \A i \in 1..Len(callbacks[g]) : callbacks[g][i] # c
  BY <1>1, <1>2 DEF Inv, Runs, Lists
<1> QED BY Zenon, <1>1, <1>2, <1>3

LEMMA RegisterStep ==
  ASSUME Inv, NEW t \in Threads, NEW c, NEW next \in {"release", "errback"},
         \/ op(t) = "addCallback" /\ c = Cb(t) /\ next = "release"
         \/ op(t) = "build" /\ c = Signal(cur[t]) /\ next = "errback",
         pc[t] \in Early, Register(t, c, next),
         UNCHANGED <<job, value, errbacks, holders, barrierCbs, cur, todo, pos, result>>
  PROVE  Inv'
<1> DEFINE f == cur[t]
<1>1. f \in Futures /\ At(t) = pc[t] /\ At(t) \in Early /\ next \notin {"notify", "woken"}
  BY Zenon, RegisterFacts
<1>2. c \in Mine(f) /\ c \in Cbs /\ New(c)
  BY Zenon, RegisterFacts
<1>3. ran[c] = 0 /\ \A g \in Futures : \A i \in 1..Len(callbacks[g]) : callbacks[g][i] # c
  BY ZenonT(60), RegisterFacts
<1>4. t \in holders[f] /\ pos[t] = 1 /\ (op(t) = "build" => f \notin todo[t])
  BY Zenon, <1>1 DEF Inv, Held, Placed, Early, Users
<1> HIDE DEF f
<1>5. CASE value[f] = None /\ pc[t] = "start"
  <2>1. pc' = [pc EXCEPT ![t] = "locked"] /\ UNCHANGED <<callbacks, counter, notePos, back, ran>>
    BY Zenon, <1>5 DEF Register, Goto, f
  <2>2. /\ pc' \in [Threads -> Places] /\ Others(t) /\ Strays(t)
        /\ \A u \in Threads : pc'[u] = "notify" => pc[u] = "notify"
    BY Zenon, <1>5, <2>1 DEF Inv, Types, Places, Others, Same, Strays, At
  <2>3. Types' /\ OneValue' /\ OneBarrier'
    BY Zenon, <2>1, <2>2, ResultsKept, JobsKept DEF Inv, Types, Places
  <2>4. /\ Placed' /\ Held' /\ Valued' /\ Lists' /\ Runs'
    BY Zenon, <2>1, <2>2, StrayKeeps
  <2> QED BY Zenon, <2>3, <2>4 DEF Inv
<1>6. CASE value[f] # None \/ pc[t] # "start"
  <2>1. \/ value[f] # None /\ Call(t, c, next) /\ UNCHANGED callbacks
        \/ /\ value[f] = None /\ callbacks' = [callbacks EXCEPT ![f] = Append(@, c)]
           /\ pc' = [pc EXCEPT ![t] = next] /\ UNCHANGED <<counter, notePos, back, ran>>
    BY Zenon, <1>6 DEF Register, Goto, f
  <2>2. /\ pc' \in [Threads -> Places] /\ back' \in [Threads -> Places]
        /\ notePos' \in [Threads -> Nat \ {0}]
        /\ ran' \in [Cbs -> Nat]
        /\ \A d \in Cbs : d # c => ran'[d] = ran[d]
        /\ ran'[c] <= 1
        /\ At(t)' = next /\ \A u \in Threads \ {t} : At(u)' = At(u)
        /\ \A u \in Threads : pc'[u] = "notify" =>
             pc[u] = "notify" \/ (u = t /\ c[1] = "signal")
    <3>1. CASE Call(t, c, next)
      <4>1. Types /\ next \in Places
        BY Zenon DEF Inv, Places
      <4>2. ran'[c] = ran[c] + 1
        BY Zenon, <1>1, <1>2, <3>1, <4>1, CallEffect
      <4>3. ran'[c] <= 1
        BY <1>3, <4>2
      <4> QED BY <1>1, <1>2, <3>1, <4>1, <4>3, CallEffect
    <3>2. CASE pc' = [pc EXCEPT ![t] = next] /\ UNCHANGED <<counter, notePos, back, ran>>
      BY <1>1, <1>2, <1>3, <3>2 DEF Inv, Types, Places, At
    <3> QED BY ZenonT(60), <2>1, <3>1, <3>2
  <2>3. Others(t) /\ \A u \in Threads : op(u)' = op(u)
    BY Zenon, <2>2 DEF Others, Same, op
  <2>4. /\ \A g \in Futures : callbacks'[g] \in Seq(Cbs)
        /\ callbacks' \in [Futures -> Seq(Cbs)]
        /\ \A g \in Futures : g # f => callbacks'[g] = callbacks[g]
        /\ callbacks'[f] = callbacks[f] \/
             (value[f] = None /\ ran' = ran /\ callbacks'[f] = Append(callbacks[f], c))
    <3>1. callbacks \in [Futures -> Seq(Cbs)]
      BY Zenon DEF Inv, Types
    <3>2. callbacks[f] \in Seq(Cbs) /\ Append(callbacks[f], c) \in Seq(Cbs)
      BY <1>1, <1>2, <3>1
    <3>3. CASE UNCHANGED callbacks
      BY Zenon, <3>1, <3>3
    <3>4. CASE /\ value[f] = None /\ ran' = ran
               /\ callbacks' = [callbacks EXCEPT ![f] = Append(callbacks[f], c)]
      BY Zenon, <1>1, <3>1, <3>2, <3>4
    <3> QED BY Zenon, <2>1, <3>3, <3>4
  <2>5. Types' /\ OneBarrier'
    BY Zenon, <2>2, <2>4, JobsKept DEF Inv, Types, Places
  <2>6. OneValue'
    BY ZenonT(60), ResultsKept DEF Inv
  <2>8. Placed'
    <3>1. c[1] = "signal" => op(t) = "build"
      BY DEF Cb
    <3>2. pc'[t] = "notify" => next = "errback"
      BY Zenon, <1>1, <2>2, <3>1 DEF Early
    <3>3. next = "errback" => op(t) = "build"
      BY ZenonT(60)
    <3> QED BY <1>4, <2>2, <2>3, <3>2, <3>3 DEF Inv, Placed, Users
  <2>9. Held'
    <3>1. \A u \in Threads : u # t => At(u)' = At(u)
      BY Zenon, <2>2
    <3>2. next \notin {"errs", "done"} /\ At(t)' = next /\ (op(t) = "build" => next = "errback")
      BY Zenon, <2>2
    <3>3. \A u \in Threads :
            /\ op(u) \in Users /\ At(u)' \notin {"errs", "done"} => u \in holders[cur[u]]
            /\ At(u)' = "errs" => At(u) = "errs"
      BY ZenonT(60), <1>4, <3>1, <3>2 DEF Inv, Held, f
    <3>4. \A u \in Threads : op(u) = "build" =>
            /\ At(u)' \in Early \cup {"errback", "release"} => u \in holders[cur[u]]
            /\ At(u)' \in Early \cup {"errback"} => cur[u] \notin todo[u]
            /\ At(u)' \notin Early \cup {"errback", "items"} => todo[u] = {}
            /\ \A g \in todo[u] : u \in holders[g]
      BY ZenonT(60), <1>4, <3>1, <3>2 DEF Inv, Held, f
    <3>5. \A u \in Threads :
            At(u)' = "errs" => holders[cur[u]] = {} /\ value[cur[u]] = None
      BY Zenon, <3>3 DEF Inv, Held
    <3>6. \A u, v \in Threads :
            At(u)' = "errs" /\ At(v)' = "errs" /\ cur[u] = cur[v] => u = v
      BY ZenonT(60), <3>3 DEF Inv, Held
    <3>7. UNCHANGED <<holders, value, cur, todo>> /\ \A u \in Threads : op(u)' = op(u)
      BY Zenon, <2>2, <2>3
    <3> QED BY ZenonT(60), <3>3, <3>4, <3>5, <3>6, <3>7 DEF Held
  <2>10. Valued'
    BY Zenon, <1>1, <2>2, ValuesKept DEF Inv, Early
  <2>11. /\ \A d : New(d)' => New(d) /\ d # c
         /\ \A g \in Futures, u \in Threads : Ahead(u, g)' => Ahead(u, g)
         /\ \A g \in Futures : Mine(g)' = Mine(g)
    <3>1. \A g \in Futures : Ahead(t, g)' => Ahead(t, g) /\ g # f
      BY Zenon, <1>4, <2>2, <2>3 DEF Ahead, Early, f
    <3>2. /\ \A d : New(d)' => New(d)
          /\ \A g \in Futures, u \in Threads : Ahead(u, g)' => Ahead(u, g)
      BY Zenon, <1>1, <2>3, <3>1, NewShrinks
    <3>3. ~New(c)'
      <4>1. CASE op(t) = "addCallback" /\ c = Cb(t)
        BY Zenon, <2>2, <2>3, <4>1 DEF New, Cb, Signal, Early
      <4>2. CASE op(t) = "build" /\ c = Signal(f)
        <5>1. \A u \in Threads, g \in Futures : Ahead(u, g)' => u = t
          BY Zenon, <2>3, <4>2 DEF Ahead, Inv, OneBarrier
        <5> QED BY Zenon, <2>3, <3>1, <4>2, <5>1 DEF New, Cb, Signal
      <4> QED BY Zenon, <4>1, <4>2 DEF f
    <3>4. \A g \in Futures : Mine(g)' = Mine(g)
      BY Zenon, <2>3 DEF Mine
    <3> QED BY Zenon, <3>2, <3>3, <3>4
  <2>12. Lists'
    <3> SUFFICES ASSUME NEW g \in Futures
                 PROVE  /\ \A i \in 1..Len(callbacks'[g]) :
                             callbacks'[g][i] \in Mine(g) /\ ~New(callbacks[g][i])'
                        /\ \A i, j \in 1..Len(callbacks'[g]) :
                             callbacks'[g][i] = callbacks'[g][j] => i = j
                        /\ errbacks[g] \in {<<>>, <<Signal(g)>>}
                        /\ \A u \in Threads :
                             Ahead(u, g)' \/ (cur[u] = g /\ At(u)' = "errback") =>
                               errbacks[g] = <<>>
      BY ZenonT(60), <2>1, <2>2, <2>11, ListsFrom
    <3>1. \A u \in Threads :
            Ahead(u, g)' \/ (cur[u] = g /\ At(u)' = "errback") => errbacks[g] = <<>>
      <4>1. Ahead(t, f) \/ op(t) # "build"
        BY Zenon, <1>1 DEF Ahead, f
      <4> QED BY <2>2, <2>11, <4>1 DEF Inv, Lists, f
    <3>2. CASE callbacks'[g] = callbacks[g]
      BY Zenon, <2>11, <3>1, <3>2 DEF Inv, Lists
    <3>3. CASE g = f /\ callbacks'[f] = Append(callbacks[f], c)
      <4>1. /\ callbacks[f] \in Seq(Cbs) /\ Len(callbacks'[f]) = Len(callbacks[f]) + 1
            /\ \A i \in 1..Len(callbacks'[f]) :
                 callbacks'[f][i] = IF i = Len(callbacks[f]) + 1 THEN c ELSE callbacks[f][i]
        <5>1. callbacks[f] \in Seq(Cbs) /\ c \in Cbs
          BY ZenonT(60), <1>1, <1>2, Ranges DEF Inv
        <5> HIDE DEF f
        <5> QED BY <3>3, <5>1
      <4>2. \A i \in 1..Len(callbacks[f]) : callbacks[f][i] # c
        BY ZenonT(60), <1>1, <1>3
      <4>3. \A i \in 1..Len(callbacks'[g]) :
              callbacks'[g][i] \in Mine(g) /\ ~New(callbacks[g][i])'
        <5>1. \A i \in 1..Len(callbacks[f]) :
                callbacks[f][i] \in Mine(f) /\ ~New(callbacks[f][i])
          BY ZenonT(60), <1>1 DEF Inv, Lists
        <5> HIDE DEF f
        <5> QED BY <1>2, <2>11, <3>3, <4>1, <5>1
      <4>4. \A i, j \in 1..Len(callbacks'[g]) : callbacks'[g][i] = callbacks'[g][j] => i = j
        <5>1. \A i, j \in 1..Len(callbacks[f]) : callbacks[f][i] = callbacks[f][j] => i = j
          BY Zenon, <1>1 DEF Inv, Lists
        <5> HIDE DEF f
        <5> QED BY <3>3, <4>1, <4>2, <5>1
      <4> QED BY ZenonT(60), <3>1, <4>3, <4>4 DEF Inv, Lists
    <3> QED BY ZenonT(60), <2>4, <3>2, <3>3
  <2>13. Runs'
    <3>1. \A g \in Futures : \A d \in Mine(g) : d \in Cbs /\ (g # f => d # c)
      BY <1>1, <1>2, MineApart DEF Mine, Cbs
    <3>2. \A g \in Futures : \A d \in Mine(g) : ran'[d] <= 1 /\ (New(d)' => ran'[d] = 0)
      BY Zenon, <2>2, <2>11, <3>1 DEF Inv, Runs
    <3>3. \A g \in Futures : Signal(g) \in Mine(g)
      BY Zenon DEF Mine
    <3>4. ran' = ran \/ value[f] # None
      BY Zenon, <2>1
    <3>5. \A g \in Futures : value[g] = None /\ holders[g] # {} => ran'[Signal(g)] = 0
      BY ZenonT(60), <2>2, <3>1, <3>3, <3>4 DEF Inv, Runs
    <3>6. \A u \in Threads : At(u)' = "errs" /\ pos[u] = 1 => ran'[Signal(cur[u])] = 0
      <4> SUFFICES ASSUME NEW u \in Threads, At(u)' = "errs", pos[u] = 1
                   PROVE  ran'[Signal(cur[u])] = 0
        BY Zenon
      <4>1. At(u) = "errs"
        BY Zenon, <2>2
      <4> cur[u] \in Futures /\ value[cur[u]] = None
        BY Zenon, <4>1, Ranges DEF Inv, Held
      <4> QED BY ZenonT(60), <2>2, <3>1, <3>3, <3>4, <4>1 DEF Inv, Runs
    <3>7. \A g \in Futures : \A i \in 1..Len(callbacks'[g]) :
            Open(g, i)' => ran'[callbacks'[g][i]] = 0
      <4> SUFFICES ASSUME NEW g \in Futures, NEW i \in 1..Len(callbacks'[g]), Open(g, i)'
                   PROVE  ran'[callbacks'[g][i]] = 0
        BY Zenon
      <4>1. Open(g, i)
        BY ZenonT(60), <1>1, <2>2 DEF Open, Inv, Types, Places, Early
      <4>2. CASE callbacks'[g] = callbacks[g]
        <5>1. callbacks[g][i] \in Mine(g) /\ callbacks[g][i] # c /\ ran[callbacks[g][i]] = 0
          BY ZenonT(60), <1>3, <4>1, <4>2 DEF Inv, Runs, Lists
        <5> QED BY Zenon, <2>2, <3>1, <4>2, <5>1
      <4>3. CASE g = f /\ ran' = ran /\ callbacks'[f] = Append(callbacks[f], c)
        <5>1. callbacks[f] \in Seq(Cbs)
          BY Zenon, <1>1 DEF Inv, Types
        <5>2. CASE i = Len(callbacks[f]) + 1
          BY <1>2, <1>3, <4>3, <5>1, <5>2
        <5>3. CASE i \in 1..Len(callbacks[f])
          <6>1. ran[callbacks[f][i]] = 0
            BY Zenon, <1>1, <4>1, <4>3, <5>3 DEF Inv, Runs
          <6> QED BY <1>2, <4>3, <5>1, <5>3, <6>1
        <5> QED BY <1>2, <4>3, <5>1, <5>2, <5>3
      <4> QED BY Zenon, <2>4, <4>2, <4>3
    <3> QED BY Zenon, <2>11, <3>2, <3>5, <3>6, <3>7 DEF Runs
  <2> QED BY Zenon, <2>5, <2>6, <2>8, <2>9, <2>10, <2>12, <2>13 DEF Inv
<1> QED BY Zenon, <1>1, <1>5, <1>6 DEF Early
=============================================================================
