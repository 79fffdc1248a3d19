---------------------------- MODULE FutureProofs ----------------------------
(***************************************************************************)
(* For any futures, threads and jobs with at most one barrier: one value   *)
(* per future, every callback once, no callback of the barrier early, and  *)
(* nobody changes a list of callbacks while it runs.                       *)
(***************************************************************************)
EXTENDS FutureInv, FiniteSetTheorems

-----------------------------------------------------------------------------
(* The builder takes the next item, registers its errback, or begins to    *)
(* let the items go.                                                       *)
LEMMA BuildStep ==
  ASSUME Inv, NEW t \in Threads, NextItem(t) \/ BuildErrback(t) \/ EndBuild(t)
  PROVE  Inv'
<1>1. /\ op(t) = "build" /\ At(t) = pc[t] /\ pc[t] \in {"items", "errback"}
      /\ pc' = [pc EXCEPT ![t] = pc'[t]] /\ pc'[t] \in {"start", "items", "release"}
      /\ UNCHANGED <<job, value, callbacks, holders, counter, barrierCbs, pos,
                     notePos, back, result, ran>>
  BY ZenonT(60) DEF NextItem, BuildErrback, EndBuild, Goto, futs, At, Inv, Types, Places
<1>2. /\ \A u \in Threads \ {t} : At(u)' = At(u)
      /\ \A u \in Threads : op(u)' = op(u) /\ (op(u) = "build" => u = t)
      /\ \A u \in Threads : pc'[u] = "notify" => pc[u] = "notify"
      /\ At(t)' = pc'[t]
  BY ZenonT(60), <1>1, JobsKept DEF At, Inv, Types, Places, OneBarrier
<1>3. \/ /\ pc[t] = "items" /\ pc'[t] = "start" /\ errbacks' = errbacks
         /\ \E f \in todo[t] : /\ cur' = [cur EXCEPT ![t] = f]
                               /\ todo' = [todo EXCEPT ![t] = @ \ {f}]
      \/ /\ pc[t] = "errback" /\ pc'[t] = "items" /\ UNCHANGED <<cur, todo>>
         /\ errbacks' = [errbacks EXCEPT ![cur[t]] = Append(@, Signal(cur[t]))]
      \/ /\ pc[t] = "items" /\ pc'[t] = "release" /\ UNCHANGED <<todo, errbacks>>
         /\ todo[t] = {}
         /\ \E f \in Futures : t \in holders[f] /\ cur' = [cur EXCEPT ![t] = f]
  <2>1. pc \in [Threads -> Places]
    BY Zenon DEF Inv, Types, Places
  <2>2. CASE NextItem(t)
    BY ZenonT(60), <2>1, <2>2 DEF NextItem, Goto, futs
  <2>3. CASE BuildErrback(t)
    BY ZenonT(60), <2>1, <2>3 DEF BuildErrback, Goto
  <2>4. CASE EndBuild(t)
    BY ZenonT(60), <2>1, <2>4 DEF EndBuild, Goto, futs
  <2> QED BY ZenonT(60), <2>2, <2>3, <2>4
<1>4. /\ cur' \in [Threads -> Futures] /\ todo' \in [Threads -> SUBSET Futures]
      /\ \A u \in Threads \ {t} : cur'[u] = cur[u] /\ todo'[u] = todo[u]
      /\ todo'[t] \subseteq todo[t]
      /\ pc'[t] = "start" => cur'[t] \in todo[t] /\ cur'[t] \notin todo'[t]
      /\ pc'[t] = "items" => pc[t] = "errback" /\ UNCHANGED <<cur, todo>>
      /\ pc'[t] = "release" => todo'[t] = {} /\ t \in holders[cur'[t]]
  <2>1. cur \in [Threads -> Futures] /\ todo \in [Threads -> SUBSET Futures]
    BY Zenon DEF Inv, Types, Places
  <2> QED BY ZenonT(60), <1>3, <2>1
<1>5. Others(t)
  BY Zenon, <1>1, <1>2, <1>4 DEF Others, Same
<1>6. /\ \A f \in Futures : pc'[t] = "items" /\ f = cur[t] =>
           errbacks'[f] = <<Signal(f)>> /\ errbacks[f] = <<>> /\ f \notin todo[t]
      /\ \A f \in Futures : ~(pc'[t] = "items" /\ f = cur[t]) => errbacks'[f] = errbacks[f]
      /\ errbacks' \in [Futures -> Seq(Cbs)]
  <2>1. errbacks \in [Futures -> Seq(Cbs)] /\ cur[t] \in Futures /\ Signal(cur[t]) \in Cbs
    BY ZenonT(60) DEF Inv, Types, Places, Cbs
  <2>2. pc[t] = "errback" => errbacks[cur[t]] = <<>> /\ cur[t] \notin todo[t]
    BY <1>1, <2>1 DEF Inv, Lists, Held
  <2>3. CASE pc[t] = "errback"
    <3>1. errbacks' = [errbacks EXCEPT ![cur[t]] = <<Signal(cur[t])>>] /\ pc'[t] = "items"
      BY <1>3, <2>1, <2>2, <2>3
    <3> QED BY <2>1, <2>2, <2>3, <3>1
  <2>4. CASE pc[t] # "errback"
    BY ZenonT(60), <1>3, <2>1, <2>4
  <2> QED BY Zenon, <2>3, <2>4
<1>7. Types' /\ OneBarrier'
  <2>1. pc' \in [Threads -> Places]
    BY ZenonT(60), <1>1 DEF Inv, Types, Places
  <2> QED BY ZenonT(60), <1>1, <1>4, <1>6, <2>1, JobsKept DEF Inv, Types, Places
<1>8. OneValue'
  BY Zenon, <1>1, <1>5, OneValueKept, FutAssumption DEF Inv, Types, Places
<1>9. Placed'
  BY <1>1, <1>2, <1>4 DEF Inv, Placed, Users
<1>10. Held'
  <2>1. \A u \in Threads \ {t} : At(u)' = At(u) /\ cur'[u] = cur[u] /\ todo'[u] = todo[u]
    BY ZenonT(60), <1>2, <1>4
  <2>2. op(t) = "build" /\ At(t)' \in {"start", "items", "release"} /\ op(t) \notin Users
    BY ZenonT(60), <1>1, <1>2, <1>3 DEF Users
  <2>3. \A f \in todo[t] : t \in holders[f]
    BY ZenonT(60), <2>2 DEF Inv, Held
  <2>4. At(t)' # "errs" /\ At(t)' # "errback"
    BY ZenonT(60), <2>2
  <2>5. /\ At(t)' \in Early \cup {"errback", "release"} => t \in holders[cur'[t]]
        /\ At(t)' \in Early \cup {"errback"} => cur'[t] \notin todo'[t]
        /\ At(t)' \notin Early \cup {"errback", "items"} => todo'[t] = {}
        /\ \A f \in todo'[t] : t \in holders[f]
    BY ZenonT(60), <1>1, <1>2, <1>4, <2>2, <2>3, <2>4 DEF Early
  <2> QED BY ZenonT(60), <1>1, <2>1, <2>2, <2>4, <2>5, HeldKept DEF Inv
<1>11. Valued'
  BY ZenonT(60), <1>1, <1>2, <1>4, ValuesKept DEF Inv
<1>12. /\ \A c : New(c)' => New(c)
       /\ \A f \in Futures, u \in Threads : Ahead(u, f)' => Ahead(u, f)
       /\ \A f \in Futures : Mine(f)' = Mine(f)
  <2>1. \A f \in Futures : Ahead(t, f)' => Ahead(t, f)
    BY Zenon, <1>1, <1>2, <1>4 DEF Ahead, Early
  <2> QED BY ZenonT(60), <1>1, <1>5, <2>1, NewShrinks DEF Mine, op
<1>13. Lists'
  <2> SUFFICES ASSUME NEW f \in Futures
               PROVE  /\ errbacks'[f] \in {<<>>, <<Signal(f)>>}
                      /\ \A u \in Threads :
                           Ahead(u, f)' \/ (cur'[u] = f /\ At(u)' = "errback") =>
                             errbacks'[f] = <<>>
    BY <1>1, <1>12 DEF Inv, Lists
  <2>1. errbacks'[f] \in {<<>>, <<Signal(f)>>}
    BY Zenon, <1>6 DEF Inv, Lists
  <2>2. ASSUME NEW u \in Threads, Ahead(u, f)' \/ (cur'[u] = f /\ At(u)' = "errback")
        PROVE  errbacks'[f] = <<>>
    <3>1. u = t /\ Ahead(t, f)' /\ Ahead(t, f)
      <4>1. At(u)' = "errback" => u = t
        BY ZenonT(60), <1>1, <1>2 DEF Inv, Placed
      <4> QED BY <1>1, <1>2, <1>12, <2>2, <4>1 DEF Ahead
    <3>2. ~(pc'[t] = "items" /\ f = cur[t])
      BY Zenon, <1>2, <1>4, <1>6, <3>1 DEF Ahead, Early
    <3> QED BY ZenonT(60), <1>6, <3>1, <3>2 DEF Inv, Lists
  <2> QED BY ZenonT(60), <2>1, <2>2
<1>14. Runs'
  <2>1. \A f \in Futures : holders'[f] \subseteq holders[f]
    BY Zenon, <1>1
  <2>2. \A u \in Threads : At(u)' = "calls" => At(u) = "calls"
    BY ZenonT(60), <1>1, <1>2
  <2>3. \A f \in Futures, i \in Nat : Open(f, i)' => Open(f, i)
    BY ZenonT(60), <1>1, <2>1, <2>2, OpensStay DEF Inv
  <2>4. \A u \in Threads : At(u)' = "errs" => At(u) = "errs" /\ cur'[u] = cur[u]
    BY ZenonT(60), <1>1, <1>2, <1>4
  <2>5. \A u \in Threads : At(u)' = "errs" /\ pos'[u] = 1 => ran[Signal(cur'[u])] = 0
    BY ZenonT(60), <1>1, <2>4 DEF Inv, Runs
  <2> QED BY ZenonT(60), <1>1, <1>12, <2>1, <2>3, <2>5, RunsKept DEF Inv
<1> QED BY ZenonT(60), <1>7, <1>8, <1>9, <1>10, <1>11, <1>13, <1>14 DEF Inv

(* A reference goes; if it was the last and there is no value, none of the *)
(* signals registered with the future has run.                             *)
LEMMA ReleaseStep ==
  ASSUME Inv, NEW t \in Threads, Release(t)
  PROVE  Inv'
<1> DEFINE f == cur[t]
           l == pc'[t]
<1>1. /\ f \in Futures /\ At(t) = "release" /\ pc[t] = "release"
      /\ holders' = [holders EXCEPT ![f] = @ \ {t}]
      /\ UNCHANGED <<job, value, callbacks, errbacks, counter, barrierCbs, cur, todo, pos,
                     notePos, back, result, ran>>
  BY Zenon DEF Release, futs, Inv, Types, Places, At
<1>2. /\ pc' = [pc EXCEPT ![t] = l]
      /\ \/ l = "errs" /\ holders'[f] = {} /\ value[f] = None
         \/ l = "items" /\ op(t) = "build"
         \/ l = "done"
  <2>1. pc \in [Threads -> Places]
    BY Zenon DEF Inv, Types
  <2> QED BY ZenonT(60), <1>1, <2>1 DEF Release, Goto, Dying, Dropped
<1> HIDE DEF l
<1>3. /\ At(t)' = l /\ \A u \in Threads : op(u)' = op(u)
      /\ \A u \in Threads \ {t} : At(u)' = At(u)
      /\ \A u \in Threads : pc'[u] = "notify" => pc[u] = "notify"
      /\ pc' \in [Threads -> Places]
  BY Zenon, <1>1, <1>2 DEF At, op, Inv, Types, Places
<1>4. Others(t)
  BY ZenonT(60), <1>1, <1>3 DEF Others, Same
<1>5. t \in holders[f] /\ todo[t] = {} /\ pos[t] = 1 /\ op(t) \in Users \cup {"build"}
  BY Zenon, <1>1 DEF Inv, Placed, Held, Early
<1>6. /\ \A g \in Futures : holders'[g] \subseteq holders[g] /\ (g # f => holders'[g] = holders[g])
      /\ \A g \in Futures, u \in Threads \ {t} : u \in holders[g] => u \in holders'[g]
      /\ holders' \in [Futures -> SUBSET Threads]
  BY Zenon, <1>1 DEF Inv, Types, Places
<1> HIDE DEF f
<1>7. Types' /\ OneBarrier'
  BY ZenonT(60), <1>1, <1>3, <1>6, JobsKept DEF Inv, Types, Places
<1>8. OneValue'
  BY ZenonT(60), <1>1, ResultsKept DEF Inv
<1>9. Placed'
  <2>1. pc'[t] \in {"errs", "items", "done"} /\ pc'[t] # "notify"
    BY ZenonT(60), <1>2, <1>3 DEF l
  <2> QED BY ZenonT(60), <1>1, <1>2, <1>3, <1>5, <2>1, PlacedKept DEF Inv
<1>10. Held'
  <2>1. \A u \in Threads :
          /\ op(u) \in Users /\ At(u)' \notin {"errs", "done"} => u \in holders'[cur[u]]
          /\ op(u) = "build" =>
               /\ At(u)' \in Early \cup {"errback", "release"} => u \in holders'[cur[u]]
               /\ At(u)' \in Early \cup {"errback"} => cur[u] \notin todo[u]
               /\ At(u)' \notin Early \cup {"errback", "items"} => todo[u] = {}
               /\ \A g \in todo[u] : u \in holders'[g]
    <3> SUFFICES ASSUME NEW u \in Threads
                 PROVE  /\ op(u) \in Users /\ At(u)' \notin {"errs", "done"} =>
                             u \in holders'[cur[u]]
                        /\ op(u) = "build" =>
                             /\ At(u)' \in Early \cup {"errback", "release"} =>
                                  u \in holders'[cur[u]]
                             /\ At(u)' \in Early \cup {"errback"} => cur[u] \notin todo[u]
                             /\ At(u)' \notin Early \cup {"errback", "items"} => todo[u] = {}
                             /\ \A g \in todo[u] : u \in holders'[g]
      BY Zenon
    <3>1. CASE u = t
      BY ZenonT(60), <1>2, <1>3, <1>5, <3>1 DEF Early, Users
    <3>2. CASE u # t
      <4>1. cur[u] \in Futures /\ todo[u] \subseteq Futures /\ At(u)' = At(u)
        BY ZenonT(60), <1>3, <3>2 DEF Inv, Types, Places
      <4> QED BY <1>6, <3>2, <4>1 DEF Inv, Held
    <3> QED BY ZenonT(60), <3>1, <3>2
  <2>2. \A u \in Threads \ {t} : At(u) = "errs" =>
          cur[u] # f /\ holders'[cur[u]] = {} /\ value[cur[u]] = None
    BY ZenonT(60), <1>5, <1>6 DEF Inv, Held, Types, Places
  <2>3. At(t)' = "errs" => holders'[f] = {} /\ value[f] = None
    BY Zenon, <1>2, <1>3
  <2>4. \A u \in Threads : At(u)' = "errs" => holders'[cur[u]] = {} /\ value[cur[u]] = None
    BY ZenonT(60), <1>3, <2>2, <2>3 DEF f
  <2>5. \A s, u \in Threads : At(s)' = "errs" /\ At(u)' = "errs" /\ cur[s] = cur[u] => s = u
    <3> SUFFICES ASSUME NEW s \in Threads, NEW u \in Threads, At(s)' = "errs", At(u)' = "errs",
                        cur[s] = cur[u], s # u
                 PROVE  FALSE
      BY Zenon
    <3>1. CASE s # t /\ u # t
      <4>1. At(s) = "errs" /\ At(u) = "errs"
        BY Zenon, <1>3, <3>1
      <4>2. \A v, w \in Threads : At(v) = "errs" /\ At(w) = "errs" /\ cur[v] = cur[w] => v = w
        BY Zenon DEF Inv, Held
      <4> QED BY Zenon, <4>1, <4>2
    <3>2. \A v \in Threads \ {t} : At(v)' = "errs" => cur[v] # cur[t]
      BY ZenonT(60), <1>3, <2>2 DEF f
    <3>3. CASE s = t
      BY Zenon, <3>2, <3>3
    <3>4. CASE u = t
      BY Zenon, <3>2, <3>4
    <3> QED BY Zenon, <3>1, <3>3, <3>4
  <2>6. UNCHANGED <<value, cur, todo>> /\ \A u \in Threads : op(u)' = op(u)
    BY Zenon, <1>1, <1>3
  <2> QED BY ZenonT(60), <2>1, <2>4, <2>5, <2>6 DEF Held
<1>11. Valued'
  BY <1>1, <1>2, <1>3, Ranges DEF Inv, Valued, Early
<1>12. /\ \A c : New(c)' => New(c)
       /\ \A g \in Futures, u \in Threads : Ahead(u, g)' => Ahead(u, g)
       /\ \A g \in Futures : Mine(g)' = Mine(g)
  <2>1. \A g \in Futures : ~Ahead(t, g)'
    BY Zenon, <1>1, <1>2, <1>3, <1>5 DEF Ahead, Early
  <2>2. At(t)' \notin Early
    BY ZenonT(60), <1>2, <1>3 DEF Early
  <2> QED BY Zenon, <1>1, <1>4, <2>1, <2>2, NewShrinks DEF Mine, op
<1>13. Lists'
  <2>1. \A u \in Threads : At(u)' = "errback" => At(u) = "errback" /\ cur'[u] = cur[u]
    BY ZenonT(60), <1>1, <1>2, <1>3
  <2> QED BY ZenonT(60), <1>1, <1>12, <2>1, ListsKept DEF Inv
<1>14. Runs'
  <2>1. \A u \in Threads : At(u)' = "calls" => At(u) = "calls"
    BY ZenonT(60), <1>1, <1>2, <1>3
  <2>2. \A g \in Futures, i \in Nat : Open(g, i)' => Open(g, i)
    BY ZenonT(60), <1>1, <1>6, <2>1, OpensStay DEF Inv
  <2>3. \A u \in Threads : At(u)' = "errs" /\ pos'[u] = 1 => ran[Signal(cur'[u])] = 0
    <3> SUFFICES ASSUME NEW u \in Threads, At(u)' = "errs", pos'[u] = 1
                 PROVE  ran[Signal(cur[u])] = 0
      BY Zenon, <1>1
    <3>1. CASE u = t
      BY ZenonT(60), <1>1, <1>2, <1>3, <1>5, <3>1 DEF Inv, Runs, f
    <3>2. CASE u # t
      BY ZenonT(60), <1>1, <1>3, <3>2 DEF Inv, Runs
    <3> QED BY Zenon, <3>1, <3>2
  <2> QED BY ZenonT(60), <1>1, <1>6, <1>12, <2>2, <2>3, RunsKept DEF Inv
<1> QED BY ZenonT(60), <1>7, <1>8, <1>9, <1>10, <1>11, <1>13, <1>14 DEF Inv

(* ~Internal runs the signal registered as errback once.                   *)
LEMMA RunErrbackFacts ==
  ASSUME Inv, NEW t \in Threads, RunErrback(t), NEW f, f = cur[t]
  PROVE  /\ f \in Futures /\ At(t) = "errs" /\ pc[t] = "errs"
         /\ UNCHANGED <<job, value, callbacks, errbacks, holders, barrierCbs, cur, todo, result>>
         /\ holders[f] = {} /\ value[f] = None
         /\ pos[t] <= Len(errbacks[f]) =>
              /\ errbacks[f] = <<Signal(f)>> /\ pos[t] = 1
              /\ Call(t, Signal(f), "errs") /\ pos' = [pos EXCEPT ![t] = @ + 1]
              /\ Signal(f) \in Mine(f) /\ Signal(f) \in Cbs /\ ran[Signal(f)] = 0
<1>1. /\ f \in Futures /\ At(t) = "errs" /\ pc[t] = "errs"
      /\ UNCHANGED <<job, value, callbacks, errbacks, holders, barrierCbs, cur, todo, result>>
  BY Zenon DEF RunErrback, futs, Inv, Types, At
<1>2. holders[f] = {} /\ value[f] = None
  BY Zenon, <1>1 DEF Inv, Held
<1>3. errbacks[f] \in {<<>>, <<Signal(f)>>}
  BY Zenon, <1>1 DEF Inv, Lists
<1>4. ASSUME pos[t] <= Len(errbacks[f])
      PROVE  /\ errbacks[f] = <<Signal(f)>> /\ pos[t] = 1
             /\ Call(t, Signal(f), "errs") /\ pos' = [pos EXCEPT ![t] = @ + 1]
             /\ Signal(f) \in Mine(f) /\ Signal(f) \in Cbs /\ ran[Signal(f)] = 0
  <2>1. errbacks[f] = <<Signal(f)>> /\ pos[t] = 1
    <3>1. pos[t] \in Nat /\ pos[t] > 0
      BY Zenon, Ranges DEF Inv
    <3>2. Len(<<Signal(f)>>) = 1 /\ Len(<<>>) = 0
      BY Zenon
    <3>3. errbacks[f] # <<>>
      BY <1>4, <3>1, <3>2
    <3>4. errbacks[f] = <<Signal(f)>>
      BY Zenon, <1>3, <3>3
    <3>5. pos[t] <= 1
      BY ZenonT(60), <1>4, <3>2, <3>4
    <3> QED BY <3>1, <3>4, <3>5
  <2>2. Call(t, Signal(f), "errs") /\ pos' = [pos EXCEPT ![t] = @ + 1]
    BY <1>4, <2>1 DEF RunErrback
  <2>3. Signal(f) \in Mine(f) /\ Signal(f) \in Cbs /\ ran[Signal(f)] = 0
    BY Zenon, <1>1, <2>1 DEF Mine, Cbs, Inv, Runs
  <2> QED BY Zenon, <2>1, <2>2, <2>3
<1> QED BY Zenon, <1>1, <1>2, <1>4

LEMMA RunErrbackStep ==
  ASSUME Inv, NEW t \in Threads, RunErrback(t)
  PROVE  Inv'
<1> DEFINE f == cur[t]
<1>1. /\ f \in Futures /\ At(t) = "errs" /\ pc[t] = "errs"
      /\ UNCHANGED <<job, value, callbacks, errbacks, holders, barrierCbs, cur, todo, result>>
  BY Zenon, RunErrbackFacts
<1>2. /\ holders[f] = {} /\ value[f] = None /\ todo[t] = {} /\ op(t) \in Users \cup {"build"}
      /\ \A u \in Threads \ {t} : At(u) = "errs" => cur[u] # f
  BY Zenon, <1>1 DEF Inv, Held, Placed, Early
<1>4. CASE pos[t] <= Len(errbacks[f])
  <2>1. errbacks[f] = <<Signal(f)>> /\ pos[t] = 1
    BY Zenon, <1>4, RunErrbackFacts
  <2> DEFINE c == Signal(f)
  <2>2. Call(t, c, "errs") /\ pos' = [pos EXCEPT ![t] = @ + 1]
    BY Zenon, <1>4, RunErrbackFacts
  <2>3. c \in Mine(f) /\ c \in Cbs /\ ran[c] = 0
    BY Zenon, <1>4, RunErrbackFacts
  <2>4. ~New(c)
    <3>1. <<c>> # <<>>
      BY Zenon
    <3>2. \A u \in Threads : ~Ahead(u, f)
      BY ZenonT(60), <1>1, <2>1, <3>1 DEF Inv, Lists
    <3> QED BY Zenon, <3>2 DEF New, Cb, Signal
  <2> HIDE DEF c, f
  <2>5. /\ pc' \in [Threads -> Places] /\ back' \in [Threads -> Places]
        /\ notePos' \in [Threads -> Nat \ {0}]
        /\ ran' \in [Cbs -> Nat]
        /\ ran'[c] = ran[c] + 1 /\ \A d \in Cbs : d # c => ran'[d] = ran[d]
        /\ \A u \in Threads : At(u)' = At(u)
        /\ \A u \in Threads : pc'[u] = "notify" => pc[u] = "notify" \/ u = t
    BY <1>1, <2>2, <2>3, CallEffect DEF Inv, Places
  <2>7. /\ pos' \in [Threads -> Nat \ {0}] /\ pos'[t] = 2
        /\ \A u \in Threads \ {t} : pos'[u] = pos[u]
    BY <2>1, <2>2 DEF Inv, Types, Places
  <2>8. Types' /\ OneBarrier'
    BY Zenon, <1>1, <2>5, <2>7, JobsKept DEF Inv, Types, Places
  <2>9. OneValue' /\ Held' /\ Valued'
    BY ZenonT(60), <1>1, <2>5, ResultsKept, StaysKept DEF Inv
  <2>10. Placed'
    BY <1>1, <2>5, <2>7, JobsKept DEF Inv, Placed
  <2>11. /\ \A d : New(d)' <=> New(d)
         /\ \A g \in Futures : Mine(g)' = Mine(g)
         /\ \A g \in Futures, u \in Threads : Ahead(u, g)' <=> Ahead(u, g)
    BY ZenonT(60), <1>1, <2>5 DEF New, Ahead, Mine, op
  <2>12. Lists'
    BY ZenonT(60), <1>1, <2>5, <2>11, ListsKept DEF Inv
  <2>13. Runs'
    <3>1. \A g \in Futures : \A d \in Mine(g) : d \in Cbs /\ (g # f => d # c)
      BY <1>1, <2>3, MineApart DEF Mine, Cbs
    <3>2. \A g \in Futures : \A d \in Mine(g) : ran'[d] <= 1 /\ (New(d) => ran'[d] = 0)
      <4>1. ran'[c] <= 1
        BY <2>3, <2>5
      <4>2. \A g \in Futures : \A d \in Mine(g) : ran[d] <= 1 /\ (New(d) => ran[d] = 0)
        BY Zenon DEF Inv, Runs
      <4> QED BY ZenonT(60), <2>4, <2>5, <3>1, <4>1, <4>2
    <3>3. \A g \in Futures : Signal(g) \in Mine(g)
      BY Zenon DEF Mine
    <3>4. \A g \in Futures : value[g] = None /\ holders[g] # {} => ran'[Signal(g)] = 0
      BY ZenonT(60), <1>2, <2>5, <3>1, <3>3 DEF Inv, Runs
    <3>5. \A u \in Threads : At(u) = "errs" /\ pos'[u] = 1 => ran'[Signal(cur[u])] = 0
      <4> SUFFICES ASSUME NEW u \in Threads, At(u) = "errs", pos'[u] = 1
                   PROVE  ran'[Signal(cur[u])] = 0
        BY Zenon
      <4>1. u # t /\ pos'[u] = pos[u] /\ cur[u] \in Futures /\ cur[u] # f
        BY <1>2, <2>7, Ranges DEF Inv
      <4> QED BY ZenonT(60), <2>5, <3>1, <3>3, <4>1 DEF Inv, Runs
    <3>6. \A g \in Futures : \A i \in 1..Len(callbacks[g]) :
            Open(g, i)' => ran'[callbacks[g][i]] = 0
      <4> SUFFICES ASSUME NEW g \in Futures, NEW i \in 1..Len(callbacks[g]), Open(g, i)'
                   PROVE  ran'[callbacks[g][i]] = 0
        BY Zenon
      <4>1. \A u \in Threads : At(u) = "calls" => u # t
        BY Zenon, <1>1
      <4>2. Open(g, i) /\ g # f
        <5>1. value[g] # None => value[g] \in Threads
          BY Zenon, Ranges DEF Inv
        <5> QED BY ZenonT(60), <1>1, <1>2, <2>5, <2>7, <4>1, <5>1 DEF Open
      <4>3. callbacks[g][i] \in Mine(g)
        BY Zenon DEF Inv, Lists
      <4> QED BY ZenonT(60), <2>5, <3>1, <4>2, <4>3 DEF Inv, Runs
    <3>7. /\ \A g \in Futures : \A d \in Mine(g) : ran'[d] <= 1 /\ (New(d)' => ran'[d] = 0)
          /\ \A g \in Futures : \A i \in 1..Len(callbacks'[g]) :
               Open(g, i)' => ran'[callbacks'[g][i]] = 0
          /\ \A u \in Threads : At(u)' = "errs" /\ pos'[u] = 1 => ran'[Signal(cur[u])] = 0
      BY ZenonT(60), <1>1, <2>5, <2>11, <3>2, <3>5, <3>6
    <3> QED BY ZenonT(60), <1>1, <2>11, <3>4, <3>7, RunsFrom
  <2> QED BY Zenon, <2>8, <2>9, <2>10, <2>12, <2>13 DEF Inv
<1>5. CASE ~(pos[t] <= Len(errbacks[f]))
  <2> DEFINE l == pc'[t]
  <2>1. /\ pc' = [pc EXCEPT ![t] = l] /\ l \in {"items", "done"}
        /\ l = "items" => op(t) = "build"
        /\ pos' = [pos EXCEPT ![t] = 1] /\ UNCHANGED <<counter, notePos, back, ran>>
    BY ZenonT(60), <1>5 DEF RunErrback, Goto, Dropped, Inv, Types, Places
  <2> HIDE DEF l, f
  <2>2. /\ At(t)' = l /\ \A u \in Threads : op(u)' = op(u)
        /\ \A u \in Threads \ {t} : At(u)' = At(u) /\ pos'[u] = pos[u]
        /\ \A u \in Threads : pc'[u] = "notify" => pc[u] = "notify"
        /\ pc' \in [Threads -> Places] /\ pos' \in [Threads -> Nat \ {0}] /\ pos'[t] = 1
    BY <1>1, <2>1 DEF At, op, Inv, Types, Places
  <2>3. Others(t)
    BY Zenon, <1>1, <2>2 DEF Others, Same
  <2>4. Types' /\ OneValue' /\ OneBarrier'
    BY ZenonT(60), <1>1, <2>1, <2>2, ResultsKept, JobsKept DEF Inv, Types, Places
  <2>5. Placed'
    <3>1. pc'[t] \in {"items", "done"} /\ pc'[t] # "notify"
      BY ZenonT(60), <2>1, <2>2 DEF l
    <3> QED BY ZenonT(60), <1>1, <1>2, <2>1, <2>2, <3>1, PlacedKept DEF Inv
  <2>6. Held'
    <3>1. At(t)' \in {"items", "done"} /\ At(t)' \notin {"errs", "errback", "release"} \cup Early
      BY ZenonT(60), <2>1, <2>2 DEF Early
    <3>2. op(t) \in Users => At(t)' = "done"
      BY ZenonT(60), <2>1, <2>2 DEF Users
    <3> QED BY ZenonT(60), <1>1, <1>2, <2>2, <3>1, <3>2, HeldKept DEF Inv
  <2>7. Valued'
    BY <1>1, <2>1, <2>2, Ranges DEF Inv, Valued, Early
  <2>8. /\ \A c : New(c)' => New(c)
        /\ \A g \in Futures, u \in Threads : Ahead(u, g)' => Ahead(u, g)
        /\ \A g \in Futures : Mine(g)' = Mine(g)
    <3>1. \A g \in Futures : ~Ahead(t, g)'
      BY Zenon, <1>1, <1>2, <2>1, <2>2 DEF Ahead, Early
    <3>2. At(t)' \notin Early
      BY ZenonT(60), <2>1, <2>2 DEF Early
    <3> QED BY Zenon, <1>1, <2>3, <3>1, <3>2, NewShrinks DEF Mine, op
  <2>9. Lists'
    <3>1. \A u \in Threads : At(u)' = "errback" => At(u) = "errback" /\ cur'[u] = cur[u]
      BY ZenonT(60), <1>1, <2>1, <2>2
    <3> QED BY ZenonT(60), <1>1, <2>8, <3>1, ListsKept DEF Inv
  <2>10. Runs'
    <3>1. \A g \in Futures, i \in Nat : Open(g, i)' => Open(g, i)
      BY <1>1, <2>1, <2>2, Ranges DEF Open, Inv
    <3>2. \A u \in Threads : At(u)' = "errs" => u # t /\ At(u) = "errs" /\ pos'[u] = pos[u]
      BY Zenon, <2>1, <2>2
    <3>3. \A u \in Threads : At(u)' = "errs" /\ pos'[u] = 1 => ran[Signal(cur'[u])] = 0
      BY ZenonT(60), <1>1, <3>2 DEF Inv, Runs
    <3>4. \A g \in Futures : holders'[g] \subseteq holders[g]
      BY Zenon, <1>1
    <3> QED BY ZenonT(60), <1>1, <2>1, <2>8, <3>1, <3>3, <3>4, RunsKept DEF Inv
  <2> QED BY ZenonT(60), <2>4, <2>5, <2>6, <2>7, <2>9, <2>10 DEF Inv
<1> QED BY Zenon, <1>4, <1>5

-----------------------------------------------------------------------------
LEMMA InitInv == Init => Inv
<1> SUFFICES ASSUME Init PROVE Inv
  BY Zenon
<1>1. job \in [Threads -> [op : Ops, fut : Futures]]
  BY Zenon, FutAssumption DEF Init
<1>2. Types
  <2>2. pc \in [Threads -> Places] /\ back \in [Threads -> Places]
    BY Zenon DEF Init, Places
  <2>3. holders \in [Futures -> SUBSET Threads]
    BY Zenon DEF Init
  <2>4. cur \in [Threads -> Futures]
    BY Zenon, <1>1 DEF Init
  <2> QED BY <1>1, <2>2, <2>3, <2>4 DEF Init, Types
<1>3. /\ \A t \in Threads : At(t) = pc[t]
      /\ \A t \in Threads : pc[t] = CASE op(t) = "build" -> "items"
                               [] op(t) = "abandon" -> "release"
                               [] op(t) = "idle" -> "done"
                               [] OTHER -> "start"
  BY Zenon DEF Init, At
<1>4. /\ \A t \in Threads : pc[t] \in {"items", "release", "done", "start"}
      /\ \A t \in Threads : op(t) \in Ops
  BY Zenon, <1>1, <1>3 DEF op
<1>5. Placed
  BY Zenon, <1>3, <1>4 DEF Init, Placed, Users
<1>6. Held
  BY ZenonT(60), <1>1, <1>3, <1>4 DEF Init, Held, Users, OnBarrier, Early, op
<1>7. Valued /\ OneValue /\ Lists
  <2>1. Valued /\ OneValue
    BY Zenon, <1>3, <1>4, FutAssumption DEF Init, Valued, OneValue
  <2>2. Lists
    BY <1>3, <1>4 DEF Init, Lists
  <2> QED BY Zenon, <2>1, <2>2
<1>8. \A f \in Futures : Signal(f) \in Cbs /\ Mine(f) \subseteq Cbs
  BY Zenon DEF Cbs, Mine
<1>9. Runs
  <2>1. \A c \in Cbs : ran[c] = 0 /\ ran[c] <= 1
    BY DEF Init
  <2>2. \A f \in Futures : callbacks[f] = <<>> /\ 1..Len(callbacks[f]) = {}
    BY DEF Init
  <2>3. \A t \in Threads : At(t) # "errs"
    BY ZenonT(60), <1>3, <1>4
  <2> QED BY ZenonT(60), <1>8, <2>1, <2>2, <2>3 DEF Runs
<1>10. OneBarrier
  BY FutAssumption DEF Init, OneBarrier, op
<1> QED BY ZenonT(60), <1>2, <1>5, <1>6, <1>7, <1>9, <1>10 DEF Inv

LEMMA NextInv == Inv /\ [Next]_vars => Inv'
<1> SUFFICES ASSUME Inv, [Next]_vars PROVE Inv'
  BY Zenon
<1>1. CASE UNCHANGED vars
  <2>1. /\ \A u \in Threads : At(u)' = At(u)
        /\ UNCHANGED <<job, value, callbacks, errbacks, holders, counter, barrierCbs, pc, cur,
                       todo, pos, notePos, back, result, ran>>
    BY Zenon, <1>1 DEF vars, futs, At
  <2>2. /\ \A c : New(c)' <=> New(c)
        /\ \A f \in Futures, u \in Threads : Ahead(u, f)' <=> Ahead(u, f)
        /\ \A f \in Futures, i \in Nat : Open(f, i)' <=> Open(f, i)
    <3>1. \A f \in Futures, u \in Threads : Ahead(u, f)' <=> Ahead(u, f)
      BY Zenon, <2>1, JobsKept DEF Ahead
    <3>2. \A c : New(c)' <=> New(c)
      BY Zenon, <2>1, <3>1, JobsKept DEF New
    <3>3. \A f \in Futures, i \in Nat : Open(f, i)' <=> Open(f, i)
      BY Zenon, <2>1 DEF Open, Inv, Types, Places
    <3> QED BY Zenon, <3>1, <3>2, <3>3
  <2>3. Types' /\ OneBarrier' /\ Held' /\ Valued' /\ OneValue'
    BY Zenon, <2>1, JobsKept, StaysKept, ResultsKept DEF Inv, Types, Places
  <2>4. Placed'
    BY ZenonT(60), <2>1, JobsKept DEF Inv, Placed
  <2>5. Lists'
    <3>1. \A f \in Futures : Mine(f)' = Mine(f)
      BY ZenonT(60), <2>1, JobsKept
    <3> QED BY <2>1, <2>2, <3>1 DEF Inv, Lists
  <2>6. Runs'
    <3>1. \A f \in Futures : Mine(f)' = Mine(f) /\ holders'[f] \subseteq holders[f]
      BY ZenonT(60), <2>1, JobsKept
    <3>2. \A u \in Threads : At(u)' = "errs" /\ pos'[u] = 1 => ran[Signal(cur'[u])] = 0
      BY ZenonT(60), <2>1 DEF Inv, Runs
    <3> QED BY ZenonT(60), <2>1, <2>2, <3>1, <3>2, RunsKept DEF Inv
  <2> QED BY Zenon, <2>3, <2>4, <2>5, <2>6 DEF Inv
<1>2. ASSUME NEW t \in Threads, addCallback(t) PROVE Inv'
  <2>1. op(t) = "addCallback" /\ pc[t] \in Early /\ Register(t, Cb(t), "release")
    BY Zenon, <1>2 DEF addCallback, Early
  <2> QED BY Zenon, <1>2, <2>1, RegisterStep DEF addCallback
<1>3. ASSUME NEW t \in Threads, BuildCallback(t) PROVE Inv'
  <2>1. op(t) = "build" /\ pc[t] \in Early /\ Register(t, Signal(cur[t]), "errback")
    BY Zenon, <1>3 DEF BuildCallback, Early
  <2> QED BY Zenon, <1>3, <2>1, RegisterStep DEF BuildCallback
<1> QED BY ZenonT(60), <1>1, <1>2, <1>3, SetStep, RunCallbackStep, ClearStep, WaitStep, BuildStep,
           BarrierStep, ReleaseStep, RunErrbackStep DEF Next, Step

LEMMA InvHolds == Spec => []Inv
BY InitInv, NextInv, PTL DEF Spec

-----------------------------------------------------------------------------
(* What the barrier counts: the signals that are missing.                  *)
Tally == counter = Cardinality({f \in Futures : ran[Signal(f)] = 0})

(* Whoever runs the callbacks of the barrier has seen the last signal.     *)
Announced ==
  \A t \in Threads : pc[t] = "notify" => \A f \in Futures : Resolved(f)

Counts == Tally /\ Announced /\ NeverEarly

(* A callback that has not run runs: the barrier still counts the signals  *)
(* that are missing, and whoever sees the last one finds all futures       *)
(* resolved.                                                               *)
LEMMA CallCounts ==
  ASSUME Inv, Counts, NEW t \in Threads, NEW f \in Futures, NEW c \in Mine(f),
         NEW next \in Places, next \notin {"notify", "woken"}, Call(t, c, next),
         ran[c] = 0, c = Signal(f) => Resolved(f),
         UNCHANGED <<value, holders, job>>
  PROVE  Counts'
<1>1. c \in Cbs /\ Mine(f) \subseteq Cbs
  BY ZenonT(60) DEF Mine, Cbs
<1>2. /\ ran' \in [Cbs -> Nat]
      /\ ran'[c] = ran[c] + 1 /\ \A d \in Cbs : d # c => ran'[d] = ran[d]
      /\ counter' = IF c[1] = "signal" THEN counter - 1 ELSE counter
      /\ \A u \in Threads : pc'[u] = "notify" =>
              pc[u] = "notify" \/ (u = t /\ c[1] = "signal" /\ counter' = 0)
  BY <1>1, CallEffect DEF Inv
<1>3. ran \in [Cbs -> Nat]
  BY Zenon DEF Inv, Types
<1> DEFINE M == {g \in Futures : ran[Signal(g)] = 0}
           N == {g \in Futures : ran'[Signal(g)] = 0}
<1>4. IsFiniteSet(M) /\ M \subseteq Futures
  BY Zenon, FutAssumption, FS_Subset
<1>5. counter = Cardinality(M) /\ (\A g \in Futures : Signal(g) \in Cbs)
  BY Zenon DEF Counts, Tally, Cbs
<1>6. Tally'
  <2>1. CASE c = Signal(f)
    <3>1. \A g \in Futures : Signal(g) = c => g = f
      BY Zenon, <2>1 DEF Signal
    <3>2. c[1] = "signal"
      BY ZenonT(60), <2>1 DEF Signal
    <3>3. f \in M /\ N = M \ {f}
      <4>1. ran[c] = 0 /\ ran'[c] # 0
        BY Zenon, <1>1, <1>2, Ranges, Grows DEF Inv
      <4> QED BY ZenonT(60), <1>2, <1>5, <2>1, <3>1, <4>1
    <3>4. Cardinality(N) = Cardinality(M) - 1
      BY ZenonT(60), <1>4, <3>3, FS_RemoveElement
    <3> QED BY Zenon, <1>2, <1>5, <3>2, <3>4 DEF Tally
  <2>2. CASE c # Signal(f)
    <3>1. c[1] = "cb" /\ \A g \in Futures : Signal(g) # c
      BY <2>2 DEF Mine, Cb, Signal
    <3>2. N = M
      BY ZenonT(60), <1>2, <1>5, <3>1
    <3> QED BY Zenon, <1>2, <1>5, <3>1, <3>2 DEF Tally
  <2> QED BY Zenon, <2>1, <2>2
<1>7. counter' = 0 => \A g \in Futures : Resolved(g)
  <2> SUFFICES ASSUME counter' = 0 PROVE \A g \in Futures : Resolved(g)
    BY Zenon
  <2>1. IsFiniteSet(N)
    BY Zenon, FutAssumption, FS_Subset
  <2>2. N = {}
    BY Zenon, <1>6, <2>1, FS_EmptySet DEF Tally
  <2>3. \A g \in Futures : ran'[Signal(g)] # 0
    BY Zenon, <2>2
  <2>4. \A g \in Futures : Signal(g) = c => Resolved(g)
    BY DEF Mine, Cb, Signal
  <2>5. \A g \in Futures : Signal(g) # c => ran[Signal(g)] # 0
    BY Zenon, <1>2, <1>5, <2>3
  <2>6. \A g \in Futures : ran[Signal(g)] # 0 => Resolved(g)
    BY Zenon DEF Inv, Runs, Resolved
  <2> QED BY Zenon, <2>4, <2>5, <2>6
<1>8. \A g \in Futures : Resolved(g)' <=> Resolved(g)
  BY Zenon DEF Resolved
<1>9. Announced'
  BY Zenon, <1>2, <1>7, <1>8 DEF Counts, Announced
<1>10. NeverEarly'
  <2> SUFFICES ASSUME NEW u \in Threads, op(u) = "barrierAdd", ran'[Cb(u)] > 0
               PROVE  \A g \in Futures : Resolved(g)
    BY Zenon, <1>8 DEF NeverEarly, op
  <2>1. Cb(u) # c
    BY DEF Mine, Cb, Signal
  <2>2. ran[Cb(u)] > 0
    BY Zenon, <1>2, <2>1 DEF Cbs
  <2> QED BY Zenon, <2>2 DEF Counts, NeverEarly
<1> QED BY ZenonT(60), <1>6, <1>9, <1>10 DEF Counts

(* No signal is missing when the counter is zero.                          *)
LEMMA ZeroIsResolved ==
  ASSUME Inv, Counts, counter = 0
  PROVE  \A f \in Futures : Resolved(f)
<1> DEFINE M == {f \in Futures : ran[Signal(f)] = 0}
<1>1. IsFiniteSet(M)
  BY Zenon, FutAssumption, FS_Subset
<1>2. M = {}
  BY Zenon, <1>1, FS_EmptySet DEF Counts, Tally
<1>3. \A f \in Futures : ran[Signal(f)] # 0
  BY Zenon, <1>2
<1> QED BY Zenon, <1>3 DEF Inv, Runs, Resolved

(* A step that runs no signal, and a callback of the barrier only when all *)
(* futures are resolved.                                                   *)
LEMMA QuietCounts ==
  ASSUME Counts, UNCHANGED <<job, counter>>,
         \A f \in Futures : ran'[Signal(f)] = ran[Signal(f)] /\ (Resolved(f) => Resolved(f)'),
         \A u \in Threads : pc'[u] = "notify" => pc[u] = "notify",
         \A u \in Threads : op(u) = "barrierAdd" =>
           ran'[Cb(u)] = ran[Cb(u)] \/ \A f \in Futures : Resolved(f)
  PROVE  Counts'
<1>1. Tally'
  BY Zenon DEF Counts, Tally
<1>2. Announced'
  BY Zenon DEF Counts, Announced
<1>3. \A u \in Threads : op(u)' = op(u)
  BY Zenon DEF op
<1>4. NeverEarly'
  BY Zenon, <1>3 DEF Counts, NeverEarly
<1> QED BY Zenon, <1>1, <1>2, <1>4 DEF Counts

(* addCallback of a future: the new callback is run if there is a value.   *)
LEMMA RegisterCounts ==
  ASSUME Inv, Counts, NEW t \in Threads, NEW c, NEW next \in {"release", "errback"},
         \/ op(t) = "addCallback" /\ c = Cb(t)
         \/ op(t) = "build" /\ c = Signal(cur[t]),
         pc[t] \in Early, Register(t, c, next), UNCHANGED <<job, value, holders>>
  PROVE  Counts'
<1>1. cur[t] \in Futures /\ c \in Mine(cur[t]) /\ ran[c] = 0
  BY Zenon, RegisterFacts
<1>2. CASE value[cur[t]] # None /\ Call(t, c, next)
  BY Zenon, <1>1, <1>2, CallCounts DEF Resolved, Places
<1>3. CASE value[cur[t]] = None
  <2>1. UNCHANGED <<counter, ran>> /\ \E l \in {"locked", next} : pc' = [pc EXCEPT ![t] = l]
    BY Zenon, <1>3 DEF Register, Goto
  <2>2. \A u \in Threads : pc'[u] = "notify" => pc[u] = "notify"
    BY Zenon, <2>1 DEF Inv, Types
  <2> QED BY Zenon, <2>1, <2>2, QuietCounts DEF Resolved
<1> QED BY Zenon, <1>2, <1>3 DEF Register

LEMMA CountStep ==
  ASSUME Inv, Counts, NEW t \in Threads, Step(t) \/ Timeout(t) \/ SpuriousWakeup(t)
  PROVE  Counts'
<1>1. CASE RunCallback(t)
  <2> DEFINE f == cur[t]
             c == callbacks[f][pos[t]]
  <2>1. /\ f \in Futures /\ c \in Mine(f) /\ ran[c] = 0 /\ Call(t, c, "calls") /\ Resolved(f)
        /\ UNCHANGED <<value, holders, job>>
    BY <1>1, RunCallbackFacts DEF Resolved
  <2> HIDE DEF f, c
  <2> QED BY ZenonT(60), <2>1, CallCounts DEF Places
<1>2. CASE addCallback(t)
  BY Zenon, <1>2, RegisterCounts DEF addCallback, Early
<1>3. CASE BuildCallback(t)
  BY Zenon, <1>3, RegisterCounts DEF BuildCallback, Early
<1>4. CASE RunErrback(t)
  <2> DEFINE f == cur[t]
  <2>1. f \in Futures /\ UNCHANGED <<job, value, holders>> /\ Resolved(f)
    BY Zenon, <1>4, RunErrbackFacts DEF Resolved
  <2>2. CASE pos[t] <= Len(errbacks[f])
    <3>1. Signal(f) \in Mine(f) /\ ran[Signal(f)] = 0 /\ Call(t, Signal(f), "errs")
      BY Zenon, <1>4, <2>2, RunErrbackFacts
    <3> QED BY ZenonT(60), <2>1, <3>1, CallCounts DEF Places
  <2>3. CASE ~(pos[t] <= Len(errbacks[f]))
    <3>1. UNCHANGED <<counter, ran>> /\ \E l \in {"items", "done"} : pc' = [pc EXCEPT ![t] = l]
      BY Zenon, <1>4, <2>3 DEF RunErrback, Goto, Dropped
    <3>2. \A u \in Threads : pc'[u] = "notify" => pc[u] = "notify"
      BY Zenon, <3>1 DEF Inv, Types
    <3> QED BY Zenon, <2>1, <3>1, <3>2, QuietCounts DEF Resolved
  <2> QED BY Zenon, <2>2, <2>3
<1>5. CASE barrierAdd(t)
  <2>1. /\ UNCHANGED <<job, counter, value, holders>>
        /\ \E l \in {"test", "locked", "done"} : pc' = [pc EXCEPT ![t] = l]
        /\ ran' = ran \/ (counter = 0 /\ ran' = [ran EXCEPT ![Cb(t)] = @ + 1])
    BY Zenon, <1>5 DEF barrierAdd, Goto, futs
  <2>2. \A u \in Threads : pc'[u] = "notify" => pc[u] = "notify"
    BY Zenon, <2>1 DEF Inv, Types
  <2>3. \A f \in Futures : ran'[Signal(f)] = ran[Signal(f)]
    <3>1. \A f \in Futures : Signal(f) \in Cbs /\ Signal(f) # Cb(t)
      BY Zenon DEF Cbs, Signal, Cb
    <3> QED BY Zenon, <2>1, <3>1 DEF Inv, Types
  <2>4. ran' = ran \/ \A f \in Futures : Resolved(f)
    BY ZenonT(60), <2>1, ZeroIsResolved
  <2> QED BY ZenonT(60), <2>1, <2>2, <2>3, <2>4, QuietCounts DEF Resolved
<1>6. CASE Notify(t)
  <2>1. /\ UNCHANGED <<job, counter, value, holders>> /\ pc[t] = "notify"
        /\ pc' = pc \/ pc' = [pc EXCEPT ![t] = back[t]]
        /\ ran' = ran \/ \E c \in Theirs : ran' = [ran EXCEPT ![c] = @ + 1]
    <3>1. notePos[t] \in Nat \ {0} /\ barrierCbs \in Seq(Theirs)
      BY Zenon DEF Inv, Types, OneBarrier
    <3> QED BY <1>6, <3>1 DEF Notify, futs
  <2>2. \A u \in Threads : pc'[u] = "notify" => pc[u] = "notify"
    BY Zenon, <2>1 DEF Inv, Types
  <2>3. \A f \in Futures : ran'[Signal(f)] = ran[Signal(f)]
    <3>1. \A f \in Futures, c \in Theirs : Signal(f) \in Cbs /\ Signal(f) # c
      BY DEF Cbs, Signal, Cb, Theirs
    <3> QED BY ZenonT(60), <2>1, <3>1 DEF Inv, Types
  <2>4. \A f \in Futures : Resolved(f)
    BY Zenon, <2>1 DEF Counts, Announced
  <2> QED BY ZenonT(60), <2>1, <2>2, <2>3, <2>4, QuietCounts DEF Resolved
<1>7. CASE set(t)
  <2>1. /\ UNCHANGED <<job, counter, ran, holders>>
        /\ value' = value \/ value' = [value EXCEPT ![cur[t]] = t]
        /\ \/ \E l \in {"release", "locked"} : pc' = [pc EXCEPT ![t] = l]
           \/ pc' = [Woken(FutureWaiters(cur[t])) EXCEPT ![t] = "calls"]
    BY Zenon, <1>7 DEF set, Return, Goto
  <2>2. \A u \in Threads : pc'[u] = "notify" => pc[u] = "notify"
    <3>1. DOMAIN pc = Threads
      BY Zenon DEF Inv, Types
    <3> QED BY Zenon, <2>1, <3>1 DEF Woken
  <2>3. \A f \in Futures : Resolved(f) => Resolved(f)'
    BY ZenonT(60), <2>1, FutAssumption DEF Resolved, Inv, Types
  <2> QED BY Zenon, <2>1, <2>2, <2>3, QuietCounts
<1>8. CASE Release(t)
  <2>1. /\ UNCHANGED <<job, counter, ran, value>>
        /\ holders' = [holders EXCEPT ![cur[t]] = @ \ {t}]
        /\ \E l \in {"errs", "items", "done"} : pc' = [pc EXCEPT ![t] = l]
    BY Zenon, <1>8 DEF Release, Goto, Dropped, futs
  <2>2. \A u \in Threads : pc'[u] = "notify" => pc[u] = "notify"
    BY Zenon, <2>1 DEF Inv, Types
  <2>3. \A f \in Futures : Resolved(f) => Resolved(f)'
    BY ZenonT(60), <2>1 DEF Resolved, Inv, Types
  <2> QED BY Zenon, <2>1, <2>2, <2>3, QuietCounts
<1>9. CASE \/ ClearCallbacks(t) \/ get(t) \/ Wake(t) \/ Timeout(t) \/ SpuriousWakeup(t)
           \/ NextItem(t) \/ BuildErrback(t) \/ EndBuild(t) \/ barrierWait(t)
  <2>1. UNCHANGED <<job, counter, ran, value, holders>>
    BY Zenon, <1>9 DEF ClearCallbacks, get, Wake, Timeout, SpuriousWakeup, NextItem, BuildErrback,
                EndBuild, barrierWait, futs
  <2>2. \E l \in Places \ {"notify"} : pc' = [pc EXCEPT ![t] = l]
    BY Zenon, <1>9 DEF ClearCallbacks, get, Wake, Timeout, SpuriousWakeup, NextItem, BuildErrback,
                EndBuild, barrierWait, Return, Goto, Places
  <2>3. \A u \in Threads : pc'[u] = "notify" => pc[u] = "notify"
    BY Zenon, <2>2 DEF Inv, Types
  <2> QED BY Zenon, <2>1, <2>3, QuietCounts DEF Resolved
<1> QED BY ZenonT(60), <1>1, <1>2, <1>3, <1>4, <1>5, <1>6, <1>7, <1>8, <1>9 DEF Step

LEMMA CountsHold == Spec => []Counts
<1>1. Init => Counts
  <2> SUFFICES ASSUME Init PROVE Counts
    BY Zenon
  <2>1. \A f \in Futures : Signal(f) \in Cbs
    BY Zenon DEF Cbs
  <2>2. {f \in Futures : ran[Signal(f)] = 0} = Futures
    BY Zenon, <2>1 DEF Init
  <2>3. Tally
    BY Zenon, <2>2 DEF Init, Tally, Counted
  <2>4. Announced /\ NeverEarly
    BY DEF Init, Announced, NeverEarly, Cbs
  <2> QED BY Zenon, <2>3, <2>4 DEF Counts
<1>2. Inv /\ Counts /\ [Next]_vars => Counts'
  <2> SUFFICES ASSUME Inv, Counts, [Next]_vars PROVE Counts'
    BY Zenon
  <2>1. CASE UNCHANGED vars
    BY Zenon, <2>1, QuietCounts DEF vars, futs, Resolved
  <2> QED BY Zenon, <2>1, CountStep DEF Next
<1> QED BY <1>1, <1>2, InvHolds, PTL DEF Spec

(* set(): of rival setters one succeeds, the others are told so, and every *)
(* get returns the value of the one.                                       *)
THEOREM OneSetterWins == Spec => []OneValue
<1>1. Inv => OneValue
  BY Zenon DEF Inv
<1> QED BY <1>1, InvHolds, PTL

(* A signal of the barrier and a callback of a future never run twice,     *)
(* whether set(), addCallback() or ~Internal calls them, and _counter is   *)
(* the number of signals still missing.                                    *)
THEOREM CallbacksRunOnce == Spec => []OnceEach
<1>1. Inv /\ Counts => OnceEach
  <2> SUFFICES ASSUME Inv, Counts PROVE OnceEach
    BY Zenon
  <2>1. \A f \in Futures : Signal(f) \in Mine(f)
    BY Zenon DEF Mine
  <2>2. \A t \in Threads : op(t) = "addCallback" =>
          job[t].fut \in Futures /\ Cb(t) \in Mine(job[t].fut)
    BY Zenon DEF Mine, Inv, Types, Places
  <2>3. /\ \A f \in Futures : ran[Signal(f)] <= 1
        /\ \A t \in Threads : op(t) = "addCallback" => ran[Cb(t)] <= 1
    BY ZenonT(60), <2>1, <2>2 DEF Inv, Runs
  <2> QED BY Zenon, <2>3 DEF Counts, Tally, OnceEach
<1> QED BY <1>1, InvHolds, CountsHold, PTL

(* No callback of the barrier runs before each future has a value or has   *)
(* been let go.                                                            *)
THEOREM BarrierIsNotEarly == Spec => []NeverEarly
<1>1. Counts => NeverEarly
  BY Zenon DEF Counts
<1> QED BY <1>1, CountsHold, PTL

(* set() runs over _callbacks without the lock; nobody else changes the    *)
(* list until it is through.                                               *)
THEOREM ListsAreStable == Spec => ListIsStable
<1>1. ASSUME Inv, [Next]_vars, NEW t \in Threads, pc[t] = "calls",
             callbacks'[cur[t]] # callbacks[cur[t]]
      PROVE  pos[t] > Len(callbacks[cur[t]])
  <2> DEFINE f == cur[t]
  <2>1. At(t) = "calls" /\ value[f] = t /\ t # None /\ f \in Futures
    BY ZenonT(60), <1>1, FutAssumption DEF Inv, Types, Places, Valued, At
  <2>2. PICK u \in Threads : ClearCallbacks(u) \/ addCallback(u) \/ BuildCallback(u)
    BY ZenonT(60), <1>1 DEF Next, Step, vars, futs, set, RunCallback, get, Wake, Timeout,
       SpuriousWakeup,
       NextItem, BuildErrback, EndBuild, barrierAdd, barrierWait, Notify, Release, RunErrback
  <2>3. cur[u] = f
    BY Zenon, <1>1, <2>1, <2>2 DEF ClearCallbacks, addCallback, BuildCallback, Register, Inv,
       Types, Places
  <2>4. ClearCallbacks(u)
    BY Zenon, <1>1, <2>1, <2>2, <2>3 DEF addCallback, BuildCallback, Register
  <2>5. u = t
    <3>1. At(u) = "calls"
      BY Zenon, <2>4 DEF ClearCallbacks, At
    <3>2. value[cur[u]] = u
      BY Zenon, <1>1, <3>1 DEF Inv, Valued
    <3> QED BY Zenon, <2>1, <2>3, <3>2
  <2> QED BY Zenon, <2>4, <2>5 DEF ClearCallbacks
<1>2. Inv /\ [Next]_vars =>
        [\A t \in Threads : pc[t] = "calls" /\ callbacks'[cur[t]] # callbacks[cur[t]] =>
                              pos[t] > Len(callbacks[cur[t]])]_vars
  BY Zenon, <1>1
<1> QED BY <1>2, InvHolds, PTL DEF Spec, ListIsStable
=============================================================================
