--------------------------- MODULE MCEventManager ---------------------------
(* Instances of EventManager for TLC.                                      *)
EXTENDS EventManager

CONSTANTS t1, t2, fd1, c1

NoTasks == {}
OneTask == {t1}
TwoTasks == {t1, t2}
NoFds == {}
OneFd == {fd1}
NoStates == {}
InOnly == {{}, {"IN"}}
InOut == {{"IN"}, {"OUT"}}
OneWorker == {1}
TwoWorkers == 1..2
ThreeWorkers == 1..3
AtZero == {0}
AtOne == {1}
ZeroAndOne == {0, 1}
OneCaller == {c1}

(* Two kinds of behaviour of one instance: all workers, with nothing for   *)
(* them to do, or two workers with tasks, of which only t1 is cancelled,   *)
(* and no failing epoll_wait.  The choice holds back the users of the      *)
(* manager and the failure only.                                           *)
NothingToDo == \A t \in Tasks : tstate[t] = "new" /\ t \notin cancelled
TwoAtWork ==
  intr = 0 /\ t2 \notin cancelled /\ \A w \in Workers \ TwoWorkers : wpc[w] = "unborn"

MCNext == Next /\ (NothingToDo \/ TwoAtWork)'
MCFairSpec == Init /\ [][MCNext]_vars /\ Fairness
=============================================================================
