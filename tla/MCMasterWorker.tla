-------------------------- MODULE MCMasterWorker --------------------------
(***************************************************************************)
(* Instance of MasterWorker for TLC: at most MaxTotal signals from the     *)
(* operator, SIGHUP twice, and SIGUSR1 only to a master that is not told   *)
(* to terminate.                                                           *)
(***************************************************************************)
EXTENDS MasterWorker

CONSTANT MaxTotal

TwoReloads == [g \in UserSignals |-> IF g = "HUP" THEN 2 ELSE 1]

Sent == Cardinality({g \in UserSignals : sends[g] < TwoReloads[g]})
          + (IF sends["HUP"] = 0 THEN 1 ELSE 0)

Few ==
  /\ ~(sends["USR1"] = 0 /\ sends["TERM"] = 0)
  /\ Sent <= MaxTotal

MCSpec == Init /\ [][Next /\ Few']_vars
MCFairSpec == MCSpec /\ Fairness
=============================================================================
