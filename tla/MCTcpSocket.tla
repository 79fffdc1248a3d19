---------------------------- MODULE MCTcpSocket ----------------------------
(***************************************************************************)
(* Instance of TcpSocket for TLC, in two kinds of behaviour.  One socket   *)
(* with traffic in either direction and two workers; or two sockets that   *)
(* have the same descriptor one after the other, with one worker.  The     *)
(* choice only holds back the user, the peer and the second worker.        *)
(***************************************************************************)
EXTENDS TcpSocket

CONSTANTS First, Second, Spare

Lengths == {<<1>>, <<1, 1>>}

Unused(s) == handle[s] = "unborn"
NothingIn(s) == received[s] + pending[s] = 0
NothingOut(s) == written[s] = 0

Alone ==
  /\ Unused(Second)
  /\ NothingOut(First) \/ NothingIn(First)
  /\ listening \/ (NothingOut(First) /\ NothingIn(First))

Reuse ==
  /\ at[Spare] = Idle /\ listening
  /\ NothingOut(First) /\ NothingIn(First) /\ NothingIn(Second)
  /\ written[Second] <= 1
  /\ handle[First] \in {"unborn", "held", "deleted"} /\ link[First] # "eof"
  /\ \/ Unused(Second)
     \/ /\ handle[First] # "unborn"
        /\ \/ fd[First] = None
           \/ \E t \in Threads : at[t].pc = "close" /\ at[t].s = First
        /\ handle[Second] = "held" => started[Second]
        /\ link[Second] # "reset"

Scenario == Alone \/ Reuse

MCNext == Next /\ Scenario'

MCSpec == Init /\ [][MCNext]_vars

MCFairness ==
  /\ \A w \in Workers : WF_vars((WorkerStep(w) \/ DisconnectStep(w)) /\ Scenario')
  /\ WF_vars(DisconnectStep(User))
  /\ WF_vars(\E s \in Sockets : PeerReads(s))

MCFairSpec == MCSpec /\ MCFairness
=============================================================================
