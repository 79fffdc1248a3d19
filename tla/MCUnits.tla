------------------------------ MODULE MCUnits ------------------------------
(***************************************************************************)
(* Instances for TLC of the components that stand alone: the ring buffer,  *)
(* the trees, the reactor and the shared-memory programs.  They share no   *)
(* state; job says which of them a behaviour is about, and the others stay *)
(* as they begin.                                                          *)
(***************************************************************************)
EXTENDS CircularBuffer, ReactorDemo, SharedMemoryDemo, FiniteSets

VARIABLES
  job,
  rbT, rbOp, rbPc, rbKey, rbX, rbY,
  btNode, btRoot, btX, btKey, btInserted

Bits == {0, 1}

(* Say "eat", "and", "so" and "end": the first two mix to "end".           *)
FourLines == <<{1}, {2, 3}, {}, {1, 2, 3}>>

Rb == INSTANCE RbTree WITH
  Keys <- 1..6, T <- rbT, op <- rbOp, pc <- rbPc, key <- rbKey, x <- rbX, y <- rbY
Bt == INSTANCE BTree WITH
  t <- 2, Keys <- 1..3, MaxInserts <- 10,
  node <- btNode, root <- btRoot, x <- btX, key <- btKey, inserted <- btInserted

rbVars == <<rbT, rbOp, rbPc, rbKey, rbX, rbY>>
btVars == <<btNode, btRoot, btX, btKey, btInserted>>
reVars == <<ev, checkpos, pc, batch, cur, reg, sock, backlog, made>>
shVars == <<written_by_you, some_text, copying, writer, reader, printed, wiped>>
allVars == <<job, vars, rbVars, btVars, reVars, shVars>>

MCInit ==
  /\ job \in {"ring", "rbtree", "btree", "reactor", "shm"}
  /\ IF job = "ring" THEN Init ELSE Init /\ data = [i \in 0..Capacity-1 |-> 0]
  /\ Rb!Init /\ Bt!Init /\ Re!Init /\ Sh!Init

(* Bounds on the reactor's clients: two of them at a time do not both send *)
(* or go away, a third comes while the others are silent, and one without a*)
(* slot does nothing.                                                      *)
FewClients ==
  LET busy == {f \in Fds : sock[f].pending + sock[f].received > 0}
  IN  /\ Cardinality(busy) <= 1 /\ Cardinality({f \in Fds : sock[f].link # "up"}) <= 1
      /\ busy # {} => made <= 2
      /\ \A f \in Fds : sock[f].leaked => sock[f].link = "up" /\ f \notin busy

MCNext ==
  \/ job = "ring" /\ Next /\ UNCHANGED <<job, rbVars, btVars, reVars, shVars>>
  \/ job = "rbtree" /\ Rb!Next /\ UNCHANGED <<job, vars, btVars, reVars, shVars>>
  \/ job = "btree" /\ Bt!Next /\ UNCHANGED <<job, vars, rbVars, reVars, shVars>>
  \/ job = "reactor" /\ Re!Next /\ FewClients'
       /\ UNCHANGED <<job, vars, rbVars, btVars, shVars>>
  \/ job = "shm" /\ Sh!Next /\ UNCHANGED <<job, vars, rbVars, btVars, reVars>>

MCSpec ==
  /\ MCInit /\ [][MCNext]_allVars
  /\ WF_reVars(job = "reactor" /\ Re!Loop)
  /\ WF_reVars(job = "reactor" /\ Re!Tick)

-----------------------------------------------------------------------------
(* RbTree: parent and child pointers agree and reach every node once, and  *)
(* the tree is balanced, up to the one defect a fixup carries.             *)
RbBalanced == Rb!Threaded /\ Rb!Balanced

(* RbTree: a call changes the sorted keys by its own key alone.            *)
RbDictionary == Rb!Dictionary

(* BTree: every key inserted is there, in order, while nodes are split; no *)
(* array overflows and all leaves have one depth.                          *)
BtKeysKept == Bt!KeysKept /\ Bt!InShape

(* Reactor: as long as the server lives, silent connections are closed and *)
(* pending data is received.                                               *)
ReAttended == Re!Attended
=============================================================================
