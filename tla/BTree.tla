-------------------------------- MODULE BTree --------------------------------
(***************************************************************************)
(* Insertion into the B-tree of btree.c: full nodes are split on the way   *)
(* down, one action per level.  A node's arrays are sequences of the length*)
(* in use; equal keys may be inserted.                                     *)
(***************************************************************************)
EXTENDS Integers, Sequences, SequencesExt, FiniteSets, Bags, BagsExt

CONSTANTS
  t,          \* the tree's t
  Keys,       \* keys that are inserted, a finite set of integers
  MaxInserts  \* bound: insertions

VARIABLES
  node,       \* the nodes made so far
  root,       \* T->root
  x,          \* the node btree_insert_nonfull is at, 0 outside a call
  key,        \* the key being inserted
  inserted    \* the bag of keys inserted

vars == <<node, root, x, key, inserted>>

Leaf == [leaf |-> TRUE, keys |-> <<>>, kids |-> <<>>]
Full(n, i) == Len(n[i].keys) = 2 * t - 1

Init ==
  /\ node = <<Leaf>> /\ root = 1 /\ x = 0 /\ key = 0 /\ inserted = EmptyBag

(* btree_split_child: the i-th child y of p gives its upper half to a new  *)
(* node and its middle key to p.                                           *)
UpperHalf_Early(s) == SubSeq(s, t, 2 * t - 1)
UpperHalf(s) == SubSeq(s, t + 1, 2 * t - 1)

split_child(n, p, i) ==
  LET y == n[p].kids[i]
      old == n[y]
      new == [leaf |-> old.leaf, keys |-> UpperHalf(old.keys),
              kids |-> IF old.leaf THEN <<>> ELSE SubSeq(old.kids, t + 1, 2 * t)]
      rest == [old EXCEPT !.keys = SubSeq(@, 1, t - 1),
                          !.kids = IF old.leaf THEN @ ELSE SubSeq(@, 1, t)]
  IN  Append([n EXCEPT ![y] = rest,
                       ![p].keys = InsertAt(@, i, old.keys[t]),
                       ![p].kids = InsertAt(@, i + 1, Len(n) + 1)], new)

(* btree_insert: a full root is split below a new one.                     *)
SplitsRoot == Full(node, root)

insert(k) ==
  LET r == Len(node) + 1
      n == split_child(Append(node, [leaf |-> FALSE, keys |-> <<>>, kids |-> <<root>>]), r, 1)
  IN  /\ x = 0 /\ BagCardinality(inserted) < MaxInserts
      /\ key' = k
      /\ IF SplitsRoot
         THEN node' = n /\ root' = r /\ x' = n[r].kids[IF n[r].keys[1] < k THEN 2 ELSE 1]
         ELSE x' = root /\ UNCHANGED <<node, root>>
      /\ UNCHANGED inserted

(* Where key belongs among keys: behind those that are not greater.        *)
Place(keys) == Cardinality({j \in DOMAIN keys : keys[j] <= key}) + 1

insert_nonfull ==
  LET i == Place(node[x].keys)
      n == split_child(node, x, i)
  IN  /\ x # 0
      /\ IF node[x].leaf
         THEN /\ node' = [node EXCEPT ![x].keys = InsertAt(@, i, key)]
              /\ x' = 0 /\ key' = 0
              /\ inserted' = BagAdd(inserted, key)
         ELSE /\ IF Full(node, node[x].kids[i])
                 THEN node' = n /\ x' = n[x].kids[IF key > n[x].keys[i] THEN i + 1 ELSE i]
                 ELSE node' = node /\ x' = node[x].kids[i]
              /\ UNCHANGED <<key, inserted>>
      /\ root' = root

Next == insert_nonfull \/ \E k \in Keys : insert(k)

Spec == Init /\ [][Next]_vars

-----------------------------------------------------------------------------
(* The keys below a node in order, and the depths of its leaves, to depth d*)
Depth == 1 + MaxInserts
InOrder[d \in 0..Depth, i \in Nat] ==
  LET n == node[i]
      Kid(j) == InOrder[d - 1, n.kids[j]]
  IN  IF d = 0 \/ n.leaf THEN n.keys
      ELSE FoldLeft(LAMBDA s, j : s \o <<n.keys[j]>> \o Kid(j + 1), Kid(1),
                    [j \in 1..Len(n.keys) |-> j])
LeafDepths[d \in 0..Depth, i \in Nat] ==
  IF d = 0 \/ node[i].leaf THEN {d}
  ELSE UNION {LeafDepths[d - 1, node[i].kids[j]] : j \in DOMAIN node[i].kids}

(* Every key inserted is in the tree, in order, also while nodes are split *)
(* (btree_split_child, btree_insert_nonfull).                              *)
KeysKept ==
  LET all == InOrder[Depth, root]
  IN  /\ \A j \in 1..Len(all)-1 : all[j] <= all[j + 1]
      /\ FoldLeft(BagAdd, EmptyBag, all) = inserted

(* The arrays never overflow, no node but the root is under-full, and all  *)
(* leaves have the same depth.                                             *)
InShape ==
  /\ \A i \in DOMAIN node :
       /\ Len(node[i].keys) <= 2 * t - 1
       /\ i # root => Len(node[i].keys) >= t - 1
       /\ ~node[i].leaf => Len(node[i].kids) = Len(node[i].keys) + 1
  /\ Cardinality(LeafDepths[Depth, root]) = 1
=============================================================================
