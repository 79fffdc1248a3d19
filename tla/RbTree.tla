------------------------------- MODULE RbTree -------------------------------
(***************************************************************************)
(* The red-black tree of rbtree.c, one action per turn of each of its      *)
(* loops.  Keys in a tree are distinct, so a node is named by the key it   *)
(* holds; its address shows nowhere.  The mirrored halves of the source    *)
(* are one definition with a side as its parameter.                        *)
(***************************************************************************)
EXTENDS Integers, Sequences, FiniteSets, FiniteSetsExt, SequencesExt

CONSTANT Keys    \* a finite set of positive integers

nil == 0
Unset == -1      \* memory that has not been written
Sides == {"left", "right"}
Other(s) == IF s = "left" THEN "right" ELSE "left"
Nodes == Keys \cup {nil}

VARIABLES
  T,     \* the tree: root, and kid, parent and color of the nodes
  op,    \* the call: "none", "insert" or "delete"
  pc,    \* which loop it is in
  key,   \* its key
  x, y   \* its local variables of these names; x is z in rbtree_insert_fixup

vars == <<T, op, pc, key, x, y>>

Init ==
  /\ T = [root   |-> nil,
          kid    |-> [s \in Sides |-> [n \in Nodes |-> Unset]],
          parent |-> [n \in Nodes |-> Unset],
          color  |-> [n \in Nodes |-> IF n = nil THEN "BLACK" ELSE "RED"]]
  /\ op = "none" /\ pc = "idle" /\ key = nil /\ x = nil /\ y = nil

-----------------------------------------------------------------------------
(* Pointers.                                                               *)
SideOf(t, n) == IF n = t.kid["left"][t.parent[n]] THEN "left" ELSE "right"

(* Whatever points down to n points to v.                                  *)
Relink(t, n, v) ==
  IF t.parent[n] = nil THEN [t EXCEPT !.root = v]
                       ELSE [t EXCEPT !.kid[SideOf(t, n)][t.parent[n]] = v]

(* rbtree_left_rotate is Rotate(t, "left", n).                             *)
Rotate(t, s, n) ==
  LET k == t.kid[Other(s)][n]
      inner == t.kid[s][k]
      t1 == [t EXCEPT !.kid[Other(s)][n] = inner, !.parent[k] = t.parent[n]]
      t2 == IF inner = nil THEN t1 ELSE [t1 EXCEPT !.parent[inner] = n]
  IN  [Relink(t2, n, k) EXCEPT !.kid[s][k] = n, !.parent[n] = k]

Painted(t, n, c) == [t EXCEPT !.color[n] = c]

-----------------------------------------------------------------------------
Return == op' = "none" /\ pc' = "idle" /\ key' = nil /\ x' = nil /\ y' = nil

(* main searches the key and deletes the node found, so only keys that are *)
(* there are deleted; any key may be inserted.                             *)
Present == {n \in Keys : T.parent[n] # Unset}

Call(o, k) ==
  /\ op = "none" /\ (o = "delete" => k \in Present)
  /\ op' = o /\ pc' = "search" /\ key' = k /\ x' = T.root /\ y' = nil
  /\ T' = T

(* The loops of rbtree_search and rbtree_insert: one step down the tree.   *)
Descend ==
  /\ pc = "search" /\ x # nil /\ x # key
  /\ y' = x /\ x' = T.kid[IF key < x THEN "left" ELSE "right"][x]
  /\ UNCHANGED <<T, op, pc, key>>

Exists == op = "insert" /\ pc = "search" /\ x = key /\ Return /\ T' = T

(* A missing key becomes a red leaf below y.                               *)
Linked(t) ==
  LET t1 == [t EXCEPT !.parent[key] = y, !.color[key] = "RED",
                      !.kid["left"][key] = nil, !.kid["right"][key] = nil]
  IN  IF y = nil THEN [t1 EXCEPT !.root = key]
                 ELSE [t1 EXCEPT !.kid[IF key < y THEN "left" ELSE "right"][y] = key]

Link ==
  /\ op = "insert" /\ pc = "search" /\ x = nil
  /\ T' = Linked(T)
  /\ pc' = "insert_fixup" /\ x' = key
  /\ UNCHANGED <<op, key, y>>

-----------------------------------------------------------------------------
(* rbtree_insert_fixup.  A red uncle passes the violation up; otherwise it *)
(* is rotated away, an inner child being turned into an outer one first.   *)
Inner(t, z, s) == z = t.kid[Other(s)][t.parent[z]]

insert_fixup_Loop ==
  LET p == T.parent[x]
      g == T.parent[p]
      s == SideOf(T, p)
      uncle == T.kid[Other(s)][g]
      z == IF Inner(T, x, s) THEN p ELSE x
      t1 == IF Inner(T, x, s) THEN Rotate(T, s, p) ELSE T
      p1 == t1.parent[z]
      g1 == t1.parent[p1]
  IN  /\ pc = "insert_fixup" /\ T.color[p] = "RED"
      /\ IF T.color[uncle] = "RED"
         THEN /\ T' = Painted(Painted(Painted(T, p, "BLACK"), uncle, "BLACK"), g, "RED")
              /\ x' = g
         ELSE /\ T' = Rotate(Painted(Painted(t1, p1, "BLACK"), g1, "RED"), Other(s), g1)
              /\ x' = z
      /\ UNCHANGED <<op, pc, key, y>>

insert_fixup_End ==
  /\ pc = "insert_fixup" /\ T.color[T.parent[x]] # "RED"
  /\ T' = Painted(T, T.root, "BLACK")
  /\ Return

-----------------------------------------------------------------------------
(* rbtree_delete: y is the node to take out, the node of the key when that *)
(* has a free side, else its successor, found by rbtree_mini.              *)
Found ==
  /\ op = "delete" /\ pc = "search" /\ x = key
  /\ LET both == T.kid["left"][x] # nil /\ T.kid["right"][x] # nil
     IN  /\ y' = IF both THEN T.kid["right"][x] ELSE x
         /\ pc' = IF both THEN "mini" ELSE "splice"
  /\ UNCHANGED <<T, op, key, x>>

mini_Loop ==
  /\ pc = "mini"
  /\ IF T.kid["left"][y] # nil THEN y' = T.kid["left"][y] /\ pc' = pc
                               ELSE y' = y /\ pc' = "splice"
  /\ UNCHANGED <<T, op, key, x>>

(* The node of key takes y's key: y has its place from now on.             *)
TakesPlace(t) ==
  LET to(n) == IF n = key THEN y ELSE n
  IN  IF y = key THEN t
      ELSE [root   |-> to(t.root),
            kid    |-> [s \in Sides |-> [n \in Nodes |->
                          to(t.kid[s][IF n = y THEN key ELSE n])]],
            parent |-> [n \in Nodes |-> to(t.parent[IF n = y THEN key ELSE n])],
            color  |-> [n \in Nodes |-> t.color[IF n = y THEN key ELSE n]]]

(* The freed node is memory that has not been written again.               *)
Freed(t) ==
  [t EXCEPT !.kid["left"][key] = Unset, !.kid["right"][key] = Unset,
            !.parent[key] = Unset, !.color[key] = "RED"]

(* y's only child, or nil, takes y's place; nil's parent is set as well.   *)
OnlyKid_Left(t, n) == t.kid["left"][n]
OnlyKid(t, n) == IF t.kid["left"][n] # nil THEN t.kid["left"][n] ELSE t.kid["right"][n]

Splice ==
  LET k == OnlyKid(T, y)
      black == T.color[y] = "BLACK"
  IN  /\ pc = "splice"
      /\ T' = Freed(TakesPlace(Relink([T EXCEPT !.parent[k] = T.parent[y]], y, k)))
      /\ IF black THEN pc' = "delete_fixup" /\ x' = k /\ UNCHANGED <<op, key, y>>
                  ELSE Return

-----------------------------------------------------------------------------
(* rbtree_delete_fixup: x lacks a black.  A red sibling w is rotated up; a *)
(* w without red children gives up its black; else a rotation or two end   *)
(* it.                                                                     *)
Far_Near(t, w, s) == t.kid[s][w]
Far(t, w, s) == t.kid[Other(s)][w]

(* The case that ends the loop.                                            *)
Borrowed(t, p, w, s) ==
  LET near == t.kid[s][w]
      turn == t.color[Far(t, w, s)] = "BLACK"
      t1 == IF turn THEN Rotate(Painted(Painted(t, near, "BLACK"), w, "RED"), Other(s), w)
                    ELSE t
      w1 == t1.kid[Other(s)][p]
      t2 == Painted(Painted(t1, w1, t1.color[p]), p, "BLACK")
  IN  Rotate(Painted(t2, t2.kid[Other(s)][w1], "BLACK"), s, p)

delete_fixup_Loop ==
  LET p == T.parent[x]
      s == SideOf(T, x)
      w0 == T.kid[Other(s)][p]
      t == IF T.color[w0] = "RED"
           THEN Rotate(Painted(Painted(T, w0, "BLACK"), p, "RED"), s, p) ELSE T
      w == t.kid[Other(s)][p]
  IN  /\ pc = "delete_fixup" /\ x # T.root /\ T.color[x] = "BLACK"
      /\ IF \A side \in Sides : t.color[t.kid[side][w]] = "BLACK"
         THEN T' = Painted(t, w, "RED") /\ x' = p
         ELSE T' = Borrowed(t, p, w, s) /\ x' = T'.root
      /\ UNCHANGED <<op, pc, key, y>>

delete_fixup_End ==
  /\ pc = "delete_fixup" /\ (x = T.root \/ T.color[x] = "RED")
  /\ T' = Painted(T, x, "BLACK")
  /\ Return

Step ==
  \/ Descend \/ Exists \/ Link \/ insert_fixup_Loop \/ insert_fixup_End
  \/ Found \/ mini_Loop \/ Splice \/ delete_fixup_Loop \/ delete_fixup_End

Next == Step \/ \E o \in {"insert", "delete"}, k \in Keys : Call(o, k)

Spec == Init /\ [][Next]_vars

-----------------------------------------------------------------------------
(* The tree below a node as a set of levels: functions of depth and node,  *)
(* which also stop on a cycle.                                             *)
MaxDepth == Cardinality(Keys)
InOrder[d \in 0..MaxDepth, n \in Nodes] ==
  IF n = nil \/ d = 0 THEN <<>>
  ELSE InOrder[d - 1, T.kid["left"][n]] \o <<n>> \o InOrder[d - 1, T.kid["right"][n]]
KeysInOrder == InOrder[MaxDepth, T.root]
Stored == Range(KeysInOrder)

(* Blacks on a path to nil, the one that x lacks in delete_fixup included, *)
(* or Unset when two paths differ.                                         *)
Weight(n) == (IF T.color[n] = "BLACK" THEN 1 ELSE 0)
               + (IF pc = "delete_fixup" /\ n = x THEN 1 ELSE 0)
BlackHeight[d \in 0..MaxDepth, n \in Nodes] ==
  IF n = nil \/ d = 0 THEN 0
  ELSE LET H(s) == LET k == T.kid[s][n]
                       b == BlackHeight[d - 1, k]
                       nilWeight == IF k = nil /\ pc = "delete_fixup" /\ x = nil /\ T.parent[nil] = n
                                       /\ SideOf(T, nil) = s
                                    THEN 1 ELSE 0
                   IN  IF b = Unset THEN Unset
                       ELSE b + (IF k = nil THEN nilWeight ELSE Weight(k))
       IN  IF H("left") = H("right") THEN H("left") ELSE Unset

(* The tree is a dictionary: its keys are in order at every step, and a    *)
(* call changes them by its key alone (rbtree_insert, rbtree_delete).      *)
Dictionary ==
  [][KeysInOrder' = SetToSortSeq(
       IF pc = "search" /\ op = "insert" /\ pc' # "search" THEN Stored \cup {key}
       ELSE IF pc = "splice" THEN Stored \ {key} ELSE Stored, <)]_vars

(* Balanced whenever no call is under way, and in the fixups up to the one *)
(* defect that the loop carries upwards: a red z below a red parent, or a  *)
(* black that x lacks.                                                     *)
Balanced ==
  /\ pc \in {"insert_fixup", "delete_fixup"} \/ T.color[T.root] = "BLACK"
  /\ \A n \in Stored, s \in Sides :
       T.color[n] = "RED" /\ T.color[T.kid[s][n]] = "RED" =>
         \/ pc = "insert_fixup" /\ x = T.kid[s][n]
         \/ pc = "delete_fixup" /\ x \in {n, T.kid[s][n]}
  /\ BlackHeight[MaxDepth, T.root] # Unset

(* Parent and child pointers agree, and no node is in the tree twice.      *)
Threaded ==
  /\ T.root # nil => T.parent[T.root] = nil
  /\ Stored = Present /\ Len(KeysInOrder) = Cardinality(Present)
  /\ \A n \in Stored, s \in Sides : T.kid[s][n] # nil => T.parent[T.kid[s][n]] = n

=============================================================================
