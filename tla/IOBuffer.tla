------------------------------ MODULE IOBuffer ------------------------------
(***************************************************************************)
(* IOBuffer: a byte stream kept as a list of blocks with the total length  *)
(* beside it.  Operators only; a NULL or false result leaves the buffer as *)
(* it is.                                                                  *)
(***************************************************************************)
EXTENDS Integers, Sequences

Empty == [size |-> 0, blocks |-> <<>>]

(* The bytes of the first k blocks, in order, and their number.            *)
Leading(b, k) ==
  LET joined[i \in 0..k] == IF i = 0 THEN <<>> ELSE joined[i - 1] \o b.blocks[i]
  IN  joined[k]
Total(b, k) == Len(Leading(b, k))

(* The bytes of a buffer, in order.                                        *)
Bytes(b) == Leading(b, Len(b.blocks))

(* append of a vector, and of an array, which is first copied into one.    *)
AppendBlock(b, v) == [size |-> b.size + Len(v), blocks |-> Append(b.blocks, v)]

(* append of an IOBuffer: the blocks change owner, nothing is copied.       *)
AppendBuffer(b, d) == [size |-> b.size + d.size, blocks |-> b.blocks \o d.blocks]

(* pulldown and consume refuse more bytes than there are.                  *)
Has(b, n) == n <= b.size /\ b.size # 0

(* The number of leading blocks that pulldown joins into one.              *)
Joined(b, n) ==
  CHOOSE k \in 1..Len(b.blocks) : Total(b, k - 1) < n /\ n <= Total(b, k)

pulldown(b, n) ==
  IF Has(b, n) /\ n > Len(b.blocks[1])
  THEN LET k == Joined(b, n)
       IN  [b EXCEPT !.blocks = <<Leading(b, k)>> \o SubSeq(@, k + 1, Len(@))]
  ELSE b

(* The bytes pulldown's result points at.                                  *)
Pointed(b, n) == IF Has(b, n) THEN SubSeq(pulldown(b, n).blocks[1], 1, n) ELSE <<>>

(* Whole blocks are freed first, then the rest of the first one moves up.  *)
consume(b, n) ==
  IF Has(b, n)
  THEN LET k == CHOOSE j \in 0..Len(b.blocks) :
                  Total(b, j) <= n /\ (j < Len(b.blocks) => Total(b, j + 1) > n)
           rest == SubSeq(b.blocks, k + 1, Len(b.blocks))
           m == n - Total(b, k)
       IN  IF rest = <<>>
           THEN [size |-> b.size - Total(b, k), blocks |-> <<>>]
           ELSE [size |-> b.size - Total(b, k) - m,
                 blocks |-> <<SubSeq(rest[1], m + 1, Len(rest[1]))>> \o Tail(rest)]
  ELSE b
=============================================================================
