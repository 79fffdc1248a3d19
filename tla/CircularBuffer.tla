--------------------------- MODULE CircularBuffer ---------------------------
(***************************************************************************)
(* circular_buffer of udp-piece: a byte ring with begin and end indexes    *)
(* and a size, written and read with at most two memcpy each.  Buffers the *)
(* caller passes and receives are sequences; data_ is indexed from 0.      *)
(***************************************************************************)
EXTENDS Integers, Sequences

CONSTANTS
  Capacity,   \* capacity_
  Byte,       \* values of a byte
  MaxBytes    \* bound: the longest buffer a call moves

ASSUME CBAssumption == Capacity \in Nat \ {0} /\ MaxBytes \in Nat /\ Byte # {}

VARIABLES
  data,        \* data_
  beg_index,   \* beg_index_
  end_index,   \* end_index_
  size,        \* size_
  call,        \* the last call and its argument
  count,       \* what the last call returned
  out          \* the bytes the last call handed out

vars == <<data, beg_index, end_index, size, call, count, out>>

Buffers == UNION {[1..n -> Byte] : n \in 0..MaxBytes}

MIN(a, b) == IF a < b THEN a ELSE b

-----------------------------------------------------------------------------
(* memcpy of n bytes of the caller's buffer from offset s to data_ + d.    *)
CopyIn(dst, d, buf, s, n) ==
  [j \in DOMAIN dst |-> IF d <= j /\ j < d + n THEN buf[s + j - d + 1] ELSE dst[j]]

(* memcpy of n bytes from data_ + s.                                       *)
CopyOut(s, n) == [j \in 1..n |-> data[s + j - 1]]

(* An index moved forward by n, in one step or wrapping round in two.      *)
Advance_NoWrapAtEnd(index, n) ==
  IF n <= Capacity - index THEN index + n ELSE n - (Capacity - index)
Advance(index, n) ==
  IF n <= Capacity - index
  THEN IF index + n = Capacity THEN 0 ELSE index + n
  ELSE n - (Capacity - index)

circular_buffer_reset ==
  /\ beg_index' = 0 /\ end_index' = 0 /\ size' = 0
  /\ data' = data
  /\ call' = <<"reset", 0>> /\ count' = 0 /\ out' = <<>>

(* The ring after a write of the first n bytes of buf.                     *)
Written_SecondPartFromStart(buf, n) ==
  LET size_1 == Capacity - end_index
  IN  IF n <= size_1
      THEN CopyIn(data, end_index, buf, 0, n)
      ELSE CopyIn(CopyIn(data, end_index, buf, 0, size_1), 0, buf, 0, n - size_1)
Written(buf, n) ==
  LET size_1 == Capacity - end_index
  IN  IF n <= size_1
      THEN CopyIn(data, end_index, buf, 0, n)
      ELSE CopyIn(CopyIn(data, end_index, buf, 0, size_1), 0, buf, size_1, n - size_1)

circular_buffer_write(buf) ==
  LET n == IF Len(buf) = 0 THEN 0 ELSE MIN(Len(buf), Capacity - size)
  IN  /\ call' = <<"write", buf>>
      /\ data' = Written(buf, n)
      /\ end_index' = Advance(end_index, n)
      /\ size' = size + n
      /\ count' = n
      /\ out' = <<>>
      /\ beg_index' = beg_index

circular_buffer_read(bytes) ==
  LET n == IF bytes = 0 THEN 0 ELSE MIN(bytes, size)
      size_1 == Capacity - beg_index
  IN  /\ call' = <<"read", bytes>>
      /\ out' = IF n <= size_1
                THEN CopyOut(beg_index, n)
                ELSE CopyOut(beg_index, size_1) \o CopyOut(0, n - size_1)
      /\ beg_index' = Advance(beg_index, n)
      /\ size' = size - n
      /\ count' = n
      /\ UNCHANGED <<data, end_index>>

circular_buffer_get(index) ==
  /\ call' = <<"get", index>>
  /\ IF index >= size
     THEN count' = -1 /\ out' = <<>>
     ELSE count' = 0 /\ out' = <<data[(index + beg_index) % Capacity]>>
  /\ UNCHANGED <<data, beg_index, end_index, size>>

circular_buffer_pop_front(pop_size) ==
  LET n == MIN(pop_size, size)
  IN  /\ call' = <<"pop_front", pop_size>>
      /\ beg_index' = Advance(beg_index, n)
      /\ size' = size - n
      /\ count' = 0 /\ out' = <<>>
      /\ UNCHANGED <<data, end_index>>

(* data_ is fresh memory: its bytes can be anything.                       *)
Init ==
  /\ data \in [0..Capacity-1 -> Byte]
  /\ beg_index = 0 /\ end_index = 0 /\ size = 0
  /\ call = <<"init", Capacity>> /\ count = 0 /\ out = <<>>

Next ==
  \/ \E buf \in Buffers : circular_buffer_write(buf)
  \/ \E n \in 0..MaxBytes : \/ circular_buffer_read(n)
                            \/ circular_buffer_get(n)
                            \/ circular_buffer_pop_front(n)
  \/ circular_buffer_reset

Spec == Init /\ [][Next]_vars

-----------------------------------------------------------------------------
(* Every index the ring is accessed with lies inside data_, and the end    *)
(* index is where begin and size put it: an empty and a full ring, which   *)
(* have equal indexes, are told apart by size_ alone.                      *)
IndexesAgree ==
  /\ data \in [0..Capacity-1 -> Byte]
  /\ beg_index \in 0..Capacity-1 /\ end_index \in 0..Capacity-1
  /\ size \in 0..Capacity
  /\ end_index = IF beg_index + size < Capacity THEN beg_index + size
                                                ELSE beg_index + size - Capacity

(* The bytes the ring holds, oldest first.                                 *)
Contents == [i \in 1..size |-> data[(beg_index + i - 1) % Capacity]]

(* The ring is a bounded FIFO: every call moves the bytes, and returns the *)
(* count, that ByteQueue says, across any number of wrap-arounds.          *)
Queue == INSTANCE ByteQueue WITH queue <- Contents
IsByteQueue == Queue!Spec
=============================================================================
