----------------------------- MODULE ByteQueue -----------------------------
(***************************************************************************)
(* What circular_buffer promises: a bounded FIFO of bytes.  A write that   *)
(* does not fit is cut short, a read takes what there is, and both say how *)
(* many bytes they moved.                                                  *)
(***************************************************************************)
EXTENDS Integers, Sequences

CONSTANTS Capacity, Byte, MaxBytes

VARIABLES
  queue,   \* the bytes held, oldest first
  call,    \* the last call and its argument
  count,   \* what the last call returned
  out      \* the bytes the last call handed out

Least(a, b) == IF a < b THEN a ELSE b

Buffers == UNION {[1..n -> Byte] : n \in 0..MaxBytes}

Init == queue = <<>> /\ call = <<"init", Capacity>> /\ count = 0 /\ out = <<>>

Write(d) ==
  LET n == Least(Len(d), Capacity - Len(queue))
  IN  /\ call' = <<"write", d>>
      /\ queue' = queue \o SubSeq(d, 1, n)
      /\ count' = n
      /\ out' = <<>>

Read(bytes) ==
  LET n == Least(bytes, Len(queue))
  IN  /\ call' = <<"read", bytes>>
      /\ queue' = SubSeq(queue, n + 1, Len(queue))
      /\ count' = n
      /\ out' = SubSeq(queue, 1, n)

(* -1 for an index that is not there.                                      *)
Get(index) ==
  /\ call' = <<"get", index>>
  /\ queue' = queue
  /\ IF index >= Len(queue)
     THEN count' = -1 /\ out' = <<>>
     ELSE count' = 0 /\ out' = <<queue[index + 1]>>

PopFront(bytes) ==
  LET n == Least(bytes, Len(queue))
  IN  /\ call' = <<"pop_front", bytes>>
      /\ queue' = SubSeq(queue, n + 1, Len(queue))
      /\ count' = 0
      /\ out' = <<>>

Reset == call' = <<"reset", 0>> /\ queue' = <<>> /\ count' = 0 /\ out' = <<>>

Next ==
  \/ \E d \in Buffers : Write(d)
  \/ \E n \in 0..MaxBytes : Read(n) \/ Get(n) \/ PopFront(n)
  \/ Reset

Spec == Init /\ [][Next]_<<queue, call, count, out>>
=============================================================================
