----------------------------- MODULE UnitProofs -----------------------------
(***************************************************************************)
(* Proofs about two components that stand alone.  CircularBuffer, for every*)
(* capacity and every byte set: the indexes of the ring agree, and the ring*)
(* implements the bounded FIFO of ByteQueue.  SharedMemory, for any number *)
(* of lines: shm1 prints them in order.                                    *)
(***************************************************************************)
EXTENDS CircularBuffer, SharedMemoryDemo, SequenceTheorems, TLAPS

USE CBAssumption DEF CBAssumption

(* Moving an index by at most Capacity keeps it in the ring; where it      *)
(* lands is the wrapped sum.                                               *)
LEMMA AdvanceWraps ==
  ASSUME NEW i \in 0..Capacity-1, NEW n \in 0..Capacity
  PROVE  /\ Advance(i, n) \in 0..Capacity-1
         /\ Advance(i, n) = IF i + n < Capacity THEN i + n ELSE i + n - Capacity
BY DEF Advance

(* Reducing an index below 2 * Capacity subtracts Capacity at most once.   *)
LEMMA ModWraps ==
  ASSUME NEW a \in Nat, a < 2 * Capacity
  PROVE  a % Capacity = IF a < Capacity THEN a ELSE a - Capacity
<1>1. CASE a < Capacity
  BY <1>1
<1>2. CASE a >= Capacity
  BY <1>2
<1> QED BY <1>1, <1>2

(* A buffer is a sequence of bytes, with a length.                         *)
LEMMA BufferFacts ==
  ASSUME NEW buf \in Buffers
  PROVE  buf \in Seq(Byte) /\ Len(buf) \in Nat
BY DEF Buffers

-----------------------------------------------------------------------------
(* What each call does to the indexes.                                     *)
LEMMA IndexStep ==
  ASSUME IndexesAgree, [Next]_vars
  PROVE  IndexesAgree'
<1> USE DEF IndexesAgree
<1>1. ASSUME NEW buf \in Buffers, circular_buffer_write(buf)
      PROVE  IndexesAgree'
  <2> DEFINE n == IF Len(buf) = 0 THEN 0 ELSE MIN(Len(buf), Capacity - size)
  <2>1. buf \in Seq(Byte) /\ Len(buf) \in Nat
    BY Zenon, BufferFacts
  <2>2. n \in 0..Capacity /\ n <= Capacity - size /\ n <= Len(buf)
    BY <2>1 DEF MIN
  <2>3. /\ data' = Written(buf, n) /\ end_index' = Advance(end_index, n)
        /\ size' = size + n /\ beg_index' = beg_index
    BY Zenon, <1>1 DEF circular_buffer_write
  <2> HIDE DEF n
  <2>4. Written(buf, n) \in [0..Capacity-1 -> Byte]
    BY <2>1, <2>2 DEF Written, CopyIn
  <2>5. Advance(end_index, n) \in 0..Capacity-1 /\ Advance(end_index, n) =
          IF end_index + n < Capacity THEN end_index + n ELSE end_index + n - Capacity
    BY Zenon, <2>2, AdvanceWraps
  <2> QED BY <2>2, <2>3, <2>4, <2>5
<1>2. ASSUME NEW n \in 0..MaxBytes, circular_buffer_read(n) \/ circular_buffer_pop_front(n)
      PROVE  IndexesAgree'
  <2>1. PICK k \in 0..size : /\ beg_index' = Advance(beg_index, k) /\ size' = size - k
                             /\ UNCHANGED <<data, end_index>>
    <3>1. MIN(n, size) \in 0..size /\ 0 \in 0..size
      BY DEF MIN
    <3>2. CASE circular_buffer_read(n)
      BY Zenon, <3>1, <3>2 DEF circular_buffer_read
    <3>3. CASE circular_buffer_pop_front(n)
      BY Zenon, <3>1, <3>3 DEF circular_buffer_pop_front
    <3> QED BY Zenon, <1>2, <3>2, <3>3
  <2>2. Advance(beg_index, k) \in 0..Capacity-1 /\ Advance(beg_index, k) =
          IF beg_index + k < Capacity THEN beg_index + k ELSE beg_index + k - Capacity
    <3>1. k \in 0..Capacity
      OBVIOUS
    <3> QED BY Zenon, <3>1, AdvanceWraps
  <2> QED BY <2>1, <2>2
<1>3. ASSUME NEW n \in 0..MaxBytes, circular_buffer_get(n)
      PROVE  IndexesAgree'
  BY Zenon, <1>3 DEF circular_buffer_get
<1>4. CASE circular_buffer_reset
  BY <1>4 DEF circular_buffer_reset
<1>5. CASE UNCHANGED vars
  BY Zenon, <1>5 DEF vars
<1> QED BY Zenon, <1>1, <1>2, <1>3, <1>4, <1>5 DEF Next

(* The indexes of the ring never leave data_ and always agree with size_,  *)
(* through every sequence of writes, reads, pops, lookups and resets.      *)
THEOREM IndexesAlwaysAgree == Spec => []IndexesAgree
<1>1. Init => IndexesAgree
  BY DEF Init, IndexesAgree
<1> QED BY <1>1, IndexStep, PTL DEF Spec

-----------------------------------------------------------------------------
(* The place of the i-th oldest byte of a ring that begins at b, and the   *)
(* bytes of a ring d of n bytes that begins at b.                          *)
Place(b, i) == IF b + i - 1 < Capacity THEN b + i - 1 ELSE b + i - 1 - Capacity

RingBytes(d, b, n) == [i \in 1..n |-> d[(b + i - 1) % Capacity]]

(* The bytes of a ring are a sequence, each at its place in the array.     *)
LEMMA RingFacts ==
  ASSUME NEW d \in [0..Capacity-1 -> Byte], NEW b \in 0..Capacity-1, NEW n \in 0..Capacity
  PROVE  /\ RingBytes(d, b, n) \in Seq(Byte)
         /\ Len(RingBytes(d, b, n)) = n
         /\ \A i \in 1..n : /\ Place(b, i) \in 0..Capacity-1
                            /\ RingBytes(d, b, n)[i] = d[Place(b, i)]
<1>1. ASSUME NEW i \in 1..n
      PROVE  (b + i - 1) % Capacity = Place(b, i) /\ Place(b, i) \in 0..Capacity-1
  <2> DEFINE a == b + i - 1
  <2>1. a \in Nat /\ a < 2 * Capacity
    OBVIOUS
  <2> HIDE DEF a
  <2>2. a % Capacity = IF a < Capacity THEN a ELSE a - Capacity
    BY Zenon, <2>1, ModWraps
  <2>3. (b + i - 1) % Capacity = Place(b, i)
    BY <2>2 DEF a, Place
  <2> QED BY <2>1, <2>3 DEF Place
<1>2. \A i \in 1..n : /\ Place(b, i) \in 0..Capacity-1
                      /\ RingBytes(d, b, n)[i] = d[Place(b, i)]
  BY Zenon, <1>1 DEF RingBytes
<1>3. RingBytes(d, b, n) \in [1..n -> Byte]
  BY Zenon, <1>1 DEF RingBytes
<1> QED BY <1>2, <1>3

(* Taking k bytes off the front leaves the others in order.                *)
LEMMA RingDropped ==
  ASSUME NEW d \in [0..Capacity-1 -> Byte], NEW b \in 0..Capacity-1,
         NEW n \in 0..Capacity, NEW k \in 0..n
  PROVE  RingBytes(d, Advance(b, k), n - k) = SubSeq(RingBytes(d, b, n), k + 1, n)
<1> DEFINE c == Advance(b, k)
           m == n - k
           before == RingBytes(d, b, n)
           after == RingBytes(d, c, m)
<1>1. k \in 0..Capacity /\ m \in 0..Capacity
  OBVIOUS
<1>2. c \in 0..Capacity-1 /\ c = IF b + k < Capacity THEN b + k ELSE b + k - Capacity
  BY Zenon, <1>1, AdvanceWraps
<1>3. /\ before \in Seq(Byte) /\ Len(before) = n
      /\ \A i \in 1..n : before[i] = d[Place(b, i)]
  BY ZenonT(60), RingFacts
<1> HIDE DEF c, m
<1>4. /\ after \in Seq(Byte) /\ Len(after) = m
      /\ \A i \in 1..m : after[i] = d[Place(c, i)]
  <2>1. c \in 0..Capacity-1 /\ m \in 0..Capacity
    BY Zenon, <1>1, <1>2
  <2> QED BY ZenonT(60), <2>1, RingFacts
<1>5. ASSUME NEW i \in 1..m
      PROVE  k + i \in 1..n /\ Place(c, i) = Place(b, k + i)
  BY <1>2 DEF Place, m
<1> HIDE DEF before, after
<1>6. \A i \in 1..m : after[i] = before[k + i]
  BY ZenonT(60), <1>3, <1>4, <1>5
<1>7. after = SubSeq(before, k + 1, n)
  BY <1>3, <1>4, <1>6 DEF m
<1> QED BY Zenon, <1>7 DEF before, after, c, m

(* A sequence that starts with s and goes on with t is their concatenation. *)
LEMMA ConcatIs ==
  ASSUME NEW s \in Seq(Byte), NEW t \in Seq(Byte), NEW u \in Seq(Byte),
         Len(u) = Len(s) + Len(t),
         \A i \in 1..Len(s) : u[i] = s[i],
         \A i \in 1..Len(t) : u[Len(s) + i] = t[i]
  PROVE  u = s \o t
<1>1. /\ s \o t \in Seq(Byte) /\ Len(s \o t) = Len(s) + Len(t)
      /\ \A i \in 1..Len(s) + Len(t) :
           (s \o t)[i] = IF i <= Len(s) THEN s[i] ELSE t[i - Len(s)]
  BY Zenon, ConcatProperties
<1>2. Len(s) \in Nat /\ Len(t) \in Nat
  OBVIOUS
<1>3. ASSUME NEW i \in 1..Len(u)
      PROVE  u[i] = (s \o t)[i]
  <2>1. CASE i <= Len(s)
    BY <1>1, <1>2, <2>1
  <2>2. CASE i > Len(s)
    <3>1. i - Len(s) \in 1..Len(t) /\ Len(s) + (i - Len(s)) = i
      BY <1>2, <2>2
    <3>2. u[i] = t[i - Len(s)]
      BY Zenon, <3>1
    <3> QED BY <1>1, <1>2, <2>2, <3>2
  <2> QED BY <1>2, <2>1, <2>2
<1> QED BY Zenon, <1>1, <1>3, SeqEqual

(* A write of n bytes that fit puts them behind the bytes already held,    *)
(* which it does not touch, whether it wraps or not.                       *)
LEMMA RingWritten ==
  ASSUME IndexesAgree, NEW buf \in Seq(Byte), NEW n \in 0..(Capacity - size), n <= Len(buf)
  PROVE  RingBytes(Written(buf, n), beg_index, size + n)
           = RingBytes(data, beg_index, size) \o SubSeq(buf, 1, n)
<1> DEFINE w == Written(buf, n)
           m == size + n
           before == RingBytes(data, beg_index, size)
           after == RingBytes(w, beg_index, m)
<1>1. /\ data \in [0..Capacity-1 -> Byte] /\ size \in 0..Capacity
      /\ beg_index \in 0..Capacity-1 /\ end_index \in 0..Capacity-1
      /\ n \in 0..Capacity /\ m \in 0..Capacity
  BY DEF IndexesAgree
<1>2. w \in [0..Capacity-1 -> Byte]
  BY <1>1 DEF Written, CopyIn
<1>3. ASSUME NEW i \in 1..size
      PROVE  w[Place(beg_index, i)] = data[Place(beg_index, i)]
  BY <1>1 DEF Written, CopyIn, Place, IndexesAgree
<1>4. ASSUME NEW i \in 1..n
      PROVE  w[Place(beg_index, size + i)] = buf[i]
  <2>1. /\ Place(beg_index, size + i) \in 0..Capacity-1
        /\ Place(beg_index, size + i) = IF end_index + i - 1 < Capacity
                                        THEN end_index + i - 1
                                        ELSE end_index + i - 1 - Capacity
    BY <1>1 DEF Place, IndexesAgree
  <2>2. CASE n <= Capacity - end_index
    <3>1. w = CopyIn(data, end_index, buf, 0, n)
      BY Zenon, <2>2 DEF Written
    <3> DEFINE p == Place(beg_index, size + i)
    <3>2. w[p] = IF end_index <= p /\ p < end_index + n THEN buf[0 + p - end_index + 1] ELSE data[p]
      BY Zenon, <1>1, <2>1, <3>1 DEF CopyIn
    <3> HIDE DEF w, p
    <3>3. end_index <= p /\ p < end_index + n /\ 0 + p - end_index + 1 = i
      <4>1. end_index + i - 1 < Capacity /\ i <= n /\ i >= 1
        BY <1>1, <2>2
      <4>2. p = end_index + i - 1
        BY Zenon, <2>1, <4>1 DEF p
      <4> QED BY SMTT(60), <1>1, <4>1, <4>2
    <3> QED BY Zenon, <3>2, <3>3 DEF p
  <2>3. CASE n > Capacity - end_index
    <3> DEFINE p == Place(beg_index, size + i)
               k == Capacity - end_index
               v == CopyIn(data, end_index, buf, 0, k)
    <3>1. w = CopyIn(v, 0, buf, k, n - k) /\ DOMAIN v = 0..Capacity-1
      <4>1. ~(n <= k)
        BY <1>1, <2>3
      <4>2. w = CopyIn(v, 0, buf, k, n - k)
        BY Zenon, <4>1 DEF Written
      <4> QED BY Zenon, <1>1, <4>2 DEF CopyIn
    <3>2. v[p] = IF end_index <= p /\ p < end_index + k THEN buf[0 + p - end_index + 1] ELSE data[p]
      BY Zenon, <1>1, <2>1 DEF CopyIn
    <3> HIDE DEF v
    <3>3. w[p] = IF 0 <= p /\ p < 0 + (n - k) THEN buf[k + p - 0 + 1] ELSE v[p]
      BY Zenon, <2>1, <3>1 DEF CopyIn
    <3> HIDE DEF w, p
    <3>4. CASE end_index + i - 1 < Capacity
      <4>1. /\ ~(p < 0 + (n - k)) /\ end_index <= p /\ p < end_index + k
            /\ 0 + p - end_index + 1 = i
        <5>1. end_index \in Nat /\ size \in Nat /\ i \in 1..n /\ n \in 0..(Capacity - size)
          BY <1>1
        <5>2. p = end_index + i - 1
          BY Zenon, <2>1, <3>4 DEF p
        <5> HIDE DEF IndexesAgree
        <5> QED BY SMTT(60), <1>1, <2>3, <3>4, <5>1, <5>2
      <4> QED BY Zenon, <3>2, <3>3, <4>1 DEF p
    <3>5. CASE ~(end_index + i - 1 < Capacity)
      <4>1. 0 <= p /\ p < 0 + (n - k) /\ k + p - 0 + 1 = i
        BY <1>1, <2>1, <2>3, <3>5 DEF p
      <4> QED BY Zenon, <3>3, <4>1 DEF p
    <3> QED BY Zenon, <3>4, <3>5
  <2>4. n <= Capacity - end_index \/ n > Capacity - end_index
    BY <1>1
  <2> QED BY Zenon, <2>2, <2>3, <2>4
<1> HIDE DEF w, m
<1>5. /\ before \in Seq(Byte) /\ Len(before) = size
      /\ \A i \in 1..size : before[i] = data[Place(beg_index, i)]
  <2> data \in [0..Capacity-1 -> Byte] /\ beg_index \in 0..Capacity-1 /\ size \in 0..Capacity
    BY Zenon, <1>1
  <2> QED BY ZenonT(60), RingFacts
<1> HIDE DEF before
<1>6. /\ after \in Seq(Byte) /\ Len(after) = m
      /\ \A i \in 1..m : after[i] = w[Place(beg_index, i)]
  <2> w \in [0..Capacity-1 -> Byte] /\ beg_index \in 0..Capacity-1 /\ m \in 0..Capacity
    BY Zenon, <1>1, <1>2
  <2> QED BY ZenonT(60), RingFacts
<1> HIDE DEF after
<1> DEFINE new == SubSeq(buf, 1, n)
<1>7. /\ new \in Seq(Byte) /\ Len(new) = n
      /\ \A i \in 1..n : new[i] = buf[i]
  BY <1>1
<1> HIDE DEF new
<1>8. \A i \in 1..size : after[i] = before[i]
  <2>1. \A i \in 1..size : i \in 1..m
    BY <1>1 DEF m
  <2> QED BY ZenonT(60), <1>3, <1>5, <1>6, <2>1
<1>9. \A i \in 1..n : after[size + i] = new[i]
  <2>1. \A i \in 1..n : size + i \in 1..m
    BY <1>1 DEF m
  <2> QED BY Zenon, <1>4, <1>6, <1>7, <2>1
<1>10. after = before \o new
  BY ZenonT(60), <1>5, <1>6, <1>7, <1>8, <1>9, ConcatIs DEF m
<1> QED BY Zenon, <1>10 DEF after, before, new, w, m

(* The bytes a read of k bytes copies out are the k oldest.                *)
LEMMA RingCopied ==
  ASSUME IndexesAgree, NEW k \in 0..size
  PROVE  (IF k <= Capacity - beg_index
          THEN CopyOut(beg_index, k)
          ELSE CopyOut(beg_index, Capacity - beg_index)
                 \o CopyOut(0, k - (Capacity - beg_index)))
           = SubSeq(RingBytes(data, beg_index, size), 1, k)
<1> DEFINE all == RingBytes(data, beg_index, size)
           first == SubSeq(all, 1, k)
           room == Capacity - beg_index
<1>1. /\ data \in [0..Capacity-1 -> Byte] /\ size \in 0..Capacity
      /\ beg_index \in 0..Capacity-1 /\ room \in 1..Capacity
  BY DEF IndexesAgree
<1>2. /\ all \in Seq(Byte) /\ Len(all) = size
      /\ \A i \in 1..size : all[i] = data[Place(beg_index, i)]
  BY ZenonT(60), <1>1, RingFacts, Zenon
<1> HIDE DEF all
<1>3. /\ first \in Seq(Byte) /\ Len(first) = k
      /\ \A i \in 1..k : first[i] = data[Place(beg_index, i)]
  BY <1>1, <1>2
<1> HIDE DEF first
<1>4. CASE k <= room
  <2>1. CopyOut(beg_index, k) \in [1..k -> Byte]
    BY <1>1, <1>4 DEF CopyOut
  <2>2. CopyOut(beg_index, k) \in Seq(Byte) /\ Len(CopyOut(beg_index, k)) = k
    BY <1>1, <2>1
  <2>3. \A i \in 1..k : CopyOut(beg_index, k)[i] = first[i]
    BY <1>1, <1>3, <1>4 DEF CopyOut, Place
  <2> QED BY <1>1, <1>3, <1>4, <2>2, <2>3 DEF first, all
<1>5. CASE k > room
  <2> DEFINE x == CopyOut(beg_index, room)
             r == k - room
             y == CopyOut(0, r)
  <2>1. r \in 1..Capacity /\ r <= beg_index
    BY <1>1, <1>5
  <2> HIDE DEF r
  <2>2. x \in [1..room -> Byte] /\ y \in [1..r -> Byte]
    BY <1>1, <2>1 DEF CopyOut
  <2>3. /\ \A i \in 1..room : x[i] = data[beg_index + i - 1]
        /\ \A i \in 1..r : y[i] = data[i - 1]
    BY <1>1, <2>1 DEF CopyOut
  <2> HIDE DEF x, y
  <2>4. /\ x \in Seq(Byte) /\ Len(x) = room /\ y \in Seq(Byte) /\ Len(y) = r
    BY <1>1, <2>1, <2>2
  <2>5. \A i \in 1..room : first[i] = x[i]
    <3>1. \A i \in 1..room : i \in 1..k /\ Place(beg_index, i) = beg_index + i - 1
      BY <1>1, <1>5 DEF Place
    <3> QED BY ZenonT(60), <1>3, <2>3, <3>1
  <2>6. \A i \in 1..r : first[room + i] = y[i]
    <3>1. \A i \in 1..r : room + i \in 1..k /\ Place(beg_index, room + i) = i - 1
      BY <1>1, <1>5 DEF Place, r
    <3> QED BY ZenonT(60), <1>3, <2>3, <3>1
  <2>7. Len(first) = Len(x) + Len(y)
    BY <1>1, <1>3, <2>4 DEF r
  <2>8. first = x \o y
    <3>1. /\ \A i \in 1..Len(x) : first[i] = x[i]
          /\ \A i \in 1..Len(y) : first[Len(x) + i] = y[i]
      BY Zenon, <2>4, <2>5, <2>6
    <3> QED BY Zenon, <1>3, <2>4, <2>7, <3>1, ConcatIs, Zenon
  <2> QED BY <1>1, <1>5, <2>8 DEF x, y, r, first, all
<1> QED BY <1>1, <1>4, <1>5

-----------------------------------------------------------------------------
(* Each call of the ring is the call of ByteQueue with the same name.      *)
LEMMA StepIsQueueStep ==
  ASSUME IndexesAgree, [Next]_vars
  PROVE  [Queue!Next]_<<Contents, call, count, out>>
<1> USE DEF Queue!Least, MIN
<1>1. /\ data \in [0..Capacity-1 -> Byte] /\ size \in 0..Capacity
      /\ beg_index \in 0..Capacity-1
  BY Zenon DEF IndexesAgree
<1>2. /\ Contents = RingBytes(data, beg_index, size)
      /\ Contents' = RingBytes(data', beg_index', size')
  BY Zenon DEF Contents, RingBytes
<1>3. Contents \in Seq(Byte) /\ Len(Contents) = size
  BY ZenonT(60), <1>1, <1>2, RingFacts
<1>4. ASSUME NEW buf \in Buffers, circular_buffer_write(buf)
      PROVE  Queue!Write(buf)
  <2> DEFINE n == Queue!Least(Len(buf), Capacity - size)
  <2>1. buf \in Seq(Byte) /\ Len(buf) \in Nat
    BY Zenon, BufferFacts
  <2>2. n \in 0..(Capacity - size) /\ n <= Len(buf)
    BY <1>1, <2>1
  <2>3. /\ data' = Written(buf, n) /\ size' = size + n /\ beg_index' = beg_index
        /\ count' = n /\ out' = <<>> /\ call' = <<"write", buf>>
    <3>1. (IF Len(buf) = 0 THEN 0 ELSE MIN(Len(buf), Capacity - size)) = n
      BY <1>1, <2>1 DEF MIN
    <3> QED BY Zenon, <1>4, <3>1 DEF circular_buffer_write
  <2> HIDE DEF n
  <2>4. Contents' = Contents \o SubSeq(buf, 1, n)
    BY Zenon, <1>2, <2>1, <2>2, <2>3, RingWritten
  <2> QED BY Zenon, <1>3, <2>3, <2>4 DEF Queue!Write, n
<1>5. ASSUME NEW bytes \in 0..MaxBytes, circular_buffer_read(bytes)
      PROVE  Queue!Read(bytes)
  <2> DEFINE n == Queue!Least(bytes, size)
  <2>1. n \in 0..size
    BY <1>1
  <2>2. /\ data' = data /\ size' = size - n /\ beg_index' = Advance(beg_index, n)
        /\ count' = n /\ call' = <<"read", bytes>>
        /\ out' = IF n <= Capacity - beg_index
                  THEN CopyOut(beg_index, n)
                  ELSE CopyOut(beg_index, Capacity - beg_index)
                         \o CopyOut(0, n - (Capacity - beg_index))
    BY <1>1, <1>5 DEF circular_buffer_read
  <2> HIDE DEF n
  <2>3. out' = SubSeq(Contents, 1, n)
    BY Zenon, <1>2, <2>1, <2>2, RingCopied
  <2>4. Contents' = SubSeq(Contents, n + 1, size)
    BY Zenon, <1>1, <1>2, <2>1, <2>2, RingDropped
  <2> QED BY Zenon, <1>3, <2>2, <2>3, <2>4 DEF Queue!Read, n
<1>6. ASSUME NEW bytes \in 0..MaxBytes, circular_buffer_pop_front(bytes)
      PROVE  Queue!PopFront(bytes)
  <2> DEFINE n == Queue!Least(bytes, size)
  <2>1. n \in 0..size
    BY <1>1
  <2>2. /\ data' = data /\ size' = size - n /\ beg_index' = Advance(beg_index, n)
        /\ count' = 0 /\ out' = <<>> /\ call' = <<"pop_front", bytes>>
    BY Zenon, <1>1, <1>6 DEF circular_buffer_pop_front
  <2> HIDE DEF n
  <2>3. Contents' = SubSeq(Contents, n + 1, size)
    BY Zenon, <1>1, <1>2, <2>1, <2>2, RingDropped
  <2> QED BY Zenon, <1>3, <2>2, <2>3 DEF Queue!PopFront, n
<1>7. ASSUME NEW index \in 0..MaxBytes, circular_buffer_get(index)
      PROVE  Queue!Get(index)
  <2>1. Contents' = Contents
    BY Zenon, <1>2, <1>7 DEF circular_buffer_get
  <2>2. CASE index >= size
    BY Zenon, <1>3, <1>7, <2>1, <2>2 DEF circular_buffer_get, Queue!Get
  <2>3. CASE index < size
    <3>1. index + 1 \in 1..size /\ beg_index + (index + 1) - 1 = index + beg_index
      BY <1>1, <2>3
    <3>2. Contents[index + 1] = data[(index + beg_index) % Capacity]
      BY Zenon, <3>1 DEF Contents
    <3> QED BY Zenon, <1>1, <1>3, <1>7, <2>1, <2>3, <3>2 DEF circular_buffer_get, Queue!Get
  <2> QED BY <1>1, <2>2, <2>3
<1>8. CASE circular_buffer_reset
  <2>1. Contents' = <<>>
    BY <1>8 DEF circular_buffer_reset, Contents
  <2> QED BY Zenon, <1>8, <2>1 DEF circular_buffer_reset, Queue!Next, Queue!Reset
<1>9. CASE UNCHANGED vars
  BY Zenon, <1>2, <1>9 DEF vars
<1>10. Queue!Buffers = Buffers
  BY Zenon DEF Buffers, Queue!Buffers
<1> QED BY Zenon, <1>4, <1>5, <1>6, <1>7, <1>8, <1>9, <1>10 DEF Next, Queue!Next

(* The ring implements the bounded FIFO: whatever the capacity, and        *)
(* however often the indexes have wrapped, no byte is lost, repeated or    *)
(* reordered between circular_buffer_write and circular_buffer_read.       *)
THEOREM ImplementsByteQueue == Spec => IsByteQueue
<1>1. Init => Queue!Init
  <2>1. ASSUME Init PROVE Contents = <<>>
    BY <2>1 DEF Init, Contents
  <2> QED BY Zenon, <2>1 DEF Init, Queue!Init
<1> QED BY <1>1, StepIsQueueStep, IndexesAlwaysAgree, PTL
        DEF Spec, IsByteQueue, Queue!Spec

-----------------------------------------------------------------------------
(***************************************************************************)
(* SharedMemory, for any number of lines: shm1 prints whole lines, once, in*)
(* order and without gaps.  The invariant ties the line in the buffer to   *)
(* the last one shm1 is through with, by where both programs are and what  *)
(* the flag says.                                                          *)
(***************************************************************************)
HIDE CBAssumption DEF CBAssumption

(* The last line shm1 has printed or wiped, 0 before.                      *)
Last == IF printed # <<>> THEN printed[Len(printed)] ELSE IF wiped = {} THEN 0 ELSE 1

Types ==
  /\ written_by_you \in {0, 1} /\ some_text \in 0..Lines /\ copying \in 0..Lines
  /\ writer \in {"test", "copy", "raise", "done"}
  /\ reader \in {"start", "test", "print", "lower", "compare", "done"}
  /\ printed \in Seq(1..Lines) /\ wiped \in SUBSET {1}

WriterAt ==
  /\ copying = IF writer = "copy" THEN some_text + 1 ELSE 0
  /\ writer = "test" => some_text < Lines
  /\ writer = "raise" => some_text > 0 /\ written_by_you = 0
  /\ writer = "copy" => written_by_you = 0

(* The buffer is one line ahead of shm1 while the flag is, or is about to  *)
(* be, raised; while shm1 is between printing and lowering it is not.      *)
Ahead ==
  some_text = Last + (IF written_by_you = 1 \/ writer = "raise" THEN 1 ELSE 0)
ReaderAt ==
  /\ reader = "start" => printed = <<>> /\ wiped = {} /\ Ahead
  /\ reader = "test" => Ahead
  /\ reader = "print" => Ahead /\ written_by_you = 1
  /\ reader = "lower" => printed # <<>> /\ some_text = Last /\ written_by_you = 1
  /\ reader = "compare" => printed # <<>> /\ Ahead
  /\ reader = "done" => printed # <<>> /\ Sh!SpellEnd(Last)

Gapless ==
  /\ \A i \in 1..Len(printed)-1 : printed[i + 1] = printed[i] + 1
  /\ printed # <<>> => printed[1] = IF wiped = {} THEN 1 ELSE 2

Inv == Types /\ WriterAt /\ ReaderAt /\ Gapless

(* The buffer starts empty, ahead of nothing.                              *)
LEMMA ShInit == ASSUME Lines \in Nat \ {0}, Sh!Init PROVE Inv
<1>1. Types
  BY DEF Sh!Init, Types
<1>2. WriterAt /\ ReaderAt
  BY DEF Sh!Init, WriterAt, ReaderAt, Ahead, Last
<1>3. Gapless
  BY DEF Sh!Init, Gapless
<1> QED BY Zenon, <1>1, <1>2, <1>3 DEF Inv

(* A comparison that finds "end" in a buffer at rest finds that line.      *)
LEMMA FoundWhole ==
  ASSUME Sh!Places \in Sh!Found, copying = 0 PROVE Letters[some_text] = 1..3
BY Zenon DEF Sh!Found, Sh!Places

(* One that finds it during a copy has the letters of both lines.          *)
LEMMA FoundMixed ==
  ASSUME Sh!Places \in Sh!Found, copying # 0,
         some_text \in 1..Lines, copying \in 1..Lines
  PROVE  Letters[some_text] \cup Letters[copying] = Sh!Places
<1>1. Letters[some_text] \subseteq 1..3 /\ Letters[copying] \subseteq 1..3
  BY Zenon, ShAssumption
<1> QED BY Zenon, <1>1 DEF Sh!Found, Sh!Places

(* What shm1 printed last is a line.                                       *)
LEMMA LastLine == ASSUME Types, Lines \in Nat, printed # <<>> PROVE Last \in 1..Lines
<1>1. printed[Len(printed)] \in 1..Lines
  BY DEF Types
<1> QED BY Zenon, <1>1 DEF Last

(* Every step of either program keeps the buffer and shm1 in step.         *)
LEMMA ShNext == ASSUME Lines \in Nat \ {0}, Inv, [Sh!Next]_(Sh!vars) PROVE Inv'
<1> USE DEF Inv, Types, WriterAt, ReaderAt, Ahead, Last
<1>0. Last \in Nat
  <2>1. CASE printed # <<>>
    <3>1. printed[Len(printed)] \in 1..Lines
      BY <2>1
    <3> QED BY <2>1, <3>1
  <2>2. CASE printed = <<>>
    BY Zenon, <2>2
  <2> QED BY Zenon, <2>1, <2>2
<1>1. CASE Sh!Enter
  BY <1>1 DEF Sh!Enter, Sh!Free, Gapless
<1>2. CASE Sh!Copied
  <2>1. Types' /\ WriterAt'
    BY <1>2 DEF Sh!Copied
  <2>2. Last' = Last /\ Gapless'
    BY Zenon, <1>2 DEF Sh!Copied, Gapless
  <2>3. ReaderAt'
    <3> HIDE DEF Last
    <3>1. /\ UNCHANGED <<written_by_you, reader, printed, wiped>> /\ writer' = "raise"
          /\ some_text' = some_text + 1 /\ some_text \in Int
      BY <1>2 DEF Sh!Copied
    <3>2. written_by_you = 0 /\ reader \notin {"print", "lower"}
      BY <1>2 DEF Sh!Copied
    <3>3. reader # "done" => some_text = Last
      BY <1>0, <1>2, <3>2 DEF Sh!Copied
    <3> QED BY Zenon, <2>2, <3>1, <3>2, <3>3
  <2> QED BY Zenon, <2>1, <2>2, <2>3
<1>3. CASE Sh!Raise
  BY <1>3 DEF Sh!Raise, Gapless
<1>4. CASE Sh!Start
  BY <1>4 DEF Sh!Start, Gapless
<1>5. CASE Sh!Test
  BY ZenonT(60), <1>5 DEF Sh!Test, Gapless
<1>6. CASE Sh!PrintLine
  <2>1. writer \in {"test", "done"} /\ some_text = Last + 1 /\ copying = 0
    BY <1>6 DEF Sh!PrintLine
  <2>2. printed' = Append(printed, some_text) /\ some_text \in 1..Lines
    BY <1>6, <2>1 DEF Sh!PrintLine, Sh!Seen
  <2>3. printed' \in Seq(1..Lines) /\ printed' # <<>> /\ Len(printed') = Len(printed) + 1
    BY <2>2
  <2>4. Last' = some_text
    BY <2>2, <2>3
  <2>5. Gapless'
    <3>1. \A i \in 1..Len(printed) : printed'[i] = printed[i]
      BY <2>2
    <3>2. printed'[Len(printed) + 1] = some_text
      BY <2>2
    <3>3. CASE printed = <<>>
      BY <1>6, <2>1, <2>2, <2>3, <3>2, <3>3 DEF Gapless, Sh!PrintLine
    <3>4. CASE printed # <<>>
      <4>1. some_text = printed[Len(printed)] + 1
        BY Zenon, <2>1, <3>4
      <4>2. Len(printed) \in Nat \ {0}
        BY <3>4
      <4>3. \A i \in 1..Len(printed')-1 : printed'[i + 1] = printed'[i] + 1
        <5> SUFFICES ASSUME NEW i \in 1..Len(printed)
                     PROVE  printed'[i + 1] = printed'[i] + 1
          BY <2>3, <4>2
        <5>1. CASE i = Len(printed)
          BY Zenon, <3>1, <3>2, <4>1, <5>1
        <5>2. CASE i # Len(printed)
          <6>1. i \in 1..Len(printed)-1 /\ i + 1 \in 1..Len(printed)
            BY <4>2, <5>2
          <6>2. printed[i + 1] = printed[i] + 1
            BY Zenon, <6>1 DEF Gapless
          <6> QED BY Zenon, <3>1, <6>1, <6>2
        <5> QED BY Zenon, <5>1, <5>2
      <4>4. printed'[1] = printed[1]
        BY <3>1, <4>2
      <4>5. wiped' = wiped /\ printed[1] = IF wiped = {} THEN 1 ELSE 2
        BY Zenon, <1>6, <3>4 DEF Gapless, Sh!PrintLine
      <4> QED BY Zenon, <4>3, <4>4, <4>5 DEF Gapless
    <3> QED BY Zenon, <3>3, <3>4
  <2> QED BY Zenon, <1>6, <2>1, <2>2, <2>3, <2>4, <2>5 DEF Sh!PrintLine
<1>7. CASE Sh!Lower
  <2>1. Types' /\ WriterAt'
    BY Zenon, <1>7 DEF Sh!Lower
  <2>2. Last' = Last /\ Gapless'
    BY Zenon, <1>7 DEF Sh!Lower, Gapless
  <2>3. ReaderAt'
    <3> HIDE DEF Last
    <3> QED BY <1>7, <2>2 DEF Sh!Lower
  <2> QED BY Zenon, <2>1, <2>2, <2>3
<1>8. CASE Sh!Compare
  <2>1. /\ UNCHANGED <<written_by_you, some_text, copying, writer, printed, wiped>>
        /\ reader = "compare" /\ reader' \in {"test", "done"}
        /\ reader' = "done" => Sh!Places \in Sh!Found
    BY Zenon, <1>8 DEF Sh!Compare
  <2>2. Types' /\ WriterAt' /\ Gapless' /\ Last' = Last
    BY Zenon, <2>1 DEF Gapless
  <2>3. ReaderAt'
    <3> HIDE DEF Last
    <3>1. printed # <<>> /\ Ahead /\ Ahead'
      BY Zenon, <2>1, <2>2
    <3>2. reader' = "done" => Sh!SpellEnd(Last)
      <4> SUFFICES ASSUME Sh!Places \in Sh!Found PROVE Sh!SpellEnd(Last)
        BY Zenon, <2>1
      <4>1. Last \in 1..Lines
        BY Zenon, <3>1, LastLine
      <4>2. CASE copying = 0
        <5>1. Letters[some_text] = 1..3
          BY Zenon, <4>2, FoundWhole
        <5>2. some_text \in {Last, Last + 1} /\ some_text <= Lines
          BY <1>0, <3>1
        <5>3. some_text \in 1..Lines
          BY <4>1, <5>2
        <5>4. some_text = Lines
          BY Zenon, <5>1, <5>3, ShAssumption
        <5> QED BY <4>1, <5>1, <5>2, <5>4, ShAssumption DEF Sh!SpellEnd, Sh!Places
      <4>3. CASE copying # 0
        <5>1. writer = "copy" /\ written_by_you = 0
          BY Zenon, <4>3
        <5>2. some_text = Last /\ copying = Last + 1 /\ copying \in 0..Lines
          BY <1>0, <3>1, <5>1
        <5>3. some_text \in 1..Lines /\ copying \in 1..Lines /\ Last < Lines
          BY <4>1, <5>2
        <5>4. Letters[some_text] \cup Letters[copying] = Sh!Places
          BY Zenon, <4>3, <5>3, FoundMixed
        <5> QED BY Zenon, <5>2, <5>3, <5>4 DEF Sh!SpellEnd
      <4> QED BY Zenon, <4>2, <4>3
    <3> QED BY Zenon, <2>1, <2>2, <3>1, <3>2
  <2> QED BY Zenon, <2>2, <2>3
<1>9. CASE UNCHANGED Sh!vars
  BY ZenonT(60), <1>9 DEF Sh!vars, Gapless
<1> QED BY Zenon, <1>1, <1>2, <1>3, <1>4, <1>5, <1>6, <1>7, <1>8, <1>9
        DEF Sh!Next, Sh!Writer, Sh!Reader

(* However the steps of shm1 and shm2 fall, and however many lines there   *)
(* are, shm1 prints them in order (shm1.c, shm2.c).                        *)
THEOREM PrintedInOrder == Sh!Spec => []ShInOrder
<1>1. Inv => ShInOrder
  <2> SUFFICES ASSUME Inv PROVE ShInOrder
    BY Zenon
  <2>1. printed \in Seq(1..Lines) /\ wiped \in SUBSET {1}
    BY Zenon DEF Inv, Types
  <2>2. \A i \in 1..Len(printed) : printed[i] \in 1..Lines
    BY <2>1, ShAssumption
  <2>3. printed # <<>> => \A line \in 1..printed[1]-1 : line \in wiped
    <3>1. printed # <<>> => printed[1] = IF wiped = {} THEN 1 ELSE 2
      BY Zenon DEF Inv, Gapless
    <3>2. wiped # {} => 1 \in wiped
      BY Zenon, <2>1
    <3> QED BY <3>1, <3>2
  <2>4. reader = "done" => printed # <<>> /\ Sh!SpellEnd(printed[Len(printed)])
    BY Zenon DEF Inv, ReaderAt, Last
  <2>5. \A i \in 1..Len(printed)-1 : printed[i + 1] = printed[i] + 1
    BY Zenon DEF Inv, Gapless
  <2> QED BY Zenon, <2>2, <2>3, <2>4, <2>5 DEF ShInOrder, Sh!InOrder
<1> QED BY <1>1, ShInit, ShNext, ShAssumption, PTL DEF Sh!Spec
=============================================================================
