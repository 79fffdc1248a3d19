------------------------------ MODULE UdpPiece ------------------------------
(***************************************************************************)
(* udp-piece: a frame is cut into pieces of PieceFixSize bytes with a      *)
(* header each, sent as UDP datagrams and put together again by            *)
(* udp_piece_merge_ex (through the ring) or udp_piece_merge (without).     *)
(* The client and the server of the demo drive the two ends; the network   *)
(* between them may lose, duplicate and reorder datagrams.                 *)
(*                                                                         *)
(* The ring holds a sequence: CircularBuffer implements ByteQueue.  Sizes  *)
(* are in units.  A header is the two sync bytes and the four fields, a    *)
(* unit each; a payload byte is known by its frame and place.              *)
(***************************************************************************)
EXTENDS Integers, Sequences, SequencesExt

CONSTANTS
  Modes,          \* the ways the two programs are built and what they meet:
                  \*   sizes: the sizes of the frames the client sends, in order
                  \*   capacity: buf_size of udp_piece_init
                  \*   ring: the server calls merge_ex; if not, merge
                  \*   split: the client sends a piece in two datagrams
                  \*   faults: what may go wrong
  PieceFixSize,   \* PIECE_FIX_SIZE
  Word,           \* a header field holds a value modulo Word (2^16)
  MaxFaults       \* bound: how often something goes wrong

FaultKinds == {"lose", "dup", "swap", "nomem"}

ASSUME UPAssumption ==
  /\ \A m \in Modes : /\ m.sizes \in Seq(Nat \ {0}) /\ m.capacity \in Nat
                     /\ m.ring \in BOOLEAN /\ m.split \in BOOLEAN
                     /\ m.faults \subseteq FaultKinds
  /\ PieceFixSize \in Nat \ {0} /\ Word \in Nat \ {0} /\ MaxFaults \in Nat

HeadSize == 6          \* HEAD_SIZE: two sync bytes and the fields
SplitAt == 3           \* a split piece is cut in the middle of its header

VARIABLES
  mode,                \* never changes
  frame, index,        \* client: the frame and the piece to send next
  net,                 \* the datagrams in flight, in order of arrival
  faults, lastFault,   \* how many faults there were; the client's frame at the
                       \* last, or when what it led to was reset
  last, inStep,        \* since the last reset: the datagram received last; every
                       \* first half received was followed by its second half
  pc,                  \* server: "recv", "merge" (the loop), "done" or "wild": a
                       \* piece was copied to where no field says
  ret,                 \* get_all_pieces, then the return value
  queue,               \* circular_buffer (Ring), or what is left of buf
  total_size, total_pieces, recv_pieces, recv_len,
  recv_buf,            \* the bytes written since malloc, by position
  delivered            \* the frames the server printed

net_vars == <<mode, frame, index, net, faults>>
seen == <<last, inStep>>
group == <<total_size, total_pieces, recv_pieces, recv_len, recv_buf>>
vars == <<net_vars, lastFault, seen, pc, ret, queue, group, delivered>>

FrameSizes == mode.sizes
Capacity == mode.capacity
Ring == mode.ring
Split == mode.split
Frames == 1..Len(FrameSizes)

-----------------------------------------------------------------------------
(* udp_piece_cut and udp_piece_get.                                        *)
Left(f) == FrameSizes[f] % PieceFixSize
TotalPieces(f) == (FrameSizes[f] \div PieceFixSize) + (IF Left(f) > 0 THEN 1 ELSE 0)

PieceSize(f, i) == IF TotalPieces(f) - 1 = i /\ Left(f) > 0 THEN Left(f) ELSE PieceFixSize

Header(f, i) ==
  << <<"AF">>, <<"AE">>,
     <<"total_size", FrameSizes[f] % Word>>, <<"total_pieces", TotalPieces(f) % Word>>,
     <<"p_index", i % Word>>, <<"p_length", PieceSize(f, i) % Word>> >>

Payload(f, p) == <<"byte", f, p>>

udp_piece_get(f, i) ==
  Header(f, i) \o [j \in 1..PieceSize(f, i) |-> Payload(f, PieceFixSize * i + j - 1)]

(* echo_client sends each piece in one sendto or, cut inside the header,   *)
(* in two.                                                                 *)
Datagrams(piece) ==
  IF Split THEN <<SubSeq(piece, 1, SplitAt), SubSeq(piece, SplitAt + 1, Len(piece))>>
           ELSE <<piece>>

echo_client ==
  /\ frame \in Frames
  /\ net' = net \o Datagrams(udp_piece_get(frame, index))
  /\ IF index + 1 < TotalPieces(frame)
     THEN frame' = frame /\ index' = index + 1
     ELSE frame' = frame + 1 /\ index' = 0
  /\ UNCHANGED <<mode, faults, lastFault, seen, pc, ret, queue, group, delivered>>

-----------------------------------------------------------------------------
(* The network.                                                            *)
Fault(kind) ==
  /\ kind \in mode.faults /\ faults < MaxFaults
  /\ faults' = faults + 1
  /\ lastFault' = frame

Lose(k) ==
  /\ Fault("lose")
  /\ net' = RemoveAt(net, k)
  /\ UNCHANGED <<mode, frame, index, seen, pc, ret, queue, group, delivered>>

Duplicate(k) ==
  /\ Fault("dup")
  /\ net' = InsertAt(net, k, net[k])
  /\ UNCHANGED <<mode, frame, index, seen, pc, ret, queue, group, delivered>>

Swap(k) ==
  /\ Fault("swap")
  /\ k < Len(net)
  /\ net' = [net EXCEPT ![k] = net[k + 1], ![k + 1] = net[k]]
  /\ UNCHANGED <<mode, frame, index, seen, pc, ret, queue, group, delivered>>

-----------------------------------------------------------------------------
(* The search for the sync word: bytes go one by one until the word is in  *)
(* front; merge_ex stops with one byte left, merge with none.              *)
SyncAt(s, k) == k < Len(s) /\ s[k][1] = "AF" /\ s[k + 1][1] = "AE"

FromSync(s) ==
  LET least == IF Ring THEN 1 ELSE 0
      synced == {k \in 1..Len(s) : SyncAt(s, k)}
      start == IF synced = {} THEN Len(s) + 1 - least ELSE Min(synced)
  IN  SubSeq(s, start, Len(s))

(* recvfrom and the head of udp_piece_merge_ex or udp_piece_merge.  The    *)
(* ring takes what fits; what does not makes the call fail.                *)
Kept == IF Ring THEN queue ELSE <<>>

Fits(buf) == Ring => Len(Kept) + Len(buf) <= Capacity

(* A datagram that comes after a first half completes that piece.          *)
IsFirstHalf(d) == Split /\ Len(d) = SplitAt /\ SyncAt(d, 1)

Completes(buf) ==
  IsFirstHalf(last) =>
    \E f \in Frames : \E i \in 0..TotalPieces(f)-1 : last \o buf = udp_piece_get(f, i)

Recv ==
  /\ pc = "recv" /\ net # <<>>
  /\ last' = Head(net) /\ inStep' = (inStep /\ Completes(Head(net)))
  /\ net' = Tail(net)
  /\ LET buf == Head(net)
         room == IF Fits(buf) THEN Len(buf) ELSE Capacity - Len(Kept)
         filled == Kept \o SubSeq(buf, 1, room)
     IN  IF Fits(buf)
         THEN pc' = "merge" /\ ret' = 0 /\ queue' = FromSync(filled)
         ELSE pc' = "done" /\ ret' = -1 /\ queue' = filled
  /\ UNCHANGED <<mode, frame, index, faults, lastFault, group, delivered>>

(* The fields are read by their position, whatever is there.               *)
HeaderInFront ==
  /\ queue[3][1] = "total_size" /\ queue[4][1] = "total_pieces"
  /\ queue[5][1] = "p_index" /\ queue[6][1] = "p_length"

FrontFields ==
  [total_size |-> queue[3][2], total_pieces |-> queue[4][2],
   p_index |-> queue[5][2], p_length |-> queue[6][2]]

(* One turn of the loop: the piece in front is complete.                   *)
MorePiece ==
  /\ Len(queue) > HeadSize
  /\ HeaderInFront => Len(queue) >= HeadSize + FrontFields.p_length

NewGroup_FirstOnly(h) == total_size = 0
NewGroup(h) ==
  \/ total_size = 0
  \/ h.total_size # total_size \/ h.total_pieces # total_pieces

(* memcpy to recv_buf[PIECE_FIX_SIZE * p_index].                           *)
Copied_AtStart(buf, h, bytes) ==
  [p \in DOMAIN buf \cup 0..h.p_length-1 |-> IF p < h.p_length THEN bytes[p + 1] ELSE buf[p]]
Copied_Appended(buf, h, bytes) ==
  [p \in DOMAIN buf \cup {recv_len + j - 1 : j \in 1..h.p_length} |->
     LET j == p - recv_len + 1
     IN  IF j \in 1..h.p_length THEN bytes[j] ELSE buf[p]]
Copied(buf, h, bytes) ==
  LET first == PieceFixSize * h.p_index
  IN  [p \in DOMAIN buf \cup {first + j - 1 : j \in 1..h.p_length} |->
         LET j == p - first + 1
         IN  IF j \in 1..h.p_length THEN bytes[j] ELSE buf[p]]

(* What the call returns when the last piece has come: merge_ex's          *)
(* "get_all_pieces - 1;" is a statement without effect.                    *)
Result(len, size) ==
  IF len = size THEN 1 ELSE IF Ring THEN ret ELSE -1

Finished(pieces, total) == pieces = total

MergePiece ==
  /\ pc = "merge" /\ MorePiece /\ HeaderInFront
  /\ LET h == FrontFields
         bytes == SubSeq(queue, HeadSize + 1, HeadSize + h.p_length)
         new == NewGroup(h)
         pieces == IF new THEN 1 ELSE recv_pieces + 1
         len == h.p_length + (IF new THEN 0 ELSE recv_len)
         all == Finished(pieces, h.total_pieces)
     IN  /\ total_size' = h.total_size
         /\ recv_buf' = Copied(IF new THEN <<>> ELSE recv_buf, h, bytes)
         /\ recv_len' = len
         /\ total_pieces' = IF all THEN 0 ELSE h.total_pieces
         /\ recv_pieces' = IF all THEN 0 ELSE pieces
         /\ ret' = IF all THEN Result(len, h.total_size) ELSE ret
         /\ queue' = SubSeq(queue, HeadSize + h.p_length + 1, Len(queue))
  /\ UNCHANGED <<net_vars, lastFault, seen, pc, delivered>>

(* Where the fields should be there is something else.  The length read is *)
(* too large, and the loop ends; or it is not, and bytes are copied to     *)
(* wherever the index read says, after which nothing is known any more.    *)
Misread ==
  /\ pc = "merge" /\ MorePiece /\ ~HeaderInFront
  /\ pc' \in {"done", "wild"}
  /\ queue' = IF Ring THEN queue ELSE <<>>
  /\ UNCHANGED <<net_vars, lastFault, seen, ret, group, delivered>>

(* malloc of recv_buf fails: return -1 before the piece is taken.          *)
MallocFails ==
  /\ pc = "merge" /\ MorePiece /\ HeaderInFront
  /\ Fault("nomem")
  /\ LET h == FrontFields
     IN  /\ NewGroup(h)
         /\ total_size' = h.total_size /\ total_pieces' = h.total_pieces
         /\ recv_pieces' = IF total_size = 0 THEN 0 ELSE 1
  /\ recv_len' = 0 /\ recv_buf' = <<>>
  /\ pc' = "done" /\ ret' = -1
  /\ UNCHANGED <<mode, frame, index, net, seen, queue, delivered>>

(* The loop ends.  merge drops what is left of its buffer.                 *)
MergeEnd ==
  /\ pc = "merge" /\ ~MorePiece
  /\ pc' = "done"
  /\ queue' = IF Ring THEN queue ELSE <<>>
  /\ UNCHANGED <<net_vars, lastFault, seen, ret, group, delivered>>

(* What echo_server does with the result; udp_piece_reset.                 *)
udp_piece_reset ==
  /\ total_size' = 0 /\ total_pieces' = 0 /\ recv_pieces' = 0 /\ recv_len' = 0
  /\ recv_buf' = <<>> /\ queue' = <<>>

Resets(r) == r # 0

echo_server ==
  /\ pc = "done"
  /\ pc' = "recv" /\ ret' = 0
  /\ delivered' = IF ret = 1 THEN Append(delivered, [buf |-> recv_buf, len |-> recv_len])
                             ELSE delivered
  /\ IF Resets(ret)
     THEN /\ udp_piece_reset
          /\ last' = <<>> /\ inStep' = TRUE
          /\ lastFault' = IF inStep THEN lastFault ELSE frame
     ELSE UNCHANGED <<queue, group, seen, lastFault>>
  /\ UNCHANGED net_vars

-----------------------------------------------------------------------------
Init ==
  /\ mode \in Modes
  /\ frame = 1 /\ index = 0 /\ net = <<>> /\ faults = 0 /\ lastFault = 0
  /\ last = <<>> /\ inStep = TRUE
  /\ pc = "recv" /\ ret = 0 /\ queue = <<>> /\ delivered = <<>>
  /\ total_size = 0 /\ total_pieces = 0 /\ recv_pieces = 0 /\ recv_len = 0
  /\ recv_buf = <<>>

Server == Recv \/ MergePiece \/ Misread \/ MergeEnd \/ echo_server

Next ==
  \/ echo_client
  \/ \E k \in DOMAIN net : Lose(k) \/ Duplicate(k) \/ Swap(k)
  \/ Server \/ MallocFails

Spec == Init /\ [][Next]_vars

-----------------------------------------------------------------------------
Image(f) == [p \in 0..FrameSizes[f]-1 |-> Payload(f, p)]
Quiet == frame \notin Frames /\ net = <<>> /\ pc = "recv"

PieceFits(f, i) == Ring => HeadSize + PieceSize(f, i) <= Capacity
FrameFits(f) == \A i \in 0..TotalPieces(f)-1 : PieceFits(f, i)

(* As long as nothing goes wrong the server prints the frames sent, whole, *)
(* in order and, when everything sent has been received, all of them.      *)
InOrder ==
  faults = 0 /\ (\A f \in Frames : FrameFits(f)) =>
    /\ \A k \in DOMAIN delivered :
         k \in Frames /\ delivered[k] = [buf |-> Image(k), len |-> FrameSizes[k]]
    /\ Quiet => Len(delivered) = Len(FrameSizes)

(* udp_piece_merge_ex looks for the sync word once per call.  As long as   *)
(* every first half was followed by its second half (always, when pieces   *)
(* travel whole), where it then reads the fields of a piece there is a     *)
(* piece's header.                                                         *)
HeadersAligned ==
  pc = "merge" /\ Len(queue) > HeadSize => HeaderInFront

(* The ring never holds more than it has room for.  And since the last     *)
(* reset, unless a first half was not followed by its second half: fields  *)
(* are read from headers only, and every byte in recv_buf came from its    *)
(* own position in a frame that has the group's total size.  So pieces of  *)
(* frames of different sizes are never put together, and no byte lands     *)
(* outside the malloc'ed buffer, whatever pieces, first halves or          *)
(* duplicated second halves went astray.                                   *)
BytesInPlace ==
  /\ Ring => Len(queue) <= Capacity
  /\ inStep =>
       /\ HeadersAligned /\ pc # "wild"
       /\ \A p \in DOMAIN recv_buf :
            \E f \in Frames : recv_buf[p] = Payload(f, p) /\ FrameSizes[f] = total_size

(* A frame sent after the last fault whose size differs from the one       *)
(* before is printed whole, whatever pieces were lost, doubled or too long *)
(* for the ring earlier.  A first half that lost its second half keeps the *)
(* stream out of step until a reset; the frames sent after that one are    *)
(* the ones meant then.                                                    *)
Recovers ==
  Quiet /\ inStep => \A f \in Frames :
    f > lastFault /\ FrameFits(f) /\ (f > 1 => FrameSizes[f] # FrameSizes[f - 1]) =>
      \E k \in DOMAIN delivered : delivered[k].buf = Image(f)

(* "-1: reassembly failed": a call that has counted the last piece of a    *)
(* group whose lengths do not add up says so.                              *)
MismatchReported ==
  pc = "done" /\ total_size # 0 /\ total_pieces = 0 /\ recv_len # total_size => ret = -1

=============================================================================
