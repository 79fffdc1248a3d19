---------------------------- MODULE ReactorProofs ---------------------------
(***************************************************************************)
(* For any number of slots, descriptors and clients of Reactor.c: slots,   *)
(* epoll and the open descriptors agree, no event of a batch outlives what *)
(* it was reported for, and every client gets back what it sent.           *)
(***************************************************************************)
EXTENDS ReactorDemo, SequenceTheorems, TLAPS

Events == {"none", "IN", "OUT"}
Entry == [fd : Fds \cup {-1}, events : Events, call_back : {"none", "recvdata", "senddata"},
          status : {0, 1}, from : Nat, len : Nat, age : Nat]
Registration == [slot : Re!Slots \cup {-1}, events : Events]
Socket == [open : BOOLEAN, pending : Nat, room : Nat, link : {"up", "eof", "reset"},
           received : Nat, sent : Seq(Nat), short : BOOLEAN, leaked : BOOLEAN]
ReTypes ==
  /\ ev \in [Re!Slots -> Entry] /\ reg \in [Fds -> Registration] /\ sock \in [Fds -> Socket]
  /\ pc \in {"scan", "wait", "batch", "dead"} /\ checkpos \in Nat

(* A slot in use has its own open descriptor, registered with that slot    *)
(* and for the event of its callback.                                      *)
InUse ==
  \A i \in Re!Slots : ev[i].status = 1 =>
    /\ ev[i].fd \in Fds /\ sock[ev[i].fd].open /\ ~sock[ev[i].fd].leaked
    /\ reg[ev[i].fd] = [slot |-> i, events |-> ev[i].events]
    /\ \/ ev[i].events = "IN" /\ ev[i].call_back = "recvdata"
       \/ ev[i].events = "OUT" /\ ev[i].call_back = "senddata"

(* A registered descriptor is that of its slot; an open one without a      *)
(* registration was accepted at the limit.                                 *)
Known ==
  \A f \in Fds :
    /\ reg[f].slot # -1 => ev[reg[f].slot].status = 1 /\ ev[reg[f].slot].fd = f
    /\ reg[f].slot = -1 => sock[f].open = sock[f].leaked

(* The events of a batch are about different slots in use, and ask for     *)
(* what these are registered for.                                          *)
Waiting == (batch \cup {cur}) \ {Re!Listening, Re!NoEvent}
Fresh ==
  /\ \A e \in Waiting :
       /\ e.slot \in Re!Slots /\ ev[e.slot].status = 1
       /\ e.flags \subseteq {ev[e.slot].events, "ERR"}
  /\ \A d, e \in Waiting : d.slot = e.slot => d = e
  /\ cur \notin batch /\ Re!NoEvent \notin batch /\ cur # Re!Listening
  /\ pc # "batch" => batch = {} /\ cur = Re!NoEvent

ReInv == ReTypes /\ InUse /\ Known /\ Fresh

(* What has been sent back is what was received, up to what is in the      *)
(* slot's buffer.                                                          *)
Upto(n) == [k \in 1..n |-> k]
Returned(slot, s, e) ==
  /\ slot = -1 => s.received = 0 /\ s.sent = <<>> /\ ~s.short
  /\ slot # -1 /\ ~s.short =>
       /\ e.call_back = "recvdata" => s.sent = Upto(s.received)
       /\ e.call_back = "senddata" => s.sent = Upto(e.from) /\ s.received = e.from + e.len
Echoed == \A f \in Fds : Returned(reg[f].slot, sock[f], ev[reg[f].slot])

-----------------------------------------------------------------------------
(* eventset and eventadd of a descriptor that is not registered.           *)
Triple == [ev : Entry, reg : Registration, sock : Socket]

LEMMA ReAdd ==
  ASSUME NEW S \in Triple, NEW i \in Re!Slots, NEW f \in Fds, NEW y \in Events,
         NEW c \in {"recvdata", "senddata"}, S.reg.slot = -1,
         NEW T, T = Re!eventadd(Re!eventset(S, f, c), i, y)
  PROVE  /\ T \in Triple /\ T.sock = S.sock /\ T.reg.slot = i /\ T.reg.events = y
         /\ T.ev.fd = f /\ T.ev.call_back = c /\ T.ev.events = y /\ T.ev.status = 1
         /\ T.ev.from = S.ev.from /\ T.ev.len = S.ev.len
<1> DEFINE d == [S.ev EXCEPT !.fd = f, !.call_back = c, !.events = "none", !.status = 0, !.age = 0]
           S1 == Re!eventset(S, f, c)
           e == [d EXCEPT !.events = y, !.status = 1]
<1>1. S1 = [S EXCEPT !.ev = d]
  BY Zenon DEF Re!eventset
<1>2. S1 \in [ev : {d}, reg : {S.reg}, sock : {S.sock}]
  BY Zenon, <1>1 DEF Triple
<1>3. d \in Entry /\ d.fd = f /\ d.call_back = c /\ d.status = 0
        /\ d.from = S.ev.from /\ d.len = S.ev.len
  BY ZenonT(60) DEF Triple, Entry, Events
<1>4. e \in Entry /\ e.fd = f /\ e.call_back = c /\ e.events = y /\ e.status = 1
        /\ e.from = S.ev.from /\ e.len = S.ev.len
  <2> HIDE DEF d
  <2> QED BY ZenonT(60), <1>3 DEF Entry, Events
<1> HIDE DEF d, S1
<1>5. T = [S1 EXCEPT !.ev = e,
             !.reg = IF (S1.reg.slot # -1) = (S1.ev.status = 1)
                     THEN [slot |-> i, events |-> y] ELSE S1.reg]
  BY Zenon, <1>2 DEF Re!eventadd, Re!NoSlot, S1
<1> HIDE DEF e
<1>6. T.ev = e /\ T.reg = [slot |-> i, events |-> y] /\ T.sock = S.sock
  BY <1>2, <1>3, <1>5
<1>7. T \in Triple
  <2>1. S1.reg \in Registration /\ [slot |-> i, events |-> y] \in Registration
    BY Zenon, <1>2 DEF Triple, Registration
  <2>2. S1 \in Triple
    BY Zenon, <1>2, <1>3 DEF Triple
  <2> QED BY Zenon, <1>4, <1>5, <2>1, <2>2 DEF Triple
<1> QED BY <1>4, <1>6, <1>7

(* eventdel of a slot in use, and close.                                   *)
LEMMA ReDel ==
  ASSUME NEW S \in Triple, S.ev.status = 1, NEW T, T = Re!eventdel(S)
  PROVE  /\ T \in Triple /\ T.ev.status = 0 /\ T.reg.slot = -1 /\ T.sock = S.sock
         /\ T.ev.from = S.ev.from /\ T.ev.len = S.ev.len
<1> DEFINE d == [S.ev EXCEPT !.status = 0]
<1>1. d \in Entry /\ d.status = 0 /\ d.from = S.ev.from /\ d.len = S.ev.len
  BY Zenon DEF Triple, Entry
<1>2. Re!Unregistered \in Registration /\ Re!Unregistered.slot = -1
  BY Zenon DEF Re!Unregistered, Re!NoSlot, Registration, Events
<1>3. T = [S EXCEPT !.ev = d, !.reg = Re!Unregistered]
  BY Zenon DEF Re!eventdel
<1> HIDE DEF d
<1>4. T.ev = d /\ T.reg = Re!Unregistered /\ T.sock = S.sock
  BY Zenon, <1>3 DEF Triple
<1>5. T \in Triple
  BY Zenon, <1>1, <1>2, <1>3 DEF Triple
<1> QED BY Zenon, <1>1, <1>2, <1>4, <1>5

(* close of a descriptor whose slot is free.                               *)
LEMMA ReClose ==
  ASSUME ReConstants, NEW S \in Triple, NEW T, T = Re!close(S)
  PROVE  T \in Triple /\ T.ev = S.ev /\ T.reg.slot = -1 /\ T.sock = Re!Closed
<1>1. Re!Unregistered \in Registration /\ Re!Unregistered.slot = -1
  BY Zenon DEF Re!Unregistered, Re!NoSlot, Registration, Events
<1>2. Re!Closed \in Socket
  BY DEF Re!Closed, Socket, ReConstants
<1>3. T = [S EXCEPT !.sock = Re!Closed, !.reg = Re!Unregistered]
  BY Zenon DEF Re!close
<1>4. T.ev = S.ev /\ T.reg = Re!Unregistered /\ T.sock = Re!Closed
  BY Zenon, <1>3 DEF Triple
<1>5. T \in Triple
  BY Zenon, <1>1, <1>2, <1>3 DEF Triple
<1> QED BY Zenon, <1>1, <1>4, <1>5

(* What a callback makes of a slot in use: it is freed, or goes on with    *)
(* the other callback.                                                     *)
Freed(S) == S.ev.status = 0 /\ S.reg.slot = -1 /\ S.sock = Re!Closed
Turned(S, i, f, c, y) ==
  /\ S.ev.status = 1 /\ S.ev.fd = f /\ S.ev.call_back = c /\ S.ev.events = y
  /\ S.reg.slot = i /\ S.reg.events = y
  /\ S.sock.open = sock[f].open /\ S.sock.leaked = sock[f].leaked

(* A send of n bytes of slot i's buffer, which may be fewer than it has.   *)
SentBack(S, i, f) ==
  /\ S.sock.received = sock[f].received
  /\ \E n \in 1..ev[i].len :
       /\ S.sock.sent = sock[f].sent \o [k \in 1..n |-> ev[i].from + k]
       /\ S.sock.short = (sock[f].short \/ n < ev[i].len)

(* recvdata closes the connection, or puts what it read into the slot's    *)
(* buffer and waits to send it.                                            *)
LEMMA ReRecv ==
  ASSUME ReConstants, ReInv, NEW i \in Re!Slots, NEW f \in Fds, f = ev[i].fd, ev[i].status = 1,
         NEW S \in Re!recvdata(Re!State(i, f), i)
  PROVE  /\ S \in Triple
         /\ \/ Freed(S)
            \/ /\ Turned(S, i, f, "senddata", "OUT")
               /\ S.ev.from = sock[f].received
               /\ S.sock.received = sock[f].received + S.ev.len
               /\ S.sock.sent = sock[f].sent /\ S.sock.short = sock[f].short
<1> DEFINE S0 == Re!State(i, f)
           S1 == Re!eventdel(S0)
           e(n) == [S1.ev EXCEPT !.from = S0.sock.received, !.len = Re!AfterNul(n)]
           s(n) == [S0.sock EXCEPT !.pending = @ - n, !.received = @ + n]
           got(n) == [S1 EXCEPT !.ev = e(n), !.sock = s(n)]
<1>1. S0 \in Triple /\ S0.ev = ev[i] /\ S0.sock = sock[f] /\ S0.ev.fd = f
  BY Zenon DEF ReInv, ReTypes, Re!State, Triple
<1>2. S1 \in Triple /\ S1.ev.status = 0 /\ S1.reg.slot = -1 /\ S1.sock = S0.sock
  BY ZenonT(60), <1>1, ReDel
<1>3. \/ S = Re!close(S1)
      \/ \E n \in 1..BUFLEN :
           n <= S0.sock.pending
             /\ S = Re!eventadd(Re!eventset(got(n), S0.ev.fd, "senddata"), i, "OUT")
  BY Zenon DEF Re!recvdata
<1> HIDE DEF S0, S1
<1>4. CASE S = Re!close(S1)
  BY Zenon, <1>2, <1>4, ReClose DEF Freed
<1>5. ASSUME NEW n \in 1..BUFLEN, n <= S0.sock.pending,
             S = Re!eventadd(Re!eventset(got(n), f, "senddata"), i, "OUT")
      PROVE  /\ S \in Triple /\ Turned(S, i, f, "senddata", "OUT")
             /\ S.ev.from = sock[f].received
             /\ S.sock.received = sock[f].received + S.ev.len
             /\ S.sock.sent = sock[f].sent /\ S.sock.short = sock[f].short
  <2>1. Re!AfterNul(n) = n
    BY DEF ReConstants, Re!AfterNul
  <2>2. /\ S1.ev \in Entry /\ S0.sock = sock[f] /\ sock[f] \in Socket
        /\ n \in Nat /\ n <= sock[f].pending
    BY <1>1, <1>2, <1>5 DEF Triple, ReConstants
  <2>3. e(n) \in Entry /\ e(n).from = sock[f].received /\ e(n).len = n
    <3>1. sock[f].received \in Nat
      BY Zenon, <2>2 DEF Socket
    <3> QED BY Zenon, <2>1, <2>2, <3>1 DEF Entry
  <2>4. /\ s(n) \in Socket /\ s(n).received = sock[f].received + n /\ s(n).sent = sock[f].sent
        /\ s(n).short = sock[f].short /\ s(n).open = sock[f].open
        /\ s(n).leaked = sock[f].leaked
    <3>1. sock[f].pending - n \in Nat /\ sock[f].received + n \in Nat
      <4>1. sock[f].pending \in Nat /\ sock[f].received \in Nat
        BY Zenon, <2>2 DEF Socket
      <4> QED BY <2>2, <4>1
    <3> QED BY Zenon, <2>2, <3>1 DEF Socket
  <2> HIDE DEF e, s
  <2>5. got(n).ev = e(n) /\ got(n).sock = s(n) /\ got(n).reg = S1.reg
    BY Zenon, <1>2 DEF Triple
  <2>6. got(n) \in Triple
    BY Zenon, <1>2, <2>3, <2>4 DEF Triple
  <2> HIDE DEF got
  <2>7. "OUT" \in Events
    BY Zenon DEF Events
  <2>8. /\ S \in Triple /\ S.sock = s(n) /\ S.reg.slot = i /\ S.reg.events = "OUT"
        /\ S.ev.fd = f /\ S.ev.call_back = "senddata" /\ S.ev.events = "OUT" /\ S.ev.status = 1
        /\ S.ev.from = e(n).from /\ S.ev.len = e(n).len
    BY <1>2, <1>5, <2>5, <2>6, <2>7, ReAdd
  <2> QED BY Zenon, <2>3, <2>4, <2>8 DEF Turned
<1> HIDE DEF got
<1> QED BY Zenon, <1>1, <1>3, <1>4, <1>5

(* senddata closes the connection, or sends from the slot's buffer and     *)
(* waits for more.                                                         *)
LEMMA ReSend ==
  ASSUME ReConstants, ReInv, NEW i \in Re!Slots, NEW f \in Fds, f = ev[i].fd, ev[i].status = 1,
         NEW S \in Re!senddata(Re!State(i, f), i)
  PROVE  /\ S \in Triple
         /\ \/ Freed(S)
            \/ Turned(S, i, f, "recvdata", "IN") /\ SentBack(S, i, f)
<1> DEFINE S0 == Re!State(i, f)
           S1 == Re!eventdel(S0)
           s(n) == [S0.sock EXCEPT !.room = @ - n,
                                   !.sent = @ \o [k \in 1..n |-> S0.ev.from + k],
                                   !.short = @ \/ n < S0.ev.len]
           put(n) == [S1 EXCEPT !.sock = s(n)]
<1>1. S0 \in Triple /\ S0.ev = ev[i] /\ S0.sock = sock[f] /\ S0.ev.fd = f
  BY Zenon DEF ReInv, ReTypes, Re!State, Triple
<1>2. S1 \in Triple /\ S1.ev.status = 0 /\ S1.reg.slot = -1 /\ S1.sock = S0.sock
  BY Zenon, <1>1, ReDel
<1>3. \/ S = Re!close(S1)
      \/ \E n \in 1..S0.ev.len :
           n <= S0.sock.room
             /\ S = Re!eventadd(Re!eventset(put(n), S0.ev.fd, "recvdata"), i, "IN")
  BY ZenonT(60) DEF Re!senddata
<1> HIDE DEF S0, S1
<1>4. CASE S = Re!close(S1)
  BY Zenon, <1>2, <1>4, ReClose DEF Freed
<1>5. ASSUME NEW n \in 1..S0.ev.len, n <= S0.sock.room,
             S = Re!eventadd(Re!eventset(put(n), f, "recvdata"), i, "IN")
      PROVE  /\ S \in Triple /\ Turned(S, i, f, "recvdata", "IN")
             /\ S.sock.received = sock[f].received
             /\ S.sock.sent = sock[f].sent \o [k \in 1..n |-> ev[i].from + k]
             /\ S.sock.short = (sock[f].short \/ n < ev[i].len)
  <2>1. /\ S0.ev = ev[i] /\ S0.sock = sock[f] /\ sock[f] \in Socket /\ ev[i] \in Entry
        /\ n \in Nat /\ n <= sock[f].room
    BY <1>1, <1>5 DEF Triple, Entry
  <2>2. /\ s(n) \in Socket /\ s(n).received = sock[f].received
        /\ s(n).sent = sock[f].sent \o [k \in 1..n |-> ev[i].from + k]
        /\ s(n).short = (sock[f].short \/ n < ev[i].len)
        /\ s(n).open = sock[f].open /\ s(n).leaked = sock[f].leaked
    <3>1. sock[f].room - n \in Nat /\ ev[i].from \in Nat
      <4>1. sock[f].room \in Nat /\ ev[i].from \in Nat
        BY Zenon, <2>1 DEF Socket, Entry
      <4> QED BY <2>1, <4>1
    <3>2. [k \in 1..n |-> ev[i].from + k] \in Seq(Nat)
      BY <2>1, <3>1
    <3>3. sock[f].sent \o [k \in 1..n |-> ev[i].from + k] \in Seq(Nat)
      BY <2>1, <3>2 DEF Socket
    <3> QED BY ZenonT(60), <2>1, <3>1, <3>3 DEF Socket
  <2> HIDE DEF s
  <2>3. put(n).ev = S1.ev /\ put(n).sock = s(n) /\ put(n).reg = S1.reg
    BY Zenon, <1>2 DEF Triple
  <2>4. put(n) \in Triple
    BY Zenon, <1>2, <2>2 DEF Triple
  <2> HIDE DEF put
  <2>5. "IN" \in Events
    BY ZenonT(60) DEF Events
  <2>6. /\ S \in Triple /\ S.sock = s(n) /\ S.reg.slot = i /\ S.reg.events = "IN"
        /\ S.ev.fd = f /\ S.ev.call_back = "recvdata" /\ S.ev.events = "IN" /\ S.ev.status = 1
    BY <1>2, <1>5, <2>3, <2>4, <2>5, ReAdd
  <2> QED BY Zenon, <2>2, <2>6 DEF Turned
<1> HIDE DEF put
<1> QED BY Zenon, <1>1, <1>3, <1>4, <1>5 DEF SentBack

-----------------------------------------------------------------------------
(* Slot i and descriptor f change, which belong together or to nobody.     *)
Good(S, i, f) ==
  /\ S.ev.status = 1 /\ S.ev.fd = f /\ S.reg.slot = i /\ S.reg.events = S.ev.events
  /\ \/ S.ev.events = "IN" /\ S.ev.call_back = "recvdata"
     \/ S.ev.events = "OUT" /\ S.ev.call_back = "senddata"
  /\ S.sock.open /\ ~S.sock.leaked

(* Such a change keeps slots, epoll and descriptors in agreement.          *)
LEMMA ReMoved ==
  ASSUME ReConstants, ReTypes, InUse, Known, NEW i \in Re!Slots, NEW f \in Fds,
         ev[i].status = 1 => ev[i].fd = f, reg[f].slot \in {-1, i},
         NEW S \in Triple, Freed(S) \/ Good(S, i, f), Re!Becomes(i, f, S),
         UNCHANGED <<pc, checkpos>>
  PROVE  ReTypes' /\ InUse' /\ Known'
<1>1. /\ ev'[i] = S.ev /\ \A j \in Re!Slots \ {i} : ev'[j] = ev[j]
      /\ reg'[f] = S.reg /\ sock'[f] = S.sock
      /\ \A g \in Fds \ {f} : reg'[g] = reg[g] /\ sock'[g] = sock[g]
  BY ZenonT(60) DEF Re!Becomes, ReTypes
<1>2. ReTypes'
  BY Zenon DEF Re!Becomes, ReTypes, Triple
<1>3. \A j \in Re!Slots \ {i} : ev[j].status = 1 => ev[j].fd \in Fds \ {f}
  <2> SUFFICES ASSUME NEW j \in Re!Slots \ {i}, ev[j].status = 1 PROVE ev[j].fd \in Fds \ {f}
    BY Zenon
  <2>1. ev[j].fd \in Fds /\ reg[ev[j].fd] = [slot |-> j, events |-> ev[j].events]
    BY Zenon DEF InUse
  <2>2. reg[ev[j].fd].slot = j /\ j # -1
    BY <2>1 DEF Re!Slots, ReConstants
  <2> QED BY Zenon, <2>1, <2>2
<1>4. \A g \in Fds \ {f} : reg[g].slot # -1 => reg[g].slot \in Re!Slots \ {i}
  BY ZenonT(60) DEF Known, ReTypes, Registration
<1>5. S.ev.status = 0 \/ Good(S, i, f)
  BY Zenon DEF Freed
<1>6. InUse'
  <2> SUFFICES ASSUME NEW j \in Re!Slots, ev'[j].status = 1
               PROVE  /\ ev'[j].fd \in Fds /\ sock'[ev'[j].fd].open /\ ~sock'[ev'[j].fd].leaked
                      /\ reg'[ev'[j].fd] = [slot |-> j, events |-> ev'[j].events]
                      /\ \/ ev'[j].events = "IN" /\ ev'[j].call_back = "recvdata"
                         \/ ev'[j].events = "OUT" /\ ev'[j].call_back = "senddata"
    BY Zenon DEF InUse
  <2>1. CASE j = i
    <3>1. S.reg \in Registration /\ Good(S, i, f)
      BY <1>1, <1>5, <2>1 DEF Triple
    <3>2. S.reg = [slot |-> i, events |-> S.ev.events]
      BY ZenonT(60), <3>1 DEF Good, Registration
    <3> QED BY <1>1, <2>1, <3>1, <3>2 DEF Good
  <2>2. CASE j # i
    BY <1>1, <1>3, <2>2 DEF InUse
  <2> QED BY Zenon, <2>1, <2>2
<1>7. Known'
  <2> SUFFICES ASSUME NEW g \in Fds
               PROVE  /\ reg'[g].slot # -1 =>
                           ev'[reg'[g].slot].status = 1 /\ ev'[reg'[g].slot].fd = g
                      /\ reg'[g].slot = -1 => sock'[g].open = sock'[g].leaked
    BY Zenon DEF Known
  <2>1. CASE g = f /\ Freed(S)
    <3>1. reg'[g].slot = -1 /\ sock'[g] = Re!Closed
      BY Zenon, <1>1, <2>1 DEF Freed
    <3>2. Re!Closed.open = FALSE /\ Re!Closed.leaked = FALSE
      BY Zenon DEF Re!Closed
    <3> QED BY Zenon, <3>1, <3>2
  <2>2. CASE g = f /\ Good(S, i, f)
    BY <1>1, <2>2 DEF Good, Re!Slots
  <2>3. CASE g # f
    BY <1>1, <1>4, <2>3 DEF Known
  <2> QED BY Zenon, <2>1, <2>2, <2>3
<1> QED BY Zenon, <1>2, <1>6, <1>7

(* The handling of one event.                                              *)
LEMMA ReDispatched ==
  ASSUME ReConstants, ReInv, Re!dispatch
  PROVE  \E i \in Re!Slots : \E f \in Fds : \E S \in Triple :
           /\ i = cur.slot /\ f = ev[i].fd /\ ev[i].status = 1 /\ cur \in Waiting
           /\ Re!Becomes(i, f, S)
           /\ \/ S = Re!State(i, f)
              \/ ev[i].call_back = "recvdata" /\ S \in Re!recvdata(Re!State(i, f), i)
              \/ ev[i].call_back = "senddata" /\ S \in Re!senddata(Re!State(i, f), i)
<1> DEFINE i == cur.slot
           f == ev[i].fd
           S0 == Re!State(i, f)
<1>1. /\ cur \in Waiting /\ i \in Re!Slots /\ ev[i].status = 1
      /\ cur.flags \subseteq {ev[i].events, "ERR"}
  BY Zenon DEF ReInv, Fresh, Waiting, Re!dispatch
<1>2. f \in Fds /\ ev[i].call_back \in {"recvdata", "senddata"}
        /\ S0 \in Triple /\ S0.ev = ev[i]
  BY ZenonT(60), <1>1 DEF ReInv, InUse, ReTypes, Re!State, Triple
<1>3. PICK S1 \in Re!Tested(S0, "IN") : \E S2 \in Re!Tested(S1, "OUT") : Re!Becomes(i, f, S2)
  BY Zenon DEF Re!dispatch
<1>4. PICK S2 \in Re!Tested(S1, "OUT") : Re!Becomes(i, f, S2)
  BY Zenon, <1>3
<1>5. S2 = S0 \/ S2 \in Re!call_back(S0, i)
  <2>1. CASE "IN" \in cur.flags
    <3>1. "OUT" \notin cur.flags
      BY Zenon, <1>1, <2>1
    <3> QED BY Zenon, <1>3, <1>4, <3>1 DEF Re!Tested
  <2>2. CASE "IN" \notin cur.flags
    BY Zenon, <1>3, <1>4, <2>2 DEF Re!Tested
  <2> QED BY Zenon, <2>1, <2>2
<1> HIDE DEF i, f, S0
<1>6. S2 \in Triple
  BY Zenon, <1>1, <1>2, <1>5, ReRecv, ReSend DEF Re!call_back, S0, f
<1>7. \/ S2 = S0
      \/ ev[i].call_back = "recvdata" /\ S2 \in Re!recvdata(S0, i)
      \/ ev[i].call_back = "senddata" /\ S2 \in Re!senddata(S0, i)
  BY Zenon, <1>2, <1>5 DEF Re!call_back
<1> QED BY Zenon, <1>1, <1>2, <1>4, <1>6, <1>7 DEF i, f, S0

(* Handling an event keeps the invariant.                                  *)
LEMMA ReDispatch == ASSUME ReConstants, ReInv, Re!dispatch PROVE ReInv'
<1>1. PICK i \in Re!Slots, f \in Fds, S \in Triple :
           /\ i = cur.slot /\ f = ev[i].fd /\ ev[i].status = 1 /\ cur \in Waiting
           /\ Re!Becomes(i, f, S)
           /\ \/ S = Re!State(i, f)
              \/ ev[i].call_back = "recvdata" /\ S \in Re!recvdata(Re!State(i, f), i)
              \/ ev[i].call_back = "senddata" /\ S \in Re!senddata(Re!State(i, f), i)
  BY Zenon, ReDispatched
<1>2. reg[f] = [slot |-> i, events |-> ev[i].events] /\ sock[f].open /\ ~sock[f].leaked
  BY Zenon, <1>1 DEF ReInv, InUse
<1>3. Freed(S) \/ Good(S, i, f)
  <2>1. CASE S = Re!State(i, f)
    BY <1>1, <1>2, <2>1 DEF ReInv, InUse, Re!State, Good
  <2>2. CASE S \in Re!recvdata(Re!State(i, f), i)
    BY <1>1, <1>2, <2>2, ReRecv DEF Turned, Good
  <2>3. CASE S \in Re!senddata(Re!State(i, f), i)
    BY <1>1, <1>2, <2>3, ReSend DEF Turned, Good
  <2> QED BY ZenonT(60), <1>1, <2>1, <2>2, <2>3
<1>4. cur' = Re!NoEvent /\ UNCHANGED <<pc, checkpos, batch>>
  BY Zenon DEF Re!dispatch
<1>5. ReTypes' /\ InUse' /\ Known'
  BY <1>1, <1>2, <1>3, <1>4, ReMoved DEF ReInv
<1>6. \A e \in Waiting' : e \in Waiting /\ e.slot \in Re!Slots /\ e.slot # i
  BY ZenonT(60), <1>1, <1>4 DEF ReInv, Fresh, Waiting, Re!Listening, Re!NoEvent
<1>7. \A j \in Re!Slots \ {i} : ev'[j] = ev[j]
  BY Zenon, <1>1 DEF Re!Becomes, ReInv, ReTypes
<1>8. Re!Listening # Re!NoEvent
  BY Zenon DEF ReConstants, Re!Listening, Re!NoEvent, Re!NoSlot
<1>9. pc = "batch"
  BY Zenon DEF ReInv, Fresh, Re!dispatch
<1>10. Fresh'
  BY ZenonT(60), <1>4, <1>6, <1>7, <1>8, <1>9 DEF ReInv, Fresh, Re!Listening, Re!NoEvent
<1> QED BY Zenon, <1>5, <1>10 DEF ReInv

(* Steps that leave the table, epoll and whose the descriptors are.        *)
LEMMA ReKept ==
  ASSUME ReInv, UNCHANGED <<reg, checkpos, pc, batch, cur>>,
         ev' \in [Re!Slots -> Entry], sock' \in [Fds -> Socket],
         \A i \in Re!Slots : /\ ev'[i].status = ev[i].status /\ ev'[i].fd = ev[i].fd
                             /\ ev'[i].events = ev[i].events
                             /\ ev'[i].call_back = ev[i].call_back,
         \A f \in Fds : sock'[f].open = sock[f].open /\ sock'[f].leaked = sock[f].leaked
  PROVE  ReInv'
<1>1. ReTypes'
  BY Zenon DEF ReInv, ReTypes
<1>2. InUse'
  <2> SUFFICES ASSUME NEW i \in Re!Slots, ev'[i].status = 1
               PROVE  /\ ev'[i].fd \in Fds /\ sock'[ev'[i].fd].open /\ ~sock'[ev'[i].fd].leaked
                      /\ reg'[ev'[i].fd] = [slot |-> i, events |-> ev'[i].events]
                      /\ \/ ev'[i].events = "IN" /\ ev'[i].call_back = "recvdata"
                         \/ ev'[i].events = "OUT" /\ ev'[i].call_back = "senddata"
    BY Zenon DEF InUse
  <2>1. /\ ev'[i].fd = ev[i].fd /\ ev[i].status = 1 /\ ev'[i].events = ev[i].events
        /\ ev'[i].call_back = ev[i].call_back
    BY Zenon
  <2>2. /\ ev[i].fd \in Fds /\ sock[ev[i].fd].open /\ ~sock[ev[i].fd].leaked
        /\ reg[ev[i].fd] = [slot |-> i, events |-> ev[i].events]
        /\ \/ ev[i].events = "IN" /\ ev[i].call_back = "recvdata"
           \/ ev[i].events = "OUT" /\ ev[i].call_back = "senddata"
    BY Zenon, <2>1 DEF ReInv, InUse
  <2>3. sock'[ev[i].fd].open /\ ~sock'[ev[i].fd].leaked /\ reg' = reg
    BY Zenon, <2>2
  <2> QED BY Zenon, <2>1, <2>2, <2>3
<1>3. Known'
  BY ZenonT(60) DEF ReInv, Known, ReTypes, Registration
<1>4. Fresh'
  BY ZenonT(60) DEF ReInv, Fresh, Waiting
<1> QED BY Zenon, <1>1, <1>2, <1>3, <1>4 DEF ReInv

(* A tick of the clock.                                                    *)
LEMMA ReTick ==
  ASSUME ReInv, Re!Tick
  PROVE  /\ ReInv' /\ UNCHANGED <<reg, sock>>
         /\ \A i \in Re!Slots : /\ ev'[i].call_back = ev[i].call_back
                               /\ ev'[i].from = ev[i].from /\ ev'[i].len = ev[i].len
<1>1. ASSUME NEW i \in Re!Slots
      PROVE  /\ ev'[i] \in Entry /\ ev'[i].status = ev[i].status /\ ev'[i].fd = ev[i].fd
             /\ ev'[i].events = ev[i].events /\ ev'[i].call_back = ev[i].call_back
             /\ ev'[i].from = ev[i].from /\ ev'[i].len = ev[i].len
  <2>1. ev[i] \in Entry /\ ev[i].age + 1 \in Nat
    BY DEF ReInv, ReTypes, Entry
  <2>2. ev'[i] = ev[i] \/ ev'[i] = [ev[i] EXCEPT !.age = @ + 1]
    BY Zenon DEF Re!Tick
  <2> QED BY Zenon, <2>1, <2>2 DEF Entry
<1>2. ev' \in [Re!Slots -> Entry] /\ UNCHANGED <<reg, checkpos, pc, batch, cur, sock>>
  BY Zenon, <1>1 DEF Re!Tick
<1> QED BY Zenon, <1>1, <1>2, ReKept DEF ReInv, ReTypes

(* What a client does to its socket.                                       *)
LEMMA ReClient ==
  ASSUME ReConstants, ReInv, NEW f \in Fds, Re!Client(f) \/ Re!Refuse(f) \/ Re!ClientReads(f)
  PROVE  /\ ReInv' /\ UNCHANGED <<ev, reg>>
         /\ \A g \in Fds : /\ sock'[g].received = sock[g].received
                           /\ sock'[g].sent = sock[g].sent /\ sock'[g].short = sock[g].short
<1>1. PICK s \in Socket : /\ sock' = [sock EXCEPT ![f] = s]
                          /\ s.open = sock[f].open /\ s.leaked = sock[f].leaked
                          /\ s.received = sock[f].received /\ s.sent = sock[f].sent
                          /\ s.short = sock[f].short
  <2>1. sock[f] \in Socket /\ SendRoom \in Nat /\ sock[f].pending + 1 \in Nat
    <3>1. sock[f] \in Socket /\ SendRoom \in Nat /\ sock[f].pending \in Nat
      BY ZenonT(60) DEF ReInv, ReTypes, Socket, ReConstants
    <3> QED BY <3>1
  <2>2. PICK s : /\ sock' = [sock EXCEPT ![f] = s]
                 /\ \/ s = [sock[f] EXCEPT !.pending = @ + 1]
                    \/ s = [sock[f] EXCEPT !.room = SendRoom]
                    \/ \E how \in {"eof", "reset"} : s = [sock[f] EXCEPT !.link = how]
    BY Zenon DEF Re!Client, Re!Refuse, Re!ClientReads
  <2>3. /\ s \in Socket /\ s.open = sock[f].open /\ s.leaked = sock[f].leaked
        /\ s.received = sock[f].received /\ s.sent = sock[f].sent /\ s.short = sock[f].short
    BY ZenonT(60), <2>1, <2>2 DEF Socket
  <2> QED BY Zenon, <2>2, <2>3
<1>2. UNCHANGED <<ev, reg, checkpos, pc, batch, cur>>
  BY Zenon DEF Re!Client, Re!Refuse, Re!ClientReads
<1>3. \A g \in Fds : sock'[g] = IF g = f THEN s ELSE sock[g]
  BY Zenon, <1>1 DEF ReInv, ReTypes
<1>4. sock' \in [Fds -> Socket] /\ ev' \in [Re!Slots -> Entry]
  BY Zenon, <1>1, <1>2 DEF ReInv, ReTypes
<1> QED BY Zenon, <1>1, <1>2, <1>3, <1>4, ReKept

(* Two slots in use have different descriptors.                            *)
LEMMA ReOwn ==
  ASSUME InUse, NEW i \in Re!Slots, NEW j \in Re!Slots, ev[i].status = 1, ev[j].status = 1,
         ev[i].fd = ev[j].fd
  PROVE  i = j
<1>1. reg[ev[i].fd] = [slot |-> i, events |-> ev[i].events]
        /\ reg[ev[j].fd] = [slot |-> j, events |-> ev[j].events]
  BY Zenon DEF InUse
<1> QED BY <1>1

(* The scan stays within the table.                                        *)
LEMMA ReWraps == ASSUME NEW n \in Nat, NEW m \in Nat, m > 0 PROVE n % m \in 0..m-1
BY SMTT(20)

(* The timeout scan closes silent connections and leaves the others.       *)
LEMMA ReScan ==
  ASSUME ReConstants, ReInv, Re!scan
  PROVE  /\ ReInv'
         /\ \A f \in Fds : \/ reg'[f].slot = -1 /\ sock'[f] = Re!Closed
                           \/ /\ reg'[f] = reg[f] /\ sock'[f] = sock[f]
                              /\ reg[f].slot # -1 => ev'[reg[f].slot] = ev[reg[f].slot]
<1> DEFINE gone == {i \in Re!Scanned(ScanSize) : Re!Silent(ev[i])}
           fds == {ev[i].fd : i \in gone}
<1>1. /\ pc = "scan" /\ pc' = "wait" /\ UNCHANGED <<batch, cur>>
      /\ ev' = [i \in Re!Slots |-> IF i \in gone THEN [ev[i] EXCEPT !.status = 0] ELSE ev[i]]
      /\ reg' = [f \in Fds |-> IF f \in fds THEN Re!Unregistered ELSE reg[f]]
      /\ sock' = [f \in Fds |-> IF f \in fds THEN Re!Closed ELSE sock[f]]
  BY Zenon DEF Re!scan
<1>2. \A i \in gone : ev[i].status = 1
  BY Zenon DEF Re!Silent
<1> HIDE DEF gone, fds
<1>3. /\ Re!Unregistered \in Registration /\ Re!Unregistered.slot = -1
      /\ Re!Closed \in Socket /\ Re!Closed.open = FALSE /\ Re!Closed.leaked = FALSE
  BY DEF Re!Unregistered, Re!NoSlot, Registration, Events, Re!Closed, Socket, ReConstants
<1>4. ASSUME NEW i \in Re!Slots
      PROVE  ev'[i] \in Entry /\ (ev'[i].status = 1 => i \notin gone /\ ev'[i] = ev[i])
  <2>1. ev[i] \in Entry
    BY Zenon DEF ReInv, ReTypes
  <2>2. ev'[i] = IF i \in gone THEN [ev[i] EXCEPT !.status = 0] ELSE ev[i]
    BY Zenon, <1>1
  <2> QED BY <2>1, <2>2 DEF Entry
<1>5. ReTypes'
  <2>1. checkpos' \in Nat
    BY DEF Re!scan, Re!NextPos, ReInv, ReTypes, ReConstants
  <2> QED BY Zenon, <1>1, <1>3, <1>4, <2>1 DEF ReInv, ReTypes
<1>6. ASSUME NEW f \in Fds
      PROVE  \/ f \in fds /\ reg'[f].slot = -1 /\ sock'[f] = Re!Closed
             \/ /\ f \notin fds /\ reg'[f] = reg[f] /\ sock'[f] = sock[f]
                /\ reg[f].slot # -1 =>
                     reg[f].slot \in Re!Slots /\ ev'[reg[f].slot] = ev[reg[f].slot]
  <2>1. CASE f \in fds
    BY Zenon, <1>1, <1>3, <2>1
  <2>2. CASE f \notin fds
    <3>1. reg'[f] = reg[f] /\ sock'[f] = sock[f]
      BY Zenon, <1>1, <2>2
    <3>2. reg[f].slot # -1 => reg[f].slot \in Re!Slots /\ ev[reg[f].slot].fd = f
      BY ZenonT(60) DEF ReInv, Known, ReTypes, Registration
    <3>3. reg[f].slot # -1 => reg[f].slot \notin gone
      BY Zenon, <2>2, <3>2 DEF fds
    <3> QED BY Zenon, <1>1, <2>2, <3>1, <3>2, <3>3
  <2> QED BY Zenon, <2>1, <2>2
<1>7. InUse'
  <2> SUFFICES ASSUME NEW i \in Re!Slots, ev'[i].status = 1
               PROVE  /\ ev'[i].fd \in Fds /\ sock'[ev'[i].fd].open /\ ~sock'[ev'[i].fd].leaked
                      /\ reg'[ev'[i].fd] = [slot |-> i, events |-> ev'[i].events]
                      /\ \/ ev'[i].events = "IN" /\ ev'[i].call_back = "recvdata"
                         \/ ev'[i].events = "OUT" /\ ev'[i].call_back = "senddata"
    BY Zenon DEF InUse
  <2>1. ev'[i] = ev[i] /\ i \notin gone /\ ev[i].status = 1
    BY Zenon, <1>4
  <2>2. ev[i].fd \in Fds
    BY Zenon, <2>1 DEF ReInv, InUse
  <2>3. ev[i].fd \notin fds
    <3> SUFFICES ASSUME NEW j \in gone, ev[i].fd = ev[j].fd PROVE FALSE
      BY Zenon DEF fds
    <3>1. j \in Re!Slots
      <4>1. PICK k \in 0..ScanSize-1 : j = (checkpos + k) % MAX_EVENTS
        BY Zenon DEF gone, Re!Scanned
      <4>2. checkpos \in Nat /\ MAX_EVENTS \in Nat \ {0}
        BY Zenon DEF ReInv, ReTypes, ReConstants
      <4>3. checkpos + k \in Nat /\ MAX_EVENTS > 0
        BY <4>2
      <4> QED BY Zenon, <4>1, <4>2, <4>3, ReWraps DEF Re!Slots
    <3> QED BY Zenon, <1>2, <2>1, <3>1, ReOwn DEF ReInv
  <2>4. reg'[ev[i].fd] = reg[ev[i].fd] /\ sock'[ev[i].fd] = sock[ev[i].fd]
    BY Zenon, <1>6, <2>2, <2>3
  <2>5. /\ sock[ev[i].fd].open /\ ~sock[ev[i].fd].leaked
        /\ reg[ev[i].fd] = [slot |-> i, events |-> ev[i].events]
        /\ \/ ev[i].events = "IN" /\ ev[i].call_back = "recvdata"
           \/ ev[i].events = "OUT" /\ ev[i].call_back = "senddata"
    BY Zenon, <2>1 DEF ReInv, InUse
  <2> QED BY Zenon, <2>1, <2>2, <2>4, <2>5
<1>8. Known'
  <2> SUFFICES ASSUME NEW f \in Fds
               PROVE  /\ reg'[f].slot # -1 =>
                           ev'[reg'[f].slot].status = 1 /\ ev'[reg'[f].slot].fd = f
                      /\ reg'[f].slot = -1 => sock'[f].open = sock'[f].leaked
    BY Zenon DEF Known
  <2>1. /\ reg[f].slot # -1 => ev[reg[f].slot].status = 1 /\ ev[reg[f].slot].fd = f
        /\ reg[f].slot = -1 => sock[f].open = sock[f].leaked
    BY Zenon DEF ReInv, Known
  <2> QED BY Zenon, <1>3, <1>6, <2>1
<1>9. Fresh'
  BY Zenon, <1>1 DEF ReInv, Fresh, Waiting
<1> QED BY Zenon, <1>5, <1>6, <1>7, <1>8, <1>9 DEF ReInv

(* epoll_wait reports the slots in use, each at most once.                 *)
LEMMA ReWait == ASSUME ReConstants, ReInv, Re!epoll_wait PROVE ReInv'
<1>1. /\ pc = "wait" /\ pc' = "batch" /\ UNCHANGED <<ev, checkpos, cur, reg, sock>>
      /\ \A e \in batch' : \/ e = Re!Listening
                           \/ \E f \in Fds : /\ Re!Reported(f) # {}
                                             /\ e = [slot |-> reg[f].slot, flags |-> Re!Reported(f)]
  BY Zenon DEF Re!epoll_wait
<1>2. batch = {} /\ cur = Re!NoEvent
  BY Zenon, <1>1 DEF ReInv, Fresh
<1>3. ReTypes' /\ InUse' /\ Known'
  BY ZenonT(60), <1>1 DEF ReInv, ReTypes, InUse, Known
<1>4. ASSUME NEW f \in Fds, Re!Reported(f) # {}
      PROVE  /\ reg[f].slot \in Re!Slots /\ ev[reg[f].slot].status = 1 /\ ev[reg[f].slot].fd = f
             /\ Re!Reported(f) \subseteq {ev[reg[f].slot].events, "ERR"}
  <2>1. reg[f].slot # -1 /\ Re!Reported(f) \subseteq {reg[f].events, "ERR"}
    BY Zenon, <1>4 DEF Re!Reported, Re!NoSlot
  <2>2. reg[f].slot \in Re!Slots /\ ev[reg[f].slot].status = 1 /\ ev[reg[f].slot].fd = f
    BY ZenonT(60), <2>1 DEF ReInv, Known, ReTypes, Registration
  <2>3. reg[f] = [slot |-> reg[f].slot, events |-> ev[reg[f].slot].events]
    BY ZenonT(60), <2>2 DEF ReInv, InUse
  <2>4. reg[f].events = ev[reg[f].slot].events
    BY <2>3
  <2> QED BY Zenon, <2>1, <2>2, <2>4
<1>5. Re!Listening # Re!NoEvent /\ \A i \in Re!Slots : i # Re!NoEvent.slot
  BY DEF ReConstants, Re!Listening, Re!NoEvent, Re!NoSlot, Re!Slots
<1>6. \A e \in Waiting' : \E f \in Fds :
        /\ e.slot = reg[f].slot /\ e.flags = Re!Reported(f) /\ Re!Reported(f) # {}
        /\ e = [slot |-> reg[f].slot, flags |-> Re!Reported(f)]
  <2> SUFFICES ASSUME NEW e \in Waiting'
               PROVE  \E f \in Fds :
                        /\ e.slot = reg[f].slot /\ e.flags = Re!Reported(f) /\ Re!Reported(f) # {}
                        /\ e = [slot |-> reg[f].slot, flags |-> Re!Reported(f)]
    BY Zenon
  <2>1. e \in batch' /\ e # Re!Listening
    BY Zenon, <1>1, <1>2 DEF Waiting, Re!Listening, Re!NoEvent, Re!NoSlot
  <2>2. PICK f \in Fds : /\ Re!Reported(f) # {}
                         /\ e = [slot |-> reg[f].slot, flags |-> Re!Reported(f)]
    BY Zenon, <1>1, <2>1
  <2>3. e.slot = reg[f].slot /\ e.flags = Re!Reported(f)
    BY Zenon, <2>2
  <2> QED BY Zenon, <2>2, <2>3
<1>7. \A e \in Waiting' : /\ e.slot \in Re!Slots /\ ev'[e.slot].status = 1
                          /\ e.flags \subseteq {ev'[e.slot].events, "ERR"}
  <2> SUFFICES ASSUME NEW e \in Waiting'
               PROVE  /\ e.slot \in Re!Slots /\ ev'[e.slot].status = 1
                      /\ e.flags \subseteq {ev'[e.slot].events, "ERR"}
    BY Zenon
  <2>1. PICK f \in Fds : e.slot = reg[f].slot /\ e.flags = Re!Reported(f) /\ Re!Reported(f) # {}
    BY Zenon, <1>6
  <2> QED BY ZenonT(60), <1>1, <1>4, <2>1
<1>8. \A d, e \in Waiting' : d.slot = e.slot => d = e
  <2> SUFFICES ASSUME NEW d \in Waiting', NEW e \in Waiting', d.slot = e.slot PROVE d = e
    BY Zenon
  <2>1. PICK f \in Fds : /\ d.slot = reg[f].slot /\ Re!Reported(f) # {}
                         /\ d = [slot |-> reg[f].slot, flags |-> Re!Reported(f)]
    BY Zenon, <1>6
  <2>2. PICK g \in Fds : /\ e.slot = reg[g].slot /\ Re!Reported(g) # {}
                         /\ e = [slot |-> reg[g].slot, flags |-> Re!Reported(g)]
    BY Zenon, <1>6
  <2>3. f = g
    BY Zenon, <1>4, <2>1, <2>2
  <2> QED BY Zenon, <2>1, <2>2, <2>3
<1>9. Re!NoEvent \notin batch'
  <2> SUFFICES ASSUME Re!NoEvent \in batch' PROVE FALSE
    BY Zenon
  <2>1. PICK f \in Fds : /\ Re!Reported(f) # {}
                         /\ Re!NoEvent = [slot |-> reg[f].slot, flags |-> Re!Reported(f)]
    BY Zenon, <1>1, <1>5
  <2>2. Re!NoEvent.slot = reg[f].slot
    BY Zenon, <2>1
  <2> QED BY ZenonT(60), <1>4, <1>5, <2>1, <2>2
<1>10. Fresh'
  <2>1. cur' = Re!NoEvent /\ Re!NoEvent' = Re!NoEvent /\ Re!Listening' = Re!Listening
          /\ Re!Slots' = Re!Slots
    BY Zenon, <1>1, <1>2 DEF Re!NoEvent, Re!NoSlot, Re!Listening, Re!Slots
  <2> QED BY Zenon, <1>1, <1>5, <1>7, <1>8, <1>9, <2>1 DEF Fresh
<1> QED BY Zenon, <1>3, <1>10 DEF ReInv

(* The next event of the batch, and its end.                               *)
LEMMA ReTake == ASSUME ReInv, Re!take PROVE ReInv'
<1>1. PICK e \in batch \ {Re!Listening} : cur' = e /\ batch' = batch \ {e}
  BY Zenon DEF Re!take
<1>2. cur = Re!NoEvent /\ pc = "batch" /\ UNCHANGED <<ev, checkpos, pc, reg, sock>>
  BY Zenon DEF Re!take
<1>3. ReTypes' /\ InUse' /\ Known'
  BY ZenonT(60), <1>2 DEF ReInv, ReTypes, InUse, Known
<1>4. /\ Re!NoEvent \notin batch' /\ cur' # Re!Listening /\ cur' \notin batch'
      /\ \A d \in Waiting' : d \in Waiting
  BY Zenon, <1>1, <1>2 DEF ReInv, Fresh, Waiting, Re!Listening, Re!NoEvent, Re!NoSlot
<1>5. Fresh'
  BY Zenon, <1>2, <1>4 DEF ReInv, Fresh, Re!Listening, Re!NoEvent, Re!NoSlot, Re!Slots
<1> QED BY Zenon, <1>3, <1>5 DEF ReInv

LEMMA ReEndBatch == ASSUME ReInv, Re!endBatch PROVE ReInv'
<1>1. /\ cur = Re!NoEvent /\ batch = {} /\ pc' = "scan"
      /\ UNCHANGED <<ev, checkpos, batch, cur, reg, sock>>
  BY Zenon DEF Re!endBatch
<1>2. ReTypes' /\ InUse' /\ Known'
  BY Zenon, <1>1 DEF ReInv, ReTypes, InUse, Known
<1>3. Fresh'
  BY Zenon, <1>1 DEF ReInv, Fresh, Waiting
<1> QED BY Zenon, <1>2, <1>3 DEF ReInv

(* The end of the server leaves no event behind.                           *)
LEMMA ReEnd ==
  ASSUME ReConstants, ReInv, Re!epoll_wait_fails \/ Re!killed
  PROVE  ReInv' /\ UNCHANGED <<ev, reg, sock>>
<1>1. /\ cur' = Re!NoEvent /\ batch' = {} /\ pc' = "dead"
      /\ UNCHANGED <<ev, checkpos, reg, sock>>
  BY Zenon DEF Re!epoll_wait_fails, Re!killed, ReInv, Fresh
<1>2. ReTypes' /\ InUse' /\ Known'
  BY Zenon, <1>1 DEF ReInv, ReTypes, InUse, Known
<1>3. Re!Listening # Re!NoEvent
  BY Zenon DEF ReConstants, Re!Listening, Re!NoEvent, Re!NoSlot
<1>4. Fresh'
  BY Zenon, <1>1, <1>3 DEF Fresh, Waiting
<1> QED BY Zenon, <1>1, <1>2, <1>4 DEF ReInv

(* acceptconn takes a free slot and a free descriptor.                     *)
LEMMA ReFree ==
  ASSUME ReConstants, ReInv, NEW f \in Fds, ~sock[f].open
  PROVE  reg[f].slot = -1 /\ \A i \in Re!Slots : ev[i].status = 1 => ev[i].fd # f
<1>1. \A i \in Re!Slots : ev[i].status = 1 => ev[i].fd # f
  BY Zenon DEF ReInv, InUse
<1> QED BY ZenonT(60), <1>1 DEF ReInv, Known, ReTypes, Registration

(* What acceptconn may do: nothing, leave a descriptor open at the limit,  *)
(* or give it a slot.                                                      *)
LEMMA ReAccepted ==
  ASSUME ReConstants, ReInv, Re!acceptconn
  PROVE  \/ UNCHANGED <<ev, reg, sock>>
         \/ \E f \in Fds : \E s \in Socket :
              /\ ~sock[f].open /\ s.open /\ s.received = 0 /\ s.sent = <<>> /\ ~s.short
              /\ \/ s.leaked /\ sock' = [sock EXCEPT ![f] = s] /\ UNCHANGED <<ev, reg>>
                 \/ \E i \in Re!Slots : \E S \in Triple :
                      /\ ev[i].status = 0 /\ Re!Becomes(i, f, S) /\ Good(S, i, f)
                      /\ S.sock = s /\ S.ev.call_back = "recvdata"
<1> DEFINE new == [Re!Closed EXCEPT !.open = TRUE]
           old == [new EXCEPT !.leaked = TRUE]
           S0(i, f) == [Re!State(i, f) EXCEPT !.sock = new]
<1>1. \/ UNCHANGED <<ev, reg, sock>>
      \/ \E f \in Fds :
           /\ ~sock[f].open
           /\ \/ sock' = [sock EXCEPT ![f] = old] /\ UNCHANGED <<ev, reg>>
              \/ \E i \in Re!Slots :
                   /\ ev[i].status = 0
                   /\ Re!Becomes(i, f, Re!eventadd(Re!eventset(S0(i, f), f, "recvdata"), i, "IN"))
  BY Zenon DEF Re!acceptconn, Re!First, Re!FreeFds, Re!FreeSlots
<1>2. /\ new \in Socket /\ new.open = TRUE /\ new.received = 0 /\ new.sent = <<>>
      /\ new.short = FALSE /\ new.leaked = FALSE
  <2>1. /\ Re!Closed \in Socket /\ Re!Closed.received = 0 /\ Re!Closed.sent = <<>>
        /\ Re!Closed.short = FALSE /\ Re!Closed.leaked = FALSE
    BY DEF Re!Closed, Socket, ReConstants
  <2> QED BY Zenon, <2>1 DEF Socket
<1> HIDE DEF new
<1>3. /\ old \in Socket /\ old.open = TRUE /\ old.received = 0 /\ old.sent = <<>>
      /\ old.short = FALSE /\ old.leaked = TRUE
  BY Zenon, <1>2 DEF Socket
<1> HIDE DEF old
<1>4. ASSUME NEW f \in Fds, ~sock[f].open, NEW i \in Re!Slots, ev[i].status = 0,
             NEW S, S = Re!eventadd(Re!eventset(S0(i, f), f, "recvdata"), i, "IN")
      PROVE  S \in Triple /\ Good(S, i, f) /\ S.sock = new /\ S.ev.call_back = "recvdata"
  <2>1. Re!State(i, f) \in Triple /\ Re!State(i, f).reg = reg[f]
    BY Zenon DEF ReInv, ReTypes, Re!State, Triple
  <2>2. S0(i, f) \in Triple /\ S0(i, f).sock = new /\ S0(i, f).reg = reg[f]
    <3> HIDE DEF Triple
    <3>1. \A T \in Triple : /\ [T EXCEPT !.sock = new] \in Triple
                            /\ [T EXCEPT !.sock = new].sock = new
                            /\ [T EXCEPT !.sock = new].reg = T.reg
      BY Zenon, <1>2 DEF Triple
    <3> QED BY Zenon, <2>1, <3>1
  <2> HIDE DEF S0
  <2>3. "IN" \in Events /\ "recvdata" \in {"recvdata", "senddata"} /\ S0(i, f).reg.slot = -1
    BY Zenon, <1>4, <2>2, ReFree DEF Events
  <2>4. /\ S \in Triple /\ S.sock = new /\ S.reg.slot = i /\ S.reg.events = "IN"
        /\ S.ev.fd = f /\ S.ev.call_back = "recvdata" /\ S.ev.events = "IN" /\ S.ev.status = 1
    BY <1>4, <2>2, <2>3, ReAdd
  <2> QED BY Zenon, <1>2, <2>4 DEF Good
<1> HIDE DEF S0
<1> QED BY ZenonT(60), <1>1, <1>2, <1>3, <1>4

(* acceptconn keeps the invariant.                                         *)
LEMMA ReAccept == ASSUME ReConstants, ReInv, Re!acceptconn PROVE ReInv'
<1>1. /\ batch' = batch \ {Re!Listening} /\ cur = Re!NoEvent /\ pc = "batch"
      /\ UNCHANGED <<checkpos, pc, cur>>
  BY Zenon DEF Re!acceptconn
<1>2. ASSUME \A e \in Waiting : ev'[e.slot] = ev[e.slot]
      PROVE  Fresh'
  <2>1. /\ Re!NoEvent \notin batch' /\ cur' # Re!Listening /\ cur' \notin batch'
        /\ \A d \in Waiting' : d \in Waiting
    BY Zenon, <1>1 DEF ReInv, Fresh, Waiting, Re!Listening, Re!NoEvent, Re!NoSlot
  <2> QED BY ZenonT(60), <1>1, <1>2, <2>1 DEF ReInv, Fresh, Re!Listening, Re!NoEvent,
         Re!NoSlot, Re!Slots
<1>3. CASE UNCHANGED <<ev, reg, sock>>
  <2>1. ReTypes' /\ InUse' /\ Known'
    BY ZenonT(60), <1>1, <1>3 DEF ReInv, ReTypes, InUse, Known
  <2> QED BY Zenon, <1>2, <1>3, <2>1 DEF ReInv
<1>4. ASSUME NEW f \in Fds, NEW s \in Socket, ~sock[f].open, s.open, s.leaked,
             sock' = [sock EXCEPT ![f] = s], UNCHANGED <<ev, reg>>
      PROVE  ReInv'
  <2>1. sock'[f] = s /\ \A g \in Fds \ {f} : sock'[g] = sock[g]
    BY Zenon, <1>4 DEF ReInv, ReTypes
  <2>2. reg[f].slot = -1 /\ \A i \in Re!Slots : ev[i].status = 1 => ev[i].fd # f
    BY Zenon, <1>4, ReFree
  <2>3. ReTypes'
    BY ZenonT(60), <1>1, <1>4 DEF ReInv, ReTypes
  <2>4. InUse'
    BY <1>4, <2>1, <2>2 DEF ReInv, InUse
  <2>5. Known'
    <3>1. sock'[f].open = sock'[f].leaked
      BY Zenon, <1>4, <2>1 DEF Socket
    <3> QED BY <1>4, <2>1, <2>2, <3>1 DEF ReInv, Known
  <2> QED BY Zenon, <1>2, <1>4, <2>3, <2>4, <2>5 DEF ReInv
<1>5. ASSUME NEW f \in Fds, ~sock[f].open, NEW i \in Re!Slots, NEW S \in Triple,
             ev[i].status = 0, Re!Becomes(i, f, S), Good(S, i, f)
      PROVE  ReInv'
  <2>1. reg[f].slot \in {-1, i} /\ (ev[i].status = 1 => ev[i].fd = f)
    BY <1>5, ReFree
  <2>2. ReTypes' /\ InUse' /\ Known'
    BY Zenon, <1>1, <1>5, <2>1, ReMoved DEF ReInv
  <2>3. \A e \in Waiting : ev'[e.slot] = ev[e.slot]
    <3>1. \A j \in Re!Slots : j # i => ev'[j] = ev[j]
      BY Zenon, <1>5 DEF Re!Becomes, ReInv, ReTypes
    <3>2. \A e \in Waiting : e.slot \in Re!Slots /\ ev[e.slot].status = 1
      BY Zenon DEF ReInv, Fresh
    <3>3. 0 # 1
      OBVIOUS
    <3> QED BY Zenon, <1>5, <3>1, <3>2, <3>3
  <2> QED BY Zenon, <1>2, <2>2, <2>3 DEF ReInv
<1> QED BY ZenonT(60), <1>3, <1>4, <1>5, ReAccepted

(* The invariant at the start, and that every step keeps it.               *)
LEMMA ReStart == ASSUME ReConstants, Re!Init PROVE ReInv /\ Echoed
<1>1. /\ Re!Unregistered \in Registration /\ Re!Unregistered.slot = -1
      /\ Re!Closed \in Socket /\ Re!Closed.open = FALSE /\ Re!Closed.leaked = FALSE
      /\ Re!Closed.received = 0 /\ Re!Closed.sent = <<>> /\ Re!Closed.short = FALSE
  BY DEF Re!Unregistered, Re!NoSlot, Registration, Events, Re!Closed, Socket, ReConstants
<1>2. \A f \in Fds : reg[f] = Re!Unregistered /\ sock[f] = Re!Closed
  BY Zenon DEF Re!Init
<1>3. \A i \in Re!Slots : ev[i] \in Entry /\ ev[i].status = 0
  BY Zenon DEF Re!Init, Entry, Events, Re!NoFd
<1>4. ReTypes
  <2>1. checkpos \in Nat
    BY Zenon DEF Re!Init
  <2> QED BY ZenonT(60), <1>1, <1>2, <1>3, <2>1 DEF Re!Init, ReTypes
<1>5. InUse /\ Known
  <2>1. 0 # 1
    OBVIOUS
  <2> QED BY Zenon, <1>1, <1>2, <1>3, <2>1 DEF InUse, Known
<1>6. Fresh
  <2>1. Re!Listening # Re!NoEvent
    BY Zenon DEF ReConstants, Re!Listening, Re!NoEvent, Re!NoSlot
  <2> QED BY Zenon, <2>1 DEF Re!Init, Fresh, Waiting
<1> QED BY ZenonT(60), <1>1, <1>2, <1>4, <1>5, <1>6 DEF ReInv, Echoed, Returned

LEMMA ReStep == ASSUME ReConstants, ReInv, [Re!Next]_(Re!vars) PROVE ReInv'
<1>1. CASE UNCHANGED <<ev, checkpos, pc, batch, cur, reg, sock>>
  BY ZenonT(60), <1>1 DEF ReInv, ReTypes, InUse, Known, Fresh, Waiting
<1>2. CASE Re!Connect \/ UNCHANGED Re!vars
  BY Zenon, <1>1, <1>2 DEF Re!Connect, Re!vars
<1>3. CASE Re!Loop
  BY Zenon, <1>3, ReScan, ReWait, ReAccept, ReTake, ReDispatch, ReEnd, ReEndBatch
     DEF Re!Loop
<1> QED BY Zenon, <1>2, <1>3, ReTick, ReClient DEF Re!Next

-----------------------------------------------------------------------------
(* What comes back is what went in.  A step that closes a socket or leaves *)
(* its buffer alone keeps this.                                            *)
LEMMA ReSame ==
  ASSUME Echoed, NEW f \in Fds,
         \/ reg'[f].slot = -1 /\ sock'[f] = Re!Closed
         \/ /\ reg'[f].slot = reg[f].slot /\ sock'[f].received = sock[f].received
            /\ sock'[f].sent = sock[f].sent /\ sock'[f].short = sock[f].short
            /\ reg[f].slot # -1 =>
                 LET i == reg[f].slot
                 IN  /\ ev'[i].call_back = ev[i].call_back
                     /\ ev'[i].from = ev[i].from /\ ev'[i].len = ev[i].len
  PROVE  Returned(reg'[f].slot, sock'[f], ev'[reg'[f].slot])
<1>1. Re!Closed.received = 0 /\ Re!Closed.sent = <<>> /\ Re!Closed.short = FALSE
  BY Zenon DEF Re!Closed
<1> QED BY ZenonT(60), <1>1 DEF Echoed, Returned

(* The next n numbers behind the first m.                                  *)
LEMMA UptoSum ==
  ASSUME NEW m \in Nat, NEW n \in Nat
  PROVE  Upto(m) \o [k \in 1..n |-> m + k] = Upto(m + n)
<1> DEFINE s == [k \in 1..n |-> m + k]
<1>1. Upto(m) \in Seq(Nat) /\ Len(Upto(m)) = m /\ s \in Seq(Nat) /\ Len(s) = n
  BY DEF Upto
<1>2. Upto(m + n) \in Seq(Nat) /\ Len(Upto(m + n)) = m + n
  BY DEF Upto
<1>3. Upto(m) \o s \in Seq(Nat) /\ Len(Upto(m) \o s) = m + n
  BY <1>1
<1>4. \A k \in 1..(m + n) : (Upto(m) \o s)[k] = Upto(m + n)[k]
  BY <1>1 DEF Upto
<1> HIDE DEF s
<1> QED BY Zenon, <1>2, <1>3, <1>4, SeqEqual DEF s

(* Callbacks, acceptconn and every other step keep what has come back.     *)
LEMMA ReEchoDispatch == ASSUME ReConstants, ReInv, Echoed, Re!dispatch PROVE Echoed'
<1>1. PICK i \in Re!Slots, f \in Fds, S \in Triple :
           /\ i = cur.slot /\ f = ev[i].fd /\ ev[i].status = 1 /\ cur \in Waiting
           /\ Re!Becomes(i, f, S)
           /\ \/ S = Re!State(i, f)
              \/ ev[i].call_back = "recvdata" /\ S \in Re!recvdata(Re!State(i, f), i)
              \/ ev[i].call_back = "senddata" /\ S \in Re!senddata(Re!State(i, f), i)
  BY Zenon, ReDispatched
<1>2. /\ ev'[i] = S.ev /\ \A j \in Re!Slots \ {i} : ev'[j] = ev[j]
      /\ reg'[f] = S.reg /\ sock'[f] = S.sock
      /\ \A g \in Fds \ {f} : reg'[g] = reg[g] /\ sock'[g] = sock[g]
  BY Zenon, <1>1 DEF Re!Becomes, ReInv, ReTypes
<1>3. reg[f].slot = i /\ i # -1
  <2>1. reg[f] = [slot |-> i, events |-> ev[i].events]
    BY Zenon, <1>1 DEF ReInv, InUse
  <2> QED BY <2>1 DEF Re!Slots, ReConstants
<1>4. ASSUME NEW g \in Fds \ {f}
      PROVE  Returned(reg'[g].slot, sock'[g], ev'[reg'[g].slot])
  <2>1. reg[g].slot # -1 => reg[g].slot \in Re!Slots \ {i}
    BY ZenonT(60), <1>1, <1>4 DEF ReInv, Known, ReTypes, Registration
  <2> QED BY ZenonT(60), <1>2, <1>4, <2>1, ReSame
<1>5. Returned(i, sock[f], ev[i]) /\ ev[i].from \in Nat /\ ev[i].len \in Nat
  BY Zenon, <1>1, <1>3 DEF Echoed, ReInv, ReTypes, Entry
<1>6. Returned(reg'[f].slot, sock'[f], ev'[reg'[f].slot])
  <2>1. CASE S = Re!State(i, f)
    BY Zenon, <1>2, <1>3, <2>1, ReSame DEF Re!State
  <2>2. CASE Freed(S)
    BY Zenon, <1>2, <2>2, ReSame DEF Freed
  <2>3. CASE /\ ev[i].call_back = "recvdata" /\ Turned(S, i, f, "senddata", "OUT")
             /\ S.ev.from = sock[f].received /\ S.sock.received = sock[f].received + S.ev.len
             /\ S.sock.sent = sock[f].sent /\ S.sock.short = sock[f].short
    <3>1. S.ev.call_back = "senddata" /\ S.reg.slot = i
      BY Zenon, <2>3 DEF Turned
    <3>2. ~S.sock.short =>
            S.sock.sent = Upto(S.ev.from) /\ S.sock.received = S.ev.from + S.ev.len
      BY Zenon, <1>3, <1>5, <2>3 DEF Returned
    <3>3. "recvdata" # "senddata"
      BY Zenon
    <3> QED BY ZenonT(60), <1>2, <1>3, <3>1, <3>2, <3>3 DEF Returned
  <2>4. CASE /\ ev[i].call_back = "senddata" /\ Turned(S, i, f, "recvdata", "IN")
             /\ SentBack(S, i, f)
    <3>1. ASSUME ~S.sock.short PROVE S.sock.sent = Upto(S.sock.received)
      <4>1. PICK n \in 1..ev[i].len :
                  /\ S.sock.sent = sock[f].sent \o [k \in 1..n |-> ev[i].from + k]
                  /\ S.sock.short = (sock[f].short \/ n < ev[i].len)
        BY Zenon, <2>4 DEF SentBack
      <4>2. ~sock[f].short /\ ~(n < ev[i].len)
        BY Zenon, <3>1, <4>1
      <4>3. n = ev[i].len
        BY <1>5, <4>2
      <4>4. sock[f].sent = Upto(ev[i].from) /\ S.sock.received = ev[i].from + ev[i].len
        BY Zenon, <1>3, <1>5, <2>4, <4>2 DEF Returned, SentBack
      <4> QED BY Zenon, <1>5, <4>1, <4>3, <4>4, UptoSum
    <3>2. S.ev.call_back = "recvdata" /\ S.reg.slot = i
      BY Zenon, <2>4 DEF Turned
    <3>3. "recvdata" # "senddata"
      BY Zenon
    <3> QED BY ZenonT(60), <1>2, <1>3, <3>1, <3>2, <3>3 DEF Returned
  <2>5. CASE ev[i].call_back = "recvdata" /\ S \in Re!recvdata(Re!State(i, f), i)
    BY ZenonT(60), <1>1, <2>2, <2>3, <2>5, ReRecv
  <2>6. CASE ev[i].call_back = "senddata" /\ S \in Re!senddata(Re!State(i, f), i)
    BY Zenon, <1>1, <2>2, <2>4, <2>6, ReSend
  <2> QED BY Zenon, <1>1, <2>1, <2>5, <2>6
<1> QED BY Zenon, <1>4, <1>6 DEF Echoed

LEMMA ReEchoAccept == ASSUME ReConstants, ReInv, Echoed, Re!acceptconn PROVE Echoed'
<1>1. CASE UNCHANGED <<ev, reg, sock>>
  BY Zenon, <1>1 DEF Echoed
<1>2. ASSUME NEW f \in Fds, NEW s \in Socket, ~sock[f].open, s.received = 0, s.sent = <<>>,
             ~s.short, sock' = [sock EXCEPT ![f] = s], UNCHANGED <<ev, reg>>
      PROVE  Echoed'
  <2>1. sock'[f] = s /\ \A g \in Fds \ {f} : sock'[g] = sock[g]
    BY Zenon, <1>2 DEF ReInv, ReTypes
  <2>2. reg[f].slot = -1
    BY Zenon, <1>2, ReFree
  <2> QED BY ZenonT(60), <1>2, <2>1, <2>2 DEF Echoed, Returned
<1>3. ASSUME NEW f \in Fds, NEW s \in Socket, ~sock[f].open, s.received = 0, s.sent = <<>>,
             ~s.short, NEW i \in Re!Slots, NEW S \in Triple,
             ev[i].status = 0, Re!Becomes(i, f, S), Good(S, i, f),
             S.sock = s, S.ev.call_back = "recvdata"
      PROVE  Echoed'
  <2>1. /\ ev'[i] = S.ev /\ \A j \in Re!Slots \ {i} : ev'[j] = ev[j]
        /\ reg'[f].slot = i /\ sock'[f] = s
        /\ \A g \in Fds \ {f} : reg'[g] = reg[g] /\ sock'[g] = sock[g]
    BY Zenon, <1>3 DEF Re!Becomes, ReInv, ReTypes, Good
  <2>2. ASSUME NEW g \in Fds \ {f}
        PROVE  Returned(reg'[g].slot, sock'[g], ev'[reg'[g].slot])
    <3>1. 0 # 1
      OBVIOUS
    <3>2. reg[g].slot # -1 => reg[g].slot \in Re!Slots \ {i}
      BY ZenonT(60), <1>3, <3>1 DEF ReInv, Known, ReTypes, Registration
    <3> QED BY Zenon, <2>1, <2>2, <3>2, ReSame
  <2>3. Returned(reg'[f].slot, sock'[f], ev'[reg'[f].slot])
    <3>1. Upto(0) = <<>> /\ i # -1 /\ "recvdata" # "senddata"
      BY DEF Upto, Re!Slots, ReConstants
    <3> QED BY Zenon, <1>3, <2>1, <3>1 DEF Returned
  <2> QED BY Zenon, <2>2, <2>3 DEF Echoed
<1> QED BY ZenonT(60), <1>1, <1>2, <1>3, ReAccepted

LEMMA ReEchoStep ==
  ASSUME ReConstants, ReInv, Echoed, [Re!Next]_(Re!vars)
  PROVE  Echoed'
<1>1. CASE UNCHANGED <<ev, reg, sock>>
  BY Zenon, <1>1 DEF Echoed
<1>2. \A f \in Fds : reg[f].slot # -1 => reg[f].slot \in Re!Slots
  BY Zenon DEF ReInv, ReTypes, Registration
<1>3. CASE Re!Tick
  BY Zenon, <1>2, <1>3, ReTick, ReSame DEF Echoed
<1>4. CASE \E f \in Fds : Re!Client(f) \/ Re!Refuse(f) \/ Re!ClientReads(f)
  BY Zenon, <1>4, ReClient, ReSame DEF Echoed
<1>5. CASE Re!scan
  BY Zenon, <1>5, ReScan, ReSame DEF Echoed
<1>6. CASE Re!epoll_wait \/ Re!take \/ Re!endBatch \/ Re!Connect \/ UNCHANGED Re!vars
  BY Zenon, <1>1, <1>6 DEF Re!epoll_wait, Re!take, Re!endBatch, Re!Connect, Re!vars
<1>7. CASE Re!epoll_wait_fails \/ Re!killed
  BY Zenon, <1>1, <1>7, ReEnd
<1> QED BY Zenon, <1>3, <1>4, <1>5, <1>6, <1>7, ReEchoDispatch, ReEchoAccept
        DEF Re!Next, Re!Loop

(* Both parts of the invariant hold at any time.                           *)
LEMMA ReInvariant == Re!Spec => [](ReInv /\ Echoed)
<1>1. ReConstants /\ Re!Init => ReInv /\ Echoed
  BY Zenon, ReStart
<1>2. ReConstants /\ ReInv /\ Echoed /\ [Re!Next]_(Re!vars) => ReInv' /\ Echoed'
  BY Zenon, ReStep, ReEchoStep
<1> QED BY <1>1, <1>2, ReAssumption, PTL DEF Re!Spec

(* A slot in use is registered with the event of its callback, a           *)
(* registration leads to its slot, and every connection but those accepted *)
(* at the limit has one, after any callbacks, timeouts and accepts         *)
(* (Reactor.c: eventadd, eventdel, acceptconn and the scan of main).       *)
THEOREM ReactorTable == Re!Spec => []ReTableAgrees
<1>1. ReInv => ReTableAgrees
  <2> SUFFICES ASSUME ReInv PROVE ReTableAgrees
    BY Zenon
  <2>1. "recvdata" # "senddata"
    BY Zenon
  <2>2. \A f \in Fds : sock[f].open /\ ~sock[f].leaked => reg[f].slot # -1
    BY Zenon DEF ReInv, Known
  <2>3. \A f \in Fds : reg[f].slot # -1 =>
          reg[f].slot \in Re!Slots /\ ev[reg[f].slot].status = 1 /\ ev[reg[f].slot].fd = f
    BY Zenon DEF ReInv, Known, ReTypes, Registration
  <2> QED BY Zenon, <2>1, <2>2, <2>3 DEF ReTableAgrees, Re!TableAgrees, ReInv, InUse
<1> QED BY <1>1, ReInvariant, PTL

(* While main goes through a batch, none of its events is about a slot     *)
(* that an earlier one freed or gave away, or asks for what its slot no    *)
(* longer waits for.                                                       *)
THEOREM ReactorEvents == Re!Spec => []ReEventsFresh
<1>1. ReInv => ReEventsFresh
  BY Zenon DEF ReInv, Fresh, Waiting, ReEventsFresh, Re!EventsFresh
<1> QED BY <1>1, ReInvariant, PTL

(* recvdata and senddata send a client what was received from it, in order *)
(* and without gaps, unless a send was short.                              *)
THEOREM ReactorEchoes == Re!Spec => []ReEcho
<1>1. ReInv /\ Echoed => ReEcho
  <2> SUFFICES ASSUME ReInv, Echoed, NEW f \in Fds, ~sock[f].short
               PROVE  sock[f].sent \o Re!Buffered(f) = Upto(sock[f].received)
    BY Zenon DEF ReEcho, Re!Echo, Upto
  <2> DEFINE i == reg[f].slot
  <2>1. Returned(i, sock[f], ev[i]) /\ sock[f].sent \in Seq(Nat)
    BY Zenon DEF Echoed, ReInv, ReTypes, Socket
  <2>2. Upto(0) = <<>> /\ sock[f].sent \o <<>> = sock[f].sent
    BY <2>1 DEF Upto
  <2>3. CASE i = -1
    <3>1. Re!Buffered(f) = <<>>
      BY Zenon, <2>3 DEF Re!Buffered, Re!NoSlot
    <3> QED BY Zenon, <2>1, <2>2, <2>3, <3>1 DEF Returned
  <2>4. CASE i # -1 /\ ev[i].call_back = "recvdata"
    <3>1. "recvdata" # "senddata"
      BY Zenon
    <3>2. Re!Buffered(f) = <<>>
      BY Zenon, <2>4, <3>1 DEF Re!Buffered, Re!NoSlot
    <3> QED BY Zenon, <2>1, <2>2, <2>4, <3>2 DEF Returned
  <2>5. CASE i # -1 /\ ev[i].call_back = "senddata"
    <3>1. Re!Buffered(f) = [k \in 1..ev[i].len |-> ev[i].from + k]
      BY Zenon, <2>5 DEF Re!Buffered, Re!NoSlot
    <3>2. sock[f].sent = Upto(ev[i].from) /\ sock[f].received = ev[i].from + ev[i].len
      BY Zenon, <2>1, <2>5 DEF Returned
    <3>3. ev[i].from \in Nat /\ ev[i].len \in Nat
      BY Zenon, <2>5 DEF ReInv, ReTypes, Registration, Entry
    <3> QED BY ZenonT(60), <3>1, <3>2, <3>3, UptoSum
  <2>6. i # -1 => i \in Re!Slots /\ ev[i].status = 1
    BY ZenonT(60) DEF ReInv, ReTypes, Known, Registration
  <2>7. i # -1 => ev[i].call_back \in {"recvdata", "senddata"}
    BY Zenon, <2>6 DEF ReInv, InUse
  <2> HIDE DEF i
  <2> QED BY Zenon, <2>3, <2>4, <2>5, <2>7
<1> QED BY <1>1, ReInvariant, PTL
=============================================================================
