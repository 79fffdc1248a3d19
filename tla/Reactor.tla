------------------------------- MODULE Reactor -------------------------------
(***************************************************************************)
(* The echo server of Reactor.c: one thread, a table of slots for          *)
(* connections, a scan that closes silent ones, and epoll_wait with a      *)
(* batch of events whose callbacks turn a connection from receiving to     *)
(* sending and back.  Descriptor numbers are used again once closed.       *)
(***************************************************************************)
EXTENDS Integers, Sequences

CONSTANTS
  MAX_EVENTS,   \* slots for connections
  ScanSize,     \* slots tested per turn of the loop (100)
  Timeout,      \* clock ticks of silence after which a connection is closed (60 s)
  BUFLEN,       \* size of a slot's buf
  ByteBase,     \* values of a byte: what a NUL written over len's low byte clears
  Fds,          \* descriptor numbers for connections
  MaxAccepts,   \* bound: connections made
  MaxIn,        \* bound: bytes each of them receives
  SendRoom      \* bytes the kernel buffers for sending

Slots == 0..MAX_EVENTS-1
NoFd == -1
NoSlot == -1

VARIABLES
  ev,        \* g_events: fd, events, call_back, status, from and len of buf, age
  checkpos,
  pc,        \* "scan", "wait", "batch" or, the process ended, "dead"
  batch,     \* reported events that are still to be looked at
  cur,       \* the one between its EPOLLIN and its EPOLLOUT test
  reg,       \* epoll: the slot and the events each descriptor is registered with
  sock,      \* kernel: see Closed
  backlog,   \* connections that wait to be accepted
  made       \* connections made

vars == <<ev, checkpos, pc, batch, cur, reg, sock, backlog, made>>

(* A descriptor's socket; sent is what the peer has been sent, and short   *)
(* says that a send has taken less than it was given.                      *)
Closed == [open |-> FALSE, pending |-> 0, room |-> SendRoom, link |-> "up", received |-> 0,
           sent |-> <<>>, short |-> FALSE, leaked |-> FALSE]
Unregistered == [slot |-> NoSlot, events |-> "none"]
NoEvent == [slot |-> NoSlot, flags |-> {}]

(* main up to the loop, initlistensocket included; the table is zeroed.    *)
Init ==
  /\ ev = [i \in Slots |-> [fd |-> NoFd, events |-> "none", call_back |-> "none", status |-> 0,
                            from |-> 0, len |-> 0, age |-> 0]]
  /\ checkpos = 0 /\ pc = "scan" /\ batch = {} /\ cur = NoEvent
  /\ reg = [f \in Fds |-> Unregistered]
  /\ sock = [f \in Fds |-> Closed]
  /\ backlog = 0 /\ made = 0

-----------------------------------------------------------------------------
(* Operations on S, a slot's entry with the registration and the socket of *)
(* its descriptor.  last_active is kept as the entry's age, which stops at *)
(* Timeout.                                                                *)
State(i, f) == [ev |-> ev[i], reg |-> reg[f], sock |-> sock[f]]
Becomes(i, f, S) ==
  ev' = [ev EXCEPT ![i] = S.ev] /\ reg' = [reg EXCEPT ![f] = S.reg]
    /\ sock' = [sock EXCEPT ![f] = S.sock]

eventset(S, f, callback) ==
  [S EXCEPT !.ev = [@ EXCEPT !.fd = f, !.call_back = callback, !.events = "none",
                             !.status = 0, !.age = 0]]

(* MOD of a descriptor that is not registered, and ADD of one that is, fail*)
eventadd(S, i, events) ==
  [S EXCEPT !.ev = [@ EXCEPT !.events = events, !.status = 1],
            !.reg = IF (@.slot # NoSlot) = (S.ev.status = 1)
                    THEN [slot |-> i, events |-> events] ELSE @]

eventdel_Skipped(S) == [S EXCEPT !.ev.status = 0]
eventdel(S) ==
  IF S.ev.status # 1 THEN S ELSE [S EXCEPT !.ev.status = 0, !.reg = Unregistered]

(* close takes the descriptor out of epoll as well.                        *)
close(S) == [S EXCEPT !.sock = Closed, !.reg = Unregistered]

-----------------------------------------------------------------------------
(* The loop's head: ScanSize slots from checkpos on, wrapping round.       *)
Silent(e) == e.status = 1 /\ e.age >= Timeout

NextPos_FromStart(n) == 0
NextPos(n) == (checkpos + n) % MAX_EVENTS
Scanned(n) == {(checkpos + k) % MAX_EVENTS : k \in 0..n-1}

scan ==
  LET gone == {i \in Scanned(ScanSize) : Silent(ev[i])}
      fds == {ev[i].fd : i \in gone}
  IN  /\ pc = "scan" /\ pc' = "wait"
      /\ ev' = [i \in Slots |-> IF i \in gone THEN [ev[i] EXCEPT !.status = 0] ELSE ev[i]]
      /\ reg' = [f \in Fds |-> IF f \in fds THEN Unregistered ELSE reg[f]]
      /\ sock' = [f \in Fds |-> IF f \in fds THEN Closed ELSE sock[f]]
      /\ checkpos' = NextPos(ScanSize)
      /\ UNCHANGED <<batch, cur, backlog, made>>

(* What epoll_wait reports of f: a reset makes both tests true, but only   *)
(* what is registered is passed on, with EPOLLERR and EPOLLHUP.            *)
Reported(f) ==
  LET s == sock[f]
  IN  IF reg[f].slot = NoSlot THEN {}
      ELSE {y \in {"IN", "OUT"} :
              /\ y = reg[f].events
              /\ \/ s.link = "reset"
                 \/ y = "IN" /\ (s.pending > 0 \/ s.link = "eof")
                 \/ y = "OUT" /\ s.room > 0}
           \cup IF s.link = "reset" THEN {"ERR"} ELSE {}

(* All events fit; without any the wait ends after a second.  A wait that  *)
(* fails, if only for a signal, ends the loop and the server.              *)
Listening == [slot |-> MAX_EVENTS, flags |-> {"IN"}]
epoll_wait ==
  /\ pc = "wait" /\ pc' = "batch"
  /\ batch' = {[slot |-> reg[f].slot, flags |-> Reported(f)] : f \in {g \in Fds : Reported(g) # {}}}
                \cup IF backlog > 0 THEN {Listening} ELSE {}
  /\ UNCHANGED <<ev, checkpos, cur, reg, sock, backlog, made>>

epoll_wait_fails ==
  /\ pc = "wait" /\ pc' = "dead"
  /\ UNCHANGED <<ev, checkpos, batch, cur, reg, sock, backlog, made>>

-----------------------------------------------------------------------------
(* acceptconn: a connection that finds no free slot, or cannot be made     *)
(* non-blocking, stays open without one.                                   *)
FreeSlots == {i \in Slots : ev[i].status = 0}
FreeFds == {f \in Fds : ~sock[f].open}
First(x, S) == x \in S /\ \A y \in S : x <= y

acceptconn ==
  /\ pc = "batch" /\ cur = NoEvent /\ Listening \in batch
  /\ batch' = batch \ {Listening}
  /\ \/ \E f \in Fds :
          LET new == [Closed EXCEPT !.open = TRUE]
              S(i) == [State(i, f) EXCEPT !.sock = new]
          IN  /\ First(f, FreeFds) /\ backlog' = backlog - 1
              /\ \/ \E i \in Slots :
                      /\ First(i, FreeSlots)
                      /\ Becomes(i, f, eventadd(eventset(S(i), f, "recvdata"), i, "IN"))
                 \/ /\ sock' = [sock EXCEPT ![f] = [new EXCEPT !.leaked = TRUE]]
                    /\ UNCHANGED <<ev, reg>>
     \/ FreeFds = {} /\ UNCHANGED <<ev, reg, sock, backlog>>
  /\ UNCHANGED <<checkpos, pc, cur, made>>

(* The next event of the batch; its EPOLLIN test is the next step.         *)
take ==
  /\ pc = "batch" /\ cur = NoEvent
  /\ \E e \in batch \ {Listening} : cur' = e /\ batch' = batch \ {e}
  /\ UNCHANGED <<ev, checkpos, pc, reg, sock, backlog, made>>

endBatch ==
  /\ pc = "batch" /\ cur = NoEvent /\ batch = {}
  /\ pc' = "scan"
  /\ UNCHANGED <<ev, checkpos, batch, cur, reg, sock, backlog, made>>

(* buf[len] = 0 after a full buffer is the low byte of len.                *)
AfterNul_Wide(n) == IF n = BUFLEN THEN n % ByteBase ELSE n
AfterNul(n) == IF n = BUFLEN THEN n - (n % ByteBase) ELSE n

(* What recvdata and senddata of slot i may do.  Data that came before a   *)
(* reset may still be read or is lost with it.                             *)
recvdata(S, i) ==
  LET s == S.sock
      S1 == eventdel(S)
      got(n) == [S1 EXCEPT !.ev = [S1.ev EXCEPT !.from = s.received, !.len = AfterNul(n)],
                           !.sock = [s EXCEPT !.pending = @ - n, !.received = @ + n]]
  IN  {eventadd(eventset(got(n), S.ev.fd, "senddata"), i, "OUT") :
         n \in {k \in 1..BUFLEN : k <= s.pending}}
        \cup IF s.pending = 0 \/ s.link = "reset" THEN {close(S1)} ELSE {}

senddata(S, i) ==
  LET s == S.sock
      e == S.ev
      S1 == eventdel(S)
      put(n) == [S1 EXCEPT !.sock = [s EXCEPT !.room = @ - n,
                                              !.sent = @ \o [k \in 1..n |-> e.from + k],
                                              !.short = @ \/ n < e.len]]
  IN  IF s.link # "reset" /\ s.room > 0 /\ e.len > 0
      THEN {eventadd(eventset(put(n), e.fd, "recvdata"), i, "IN") :
              n \in {k \in 1..e.len : k <= s.room}}
      ELSE {close(S1)}

call_back(S, i) ==
  IF S.ev.call_back = "recvdata" THEN recvdata(S, i) ELSE senddata(S, i)

(* Both tests of one event; ev->events is read again for the second.       *)
Tested(S, y) ==
  IF y \in cur.flags /\ S.ev.events = y THEN call_back(S, cur.slot) ELSE {S}

dispatch ==
  /\ cur # NoEvent /\ cur' = NoEvent
  /\ LET f == ev[cur.slot].fd
     IN  \E S1 \in Tested(State(cur.slot, f), "IN") : \E S2 \in Tested(S1, "OUT") :
           Becomes(cur.slot, f, S2)
  /\ UNCHANGED <<checkpos, pc, batch, backlog, made>>

(* A send after the client's reset may raise SIGPIPE, which nobody handles:*)
(* senddata does not return.                                               *)
Sends(i) == ev[i].events = "OUT" /\ ev[i].call_back = "senddata"

killed ==
  /\ cur # NoEvent /\ "OUT" \in cur.flags /\ Sends(cur.slot)
  /\ sock[ev[cur.slot].fd].link = "reset"
  /\ pc' = "dead" /\ batch' = {} /\ cur' = NoEvent
  /\ UNCHANGED <<ev, checkpos, reg, sock, backlog, made>>

-----------------------------------------------------------------------------
(* Time, and the clients, while the server lives.                          *)
Tick ==
  /\ pc # "dead"
  /\ ev' = [i \in Slots |-> IF ev[i].status = 1 /\ ev[i].age < Timeout
                             THEN [ev[i] EXCEPT !.age = @ + 1] ELSE ev[i]]
  /\ ev' # ev
  /\ UNCHANGED <<checkpos, pc, batch, cur, reg, sock, backlog, made>>

Connect ==
  /\ pc # "dead" /\ made < MaxAccepts
  /\ made' = made + 1 /\ backlog' = backlog + 1
  /\ UNCHANGED <<ev, checkpos, pc, batch, cur, reg, sock>>

Client(f) ==
  /\ pc # "dead" /\ sock[f].open /\ sock[f].link = "up"
  /\ \/ sock[f].pending + sock[f].received < MaxIn /\ sock' = [sock EXCEPT ![f].pending = @ + 1]
     \/ \E how \in {"eof", "reset"} : sock' = [sock EXCEPT ![f].link = how]
  /\ UNCHANGED <<ev, checkpos, pc, batch, cur, reg, backlog, made>>

(* What reaches a client that has closed its socket is answered by a reset.*)
Refuse(f) ==
  /\ pc # "dead" /\ sock[f].open /\ sock[f].link = "eof" /\ sock[f].sent # <<>>
  /\ sock' = [sock EXCEPT ![f].link = "reset"]
  /\ UNCHANGED <<ev, checkpos, pc, batch, cur, reg, backlog, made>>

ClientReads(f) ==
  /\ pc # "dead" /\ sock[f].open /\ sock[f].room < SendRoom
  /\ sock' = [sock EXCEPT ![f].room = SendRoom]
  /\ UNCHANGED <<ev, checkpos, pc, batch, cur, reg, backlog, made>>

Loop ==
  \/ scan \/ epoll_wait \/ epoll_wait_fails \/ acceptconn \/ take \/ dispatch
  \/ killed \/ endBatch

Next ==
  \/ Loop \/ Tick \/ Connect
  \/ \E f \in Fds : Client(f) \/ Refuse(f) \/ ClientReads(f)

Spec == Init /\ [][Next]_vars

(* The thread runs and time passes.                                        *)
FairSpec == Spec /\ WF_vars(Loop) /\ WF_vars(Tick)

-----------------------------------------------------------------------------
(* The table, epoll and the open descriptors agree, also when slots and    *)
(* numbers are used again: a slot in use has an open descriptor of its own,*)
(* registered with that slot and the events of its callback, and a         *)
(* descriptor is open only for such a slot, unless it was accepted at the  *)
(* limit (eventadd, eventdel, acceptconn, the timeout scan).               *)
TableAgrees ==
  /\ \A i \in Slots : ev[i].status = 1 =>
       /\ sock[ev[i].fd].open /\ ~sock[ev[i].fd].leaked
       /\ reg[ev[i].fd] = [slot |-> i, events |-> ev[i].events]
       /\ ev[i].events = IF ev[i].call_back = "recvdata" THEN "IN" ELSE "OUT"
  /\ \A f \in Fds : sock[f].open /\ ~sock[f].leaked =>
       \E i \in Slots : ev[i].status = 1 /\ ev[i].fd = f

(* An event of the batch is still about the connection it was reported for:*)
(* no callback runs for a slot that was freed or taken again meanwhile.    *)
EventsFresh ==
  \A e \in (batch \cup {cur}) \ {Listening, NoEvent} :
    /\ ev[e.slot].status = 1
    /\ e.flags \subseteq {ev[e.slot].events, "ERR"}

(* A client gets back what it sent, in order and without gaps, unless a    *)
(* send was short: senddata drops the rest of the buffer.                  *)
Buffered(f) ==
  LET i == reg[f].slot
  IN  IF i # NoSlot /\ ev[i].call_back = "senddata"
      THEN [k \in 1..ev[i].len |-> ev[i].from + k] ELSE <<>>
Echo ==
  \A f \in Fds : ~sock[f].short =>
    sock[f].sent \o Buffered(f) = [k \in 1..sock[f].received |-> k]

(* As long as the server lives, a silent connection is closed and pending  *)
(* data is received, however the scan's position and the batches fall.     *)
Waiting(f) == reg[f].slot # NoSlot /\ sock[f].pending > 0 /\ reg[f].events = "IN"
Attended ==
  /\ \A i \in Slots : []<>(pc = "dead" \/ ~Silent(ev[i]))
  /\ \A f \in Fds : []<>(pc = "dead" \/ ~Waiting(f))
=============================================================================
