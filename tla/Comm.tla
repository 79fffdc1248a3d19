-------------------------------- MODULE Comm --------------------------------
(***************************************************************************)
(* The single-threaded event framework of epoll_framework (comm.c,         *)
(* comm_epoll.c) with the echo server of main.c on top of it.              *)
(*                                                                         *)
(* A turn of main's loop is one comm_select: check the timeouts, wait in   *)
(* epoll, call the handlers of every reported descriptor.  Peers connect,  *)
(* send, close and reset between any two steps.  A descriptor number is    *)
(* reused by later connections; the ConnectStat of a connection is named   *)
(* after the connection.  Time counts whole seconds and passes only while  *)
(* the server waits.                                                       *)
(***************************************************************************)
EXTENDS Integers, FiniteSets

CONSTANTS
  Conns,            \* the connections peers make, numbered in order
  Fds,              \* descriptors accept may return
  EchoTimeout,      \* 10 in the code
  WelcomeTimeout,   \* 30 in the code
  Start, MaxTime,   \* the clock when the server starts, and a bound on it
  MaxSends,         \* bound: messages of each peer
  MaxCuts,          \* bound: writes that send only part of the data
  MaxEvents,        \* MAX_EVENTS
  None

ASSUME CommAssumption ==
  /\ Conns \subseteq Nat /\ Fds \subseteq Nat \ {0} /\ IsFiniteSet(Fds)
  /\ None \notin Conns
  /\ None \notin {"echo", "welcome", "response", "timeout", "msg", "quit"}
  /\ {EchoTimeout, WelcomeTimeout, Start, MaxTime} \subseteq Nat
  /\ MaxEvents \in Nat \ {0}
  /\ 0 < EchoTimeout /\ EchoTimeout < WelcomeTimeout /\ WelcomeTimeout < Start

VARIABLES
  fd_table,       \* handlers, their data and the timeout of a descriptor
  epoll_state,    \* the events the program believes to be registered
  epoll_fds,      \* how many descriptors it believes to be registered
  registered,     \* the events the kernel has registered
  open,           \* the connection a descriptor stands for, or None
  sock,           \* the kernel's side of a connection
  frees,          \* how often the ConnectStat of a connection was freed
  pc,             \* "top", "check", "wait", "handle" or, the process ended, "dead"
  batch,          \* events returned by epoll_wait and not yet handled
  at,             \* the event whose write handler is due, or None
  now,            \* the clock
  waited,         \* seconds passed in this epoll_wait
  sys_curtime,    \* the cached clock
  last_timeout,   \* when the timeouts were last checked
  sends, cuts,
  active,         \* when a descriptor last served its peer; 0: clock not yet read
  owed            \* requests of a connection read and not yet answered

table == <<fd_table, epoll_state, epoll_fds, registered, open, frees>>
clocks == <<now, waited, sys_curtime, last_timeout>>
vars == <<table, sock, clocks, pc, batch, at, sends, cuts, active, owed>>

Listener == 0
Lowest(S) == {n \in S : \A m \in S : n <= m}
NoEntry == [read |-> None, readData |-> None, write |-> None, writeData |-> None,
            onTimeout |-> None, timeoutData |-> None, timeout |-> 0]

-----------------------------------------------------------------------------
(* The framework's functions.                                              *)

(* epollSetEvents: epoll_state decides between ADD, MOD and DEL, and is    *)
(* updated whether or not epoll_ctl succeeds.                              *)
Known(fd) == epoll_state[fd] # {}
epoll_ctl(fd, want) ==   \* what is registered afterwards
  CASE want = {} -> {}
    [] want # {} /\ Known(fd) -> IF registered[fd] = {} THEN {} ELSE want
    [] want # {} /\ ~Known(fd) -> IF registered[fd] = {} THEN want ELSE registered[fd]

epollSetEvents(fd, want) ==
  IF want = epoll_state[fd]
  THEN UNCHANGED <<epoll_state, registered, epoll_fds>>
  ELSE /\ epoll_state' = [epoll_state EXCEPT ![fd] = want]
       /\ registered' = [registered EXCEPT ![fd] = epoll_ctl(fd, want)]
       /\ epoll_fds' = epoll_fds + (IF want = {} THEN -1 ELSE IF Known(fd) THEN 0 ELSE 1)

(* commSetTimeout counts from the cached clock.                            *)
Deadline(delay) == sys_curtime + delay

commSetTimeout(F, delay, c) ==
  [F EXCEPT !.onTimeout = "timeout", !.timeoutData = c, !.timeout = Deadline(delay)]
ReadHandler(F, h, c) == [F EXCEPT !.read = h, !.readData = c]
WriteHandler(F, h, c) == [F EXCEPT !.write = h, !.writeData = c]

(* comm_close and the free() of its callers: the entry is cleared, the     *)
(* descriptor leaves epoll and its number is free again.                   *)
Cleared_KeepsHandlers(F) == [F EXCEPT !.timeout = 0]
Cleared(F) == NoEntry

CloseState_Kept(fd) == epoll_state
CloseState(fd) == [epoll_state EXCEPT ![fd] = {}]

comm_close(fd) ==
  /\ fd_table' = [fd_table EXCEPT ![fd] = Cleared(@)]
  /\ epoll_state' = CloseState(fd)
  /\ epoll_fds' = epoll_fds - (IF Known(fd) THEN 1 ELSE 0)
  /\ registered' = [registered EXCEPT ![fd] = {}]
  /\ open' = [open EXCEPT ![fd] = None]
  /\ active' = [active EXCEPT ![fd] = 0]

free(c) == frees' = [frees EXCEPT ![c] = @ + 1]

-----------------------------------------------------------------------------
(* The kernel's side of the connection at fd.                              *)
Peer(fd) == sock[open[fd]]
Gone(fd) == open[fd] = None

ReadResult(fd) ==
  CASE Gone(fd) -> "error"
    [] ~Gone(fd) /\ Peer(fd).unread # None -> Peer(fd).unread
    [] ~Gone(fd) /\ Peer(fd).unread = None /\ Peer(fd).err -> "error"
    [] ~Gone(fd) /\ Peer(fd).unread = None /\ ~Peer(fd).err ->
         IF Peer(fd).st \in {"fin", "rst"} THEN "eof" ELSE "error"

(* A reset is reported once; after that a write raises SIGPIPE, which the  *)
(* program does not handle.                                                *)
WriteResults(fd) ==
  CASE Gone(fd) -> {"error"}
    [] ~Gone(fd) /\ Peer(fd).st = "rst" -> IF Peer(fd).err THEN {"error"} ELSE {"sigpipe"}
    [] ~Gone(fd) /\ Peer(fd).st # "rst" -> {"all"} \cup (IF cuts < MaxCuts THEN {"part"} ELSE {})

AfterRead(fd) ==
  IF Gone(fd) THEN sock
  ELSE IF Peer(fd).unread # None THEN [sock EXCEPT ![open[fd]].unread = None]
  ELSE [sock EXCEPT ![open[fd]].err = FALSE]
AfterWrite(fd) == IF Gone(fd) THEN sock ELSE [sock EXCEPT ![open[fd]].err = FALSE]
Shut(s, fd) == IF Gone(fd) THEN s
               ELSE [s EXCEPT ![open[fd]] = [st |-> "closed", unread |-> None, err |-> FALSE]]

(* What epoll_wait reports of fd, and of the listening socket.             *)
Events(fd) ==
  IF registered[fd] = {} THEN {}
  ELSE {e \in registered[fd] :
          e = "out" \/ Peer(fd).unread # None \/ Peer(fd).st \in {"fin", "rst"}}
       \cup (IF Peer(fd).st = "rst" THEN {"hup"} ELSE {})

Queued == {c \in Conns : sock[c].st = "queued"}
Ready ==
  {[fd |-> fd, ev |-> Events(fd), conn |-> open[fd]] :
     fd \in {f \in Fds : ~Gone(f) /\ Events(f) # {}}}
  \cup (IF Queued = {} THEN {} ELSE {[fd |-> Listener, ev |-> {"in"}, conn |-> None]})

Served(fd) == active' = [active EXCEPT ![fd] = IF sys_curtime = 0 THEN 0 ELSE now]
Stay == UNCHANGED <<table, active>>

-----------------------------------------------------------------------------
(* The handlers of main.c.  Each fixes table, sock, active, owed and pc.   *)
CloseAndFree(fd, c, s) ==
  /\ comm_close(fd) /\ free(c)
  /\ sock' = Shut(s, fd)

(* accept returns the lowest free descriptor; with none left it fails and  *)
(* the connection stays queued.                                            *)
accept_connection ==
  LET free_fds == {fd \in Fds : Gone(fd)}
  IN  IF free_fds = {} \/ Queued = {}
      THEN UNCHANGED <<table, sock, active, owed, pc>>
      ELSE \E fd \in Lowest(free_fds), c \in Lowest(Queued) :
             /\ sock' = [sock EXCEPT ![c].st = "open"]
             /\ open' = [open EXCEPT ![fd] = c]
             /\ fd_table' = [fd_table EXCEPT
                  ![fd] = commSetTimeout(WriteHandler(@, "welcome", c), WelcomeTimeout, c)]
             /\ epollSetEvents(fd, {"out"})
             /\ Served(fd)
             /\ UNCHANGED <<frees, owed, pc>>

(* A failed or short write is reported with the format string in place of  *)
(* the stream, which may end the process.                                  *)
do_welcome_handler(fd, c) ==
  \E r \in WriteResults(fd) :
    /\ sock' = AfterWrite(fd)
    /\ cuts' = IF r = "part" THEN cuts + 1 ELSE cuts
    /\ CASE r = "all" ->
              /\ fd_table' = [fd_table EXCEPT
                   ![fd] = commSetTimeout(ReadHandler(@, "echo", c), EchoTimeout, c)]
              /\ epollSetEvents(fd, {"in"})
              /\ Served(fd) /\ UNCHANGED <<open, frees, owed, pc>>
         [] r = "sigpipe" -> pc' = "dead" /\ Stay /\ UNCHANGED owed
         [] r \in {"part", "error"} -> pc' \in {pc, "dead"} /\ Stay /\ UNCHANGED owed

do_echo_handler(fd, c) ==
  LET r == ReadResult(fd)
  IN  CASE r = "msg" ->
             /\ fd_table' = [fd_table EXCEPT
                  ![fd] = commSetTimeout(WriteHandler(@, "response", c), EchoTimeout, c)]
             /\ epollSetEvents(fd, {"out"})
             /\ sock' = AfterRead(fd)
             /\ owed' = [owed EXCEPT ![c] = @ + 1]
             /\ Served(fd) /\ UNCHANGED <<open, frees, pc>>
        [] r \in {"quit", "eof"} ->
             CloseAndFree(fd, c, AfterRead(fd)) /\ UNCHANGED <<owed, pc>>
        [] r = "error" -> sock' = AfterRead(fd) /\ Stay /\ UNCHANGED <<owed, pc>>

(* The reply is sent once and reading resumes, also when only part of the  *)
(* reply went out.  write never returns 0 here: the reply is not empty.  A *)
(* failed write is reported with an int for a string, which may end the    *)
(* process.                                                                *)
AfterReply_KeepsWriting(fd) == {"out"}
AfterReply(fd) == {"in"}

Renewed_Not(F, c) == F
Renewed(F, c) == commSetTimeout(F, EchoTimeout, c)

do_echo_response(fd, c) ==
  \E r \in WriteResults(fd) :
    /\ sock' = AfterWrite(fd)
    /\ cuts' = IF r = "part" THEN cuts + 1 ELSE cuts
    /\ CASE r \in {"all", "part"} ->
              /\ fd_table' = [fd_table EXCEPT ![fd] = ReadHandler(Renewed(@, c), "echo", c)]
              /\ epollSetEvents(fd, AfterReply(fd))
              /\ owed' = [owed EXCEPT ![c] = @ - 1]
              /\ Served(fd) /\ UNCHANGED <<open, frees, pc>>
         [] r = "error" -> pc' \in {pc, "dead"} /\ Stay /\ UNCHANGED owed
         [] r = "sigpipe" -> pc' = "dead" /\ Stay /\ UNCHANGED owed

-----------------------------------------------------------------------------
(* comm_select.  The timeouts are checked when 0.999 s have passed since   *)
(* the last check: two seconds of the clock for sure, one perhaps.         *)
Due == IF sys_curtime > last_timeout + 1 THEN {TRUE}
       ELSE IF sys_curtime = last_timeout + 1 THEN {TRUE, FALSE} ELSE {FALSE}

BeginSelect ==
  /\ pc = "top"
  /\ \E due \in Due :
       /\ pc' = IF due THEN "check" ELSE "wait"
       /\ last_timeout' = IF due THEN sys_curtime ELSE last_timeout
  /\ UNCHANGED <<table, sock, batch, at, now, waited, sys_curtime, sends,
                 cuts, active, owed>>

Expired_AfterDeadline(fd) == fd_table[fd].timeout # 0 /\ fd_table[fd].timeout + 1 < sys_curtime
Expired(fd) == fd_table[fd].timeout # 0 /\ fd_table[fd].timeout <= sys_curtime

(* One descriptor of checkTimeouts' loop, or its end.  The loop looks one  *)
(* entry past the table, where no timer is set: the table of 102400        *)
(* entries fills whole pages, and what calloc maps beyond them is zero.    *)
checkTimeouts ==
  /\ pc = "check"
  /\ LET late == {fd \in Fds : Expired(fd)}
     IN  IF late = {}
         THEN pc' = "wait" /\ UNCHANGED <<table, sock, active>>
         ELSE \E fd \in Lowest(late) :
                IF fd_table[fd].onTimeout = "timeout"
                THEN CloseAndFree(fd, fd_table[fd].timeoutData, sock) /\ UNCHANGED pc
                ELSE comm_close(fd) /\ sock' = Shut(sock, fd) /\ UNCHANGED <<frees, pc>>
  /\ UNCHANGED <<batch, at, clocks, sends, cuts, owed>>

(* do_epoll_select: up to MaxEvents events or, with none ready, a timeout  *)
(* or EINTR.  The clock is read at the end of comm_select.                 *)
getCurrentTime == now

EndSelect ==
  /\ pc' = "top"
  /\ sys_curtime' = getCurrentTime
  /\ waited' = 0
  /\ UNCHANGED <<table, sock, batch, at, now, last_timeout, sends, cuts, active, owed>>

AfterWait_Timeouts == {"handle", "check"}
AfterWait == {"handle"}

Batches ==
  {b \in SUBSET Ready : Cardinality(b) <= MaxEvents /\ (Cardinality(b) < MaxEvents => b = Ready)}

EpollReturns ==
  /\ pc = "wait" /\ Ready # {}
  /\ batch' \in Batches /\ pc' \in AfterWait
  /\ UNCHANGED <<table, sock, at, clocks, sends, cuts, active, owed>>

EpollTimesOut ==
  /\ pc = "wait" /\ Ready = {}
  /\ EndSelect

(* comm_call_handlers for one event, the read handler first.  An error or  *)
(* hang-up counts as readable and as writable.                             *)
CallRead(e) ==
  /\ pc = "handle" /\ at = None /\ e \in batch
  /\ batch' = batch \ {e}
  /\ IF e.fd = Listener
     THEN accept_connection /\ UNCHANGED at
     ELSE /\ at' = e
          /\ IF fd_table[e.fd].read = "echo" /\ e.ev \ {"out"} # {}
             THEN do_echo_handler(e.fd, fd_table[e.fd].readData)
             ELSE UNCHANGED <<table, sock, active, owed, pc>>
  /\ UNCHANGED <<clocks, sends, cuts>>

CallWrite ==
  /\ pc = "handle" /\ at # None
  /\ at' = None
  /\ LET F == fd_table[at.fd]
         due == at.ev \ {"in"} # {}
     IN  CASE due /\ F.write = "welcome" -> do_welcome_handler(at.fd, F.writeData)
           [] due /\ F.write = "response" -> do_echo_response(at.fd, F.writeData)
           [] ~due \/ F.write = None -> UNCHANGED <<table, sock, active, owed, pc, cuts>>
  /\ UNCHANGED <<batch, clocks, sends>>

EndHandlers ==
  /\ pc = "handle" /\ batch = {} /\ at = None
  /\ EndSelect

-----------------------------------------------------------------------------
(* The peers and the clock.  Peers act while the server waits or runs      *)
(* handlers; its other steps do not look at the sockets.                   *)
PeerStep ==
  pc \in {"wait", "handle"} /\ UNCHANGED <<table, clocks, pc, batch, at, cuts, active, owed>>

Connect ==
  /\ \E c \in Conns :
       /\ sock[c].st = "idle" /\ \A d \in Conns : d < c => sock[d].st # "idle"
       /\ sock' = [sock EXCEPT ![c].st = "queued"]
  /\ UNCHANGED sends /\ PeerStep

Send(c, m) ==
  /\ sock[c].st = "open" /\ sends[c] < MaxSends[c]
  /\ sends' = [sends EXCEPT ![c] = @ + 1]
  /\ sock' = [sock EXCEPT ![c].unread = IF @ = None THEN m ELSE @]
  /\ PeerStep

Finish(c) ==
  /\ sock[c].st = "open"
  /\ sock' = [sock EXCEPT ![c].st = "fin"]
  /\ UNCHANGED sends /\ PeerStep

Reset(c) ==
  /\ sock[c].st \in {"open", "fin"}
  /\ sock' = [sock EXCEPT ![c].st = "rst", ![c].err = TRUE]
  /\ UNCHANGED sends /\ PeerStep

Tick ==
  /\ pc = "wait" /\ waited = 0 /\ now < MaxTime
  /\ now' = now + 1 /\ waited' = 1
  /\ UNCHANGED <<table, sock, pc, batch, at, sys_curtime, last_timeout, sends,
                 cuts, active, owed>>

-----------------------------------------------------------------------------
Init ==
  /\ fd_table = [fd \in Fds |-> NoEntry]
  /\ epoll_state = [fd \in Fds |-> {}] /\ registered = [fd \in Fds |-> {}]
  /\ epoll_fds = 1   \* the listening socket
  /\ open = [fd \in Fds |-> None]
  /\ sock = [c \in Conns |-> [st |-> "idle", unread |-> None, err |-> FALSE]]
  /\ frees = [c \in Conns |-> 0]
  /\ pc = "top" /\ batch = {} /\ at = None
  /\ now = Start /\ waited = 0 /\ sys_curtime = 0 /\ last_timeout = 0
  /\ sends = [c \in Conns |-> 0] /\ cuts = 0
  /\ active = [fd \in Fds |-> 0]
  /\ owed = [c \in Conns |-> 0]

Server ==
  \/ BeginSelect \/ checkTimeouts \/ EpollReturns \/ EpollTimesOut
  \/ (\E e \in batch : CallRead(e)) \/ CallWrite \/ EndHandlers

Environment ==
  \/ Connect \/ Tick
  \/ \E c \in Conns : Finish(c) \/ Reset(c) \/ \E m \in {"msg", "quit"} : Send(c, m)

Next == Server \/ Environment

Spec == Init /\ [][Next]_vars
FairSpec == Spec /\ WF_vars(Server)

-----------------------------------------------------------------------------
(* A descriptor's handlers hold the ConnectStat of the connection it       *)
(* stands for, which no other descriptor does, and a closed one has none;  *)
(* every ConnectStat is freed once, when its connection is closed,         *)
(* whichever handler or timeout closes it.                                 *)
StatsLive ==
  /\ \A fd \in Fds :
       IF Gone(fd) THEN fd_table[fd] = NoEntry
       ELSE /\ {fd_table[fd].readData, fd_table[fd].writeData} \subseteq {None, open[fd]}
            /\ fd_table[fd].timeoutData = open[fd]
            /\ \A gd \in Fds \ {fd} : open[gd] # open[fd]
  /\ \A c \in Conns : frees[c] = IF sock[c].st = "closed" THEN 1 ELSE 0

(* do_epoll_select goes through events that were reported together while   *)
(* handlers close and accept descriptors: an event still to be handled     *)
(* belongs to the connection that had the descriptor when it was reported. *)
NoStaleEvent == \A e \in batch : e.fd # Listener => open[e.fd] = e.conn

(* epoll_state and epoll_fds say what the kernel has registered, and every *)
(* open connection is registered.                                          *)
EpollInSync ==
  /\ registered = epoll_state
  /\ epoll_fds = 1 + Cardinality({fd \in Fds : registered[fd] # {}})
  /\ \A fd \in Fds : Gone(fd) <=> registered[fd] = {}

(* Every request that is read gets one reply, although the write handler   *)
(* stays installed for good: a connection waits to write while it owes a   *)
(* reply and to read otherwise.                                            *)
OneReplyPerRequest ==
  \A fd \in Fds : ~Gone(fd) =>
    /\ owed[open[fd]] >= 0
    /\ Peer(fd).st # "rst" =>
         owed[open[fd]] = IF registered[fd] = {"out"} /\ fd_table[fd].write = "response"
                          THEN 1 ELSE 0

(* The delay of the timer that is running for fd.                          *)
Delay(fd) == IF fd_table[fd].read = None THEN WelcomeTimeout ELSE EchoTimeout

(* The clock is cached and timeouts are checked about once a second: a     *)
(* silent connection is closed before the clock is two seconds late.       *)
ClosedInTime ==
  \A fd \in Fds : active[fd] # 0 => now <= active[fd] + Delay(fd) + 1

(* A timeout closes no connection that was served within its delay, but    *)
(* for the one second the cached clock may be behind.  Connections that    *)
(* were served before the clock was first read are not covered.            *)
NotClosedEarly ==
  [][\A fd \in Fds : pc = "check" /\ active[fd] # 0 /\ Gone(fd)' =>
                       now >= active[fd] + Delay(fd) - 1]_vars

(* Every request sent to an accepted connection is read and every request  *)
(* read is answered, unless the connection is closed or the process ends.  *)
Ended(c) == sock[c].st = "closed" \/ pc = "dead"
Pending(c) == sock[c].unread # None \/ owed[c] > 0
RequestsServed == \A c \in Conns : Pending(c) ~> ~Pending(c) \/ Ended(c)
=============================================================================
