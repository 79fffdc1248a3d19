----------------------------- MODULE TcpSocket -----------------------------
(***************************************************************************)
(* TcpSocket and TcpListenSocket on the event manager: start, write,       *)
(* disconnect, the destructor, onReceive, onCanSend and onAccept, run by   *)
(* one user thread and the manager's workers.  A socket's mutex is held    *)
(* over several steps; each recv, send and close is a step of its own.     *)
(* The manager (module EventManager) is here its handler table, its task   *)
(* list and the worker loop; descriptors are reused once closed.           *)
(***************************************************************************)
EXTENDS Integers, Sequences, FiniteSets, IOBuffer

CONSTANTS
  Sockets,          \* TcpSocket::Internal objects
  Fds,              \* descriptor numbers of data sockets
  Workers, User,    \* threads
  None,             \* no socket, no descriptor (-1), mutex free
  Listener,         \* the descriptor of the listening socket
  MaxSendSize,      \* _maxSendSize
  MaxReceiveSize,   \* _maxReceiveSize
  SendRoom,         \* bytes the kernel buffers for sending
  Payloads,         \* what write() may be given: sequences of block lengths
  MaxOut, MaxIn     \* bounds: bytes written and bytes sent by the peer

Threads == Workers \cup {User}
EventTypes == {"READ", "WRITE"}

ASSUME TcpAssumption ==
  /\ None \notin Sockets \cup Fds \cup Workers \cup {User, Listener}
  /\ None \notin EventTypes
  /\ User \notin Workers /\ Listener \notin Sockets \cup Fds
  /\ MaxSendSize \in Nat \ {0}

VARIABLES
  handle,      \* the TcpSocket that owns the Internal: see Handles
  fd,          \* _fd
  started,     \* _isStarted
  disconnectCallback,   \* is _disconnectCallback set
  recvBuffer, sendBuffer,
  mutex,       \* holder of _mutex
  fds,         \* EventManager::_fds: whose handler is called
  tasks,       \* EventManager::_tasks; a second equal task changes nothing
  listening,   \* does the listening socket have its descriptor
  at,          \* where each thread is
  pending,     \* kernel: bytes waiting to be received
  room,        \* kernel: free space of the send buffer
  link,        \* kernel: "up", "eof" or "reset" by the peer
  written, sent, received, consumed,   \* history of both streams
  told,        \* has the disconnect callback been called
  hushed       \* was the socket open when it was deleted

Handles == {"unborn", "backlog", "accepted", "held", "deleted"}
sockvars == <<handle, fd, started, disconnectCallback, recvBuffer, sendBuffer>>
kernel == <<pending, room, link>>
history == <<written, sent, received, consumed, told, hushed>>
vars == <<sockvars, mutex, fds, tasks, listening, at, kernel, history>>

Idle == [pc |-> "idle", s |-> None, ev |-> None, type |-> None]

Init ==
  /\ handle = [s \in Sockets |-> "unborn"]
  /\ fd = [s \in Sockets |-> None]
  /\ started = [s \in Sockets |-> FALSE]
  /\ disconnectCallback = [s \in Sockets |-> FALSE]
  /\ recvBuffer = [s \in Sockets |-> Empty] /\ sendBuffer = [s \in Sockets |-> Empty]
  /\ mutex = [s \in Sockets |-> None]
  /\ fds = [f \in Fds |-> [y \in EventTypes |-> None]]
  /\ tasks = {} /\ listening = TRUE
  /\ at = [t \in Threads |-> Idle]
  /\ pending = [s \in Sockets |-> 0] /\ room = [s \in Sockets |-> SendRoom]
  /\ link = [s \in Sockets |-> "up"]
  /\ written = [s \in Sockets |-> 0] /\ sent = [s \in Sockets |-> <<>>]
  /\ received = [s \in Sockets |-> 0] /\ consumed = [s \in Sockets |-> <<>>]
  /\ told = [s \in Sockets |-> FALSE] /\ hushed = [s \in Sockets |-> FALSE]

-----------------------------------------------------------------------------
(* Helpers.                                                                *)
Run(from, n) == [i \in 1..n |-> from + i]
OpenFds == {fd[s] : s \in Sockets} \ {None}
Unlocked(s, t) == mutex[s] \in {None, t}
Unlock(s) == mutex' = [mutex EXCEPT ![s] = None]
Goto(t, pc, s) == at' = [at EXCEPT ![t].pc = pc, ![t].s = s]

(* A call returns: a worker goes on with the event, or the tasks, it is at.*)
Return(t) ==
  at' = [at EXCEPT ![t] =
           IF t = User THEN Idle
           ELSE IF @.ev # None THEN [@ EXCEPT !.pc = "event", !.s = None]
           ELSE [Idle EXCEPT !.pc = "tasks"]]

watchFd(f, types, s) == [fds EXCEPT ![f] = [y \in EventTypes |->
                                              IF y \in types THEN s ELSE @[y]]]
removeFd(f, types) == watchFd(f, types, None)

-----------------------------------------------------------------------------
(* The user thread.  The socket's own methods run under its mutex.         *)
connect(s) ==
  /\ handle[s] = "unborn" /\ at[User] = Idle
  /\ \E f \in Fds \ OpenFds : fd' = [fd EXCEPT ![s] = f]
  /\ handle' = [handle EXCEPT ![s] = "held"]
  /\ UNCHANGED <<started, disconnectCallback, recvBuffer, sendBuffer, mutex, fds,
                 tasks, listening, at, kernel, history>>

(* "prior to using the socket", as tcp.h asks.                             *)
setDisconnectCallback(s) ==
  /\ handle[s] = "held" /\ at[User] = Idle /\ mutex[s] = None
  /\ ~started[s] /\ fd[s] # None /\ ~disconnectCallback[s]
  /\ disconnectCallback' = [disconnectCallback EXCEPT ![s] = TRUE]
  /\ UNCHANGED <<handle, fd, started, recvBuffer, sendBuffer, mutex, fds, tasks,
                 listening, at, kernel, history>>

(* What start() does for a socket whose callback is set as cb says.        *)
DoStart(s, cb) ==
  /\ started' = [started EXCEPT ![s] = TRUE]
  /\ IF fd[s] # None
     THEN /\ fds' = watchFd(fd[s], EventTypes, s)
          /\ tasks' = tasks \cup {<<"onReceive", s>>, <<"onCanSend", s>>}
          /\ disconnectCallback' = [disconnectCallback EXCEPT ![s] = cb]
     ELSE /\ tasks' = IF cb THEN tasks \cup {<<"disconnectCallback", s>>} ELSE tasks
          /\ disconnectCallback' = [disconnectCallback EXCEPT ![s] = FALSE]
          /\ fds' = fds

start(s) ==
  /\ handle[s] = "held" /\ at[User] = Idle /\ mutex[s] = None /\ ~started[s]
  /\ DoStart(s, disconnectCallback[s])
  /\ UNCHANGED <<handle, fd, recvBuffer, sendBuffer, mutex, listening, at, kernel, history>>

(* The payload: consecutive numbers, in blocks of the given lengths.       *)
Payload(s, lens) ==
  LET data[i \in 0..Len(lens)] ==
        IF i = 0 THEN Empty
        ELSE AppendBlock(data[i - 1], Run(written[s] + data[i - 1].size, lens[i]))
  IN  data[Len(lens)]

WatchesWrite_TestedAfter(s, data) ==
  fd[s] # None /\ started[s] /\ AppendBuffer(sendBuffer[s], data).size = 0
WatchesWrite(s, data) == fd[s] # None /\ started[s] /\ sendBuffer[s].size = 0

write(s, lens) ==
  LET data == Payload(s, lens)
  IN  /\ handle[s] = "held" /\ at[User] = Idle /\ mutex[s] = None
      /\ written[s] + data.size <= MaxOut
      /\ sendBuffer' = [sendBuffer EXCEPT ![s] = AppendBuffer(@, data)]
      /\ fds' = IF WatchesWrite(s, data) THEN watchFd(fd[s], {"WRITE"}, s) ELSE fds
      /\ written' = [written EXCEPT ![s] = @ + data.size]
      /\ UNCHANGED <<handle, fd, started, disconnectCallback, recvBuffer, mutex, tasks,
                     listening, at, kernel, sent, received, consumed, told, hushed>>

disconnect(s) ==
  /\ handle[s] = "held" /\ at[User] = Idle
  /\ Goto(User, "disconnect", s)
  /\ UNCHANGED <<sockvars, mutex, fds, tasks, listening, kernel, history>>

(* ~TcpSocket clears the callback without the mutex, then disconnects.  The*)
(* user thread or the disconnect callback itself may drop the last handle. *)
Silenced_Not(s) == disconnectCallback
Silenced(s) == [disconnectCallback EXCEPT ![s] = FALSE]

Delete(t, s) ==
  /\ handle[s] = "held"
  /\ IF t = User THEN at[t] = Idle ELSE at[t].pc = "disconnectCallback" /\ at[t].s = s
  /\ handle' = [handle EXCEPT ![s] = "deleted"]
  /\ disconnectCallback' = Silenced(s)
  /\ hushed' = [hushed EXCEPT ![s] = fd[s] # None]
  /\ Goto(t, "disconnect", s)
  /\ UNCHANGED <<fd, started, recvBuffer, sendBuffer, mutex, fds, tasks, listening,
                 kernel, written, sent, received, consumed, told>>

shutdown ==
  /\ listening /\ at[User] = Idle
  /\ listening' = FALSE
  /\ UNCHANGED <<sockvars, mutex, fds, tasks, at, kernel, history>>

-----------------------------------------------------------------------------
(* disconnect(), first part: the handlers go while the descriptor is open. *)
DisconnectBegin(t) ==
  LET s == at[t].s
  IN  /\ at[t].pc = "disconnect" /\ mutex[s] = None
      /\ IF fd[s] = None
         THEN Return(t) /\ UNCHANGED <<mutex, fds>>
         ELSE /\ mutex' = [mutex EXCEPT ![s] = t]
              /\ fds' = removeFd(fd[s], EventTypes)
              /\ Goto(t, "close", s)
      /\ UNCHANGED <<sockvars, tasks, listening, kernel, history>>

(* Second part: shutdown, close, _fd = -1 and the test of the callback;    *)
(* third: it is queued and used up.  The destructor clears the callback    *)
(* without the mutex: when it does so in between, what is queued is an     *)
(* empty function.                                                         *)
Closed_KeepsFd(s) == fd
Closed(s) == [fd EXCEPT ![s] = None]

DisconnectEnd(t) ==
  LET s == at[t].s
  IN  /\ at[t].pc = "close"
      /\ fd' = Closed(s)
      /\ pending' = [pending EXCEPT ![s] = 0] /\ room' = [room EXCEPT ![s] = SendRoom]
      /\ link' = [link EXCEPT ![s] = "up"]
      /\ IF disconnectCallback[s]
         THEN Goto(t, "enqueue", s) /\ UNCHANGED mutex
         ELSE Unlock(s) /\ Return(t)
      /\ UNCHANGED <<handle, started, disconnectCallback, recvBuffer, sendBuffer, fds, tasks,
                     listening, history>>

DisconnectTells(t) ==
  LET s == at[t].s
      callback == IF disconnectCallback[s] THEN "disconnectCallback" ELSE "empty"
  IN  /\ at[t].pc = "enqueue"
      /\ tasks' = tasks \cup {<<callback, s>>}
      /\ disconnectCallback' = [disconnectCallback EXCEPT ![s] = FALSE]
      /\ Unlock(s) /\ Return(t)
      /\ UNCHANGED <<handle, fd, started, recvBuffer, sendBuffer, fds, listening, kernel, history>>

(* One turn of onReceive's loop; the first one takes the mutex.  The user's*)
(* receive callback consumes what it likes.                                *)
Received_NotCut(s, r) == AppendBlock(recvBuffer[s], Run(received[s], MaxReceiveSize))
Received(s, r) == AppendBlock(recvBuffer[s], Run(received[s], r))

(* recv returned 0 or failed with other than EAGAIN.                       *)
Ended_ErrorOnly(s) == fd[s] # None /\ link[s] = "reset"
Ended(s) == fd[s] # None /\ link[s] # "up"

onReceive(w) ==
  LET s == at[w].s
  IN  /\ at[w].pc = "onReceive" /\ Unlocked(s, w)
      /\ \/ /\ fd[s] # None /\ link[s] # "reset" /\ pending[s] > 0
            /\ \E r \in 1..pending[s] \cap 1..MaxReceiveSize :
                 LET got == Received(s, r)
                 IN  /\ \E n \in 0..got.size :
                          /\ recvBuffer' = [recvBuffer EXCEPT ![s] = consume(got, n)]
                          /\ consumed' = [consumed EXCEPT ![s] = @ \o SubSeq(Bytes(got), 1, n)]
                     /\ pending' = [pending EXCEPT ![s] = @ - r]
                     /\ received' = [received EXCEPT ![s] = @ + r]
            /\ mutex' = [mutex EXCEPT ![s] = w]
            /\ UNCHANGED <<tasks, at>>
         \/ /\ fd[s] = None \/ link[s] = "reset" \/ pending[s] = 0
            /\ tasks' = IF Ended(s) THEN tasks \cup {<<"disconnect", s>>} ELSE tasks
            /\ Unlock(s) /\ Return(w)
            /\ UNCHANGED <<recvBuffer, consumed, pending, received>>
      /\ UNCHANGED <<handle, fd, started, disconnectCallback, sendBuffer, fds, listening,
                     room, link, written, sent, told, hushed>>

(* One turn of onCanSend's loop, with what is left after a send of r of sz *)
(* bytes.                                                                  *)
AfterSend_ConsumesAll(s, sz, r) == consume(pulldown(sendBuffer[s], sz), sz)
AfterSend(s, sz, r) == consume(pulldown(sendBuffer[s], sz), r)

onCanSend(w) ==
  LET s == at[w].s
      sz == IF sendBuffer[s].size < MaxSendSize THEN sendBuffer[s].size ELSE MaxSendSize
  IN  /\ at[w].pc = "onCanSend" /\ Unlocked(s, w)
      /\ \/ /\ fd[s] # None /\ sz > 0 /\ link[s] # "reset" /\ room[s] > 0
            /\ \E r \in 1..sz \cap 1..room[s] :
                 /\ sendBuffer' = [sendBuffer EXCEPT ![s] = AfterSend(s, sz, r)]
                 /\ sent' = [sent EXCEPT ![s] = @ \o SubSeq(Pointed(sendBuffer[s], sz), 1, r)]
                 /\ room' = [room EXCEPT ![s] = @ - r]
            /\ mutex' = [mutex EXCEPT ![s] = w]
            /\ UNCHANGED <<fds, tasks, at>>
         \/ /\ fd[s] = None \/ sz = 0 \/ link[s] = "reset" \/ room[s] = 0
            /\ tasks' = IF fd[s] # None /\ sz > 0 /\ link[s] = "reset"
                        THEN tasks \cup {<<"disconnect", s>>} ELSE tasks
            /\ sendBuffer' = IF fd[s] # None /\ sz > 0
                             THEN [sendBuffer EXCEPT ![s] = pulldown(@, sz)] ELSE sendBuffer
            /\ fds' = IF fd[s] # None /\ sz = 0 THEN removeFd(fd[s], {"WRITE"}) ELSE fds
            /\ Unlock(s) /\ Return(w)
            /\ UNCHANGED <<sent, room>>
      /\ UNCHANGED <<handle, fd, started, disconnectCallback, recvBuffer, listening,
                     pending, link, written, received, consumed, told, hushed>>

(* onAccept; accept fails when no connection waits or no descriptor is left*)
onAccept(w) ==
  /\ at[w].pc = "onAccept"
  /\ \/ /\ listening
        /\ \E s \in Sockets, f \in Fds \ OpenFds :
             /\ handle[s] = "backlog"
             /\ handle' = [handle EXCEPT ![s] = "accepted"]
             /\ fd' = [fd EXCEPT ![s] = f]
             /\ Goto(w, "acceptCallback", s)
     \/ /\ \/ ~listening \/ Fds \subseteq OpenFds
           \/ \A s \in Sockets : handle[s] # "backlog"
        /\ Return(w)
        /\ UNCHANGED <<handle, fd>>
  /\ UNCHANGED <<started, disconnectCallback, recvBuffer, sendBuffer, mutex, fds, tasks,
                 listening, kernel, history>>

(* The user's accept callback keeps the socket, sets its callbacks and     *)
(* starts it, or lets it go; with no callback set it is let go as well.    *)
acceptCallback(w) ==
  LET s == at[w].s
  IN  /\ at[w].pc = "acceptCallback"
      /\ \/ /\ handle' = [handle EXCEPT ![s] = "held"]
            /\ DoStart(s, TRUE)
            /\ Return(w)
            /\ UNCHANGED hushed
         \/ /\ handle' = [handle EXCEPT ![s] = "deleted"]
            /\ hushed' = [hushed EXCEPT ![s] = TRUE]
            /\ Goto(w, "disconnect", s)
            /\ UNCHANGED <<started, disconnectCallback, fds, tasks>>
      /\ UNCHANGED <<fd, recvBuffer, sendBuffer, mutex, listening, kernel, written, sent,
                     received, consumed, told>>

disconnectCallbackReturns(w) ==
  /\ at[w].pc = "disconnectCallback"
  /\ Return(w)
  /\ UNCHANGED <<sockvars, mutex, fds, tasks, listening, kernel, history>>

-----------------------------------------------------------------------------
(* The worker loop of the event manager.                                   *)
Reports(s, y) ==
  CASE y = "READ"  -> pending[s] > 0 \/ link[s] # "up"
    [] y = "WRITE" -> room[s] > 0 \/ link[s] = "reset"

(* Level-triggered: what is watched and ready is reported again and again; *)
(* an error or hang-up is reported whatever is watched.                    *)
ReadyFds ==
  {f \in Fds : \E s \in Sockets :
                 /\ fd[s] = f
                 /\ \E y \in EventTypes :
                      fds[f][y] # None /\ (Reports(s, y) \/ link[s] = "reset")}
    \cup IF listening /\ \E s \in Sockets : handle[s] = "backlog" THEN {Listener} ELSE {}

epoll_wait(w) ==
  /\ at[w].pc = "idle"
  /\ \/ \E f \in ReadyFds : at' = [at EXCEPT ![w] = [@ EXCEPT !.pc = "event", !.ev = f,
                                                              !.type = "READ"]]
     \/ /\ ReadyFds = {} /\ tasks # {}
        /\ at' = [at EXCEPT ![w].pc = "tasks"]
  /\ UNCHANGED <<sockvars, mutex, fds, tasks, listening, kernel, history>>

(* Every event flag passes its test, so the handlers of a reported         *)
(* descriptor are looked up in turn, each when the previous has returned.  *)
Handler(f, y) ==
  IF f = Listener THEN (IF listening /\ y = "READ" THEN Listener ELSE None) ELSE fds[f][y]

Callback(h, y) ==
  IF h = Listener THEN "onAccept" ELSE IF y = "READ" THEN "onReceive" ELSE "onCanSend"

dispatch(w) ==
  LET f == at[w].ev
      y == at[w].type
      h == Handler(f, y)
      last == y = "WRITE"
  IN  /\ at[w].pc = "event"
      /\ at' = [at EXCEPT ![w] =
                  [pc   |-> IF h # None THEN Callback(h, y) ELSE IF last THEN "tasks" ELSE "event",
                   s    |-> IF h \in Sockets THEN h ELSE None,
                   ev   |-> IF last THEN None ELSE f,
                   type |-> IF last THEN None ELSE "WRITE"]]
      /\ UNCHANGED <<sockvars, mutex, fds, tasks, listening, kernel, history>>

runTask(w) ==
  /\ at[w].pc = "tasks"
  /\ \/ \E k \in tasks :
          /\ tasks' = tasks \ {k}
          /\ Goto(w, k[1], k[2])
          /\ told' = IF k[1] = "disconnectCallback" THEN [told EXCEPT ![k[2]] = TRUE] ELSE told
     \/ /\ tasks = {}
        /\ at' = [at EXCEPT ![w] = Idle]
        /\ UNCHANGED <<tasks, told>>
  /\ UNCHANGED <<sockvars, mutex, fds, listening, kernel, written, sent, received, consumed,
                 hushed>>

-----------------------------------------------------------------------------
(* The peer and the network.                                               *)
PeerConnects(s) ==
  /\ handle[s] = "unborn" /\ listening
  /\ handle' = [handle EXCEPT ![s] = "backlog"]
  /\ UNCHANGED <<fd, started, disconnectCallback, recvBuffer, sendBuffer, mutex, fds, tasks,
                 listening, at, kernel, history>>

Connected(s) == fd[s] # None \/ handle[s] = "backlog"

PeerSends(s) ==
  /\ Connected(s) /\ link[s] = "up" /\ received[s] + pending[s] < MaxIn
  /\ pending' = [pending EXCEPT ![s] = @ + 1]
  /\ UNCHANGED <<sockvars, mutex, fds, tasks, listening, at, room, link, history>>

PeerReads(s) ==
  /\ fd[s] # None /\ link[s] # "reset" /\ room[s] < SendRoom
  /\ room' = [room EXCEPT ![s] = SendRoom]
  /\ UNCHANGED <<sockvars, mutex, fds, tasks, listening, at, pending, link, history>>

PeerEnds(s) ==
  /\ Connected(s) /\ link[s] = "up"
  /\ \E e \in {"eof", "reset"} : link' = [link EXCEPT ![s] = e]
  /\ UNCHANGED <<sockvars, mutex, fds, tasks, listening, at, pending, room, history>>

-----------------------------------------------------------------------------
(* A worker that calls an empty function throws bad_function_call, which   *)
(* nothing catches: the process ends, and no thread takes another step.    *)
Alive == \A w \in Workers : at[w].pc # "empty"

UserCall ==
  /\ Alive
  /\ \/ shutdown
     \/ \E s \in Sockets :
          \/ connect(s) \/ setDisconnectCallback(s) \/ start(s) \/ disconnect(s)
          \/ Delete(User, s)
          \/ \E lens \in Payloads : write(s, lens)

WorkerStep(w) ==
  /\ Alive
  /\ \/ epoll_wait(w) \/ dispatch(w) \/ runTask(w)
     \/ onReceive(w) \/ onCanSend(w) \/ onAccept(w) \/ acceptCallback(w)
     \/ disconnectCallbackReturns(w)
     \/ \E s \in Sockets : Delete(w, s)

DisconnectStep(t) == Alive /\ (DisconnectBegin(t) \/ DisconnectEnd(t) \/ DisconnectTells(t))

Peer == \E s \in Sockets : PeerConnects(s) \/ PeerSends(s) \/ PeerReads(s) \/ PeerEnds(s)

Next ==
  \/ UserCall \/ Peer
  \/ \E w \in Workers : WorkerStep(w)
  \/ \E t \in Threads : DisconnectStep(t)

Spec == Init /\ [][Next]_vars

(* Threads run, a call the user began is finished, and the peer reads.     *)
Fairness ==
  /\ \A w \in Workers : WF_vars(WorkerStep(w) \/ DisconnectStep(w))
  /\ WF_vars(DisconnectStep(User))
  /\ \A s \in Sockets : WF_vars(PeerReads(s))

FairSpec == Spec /\ Fairness

-----------------------------------------------------------------------------
(* The manager's handler table and the sockets agree, also across the      *)
(* reuse of a descriptor: a handler belongs to the socket that has the     *)
(* descriptor, a started open socket is watched for reading, and for       *)
(* writing while it has anything to send (write, onCanSend, disconnect).   *)
WatchesAgree ==
  \A s \in Sockets :
    /\ \A f \in Fds, y \in EventTypes : fds[f][y] = s => fd[s] = f
    /\ fd[s] # None /\ started[s] /\ mutex[s] = None =>
         /\ fds[fd[s]]["READ"] = s
         /\ sendBuffer[s].size # 0 => fds[fd[s]]["WRITE"] = s

(* Every byte written is handed to the kernel once and in order, over      *)
(* partial sends, blocks joined by pulldown and sends cut by a full buffer,*)
(* and IOBuffer::size is the number of bytes that are left.                *)
StreamOut ==
  \A s \in Sockets : /\ sent[s] \o Bytes(sendBuffer[s]) = Run(0, written[s])
                     /\ sendBuffer[s].size = Len(Bytes(sendBuffer[s]))

(* The receive callback sees every byte once and in order, whatever it     *)
(* leaves in the buffer.                                                   *)
StreamIn == \A s \in Sockets : consumed[s] \o Bytes(recvBuffer[s]) = Run(0, received[s])

(* tcp.h: after the disconnect callback no callback follows: nothing is    *)
(* received any more, and the callback is not queued again.                *)
QuietAfterDisconnect ==
  [][\A s \in Sockets : told[s] => /\ received'[s] = received[s]
                                   /\ <<"disconnectCallback", s>> \notin tasks']_vars

(* A socket deleted while it is open never calls its disconnect callback.  *)
HushedStaysQuiet == \A s \in Sockets : hushed[s] => ~told[s]

(* Data waits to be sent on a started socket; the owner of a socket whose  *)
(* peer has gone, or which is closed, waits to be told.                    *)
Unsent(s) == fd[s] # None /\ started[s] /\ sendBuffer[s].size > 0
Untold(s) ==
  /\ handle[s] = "held"
  /\ \/ started[s] /\ link[s] # "up" /\ disconnectCallback[s]
     \/ fd[s] = None /\ disconnectCallback[s]
     \/ <<"disconnectCallback", s>> \in tasks

(* No socket waits for ever: what is written leaves the send buffer unless *)
(* the connection ends, and its end is told unless the owner deletes the   *)
(* socket first (start, onReceive, onCanSend, disconnect).  A process that *)
(* the race of ~TcpSocket with disconnect() ends serves nobody.            *)
Served == []<>(Alive => \A s \in Sockets : ~Unsent(s) /\ ~Untold(s))
=============================================================================
