---------------------------- MODULE TcpSocketInv ----------------------------
(***************************************************************************)
(* The invariant that the theorems of TcpSocketProofs rest on, for any     *)
(* sockets, descriptors and workers, and that the calls of the user thread *)
(* and the worker loop keep it.  What the kernel and the buffers hold is of*)
(* no matter to it, but for whether there is data to send.                 *)
(***************************************************************************)
EXTENDS TcpSocket, TLAPS

TaskNames == {"onReceive", "onCanSend", "disconnect", "disconnectCallback", "empty"}
Calls == TaskNames \cup {"acceptCallback", "close", "enqueue"}
Places == [pc : Calls \cup {"idle", "event", "tasks", "onAccept"},
           s : Sockets \cup {None}, ev : Fds \cup {Listener, None},
           type : EventTypes \cup {None}]

Types ==
  /\ handle \in [Sockets -> Handles]
  /\ fd \in [Sockets -> Fds \cup {None}]
  /\ started \in [Sockets -> BOOLEAN] /\ disconnectCallback \in [Sockets -> BOOLEAN]
  /\ mutex \in [Sockets -> Threads \cup {None}]
  /\ fds \in [Fds -> [EventTypes -> Sockets \cup {None}]]
  /\ tasks \subseteq TaskNames \X Sockets
  /\ told \in [Sockets -> BOOLEAN] /\ hushed \in [Sockets -> BOOLEAN]
  /\ DOMAIN sendBuffer = Sockets /\ DOMAIN received = Sockets

(* A thread is in a call of a socket or has none; a worker at an event     *)
(* knows its descriptor and the type it looks up next.                     *)
Located ==
  /\ at \in [Threads -> Places]
  /\ \A t \in Threads :
       /\ at[t].pc \in Calls <=> at[t].s # None
       /\ at[t].pc = "event" => at[t].ev # None
       /\ at[t].ev # None => at[t].type # None

(* A socket nobody owns yet: nothing knows of it but its accept callback.  *)
Unknown(s) ==
  /\ ~started[s] /\ ~disconnectCallback[s] /\ ~told[s] /\ ~hushed[s] /\ mutex[s] = None
  /\ \A k \in tasks : k[2] # s
  /\ \A f \in Fds, y \in EventTypes : fds[f][y] # s
  /\ \A t \in Threads : at[t].s = s => at[t].pc = "acceptCallback"
Fresh ==
  \A s \in Sockets :
    /\ handle[s] \in {"unborn", "backlog", "accepted"} => Unknown(s)
    /\ handle[s] \in {"unborn", "backlog"} => fd[s] = None /\ \A t \in Threads : at[t].s # s

(* An accepted socket is open, and in the hands of one worker.             *)
Accepting ==
  \A t \in Threads : at[t].pc = "acceptCallback" =>
    /\ handle[at[t].s] = "accepted" /\ fd[at[t].s] # None
    /\ \A u \in Threads : at[u].s = at[t].s => u = t

(* After the first part of disconnect() the mutex is held, the descriptor  *)
(* is still open and nothing watches it; after the second it is closed.    *)
Closing ==
  \A t \in Threads : at[t].pc = "close" =>
    /\ mutex[at[t].s] = t /\ fd[at[t].s] # None
    /\ \A y \in EventTypes : fds[fd[at[t].s]][y] = None
Telling == \A t \in Threads : at[t].pc = "enqueue" => fd[at[t].s] = None

Owners ==
  /\ \A f \in Fds, y \in EventTypes, s \in Sockets : fds[f][y] = s => fd[s] = f
  /\ \A r, s \in Sockets : fd[r] # None /\ fd[r] = fd[s] => r = s

(* WatchesAgree for every socket that is not being closed.                 *)
Watched ==
  \A s \in Sockets :
    fd[s] # None /\ started[s] /\ (\A t \in Threads : at[t].pc = "close" => at[t].s # s) =>
      /\ fds[fd[s]]["READ"] = s
      /\ sendBuffer[s].size # 0 => fds[fd[s]]["WRITE"] = s

(* The disconnect callback is used up when it is queued, and only a closed *)
(* socket queues it.                                                       *)
UsedUp ==
  \A s \in Sockets :
    /\ told[s] \/ <<"disconnectCallback", s>> \in tasks => fd[s] = None /\ ~disconnectCallback[s]
    /\ told[s] => <<"disconnectCallback", s>> \notin tasks

Hush ==
  \A s \in Sockets : hushed[s] =>
    /\ handle[s] = "deleted" /\ ~disconnectCallback[s] /\ ~told[s]
    /\ <<"disconnectCallback", s>> \notin tasks

Inv == Types /\ Located /\ Fresh /\ Accepting /\ Closing /\ Owners /\ Watched /\ UsedUp /\ Hush

-----------------------------------------------------------------------------
(* Nothing is open, watched or queued at first.                            *)
LEMMA InitInv == Init => Inv
BY TcpAssumption DEF Init, Inv, Types, Located, Places, Calls, TaskNames, Idle, Fresh, Unknown,
   Accepting, Closing, Owners, Watched, UsedUp, Hush, Handles, EventTypes

(* What the functions of the state return.                                 *)
LEMMA Ranges ==
  ASSUME Types
  PROVE  /\ \A s \in Sockets : handle[s] \in Handles /\ fd[s] \in Fds \cup {None}
         /\ \A f \in Fds, y \in EventTypes : fds[f][y] \in Sockets \cup {None}
BY DEF Types

(* Owners depends on the descriptors and their handlers only.              *)
LEMMA OwnersSame == ASSUME Owners, UNCHANGED <<fd, fds>> PROVE Owners'
BY DEF Owners

(* A socket that watches its own descriptor.                               *)
LEMMA OwnersKept ==
  ASSUME Owners, fd' = fd, NEW s \in Sockets,
         \A g \in Fds, y \in EventTypes :
           \/ fds'[g][y] = fds[g][y]
           \/ g = fd[s] /\ fds'[g][y] = s
  PROVE  Owners'
BY DEF Owners

(* ... for every type of event.                                            *)
LEMMA OwnersSet ==
  ASSUME Owners, fd' = fd, NEW s \in Sockets,
         \A g \in Fds, y \in EventTypes : fds'[g][y] = IF g = fd[s] THEN s ELSE fds[g][y]
  PROVE  Owners'
BY DEF Owners

(* A call of t that returns takes t out of its socket and moves no one else.*)
LEMMA Returns ==
  ASSUME Located, NEW t \in Threads, Return(t)
  PROVE  /\ Located' /\ at'[t].pc \in {"idle", "event", "tasks"} /\ at'[t].s = None
         /\ \A u \in Threads \ {t} : at'[u] = at[u]
<1>1. at'[t] \in Places /\ at'[t].pc \in {"idle", "event", "tasks"} /\ at'[t].s = None
      /\ (at'[t].pc = "event" => at'[t].ev # None) /\ (at'[t].ev # None => at'[t].type # None)
  BY ZenonT(60), TcpAssumption DEF Return, Located, Places, Idle, Calls, TaskNames
<1>2. DOMAIN at' = Threads /\ \A u \in Threads \ {t} : at'[u] = at[u]
  BY Zenon DEF Return, Located
<1>3. at' = [u \in Threads |-> at'[u]]
  BY Zenon DEF Return, Located
<1> QED BY <1>1, <1>2, <1>3 DEF Located, Calls, TaskNames

(* A thread that goes into a call of s is there, and moves no one else.    *)
LEMMA Goes ==
  ASSUME Located, NEW t \in Threads, NEW p \in Calls, NEW s \in Sockets, Goto(t, p, s)
  PROVE  /\ Located' /\ at'[t].pc = p /\ at'[t].s = s
         /\ \A u \in Threads \ {t} : at'[u] = at[u]
<1>1. at'[t] \in Places /\ at'[t].pc = p /\ at'[t].s = s
      /\ at'[t].ev = at[t].ev /\ at'[t].type = at[t].type
  BY ZenonT(60) DEF Goto, Located, Places
<1>2. at' = [u \in Threads |-> at'[u]] /\ \A u \in Threads \ {t} : at'[u] = at[u]
  BY Zenon DEF Goto, Located
<1> QED BY ZenonT(60), <1>1, <1>2, TcpAssumption DEF Located, Calls, TaskNames

(* What the invariant looks at besides the threads.                        *)
seen == <<handle, fd, started, disconnectCallback, sendBuffer, mutex, fds, tasks, told, hushed,
          received>>

(* A thread that only moves, neither out of nor into the middle of a       *)
(* disconnect or an accept, and only into sockets with a past.             *)
LEMMA Moves ==
  ASSUME Inv, NEW t \in Threads, Located', \A u \in Threads \ {t} : at'[u] = at[u],
         UNCHANGED seen, at[t].pc # "close", at'[t].pc \notin {"close", "acceptCallback"},
         at'[t].s # None => handle[at'[t].s] \in {"held", "deleted"}
  PROVE  Inv'
<1> USE DEF Inv, seen
<1>1. Types' /\ Owners' /\ UsedUp' /\ Hush'
  <2>1. Types'
    BY DEF Types
  <2>2. Owners'
    BY Zenon, OwnersSame
  <2>3. UsedUp' /\ Hush'
    BY Zenon DEF UsedUp, Hush
  <2> QED BY Zenon, <2>1, <2>2, <2>3
<1>2. \A s \in Sockets : at'[t].s = s => handle[s] \in {"held", "deleted"}
  BY Zenon, TcpAssumption
<1>3. Fresh'
  <2> SUFFICES ASSUME NEW s \in Sockets, handle[s] \in {"unborn", "backlog", "accepted"}
               PROVE  Unknown(s)' /\ (handle[s] # "accepted" =>
                                        fd'[s] = None /\ \A u \in Threads : at'[u].s # s)
    BY Zenon DEF Fresh
  <2>1. Unknown(s) /\ \A u \in Threads : at'[u].s = s => at'[u] = at[u]
    BY Zenon, <1>2 DEF Fresh
  <2>2. Unknown(s)'
    BY Zenon, <2>1 DEF Unknown
  <2> QED BY Zenon, <2>1, <2>2 DEF Fresh
<1>4. Accepting'
  <2> SUFFICES ASSUME NEW u \in Threads, at'[u].pc = "acceptCallback"
               PROVE  /\ handle'[at'[u].s] = "accepted" /\ fd'[at'[u].s] # None
                      /\ \A r \in Threads : at'[r].s = at'[u].s => r = u
    BY Zenon DEF Accepting
  <2>1. u # t /\ at'[u] = at[u] /\ at[u].s \in Sockets
    BY Zenon, TcpAssumption DEF Located, Places, Calls
  <2>2. handle[at[u].s] = "accepted" /\ fd[at[u].s] # None /\ at'[t].s # at[u].s
    BY ZenonT(60), <1>2, <2>1 DEF Accepting
  <2> QED BY <2>1, <2>2 DEF Accepting
<1>5. Closing'
  BY DEF Closing
<1>6. Watched'
  BY DEF Watched
<1> QED BY Zenon, <1>1, <1>3, <1>4, <1>5, <1>6

(* A step that changes nothing the invariant looks at.                     *)
LEMMA Stutters == ASSUME Inv, UNCHANGED <<seen, at>> PROVE Inv'
BY DEF Inv, seen, Types, Located, Fresh, Unknown, Accepting, Closing, Owners, Watched, UsedUp, Hush

-----------------------------------------------------------------------------
(* The user thread's calls.                                                *)
LEMMA ConnectInv == ASSUME Inv, NEW s \in Sockets, connect(s) PROVE Inv'
<1> USE DEF Inv, connect, history
<1>1. PICK f \in Fds : f \notin OpenFds /\ fd' = [fd EXCEPT ![s] = f]
  BY Zenon
<1>2. Types' /\ Located'
  BY DEF Types, Located, Handles
<1>3. Fresh' /\ Hush' /\ UsedUp'
  <2>1. Hush' /\ UsedUp'
    BY <1>1 DEF Fresh, Unknown, Hush, UsedUp, Types
  <2>2. Fresh'
    BY <1>1 DEF Fresh, Unknown, Types
  <2> QED BY Zenon, <2>1, <2>2
<1>4. Accepting' /\ Closing'
  <2>1. \A t \in Threads : at[t].pc \in {"acceptCallback", "close"} =>
          at[t].s \in Sockets /\ at[t].s # s
    BY ZenonT(60), TcpAssumption DEF Fresh, Located, Places, Calls
  <2> QED BY <1>1, <2>1 DEF Accepting, Closing, Types
<1>5. Owners'
  BY <1>1 DEF Owners, Fresh, Unknown, Types, OpenFds
<1>6. Watched'
  BY ZenonT(60) DEF Watched, Fresh, Unknown, Types
<1> QED BY Zenon, <1>2, <1>3, <1>4, <1>5, <1>6

(* setDisconnectCallback() on an open socket that is not started.          *)
LEMMA SetDisconnectCallbackInv ==
  ASSUME Inv, NEW s \in Sockets, setDisconnectCallback(s) PROVE Inv'
<1> USE DEF Inv, setDisconnectCallback, history
<1>1. Types' /\ Located' /\ Accepting' /\ Closing' /\ Owners' /\ Watched'
  <2>1. Types' /\ Located'
    BY Zenon DEF Types, Located
  <2>2. Accepting' /\ Closing'
    BY ZenonT(60) DEF Accepting, Closing
  <2>3. Owners'
    BY Zenon, OwnersSame
  <2>4. Watched'
    BY Zenon DEF Watched
  <2> QED BY Zenon, <2>1, <2>2, <2>3, <2>4
<1>2. Fresh' /\ UsedUp' /\ Hush'
  BY DEF Fresh, Unknown, UsedUp, Hush, Types
<1> QED BY Zenon, <1>1, <1>2

(* start(), for an owner whose accept callback or user call has the socket:*)
(* no thread is closing it.                                                *)
Started(s) ==
  /\ started' = [started EXCEPT ![s] = TRUE]
  /\ disconnectCallback' \in [Sockets -> BOOLEAN]
  /\ \A r \in Sockets \ {s} : disconnectCallback'[r] = disconnectCallback[r]
  /\ fd[s] # None => /\ fds' = watchFd(fd[s], EventTypes, s)
                     /\ tasks' = tasks \cup {<<"onReceive", s>>, <<"onCanSend", s>>}
  /\ fd[s] = None => /\ fds' = fds /\ ~disconnectCallback'[s]
                     /\ \/ tasks' = tasks
                        \/ /\ disconnectCallback[s]
                           /\ tasks' = tasks \cup {<<"disconnectCallback", s>>}

(* start() keeps the invariant, called by the user thread or by the accept *)
(* callback.                                                               *)
LEMMA DoStartInv ==
  ASSUME Inv, NEW s \in Sockets, NEW t \in Threads, Started(s),
         handle'[s] = "held", handle' \in [Sockets -> Handles],
         \A r \in Sockets \ {s} : handle'[r] = handle[r],
         handle[s] \in {"held", "accepted"}, mutex[s] = None,
         UNCHANGED <<fd, sendBuffer, mutex, told, hushed, received>>,
         Located', \A u \in Threads \ {t} : at'[u] = at[u],
         \/ at'[t] = at[t] /\ at[t].pc # "acceptCallback"
         \/ at'[t].s = None /\ at[t].s = s,
         handle[s] = "accepted" => at[t].s = s
  PROVE  Inv'
<1> USE DEF Inv, Started
<1>1. \A u \in Threads : at[u].pc = "close" => at[u].s # s
  <2>1. SUFFICES ASSUME NEW u \in Threads, at[u].pc = "close", at[u].s = s PROVE FALSE
    BY Zenon
  <2>2. mutex[s] = u
    BY Zenon, <2>1 DEF Closing
  <2>3. None \notin Threads
    BY Zenon, TcpAssumption DEF Threads
  <2> QED BY Zenon, <2>1, <2>2, <2>3
<1>2. /\ fds' \in [Fds -> [EventTypes -> Sockets \cup {None}]]
      /\ \A g \in Fds, y \in EventTypes :
           fds'[g][y] = IF g = fd[s] THEN s ELSE fds[g][y]
  <2>1. CASE fd[s] = None
    BY <2>1, TcpAssumption DEF Types
  <2>2. CASE fd[s] # None
    <3>1. fd[s] \in Fds /\ fds' = watchFd(fd[s], EventTypes, s)
      BY Zenon, <2>2 DEF Types
    <3> QED BY Zenon, <3>1 DEF Types, watchFd
  <2> QED BY ZenonT(60), <2>1, <2>2
<1>3. Types'
  <2>1. tasks' \subseteq TaskNames \X Sockets
    BY DEF Types, TaskNames
  <2> QED BY Zenon, <1>2, <2>1 DEF Types
<1>4. Owners'
  <2>1. Owners /\ fd' = fd
    BY Zenon
  <2>2. \A g \in Fds, y \in EventTypes : fds'[g][y] = IF g = fd[s] THEN s ELSE fds[g][y]
    BY Zenon, <1>2
  <2> QED BY Zenon, <2>1, <2>2, OwnersSet
<1>5. Closing'
  <2> SUFFICES ASSUME NEW u \in Threads, at'[u].pc = "close"
               PROVE  /\ mutex'[at'[u].s] = u /\ fd'[at'[u].s] # None
                      /\ \A y \in EventTypes : fds'[fd'[at'[u].s]][y] = None
    BY Zenon DEF Closing
  <2>1. at'[u] = at[u]
    <3>1. at'[u].s \in Sockets
      BY ZenonT(60), TcpAssumption DEF Located, Places, Calls
    <3> QED BY Zenon, <3>1, TcpAssumption
  <2>2. at[u].s \in Sockets /\ at[u].s # s
    BY ZenonT(60), <1>1, <2>1, TcpAssumption DEF Located, Places, Calls
  <2>3. /\ mutex[at[u].s] = u /\ fd[at[u].s] # None
        /\ \A y \in EventTypes : fds[fd[at[u].s]][y] = None
    BY ZenonT(60), <2>1 DEF Closing
  <2>4. fd[at[u].s] # fd[s]
    BY Zenon, <2>2, <2>3 DEF Owners
  <2>5. fd[at[u].s] \in Fds
    BY Zenon, <2>2, <2>3, Ranges
  <2>6. \A y \in EventTypes : fds'[fd[at[u].s]][y] = None
    BY ZenonT(60), <1>2, <2>3, <2>4, <2>5
  <2> QED BY ZenonT(60), <2>1, <2>3, <2>6
<1>6. Watched'
  <2> SUFFICES ASSUME NEW r \in Sockets, fd[r] # None, started'[r],
                      \A u \in Threads : at'[u].pc = "close" => at'[u].s # r
               PROVE  /\ fds'[fd[r]]["READ"] = r
                      /\ sendBuffer[r].size # 0 => fds'[fd[r]]["WRITE"] = r
    BY Zenon DEF Watched
  <2>1. CASE r = s
    BY <1>2, <2>1 DEF Types, EventTypes
  <2>2. CASE r # s
    <3>1. started[r] /\ fd[r] # fd[s] /\ fd[r] \in Fds
      BY <2>2 DEF Types, Owners
    <3>2. \A u \in Threads : at[u].pc = "close" => at[u].s # r
      BY ZenonT(60), <2>2, <1>1 
    <3> QED BY ZenonT(60), <1>2, <3>1, <3>2 DEF Watched, EventTypes
  <2> QED BY Zenon, <2>1, <2>2
<1>7. Fresh'
  <2> SUFFICES ASSUME NEW r \in Sockets, handle'[r] \in {"unborn", "backlog", "accepted"}
               PROVE  Unknown(r)' /\ (handle'[r] # "accepted" =>
                                        fd'[r] = None /\ \A u \in Threads : at'[u].s # r)
    BY Zenon DEF Fresh
  <2>1. r # s /\ handle'[r] = handle[r] /\ Unknown(r)
    BY Zenon DEF Fresh
  <2>2. \A u \in Threads : at'[u].s = r => at'[u] = at[u]
    BY TcpAssumption
  <2>3. \A k \in tasks' : k[2] # r
    BY <2>1 DEF Unknown
  <2>4. \A f \in Fds, y \in EventTypes : fds'[f][y] # r
    BY <1>2, <2>1 DEF Unknown
  <2>5. ~started'[r] /\ ~disconnectCallback'[r]
    BY Zenon, <2>1 DEF Unknown, Types
  <2>6. Unknown(r)'
    BY ZenonT(60), <2>1, <2>2, <2>3, <2>4, <2>5 DEF Unknown
  <2> QED BY <2>1, <2>2, <2>6 DEF Fresh
<1>8. Accepting'
  <2> SUFFICES ASSUME NEW u \in Threads, at'[u].pc = "acceptCallback"
               PROVE  /\ handle'[at'[u].s] = "accepted" /\ fd'[at'[u].s] # None
                      /\ \A r \in Threads : at'[r].s = at'[u].s => r = u
    BY Zenon DEF Accepting
  <2>1. at'[u].s \in Sockets /\ at'[u] = at[u]
    BY ZenonT(60), TcpAssumption DEF Located, Places, Calls
  <2>2. /\ handle[at[u].s] = "accepted" /\ fd[at[u].s] # None
        /\ \A r \in Threads : at[r].s = at[u].s => r = u
    BY ZenonT(60), <2>1 DEF Accepting
  <2>3. at[u].s # s
    BY ZenonT(60), <2>1, <2>2, TcpAssumption
  <2>4. \A r \in Threads : at'[r].s = at'[u].s => at'[r] = at[r]
    BY ZenonT(60), <2>1, TcpAssumption
  <2>5. handle'[at[u].s] = "accepted" /\ fd'[at[u].s] # None
    BY Zenon, <2>1, <2>2, <2>3
  <2>6. \A r \in Threads : at'[r].s = at'[u].s => r = u
    BY ZenonT(60), <2>1, <2>2, <2>4
  <2> QED BY Zenon, <2>1, <2>5, <2>6
<1>9. UsedUp' /\ Hush'
  BY DEF UsedUp, Hush, Types, Fresh, Unknown
<1> QED BY ZenonT(60), <1>3, <1>4, <1>5, <1>6, <1>7, <1>8, <1>9

(* start() by the user.                                                    *)
LEMMA StartInv == ASSUME Inv, NEW s \in Sockets, start(s) PROVE Inv'
<1>1. /\ User \in Threads /\ Located' /\ \A u \in Threads \ {User} : at'[u] = at[u]
      /\ at'[User] = at[User] /\ at[User].pc # "acceptCallback"
  BY DEF Inv, Located, start, Threads, Idle
<1>2. Started(s)
  BY Zenon DEF Inv, Types, start, DoStart, Started
<1>3. /\ handle'[s] = "held" /\ handle' \in [Sockets -> Handles]
      /\ \A r \in Sockets \ {s} : handle'[r] = handle[r]
      /\ handle[s] \in {"held", "accepted"} /\ handle[s] # "accepted" /\ mutex[s] = None
      /\ UNCHANGED <<fd, sendBuffer, mutex, told, hushed, received>>
  BY Zenon DEF start, history, Inv, Types
<1> QED BY Zenon, <1>1, <1>2, <1>3, DoStartInv

(* write() arms WRITE when the send buffer was empty, and only then.       *)
LEMMA WriteInv == ASSUME Inv, NEW s \in Sockets, NEW lens \in Payloads, write(s, lens) PROVE Inv'
<1> USE DEF Inv
<1>1. /\ handle[s] = "held" /\ mutex[s] = None
      /\ fds' = IF fd[s] # None /\ started[s] /\ sendBuffer[s].size = 0
                THEN watchFd(fd[s], {"WRITE"}, s) ELSE fds
      /\ \A r \in Sockets \ {s} : sendBuffer'[r] = sendBuffer[r]
      /\ DOMAIN sendBuffer' = Sockets
      /\ UNCHANGED <<handle, fd, started, disconnectCallback, mutex, tasks, at, received, told,
                     hushed>>
  BY ZenonT(60) DEF write, WatchesWrite, Types
<1>2. fds' \in [Fds -> [EventTypes -> Sockets \cup {None}]]
  BY <1>1 DEF watchFd, Types
<1>3. \A g \in Fds, y \in EventTypes :
        \/ fds'[g][y] = fds[g][y]
        \/ g = fd[s] /\ fds'[g][y] = s
  BY ZenonT(60), <1>1 DEF watchFd, Types
<1>4. \A u \in Threads : at[u].pc = "close" => at[u].s # s
  <2>1. SUFFICES ASSUME NEW u \in Threads, at[u].pc = "close", at[u].s = s PROVE FALSE
    BY Zenon
  <2>2. mutex[s] = u
    BY Zenon, <2>1 DEF Closing
  <2>3. None \notin Threads
    BY Zenon, TcpAssumption DEF Threads
  <2> QED BY Zenon, <1>1, <2>1, <2>2, <2>3
<1>5. Types' /\ Located' /\ Accepting' /\ UsedUp' /\ Hush'
  <2>1. Types'
    BY Zenon, <1>1, <1>2 DEF Types
  <2>2. Located' /\ UsedUp' /\ Hush'
    BY Zenon, <1>1 DEF Located, UsedUp, Hush
  <2>3. Accepting'
    BY ZenonT(60), <1>1 DEF Accepting
  <2> QED BY Zenon, <2>1, <2>2, <2>3
<1>6. Owners'
  <2>1. Owners /\ fd' = fd
    BY Zenon, <1>1
  <2> QED BY Zenon, <1>3, <2>1, OwnersKept
<1>7. Fresh'
  <2>1. \A r \in Sockets : handle[r] \in {"unborn", "backlog", "accepted"} => r # s
    BY Zenon, <1>1
  <2> QED BY <1>1, <1>3, <2>1 DEF Fresh, Unknown
<1>8. Closing'
  <2> SUFFICES ASSUME NEW u \in Threads, at[u].pc = "close"
               PROVE  /\ mutex[at[u].s] = u /\ fd[at[u].s] # None
                      /\ \A y \in EventTypes : fds'[fd[at[u].s]][y] = None
    BY ZenonT(60), <1>1 DEF Closing
  <2>1. at[u].s \in Sockets /\ at[u].s # s
    BY Zenon, <1>4, TcpAssumption DEF Located, Places, Calls
  <2>2. /\ mutex[at[u].s] = u /\ fd[at[u].s] # None
        /\ \A y \in EventTypes : fds[fd[at[u].s]][y] = None
    BY Zenon DEF Closing
  <2>3. fd[at[u].s] # fd[s]
    BY Zenon, <2>1, <2>2 DEF Owners
  <2>4. fd[at[u].s] \in Fds
    BY Zenon, <2>1, <2>2, Ranges
  <2> QED BY Zenon, <1>3, <2>2, <2>3, <2>4
<1>9. Watched'
  <2> SUFFICES ASSUME NEW r \in Sockets, fd[r] # None, started[r],
                      \A u \in Threads : at[u].pc = "close" => at[u].s # r
               PROVE  /\ fds'[fd[r]]["READ"] = r
                      /\ sendBuffer'[r].size # 0 => fds'[fd[r]]["WRITE"] = r
    BY ZenonT(60), <1>1 DEF Watched
  <2>1. fd[r] \in Fds /\ fds[fd[r]]["READ"] = r
    BY ZenonT(60) DEF Watched, Types
  <2>2. CASE r # s
    <3>1. fd[r] # fd[s] /\ sendBuffer'[r] = sendBuffer[r]
      BY Zenon, <1>1, <2>2 DEF Owners
    <3>2. \A y \in EventTypes : fds'[fd[r]][y] = fds[fd[r]][y]
      BY Zenon, <1>3, <2>1, <3>1
    <3>3. sendBuffer[r].size # 0 => fds[fd[r]]["WRITE"] = r
      BY Zenon DEF Watched
    <3> QED BY Zenon, <2>1, <3>1, <3>2, <3>3 DEF EventTypes
  <2>3. CASE r = s /\ sendBuffer[s].size # 0
    BY ZenonT(60), <1>3, <2>1, <2>3 DEF Watched, EventTypes
  <2>4. CASE r = s /\ sendBuffer[s].size = 0
    BY Zenon, <1>1, <2>1, <2>4 DEF watchFd, Types, EventTypes
  <2> QED BY Zenon, <2>2, <2>3, <2>4
<1> QED BY Zenon, <1>5, <1>6, <1>7, <1>8, <1>9

(* The user enters disconnect().                                           *)
LEMMA DisconnectCallInv == ASSUME Inv, NEW s \in Sockets, disconnect(s) PROVE Inv'
<1>1. Located /\ User \in Threads /\ "disconnect" \in Calls /\ Goto(User, "disconnect", s)
  BY Zenon DEF Inv, disconnect, Threads, Calls, TaskNames
<1>2. /\ Located' /\ at'[User].pc = "disconnect" /\ at'[User].s = s
      /\ \A u \in Threads \ {User} : at'[u] = at[u]
  BY Zenon, <1>1, Goes
<1>3. UNCHANGED seen /\ at[User].pc # "close" /\ handle[s] = "held"
  <2>1. UNCHANGED seen /\ at[User] = Idle /\ handle[s] = "held"
    BY Zenon DEF disconnect, seen, sockvars, history
  <2>2. Idle.pc = "idle"
    BY DEF Idle
  <2> QED BY Zenon, <2>1, <2>2
<1> QED BY Zenon, <1>1, <1>2, <1>3, Moves

-----------------------------------------------------------------------------
(* The worker loop: receiving, sending, waiting for an event and calling   *)
(* its handlers; and the peer.                                             *)

(* One turn of onReceive or onCanSend: the socket is not being closed, as  *)
(* the turn has its mutex; a handler is only taken away from a socket that *)
(* has nothing to send.                                                    *)
LEMMA TurnInv ==
  ASSUME Inv, NEW w \in Threads, NEW s \in Sockets,
         at[w].s = s, at[w].pc \in {"onReceive", "onCanSend"}, mutex[s] \in {None, w},
         UNCHANGED <<handle, fd, started, disconnectCallback, told, hushed>>,
         NEW m \in {None, w}, mutex' = [mutex EXCEPT ![s] = m],
         tasks' \in {tasks, tasks \cup {<<"disconnect", s>>}},
         Located', \A u \in Threads \ {w} : at'[u] = at[u], at'[w] = at[w] \/ at'[w].s = None,
         DOMAIN received' = Sockets, DOMAIN sendBuffer' = Sockets,
         \A r \in Sockets \ {s} : sendBuffer'[r] = sendBuffer[r],
         sendBuffer'[s].size # 0 => sendBuffer[s].size # 0,
         fds' \in [Fds -> [EventTypes -> Sockets \cup {None}]],
         \A g \in Fds, y \in EventTypes :
            \/ fds'[g][y] = fds[g][y]
            \/ /\ g = fd[s] /\ y = "WRITE" /\ fds'[g][y] = None
               /\ sendBuffer[s].size = 0 /\ sendBuffer' = sendBuffer
  PROVE  Inv'
<1> USE DEF Inv
<1>1. \A u \in Threads : at[u].pc = "close" => at[u].s # s
  <2>1. SUFFICES ASSUME NEW u \in Threads, at[u].pc = "close", at[u].s = s PROVE FALSE
    BY Zenon
  <2>2. mutex[s] = u
    BY ZenonT(60), <2>1 DEF Closing
  <2>3. None \notin Threads
    BY Zenon, TcpAssumption DEF Threads
  <2> QED BY Zenon, <2>1, <2>2, <2>3
<1>2. handle[s] \in {"held", "deleted"}
  <2>1. handle[s] \in Handles
    BY Zenon DEF Types
  <2>2. ~Unknown(s)
    BY Zenon DEF Unknown
  <2>3. handle[s] \notin {"unborn", "backlog", "accepted"}
    BY Zenon, <2>2 DEF Fresh
  <2> QED BY Zenon, <2>1, <2>3 DEF Handles
<1>3. at'[w].pc \notin {"close", "acceptCallback"}
  BY ZenonT(60), TcpAssumption DEF Located, Calls
<1>4. Types'
  BY DEF Types, TaskNames, Threads
<1>5. Owners'
  BY TcpAssumption DEF Owners
<1>6. UsedUp' /\ Hush'
  BY Zenon DEF UsedUp, Hush
<1>7. Fresh'
  <2> SUFFICES ASSUME NEW r \in Sockets, handle[r] \in {"unborn", "backlog", "accepted"}
               PROVE  Unknown(r)' /\ (handle[r] # "accepted" =>
                                        fd'[r] = None /\ \A u \in Threads : at'[u].s # r)
    BY Zenon DEF Fresh
  <2>1. r # s /\ Unknown(r)
    BY Zenon, <1>2 DEF Fresh
  <2>2. \A u \in Threads : at'[u].s = r => at'[u] = at[u]
    BY TcpAssumption
  <2>3. \A f \in Fds, y \in EventTypes : fds'[f][y] # r
    <3>1. r # None /\ \A f \in Fds, y \in EventTypes : fds[f][y] # r
      BY ZenonT(60), <2>1, TcpAssumption DEF Unknown
    <3>2. SUFFICES ASSUME NEW f \in Fds, NEW y \in EventTypes, fds'[f][y] = r PROVE FALSE
      BY Zenon
    <3>3. fds'[f][y] \in {fds[f][y], None}
      BY Zenon
    <3> QED BY Zenon, <3>1, <3>2, <3>3
  <2>4. mutex'[r] = None /\ \A k \in tasks' : k[2] # r
    <3>1. mutex'[r] = None
      BY ZenonT(60), <2>1 DEF Unknown, Types
    <3>2. \A k \in tasks' : k[2] # r
      BY <2>1 DEF Unknown
    <3> QED BY Zenon, <3>1, <3>2
  <2>5. Unknown(r)'
    BY ZenonT(60), <2>1, <2>2, <2>3, <2>4 DEF Unknown
  <2> QED BY <2>1, <2>2, <2>5 DEF Fresh
<1>8. Accepting'
  <2> SUFFICES ASSUME NEW u \in Threads, at'[u].pc = "acceptCallback"
               PROVE  /\ handle[at'[u].s] = "accepted" /\ fd[at'[u].s] # None
                      /\ \A r \in Threads : at'[r].s = at'[u].s => r = u
    BY Zenon DEF Accepting
  <2>1. u # w /\ at'[u] = at[u] /\ at[u].s \in Sockets
    BY ZenonT(60), <1>3, TcpAssumption DEF Located, Places, Calls
  <2>2. /\ handle[at[u].s] = "accepted" /\ fd[at[u].s] # None
        /\ \A r \in Threads : at[r].s = at[u].s => r = u
    BY ZenonT(60), <2>1 DEF Accepting
  <2>3. at'[w].s # at[u].s
    BY ZenonT(60), <2>1, <2>2, TcpAssumption
  <2> QED BY ZenonT(60), <2>1, <2>2, <2>3
<1>9. Closing'
  <2> SUFFICES ASSUME NEW u \in Threads, at'[u].pc = "close"
               PROVE  /\ mutex'[at'[u].s] = u /\ fd[at'[u].s] # None
                      /\ \A y \in EventTypes : fds'[fd[at'[u].s]][y] = None
    BY ZenonT(60) DEF Closing
  <2>1. at'[u] = at[u] /\ at[u].s \in Sockets /\ at[u].s # s
    <3>1. at'[u] = at[u]
      BY Zenon, <1>3
    <3>2. at[u].s # None /\ at[u] \in Places
      BY Zenon, <3>1 DEF Located, Calls
    <3> QED BY Zenon, <1>1, <3>1, <3>2 DEF Places
  <2>2. /\ mutex[at[u].s] = u /\ fd[at[u].s] # None
        /\ \A y \in EventTypes : fds[fd[at[u].s]][y] = None
    BY ZenonT(60), <2>1 DEF Closing
  <2>3. fd[at[u].s] # fd[s] /\ fd[at[u].s] \in Fds
    <3>1. fd[at[u].s] # fd[s]
      BY ZenonT(60), <2>1, <2>2 DEF Owners
    <3>2. fd[at[u].s] \in Fds
      BY Zenon, <2>1, <2>2, Ranges
    <3> QED BY Zenon, <3>1, <3>2
  <2>4. mutex'[at[u].s] = mutex[at[u].s]
    BY Zenon, <2>1 DEF Types
  <2>5. \A y \in EventTypes : fds'[fd[at[u].s]][y] = fds[fd[at[u].s]][y]
    BY Zenon, <2>3
  <2> QED BY ZenonT(60), <2>1, <2>2, <2>4, <2>5
<1>10. Watched'
  <2> SUFFICES ASSUME NEW r \in Sockets, fd[r] # None, started[r],
                      \A u \in Threads : at'[u].pc = "close" => at'[u].s # r
               PROVE  /\ fds'[fd[r]]["READ"] = r
                      /\ sendBuffer'[r].size # 0 => fds'[fd[r]]["WRITE"] = r
    BY Zenon DEF Watched
  <2>1. \A u \in Threads : at[u].pc = "close" => at[u].s # r
    BY ZenonT(60)
  <2>2. fds[fd[r]]["READ"] = r /\ (sendBuffer[r].size # 0 => fds[fd[r]]["WRITE"] = r)
    BY Zenon, <2>1 DEF Watched
  <2> fd[r] \in Fds
    BY Zenon, Ranges
  <2>3. CASE r # s
    <3>1. fd[r] # fd[s]
      BY Zenon, <2>3 DEF Owners
    <3> QED BY Zenon, <2>2, <2>3, <3>1 DEF EventTypes
  <2>4. CASE r = s
    BY Zenon, <2>2, <2>4 DEF EventTypes
  <2> QED BY Zenon, <2>3, <2>4
<1> QED BY ZenonT(60), <1>4, <1>5, <1>6, <1>7, <1>8, <1>9, <1>10

(* onReceive leaves the handlers alone.                                    *)
LEMMA OnReceiveInv == ASSUME Inv, NEW w \in Workers, onReceive(w) PROVE Inv'
<1> USE DEF Inv
<1>1. w \in Threads
  BY Zenon DEF Threads
<1>2. PICK s \in Sockets : at[w].s = s
  BY Zenon, <1>1, TcpAssumption DEF onReceive, Located, Places, Calls, TaskNames
<1>3. at[w].pc = "onReceive" /\ mutex[s] \in {None, w}
      /\ UNCHANGED <<handle, fd, started, disconnectCallback, sendBuffer, fds, told, hushed>>
      /\ DOMAIN received' = Sockets
      /\ tasks' \in {tasks, tasks \cup {<<"disconnect", s>>}}
  BY Zenon, <1>2 DEF onReceive, Unlocked, Types
<1>4. /\ fds' \in [Fds -> [EventTypes -> Sockets \cup {None}]] /\ DOMAIN sendBuffer' = Sockets
      /\ \A g \in Fds, y \in EventTypes : fds'[g][y] = fds[g][y]
  BY Zenon, <1>3 DEF Types
<1>5. CASE mutex' = [mutex EXCEPT ![s] = w] /\ at' = at
  BY Zenon, <1>1, <1>2, <1>3, <1>4, <1>5, TurnInv DEF Located
<1>6. CASE mutex' = [mutex EXCEPT ![s] = None] /\ Return(w)
  <2>1. Located' /\ (\A u \in Threads \ {w} : at'[u] = at[u]) /\ at'[w].s = None
    BY Zenon, <1>1, <1>6, Returns
  <2> QED BY Zenon, <1>1, <1>2, <1>3, <1>4, <1>6, <2>1, TurnInv
<1> QED BY Zenon, <1>2, <1>5, <1>6 DEF onReceive, Unlock

(* onCanSend takes WRITE away when there is nothing left to send.          *)
LEMMA OnCanSendInv == ASSUME Inv, NEW w \in Workers, onCanSend(w) PROVE Inv'
<1> USE DEF Inv
<1>1. w \in Threads
  BY Zenon DEF Threads
<1>2. PICK s \in Sockets : at[w].s = s
  BY Zenon, <1>1, TcpAssumption DEF onCanSend, Located, Places, Calls, TaskNames
<1> DEFINE sz == IF sendBuffer[s].size < MaxSendSize THEN sendBuffer[s].size ELSE MaxSendSize
<1>3. (sz > 0 => sendBuffer[s].size # 0) /\ (sz = 0 => sendBuffer[s].size = 0)
  BY TcpAssumption
<1>4. at[w].pc = "onCanSend" /\ mutex[s] \in {None, w}
      /\ UNCHANGED <<handle, fd, started, disconnectCallback, received, told, hushed>>
      /\ tasks' \in {tasks, tasks \cup {<<"disconnect", s>>}}
      /\ DOMAIN sendBuffer' = Sockets
      /\ \A r \in Sockets \ {s} : sendBuffer'[r] = sendBuffer[r]
  <2>1. \E b : sendBuffer' \in {sendBuffer, [sendBuffer EXCEPT ![s] = b]}
    BY Zenon, <1>2 DEF onCanSend
  <2>2. at[w].pc = "onCanSend" /\ mutex[s] \in {None, w}
        /\ UNCHANGED <<handle, fd, started, disconnectCallback, received, told, hushed>>
    BY Zenon, <1>2 DEF onCanSend, Unlocked
  <2>3. tasks' \in {tasks, tasks \cup {<<"disconnect", s>>}}
    BY Zenon, <1>2 DEF onCanSend
  <2> QED BY Zenon, <2>1, <2>2, <2>3 DEF Types
<1>5. sendBuffer'[s].size # 0 => sendBuffer[s].size # 0
  BY Zenon, <1>2, <1>3 DEF onCanSend
<1>6. \/ fds' = fds
      \/ /\ fd[s] # None /\ sz = 0 /\ fds' = removeFd(fd[s], {"WRITE"}) /\ sendBuffer' = sendBuffer
  <2>1. sz = 0 => ~(sz > 0)
    OBVIOUS
  <2>2. fds' # fds => fd[s] # None /\ sz = 0 /\ fds' = removeFd(fd[s], {"WRITE"})
    BY Zenon, <1>2 DEF onCanSend
  <2>3. sz = 0 => sendBuffer' = sendBuffer
    BY ZenonT(60), <1>2, <2>1 DEF onCanSend
  <2> QED BY Zenon, <2>2, <2>3
<1>7. /\ fds' \in [Fds -> [EventTypes -> Sockets \cup {None}]]
      /\ \A g \in Fds, y \in EventTypes :
            \/ fds'[g][y] = fds[g][y]
            \/ /\ g = fd[s] /\ y = "WRITE" /\ fds'[g][y] = None
               /\ sendBuffer[s].size = 0 /\ sendBuffer' = sendBuffer
  BY <1>3, <1>6 DEF removeFd, watchFd, Types
<1>8. DOMAIN received' = Sockets
  BY Zenon, <1>4 DEF Types
<1> HIDE DEF sz
<1>9. CASE mutex' = [mutex EXCEPT ![s] = w] /\ at' = at
  BY ZenonT(60), <1>1, <1>2, <1>4, <1>5, <1>7, <1>8, <1>9, TurnInv DEF Located
<1>10. CASE mutex' = [mutex EXCEPT ![s] = None] /\ Return(w)
  <2>1. Located' /\ (\A u \in Threads \ {w} : at'[u] = at[u]) /\ at'[w].s = None
    BY Zenon, <1>1, <1>10, Returns
  <2> QED BY ZenonT(60), <1>1, <1>2, <1>4, <1>5, <1>7, <1>8, <1>10, <2>1, TurnInv
<1> QED BY Zenon, <1>2, <1>9, <1>10 DEF onCanSend, Unlock

-----------------------------------------------------------------------------
(* The worker loop.  A handler, like a task, names a socket with a past.   *)
LEMMA EpollWaitInv == ASSUME Inv, NEW w \in Workers, epoll_wait(w) PROVE Inv'
<1>1. /\ w \in Threads /\ Located /\ at[w].pc = "idle" /\ UNCHANGED seen
      /\ \A f \in ReadyFds : f \in Fds \cup {Listener}
  BY Zenon DEF Threads, Inv, epoll_wait, seen, sockvars, history, ReadyFds
<1>2. /\ at'[w] \in Places /\ at'[w].s = None /\ at'[w].pc \in {"event", "tasks"}
      /\ (at'[w].pc = "event" => at'[w].ev # None) /\ (at'[w].ev # None => at'[w].type # None)
  <2>1. at[w] \in Places /\ at[w].s = None /\ (at[w].ev # None => at[w].type # None)
    BY Zenon, <1>1 DEF Located, Calls, TaskNames
  <2>2. CASE at' = [at EXCEPT ![w].pc = "tasks"]
    BY Zenon, <1>1, <2>1, <2>2 DEF Located, Places
  <2>3. ASSUME NEW f \in ReadyFds,
               at' = [at EXCEPT ![w] = [@ EXCEPT !.pc = "event", !.ev = f, !.type = "READ"]]
        PROVE  /\ at'[w] \in Places /\ at'[w].s = None /\ at'[w].pc = "event"
               /\ at'[w].ev # None /\ at'[w].type # None
    <3>1. at'[w] = [at[w] EXCEPT !.pc = "event", !.ev = f, !.type = "READ"]
      BY Zenon, <1>1, <2>3 DEF Located
    <3>2. "READ" \in EventTypes /\ f \in Fds \cup {Listener} /\ f # None
      BY Zenon, <1>1, TcpAssumption DEF EventTypes
    <3>3. /\ at'[w].pc = "event" /\ at'[w].s = None /\ at'[w].ev = f /\ at'[w].type = "READ"
          /\ at'[w] \in Places
      BY ZenonT(60), <2>1, <3>1, <3>2 DEF Places
    <3> QED BY Zenon, <3>2, <3>3, TcpAssumption
  <2> QED BY Zenon, <2>2, <2>3 DEF epoll_wait
<1>3. at' = [u \in Threads |-> at'[u]] /\ \A u \in Threads \ {w} : at'[u] = at[u]
  BY Zenon, <1>1 DEF epoll_wait, Located
<1>4. Located'
  BY ZenonT(60), <1>1, <1>2, <1>3 DEF Located, Calls, TaskNames
<1> QED BY Zenon, <1>1, <1>2, <1>3, <1>4, Moves

(* dispatch() enters the handler of a socket or of the listener.           *)
LEMMA DispatchInv == ASSUME Inv, NEW w \in Workers, dispatch(w) PROVE Inv'
<1>1. w \in Threads /\ Located /\ at[w].pc = "event" /\ UNCHANGED seen
  BY Zenon DEF Threads, Inv, dispatch, seen, sockvars, history
<1>2. at[w].ev \in Fds \cup {Listener} /\ at[w].type \in EventTypes
  BY Zenon, <1>1, TcpAssumption DEF Located, Places
<1> DEFINE h == Handler(at[w].ev, at[w].type)
<1>3. h \in Sockets \cup {Listener, None} /\ (h \in Sockets => handle[h] \in {"held", "deleted"})
  <2>1. h \in Sockets \cup {Listener, None}
        /\ (h \in Sockets => at[w].ev \in Fds /\ h = fds[at[w].ev][at[w].type])
    <3>1. CASE at[w].ev = Listener
      BY Zenon, <3>1, TcpAssumption DEF Handler
    <3>2. CASE at[w].ev # Listener
      <4>1. at[w].ev \in Fds /\ h = fds[at[w].ev][at[w].type]
        BY Zenon, <1>2, <3>2 DEF Handler
      <4>2. fds[at[w].ev][at[w].type] \in Sockets \cup {None}
        BY Zenon, <1>2, <4>1, Ranges DEF Inv
      <4> QED BY Zenon, <4>1, <4>2
    <3> QED BY Zenon, <3>1, <3>2
  <2>2. h \in Sockets => ~Unknown(h)
    BY Zenon, <1>2, <2>1 DEF Unknown
  <2>3. h \in Sockets => handle[h] \in Handles /\ handle[h] \notin {"unborn", "backlog", "accepted"}
    BY Zenon, <2>2 DEF Inv, Types, Fresh
  <2> QED BY Zenon, <2>1, <2>3 DEF Handles
<1>4. /\ at'[w] = [pc |-> IF h # None THEN Callback(h, at[w].type)
                           ELSE IF at[w].type = "WRITE" THEN "tasks" ELSE "event",
                   s |-> IF h \in Sockets THEN h ELSE None,
                   ev |-> IF at[w].type = "WRITE" THEN None ELSE at[w].ev,
                   type |-> IF at[w].type = "WRITE" THEN None ELSE "WRITE"]
      /\ at' = [u \in Threads |-> at'[u]] /\ \A u \in Threads \ {w} : at'[u] = at[u]
  BY Zenon, <1>1 DEF dispatch, Located
<1> HIDE DEF h
<1>5. /\ at'[w] \in Places /\ at'[w].pc \in {"onAccept", "onReceive", "onCanSend", "event", "tasks"}
      /\ at'[w].pc \in Calls <=> at'[w].s # None
      /\ (at'[w].pc = "event" => at'[w].ev # None) /\ (at'[w].ev # None => at'[w].type # None)
      /\ (at'[w].s # None => at'[w].s = h /\ h \in Sockets)
  <2>1. at'[w].pc \in {"onAccept", "onReceive", "onCanSend", "event", "tasks"}
    BY <1>4 DEF Callback
  <2>2. at'[w].s = IF h \in Sockets THEN h ELSE None
    BY <1>4
  <2>3. at'[w].pc \in Calls <=> h \in Sockets
    BY <1>3, <1>4, TcpAssumption DEF Callback, Calls, TaskNames
  <2>4. /\ at'[w].ev \in Fds \cup {Listener, None} /\ at'[w].type \in EventTypes \cup {None}
        /\ at'[w].pc = "event" => at'[w].ev # None
        /\ at'[w].ev # None => at'[w].type = "WRITE"
    BY <1>2, <1>3, <1>4, TcpAssumption DEF Callback, EventTypes
  <2>5. at'[w] \in Places
    BY Zenon, <1>4, <2>1, <2>2, <2>4 DEF Places, Calls, TaskNames
  <2> QED BY Zenon, <2>1, <2>2, <2>3, <2>4, <2>5, TcpAssumption DEF EventTypes
<1>6. Located'
  BY ZenonT(60), <1>1, <1>4, <1>5 DEF Located
<1> QED BY Zenon, <1>1, <1>3, <1>4, <1>5, <1>6, Moves

(* A connection that enters the backlog is still unknown.                  *)
LEMMA PeerConnectsInv == ASSUME Inv, NEW s \in Sockets, PeerConnects(s) PROVE Inv'
<1> USE DEF Inv, PeerConnects, history
<1>1. Types' /\ Located' /\ Closing' /\ Owners' /\ Watched' /\ UsedUp'
  <2>1. Types'
    BY Zenon DEF Types, Handles
  <2>2. Located' /\ UsedUp'
    BY Zenon DEF Located, UsedUp
  <2>3. Closing' /\ Owners'
    <3>1. Closing'
      BY Zenon DEF Closing
    <3>2. Owners'
      BY Zenon, OwnersSame
    <3> QED BY Zenon, <3>1, <3>2
  <2>4. Watched'
    BY Zenon DEF Watched
  <2> QED BY Zenon, <2>1, <2>2, <2>3, <2>4
<1>2. Fresh' /\ Hush'
  <2>1. /\ handle[s] = "unborn" /\ handle'[s] = "backlog"
        /\ \A r \in Sockets \ {s} : handle'[r] = handle[r]
    BY Zenon DEF Types
  <2>2. Hush'
    BY Zenon, <2>1 DEF Hush
  <2>3. \A r \in Sockets : Unknown(r) => Unknown(r)'
    BY Zenon DEF Unknown
  <2>4. Fresh'
    BY Zenon, <2>1, <2>3 DEF Fresh
  <2> QED BY Zenon, <2>2, <2>4
<1>3. Accepting'
  <2>1. \A t \in Threads : at[t].s # s
    BY Zenon DEF Fresh
  <2>2. \A t \in Threads : at[t].pc = "acceptCallback" => at[t].s \in Sockets
    BY Zenon, TcpAssumption DEF Located, Places, Calls
  <2> QED BY Zenon, <2>1, <2>2 DEF Accepting, Types
<1> QED BY Zenon, <1>1, <1>2, <1>3

(* The disconnect callback returns to the worker loop.                     *)
LEMMA CallbackReturnsInv ==
  ASSUME Inv, NEW w \in Workers, disconnectCallbackReturns(w) PROVE Inv'
<1>1. w \in Threads /\ Located /\ at[w].pc # "close" /\ Return(w) /\ UNCHANGED seen
  BY Zenon DEF Threads, Inv, disconnectCallbackReturns, seen, sockvars, history
<1>2. Located' /\ (\A u \in Threads \ {w} : at'[u] = at[u]) /\ at'[w].s = None
      /\ at'[w].pc \notin {"close", "acceptCallback"}
  BY Zenon, <1>1, Returns
<1> QED BY Zenon, <1>1, <1>2, Moves

(* The kernel's side, and the listener's, which the invariant does not see.*)
LEMMA UnseenInv ==
  ASSUME Inv, \/ shutdown \/ UNCHANGED vars
              \/ \E s \in Sockets : PeerSends(s) \/ PeerReads(s) \/ PeerEnds(s)
  PROVE  Inv'
<1>1. UNCHANGED <<seen, at>>
  BY Zenon DEF shutdown, vars, PeerSends, PeerReads, PeerEnds, seen, sockvars, history
<1> QED BY Zenon, <1>1, Stutters
=============================================================================
