-------------------------- MODULE TcpSocketProofs ---------------------------
(***************************************************************************)
(* For any sockets, descriptors and workers: the handler table agrees with *)
(* the sockets, a socket deleted while open stays quiet, and nothing       *)
(* follows the disconnect callback.  The steps not treated in TcpSocketInv *)
(* are those of ending a connection and of accepting.                      *)
(***************************************************************************)
EXTENDS TcpSocketInv

(* The destructor: the callback goes before the descriptor does.           *)
LEMMA DeleteInv == ASSUME Inv, NEW t \in Threads, NEW s \in Sockets, Delete(t, s) PROVE Inv'
<1> USE DEF Inv
<1>1. /\ Located' /\ at'[t].pc = "disconnect" /\ at'[t].s = s
      /\ \A u \in Threads \ {t} : at'[u] = at[u]
  BY Zenon, Goes DEF Delete, Calls, TaskNames
<1>2. at[t].pc \in {"idle", "disconnectCallback"} /\ handle[s] = "held"
  BY DEF Delete, Idle
<1>3. Types' /\ Owners'
  BY DEF Delete, Silenced, Types, Owners, Handles
<1>4. UsedUp' /\ Hush'
  BY ZenonT(60) DEF Delete, Silenced, Types, UsedUp, Hush
<1>5. Fresh'
  <2> SUFFICES ASSUME NEW r \in Sockets, handle'[r] \in {"unborn", "backlog", "accepted"}
               PROVE  Unknown(r)' /\ (handle'[r] # "accepted" =>
                                        fd'[r] = None /\ \A u \in Threads : at'[u].s # r)
    BY Zenon DEF Fresh
  <2>1. r # s /\ handle'[r] = handle[r] /\ Unknown(r)
    BY Zenon DEF Fresh, Delete, Types
  <2>2. \A u \in Threads : at'[u].s = r => at'[u] = at[u]
    BY Zenon, <1>1, <2>1
  <2>3. Unknown(r)'
    BY ZenonT(60), <2>1, <2>2 DEF Unknown, Delete, Silenced, Types
  <2> QED BY ZenonT(60), <2>1, <2>2, <2>3 DEF Fresh, Delete
<1>6. Accepting'
  <2> SUFFICES ASSUME NEW u \in Threads, at'[u].pc = "acceptCallback"
               PROVE  /\ handle'[at'[u].s] = "accepted" /\ fd'[at'[u].s] # None
                      /\ \A r \in Threads : at'[r].s = at'[u].s => r = u
    BY Zenon DEF Accepting
  <2>1. u # t /\ at'[u] = at[u] /\ at[u].s \in Sockets
    BY Zenon, <1>1, TcpAssumption DEF Located, Places, Calls
  <2>2. at[u].s # s
    BY Zenon, <1>2, <2>1 DEF Accepting
  <2> QED BY ZenonT(60), <1>1, <2>1, <2>2 DEF Accepting, Delete, Types
<1>7. Closing'
  BY <1>1 DEF Closing, Delete
<1>8. Watched'
  <2>1. UNCHANGED <<fd, fds, started, sendBuffer>>
    BY Zenon DEF Delete
  <2>2. \A u \in Threads : at[u].pc = "close" => at'[u] = at[u]
    BY Zenon, <1>1, <1>2
  <2> QED BY <2>1, <2>2 DEF Watched
<1> QED BY Zenon, <1>1, <1>3, <1>4, <1>5, <1>6, <1>7, <1>8

(* The three parts of disconnect().                                        *)
LEMMA DisconnectBeginInv == ASSUME Inv, NEW t \in Threads, DisconnectBegin(t) PROVE Inv'
<1> USE DEF Inv
<1>1. PICK s \in Sockets : at[t].s = s
  BY Zenon, TcpAssumption DEF DisconnectBegin, Located, Places, Calls, TaskNames
<1>2. /\ at[t].pc = "disconnect" /\ mutex[s] = None
      /\ UNCHANGED <<handle, fd, started, disconnectCallback, sendBuffer, tasks, told, hushed,
                     received>>
  BY Zenon, <1>1 DEF DisconnectBegin, sockvars, history
<1>3. handle[s] \in {"held", "deleted"}
  BY <1>1, <1>2 DEF Fresh, Unknown, Types, Handles
<1>4. CASE fd[s] = None
  <2>1. Return(t) /\ UNCHANGED <<mutex, fds>>
    BY Zenon, <1>1, <1>4 DEF DisconnectBegin
  <2>2. Located' /\ (\A u \in Threads \ {t} : at'[u] = at[u]) /\ at'[t].s = None
        /\ at'[t].pc \notin {"close", "acceptCallback"}
    BY Zenon, <2>1, Returns
  <2> QED BY Zenon, <1>2, <2>1, <2>2, Moves DEF seen
<1>5. CASE fd[s] # None
  <2>1. mutex' = [mutex EXCEPT ![s] = t] /\ fds' = removeFd(fd[s], EventTypes)
        /\ Goto(t, "close", s)
    BY Zenon, <1>1, <1>5 DEF DisconnectBegin
  <2>2. /\ Located' /\ at'[t].pc = "close" /\ at'[t].s = s
        /\ \A u \in Threads \ {t} : at'[u] = at[u]
    BY Zenon, <2>1, Goes DEF Calls
  <2>3. fd[s] \in Fds /\ fds' \in [Fds -> [EventTypes -> Sockets \cup {None}]]
        /\ \A g \in Fds, y \in EventTypes :
             fds'[g][y] = IF g = fd[s] THEN None ELSE fds[g][y]
    BY Zenon, <1>5, <2>1 DEF removeFd, watchFd, Types
  <2>4. Types' /\ UsedUp' /\ Hush'
    BY ZenonT(60), <1>2, <2>1, <2>3 DEF Types, UsedUp, Hush
  <2>5. Owners'
    BY <1>2, <2>3, TcpAssumption DEF Owners
  <2>6. Fresh'
    <3> SUFFICES ASSUME NEW r \in Sockets, handle[r] \in {"unborn", "backlog", "accepted"}
                 PROVE  Unknown(r)' /\ (handle[r] # "accepted" =>
                                          fd'[r] = None /\ \A u \in Threads : at'[u].s # r)
      BY Zenon, <1>2 DEF Fresh
    <3>1. r # s /\ Unknown(r)
      BY Zenon, <1>3 DEF Fresh
    <3>2. \A u \in Threads : at'[u].s = r => at'[u] = at[u]
      BY Zenon, <2>2, <3>1
    <3>3. \A f \in Fds, y \in EventTypes : fds'[f][y] # r
      BY <2>3, <3>1, TcpAssumption DEF Unknown
    <3>4. mutex'[r] = None
      BY Zenon, <2>1, <3>1 DEF Unknown, Types
    <3>5. Unknown(r)'
      BY Zenon, <1>2, <3>1, <3>2, <3>3, <3>4 DEF Unknown
    <3> QED BY ZenonT(60), <1>2, <3>1, <3>2, <3>5 DEF Fresh
  <2>7. Accepting'
    <3> SUFFICES ASSUME NEW u \in Threads, at'[u].pc = "acceptCallback"
                 PROVE  /\ handle[at'[u].s] = "accepted" /\ fd[at'[u].s] # None
                        /\ \A r \in Threads : at'[r].s = at'[u].s => r = u
      BY Zenon, <1>2 DEF Accepting
    <3>1. u # t /\ at'[u] = at[u]
      BY Zenon, <2>2
    <3>2. at[u].s # s
      BY Zenon, <1>3, <3>1 DEF Accepting
    <3> QED BY ZenonT(60), <2>2, <3>1, <3>2 DEF Accepting
  <2>8. Closing'
    <3> SUFFICES ASSUME NEW u \in Threads, at'[u].pc = "close"
                 PROVE  /\ mutex'[at'[u].s] = u /\ fd[at'[u].s] # None
                        /\ \A y \in EventTypes : fds'[fd[at'[u].s]][y] = None
      BY ZenonT(60), <1>2 DEF Closing
    <3>1. CASE u = t
      BY Zenon, <1>5, <2>1, <2>2, <2>3, <3>1 DEF Types
    <3>2. CASE u # t
      <4>1. at'[u] = at[u] /\ at[u].s \in Sockets
        BY ZenonT(60), <2>2, <3>2, TcpAssumption DEF Located, Places, Calls
      <4>2. at[u].s # s /\ fd[at[u].s] \in Fds
        BY <1>2, <4>1, TcpAssumption DEF Closing, Types, Threads
      <4>3. /\ mutex[at[u].s] = u /\ fd[at[u].s] # None
            /\ \A y \in EventTypes : fds[fd[at[u].s]][y] = None
        BY Zenon, <4>1 DEF Closing
      <4>4. mutex'[at[u].s] = mutex[at[u].s]
        BY Zenon, <2>1, <4>1, <4>2 DEF Types
      <4>5. \A y \in EventTypes : fds'[fd[at[u].s]][y] = None
        BY ZenonT(60), <2>3, <4>2, <4>3
      <4> QED BY Zenon, <4>1, <4>3, <4>4, <4>5
    <3> QED BY Zenon, <3>1, <3>2
  <2>9. Watched'
    <3> SUFFICES ASSUME NEW r \in Sockets, fd[r] # None, started[r],
                        \A u \in Threads : at'[u].pc = "close" => at'[u].s # r
                 PROVE  /\ fds'[fd[r]]["READ"] = r
                        /\ sendBuffer[r].size # 0 => fds'[fd[r]]["WRITE"] = r
      BY Zenon, <1>2 DEF Watched
    <3>1. r # s /\ \A u \in Threads : at[u].pc = "close" => at[u].s # r
      BY Zenon, <1>2, <2>2
    <3>2. fd[r] # fd[s] /\ fd[r] \in Fds
      BY ZenonT(60), <3>1 DEF Owners, Types
    <3> QED BY ZenonT(60), <2>3, <3>1, <3>2 DEF Watched, EventTypes
  <2> QED BY Zenon, <2>2, <2>4, <2>5, <2>6, <2>7, <2>8, <2>9
<1> QED BY Zenon, <1>4, <1>5

(* Second part: the descriptor goes.                                       *)
LEMMA DisconnectEndInv == ASSUME Inv, NEW t \in Threads, DisconnectEnd(t) PROVE Inv'
<1> USE DEF Inv
<1>1. PICK s \in Sockets : at[t].s = s
  BY Zenon, TcpAssumption DEF DisconnectEnd, Located, Places, Calls
<1>2. /\ at[t].pc = "close" /\ fd' = [fd EXCEPT ![s] = None]
      /\ \/ Goto(t, "enqueue", s) /\ mutex' = mutex
         \/ Return(t) /\ mutex' = [mutex EXCEPT ![s] = None]
      /\ UNCHANGED <<handle, started, disconnectCallback, sendBuffer, fds, tasks, told, hushed,
                     received>>
  BY Zenon, <1>1 DEF DisconnectEnd, Closed, Unlock, history
<1>3. /\ Located' /\ at'[t].s \in {None, s} /\ at'[t].pc \notin {"close", "acceptCallback"}
      /\ \A u \in Threads \ {t} : at'[u] = at[u]
  <2>1. CASE Goto(t, "enqueue", s)
    <3>1. Located' /\ at'[t].pc = "enqueue" /\ at'[t].s = s
          /\ \A u \in Threads \ {t} : at'[u] = at[u]
      BY Zenon, <2>1, Goes DEF Calls
    <3> QED BY Zenon, <3>1
  <2>2. CASE Return(t)
    BY Zenon, <2>2, Returns
  <2> QED BY Zenon, <1>2, <2>1, <2>2
<1>4. /\ fd[s] # None /\ mutex[s] = t /\ handle[s] \in {"held", "deleted"}
      /\ \A g \in Fds, y \in EventTypes : fds[g][y] # s
  <2>1. fd[s] # None /\ mutex[s] = t /\ \A y \in EventTypes : fds[fd[s]][y] = None
    BY ZenonT(60), <1>1, <1>2 DEF Closing
  <2>2. handle[s] \in {"held", "deleted"}
    BY <1>1, <1>2 DEF Fresh, Unknown, Types, Handles
  <2>3. \A g \in Fds, y \in EventTypes : fds[g][y] # s
    BY <2>1, TcpAssumption DEF Owners
  <2> QED BY Zenon, <2>1, <2>2, <2>3
<1>5. Types' /\ \A r \in Sockets \ {s} : mutex'[r] = mutex[r] /\ fd'[r] = fd[r]
  BY ZenonT(60), <1>2 DEF Types
<1>6. Owners'
  BY <1>2, <1>4 DEF Owners, Types
<1>7. UsedUp' /\ Hush'
  BY Zenon, <1>2, <1>4 DEF UsedUp, Hush, Types
<1>8. Fresh'
  <2> SUFFICES ASSUME NEW r \in Sockets, handle[r] \in {"unborn", "backlog", "accepted"}
               PROVE  Unknown(r)' /\ (handle[r] # "accepted" =>
                                        fd'[r] = None /\ \A u \in Threads : at'[u].s # r)
    BY Zenon, <1>2 DEF Fresh
  <2>1. r # s /\ Unknown(r) /\ mutex'[r] = mutex[r] /\ fd'[r] = fd[r]
    BY Zenon, <1>4, <1>5 DEF Fresh
  <2>2. \A u \in Threads : at'[u].s = r => at'[u] = at[u]
    BY Zenon, <1>3, <2>1, TcpAssumption
  <2>3. Unknown(r)'
    BY ZenonT(60), <1>2, <2>1, <2>2 DEF Unknown
  <2> QED BY ZenonT(60), <2>1, <2>2, <2>3 DEF Fresh
<1>9. Accepting'
  <2> SUFFICES ASSUME NEW u \in Threads, at'[u].pc = "acceptCallback"
               PROVE  /\ handle[at'[u].s] = "accepted" /\ fd'[at'[u].s] # None
                      /\ \A r \in Threads : at'[r].s = at'[u].s => r = u
    BY Zenon, <1>2 DEF Accepting
  <2>1. u # t /\ at'[u] = at[u] /\ at[u].s \in Sockets
    BY Zenon, <1>3, TcpAssumption DEF Located, Places, Calls
  <2>2. at[u].s # s /\ fd'[at[u].s] = fd[at[u].s] /\ at'[t].s # at[u].s
    BY ZenonT(60), <1>3, <1>4, <1>5, <2>1, TcpAssumption DEF Accepting
  <2> QED BY <1>3, <2>1, <2>2 DEF Accepting
<1>10. Closing'
  <2> SUFFICES ASSUME NEW u \in Threads, at'[u].pc = "close"
               PROVE  /\ mutex'[at'[u].s] = u /\ fd'[at'[u].s] # None
                      /\ \A y \in EventTypes : fds[fd'[at'[u].s]][y] = None
    BY ZenonT(60), <1>2 DEF Closing
  <2>1. u # t /\ at'[u] = at[u] /\ at[u].s \in Sockets
    BY Zenon, <1>3, TcpAssumption DEF Located, Places, Calls
  <2>2. at[u].s # s
    BY Zenon, <1>4, <2>1 DEF Closing
  <2>3. mutex'[at[u].s] = mutex[at[u].s] /\ fd'[at[u].s] = fd[at[u].s]
    BY Zenon, <1>5, <2>1, <2>2
  <2>4. /\ mutex[at[u].s] = u /\ fd[at[u].s] # None
        /\ \A y \in EventTypes : fds[fd[at[u].s]][y] = None
    BY Zenon, <2>1 DEF Closing
  <2> QED BY Zenon, <2>1, <2>3, <2>4
<1>11. Watched'
  <2> SUFFICES ASSUME NEW r \in Sockets, fd'[r] # None, started[r],
                      \A u \in Threads : at'[u].pc = "close" => at'[u].s # r
               PROVE  /\ fds[fd'[r]]["READ"] = r
                      /\ sendBuffer[r].size # 0 => fds[fd'[r]]["WRITE"] = r
    BY Zenon, <1>2 DEF Watched
  <2>1. r # s /\ fd'[r] = fd[r]
    BY Zenon, <1>2 DEF Types
  <2>2. \A u \in Threads : at[u].pc = "close" => at[u].s # r
    BY Zenon, <1>1, <1>3, <2>1
  <2> QED BY ZenonT(60), <2>1, <2>2 DEF Watched
<1> QED BY Zenon, <1>3, <1>5, <1>6, <1>7, <1>8, <1>9, <1>10, <1>11

(* Third part: the callback is queued, or an empty function is, and the    *)
(* callback is gone.                                                       *)
LEMMA DisconnectTellsInv ==
  ASSUME Inv, Telling, NEW t \in Threads, DisconnectTells(t) PROVE Inv'
<1> USE DEF Inv
<1>1. PICK s \in Sockets : at[t].s = s
  BY Zenon, TcpAssumption DEF DisconnectTells, Located, Places, Calls
<1>2. /\ at[t].pc = "enqueue" /\ Return(t) /\ mutex' = [mutex EXCEPT ![s] = None]
      /\ disconnectCallback' = [disconnectCallback EXCEPT ![s] = FALSE]
      /\ \/ tasks' = tasks \cup {<<"empty", s>>}
         \/ disconnectCallback[s] /\ tasks' = tasks \cup {<<"disconnectCallback", s>>}
      /\ UNCHANGED <<handle, fd, started, sendBuffer, fds, told, hushed, received>>
  BY Zenon, <1>1 DEF DisconnectTells, Unlock, history
<1>3. /\ Located' /\ at'[t].s = None /\ at'[t].pc \notin {"close", "acceptCallback"}
      /\ \A u \in Threads \ {t} : at'[u] = at[u]
  BY Zenon, <1>2, Returns
<1>4. fd[s] = None /\ handle[s] \in {"held", "deleted"}
  BY <1>1, <1>2 DEF Telling, Fresh, Unknown, Types, Handles
<1>5. Types'
  BY <1>2 DEF Types, TaskNames
<1>6. UsedUp' /\ Hush' /\ Owners'
  <2>1. Owners'
    BY Zenon, <1>2, OwnersSame
  <2>2. <<"disconnectCallback", s>> \in tasks' =>
          <<"disconnectCallback", s>> \in tasks \/ disconnectCallback[s]
    BY <1>2
  <2>3. \A r \in Sockets \ {s} : <<"disconnectCallback", r>> \in tasks' =>
                                 <<"disconnectCallback", r>> \in tasks
    BY <1>2
  <2>4. ~disconnectCallback'[s] /\ \A r \in Sockets \ {s} :
                                     disconnectCallback'[r] = disconnectCallback[r]
    BY Zenon, <1>2 DEF Types
  <2>5. UsedUp'
    BY ZenonT(60), <1>2, <1>4, <2>2, <2>3, <2>4 DEF UsedUp
  <2>6. Hush'
    BY ZenonT(60), <1>2, <2>2, <2>3, <2>4 DEF Hush
  <2> QED BY Zenon, <2>1, <2>5, <2>6
<1>7. Fresh'
  <2> SUFFICES ASSUME NEW r \in Sockets, handle[r] \in {"unborn", "backlog", "accepted"}
               PROVE  Unknown(r)' /\ (handle[r] # "accepted" =>
                                        fd'[r] = None /\ \A u \in Threads : at'[u].s # r)
    BY Zenon, <1>2 DEF Fresh
  <2>1. r # s /\ Unknown(r)
    BY Zenon, <1>4 DEF Fresh
  <2>2. \A u \in Threads : at'[u].s = r => at'[u] = at[u]
    BY Zenon, <1>3, TcpAssumption
  <2>3. ~disconnectCallback'[r] /\ mutex'[r] = None
    BY Zenon, <1>2, <2>1 DEF Unknown, Types
  <2>4. \A k \in tasks' : k[2] # r
    BY <1>2, <2>1 DEF Unknown
  <2>5. Unknown(r)'
    BY ZenonT(60), <1>2, <2>1, <2>2, <2>3, <2>4 DEF Unknown
  <2>6. handle[r] # "accepted" => fd'[r] = None /\ \A u \in Threads : at[u].s # r
    BY Zenon, <1>2 DEF Fresh
  <2> QED BY Zenon, <2>2, <2>5, <2>6
<1>8. Accepting'
  <2> SUFFICES ASSUME NEW u \in Threads, at'[u].pc = "acceptCallback"
               PROVE  /\ handle[at'[u].s] = "accepted" /\ fd[at'[u].s] # None
                      /\ \A r \in Threads : at'[r].s = at'[u].s => r = u
    BY Zenon, <1>2 DEF Accepting
  <2>1. u # t /\ at'[u] = at[u] /\ at[u].s \in Sockets
    BY Zenon, <1>3, TcpAssumption DEF Located, Places, Calls
  <2>2. \A r \in Threads : at'[r].s = at[u].s => at'[r] = at[r]
    BY Zenon, <1>3, <2>1, TcpAssumption
  <2>3. /\ handle[at[u].s] = "accepted" /\ fd[at[u].s] # None
        /\ \A r \in Threads : at[r].s = at[u].s => r = u
    BY Zenon, <2>1 DEF Accepting
  <2> QED BY Zenon, <2>1, <2>2, <2>3
<1>9. Closing'
  <2> SUFFICES ASSUME NEW u \in Threads, at'[u].pc = "close"
               PROVE  /\ mutex'[at'[u].s] = u /\ fd[at'[u].s] # None
                      /\ \A y \in EventTypes : fds[fd[at'[u].s]][y] = None
    BY ZenonT(60), <1>2 DEF Closing
  <2>1. at'[u] = at[u] /\ at[u].s \in Sockets
    BY Zenon, <1>3, TcpAssumption DEF Located, Places, Calls
  <2>2. at[u].s # s
    BY Zenon, <1>4, <2>1 DEF Closing
  <2>3. mutex'[at[u].s] = mutex[at[u].s]
    BY Zenon, <1>2, <2>1, <2>2 DEF Types
  <2>4. /\ mutex[at[u].s] = u /\ fd[at[u].s] # None
        /\ \A y \in EventTypes : fds[fd[at[u].s]][y] = None
    BY Zenon, <2>1 DEF Closing
  <2> QED BY Zenon, <2>1, <2>3, <2>4
<1>10. Watched'
  <2>1. \A u \in Threads : at[u].pc = "close" => at'[u] = at[u]
    BY Zenon, <1>2, <1>3
  <2> QED BY <1>2, <2>1 DEF Watched
<1> QED BY Zenon, <1>3, <1>5, <1>6, <1>7, <1>8, <1>9, <1>10

-----------------------------------------------------------------------------
(* A task is run once; the disconnect callback is then told.               *)
LEMMA RunTaskInv == ASSUME Inv, NEW w \in Workers, runTask(w) PROVE Inv'
<1> USE DEF Inv
<1>1. /\ w \in Threads /\ at[w].pc = "tasks"
      /\ UNCHANGED <<handle, fd, started, disconnectCallback, sendBuffer, mutex, fds, hushed,
                     received>>
  BY Zenon DEF Threads, runTask, sockvars
<1>2. CASE at' = [at EXCEPT ![w] = Idle] /\ UNCHANGED <<tasks, told>>
  <2>1. /\ at'[w] = Idle /\ Idle \in Places /\ Idle.s = None /\ Idle.pc = "idle" /\ Idle.ev = None
        /\ at' = [u \in Threads |-> at'[u]] /\ \A u \in Threads \ {w} : at'[u] = at[u]
    BY Zenon, <1>1, <1>2 DEF Located, Idle, Places
  <2>2. Located'
    BY ZenonT(60), <2>1 DEF Located, Calls, TaskNames
  <2> QED BY Zenon, <1>1, <1>2, <2>1, <2>2, Moves DEF seen
<1>3. ASSUME NEW n \in TaskNames, NEW s \in Sockets, <<n, s>> \in tasks,
             tasks' = tasks \ {<<n, s>>}, Goto(w, n, s),
             told' = IF n = "disconnectCallback" THEN [told EXCEPT ![s] = TRUE] ELSE told
      PROVE  Inv'
  <2>1. /\ Located' /\ at'[w].pc = n /\ at'[w].s = s
        /\ \A u \in Threads \ {w} : at'[u] = at[u]
    BY Zenon, <1>1, <1>3, Goes DEF Calls
  <2>2. handle[s] \in {"held", "deleted"} /\ n \notin {"close", "acceptCallback"}
    <3>1. ~Unknown(s)
      BY Zenon, <1>3 DEF Unknown
    <3>2. handle[s] \in Handles /\ handle[s] \notin {"unborn", "backlog", "accepted"}
      BY Zenon, <3>1 DEF Fresh, Types
    <3> QED BY Zenon, <1>3, <3>2 DEF Handles, TaskNames
  <2>3. Types' /\ Owners'
    BY ZenonT(60), <1>1, <1>3 DEF Types, Owners
  <2>4. UsedUp' /\ Hush'
    BY Zenon, <1>1, <1>3 DEF UsedUp, Hush, Types
  <2>5. Fresh'
    <3> SUFFICES ASSUME NEW r \in Sockets, handle[r] \in {"unborn", "backlog", "accepted"}
                 PROVE  Unknown(r)' /\ (handle[r] # "accepted" =>
                                          fd'[r] = None /\ \A u \in Threads : at'[u].s # r)
      BY Zenon, <1>1 DEF Fresh
    <3>1. r # s /\ Unknown(r) /\ told'[r] = told[r]
      BY Zenon, <1>3, <2>2 DEF Fresh, Types
    <3>2. \A u \in Threads : at'[u].s = r => at'[u] = at[u]
      BY Zenon, <2>1, <3>1
    <3>3. Unknown(r)'
      BY ZenonT(60), <1>1, <1>3, <3>1, <3>2 DEF Unknown
    <3> QED BY ZenonT(60), <1>1, <3>1, <3>2, <3>3 DEF Fresh
  <2>6. Accepting'
    <3> SUFFICES ASSUME NEW u \in Threads, at'[u].pc = "acceptCallback"
                 PROVE  /\ handle[at'[u].s] = "accepted" /\ fd[at'[u].s] # None
                        /\ \A r \in Threads : at'[r].s = at'[u].s => r = u
      BY Zenon, <1>1 DEF Accepting
    <3>1. u # w /\ at'[u] = at[u] /\ at[u].s # s
      BY ZenonT(60), <2>1, <2>2 DEF Accepting
    <3> QED BY ZenonT(60), <2>1, <3>1 DEF Accepting
  <2>7. Closing'
    BY <1>1, <2>1, <2>2 DEF Closing
  <2>8. Watched'
    BY <1>1, <2>1, <2>2 DEF Watched
  <2> QED BY Zenon, <2>1, <2>3, <2>4, <2>5, <2>6, <2>7, <2>8
<1>4. ASSUME NEW k \in tasks, tasks' = tasks \ {k}, Goto(w, k[1], k[2]),
             told' = IF k[1] = "disconnectCallback" THEN [told EXCEPT ![k[2]] = TRUE] ELSE told
      PROVE  Inv'
  <2>1. PICK n \in TaskNames, s \in Sockets : k = <<n, s>>
    BY DEF Types
  <2>2. Goto(w, n, s)
    BY Zenon, <1>4, <2>1 DEF Goto
  <2> QED BY Zenon, <1>3, <1>4, <2>1, <2>2
<1> QED BY Zenon, <1>2, <1>4 DEF runTask

-----------------------------------------------------------------------------
(* Accepting: the socket that leaves the backlog is known to nobody else.  *)
LEMMA OnAcceptInv == ASSUME Inv, NEW w \in Workers, onAccept(w) PROVE Inv'
<1> USE DEF Inv
<1>1. /\ w \in Threads /\ at[w].pc = "onAccept"
      /\ UNCHANGED <<started, disconnectCallback, sendBuffer, mutex, fds, tasks, told, hushed,
                     received>>
  BY Zenon DEF Threads, onAccept, history
<1>2. CASE Return(w) /\ UNCHANGED <<handle, fd>>
  <2>1. Located' /\ (\A u \in Threads \ {w} : at'[u] = at[u]) /\ at'[w].s = None
        /\ at'[w].pc \notin {"close", "acceptCallback"}
    BY Zenon, <1>1, <1>2, Returns
  <2> QED BY Zenon, <1>1, <1>2, <2>1, Moves DEF seen
<1>3. ASSUME NEW s \in Sockets, NEW f \in Fds \ OpenFds, handle[s] = "backlog",
             handle' = [handle EXCEPT ![s] = "accepted"], fd' = [fd EXCEPT ![s] = f],
             Goto(w, "acceptCallback", s)
      PROVE  Inv'
  <2>1. /\ Located' /\ at'[w].pc = "acceptCallback" /\ at'[w].s = s
        /\ \A u \in Threads \ {w} : at'[u] = at[u]
    BY Zenon, <1>1, <1>3, Goes DEF Calls
  <2>2. Unknown(s) /\ fd[s] = None /\ (\A u \in Threads : at[u].s # s)
    BY Zenon, <1>3 DEF Fresh
  <2>3. Types'
    BY ZenonT(60), <1>1, <1>3 DEF Types, Handles
  <2>4. Owners'
    BY <1>1, <1>3, <2>2 DEF Owners, Unknown, Types, OpenFds
  <2>5. UsedUp' /\ Hush'
    BY Zenon, <1>1, <1>3, <2>2 DEF UsedUp, Hush, Unknown, Types
  <2>6. Fresh'
    <3> SUFFICES ASSUME NEW r \in Sockets, handle'[r] \in {"unborn", "backlog", "accepted"}
                 PROVE  Unknown(r)' /\ (handle'[r] # "accepted" =>
                                          fd'[r] = None /\ \A u \in Threads : at'[u].s # r)
      BY Zenon DEF Fresh
    <3>1. CASE r = s
      BY ZenonT(60), <1>1, <1>3, <2>1, <2>2, <3>1 DEF Unknown, Types
    <3>2. CASE r # s
      <4>1. handle'[r] = handle[r] /\ fd'[r] = fd[r] /\ Unknown(r)
        BY Zenon, <1>3, <3>2 DEF Fresh, Types
      <4>2. \A u \in Threads : at'[u].s = r => at'[u] = at[u]
        BY Zenon, <2>1, <3>2
      <4>3. Unknown(r)'
        BY ZenonT(60), <1>1, <4>1, <4>2 DEF Unknown
      <4> QED BY ZenonT(60), <4>1, <4>2, <4>3 DEF Fresh
    <3> QED BY Zenon, <3>1, <3>2
  <2>7. Accepting'
    <3> SUFFICES ASSUME NEW u \in Threads, at'[u].pc = "acceptCallback"
                 PROVE  /\ handle'[at'[u].s] = "accepted" /\ fd'[at'[u].s] # None
                        /\ \A r \in Threads : at'[r].s = at'[u].s => r = u
      BY ZenonT(60) DEF Accepting
    <3>1. CASE u = w
      <4>1. handle'[s] = "accepted" /\ fd'[s] # None
        BY Zenon, <1>3, TcpAssumption DEF Types
      <4>2. \A r \in Threads : at'[r].s = s => r = w
        BY Zenon, <2>1, <2>2
      <4> QED BY Zenon, <2>1, <3>1, <4>1, <4>2
    <3>2. CASE u # w
      <4>1. at'[u] = at[u] /\ at[u].s # s /\ at[u].s \in Sockets
        BY ZenonT(60), <2>1, <2>2, <3>2, TcpAssumption DEF Located, Places, Calls
      <4> QED BY <1>3, <2>1, <4>1 DEF Accepting, Types
    <3> QED BY Zenon, <3>1, <3>2
  <2>8. Closing'
    <3> SUFFICES ASSUME NEW u \in Threads, at'[u].pc = "close"
                 PROVE  /\ mutex[at'[u].s] = u /\ fd'[at'[u].s] # None
                        /\ \A y \in EventTypes : fds[fd'[at'[u].s]][y] = None
      BY ZenonT(60), <1>1 DEF Closing
    <3>1. at'[u] = at[u] /\ at[u].s # s /\ at[u].s \in Sockets
      BY ZenonT(60), <2>1, <2>2, TcpAssumption DEF Located, Places, Calls
    <3> QED BY <1>3, <3>1 DEF Closing, Types
  <2>9. Watched'
    <3>1. ~started[s]
      BY Zenon, <2>2 DEF Unknown
    <3>2. \A r \in Sockets : r # s => fd'[r] = fd[r]
      BY Zenon, <1>3 DEF Types
    <3>3. \A u \in Threads : at[u].pc = "close" => at'[u] = at[u]
      BY Zenon, <1>1, <2>1
    <3> QED BY <1>1, <3>1, <3>2, <3>3 DEF Watched
  <2> QED BY ZenonT(60), <2>1, <2>3, <2>4, <2>5, <2>6, <2>7, <2>8, <2>9
<1> QED BY Zenon, <1>2, <1>3 DEF onAccept

(* The accept callback starts the socket it keeps, or lets it go.          *)
LEMMA AcceptCallbackInv == ASSUME Inv, NEW w \in Workers, acceptCallback(w) PROVE Inv'
<1>1. w \in Threads /\ at[w].pc = "acceptCallback"
  BY Zenon DEF Threads, acceptCallback
<1>2. PICK s \in Sockets : at[w].s = s
  BY Zenon, <1>1, TcpAssumption DEF Inv, Located, Places, Calls
<1>3. /\ handle[s] = "accepted" /\ fd[s] # None /\ Unknown(s)
      /\ \A u \in Threads \ {w} : at[u].s # s
  BY Zenon, <1>1, <1>2 DEF Inv, Accepting, Fresh
<1>4. UNCHANGED <<fd, sendBuffer, mutex, told, received>>
  BY Zenon DEF acceptCallback
<1>5. CASE /\ handle' = [handle EXCEPT ![s] = "held"] /\ DoStart(s, TRUE)
           /\ Return(w) /\ UNCHANGED hushed
  <2>1. Located' /\ (\A u \in Threads \ {w} : at'[u] = at[u]) /\ at'[w].s = None
    BY Zenon, <1>1, <1>5, Returns DEF Inv
  <2>2. Started(s)
    BY Zenon, <1>3, <1>5 DEF Inv, Types, DoStart, Started
  <2>3. /\ handle'[s] = "held" /\ handle' \in [Sockets -> Handles]
        /\ \A r \in Sockets \ {s} : handle'[r] = handle[r]
    BY Zenon, <1>5 DEF Inv, Types, Handles
  <2>4. mutex[s] = None
    BY Zenon, <1>3 DEF Unknown
  <2> QED BY ZenonT(60), <1>1, <1>2, <1>3, <1>4, <1>5, <2>1, <2>2, <2>3, <2>4, DoStartInv
<1>6. CASE /\ handle' = [handle EXCEPT ![s] = "deleted"]
           /\ hushed' = [hushed EXCEPT ![s] = TRUE]
           /\ Goto(w, "disconnect", s) /\ UNCHANGED <<started, disconnectCallback, fds, tasks>>
  <2> USE DEF Inv
  <2>1. /\ Located' /\ at'[w].pc = "disconnect" /\ at'[w].s = s
        /\ \A u \in Threads \ {w} : at'[u] = at[u]
    BY Zenon, <1>1, <1>6, Goes DEF Calls, TaskNames
  <2>2. Types' /\ Owners' /\ UsedUp'
    BY ZenonT(60), <1>4, <1>6 DEF Types, Handles, Owners, UsedUp
  <2>3. Hush'
    BY Zenon, <1>3, <1>4, <1>6 DEF Hush, Unknown, Types
  <2>4. Fresh'
    <3> SUFFICES ASSUME NEW r \in Sockets, handle'[r] \in {"unborn", "backlog", "accepted"}
                 PROVE  Unknown(r)' /\ (handle'[r] # "accepted" =>
                                          fd'[r] = None /\ \A u \in Threads : at'[u].s # r)
      BY Zenon DEF Fresh
    <3>1. r # s /\ handle'[r] = handle[r] /\ hushed'[r] = hushed[r] /\ Unknown(r)
      BY Zenon, <1>6 DEF Fresh, Types
    <3>2. \A u \in Threads : at'[u].s = r => at'[u] = at[u]
      BY Zenon, <2>1, <3>1
    <3>3. Unknown(r)'
      BY Zenon, <1>4, <1>6, <3>1, <3>2 DEF Unknown
    <3> QED BY ZenonT(60), <1>4, <3>1, <3>2, <3>3 DEF Fresh
  <2>5. Accepting'
    <3> SUFFICES ASSUME NEW u \in Threads, at'[u].pc = "acceptCallback"
                 PROVE  /\ handle'[at'[u].s] = "accepted" /\ fd'[at'[u].s] # None
                        /\ \A r \in Threads : at'[r].s = at'[u].s => r = u
      BY Zenon DEF Accepting
    <3>1. u # w /\ at'[u] = at[u] /\ at[u].s # s /\ at[u].s \in Sockets
      BY ZenonT(60), <1>3, <2>1, TcpAssumption DEF Located, Places, Calls
    <3> QED BY ZenonT(60), <1>4, <1>6, <2>1, <3>1 DEF Accepting, Types
  <2>6. Closing'
    BY ZenonT(60), <1>4, <1>6, <2>1 DEF Closing
  <2>7. Watched'
    BY <1>1, <1>4, <1>6, <2>1 DEF Watched
  <2> QED BY Zenon, <2>1, <2>2, <2>3, <2>4, <2>5, <2>6, <2>7
<1> QED BY Zenon, <1>2, <1>5, <1>6 DEF acceptCallback

-----------------------------------------------------------------------------
(* A thread that comes to, or stays at, the queueing of the callback finds *)
(* its socket closed: only a socket that nobody knows is opened.           *)
LEMMA TellingKept ==
  ASSUME Inv, Telling,
         \A s \in Sockets : fd[s] = None => fd'[s] = None \/ handle[s] \in {"unborn", "backlog"},
         \A u \in Threads : at'[u].pc = "enqueue" => at'[u] = at[u]
  PROVE  Telling'
<1> SUFFICES ASSUME NEW u \in Threads, at'[u].pc = "enqueue" PROVE fd'[at'[u].s] = None
  BY Zenon DEF Telling
<1>1. at'[u] = at[u] /\ at[u].s \in Sockets /\ fd[at[u].s] = None
  BY Zenon, TcpAssumption DEF Inv, Located, Places, Calls, Telling
<1>2. handle[at[u].s] \notin {"unborn", "backlog"}
  BY Zenon, <1>1 DEF Inv, Fresh
<1> QED BY Zenon, <1>1, <1>2

LEMMA TellingNext == ASSUME Inv, Telling, [Next]_vars PROVE Telling'
<1> USE DEF Inv
<1>1. ASSUME NEW t \in Threads, NEW p \in Calls \ {"enqueue"}, NEW s \in Sockets, Goto(t, p, s)
      PROVE  \A u \in Threads : at'[u].pc = "enqueue" => at'[u] = at[u]
  BY Zenon, <1>1, Goes
<1>2. ASSUME NEW t \in Threads, Return(t)
      PROVE  \A u \in Threads : at'[u].pc = "enqueue" => at'[u] = at[u]
  BY Zenon, <1>2, Returns
<1>3. User \in Threads /\ {"disconnect", "close", "acceptCallback"} \subseteq Calls \ {"enqueue"}
  BY DEF Threads, Calls, TaskNames
<1>4. CASE UserCall \/ Peer \/ UNCHANGED vars
  <2>1. CASE at' = at
    <3>1. \A s \in Sockets : fd[s] = None => fd'[s] = None \/ handle[s] \in {"unborn", "backlog"}
      BY ZenonT(60), <1>4, <2>1 DEF UserCall, Peer, vars, sockvars, shutdown, connect,
         setDisconnectCallback, start, disconnect, Delete, write, PeerConnects, PeerSends,
         PeerReads, PeerEnds, Types
    <3> QED BY Zenon, <2>1, <3>1, TellingKept
  <2>2. ASSUME NEW s \in Sockets, disconnect(s) \/ Delete(User, s) PROVE Telling'
    <3>1. fd' = fd /\ Goto(User, "disconnect", s)
      BY Zenon, <2>2 DEF disconnect, Delete, sockvars
    <3> QED BY Zenon, <1>1, <1>3, <3>1, TellingKept
  <2> QED BY Zenon, <1>4, <2>1, <2>2 DEF UserCall, Peer, vars, shutdown, connect,
             setDisconnectCallback, start, write, PeerConnects, PeerSends, PeerReads, PeerEnds
<1>5. ASSUME NEW t \in Threads, DisconnectStep(t) PROVE Telling'
  <2>1. at[t].s \in Sockets
    BY Zenon, <1>5, TcpAssumption DEF DisconnectStep, DisconnectBegin, DisconnectEnd,
       DisconnectTells, Located, Places, Calls, TaskNames
  <2>2. CASE DisconnectBegin(t) \/ DisconnectTells(t)
    <3>1. fd' = fd /\ (Return(t) \/ Goto(t, "close", at[t].s))
      BY Zenon, <2>2 DEF DisconnectBegin, DisconnectTells, sockvars
    <3> QED BY Zenon, <1>1, <1>2, <1>3, <2>1, <3>1, TellingKept
  <2>3. CASE DisconnectEnd(t)
    <3>1. fd' = [fd EXCEPT ![at[t].s] = None] /\ (Return(t) \/ Goto(t, "enqueue", at[t].s))
      BY Zenon, <2>3 DEF DisconnectEnd, Closed
    <3>2. fd'[at[t].s] = None /\ \A s \in Sockets : fd[s] = None => fd'[s] = None
      BY Zenon, <2>1, <3>1 DEF Types
    <3>3. CASE Return(t)
      BY Zenon, <1>2, <3>2, <3>3, TellingKept
    <3>4. CASE Goto(t, "enqueue", at[t].s)
      <4>1. at'[t].s = at[t].s /\ \A u \in Threads \ {t} : at'[u] = at[u]
        BY Zenon, <2>1, <3>4, Goes DEF Calls
      <4>2. ASSUME NEW u \in Threads \ {t}, at[u].pc = "enqueue" PROVE fd'[at[u].s] = None
        BY Zenon, <3>2, <4>2, TcpAssumption DEF Telling, Located, Places, Calls
      <4> QED BY Zenon, <3>2, <4>1, <4>2 DEF Telling
    <3> QED BY Zenon, <3>1, <3>3, <3>4
  <2> QED BY Zenon, <1>5, <2>2, <2>3 DEF DisconnectStep
<1>6. ASSUME NEW w \in Workers, WorkerStep(w) PROVE Telling'
  <2>1. w \in Threads
    BY Zenon DEF Threads
  <2>2. CASE onReceive(w) \/ onCanSend(w) \/ disconnectCallbackReturns(w)
    <3>1. fd' = fd /\ (Return(w) \/ at' = at)
      BY Zenon, <2>2 DEF onReceive, onCanSend, disconnectCallbackReturns, sockvars
    <3> QED BY Zenon, <1>2, <2>1, <3>1, TellingKept
  <2>3. CASE epoll_wait(w) \/ dispatch(w)
    <3>1. fd' = fd /\ (\A u \in Threads \ {w} : at'[u] = at[u]) /\ at'[w].pc # "enqueue"
      <4>1. fd' = fd /\ \A u \in Threads \ {w} : at'[u] = at[u]
        <5>1. fd' = fd
          BY Zenon, <2>3 DEF epoll_wait, dispatch, sockvars
        <5>2. \E p : at' = [at EXCEPT ![w] = p]
          BY ZenonT(30), <2>3 DEF epoll_wait, dispatch
        <5> QED BY Zenon, <5>1, <5>2 DEF Located
      <4>2. epoll_wait(w) => at'[w].pc \in {"event", "tasks"}
        <5>1. at[w] \in Places
          BY Zenon, <2>1 DEF Located
        <5>2. at'[w] = [at[w] EXCEPT !.pc = "tasks"] => at'[w].pc = "tasks"
          BY Zenon, <5>1 DEF Places
        <5>3. \A f : at'[w] = [at[w] EXCEPT !.pc = "event", !.ev = f, !.type = "READ"] =>
                      at'[w].pc = "event"
          BY Zenon, <5>1 DEF Places
        <5>4. epoll_wait(w) =>
                \/ at'[w] = [at[w] EXCEPT !.pc = "tasks"]
                \/ \E f : at'[w] = [at[w] EXCEPT !.pc = "event", !.ev = f, !.type = "READ"]
          BY Zenon, <2>1 DEF epoll_wait, Located
        <5> QED BY Zenon, <5>2, <5>3, <5>4
      <4>3. dispatch(w) => at'[w].pc \in {"onAccept", "onReceive", "onCanSend", "tasks", "event"}
        BY <2>1 DEF dispatch, Callback, Located
      <4> QED BY Zenon, <2>3, <4>1, <4>2, <4>3
    <3> QED BY Zenon, <3>1, TellingKept
  <2>4. CASE runTask(w)
    <3>1. fd' = fd
      BY Zenon, <2>4 DEF runTask, sockvars
    <3>2. CASE at' = [at EXCEPT ![w] = Idle]
      BY ZenonT(60), <2>1, <3>1, <3>2, TellingKept DEF Idle, Located
    <3>3. ASSUME NEW k \in tasks, Goto(w, k[1], k[2]) PROVE Telling'
      <4>1. k[1] \in Calls \ {"enqueue"} /\ k[2] \in Sockets
        BY DEF Types, Calls, TaskNames
      <4> QED BY Zenon, <1>1, <2>1, <3>1, <3>3, <4>1, TellingKept
    <3> QED BY Zenon, <2>4, <3>2, <3>3 DEF runTask
  <2>5. CASE onAccept(w)
    <3>1. CASE fd' = fd /\ Return(w)
      BY Zenon, <1>2, <2>1, <3>1, TellingKept
    <3>2. ASSUME NEW s \in Sockets, NEW f, handle[s] = "backlog", fd' = [fd EXCEPT ![s] = f],
                 Goto(w, "acceptCallback", s)
          PROVE  Telling'
      <4>1. \A r \in Sockets : fd[r] = None => fd'[r] = None \/ handle[r] \in {"unborn", "backlog"}
        BY Zenon, <3>2 DEF Types
      <4> QED BY Zenon, <1>1, <1>3, <2>1, <3>2, <4>1, TellingKept
    <3> QED BY Zenon, <2>5, <3>1, <3>2 DEF onAccept
  <2>6. CASE acceptCallback(w)
    <3>1. at[w].s \in Sockets
      BY Zenon, <2>1, <2>6, TcpAssumption DEF acceptCallback, Located, Places, Calls
    <3>2. fd' = fd /\ (Return(w) \/ Goto(w, "disconnect", at[w].s))
      BY Zenon, <2>6 DEF acceptCallback
    <3> QED BY Zenon, <1>1, <1>2, <1>3, <2>1, <3>1, <3>2, TellingKept
  <2>7. ASSUME NEW s \in Sockets, Delete(w, s) PROVE Telling'
    <3>1. fd' = fd /\ Goto(w, "disconnect", s)
      BY Zenon, <2>7 DEF Delete
    <3> QED BY Zenon, <1>1, <1>3, <2>1, <3>1, TellingKept
  <2> QED BY Zenon, <1>6, <2>2, <2>3, <2>4, <2>5, <2>6, <2>7 DEF WorkerStep
<1> QED BY Zenon, <1>4, <1>5, <1>6 DEF Next

(* Every step of the user, the workers and the peer keeps the invariant.   *)
LEMMA NextInv == ASSUME Inv, Telling, [Next]_vars PROVE Inv'
<1>1. CASE UserCall
  <2>1. \A s \in Sockets : Delete(User, s) => Inv'
    BY Zenon, DeleteInv DEF Threads
  <2> QED BY Zenon, <1>1, <2>1, UnseenInv, ConnectInv, SetDisconnectCallbackInv, StartInv, WriteInv,
             DisconnectCallInv DEF UserCall
<1>2. CASE Peer
  BY Zenon, <1>2, PeerConnectsInv, UnseenInv DEF Peer
<1>3. ASSUME NEW w \in Workers, WorkerStep(w) PROVE Inv'
  <2>1. \A s \in Sockets : Delete(w, s) => Inv'
    BY Zenon, DeleteInv DEF Threads
  <2> QED BY Zenon, <1>3, <2>1, EpollWaitInv, DispatchInv, RunTaskInv, OnReceiveInv, OnCanSendInv,
             OnAcceptInv, AcceptCallbackInv, CallbackReturnsInv DEF WorkerStep
<1>4. ASSUME NEW t \in Threads, DisconnectStep(t) PROVE Inv'
  BY Zenon, <1>4, DisconnectBeginInv, DisconnectEndInv, DisconnectTellsInv
     DEF DisconnectStep
<1>5. CASE UNCHANGED vars
  BY Zenon, <1>5, UnseenInv
<1> QED BY Zenon, <1>1, <1>2, <1>3, <1>4, <1>5 DEF Next

(* The invariant holds in every behaviour.                                 *)
LEMMA InvHolds == Spec => []Inv
<1>1. Init => Telling
  BY DEF Init, Idle, Telling
<1>2. Inv /\ Telling /\ [Next]_vars => Inv' /\ Telling'
  BY Zenon, NextInv, TellingNext
<1> QED BY <1>1, <1>2, InitInv, PTL DEF Spec

(* Whatever is opened, closed and reused, a handler belongs to the socket  *)
(* that has the descriptor, and a started open socket is watched for       *)
(* reading, and for writing while it has anything to send.                 *)
THEOREM HandlersAgree == Spec => []WatchesAgree
<1>1. Inv => WatchesAgree
  <2> SUFFICES ASSUME Inv PROVE WatchesAgree
    BY Zenon
  <2>1. \A s \in Sockets : mutex[s] = None =>
          \A t \in Threads : at[t].pc = "close" => at[t].s # s
    BY TcpAssumption DEF Inv, Closing, Threads
  <2> QED BY <2>1 DEF Inv, Owners, Watched, WatchesAgree
<1> QED BY <1>1, InvHolds, PTL

(* A socket that was open when it was deleted never calls its disconnect   *)
(* callback: ~TcpSocket clears it before the descriptor is closed.         *)
THEOREM DeletedStaysQuiet == Spec => []HushedStaysQuiet
<1>1. Inv => HushedStaysQuiet
  BY Zenon DEF Inv, Hush, HushedStaysQuiet
<1> QED BY <1>1, InvHolds, PTL

(* Only runTask tells, and only onReceive of an open socket receives.      *)
LEMMA HistoryGrows ==
  ASSUME Types, Located, [Next]_vars, NEW s \in Sockets, told[s], fd[s] = None
  PROVE  told'[s] /\ received'[s] = received[s]
<1>1. CASE UserCall \/ Peer \/ UNCHANGED vars
  BY ZenonT(60), <1>1 DEF UserCall, Peer, vars, shutdown, connect, setDisconnectCallback, start,
     disconnect,
     Delete, write, PeerConnects, PeerSends, PeerReads, PeerEnds, history
<1>2. ASSUME NEW t \in Threads, DisconnectStep(t) PROVE UNCHANGED <<told, received>>
  BY Zenon, <1>2 DEF DisconnectStep, DisconnectBegin, DisconnectEnd, DisconnectTells, history
<1>3. ASSUME NEW w \in Workers, WorkerStep(w) PROVE told'[s] /\ received'[s] = received[s]
  <2>1. CASE epoll_wait(w) \/ dispatch(w) \/ onCanSend(w) \/ onAccept(w) \/ acceptCallback(w)
             \/ disconnectCallbackReturns(w) \/ \E r \in Sockets : Delete(w, r)
    BY ZenonT(60), <2>1 DEF epoll_wait, dispatch, onCanSend, onAccept, acceptCallback,
       disconnectCallbackReturns, Delete, history
  <2>2. CASE runTask(w)
    BY Zenon, <2>2 DEF runTask, Types
  <2>3. CASE onReceive(w)
    <3>1. told' = told /\ (at[w].s = s => received' = received)
      BY Zenon, <2>3 DEF onReceive
    <3>2. at[w].s # s => received'[s] = received[s]
      BY Zenon, <2>3 DEF onReceive, Types
    <3> QED BY Zenon, <3>1, <3>2
  <2> QED BY Zenon, <1>3, <2>1, <2>2, <2>3 DEF WorkerStep
<1> QED BY Zenon, <1>1, <1>2, <1>3 DEF Next

(* After the disconnect callback nothing is received on the socket and the *)
(* callback is not queued again.                                           *)
THEOREM NothingFollowsDisconnect == Spec => QuietAfterDisconnect
<1> DEFINE Quiet == \A s \in Sockets : told[s] => /\ received'[s] = received[s]
                                                  /\ <<"disconnectCallback", s>> \notin tasks'
<1>1. ASSUME Inv, Inv', [Next]_vars PROVE [Quiet]_vars
  <2> SUFFICES ASSUME NEW s \in Sockets, told[s]
               PROVE  received'[s] = received[s] /\ <<"disconnectCallback", s>> \notin tasks'
    BY Zenon
  <2>1. fd[s] = None
    BY Zenon, <1>1 DEF Inv, UsedUp
  <2>2. told'[s] /\ received'[s] = received[s]
    BY Zenon, <1>1, <2>1, HistoryGrows DEF Inv
  <2> QED BY Zenon, <1>1, <2>2 DEF Inv, UsedUp
<1> QED BY <1>1, InvHolds, PTL DEF Spec, QuietAfterDisconnect
=============================================================================
