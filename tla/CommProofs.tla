----------------------------- MODULE CommProofs -----------------------------
(***************************************************************************)
(* Proofs about Comm for any number of connections and descriptors and any *)
(* timeouts.  First the tables: what descriptors, handlers, epoll and      *)
(* connections have to do with each other, what the events of a batch still*)
(* mean when they are handled, and what accepting, closing and every       *)
(* handler do to that.  Then the clocks, every step, and what follows.     *)
(***************************************************************************)
EXTENDS Comm, FiniteSetTheorems, TLAPS

Entries == [read : {None, "echo"}, readData : Conns \cup {None},
            write : {None, "welcome", "response"}, writeData : Conns \cup {None},
            onTimeout : {None, "timeout"}, timeoutData : Conns \cup {None}, timeout : Nat]
Sockets == [st : {"idle", "queued", "open", "fin", "rst", "closed"},
            unread : {None, "msg", "quit"}, err : BOOLEAN]
Reports == [fd : Fds \cup {Listener}, ev : SUBSET {"in", "out", "hup"},
            conn : Conns \cup {None}]

(* An entry that belongs to connection c.                                  *)
Holds(F, c) ==
  /\ F.readData \in {None, c} /\ (F.read # None => F.readData = c)
  /\ F.writeData \in {None, c} /\ (F.write # None => F.writeData = c)
  /\ F.onTimeout = "timeout" /\ F.timeoutData = c

TableTypes ==
  /\ fd_table \in [Fds -> Entries] /\ registered \in [Fds -> SUBSET {"in", "out"}]
  /\ open \in [Fds -> Conns \cup {None}] /\ active \in [Fds -> Nat]
  /\ sock \in [Conns -> Sockets] /\ frees \in [Conns -> Nat]

(* What is known of a closed and of an open descriptor.                    *)
Owned ==
  \A fd \in Fds :
    IF Gone(fd) THEN fd_table[fd] = NoEntry /\ registered[fd] = {} /\ active[fd] = 0
    ELSE /\ Holds(fd_table[fd], open[fd])
         /\ registered[fd] \in {{"in"}, {"out"}}
         /\ sock[open[fd]].st \in {"open", "fin", "rst"}
         /\ \A gd \in Fds \ {fd} : open[gd] # open[fd]

Freed == \A c \in Conns : frees[c] = IF sock[c].st = "closed" THEN 1 ELSE 0

Busy(r) == {fd \in Fds : r[fd] # {}}
Counted == registered = epoll_state /\ epoll_fds = 1 + Cardinality(Busy(registered))

Tables == TableTypes /\ Owned /\ Freed /\ Counted

(* OneReplyPerRequest, and that a connection owes nothing before it opens. *)
Answers ==
  /\ owed \in [Conns -> Int]
  /\ \A c \in Conns : sock[c].st \in {"idle", "queued"} => owed[c] = 0
  /\ OneReplyPerRequest

(* An event that is still to be handled is about the connection that has   *)
(* the descriptor, and says what was registered for it; a hang-up stays.   *)
(* The event whose write handler is due may have been closed.              *)
Fresh(e) ==
  /\ open[e.fd] = e.conn /\ e.conn # None
  /\ e.ev \ {"hup"} \subseteq registered[e.fd]
  /\ "hup" \in e.ev => sock[e.conn].st = "rst"
Turn ==
  /\ pc \in {"top", "check", "wait", "handle", "dead"}
  /\ batch \subseteq Reports /\ at \in Reports \cup {None}
  /\ pc \in {"top", "check", "wait"} => batch = {} /\ at = None
  /\ \A e, g \in batch : e.fd = g.fd => e = g
  /\ \A e \in batch : e.fd # Listener => Fresh(e)
  /\ at # None =>
       /\ at.fd \in Fds /\ \A e \in batch : e.fd # at.fd
       /\ ~Gone(at.fd) /\ at.ev \ {"in"} # {} =>
            Peer(at.fd).st = "rst" \/ registered[at.fd] = {"out"}

Times ==
  now \in Nat /\ sys_curtime \in Nat /\ last_timeout \in Nat /\ waited \in {0, 1}

Inv == Tables /\ Answers /\ Turn /\ Times

-----------------------------------------------------------------------------
(* What commSetTimeout does to an entry.                                   *)
LEMMA Timed ==
  ASSUME NEW F \in Entries, NEW c \in Conns, NEW d \in Nat, sys_curtime \in Nat,
         NEW G, G = commSetTimeout(F, d, c)
  PROVE  /\ G \in Entries /\ G.read = F.read /\ G.readData = F.readData
         /\ G.write = F.write /\ G.writeData = F.writeData
         /\ G.onTimeout = "timeout" /\ G.timeoutData = c /\ G.timeout = sys_curtime + d
<1>1. sys_curtime + d \in Nat
  OBVIOUS
<1> QED BY Zenon, <1>1 DEF commSetTimeout, Deadline, Entries

(* The same for the timeout of do_echo_response.                           *)
LEMMA TimedEcho ==
  ASSUME NEW F \in Entries, NEW c \in Conns, sys_curtime \in Nat
  PROVE  LET G == commSetTimeout(F, EchoTimeout, c)
         IN  /\ G \in Entries /\ G.writeData = F.writeData
             /\ G.onTimeout = "timeout" /\ G.timeoutData = c
             /\ G.timeout = sys_curtime + EchoTimeout
<1>1. EchoTimeout \in Nat
  BY Zenon, CommAssumption
<1> QED BY <1>1, Timed

(* What commUpdateReadHandler does to an entry.                            *)
LEMMA Reading ==
  ASSUME NEW F \in Entries, NEW c \in Conns
  PROVE  LET G == ReadHandler(F, "echo", c)
         IN  /\ G \in Entries /\ G.read = "echo" /\ G.readData = c
             /\ G.write = F.write /\ G.writeData = F.writeData
             /\ G.onTimeout = F.onTimeout /\ G.timeoutData = F.timeoutData
             /\ G.timeout = F.timeout
BY Zenon DEF ReadHandler, Entries

(* What commUpdateWriteHandler does to an entry.                           *)
LEMMA Writing ==
  ASSUME NEW F \in Entries, NEW c \in Conns, NEW h \in {"welcome", "response"}
  PROVE  LET G == WriteHandler(F, h, c)
         IN  /\ G \in Entries /\ G.write = h /\ G.writeData = c
             /\ G.read = F.read /\ G.readData = F.readData
             /\ G.onTimeout = F.onTimeout /\ G.timeoutData = F.timeoutData
             /\ G.timeout = F.timeout
BY Zenon DEF WriteHandler, Entries

-----------------------------------------------------------------------------
(* What the steps of the server do to the tables.                          *)

(* A registration that changes from or to nothing changes the count by one. *)
LEMMA Recount ==
  ASSUME NEW r, NEW q, NEW fd \in Fds, \A f \in Fds \ {fd} : q[f] = r[f]
  PROVE  /\ Cardinality(Busy(r)) \in Nat
         /\ r[fd] = {} /\ q[fd] # {} => Cardinality(Busy(q)) = Cardinality(Busy(r)) + 1
         /\ r[fd] # {} /\ q[fd] = {} => Cardinality(Busy(q)) = Cardinality(Busy(r)) - 1
         /\ (r[fd] = {} <=> q[fd] = {}) => Cardinality(Busy(q)) = Cardinality(Busy(r))
<1>1. IsFiniteSet(Busy(r)) /\ IsFiniteSet(Busy(q))
  <2>1. Busy(r) \subseteq Fds /\ Busy(q) \subseteq Fds
    BY Zenon DEF Busy
  <2>2. IsFiniteSet(Fds)
    BY Zenon, CommAssumption
  <2> QED BY Zenon, <2>1, <2>2, FS_Subset
<1>2. Cardinality(Busy(r)) \in Nat
  BY Zenon, <1>1, FS_CardinalityType
<1>3. CASE r[fd] = {} /\ q[fd] # {}
  <2>1. fd \notin Busy(r) /\ Busy(q) = Busy(r) \cup {fd}
    BY Zenon, <1>3 DEF Busy
  <2> QED BY Zenon, <1>1, <1>2, <1>3, <2>1, FS_AddElement
<1>4. CASE r[fd] # {} /\ q[fd] = {}
  <2>1. fd \in Busy(r) /\ Busy(q) = Busy(r) \ {fd}
    BY Zenon, <1>4 DEF Busy
  <2> QED BY ZenonT(60), <1>1, <1>2, <1>4, <2>1, FS_RemoveElement
<1>5. CASE r[fd] = {} <=> q[fd] = {}
  <2>1. Busy(q) = Busy(r)
    BY Zenon, <1>5 DEF Busy
  <2> QED BY Zenon, <1>2, <1>5, <2>1
<1> QED BY Zenon, <1>3, <1>4, <1>5

(* epollSetEvents on a descriptor with one event: exactly that event is    *)
(* registered afterwards, and the count follows.                           *)
LEMMA Registers ==
  ASSUME TableTypes, Counted, NEW fd \in Fds, NEW ev \in {"in", "out"},
         epollSetEvents(fd, {ev})
  PROVE  /\ registered' = [registered EXCEPT ![fd] = {ev}]
         /\ registered' \in [Fds -> SUBSET {"in", "out"}]
         /\ Counted'
<1>1. registered' = [registered EXCEPT ![fd] = {ev}] /\ epoll_state' = registered'
  <2>1. CASE {ev} = epoll_state[fd]
    BY Zenon, <2>1 DEF TableTypes, Counted, epollSetEvents
  <2>2. CASE {ev} # epoll_state[fd]
    <3>1. epoll_ctl(fd, {ev}) = {ev}
      BY Zenon DEF epoll_ctl, Known, Counted
    <3> QED BY Zenon, <2>2, <3>1 DEF TableTypes, Counted, epollSetEvents
  <2> QED BY Zenon, <2>1, <2>2
<1>2. registered' \in [Fds -> SUBSET {"in", "out"}]
  BY Zenon, <1>1 DEF TableTypes
<1>3. /\ Cardinality(Busy(registered)) \in Nat
      /\ registered[fd] = {} => Cardinality(Busy(registered')) = Cardinality(Busy(registered)) + 1
      /\ registered[fd] # {} => Cardinality(Busy(registered')) = Cardinality(Busy(registered))
  <2>1. registered'[fd] # {} /\ \A f \in Fds \ {fd} : registered'[f] = registered[f]
    BY Zenon, <1>1 DEF TableTypes
  <2> QED BY Zenon, <2>1, Recount
<1>4. epoll_fds' = 1 + Cardinality(Busy(registered'))
  BY <1>3 DEF epollSetEvents, Known, Counted
<1> QED BY Zenon, <1>1, <1>2, <1>4 DEF Counted

(* A handler that serves its connection gives the entry new contents and   *)
(* registers one event.                                                    *)
LEMMA ServeKeeps ==
  ASSUME Tables, NEW fd \in Fds, ~Gone(fd), NEW F \in Entries, Holds(F, open[fd]),
         NEW ev \in {"in", "out"}, epollSetEvents(fd, {ev}),
         fd_table' = [fd_table EXCEPT ![fd] = F], active' \in [Fds -> Nat],
         \A gd \in Fds : Gone(gd) => active'[gd] = active[gd],
         UNCHANGED <<open, frees>>, sock' \in [Conns -> Sockets],
         \A c \in Conns : sock'[c].st = sock[c].st
  PROVE  Tables' /\ registered' = [registered EXCEPT ![fd] = {ev}]
<1>1. /\ registered' = [registered EXCEPT ![fd] = {ev}] /\ Counted'
      /\ registered' \in [Fds -> SUBSET {"in", "out"}]
  BY Zenon, Registers DEF Tables
<1>2. TableTypes'
  BY Zenon, <1>1 DEF Tables, TableTypes
<1>3. Owned'
  <2> SUFFICES ASSUME NEW gd \in Fds
               PROVE  IF Gone(gd)'
                      THEN fd_table'[gd] = NoEntry /\ registered'[gd] = {} /\ active'[gd] = 0
                      ELSE /\ Holds(fd_table'[gd], open[gd])
                           /\ registered'[gd] \in {{"in"}, {"out"}}
                           /\ sock'[open[gd]].st \in {"open", "fin", "rst"}
                           /\ \A hd \in Fds \ {gd} : open[hd] # open[gd]
    BY DEF Owned, Holds
  <2>1. Gone(gd)' <=> Gone(gd)
    BY Zenon DEF Gone
  <2>2. CASE gd = fd
    BY ZenonT(60), <1>1, <2>1, <2>2 DEF Tables, TableTypes, Owned, Gone
  <2>3. CASE gd # fd
    BY ZenonT(60), <1>1, <2>1, <2>3 DEF Tables, TableTypes, Owned, Gone
  <2> QED BY ZenonT(60), <2>2, <2>3
<1>4. Freed'
  BY Zenon DEF Tables, Freed
<1> QED BY Zenon, <1>1, <1>2, <1>3, <1>4 DEF Tables

(* Closing an open descriptor and freeing its ConnectStat.                 *)
LEMMA CloseKeeps ==
  ASSUME Tables, NEW fd \in Fds, ~Gone(fd), NEW s \in [Conns -> Sockets],
         \A c \in Conns : s[c].st = sock[c].st, CloseAndFree(fd, open[fd], s)
  PROVE  /\ Tables' /\ registered' = [registered EXCEPT ![fd] = {}]
         /\ open' = [open EXCEPT ![fd] = None]
         /\ \A c \in Conns : sock'[c].st = IF c = open[fd] THEN "closed" ELSE sock[c].st
<1> DEFINE c == open[fd]
<1>1. /\ c \in Conns /\ registered[fd] # {} /\ sock[c].st # "closed"
      /\ \A gd \in Fds \ {fd} : open[gd] # c
  BY ZenonT(60) DEF Tables, TableTypes, Owned, Gone
<1>2. sock' = [s EXCEPT ![c] = [st |-> "closed", unread |-> None, err |-> FALSE]]
  BY Zenon DEF CloseAndFree, Shut
<1>3. /\ sock' \in [Conns -> Sockets]
      /\ \A d \in Conns : sock'[d].st = IF d = c THEN "closed" ELSE sock[d].st
  <2>1. [st |-> "closed", unread |-> None, err |-> FALSE] \in Sockets
    BY Zenon DEF Sockets
  <2> QED BY Zenon, <1>1, <1>2, <2>1
<1>4. /\ fd_table' = [fd_table EXCEPT ![fd] = NoEntry]
      /\ registered' = [registered EXCEPT ![fd] = {}]
      /\ epoll_state' = [epoll_state EXCEPT ![fd] = {}]
      /\ open' = [open EXCEPT ![fd] = None] /\ active' = [active EXCEPT ![fd] = 0]
      /\ frees' = [frees EXCEPT ![c] = @ + 1]
  BY Zenon DEF CloseAndFree, comm_close, free, Cleared, CloseState
<1>5. TableTypes'
  <2>1. NoEntry \in Entries
    BY Zenon DEF NoEntry, Entries
  <2> QED BY <1>1, <1>3, <1>4, <2>1 DEF Tables, TableTypes
<1>6. Owned'
  <2> SUFFICES ASSUME NEW gd \in Fds
               PROVE  IF open'[gd] = None
                      THEN fd_table'[gd] = NoEntry /\ registered'[gd] = {} /\ active'[gd] = 0
                      ELSE /\ Holds(fd_table'[gd], open'[gd])
                           /\ registered'[gd] \in {{"in"}, {"out"}}
                           /\ sock'[open'[gd]].st \in {"open", "fin", "rst"}
                           /\ \A hd \in Fds \ {gd} : open'[hd] # open'[gd]
    BY Zenon DEF Owned, Holds, Gone
  <2>1. CASE gd = fd
    BY Zenon, <1>4, <2>1 DEF Tables, TableTypes
  <2>2. CASE gd # fd /\ open[gd] = None
    BY ZenonT(60), <1>4, <2>2 DEF Tables, TableTypes, Owned, Gone
  <2>3. CASE gd # fd /\ open[gd] # None
    <3>1. /\ fd_table'[gd] = fd_table[gd] /\ registered'[gd] = registered[gd]
          /\ open'[gd] = open[gd]
      BY Zenon, <1>4, <2>3 DEF Tables, TableTypes
    <3>2. /\ Holds(fd_table[gd], open[gd]) /\ registered[gd] \in {{"in"}, {"out"}}
          /\ sock[open[gd]].st \in {"open", "fin", "rst"}
          /\ \A hd \in Fds \ {gd} : open[hd] # open[gd]
      BY Zenon, <2>3 DEF Tables, Owned, Gone
    <3>3. sock'[open[gd]].st = sock[open[gd]].st
      BY Zenon, <1>1, <1>3, <2>3 DEF Tables, TableTypes
    <3>4. \A hd \in Fds \ {gd} : open'[hd] # open[gd]
      BY Zenon, <1>4, <2>3, <3>2 DEF Tables, TableTypes
    <3> QED BY Zenon, <2>3, <3>1, <3>2, <3>3, <3>4
  <2> QED BY Zenon, <2>1, <2>2, <2>3
<1>7. Freed'
  <2>1. frees'[c] = frees[c] + 1 /\ \A d \in Conns \ {c} : frees'[d] = frees[d]
    BY Zenon, <1>1, <1>4 DEF Tables, TableTypes
  <2>2. frees[c] = 0
    BY Zenon, <1>1 DEF Tables, Freed
  <2>3. 0 + 1 = 1
    OBVIOUS
  <2> QED BY ZenonT(60), <1>3, <2>1, <2>2, <2>3 DEF Tables, Freed
<1>8. Counted'
  <2>1. registered'[fd] = {} /\ \A f \in Fds \ {fd} : registered'[f] = registered[f]
    BY Zenon, <1>4 DEF Tables, TableTypes
  <2>2. /\ Cardinality(Busy(registered)) \in Nat
        /\ Cardinality(Busy(registered')) = Cardinality(Busy(registered)) - 1
    BY ZenonT(60), <1>1, <2>1, Recount
  <2>3. epoll_fds' = epoll_fds - 1
    BY Zenon, <1>1 DEF CloseAndFree, comm_close, Known, Tables, Counted
  <2> QED BY <1>4, <2>2, <2>3 DEF Tables, Counted
<1> QED BY Zenon, <1>3, <1>4, <1>5, <1>6, <1>7, <1>8 DEF Tables

(* Steps of the peers, and of handlers that only read or fail to write.    *)
LEMMA PeerKeeps ==
  ASSUME Tables, UNCHANGED <<table, active>>, sock' \in [Conns -> Sockets],
         \A c \in Conns : \/ sock'[c].st = sock[c].st
                          \/ sock[c].st = "idle" /\ sock'[c].st = "queued"
                          \/ {sock[c].st, sock'[c].st} \subseteq {"open", "fin", "rst"}
  PROVE  Tables'
<1>1. TableTypes' /\ Counted'
  BY ZenonT(60) DEF Tables, TableTypes, Counted, table
<1>2. Owned'
  <2>1. \A gd \in Fds : ~Gone(gd) => sock'[open[gd]].st \in {"open", "fin", "rst"}
    BY ZenonT(60) DEF Tables, TableTypes, Owned, Gone
  <2> QED BY <2>1 DEF Tables, Owned, Gone, Holds, table
<1>3. Freed'
  BY Zenon DEF Tables, Freed, table
<1> QED BY Zenon, <1>1, <1>2, <1>3 DEF Tables

(* A connection that is accepted gets a descriptor that was free.          *)
Admits(fd, c) ==
  /\ Gone(fd) /\ sock[c].st = "queued"
  /\ open' = [open EXCEPT ![fd] = c] /\ registered' = [registered EXCEPT ![fd] = {"out"}]
  /\ sock' = [sock EXCEPT ![c].st = "open"]
  /\ fd_table'[fd].write = "welcome"
  /\ fd_table'[fd].timeout = sys_curtime + WelcomeTimeout /\ fd_table'[fd].read = None
  /\ \A gd \in Fds \ {fd} : fd_table'[gd] = fd_table[gd]
  /\ Served(fd)

(* accept_connection keeps the tables: it changes none, or admits one.     *)
LEMMA AcceptKeeps ==
  ASSUME Tables, Times, accept_connection
  PROVE  Tables' /\ (UNCHANGED <<table, sock, active>>
                     \/ \E fd \in Fds, c \in Conns : Admits(fd, c))
<1> DEFINE free_fds == {fd \in Fds : Gone(fd)}
<1>1. CASE free_fds = {} \/ Queued = {}
  <2>1. UNCHANGED <<table, sock, active>>
    BY Zenon, <1>1 DEF accept_connection
  <2>2. sock' \in [Conns -> Sockets] /\ \A c \in Conns : sock'[c].st = sock[c].st
    BY Zenon, <2>1 DEF Tables, TableTypes
  <2> QED BY Zenon, <2>1, <2>2, PeerKeeps
<1>2. CASE free_fds # {} /\ Queued # {}
  <2>1. PICK fd \in Lowest(free_fds), c \in Lowest(Queued) :
          /\ sock' = [sock EXCEPT ![c].st = "open"] /\ open' = [open EXCEPT ![fd] = c]
          /\ fd_table' = [fd_table EXCEPT
               ![fd] = commSetTimeout(WriteHandler(@, "welcome", c), WelcomeTimeout, c)]
          /\ epollSetEvents(fd, {"out"}) /\ Served(fd) /\ frees' = frees
    BY Zenon, <1>2 DEF accept_connection
  <2>2. fd \in Fds /\ Gone(fd) /\ c \in Conns /\ sock[c].st = "queued"
    BY Zenon DEF Lowest, Queued
  <2> DEFINE F == commSetTimeout(WriteHandler(fd_table[fd], "welcome", c), WelcomeTimeout, c)
  <2>3. fd_table' = [fd_table EXCEPT ![fd] = F]
    BY Zenon, <2>1
  <2> HIDE DEF free_fds, F
  <2>4. F \in Entries /\ F.write = "welcome" /\ Holds(F, c) /\ F.read = None
        /\ F.timeout = sys_curtime + WelcomeTimeout
    <3>1. fd_table[fd] = NoEntry /\ NoEntry \in Entries
      BY Zenon, <2>2 DEF Tables, Owned, NoEntry, Entries
    <3> DEFINE G == WriteHandler(fd_table[fd], "welcome", c)
    <3>2. /\ G \in Entries /\ G.write = "welcome" /\ G.writeData = c
          /\ G.read = None /\ G.readData = None
      BY <2>2, <3>1, Writing DEF NoEntry
    <3>3. F = commSetTimeout(G, WelcomeTimeout, c)
      BY Zenon DEF F
    <3> HIDE DEF G
    <3>4. WelcomeTimeout \in Nat /\ sys_curtime \in Nat
      BY Zenon, CommAssumption DEF Times
    <3>5. /\ F \in Entries /\ F.read = G.read /\ F.readData = G.readData
          /\ F.write = G.write /\ F.writeData = G.writeData
          /\ F.onTimeout = "timeout" /\ F.timeoutData = c
          /\ F.timeout = sys_curtime + WelcomeTimeout
      BY <2>2, <3>2, <3>3, <3>4, Timed
    <3> QED BY Zenon, <3>2, <3>5 DEF Holds
  <2>5. /\ registered' = [registered EXCEPT ![fd] = {"out"}] /\ Counted'
        /\ registered' \in [Fds -> SUBSET {"in", "out"}]
    BY ZenonT(60), <2>1, <2>2, <2>3, Registers DEF Tables
  <2>6. active' \in [Fds -> Nat] /\ \A gd \in Fds \ {fd} : active'[gd] = active[gd]
    BY Zenon, <2>1, <2>3 DEF Served, Tables, TableTypes, Times
  <2>7. /\ sock' \in [Conns -> Sockets] /\ sock'[c].st = "open"
        /\ \A d \in Conns \ {c} : sock'[d].st = sock[d].st
    <3>1. sock \in [Conns -> Sockets] /\ sock' = [sock EXCEPT ![c] = [@ EXCEPT !.st = "open"]]
      BY Zenon, <2>1 DEF Tables, TableTypes
    <3>2. /\ [sock[c] EXCEPT !.st = "open"] \in Sockets
          /\ [sock[c] EXCEPT !.st = "open"].st = "open"
      BY ZenonT(60), <2>2, <3>1 DEF Sockets
    <3> QED BY ZenonT(60), <2>2, <3>1, <3>2
  <2>8. TableTypes'
    <3>1. /\ fd_table' \in [Fds -> Entries]
          /\ open' \in [Fds -> Conns \cup {None}] /\ frees' \in [Conns -> Nat]
      BY ZenonT(60), <2>1, <2>2, <2>3, <2>4 DEF Tables, TableTypes
    <3> QED BY Zenon, <2>5, <2>6, <2>7, <3>1 DEF TableTypes
  <2>9. Owned'
    <3> SUFFICES ASSUME NEW gd \in Fds
                 PROVE  IF open'[gd] = None
                        THEN fd_table'[gd] = NoEntry /\ registered'[gd] = {} /\ active'[gd] = 0
                        ELSE /\ Holds(fd_table'[gd], open'[gd])
                             /\ registered'[gd] \in {{"in"}, {"out"}}
                             /\ sock'[open'[gd]].st \in {"open", "fin", "rst"}
                             /\ \A hd \in Fds \ {gd} : open'[hd] # open'[gd]
      BY Zenon DEF Owned, Holds, Gone
    <3>0. \A hd \in Fds : open[hd] # c
      BY Zenon, <2>2, CommAssumption DEF Tables, TableTypes, Owned, Gone
    <3>1. CASE gd = fd
      BY ZenonT(60), <2>1, <2>2, <2>3, <2>4, <2>5, <2>7, <3>0, <3>1, CommAssumption
         DEF Tables, TableTypes
    <3>2. CASE gd # fd /\ open[gd] = None
      BY ZenonT(60), <2>1, <2>3, <2>5, <2>6, <3>2 DEF Tables, TableTypes, Owned, Gone
    <3>3. CASE gd # fd /\ open[gd] # None
      BY <2>1, <2>3, <2>5, <2>7, <3>0, <3>3 DEF Tables, TableTypes, Owned, Gone
    <3> QED BY Zenon, <3>1, <3>2, <3>3
  <2>10. Freed'
    BY Zenon, <2>1, <2>2, <2>3, <2>7 DEF Tables, Freed
  <2>11. Admits(fd, c)
    BY Zenon, <2>1, <2>2, <2>3, <2>4, <2>5 DEF Admits, Tables, TableTypes
  <2> QED BY ZenonT(60), <2>2, <2>5, <2>8, <2>9, <2>10, <2>11 DEF Tables
<1> QED BY Zenon, <1>1, <1>2

-----------------------------------------------------------------------------
(* What a handler that is called for fd leaves alone.                      *)
Apart(fd) ==
  \A gd \in Fds \ {fd} :
    /\ open'[gd] = open[gd] /\ registered'[gd] = registered[gd]
    /\ fd_table'[gd] = fd_table[gd] /\ active'[gd] = active[gd]
    /\ ~Gone(gd) => /\ sock'[open[gd]].st = sock[open[gd]].st
                    /\ owed'[open[gd]] = owed[open[gd]]

(* What it does to the timer of fd: restart it, clear it or leave it.      *)
TimerStep(fd) ==
  \/ /\ active'[fd] = IF sys_curtime = 0 THEN 0 ELSE now
     /\ fd_table'[fd].timeout =
          sys_curtime + IF fd_table'[fd].read = None THEN WelcomeTimeout ELSE EchoTimeout
  \/ active'[fd] = 0 /\ fd_table'[fd].timeout = 0
  \/ active'[fd] = active[fd] /\ fd_table'[fd] = fd_table[fd]

(* OneReplyPerRequest for one descriptor.                                  *)
Reply(fd) ==
  ~Gone(fd) =>
    /\ owed[open[fd]] >= 0
    /\ Peer(fd).st # "rst" =>
         owed[open[fd]] = IF registered[fd] = {"out"} /\ fd_table[fd].write = "response"
                          THEN 1 ELSE 0

(* A step about one descriptor keeps the count of the replies owed.        *)
LEMMA AnswersKept ==
  ASSUME Tables, Answers, NEW fd \in Fds, Apart(fd), owed' \in [Conns -> Int],
         sock' \in [Conns -> Sockets], Reply(fd)',
         \A c \in Conns : sock'[c].st \in {"idle", "queued"} =>
           owed'[c] = owed[c] /\ sock[c].st \in {"idle", "queued"}
  PROVE  Answers'
<1>1. \A gd \in Fds \ {fd} : Reply(gd)'
  <2> SUFFICES ASSUME NEW gd \in Fds \ {fd}, open'[gd] # None
               PROVE  /\ owed'[open'[gd]] >= 0
                      /\ sock'[open'[gd]].st # "rst" =>
                           owed'[open'[gd]] =
                             IF registered'[gd] = {"out"} /\ fd_table'[gd].write = "response"
                             THEN 1 ELSE 0
    BY Zenon DEF Reply, Gone, Peer
  <2> QED BY DEF Apart, Answers, OneReplyPerRequest, Gone, Peer
<1>2. OneReplyPerRequest'
  BY Zenon, <1>1 DEF OneReplyPerRequest, Reply, Gone, Peer
<1>3. \A c \in Conns : sock'[c].st \in {"idle", "queued"} => owed'[c] = 0
  BY Zenon DEF Answers
<1> QED BY Zenon, <1>2, <1>3 DEF Answers

(* read and write change nothing of a socket's state.                      *)
LEMMA SocketUsed ==
  ASSUME Tables, NEW fd \in Fds, ~Gone(fd)
  PROVE  /\ open[fd] \in Conns
         /\ AfterRead(fd) \in [Conns -> Sockets] /\ AfterWrite(fd) \in [Conns -> Sockets]
         /\ \A c \in Conns : AfterRead(fd)[c].st = sock[c].st /\ AfterWrite(fd)[c].st = sock[c].st
<1>1. open[fd] \in Conns
  BY Zenon DEF Tables, TableTypes, Gone
<1>2. \A c \in Conns : /\ [sock[c] EXCEPT !.unread = None] \in Sockets
                       /\ [sock[c] EXCEPT !.err = FALSE] \in Sockets
                       /\ [sock[c] EXCEPT !.unread = None].st = sock[c].st
                       /\ [sock[c] EXCEPT !.err = FALSE].st = sock[c].st
  BY ZenonT(60) DEF Tables, TableTypes, Sockets
<1>3. /\ AfterRead(fd) \in [Conns -> Sockets]
      /\ \A c \in Conns : AfterRead(fd)[c].st = sock[c].st
  BY Zenon, <1>1, <1>2 DEF Tables, TableTypes, AfterRead
<1>4. /\ AfterWrite(fd) \in [Conns -> Sockets]
      /\ \A c \in Conns : AfterWrite(fd)[c].st = sock[c].st
  BY Zenon, <1>1, <1>2 DEF Tables, TableTypes, AfterWrite
<1> QED BY Zenon, <1>1, <1>3, <1>4

(* A handler that serves fd: the entry F it leaves, and the event it waits *)
(* for.                                                                    *)
LEMMA ServeApart ==
  ASSUME Inv, NEW fd \in Fds, ~Gone(fd), NEW F \in Entries, Holds(F, open[fd]),
         NEW ev \in {"in", "out"}, epollSetEvents(fd, {ev}), Served(fd),
         F.read # None, F.timeout = sys_curtime + EchoTimeout,
         fd_table' = [fd_table EXCEPT ![fd] = F], UNCHANGED <<open, frees>>,
         sock' \in [Conns -> Sockets], \A c \in Conns : sock'[c].st = sock[c].st,
         NEW n \in Int, n >= 0, owed' = [owed EXCEPT ![open[fd]] = n],
         Peer(fd).st # "rst" => n = IF ev = "out" /\ F.write = "response" THEN 1 ELSE 0
  PROVE  Tables' /\ Answers' /\ Apart(fd) /\ TimerStep(fd) /\ registered'[fd] = {ev}
<1>1. active' \in [Fds -> Nat] /\ \A gd \in Fds \ {fd} : active'[gd] = active[gd]
  BY Zenon DEF Served, Inv, Tables, TableTypes, Times
<1>2. Tables' /\ registered' = [registered EXCEPT ![fd] = {ev}]
  BY Zenon, <1>1, ServeKeeps DEF Inv
<1>3. Apart(fd)
  <2>1. \A gd \in Fds \ {fd} : ~Gone(gd) => open[gd] # open[fd] /\ open[gd] \in Conns
    BY Zenon DEF Inv, Tables, TableTypes, Owned, Gone
  <2> QED BY Zenon, <1>1, <1>2, <2>1 DEF Apart, Inv, Tables, TableTypes, Answers
<1>4. TimerStep(fd)
  BY Zenon DEF TimerStep, Served, Inv, Tables, TableTypes
<1>5. Answers'
  <2>1. open[fd] \in Conns /\ sock[open[fd]].st \notin {"idle", "queued"}
    BY Zenon DEF Inv, Tables, TableTypes, Owned, Gone
  <2>2. owed' \in [Conns -> Int] /\ owed'[open[fd]] = n
    BY Zenon, <2>1 DEF Inv, Answers
  <2>3. Reply(fd)'
    <3>1. registered'[fd] = {ev} /\ fd_table'[fd] = F /\ open'[fd] = open[fd]
      BY Zenon, <1>2 DEF Inv, Tables, TableTypes
    <3>2. owed'[open[fd]] >= 0 /\ sock'[open[fd]].st = sock[open[fd]].st
      BY Zenon, <2>1, <2>2
    <3>3. sock[open[fd]].st # "rst" =>
            owed'[open[fd]] = IF registered'[fd] = {"out"} /\ fd_table'[fd].write = "response"
                              THEN 1 ELSE 0
      BY Zenon, <2>2, <3>1 DEF Peer
    <3> QED BY Zenon, <3>1, <3>2, <3>3 DEF Reply, Peer
  <2>4. \A c \in Conns : sock'[c].st \in {"idle", "queued"} =>
          owed'[c] = owed[c] /\ sock[c].st \in {"idle", "queued"}
    BY Zenon, <2>1 DEF Inv, Answers
  <2> QED BY Zenon, <1>3, <2>2, <2>3, <2>4, AnswersKept DEF Inv
<1> QED BY Zenon, <1>2, <1>3, <1>4, <1>5 DEF Inv, Tables, TableTypes

(* A handler that only uses up what its socket reports.                    *)
LEMMA StayApart ==
  ASSUME Inv, NEW fd \in Fds, Stay, UNCHANGED owed, sock' \in [Conns -> Sockets],
         \A c \in Conns : sock'[c].st = sock[c].st
  PROVE  /\ Tables' /\ Answers' /\ Apart(fd) /\ TimerStep(fd)
         /\ open' = open /\ registered' = registered
<1>1. Tables'
  BY Zenon, PeerKeeps DEF Inv, Stay
<1>2. Apart(fd) /\ TimerStep(fd) /\ open' = open /\ registered' = registered
  BY Zenon DEF Apart, TimerStep, Stay, table, Inv, Tables, TableTypes, Gone
<1>3. Reply(fd)'
  BY Zenon DEF Reply, Gone, Peer, Stay, table, Inv, Tables, TableTypes, Answers, OneReplyPerRequest
<1>4. Answers'
  BY Zenon, <1>2, <1>3, AnswersKept DEF Inv, Answers
<1> QED BY Zenon, <1>1, <1>2, <1>4

(* A handler or a timeout that closes fd.                                  *)
LEMMA CloseApart ==
  ASSUME Inv, NEW fd \in Fds, ~Gone(fd), NEW s \in [Conns -> Sockets],
         \A c \in Conns : s[c].st = sock[c].st, CloseAndFree(fd, open[fd], s),
         UNCHANGED owed
  PROVE  /\ Tables' /\ Answers' /\ Apart(fd) /\ open'[fd] = None
         /\ active'[fd] = 0 /\ fd_table'[fd] = NoEntry
<1>1. /\ Tables' /\ registered' = [registered EXCEPT ![fd] = {}]
      /\ open' = [open EXCEPT ![fd] = None]
      /\ \A c \in Conns : sock'[c].st = IF c = open[fd] THEN "closed" ELSE sock[c].st
  BY Zenon, CloseKeeps DEF Inv
<1>2. /\ fd_table' = [fd_table EXCEPT ![fd] = NoEntry] /\ active' = [active EXCEPT ![fd] = 0]
  BY Zenon DEF CloseAndFree, comm_close, Cleared
<1>3. open'[fd] = None /\ active'[fd] = 0 /\ fd_table'[fd] = NoEntry
  BY ZenonT(60), <1>1, <1>2 DEF Inv, Tables, TableTypes
<1>4. Apart(fd)
  <2>1. \A gd \in Fds \ {fd} : ~Gone(gd) => open[gd] # open[fd] /\ open[gd] \in Conns
    BY Zenon DEF Inv, Tables, TableTypes, Owned, Gone
  <2> QED BY ZenonT(60), <1>1, <1>2, <2>1 DEF Apart, Inv, Tables, TableTypes
<1>5. Reply(fd)'
  BY Zenon, <1>3 DEF Reply, Gone
<1>6. Answers'
  <2>1. sock' \in [Conns -> Sockets]
    BY Zenon, <1>1 DEF Tables, TableTypes
  <2> QED BY Zenon, <1>1, <1>4, <1>5, <2>1, AnswersKept DEF Inv, Answers
<1> QED BY Zenon, <1>1, <1>3, <1>4, <1>6

(* do_echo_handler, called for data that was announced or a hang-up.       *)
LEMMA EchoKeeps ==
  ASSUME Inv, NEW fd \in Fds, ~Gone(fd), fd_table[fd].read = "echo",
         Peer(fd).st = "rst" \/ registered[fd] = {"in"},
         do_echo_handler(fd, fd_table[fd].readData)
  PROVE  /\ Tables' /\ Answers' /\ Apart(fd) /\ TimerStep(fd) /\ pc' = pc
         /\ open'[fd] # None =>
              /\ open'[fd] = open[fd] /\ sock'[open[fd]].st = sock[open[fd]].st
              /\ registered'[fd] \in {{"out"}, registered[fd]}
<1> DEFINE c == open[fd]
<1>1. /\ c \in Conns /\ fd_table[fd] \in Entries /\ Holds(fd_table[fd], c)
      /\ sys_curtime \in Nat /\ EchoTimeout \in Nat
  BY Zenon, CommAssumption DEF Inv, Tables, TableTypes, Owned, Gone, Times
<1>2. fd_table[fd].readData = c
  BY Zenon, <1>1, CommAssumption DEF Holds
<1>3. /\ AfterRead(fd) \in [Conns -> Sockets]
      /\ \A d \in Conns : AfterRead(fd)[d].st = sock[d].st
  BY Zenon, SocketUsed DEF Inv
<1>4. ReadResult(fd) \in {"msg", "quit", "eof", "error"}
  BY Zenon, <1>1 DEF ReadResult, Peer, Inv, Tables, TableTypes, Sockets
<1>5. CASE ReadResult(fd) = "msg"
  <2> DEFINE G == WriteHandler(fd_table[fd], "response", c)
             F == commSetTimeout(G, EchoTimeout, c)
  <2>1. /\ fd_table' = [fd_table EXCEPT ![fd] = F]
        /\ epollSetEvents(fd, {"out"}) /\ sock' = AfterRead(fd)
        /\ owed' = [owed EXCEPT ![c] = @ + 1]
        /\ Served(fd) /\ UNCHANGED <<open, frees, pc>>
    BY ZenonT(60), <1>2, <1>5 DEF do_echo_handler
  <2>2. /\ G \in Entries /\ G.write = "response" /\ G.writeData = c
        /\ G.read = "echo" /\ G.readData = c
    BY <1>1, <1>2, Writing
  <2>0. F = commSetTimeout(G, EchoTimeout, c)
    BY ZenonT(60)
  <2> HIDE DEF G, F
  <2>3. /\ F \in Entries /\ F.read = G.read /\ F.readData = G.readData
        /\ F.write = G.write /\ F.writeData = G.writeData
        /\ F.onTimeout = "timeout" /\ F.timeoutData = c /\ F.timeout = sys_curtime + EchoTimeout
    BY <1>1, <2>0, <2>2, Timed
  <2>4. /\ Holds(F, c) /\ F.read # None /\ F.write = "response"
    BY Zenon, <2>2, <2>3, CommAssumption DEF Holds
  <2> DEFINE n == owed[c] + 1
  <2>5. /\ n \in Int /\ n >= 0 /\ owed' = [owed EXCEPT ![c] = n]
        /\ Peer(fd).st # "rst" => n = 1
    <3>1. owed \in [Conns -> Int] /\ OneReplyPerRequest
      BY Zenon DEF Inv, Answers
    <3>2. owed[c] \in Int /\ owed[c] >= 0 /\ (Peer(fd).st # "rst" => owed[c] = 0)
      BY Zenon, <1>1, <3>1 DEF OneReplyPerRequest, Gone
    <3> QED BY <2>1, <3>2
  <2> HIDE DEF n
  <2>6. Tables' /\ Answers' /\ Apart(fd) /\ TimerStep(fd) /\ registered'[fd] = {"out"}
    <3>1. Peer(fd).st # "rst" => n = IF "out" = "out" /\ F.write = "response" THEN 1 ELSE 0
      BY Zenon, <2>4, <2>5
    <3>2. /\ sock' \in [Conns -> Sockets] /\ \A d \in Conns : sock'[d].st = sock[d].st
          /\ UNCHANGED <<open, frees>> /\ "out" \in {"in", "out"}
      BY Zenon, <1>3, <2>1
    <3> QED BY ZenonT(60), <2>1, <2>3, <2>4, <2>5, <3>1, <3>2, ServeApart
  <2> QED BY Zenon, <1>1, <1>3, <2>1, <2>6
<1>6. CASE ReadResult(fd) \in {"quit", "eof"}
  <2>1. CloseAndFree(fd, c, AfterRead(fd)) /\ UNCHANGED <<owed, pc>>
    BY Zenon, <1>2, <1>6 DEF do_echo_handler
  <2>2. /\ Tables' /\ Answers' /\ Apart(fd) /\ open'[fd] = None
        /\ active'[fd] = 0 /\ fd_table'[fd] = NoEntry
    BY Zenon, <1>3, <2>1, CloseApart
  <2>3. NoEntry.timeout = 0
    BY Zenon DEF NoEntry
  <2> QED BY Zenon, <2>1, <2>2, <2>3 DEF TimerStep
<1>7. CASE ReadResult(fd) = "error"
  <2>1. sock' = AfterRead(fd) /\ Stay /\ UNCHANGED <<owed, pc>>
    BY Zenon, <1>7 DEF do_echo_handler
  <2> QED BY Zenon, <1>1, <1>3, <2>1, StayApart
<1> QED BY Zenon, <1>4, <1>5, <1>6, <1>7

(* do_welcome_handler and do_echo_response, called while the connection    *)
(* waits to write or was reset.                                            *)
LEMMA WriteKeeps ==
  ASSUME Inv, NEW fd \in Fds, ~Gone(fd),
         Peer(fd).st = "rst" \/ registered[fd] = {"out"},
         \/ /\ fd_table[fd].write = "welcome"
            /\ do_welcome_handler(fd, fd_table[fd].writeData)
         \/ /\ fd_table[fd].write = "response"
            /\ do_echo_response(fd, fd_table[fd].writeData)
  PROVE  Tables' /\ Answers' /\ Apart(fd) /\ TimerStep(fd) /\ pc' \in {pc, "dead"}
<1> DEFINE c == open[fd]
<1>1. /\ c \in Conns /\ fd_table[fd] \in Entries /\ Holds(fd_table[fd], c)
      /\ sys_curtime \in Nat /\ EchoTimeout \in Nat
  BY Zenon, CommAssumption DEF Inv, Tables, TableTypes, Owned, Gone, Times
<1>2. fd_table[fd].writeData = c
  BY Zenon, <1>1, CommAssumption DEF Holds
<1>3. /\ AfterWrite(fd) \in [Conns -> Sockets]
      /\ \A d \in Conns : AfterWrite(fd)[d].st = sock[d].st
  BY Zenon, SocketUsed DEF Inv
<1>4. ASSUME Stay, UNCHANGED owed, sock' = AfterWrite(fd), pc' \in {pc, "dead"}
      PROVE  Tables' /\ Answers' /\ Apart(fd) /\ TimerStep(fd) /\ pc' \in {pc, "dead"}
  BY Zenon, <1>3, <1>4, StayApart
<1>5. WriteResults(fd) \subseteq {"all", "part", "error", "sigpipe"}
      /\ (Peer(fd).st = "rst" => WriteResults(fd) \cap {"all", "part"} = {})
  BY Zenon DEF WriteResults
<1>6. Reply(fd)
  BY Zenon DEF Inv, Answers, OneReplyPerRequest, Reply
<1>7. ASSUME NEW F \in Entries, Holds(F, c), F.read = "echo",
             F.timeout = sys_curtime + EchoTimeout, Peer(fd).st # "rst",
             fd_table' = [fd_table EXCEPT ![fd] = F], epollSetEvents(fd, {"in"}),
             owed' = [owed EXCEPT ![c] = 0], Served(fd), sock' = AfterWrite(fd),
             UNCHANGED <<open, frees, pc>>
      PROVE  Tables' /\ Answers' /\ Apart(fd) /\ TimerStep(fd) /\ pc' \in {pc, "dead"}
  <2>1. F.read # None /\ 0 \in Int /\ 0 >= 0 /\ UNCHANGED <<open, frees>> /\ "in" \in {"in", "out"}
    BY <1>7, CommAssumption
  <2>2. /\ sock' \in [Conns -> Sockets] /\ \A d \in Conns : sock'[d].st = sock[d].st
        /\ 0 = IF "in" = "out" /\ F.write = "response" THEN 1 ELSE 0
    BY Zenon, <1>3, <1>7
  <2>3. Tables' /\ Answers' /\ Apart(fd) /\ TimerStep(fd)
    BY Zenon, <1>7, <2>1, <2>2, ServeApart
  <2> QED BY Zenon, <1>7, <2>3
<1>8. CASE fd_table[fd].write = "welcome"
  <2>1. PICK r \in WriteResults(fd) :
          /\ sock' = AfterWrite(fd)
          /\ CASE r = "all" ->
                    /\ fd_table' = [fd_table EXCEPT
                         ![fd] = commSetTimeout(ReadHandler(@, "echo", c), EchoTimeout, c)]
                    /\ epollSetEvents(fd, {"in"})
                    /\ Served(fd) /\ UNCHANGED <<open, frees, owed, pc>>
               [] r = "sigpipe" -> pc' = "dead" /\ Stay /\ UNCHANGED owed
               [] r \in {"part", "error"} -> pc' \in {pc, "dead"} /\ Stay /\ UNCHANGED owed
    BY Zenon, <1>2, <1>8 DEF do_welcome_handler
  <2>2. CASE r = "all"
    <3> DEFINE G == ReadHandler(fd_table[fd], "echo", c)
               F == commSetTimeout(G, EchoTimeout, c)
    <3>1. /\ G \in Entries /\ G.read = "echo" /\ G.readData = c
          /\ G.write = fd_table[fd].write /\ G.writeData = c
      BY ZenonT(60), <1>1, <1>2, Reading
    <3>2. /\ fd_table' = [fd_table EXCEPT ![fd] = F] /\ epollSetEvents(fd, {"in"})
          /\ Served(fd) /\ UNCHANGED <<open, frees, pc>> /\ owed' = owed
      BY Zenon, <2>1, <2>2
    <3>0. F = commSetTimeout(G, EchoTimeout, c)
      BY Zenon
    <3> HIDE DEF G, F, c
    <3>3. /\ F \in Entries /\ F.read = G.read /\ F.readData = G.readData
          /\ F.write = G.write /\ F.writeData = G.writeData /\ F.onTimeout = "timeout"
          /\ F.timeoutData = c /\ F.timeout = sys_curtime + EchoTimeout
      <4>1. G \in Entries /\ c \in Conns /\ EchoTimeout \in Nat /\ sys_curtime \in Nat
        BY Zenon, <1>1, <3>1
      <4> QED BY <3>0, <4>1, Timed
    <3> USE DEF c
    <3>4. Holds(F, c) /\ F.read = "echo"
      BY Zenon, <3>1, <3>3 DEF Holds
    <3>5. Peer(fd).st # "rst" /\ owed[c] = 0 /\ owed' = [owed EXCEPT ![c] = 0]
      BY Zenon, <1>1, <1>5, <1>6, <1>8, <2>2, <3>2 DEF Reply, Inv, Answers
    <3> QED BY ZenonT(60), <1>7, <2>1, <3>2, <3>3, <3>4, <3>5
  <2>3. CASE r # "all"
    BY Zenon, <1>4, <1>5, <2>1, <2>3
  <2> QED BY Zenon, <2>2, <2>3
<1>9. CASE fd_table[fd].write = "response"
  <2>1. PICK r \in WriteResults(fd) :
          /\ sock' = AfterWrite(fd)
          /\ CASE r \in {"all", "part"} ->
                    /\ fd_table' = [fd_table EXCEPT ![fd] = ReadHandler(Renewed(@, c), "echo", c)]
                    /\ epollSetEvents(fd, {"in"})
                    /\ owed' = [owed EXCEPT ![c] = @ - 1]
                    /\ Served(fd) /\ UNCHANGED <<open, frees, pc>>
               [] r = "error" -> pc' \in {pc, "dead"} /\ Stay /\ UNCHANGED owed
               [] r = "sigpipe" -> pc' = "dead" /\ Stay /\ UNCHANGED owed
    BY Zenon, <1>2, <1>9 DEF do_echo_response, AfterReply
  <2>2. CASE r \in {"all", "part"}
    <3> DEFINE G == commSetTimeout(fd_table[fd], EchoTimeout, c)
               F == ReadHandler(G, "echo", c)
    <3>1. /\ G \in Entries /\ G.writeData = fd_table[fd].writeData
          /\ G.onTimeout = "timeout" /\ G.timeoutData = c
          /\ G.timeout = sys_curtime + EchoTimeout
      BY ZenonT(60), <1>1, TimedEcho
    <3>2. /\ fd_table' = [fd_table EXCEPT ![fd] = F] /\ epollSetEvents(fd, {"in"})
          /\ Served(fd) /\ UNCHANGED <<open, frees, pc>> /\ owed' = [owed EXCEPT ![c] = @ - 1]
      BY Zenon, <2>1, <2>2 DEF Renewed
    <3>0. F = ReadHandler(G, "echo", c)
      BY Zenon
    <3> HIDE DEF G, F, c
    <3>3. /\ F \in Entries /\ F.read = "echo" /\ F.readData = c /\ F.writeData = G.writeData
          /\ F.onTimeout = G.onTimeout /\ F.timeoutData = G.timeoutData /\ F.timeout = G.timeout
      BY <1>1, <3>0, <3>1, Reading
    <3> USE DEF c
    <3>4. Holds(F, c)
      BY Zenon, <1>2, <3>1, <3>3 DEF Holds
    <3>5. Peer(fd).st # "rst" /\ owed[c] = 1 /\ owed' = [owed EXCEPT ![c] = 0]
      <4>1. Peer(fd).st # "rst"
        BY Zenon, <1>5, <2>2
      <4>2. owed[c] = 1
        BY Zenon, <1>6, <1>9, <4>1 DEF Reply
      <4>3. owed[c] - 1 = 0
        BY <4>2
      <4> QED BY Zenon, <3>2, <4>1, <4>2, <4>3
    <3> QED BY ZenonT(60), <1>7, <2>1, <3>1, <3>2, <3>3, <3>4, <3>5
  <2>3. CASE r \notin {"all", "part"}
    BY Zenon, <1>4, <1>5, <2>1, <2>3
  <2> QED BY Zenon, <2>2, <2>3
<1> QED BY Zenon, <1>8, <1>9, CommAssumption

(* checkTimeouts: what it closes, and when.                                *)
LEMMA CheckCloses ==
  ASSUME Inv, checkTimeouts
  PROVE  /\ UNCHANGED <<batch, at, clocks, owed>> /\ pc = "check"
         /\ \/ /\ pc' = "wait" /\ UNCHANGED <<table, sock, active>>
               /\ \A fd \in Fds : ~Expired(fd)
            \/ /\ pc' = "check"
               /\ \E fd \in Fds : Expired(fd) /\ ~Gone(fd) /\ CloseAndFree(fd, open[fd], sock)
<1> DEFINE late == {fd \in Fds : Expired(fd)}
<1>1. UNCHANGED <<batch, at, clocks, owed>> /\ pc = "check"
  BY Zenon DEF checkTimeouts
<1>2. CASE late = {}
  BY Zenon, <1>1, <1>2 DEF checkTimeouts
<1>3. CASE late # {}
  <2>1. PICK fd \in Lowest(late) :
          IF fd_table[fd].onTimeout = "timeout"
          THEN CloseAndFree(fd, fd_table[fd].timeoutData, sock) /\ UNCHANGED pc
          ELSE comm_close(fd) /\ sock' = Shut(sock, fd) /\ UNCHANGED <<frees, pc>>
    BY Zenon, <1>3 DEF checkTimeouts
  <2>2. fd \in Fds /\ Expired(fd)
    BY Zenon DEF Lowest
  <2>3. ~Gone(fd)
    <3>1. NoEntry.timeout = 0
      BY Zenon DEF NoEntry
    <3> QED BY Zenon, <2>2, <3>1 DEF Expired, Inv, Tables, Owned
  <2>4. fd_table[fd].onTimeout = "timeout" /\ fd_table[fd].timeoutData = open[fd]
    BY Zenon, <2>2, <2>3 DEF Inv, Tables, Owned, Holds
  <2> QED BY Zenon, <1>1, <2>1, <2>2, <2>3, <2>4
<1> QED BY Zenon, <1>2, <1>3

(* The tables start empty.                                                 *)
LEMMA InitTables == ASSUME Init PROVE Tables
<1>1. TableTypes
  BY Zenon DEF Init, TableTypes, Entries, NoEntry, Sockets
<1>2. Owned /\ Freed
  BY Zenon DEF Init, Owned, Freed, Gone
<1>3. Counted
  <2>1. Busy(registered) = {}
    BY Zenon DEF Init, Busy
  <2>2. Cardinality(Busy(registered)) = 0
    BY Zenon, <2>1, FS_EmptySet
  <2> QED BY <2>2 DEF Init, Counted
<1> QED BY Zenon, <1>1, <1>2, <1>3 DEF Tables


-----------------------------------------------------------------------------
(* The clocks.  The cached clock is right but for the second that passes   *)
(* in epoll_wait, and the timeouts were last checked within the last two   *)
(* seconds of it; what was served before the first reading is not timed.   *)
Cached ==
  /\ IF sys_curtime = 0
     THEN last_timeout = 0 /\ pc # "check" /\ \A fd \in Fds : active[fd] = 0
     ELSE now = sys_curtime + waited
  /\ pc \in {"top", "check"} => waited = 0
  /\ pc = "check" => last_timeout = sys_curtime
  /\ last_timeout <= sys_curtime
  /\ pc \in {"wait", "handle", "dead"} => sys_curtime <= last_timeout + 1
  /\ pc = "top" => \/ sys_curtime <= last_timeout + 2
                   \/ last_timeout = 0 /\ \A fd \in Fds : active[fd] = 0

(* A timer runs from the cached clock of the time it was started, which is *)
(* behind by at most one second, and outside of checkTimeouts no timer has *)
(* run out at the last check.                                              *)
Timers ==
  \A fd \in Fds :
    /\ active[fd] # 0 =>
         /\ fd_table[fd].timeout # 0
         /\ active[fd] + Delay(fd) - 1 <= fd_table[fd].timeout
         /\ fd_table[fd].timeout <= active[fd] + Delay(fd)
    /\ fd_table[fd].timeout # 0 /\ pc # "check" => fd_table[fd].timeout > last_timeout
    /\ active[fd] # 0 /\ pc = "check" => fd_table[fd].timeout + 1 >= last_timeout

Clock == Start <= now /\ Cached /\ Timers

-----------------------------------------------------------------------------
(* The steps of the server, one by one.                                    *)

(* The events that are still to be handled stay fresh while a handler runs *)
(* for another descriptor.                                                 *)
LEMMA StayFresh ==
  ASSUME Inv, NEW fd \in Fds, Apart(fd), batch' \subseteq batch,
         \A e \in batch' : e.fd # fd
  PROVE  /\ batch' \subseteq Reports /\ \A e, g \in batch' : e.fd = g.fd => e = g
         /\ \A e \in batch' : e.fd # Listener => Fresh(e)'
<1>1. batch' \subseteq Reports /\ \A e, g \in batch' : e.fd = g.fd => e = g
  BY Zenon DEF Inv, Turn
<1>2. ASSUME NEW e \in batch', e.fd # Listener
      PROVE  /\ open'[e.fd] = e.conn /\ e.conn # None
             /\ e.ev \ {"hup"} \subseteq registered'[e.fd]
             /\ "hup" \in e.ev => sock'[e.conn].st = "rst"
  <2>1. e.fd \in Fds \ {fd} /\ Fresh(e)
    BY Zenon, <1>1, <1>2 DEF Inv, Turn, Reports
  <2> QED BY ZenonT(60), <2>1 DEF Fresh, Apart, Gone
<1> QED BY Zenon, <1>1, <1>2 DEF Fresh

(* The timers, when a handler ran for fd.                                  *)
LEMMA HandlerClock ==
  ASSUME Inv, Clock, NEW fd \in Fds, TimerStep(fd), UNCHANGED clocks,
         pc = "handle", pc' \in {"handle", "dead"},
         \A gd \in Fds \ {fd} : fd_table'[gd] = fd_table[gd] /\ active'[gd] = active[gd]
  PROVE  Clock'
<1>1. /\ UNCHANGED <<now, waited, sys_curtime, last_timeout>>
      /\ {now, sys_curtime, last_timeout} \subseteq Nat /\ waited \in {0, 1}
  BY Zenon DEF clocks, Inv, Times
<1>2. 0 < EchoTimeout /\ 0 < WelcomeTimeout /\ {EchoTimeout, WelcomeTimeout, Start} \subseteq Nat
  BY CommAssumption
<1>3. active[fd] \in Nat /\ fd_table[fd].timeout \in Nat
  BY Zenon DEF Inv, Tables, TableTypes, Entries
<1>4. sys_curtime = 0 => \A gd \in Fds : active'[gd] = 0
  BY Zenon DEF TimerStep, Clock, Cached
<1>5. Cached'
  BY Zenon, <1>1, <1>4 DEF Clock, Cached
<1>6. Timers'
  <2> SUFFICES ASSUME NEW gd \in Fds
               PROVE  LET D == IF fd_table'[gd].read = None THEN WelcomeTimeout ELSE EchoTimeout
                      IN  /\ active'[gd] # 0 =>
                               /\ fd_table'[gd].timeout # 0
                               /\ active'[gd] + D - 1 <= fd_table'[gd].timeout
                               /\ fd_table'[gd].timeout <= active'[gd] + D
                          /\ fd_table'[gd].timeout # 0 => fd_table'[gd].timeout > last_timeout
    BY Zenon, <1>1 DEF Timers, Delay
  <2>1. CASE gd # fd
    BY Zenon, <2>1 DEF Clock, Timers, Delay
  <2>2. CASE gd = fd /\ active'[fd] = 0 /\ fd_table'[fd].timeout = 0
    BY Zenon, <2>2
  <2>3. CASE gd = fd /\ active'[fd] = active[fd] /\ fd_table'[fd] = fd_table[fd]
    BY Zenon, <2>3 DEF Clock, Timers, Delay
  <2>4. CASE /\ gd = fd /\ active'[fd] = IF sys_curtime = 0 THEN 0 ELSE now
             /\ fd_table'[fd].timeout =
                  sys_curtime + IF fd_table'[fd].read = None THEN WelcomeTimeout ELSE EchoTimeout
    BY <1>1, <1>2, <2>4 DEF Clock, Cached
  <2> QED BY Zenon, <2>1, <2>2, <2>3, <2>4 DEF TimerStep
<1> QED BY Zenon, <1>1, <1>5, <1>6 DEF Clock

(* Accepting a connection is a step about its descriptor, and it owes none.*)
LEMMA AdmitApart ==
  ASSUME Inv, NEW fd \in Fds, NEW c \in Conns, Admits(fd, c), UNCHANGED owed, Tables'
  PROVE  Answers' /\ Apart(fd) /\ TimerStep(fd)
<1>1. \A gd \in Fds : open[gd] # c
  BY ZenonT(60), CommAssumption DEF Admits, Inv, Tables, TableTypes, Owned, Gone
<1>2. Apart(fd)
  BY ZenonT(60), <1>1 DEF Apart, Admits, Served, Inv, Tables, TableTypes, Gone
<1>3. TimerStep(fd)
  BY ZenonT(60) DEF TimerStep, Admits, Served, Inv, Tables, TableTypes
<1>4. /\ sock' \in [Conns -> Sockets] /\ sock'[c].st = "open"
      /\ \A d \in Conns \ {c} : sock'[d].st = sock[d].st
  BY DEF Admits, Inv, Tables, TableTypes, Sockets
<1>5. Reply(fd)'
  <2>1. open'[fd] = c /\ fd_table'[fd].write = "welcome" /\ owed'[c] = 0
    BY Zenon DEF Admits, Inv, Tables, TableTypes, Answers
  <2> QED BY <2>1 DEF Reply, Peer
<1>6. Answers'
  BY Zenon, <1>2, <1>4, <1>5, AnswersKept DEF Inv, Answers
<1> QED BY Zenon, <1>2, <1>3, <1>6

(* do_epoll_select calling a read handler keeps the invariant.             *)
LEMMA CallReadInv == ASSUME Inv, Clock, NEW e \in batch, CallRead(e) PROVE Inv' /\ Clock'
<1>1. /\ pc = "handle" /\ at = None /\ batch' = batch \ {e} /\ UNCHANGED clocks
      /\ e \in Reports /\ Times' /\ e.fd \in Fds \cup {Listener}
  BY Zenon DEF CallRead, Inv, Turn, Times, clocks, Reports
<1>2. \A g \in batch' : g.fd # e.fd
  BY Zenon, <1>1 DEF Inv, Turn
<1>3. ASSUME UNCHANGED <<table, sock, active, owed, pc>>, at' \in {None, e},
             at' # None => at' = e /\ e.fd # Listener
      PROVE  Inv' /\ Clock'
  <2>1. Tables' /\ Answers'
    BY Zenon, <1>3, PeerKeeps DEF Inv, Tables, TableTypes, Answers, OneReplyPerRequest, Gone,
       Peer, table
  <2>2. Turn'
    <3>1. at' # None => /\ at'.fd \in Fds /\ \A g \in batch' : g.fd # at'.fd
                        /\ at'.ev \ {"in"} # {} => \/ sock'[open'[at'.fd]].st = "rst"
                                                   \/ registered'[at'.fd] = {"out"}
      <4>1. CASE at' = e /\ e.fd # Listener
        <5>1. e.fd \in Fds /\ Fresh(e) /\ e.ev \subseteq {"in", "out", "hup"}
          BY Zenon, <1>1, <4>1 DEF Inv, Turn, Reports
        <5>2. /\ e.conn = open[e.fd] /\ ("hup" \in e.ev => sock[open[e.fd]].st = "rst")
              /\ ("out" \in e.ev => registered[e.fd] = {"out"})
          BY ZenonT(60), <5>1 DEF Fresh, Inv, Tables, Owned, Gone
        <5> QED BY Zenon, <1>2, <1>3, <4>1, <5>1, <5>2 DEF table
      <4> QED BY Zenon, <1>3, <4>1
    <3> QED BY ZenonT(60), <1>1, <1>3, <3>1 DEF Inv, Turn, Fresh, Gone, Peer, table
  <2>3. Clock'
    BY Zenon, <1>1, <1>3 DEF Clock, Cached, Timers, Delay, clocks, table
  <2> QED BY ZenonT(60), <1>1, <2>1, <2>2, <2>3 DEF Inv
<1>4. CASE e.fd = Listener
  <2>1. accept_connection /\ at' = None
    BY Zenon, <1>1, <1>4 DEF CallRead
  <2>2. UNCHANGED <<owed, pc>>
    BY Zenon, <2>1 DEF accept_connection
  <2>3. Tables' /\ (UNCHANGED <<table, sock, active>>
                    \/ \E fd \in Fds, c \in Conns : Admits(fd, c))
    BY Zenon, <2>1, AcceptKeeps DEF Inv
  <2>4. CASE UNCHANGED <<table, sock, active>>
    BY Zenon, <1>3, <1>4, <2>1, <2>2, <2>4
  <2>5. ASSUME NEW fd \in Fds, NEW c \in Conns, Admits(fd, c) PROVE Inv' /\ Clock'
    <3>1. Answers' /\ Apart(fd) /\ TimerStep(fd)
      BY Zenon, <2>2, <2>3, <2>5, AdmitApart
    <3>2. \A g \in batch' : g.fd # fd
      BY <1>1, <2>5, CommAssumption DEF Admits, Gone, Inv, Turn, Fresh, Listener
    <3>3. Turn'
      BY Zenon, <1>1, <2>1, <2>2, <3>1, <3>2, StayFresh DEF Turn
    <3>4. Clock'
      BY Zenon, <1>1, <2>2, <3>1, HandlerClock DEF Apart
    <3> QED BY Zenon, <1>1, <2>3, <3>1, <3>3, <3>4 DEF Inv
  <2> QED BY Zenon, <2>3, <2>4, <2>5
<1>5. CASE e.fd # Listener /\ fd_table[e.fd].read = "echo" /\ e.ev \ {"out"} # {}
  <2>1. at' = e /\ do_echo_handler(e.fd, fd_table[e.fd].readData)
    BY Zenon, <1>5 DEF CallRead
  <2>2. PICK fd \in Fds : e.fd = fd
    BY Zenon, <1>1, <1>5
  <2>3. ~Gone(fd) /\ (Peer(fd).st = "rst" \/ registered[fd] = {"in"})
    BY <1>5, <2>2 DEF Inv, Turn, Fresh, Gone, Peer, Tables, TableTypes, Owned, Reports
  <2>4. /\ Tables' /\ Answers' /\ Apart(fd) /\ TimerStep(fd) /\ pc' = pc
        /\ open'[fd] # None =>
             /\ open'[fd] = open[fd] /\ sock'[open[fd]].st = sock[open[fd]].st
             /\ registered'[fd] \in {{"out"}, registered[fd]}
    BY Zenon, <1>5, <2>1, <2>2, <2>3, EchoKeeps
  <2>5. Turn'
    <3>1. open'[fd] # None /\ e.ev \ {"in"} # {} =>
            sock'[open'[fd]].st = "rst" \/ registered'[fd] = {"out"}
      <4>1. /\ e.conn = open[fd] /\ ("hup" \in e.ev => sock[open[fd]].st = "rst")
            /\ ("out" \in e.ev => "out" \in registered[fd]) /\ e.ev \subseteq {"in", "out", "hup"}
        BY Zenon, <1>1, <1>5, <2>2 DEF Inv, Turn, Fresh, Reports
      <4>2. "out" \in registered[fd] => registered[fd] = {"out"}
        BY Zenon, <2>3 DEF Inv, Tables, Owned
      <4> QED BY Zenon, <2>4, <4>1, <4>2
    <3>2. /\ batch' \subseteq Reports /\ \A d, g \in batch' : d.fd = g.fd => d = g
          /\ \A g \in batch' : g.fd # Listener => Fresh(g)'
      BY Zenon, <1>1, <1>2, <2>2, <2>4, StayFresh
    <3> QED BY Zenon, <1>1, <1>2, <2>1, <2>2, <2>4, <3>1, <3>2 DEF Turn, Gone, Peer
  <2>6. Clock'
    BY Zenon, <1>1, <2>4, HandlerClock DEF Apart
  <2> QED BY Zenon, <1>1, <2>4, <2>5, <2>6 DEF Inv
<1>6. CASE e.fd # Listener /\ ~(fd_table[e.fd].read = "echo" /\ e.ev \ {"out"} # {})
  BY Zenon, <1>3, <1>6 DEF CallRead
<1> QED BY Zenon, <1>4, <1>5, <1>6

(* do_epoll_select calling a write handler keeps the invariant.            *)
LEMMA CallWriteInv == ASSUME Inv, Clock, CallWrite PROVE Inv' /\ Clock'
<1>1. /\ pc = "handle" /\ at # None /\ at' = None /\ batch' = batch /\ UNCHANGED clocks /\ Times'
  BY Zenon DEF CallWrite, Inv, Times, clocks
<1>2. PICK fd \in Fds : at.fd = fd
  BY Zenon, <1>1 DEF Inv, Turn
<1>3. \A g \in batch : g.fd # fd
  BY Zenon, <1>1, <1>2 DEF Inv, Turn
<1>4. ASSUME Tables', Answers', Apart(fd), TimerStep(fd), pc' \in {pc, "dead"}
      PROVE  Inv' /\ Clock'
  <2>1. Turn'
    BY Zenon, <1>1, <1>3, <1>4, StayFresh DEF Turn
  <2>2. Clock'
    BY Zenon, <1>1, <1>4, HandlerClock DEF Apart
  <2> QED BY ZenonT(60), <1>1, <1>4, <2>1, <2>2 DEF Inv
<1>5. CASE fd_table[fd].write = None \/ at.ev \ {"in"} = {}
  <2>1. Stay /\ UNCHANGED <<sock, owed, pc>>
    BY Zenon, <1>2, <1>5, CommAssumption DEF CallWrite, Stay
  <2>2. sock' \in [Conns -> Sockets] /\ \A c \in Conns : sock'[c].st = sock[c].st
    BY Zenon, <2>1 DEF Inv, Tables, TableTypes
  <2> QED BY Zenon, <1>4, <2>1, <2>2, StayApart
<1>6. CASE fd_table[fd].write # None /\ at.ev \ {"in"} # {}
  <2>1. ~Gone(fd)
    BY <1>6 DEF Inv, Tables, Owned, NoEntry
  <2>2. Peer(fd).st = "rst" \/ registered[fd] = {"out"}
    BY Zenon, <1>1, <1>2, <1>6, <2>1 DEF Inv, Turn
  <2>3. fd_table[fd].write \in {"welcome", "response"}
    BY Zenon, <1>6 DEF Inv, Tables, TableTypes, Entries
  <2>4. \/ /\ fd_table[fd].write = "welcome"
           /\ do_welcome_handler(fd, fd_table[fd].writeData)
        \/ /\ fd_table[fd].write = "response"
           /\ do_echo_response(fd, fd_table[fd].writeData)
    BY Zenon, <1>2, <1>6, <2>3 DEF CallWrite
  <2> QED BY ZenonT(60), <1>4, <2>1, <2>2, <2>4, WriteKeeps
<1> QED BY Zenon, <1>5, <1>6

(* A step that leaves the tables, the sockets and what is owed alone.      *)
LEMMA LoopKeeps ==
  ASSUME Inv, UNCHANGED <<table, sock, active, owed>>
  PROVE  Tables' /\ Answers'
<1>1. Tables'
  <2>1. sock' \in [Conns -> Sockets] /\ \A c \in Conns : sock'[c].st = sock[c].st
    BY Zenon DEF Inv, Tables, TableTypes
  <2> QED BY Zenon, <2>1, PeerKeeps DEF Inv
<1>2. Answers'
  BY Zenon DEF Inv, Answers, OneReplyPerRequest, Gone, Peer, table
<1> QED BY Zenon, <1>1, <1>2

(* The start of comm_select keeps the invariant.                           *)
LEMMA BeginSelectInv == ASSUME Inv, Clock, BeginSelect PROVE Inv' /\ Clock'
<1>1. /\ UNCHANGED <<table, sock, active, owed, batch, at, now, waited, sys_curtime>>
      /\ pc = "top" /\ pc' \in {"check", "wait"}
      /\ pc' = "check" => last_timeout' = sys_curtime /\ sys_curtime > last_timeout
      /\ pc' = "wait" => last_timeout' = last_timeout /\ sys_curtime <= last_timeout + 1
  <2>1. PICK due \in Due : /\ pc' = IF due THEN "check" ELSE "wait"
                           /\ last_timeout' = IF due THEN sys_curtime ELSE last_timeout
    BY Zenon DEF BeginSelect
  <2>2. /\ due => sys_curtime > last_timeout + 1 \/ sys_curtime = last_timeout + 1
        /\ ~due => ~(sys_curtime > last_timeout + 1)
    BY Zenon, <2>1, Zenon DEF Due
  <2>3. /\ pc' \in {"check", "wait"}
        /\ pc' = "check" => last_timeout' = sys_curtime /\ sys_curtime > last_timeout
        /\ pc' = "wait" => last_timeout' = last_timeout /\ sys_curtime <= last_timeout + 1
    <3>1. sys_curtime \in Nat /\ last_timeout \in Nat
      BY Zenon DEF Inv, Times
    <3>2. CASE due
      BY <2>1, <2>2, <3>1, <3>2
    <3>3. CASE ~due
      BY <2>1, <2>2, <3>1, <3>3
    <3> QED BY Zenon, <3>2, <3>3
  <2> QED BY Zenon, <2>3 DEF BeginSelect
<1>2. Inv'
  BY Zenon, <1>1, LoopKeeps DEF Inv, Turn, Times
<1>3. /\ {now, sys_curtime, last_timeout} \subseteq Nat
      /\ \A fd \in Fds : active[fd] \in Nat /\ fd_table[fd].timeout \in Nat
  BY Zenon DEF Inv, Times, Tables, TableTypes, Entries
<1>4. Cached'
  BY <1>1, <1>3 DEF Clock, Cached
<1>5. Timers'
  <2>1. fd_table' = fd_table /\ active' = active
    BY Zenon, <1>1 DEF table
  <2>2. \A fd \in Fds : active[fd] # 0 /\ pc' = "check" => fd_table[fd].timeout + 1 >= sys_curtime
    BY <1>1, <1>3 DEF Clock, Cached, Timers
  <2> QED BY Zenon, <1>1, <2>1, <2>2 DEF Clock, Timers, Delay
<1> QED BY Zenon, <1>1, <1>2, <1>4, <1>5 DEF Clock

(* checkTimeouts, one descriptor at a time, keeps the invariant.           *)
LEMMA CheckTimeoutsInv == ASSUME Inv, Clock, checkTimeouts PROVE Inv' /\ Clock'
<1>1. UNCHANGED <<batch, at, clocks, owed>> /\ pc = "check" /\ Times'
  BY Zenon, CheckCloses DEF Inv, Times, clocks
<1>2. CASE pc' = "wait" /\ UNCHANGED <<table, sock, active>> /\ \A fd \in Fds : ~Expired(fd)
  <2>1. Inv'
    BY Zenon, <1>1, <1>2, LoopKeeps DEF Inv, Turn
  <2>2. \A fd \in Fds : fd_table[fd].timeout # 0 => fd_table[fd].timeout > last_timeout
    BY <1>1, <1>2 DEF Expired, Clock, Cached, Inv, Times, Tables, TableTypes, Entries
  <2>3. Cached'
    BY <1>1, <1>2 DEF Clock, Cached, Inv, Times, clocks
  <2>4. Timers'
    BY Zenon, <1>1, <1>2, <2>2 DEF Clock, Timers, Delay, clocks, table
  <2> QED BY Zenon, <1>1, <2>1, <2>3, <2>4 DEF Clock, clocks
<1>3. ASSUME pc' = "check", NEW fd \in Fds, ~Gone(fd), CloseAndFree(fd, open[fd], sock)
      PROVE  Inv' /\ Clock'
  <2>1. sock \in [Conns -> Sockets] /\ \A c \in Conns : sock[c].st = sock[c].st
    BY Zenon DEF Inv, Tables, TableTypes
  <2>2. /\ Tables' /\ Answers' /\ Apart(fd) /\ active'[fd] = 0 /\ fd_table'[fd] = NoEntry
    BY Zenon, <1>1, <1>3, <2>1, CloseApart
  <2>3. Turn'
    BY Zenon, <1>1, <1>3 DEF Inv, Turn
  <2>4. Cached'
    BY Zenon, <1>1, <1>3, <2>2 DEF Clock, Cached, Apart, clocks
  <2>5. Timers'
    <3> SUFFICES ASSUME NEW gd \in Fds
                 PROVE  LET D == IF fd_table'[gd].read = None THEN WelcomeTimeout ELSE EchoTimeout
                        IN  active'[gd] # 0 =>
                              /\ fd_table'[gd].timeout # 0
                              /\ active'[gd] + D - 1 <= fd_table'[gd].timeout
                              /\ fd_table'[gd].timeout <= active'[gd] + D
                              /\ fd_table'[gd].timeout + 1 >= last_timeout
      BY Zenon, <1>1, <1>3 DEF Timers, Delay, clocks
    <3>1. CASE gd = fd
      BY Zenon, <2>2, <3>1
    <3>2. CASE gd # fd
      BY ZenonT(60), <1>1, <2>2, <3>2 DEF Apart, Clock, Timers, Delay
    <3> QED BY Zenon, <3>1, <3>2
  <2> QED BY Zenon, <1>1, <2>2, <2>3, <2>4, <2>5 DEF Inv, Clock, clocks
<1> QED BY Zenon, <1>2, <1>3, CheckCloses

(* epoll_wait reports each descriptor once, with events that are fresh.    *)
LEMMA EpollReturnsInv == ASSUME Inv, Clock, EpollReturns PROVE Inv' /\ Clock'
<1>1. /\ pc = "wait" /\ pc' = "handle" /\ batch' \subseteq Ready /\ at' = at /\ at = None
      /\ UNCHANGED <<table, sock, active, owed, clocks>>
  BY Zenon DEF EpollReturns, Batches, AfterWait, Inv, Turn
<1>2. \A fd \in Fds : Events(fd) \subseteq {"in", "out", "hup"}
                      /\ Events(fd) \ {"hup"} \subseteq registered[fd]
                      /\ ("hup" \in Events(fd) => Peer(fd).st = "rst")
  BY Zenon DEF Events, Inv, Tables, TableTypes
<1>3. \A e \in Ready :
        \/ e = [fd |-> Listener, ev |-> {"in"}, conn |-> None]
        \/ \E fd \in Fds : ~Gone(fd) /\ e = [fd |-> fd, ev |-> Events(fd), conn |-> open[fd]]
  BY Zenon DEF Ready
<1>4. Ready \subseteq Reports
  BY <1>2, <1>3 DEF Reports, Inv, Tables, TableTypes
<1>5. \A e, g \in Ready : e.fd = g.fd => e = g
  BY <1>3, CommAssumption DEF Listener
<1>6. \A e \in Ready : e.fd # Listener => Fresh(e)
  BY <1>2, <1>3 DEF Fresh, Gone, Peer
<1>7. Turn'
  BY Zenon, <1>1, <1>4, <1>5, <1>6 DEF Turn, Fresh, table
<1>8. Inv'
  BY Zenon, <1>1, <1>7, LoopKeeps DEF Inv, Times, clocks
<1>9. Clock'
  BY Zenon, <1>1 DEF Clock, Cached, Timers, Delay, clocks, table
<1> QED BY Zenon, <1>8, <1>9

(* The end of comm_select, which reads the clock.                          *)
LEMMA EndSelectInv ==
  ASSUME Inv, Clock, EndSelect, pc \in {"wait", "handle"}, batch = {}, at = None
  PROVE  Inv' /\ Clock'
<1>1. /\ UNCHANGED <<table, sock, active, owed, batch, at, now, last_timeout>>
      /\ pc' = "top" /\ sys_curtime' = now /\ waited' = 0
  BY Zenon DEF EndSelect, getCurrentTime
<1>2. Inv'
  BY Zenon, <1>1, LoopKeeps DEF Inv, Turn, Times
<1>3. /\ {now, sys_curtime, last_timeout, Start} \subseteq Nat /\ waited \in {0, 1}
      /\ 0 < Start /\ Start <= now
  BY CommAssumption DEF Inv, Times, Clock
<1>4. Cached'
  BY <1>1, <1>3 DEF Clock, Cached
<1>5. Timers'
  BY Zenon, <1>1 DEF Clock, Timers, Delay, table
<1> QED BY Zenon, <1>1, <1>2, <1>4, <1>5 DEF Clock

-----------------------------------------------------------------------------
(* The peers and the clock.                                                *)
LEMMA PeerInv ==
  ASSUME Inv, Clock, UNCHANGED <<table, clocks, pc, batch, at, active, owed>>,
         sock' \in [Conns -> Sockets],
         \A c \in Conns : \/ sock'[c].st = sock[c].st
                          \/ sock[c].st = "idle" /\ sock'[c].st = "queued"
                          \/ /\ {sock[c].st, sock'[c].st} \subseteq {"open", "fin", "rst"}
                             /\ sock[c].st # "rst"
  PROVE  Inv' /\ Clock'
<1>1. Tables'
  BY Zenon, PeerKeeps DEF Inv
<1>2. \A c \in Conns : /\ sock[c].st = "rst" => sock'[c].st = "rst"
                       /\ sock'[c].st \in {"idle", "queued"} => sock[c].st \in {"idle", "queued"}
  BY Zenon
<1>3. \A fd \in Fds : ~Gone(fd) => open[fd] \in Conns
  BY Zenon DEF Inv, Tables, TableTypes, Gone
<1>4. Answers'
  BY ZenonT(60), <1>2, <1>3 DEF Inv, Answers, OneReplyPerRequest, Gone, Peer, table
<1>5. Turn'
  <2>1. \A e \in batch : e.fd # Listener => Fresh(e)'
    BY Zenon, <1>2, <1>3 DEF Inv, Turn, Fresh, table, Reports
  <2>2. at # None => /\ at.fd \in Fds /\ \A e \in batch : e.fd # at.fd
                     /\ ~Gone(at.fd) /\ at.ev \ {"in"} # {} =>
                          sock'[open[at.fd]].st = "rst" \/ registered[at.fd] = {"out"}
    BY Zenon, <1>2, <1>3 DEF Inv, Turn, Peer
  <2> QED BY Zenon, <2>1, <2>2 DEF Inv, Turn, Gone, Peer, table
<1>6. Times' /\ Clock'
  BY Zenon DEF Inv, Times, Clock, Cached, Timers, Delay, clocks, table
<1> QED BY Zenon, <1>1, <1>4, <1>5, <1>6 DEF Inv

(* What the peers and the clock do keeps the invariant.                    *)
LEMMA EnvironmentInv == ASSUME Inv, Clock, Environment PROVE Inv' /\ Clock'
<1>1. sock \in [Conns -> Sockets]
  BY Zenon DEF Inv, Tables, TableTypes
<1>2. CASE Connect
  BY <1>1, <1>2, PeerInv DEF Connect, PeerStep, Sockets
<1>3. ASSUME NEW c \in Conns, Finish(c) PROVE Inv' /\ Clock'
  BY ZenonT(60), <1>1, <1>3, PeerInv DEF Finish, PeerStep, Sockets
<1>4. ASSUME NEW c \in Conns, Reset(c) PROVE Inv' /\ Clock'
  BY ZenonT(60), <1>1, <1>4, PeerInv DEF Reset, PeerStep, Sockets
<1>5. ASSUME NEW c \in Conns, NEW m \in {"msg", "quit"}, Send(c, m) PROVE Inv' /\ Clock'
  BY ZenonT(60), <1>1, <1>5, PeerInv DEF Send, PeerStep, Sockets
<1>6. CASE Tick
  <2>1. UNCHANGED <<table, sock, active, owed, pc, batch, at, sys_curtime, last_timeout>>
        /\ pc = "wait" /\ waited = 0 /\ now' = now + 1 /\ waited' = 1
    BY Zenon, <1>6 DEF Tick
  <2>2. Inv'
    <3>1. now' \in Nat
      <4>1. now \in Nat
        BY Zenon DEF Inv, Times
      <4> QED BY <2>1, <4>1
    <3>2. Tables' /\ Answers'
      BY Zenon, <2>1, LoopKeeps
    <3>3. Turn'
      BY ZenonT(60), <2>1 DEF Inv, Turn, Fresh, Gone, Peer, table
    <3>4. Times'
      BY ZenonT(60), <2>1, <3>1 DEF Inv, Times
    <3> QED BY Zenon, <3>2, <3>3, <3>4 DEF Inv
  <2>3. Clock'
    BY <2>1, CommAssumption DEF Clock, Cached, Timers, Delay, Inv, Times, table
  <2> QED BY Zenon, <2>2, <2>3
<1> QED BY Zenon, <1>2, <1>3, <1>4, <1>5, <1>6 DEF Environment

-----------------------------------------------------------------------------

(* The invariant holds when main enters its loop.                          *)
LEMMA Initially == Init => Inv /\ Clock
<1> SUFFICES ASSUME Init PROVE Inv /\ Clock
  BY Zenon
<1>1. Answers /\ Turn /\ Times
  BY CommAssumption DEF Init, Answers, OneReplyPerRequest, Gone, Turn, Times
<1>2. Clock
  BY CommAssumption DEF Init, Clock, Cached, Timers, NoEntry
<1> QED BY Zenon, <1>1, <1>2, InitTables DEF Inv

(* Every step keeps the invariant.                                         *)
LEMMA NextInv == Inv /\ Clock /\ [Next]_vars => Inv' /\ Clock'
<1> SUFFICES ASSUME Inv, Clock, [Next]_vars PROVE Inv' /\ Clock'
  BY Zenon
<1>1. CASE BeginSelect
  BY Zenon, <1>1, BeginSelectInv
<1>2. CASE checkTimeouts
  BY Zenon, <1>2, CheckTimeoutsInv
<1>3. CASE EpollReturns
  BY Zenon, <1>3, EpollReturnsInv
<1>4. CASE EpollTimesOut
  BY Zenon, <1>4, EndSelectInv DEF EpollTimesOut, Inv, Turn
<1>5. ASSUME NEW e \in batch, CallRead(e) PROVE Inv' /\ Clock'
  BY Zenon, <1>5, CallReadInv
<1>6. CASE CallWrite
  BY Zenon, <1>6, CallWriteInv
<1>7. CASE EndHandlers
  BY Zenon, <1>7, EndSelectInv DEF EndHandlers
<1>8. CASE Environment
  BY Zenon, <1>8, EnvironmentInv
<1>9. CASE UNCHANGED vars
  <2>1. sock' \in [Conns -> Sockets] /\ \A c \in Conns : sock'[c].st = sock[c].st
    BY Zenon, <1>9 DEF vars, Inv, Tables, TableTypes
  <2> QED BY Zenon, <1>9, <2>1, PeerInv DEF vars
<1> QED BY ZenonT(60), <1>1, <1>2, <1>3, <1>4, <1>5, <1>6, <1>7, <1>8, <1>9 DEF Next, Server

(* The invariant of the echo server holds in every reachable state.        *)
LEMMA Invariance == Spec => [](Inv /\ Clock)
BY Initially, NextInv, PTL DEF Spec

(* A descriptor's handlers hold the ConnectStat of its connection, and     *)
(* every ConnectStat is freed exactly once, when its connection closes.    *)
THEOREM StatsAreLive == Spec => []StatsLive
<1>1. Inv => StatsLive
  BY ZenonT(60) DEF Inv, Tables, Owned, Freed, Holds, StatsLive
<1> QED BY <1>1, Invariance, PTL

(* No event that do_epoll_select still has to handle is about another      *)
(* connection than the one it was reported for.                            *)
THEOREM EventsAreFresh == Spec => []NoStaleEvent
<1>1. Inv => NoStaleEvent
  BY Zenon DEF Inv, Turn, Fresh, NoStaleEvent
<1> QED BY <1>1, Invariance, PTL

(* epoll_state and epoll_fds always say what the kernel has registered.    *)
THEOREM EpollStaysInSync == Spec => []EpollInSync
<1>1. Inv => EpollInSync
  <2> SUFFICES ASSUME Inv PROVE EpollInSync
    BY Zenon
  <2>1. registered = epoll_state /\ epoll_fds = 1 + Cardinality(Busy(registered))
    BY Zenon DEF Inv, Tables, Counted
  <2>2. ASSUME NEW fd \in Fds PROVE Gone(fd) <=> registered[fd] = {}
    BY Zenon DEF Inv, Tables, Owned
  <2> QED BY Zenon, <2>1, <2>2 DEF EpollInSync, Busy
<1> QED BY <1>1, Invariance, PTL

(* The echo server owes a connection one reply while it waits to write the *)
(* response and none otherwise, however the calls of its handlers fall.    *)
THEOREM RepliesMatchRequests == Spec => []OneReplyPerRequest
<1>1. Inv => OneReplyPerRequest
  BY Zenon DEF Inv, Answers
<1> QED BY <1>1, Invariance, PTL

(* Whatever the timeouts are, a silent connection is closed before the     *)
(* clock is two seconds past its delay.                                    *)
THEOREM SilentAreClosedInTime == Spec => []ClosedInTime
<1>1. Inv /\ Clock => ClosedInTime
  <2> SUFFICES ASSUME Inv, Clock, NEW fd \in Fds, active[fd] # 0
               PROVE  now <= active[fd] + Delay(fd) + 1
    BY Zenon DEF ClosedInTime
  <2>1. /\ {now, sys_curtime, last_timeout} \subseteq Nat /\ waited \in {0, 1}
        /\ active[fd] \in Nat /\ fd_table[fd].timeout \in Nat /\ Delay(fd) \in Nat
    BY Zenon, CommAssumption DEF Inv, Times, Tables, TableTypes, Entries, Delay
  <2>2. /\ fd_table[fd].timeout # 0 /\ fd_table[fd].timeout <= active[fd] + Delay(fd)
        /\ pc # "check" => fd_table[fd].timeout > last_timeout
        /\ pc = "check" => fd_table[fd].timeout + 1 >= last_timeout
    BY Zenon DEF Clock, Timers
  <2>3. /\ now = sys_curtime + waited /\ (pc \in {"top", "check"} => waited = 0)
        /\ pc = "check" => sys_curtime = last_timeout
        /\ pc \in {"wait", "handle", "dead"} => sys_curtime <= last_timeout + 1
        /\ pc = "top" => sys_curtime <= last_timeout + 2
    BY Zenon DEF Clock, Cached
  <2>4. pc \in {"top", "check", "wait", "handle", "dead"}
    BY Zenon DEF Inv, Turn
  <2> QED BY <2>1, <2>2, <2>3, <2>4
<1> QED BY <1>1, Invariance, PTL

(* checkTimeouts closes no connection that was served within its delay,    *)
(* but for the second by which the cached clock may be behind.             *)
THEOREM NoneClosedEarly == Spec => NotClosedEarly
<1>1. ASSUME Inv, Clock, [Next]_vars
      PROVE  [\A fd \in Fds : pc = "check" /\ active[fd] # 0 /\ Gone(fd)' =>
                                now >= active[fd] + Delay(fd) - 1]_vars
  <2> SUFFICES ASSUME Next, NEW fd \in Fds, pc = "check", active[fd] # 0, open'[fd] = None
               PROVE  now >= active[fd] + Delay(fd) - 1
    BY Zenon, <1>1 DEF Gone
  <2>1. checkTimeouts
    BY Zenon DEF Next, Server, Environment, BeginSelect, EpollReturns, EpollTimesOut, CallRead,
           CallWrite, EndHandlers, Connect, Tick, Finish, Reset, Send, PeerStep
  <2>2. open[fd] # None
    BY Zenon, <1>1 DEF Inv, Tables, Owned, Gone
  <2>3. Expired(fd)
    <3>1. PICK gd \in Fds : Expired(gd) /\ CloseAndFree(gd, open[gd], sock)
      BY Zenon, <1>1, <2>1, <2>2, CheckCloses DEF table
    <3>2. open' = [open EXCEPT ![gd] = None]
      BY Zenon, <3>1 DEF CloseAndFree, comm_close
    <3> QED BY Zenon, <1>1, <2>2, <3>1, <3>2 DEF Inv, Tables, TableTypes
  <2>4. now = sys_curtime /\ fd_table[fd].timeout <= sys_curtime
    BY <1>1, <2>3 DEF Expired, Clock, Cached, Inv, Times
  <2>5. active[fd] + Delay(fd) - 1 <= fd_table[fd].timeout
    BY Zenon, <1>1 DEF Clock, Timers
  <2>6. /\ now \in Nat /\ active[fd] \in Nat /\ fd_table[fd].timeout \in Nat /\ Delay(fd) \in Nat
    BY Zenon, <1>1, CommAssumption DEF Inv, Times, Tables, TableTypes, Entries, Delay
  <2> QED BY <2>4, <2>5, <2>6
<1> QED BY <1>1, Invariance, PTL DEF Spec, NotClosedEarly
=============================================================================
