--------------------------- MODULE MasterWorker ---------------------------
(***************************************************************************)
(* The master and worker processes of process_IPC: the process table, the  *)
(* channel to every worker, and the master's loop of sigsuspend, reaping,  *)
(* respawning and signalling.  The master's signals are blocked outside    *)
(* sigsuspend, and what it does between two sigsuspends touches only its   *)
(* own table and things a worker cannot tell the order of, so one wake-up  *)
(* is one action; its parts map one master state M to the next.            *)
(***************************************************************************)
EXTENDS Integers, Sequences, FiniteSets, SequencesExt, FiniteSetsExt

CONSTANTS
  WorkerProcesses,   \* worker_processes
  MaxSlots,          \* NGX_MAX_PROCESSES
  MaxPid,            \* bound: processes ever forked
  UserSignals,       \* signals the operator sends
  MaxSends,          \* bound: how often each of them
  MaxCrash,          \* bound: workers that crash or hang
  FaultKinds,        \* how a spawn may fail, once: "pair", "set", "fork"
  ChannelSize        \* messages a channel holds

Slots == 0..MaxSlots-1
Pids == 1..MaxPid
Pairs == 1..MaxSlots+1     \* descriptor numbers: a channel's two ends as one
NoPid == -1
NoFd == -1
Commands == {"OPEN", "CLOSE", "QUIT", "TERMINATE", "REOPEN"}
Flags == {"reap", "sigalrm", "terminate", "quit", "reconfigure", "reopen"}

VARIABLES
  m,       \* the master: table, last, flags, delay, sigio, live, slot, conn
  at,      \* "boot", "suspend" or "done"
  w,       \* the workers, by pid
  pend,    \* signals pending for the master
  timer,   \* is the interval timer armed
  sends,   \* signals the operator may still send
  crashes, \* crashes left
  failed   \* what has gone wrong: a fault kind, "fatal" or "hung"

vars == <<m, at, w, pend, timer, sends, crashes, failed>>

NoProcess == [pid |-> NoPid, chan |-> NoFd, exiting |-> FALSE, exited |-> FALSE,
              respawn |-> FALSE, just_spawn |-> FALSE]
NoWorker == [st |-> "none", fatal |-> FALSE, hung |-> FALSE, deaf |-> FALSE,
             q |-> <<>>, flags |-> {}, view |-> [n \in Slots |-> 0]]

Init ==
  /\ m = [p |-> [i \in Slots |-> NoProcess], last |-> 0, flags |-> {}, delay |-> 0,
          sigio |-> 0, live |-> TRUE, slot |-> 0, conn |-> [c \in Pairs |-> 0]]
  /\ at = "boot"
  /\ w = [x \in Pids |-> NoWorker]
  /\ pend = {} /\ timer = FALSE
  /\ sends = MaxSends /\ crashes = MaxCrash /\ failed = {}

-----------------------------------------------------------------------------
(* Channels.  A state of an iteration is [m, w, pend, exit, fault]: what it*)
(* changes, and which spawn, if any, fails in it and how.  A message has   *)
(* in of the worker whose channel it carries, 0 when the number is closed  *)
(* (sendmsg fails) and NoFd when it carries none.                          *)
Msg(command, i, x, of) == [command |-> command, slot |-> i, pid |-> x, of |-> of]

(* ngx_write_channel to slot i: NGX_OK unless the descriptor is closed or  *)
(* the channel is full; a dead worker's channel still takes the message.   *)
Peer(S, i) == IF S.m.p[i].chan = NoFd THEN 0 ELSE S.m.conn[S.m.p[i].chan]
Writes(S, i) == Peer(S, i) # 0 /\ Len(S.w[Peer(S, i)].q) < ChannelSize
WriteChannel(S, i, ch) ==
  IF Writes(S, i) /\ S.w[Peer(S, i)].st = "running" /\ (ch.command = "OPEN" => ch.of # 0)
  THEN [S EXCEPT !.w[Peer(S, i)].q = Append(@, ch)]
  ELSE S

(* ngx_close_channel: whatever has the number now is closed.               *)
CloseChannel(S, i) ==
  IF S.m.p[i].chan = NoFd THEN S ELSE [S EXCEPT !.m.conn[S.m.p[i].chan] = 0]

(* Writes ch to the slots of to, in their order; only queues change.       *)
Pass(S, ch, to) ==
  FoldLeft(LAMBDA T, i : IF i < T.m.last /\ i \in to THEN WriteChannel(T, i, ch) ELSE T,
           S, [n \in 1..MaxSlots |-> n - 1])

Reachable(S, i) == S.m.p[i].pid # NoPid /\ S.m.p[i].chan # NoFd

PassOpenChannel(S, ch) ==
  Pass(S, ch, {i \in Slots : i # S.m.slot /\ Reachable(S, i)})

-----------------------------------------------------------------------------
(* ngx_spawn_process.                                                      *)
FreePair(S) == Min({c \in Pairs : S.m.conn[c] = 0})
FreshPid(S) == Min({x \in Pids : S.w[x].st = "none"})

(* The child: its copy of the flags and of the other channels.  It closes  *)
(* the read ends of all other slots; where one of them still has the       *)
(* number of the new pair, that is its own, and it reads nothing any more. *)
Child(S, s) ==
  [NoWorker EXCEPT
     !.st = "running",
     !.deaf = \E n \in Slots \ {s} :
                n < S.m.last /\ S.m.p[n].pid # NoPid /\ S.m.p[n].chan = FreePair(S),
     !.flags = S.m.flags \cap {"reopen"},
     !.view = [n \in Slots |-> IF n # s /\ n < S.m.last /\ Reachable(S, n)
                               THEN Peer(S, n) ELSE 0]]

(* A new slot: the first free one, or the next; none when the table is full*)
NewSlot(S) ==
  LET free == {i \in Slots : i < S.m.last /\ S.m.p[i].pid = NoPid}
  IN  IF free # {} THEN Min(free) ELSE S.m.last

(* S with slot s taken, or as a failed socketpair, a failed fcntl or ioctl *)
(* on the pair, or a failed fork leaves it.                                *)
Spawned(S, s, fresh, type) ==
  LET c == FreePair(S)
      x == FreshPid(S)
      old == S.m.p[s]
      new == IF fresh
             THEN [pid |-> x, chan |-> c, exiting |-> FALSE, exited |-> FALSE,
                   respawn |-> TRUE, just_spawn |-> type = "JUST_RESPAWN"]
             ELSE [old EXCEPT !.pid = x, !.chan = c, !.exited = FALSE]
  IN  CASE S.fault = <<"pair", s>> -> S
        [] S.fault = <<"set", s>> -> [S EXCEPT !.m.p[s].chan = c]
        [] S.fault = <<"fork", s>> -> [S EXCEPT !.m.p[s].chan = c, !.m.slot = s]
        [] OTHER -> [S EXCEPT !.m.p[s] = new, !.m.conn[c] = x, !.m.slot = s,
                              !.m.last = IF s = @ THEN @ + 1 ELSE @,
                              !.w[x] = Child(S, s)]
Failed(S, s) == S.fault \in {"pair", "set", "fork"} \X {s}

OpenMsg(S) ==
  Msg("OPEN", S.m.slot, S.m.p[S.m.slot].pid,
      IF S.m.p[S.m.slot].chan = NoFd THEN NoFd ELSE Peer(S, S.m.slot))

(* ngx_start_worker_processes; the result of the spawn is not looked at.   *)
StartWorkers(S, type) ==
  LET One(T, n) == LET s == NewSlot(T)
                       U == IF s = MaxSlots THEN T ELSE Spawned(T, s, TRUE, type)
                   IN  PassOpenChannel(U, OpenMsg(U))
  IN  FoldLeft(One, S, [n \in 1..WorkerProcesses |-> n])

-----------------------------------------------------------------------------
(* ngx_reap_children, slot by slot; A = [S, ch, live].  The command of ch  *)
(* is set to CLOSE before the loop only.                                   *)
Respawns(S, i) ==
  S.m.p[i].respawn /\ ~S.m.p[i].exiting /\ S.m.flags \cap {"terminate", "quit"} = {}

(* A slot given up; what it held is not read before the next spawn sets it.*)
Freed(S, i) ==
  [S EXCEPT !.m.p[i] = NoProcess, !.m.last = IF i = @ - 1 THEN @ - 1 ELSE @]

(* live after a respawn.                                                   *)
Alive_Forgotten(A) == A.live
Alive(A) == TRUE

ReapSlot(A, i) ==
  LET S1 == [CloseChannel(A.S, i) EXCEPT !.m.p[i].chan = NoFd]
      ch1 == [A.ch EXCEPT !.slot = i, !.pid = A.S.m.p[i].pid]
      S2 == Pass(S1, ch1, {n \in Slots : ~S1.m.p[n].exited /\ Reachable(S1, n)})
      S3 == Spawned(S2, i, FALSE, "RESPAWN")
  IN  CASE i >= A.S.m.last \/ A.S.m.p[i].pid = NoPid -> A
        [] i < A.S.m.last /\ A.S.m.p[i].pid # NoPid /\ ~A.S.m.p[i].exited ->
             [A EXCEPT !.live = TRUE]
        [] OTHER ->
             IF ~Respawns(S2, i) THEN [A EXCEPT !.S = Freed(S2, i), !.ch = ch1]
             ELSE IF Failed(S2, i) THEN [A EXCEPT !.S = S3, !.ch = ch1]
             ELSE [S |-> PassOpenChannel(S3, OpenMsg(S3)), ch |-> OpenMsg(S3),
                   live |-> Alive(A)]

ReapChildren(S) ==
  LET A == FoldLeft(ReapSlot, [S |-> S, ch |-> Msg("CLOSE", 0, 0, NoFd), live |-> FALSE],
                    [n \in 1..MaxSlots |-> n - 1])
  IN  [A.S EXCEPT !.m.live = A.live]

-----------------------------------------------------------------------------
(* ngx_signal_worker_processes.                                            *)
CommandOf(signo) ==
  CASE signo = "QUIT" -> "QUIT" [] signo = "TERM" -> "TERMINATE"
    [] signo = "USR1" -> "REOPEN" [] OTHER -> "none"
FlagOf(signo) ==
  CASE signo = "QUIT" -> "quit" [] signo = "TERM" -> "terminate"
    [] signo = "USR1" -> "reopen" [] signo = "HUP" -> "reconfigure"
    [] signo = "ALRM" -> "sigalrm" [] signo = "CHLD" -> "reap"

Dead(S, x) == [S EXCEPT !.w[x] = [NoWorker EXCEPT !.st = "zombie"], !.pend = @ \cup {"CHLD"}]

(* kill: a zombie takes any signal, a reaped pid is ESRCH.                 *)
Kill(S, i, signo) ==
  LET x == S.m.p[i].pid
      T == IF S.w[x].st # "running" THEN S
           ELSE IF signo = "KILL" THEN Dead(S, x)
           ELSE [S EXCEPT !.w[x].flags = @ \cup {FlagOf(signo)}]
  IN  IF S.w[x].st = "gone"
      THEN [S EXCEPT !.m.p[i].exited = TRUE, !.m.p[i].exiting = FALSE,
                     !.m.flags = @ \cup {"reap"}]
      ELSE [T EXCEPT !.m.p[i].exiting = @ \/ signo # "USR1"]

(* A worker spawned for a reconfiguration is passed over once.             *)
PassedOver_Again(S, i) == S
PassedOver(S, i) == [S EXCEPT !.m.p[i].just_spawn = FALSE]

SignalSlot(S, i, signo) ==
  LET ch == Msg(CommandOf(signo), 0, 0, NoFd)
  IN  CASE i >= S.m.last \/ S.m.p[i].pid = NoPid -> S
        [] i < S.m.last /\ S.m.p[i].pid # NoPid /\ S.m.p[i].just_spawn -> PassedOver(S, i)
        [] OTHER ->
             IF S.m.p[i].exiting /\ signo = "QUIT" THEN S
             ELSE IF ch.command # "none" /\ Writes(S, i)
             THEN [WriteChannel(S, i, ch) EXCEPT !.m.p[i].exiting = @ \/ signo # "USR1"]
             ELSE Kill(S, i, signo)

SignalWorkers(S, signo) ==
  FoldLeft(LAMBDA T, i : SignalSlot(T, i, signo), S, [n \in 1..MaxSlots |-> n - 1])

-----------------------------------------------------------------------------
(* One wake-up of ngx_master_process_cycle.  First the handlers of all     *)
(* pending signals; SIGCHLD's collects every zombie.  SIGIO, asked for on  *)
(* the master's ends, never comes: it keeps the workers' ends open itself. *)
Zombies(S) == {x \in Pids : S.w[x].st = "zombie"}
Collected_OnlyOne(S) == IF Zombies(S) = {} THEN {} ELSE {Min(Zombies(S))}
Collected(S) == Zombies(S)

Handled(S) ==
  LET chld == "CHLD" \in S.pend
      zombie(x) == x \in Collected(S)
      exited(i) == S.m.p[i].pid # NoPid /\ i < S.m.last /\ zombie(S.m.p[i].pid)
      T == [S EXCEPT !.m.flags = @ \cup {FlagOf(g) : g \in S.pend}, !.pend = {}]
  IN  IF ~chld THEN T
      ELSE [T EXCEPT
              !.m.p = [i \in Slots |->
                         IF exited(i)
                         THEN [S.m.p[i] EXCEPT !.exited = TRUE,
                                 !.respawn = @ /\ ~S.w[S.m.p[i].pid].fatal]
                         ELSE S.m.p[i]],
              !.w = [x \in Pids |-> IF zombie(x) THEN [NoWorker EXCEPT !.st = "gone"]
                                                 ELSE S.w[x]]]

Reaped(S) == IF "reap" \in S.m.flags THEN ReapChildren([S EXCEPT !.m.flags = @ \ {"reap"}]) ELSE S

(* The delay past which SIGKILL replaces SIGTERM.                          *)
Harsh_Never(delay) == FALSE
Harsh(delay) == delay > 1000

Waits(S) == S.m.sigio > 0

Terminated(S) ==
  LET T == [S EXCEPT !.m.delay = IF @ = 0 THEN 50 ELSE @]
  IN  IF Waits(T) THEN [T EXCEPT !.m.sigio = @ - 1]
      ELSE SignalWorkers([T EXCEPT !.m.sigio = WorkerProcesses],
                         IF Harsh(T.m.delay) THEN "KILL" ELSE "TERM")

Reconfigured(S) ==
  IF "reconfigure" \notin S.m.flags THEN S
  ELSE LET T == StartWorkers([S EXCEPT !.m.flags = @ \ {"reconfigure"}], "JUST_RESPAWN")
       IN  SignalWorkers([T EXCEPT !.m.live = TRUE], "QUIT")

Reopened(S) ==
  IF "reopen" \notin S.m.flags THEN S
  ELSE SignalWorkers([S EXCEPT !.m.flags = @ \ {"reopen"}], "USR1")

Body(S) ==
  LET R == Reaped(S)
  IN  IF ~R.m.live /\ R.m.flags \cap {"terminate", "quit"} # {}
      THEN [R EXCEPT !.exit = TRUE]
      ELSE IF "terminate" \in R.m.flags THEN Terminated(R)
      ELSE IF "quit" \in R.m.flags THEN SignalWorkers(R, "QUIT")
      ELSE Reopened(Reconfigured(R))

(* The head of the loop, before the next sigsuspend.  Only whether delay is*)
(* past 1000 is ever looked at, so it stops growing there.                 *)
Doubled(S) ==
  IF S.m.delay > 0 /\ "sigalrm" \in S.m.flags
  THEN [S EXCEPT !.m.sigio = 0, !.m.delay = Min({2 * @, 1600}), !.m.flags = @ \ {"sigalrm"}]
  ELSE S

Faults == {<<"none", 0>>} \cup IF failed \cap FaultKinds = {} THEN FaultKinds \X Slots ELSE {}
State(fault) == [m |-> m, w |-> w, pend |-> pend, exit |-> FALSE, fault |-> fault]
Becomes(S) == m' = S.m /\ w' = S.w /\ pend' = S.pend
Charge(fault) == failed' = failed \cup ({fault[1]} \ {"none"})

(* Bound: enough pids are left for what one iteration may spawn.           *)
PidsLeft == Cardinality({x \in Pids : w[x].st = "none"}) > 2 * WorkerProcesses

Boot ==
  /\ at = "boot"
  /\ \E fault \in Faults :
       Becomes(StartWorkers(State(fault), "RESPAWN")) /\ Charge(fault)
  /\ at' = "suspend"
  /\ UNCHANGED <<timer, sends, crashes>>

Wake ==
  /\ at = "suspend" /\ pend # {}
  /\ \E fault \in Faults :
       LET S == Doubled(Body(Handled(State(fault))))
       IN  /\ Becomes(S) /\ Charge(fault)
           /\ at' = IF S.exit THEN "done" ELSE at
           /\ timer' = (S.m.delay > 0)
  /\ UNCHANGED <<sends, crashes>>

-----------------------------------------------------------------------------
(* One turn of worker_process_cycle: the channel is read until it is empty,*)
(* then the flags are looked at; an exiting worker exits a turn later.  An *)
(* OPEN without a descriptor is compared with what the stack holds: it ends*)
(* the reading, or gives a number that is no channel.  A worker without its*)
(* read end gets an error and goes on.                                     *)
Blank(ch) == ch.command = "OPEN" /\ ch.of = NoFd

ReadChannel(v) ==
  LET Read(u, ch) ==
        CASE ch.command = "OPEN"  -> [u EXCEPT !.view[ch.slot] = IF Blank(ch) THEN 0 ELSE ch.of]
          [] ch.command = "CLOSE" -> [u EXCEPT !.view[ch.slot] = 0]
          [] ch.command = "QUIT" -> [u EXCEPT !.flags = @ \cup {"quit"}]
          [] ch.command = "TERMINATE" -> [u EXCEPT !.flags = @ \cup {"terminate"}]
          [] ch.command = "REOPEN" -> [u EXCEPT !.flags = @ \cup {"reopen"}]
      After(n, u) == [u EXCEPT !.q = SubSeq(v.q, n + 1, Len(v.q))]
  IN  IF v.deaf THEN {v}
      ELSE {After(Len(v.q), FoldLeft(Read, v, v.q))}
             \cup {After(n, FoldLeft(Read, v, SubSeq(v.q, 1, n - 1))) :
                      n \in {i \in DOMAIN v.q : Blank(v.q[i])}}

WorkerCycle(x) ==
  \E v \in ReadChannel(w[x]) :
      /\ w[x].st = "running" /\ ~w[x].hung
      /\ IF v.flags \cap {"exiting", "terminate"} # {}
         THEN LET D == Dead(State(<<"none", 0>>), x) IN w' = D.w /\ pend' = D.pend
         ELSE /\ w' = [w EXCEPT ![x] = [v EXCEPT !.flags =
                          IF "quit" \in @ THEN {"exiting"} ELSE {}]]
              /\ pend' = pend
      /\ w' # w
      /\ UNCHANGED <<m, at, timer, sends, crashes, failed>>

(* A worker dies by itself, with exit code 2 or otherwise, or stops cycling*)
Crash(x) ==
  /\ w[x].st = "running" /\ crashes > 0 /\ PidsLeft
  /\ crashes' = crashes - 1
  /\ \/ \E fatal \in BOOLEAN :
          /\ w' = [w EXCEPT ![x] = [NoWorker EXCEPT !.st = "zombie", !.fatal = fatal]]
          /\ pend' = pend \cup {"CHLD"}
          /\ failed' = IF fatal THEN failed \cup {"fatal"} ELSE failed
     \/ /\ w' = [w EXCEPT ![x].hung = TRUE] /\ ~w[x].hung
        /\ failed' = failed \cup {"hung"} /\ pend' = pend
  /\ UNCHANGED <<m, at, timer, sends>>

Operator(signo) ==
  /\ sends[signo] > 0 /\ signo \notin pend /\ at # "done" /\ (signo = "HUP" => PidsLeft)
  /\ sends' = [sends EXCEPT ![signo] = @ - 1] /\ pend' = pend \cup {signo}
  /\ UNCHANGED <<m, at, w, timer, crashes, failed>>

Alarm ==
  /\ timer /\ timer' = FALSE /\ pend' = pend \cup {"ALRM"}
  /\ UNCHANGED <<m, at, w, sends, crashes, failed>>

Next ==
  \/ Boot \/ Wake \/ Alarm
  \/ \E x \in Pids : WorkerCycle(x) \/ Crash(x)
  \/ \E signo \in UserSignals : Operator(signo)

Spec == Init /\ [][Next]_vars

(* The kernel runs the master and the workers that do not hang, and the    *)
(* timer expires.  Only Boot leaves "boot" and only Wake empties pend, so  *)
(* the first conjunct is their weak fairness; it spares TLC the evaluation *)
(* of ENABLED Wake.                                                        *)
Fairness ==
  /\ []<>(at = "done" \/ (at = "suspend" /\ pend = {}))
  /\ WF_vars(Alarm)
  /\ WF_vars(\E x \in Pids : WorkerCycle(x))

FairSpec == Spec /\ Fairness

-----------------------------------------------------------------------------
Running == {x \in Pids : w[x].st = "running"}
Stopping == m.flags \cap {"terminate", "quit"} # {}
Listed == {i \in Slots : i < m.last /\ m.p[i].pid # NoPid}

(* The master does not exit before its last worker (live, line 128).       *)
NoneLeftBehind == at = "done" => Running = {}

(* Every running worker is in the table once, and the table's channel for  *)
(* it is the worker's own, also after slots and descriptor numbers have    *)
(* been used again.                                                        *)
ChannelsTrue ==
  at = "suspend" =>
    \A x \in Running : \E i \in Listed :
      /\ m.p[i].pid = x /\ Peer([m |-> m], i) = x
      /\ \A j \in Listed \ {i} : m.p[j].pid # x

(* The workers that are not told to exit: one generation of them.          *)
Young == {i \in Listed : ~m.p[i].exiting /\ ~m.p[i].exited}

(* The table is right and holds one generation of workers, unless a spawn  *)
(* has failed (ngx_spawn_process, reconfiguring, just_spawn).              *)
SpawnFailed == failed \cap FaultKinds # {}
TableTrue == ~SpawnFailed => ChannelsTrue /\ Cardinality(Young) <= WorkerProcesses

(* A terminated master exits, whatever its workers do, and a master told to*)
(* quit exits when no worker hangs, unless a spawn has failed.             *)
Stops ==
  []<>( \/ at = "done" \/ SpawnFailed
        \/ "terminate" \notin m.flags /\ ("quit" \in m.flags => "hung" \in failed))

(* While the master is not stopping a worker that is not told to exit comes*)
(* back, unless a spawn failed or a worker ended with the fatal code.      *)
Respawned ==
  []<>( \/ Stopping \/ SpawnFailed \/ "fatal" \in failed
        \/ \E i \in Young : m.p[i].pid \in Running)
=============================================================================
