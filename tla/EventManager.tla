---------------------------- MODULE EventManager ----------------------------
(***************************************************************************)
(* EventManager of the epoll_threadpool library: a pool of worker threads  *)
(* that share one epoll descriptor, one eventfd used to wake them, a heap  *)
(* of timed tasks and a table of file descriptor handlers, all guarded by  *)
(* one mutex.                                                              *)
(*                                                                         *)
(* A step that takes and releases the mutex in one go is one action; the   *)
(* worker's long critical sections, which end at a callback or at          *)
(* epoll_wait, hold `lock' over several actions.                           *)
(***************************************************************************)
EXTENDS Naturals, FiniteSets

CONSTANTS
  Workers,      \* thread handles pthread_create may return, a set of numbers
  Callers,      \* threads that are never workers and call the public methods
  Tasks,        \* Function objects, each enqueued at most once
  Fds,          \* file descriptors that may be watched
  ReadyStates,  \* conditions an fd may be in, sets of epoll flags
  MaxEvents,    \* kMaxEvents of thread_main
  DefaultWait,  \* kEpollDefaultWait of thread_main, in clock ticks
  IntMaxMs,     \* largest timeout the cast to int in thread_main can hold
  Times,        \* times a task may be scheduled for
  MaxNow,       \* bound: the clock stops here
  MaxIntr,      \* bound: how often epoll_wait fails
  None          \* no thread, no event, end of an iteration

ASSUME EMAssumption ==
  /\ Workers \subseteq Nat /\ None \notin Workers \cup Callers \cup Fds
  /\ Workers \cap Callers = {}
  /\ MaxEvents \in Nat \ {0} /\ DefaultWait \in Nat /\ IntMaxMs \in Nat
  /\ MaxNow \in Nat /\ MaxIntr \in Nat /\ Times \subseteq 0..MaxNow
  /\ ReadyStates \subseteq SUBSET {"IN", "OUT", "RDHUP", "HUP"}

VARIABLES
  lock,        \* holder of _mutex, or None
  running,     \* _is_running
  threadSet,   \* _thread_set
  wake,        \* the eventfd counter is not zero
  tstate,      \* per task: where it is; _tasks is what is "queued"
  when,        \* per task: Task::when
  cancelled,   \* tasks whose Function was cancelled (_f = NULL)
  fds,         \* _fds: the event types that have a handler, {} if no entry
  registered,  \* fds the epoll descriptor knows
  mask,        \* per registered fd: the types it was last set to
  ready,       \* per fd: its current condition (environment)
  now,         \* currentTime()
  intr,        \* number of failed epoll_wait calls
  wpc,         \* per worker: where it is in thread_main
  deadline,    \* per worker: when its epoll_wait times out
  batch,       \* per worker: events not yet looked at
  cur,         \* per worker: the event being dispatched, or None
  task,        \* per worker: the task it took off the heap, or None
  cpc,         \* per caller: "idle", or inside stop() or the destructor
  iter         \* per caller: the iterator of the loop in stop()

taskVars == <<tstate, when, cancelled>>
fdVars == <<fds, registered, mask>>
workerVars == <<wpc, deadline, batch, cur, task>>
callerVars == <<cpc, iter>>
vars == <<lock, running, threadSet, wake, taskVars, fdVars, ready, now, intr,
          workerVars, callerVars>>

-----------------------------------------------------------------------------
(* thread_main tests the handler types of an event in this order.          *)
EventTypes == {"EM_READ", "EM_WRITE", "EM_ERROR"}
TypeAt == [k \in 1..3 |-> CASE k = 1 -> "EM_READ"
                            [] k = 2 -> "EM_WRITE"
                            [] OTHER -> "EM_ERROR"]

Flags == {"IN", "OUT", "RDHUP", "HUP"}

(* epollUpdate: the flags asked for on behalf of a handler type.           *)
FlagsOf(type) == CASE type = "EM_READ"  -> {"IN"}
                   [] type = "EM_WRITE" -> {"OUT"}
                   [] OTHER             -> {"RDHUP", "HUP"}


(* What epoll reports on an fd; a hang-up is reported whatever the mask.   *)
Reported(fd) ==
  IF fd \in registered
  THEN ready[fd] \cap ({"HUP"} \cup UNION {FlagsOf(t) : t \in mask[fd]})
  ELSE {}

ReadyFds == {fd \in Fds : Reported(fd) # {}}

queued == {t \in Tasks : tstate[t] = "queued"}

(* The front of the heap: a task no other is earlier than.                 *)
IsFront(t) == t \in queued /\ \A u \in queued : when[t] <= when[u]

(* Threads that have been created and have not left thread_main.           *)
Live == {w \in Workers : wpc[w] \notin {"unborn", "exited"}}

Asleep == {w \in Workers : wpc[w] = "epoll"}
InCallback == {w \in Workers : wpc[w] \in {"handler", "task"}}

(* A caller may use the object until some caller starts to destroy it.     *)
Free(c) == /\ cpc[c] = "idle"
           /\ \A d \in Callers : cpc[d] \notin {"destroying", "destroyed"}

(* Threads that can call the methods that only take the mutex briefly.     *)
Users == {c \in Callers : Free(c)} \cup InCallback

-----------------------------------------------------------------------------
(* The clock, the descriptors and the kernel.                              *)

Tick ==
  /\ now < MaxNow
  /\ now' = now + 1
  /\ UNCHANGED <<lock, running, threadSet, wake, taskVars, fdVars, ready, intr,
                 workerVars, callerVars>>

SetReady(fd, s) ==
  /\ ready[fd] # s
  /\ ready' = [ready EXCEPT ![fd] = s]
  /\ UNCHANGED <<lock, running, threadSet, wake, taskVars, fdVars, now, intr,
                 workerVars, callerVars>>

(* The user closes an fd that has no handler left and the number is used   *)
(* again: the kernel forgets the registration.                             *)
CloseFd(fd) ==
  /\ fds[fd] = {}
  /\ fd \in registered
  /\ registered' = registered \ {fd}
  /\ ready' = [ready EXCEPT ![fd] = {}]
  /\ UNCHANGED <<lock, running, threadSet, wake, taskVars, fds, mask, now, intr,
                 workerVars, callerVars>>

-----------------------------------------------------------------------------
(* The public methods.  start() and stop() return false at once in a       *)
(* worker, so only callers get past their first test.                      *)

start(c, new) ==
  /\ lock = None
  /\ Free(c)
  /\ c \notin threadSet
  /\ running' = TRUE
  /\ \A w \in new : wpc[w] = "unborn"
  /\ wpc' = [w \in Workers |-> IF w \in new THEN "start" ELSE wpc[w]]
  /\ threadSet' = threadSet \cup new
  /\ UNCHANGED <<lock, wake, taskVars, fdVars, ready, now, intr, deadline,
                 batch, cur, task, callerVars>>

(* The loop of stop() is done: drop the handlers and the tasks, without    *)
(* telling epoll.                                                          *)
StopFinish ==
  /\ threadSet' = {}
  /\ fds' = [fd \in Fds |-> {}]
  /\ tstate' = [t \in Tasks |-> IF t \in queued THEN "dropped" ELSE tstate[t]]

(* std::set order: t is the element after position i.                      *)
IsNext(t, i) ==
  /\ t \in threadSet
  /\ i # None => t > i
  /\ \A u \in threadSet : (i # None => u > i) => t <= u

NoNext(i) == \A u \in threadSet : i # None /\ u <= i

(* What stop() leaves in _is_running.                                      *)
StopFlag_Kept == running
StopFlag == FALSE

(* Enter stop(), on its own or from the destructor, up to the first join.  *)
StopBegin(c, mode) ==
  /\ lock = None
  /\ Free(c)
  /\ c \notin threadSet
  /\ running' = StopFlag
  /\ wake' = TRUE
  /\ \/ /\ \E t \in threadSet : IsNext(t, None) /\ iter' = [iter EXCEPT ![c] = t]
        /\ cpc' = [cpc EXCEPT ![c] = mode]
        /\ UNCHANGED <<threadSet, fds, tstate>>
     \/ /\ NoNext(None)
        /\ cpc' = [cpc EXCEPT ![c] = IF mode = "stopping" THEN "idle" ELSE "destroyed"]
        /\ iter' = iter
        /\ StopFinish
  /\ UNCHANGED <<lock, when, cancelled, registered, mask, ready, now, intr,
                 workerVars>>

(* pthread_join waits for the thread to end.                               *)
Joined_AtOnce(w) == TRUE
Joined(w) == wpc[w] = "exited"

(* pthread_join returns, the mutex is taken again and the iterator moves.  *)
(* When another stop() has cleared the set meanwhile, the iterator is      *)
(* dangling and the increment may lead anywhere.                           *)
StopJoin(c) ==
  /\ lock = None
  /\ cpc[c] \in {"stopping", "destroying"}
  /\ Joined(iter[c])
  /\ \/ /\ \E t \in Workers :
              /\ IF iter[c] \in threadSet THEN IsNext(t, iter[c]) ELSE wpc[t] # "unborn"
              /\ iter' = [iter EXCEPT ![c] = t]
        /\ UNCHANGED <<threadSet, fds, tstate, cpc>>
     \/ /\ iter[c] \in threadSet => NoNext(iter[c])
        /\ iter' = [iter EXCEPT ![c] = None]
        /\ cpc' = [cpc EXCEPT ![c] = IF cpc[c] = "stopping" THEN "idle" ELSE "destroyed"]
        /\ StopFinish
  /\ UNCHANGED <<lock, running, wake, when, cancelled, registered, mask, ready,
                 now, intr, workerVars>>

enqueue(t, at) ==
  /\ lock = None
  /\ Users # {}
  /\ tstate[t] = "new"
  /\ tstate' = [tstate EXCEPT ![t] = "queued"]
  /\ when' = [when EXCEPT ![t] = at]
  /\ wake' = (wake \/ \A u \in queued : at < when[u])
  /\ UNCHANGED <<lock, running, threadSet, cancelled, fdVars, ready, now, intr,
                 workerVars, callerVars>>

(* Function::cancel, which has a mutex of its own.                         *)
cancel(t) ==
  /\ Users # {}
  /\ t \notin cancelled
  /\ cancelled' = cancelled \cup {t}
  /\ UNCHANGED <<lock, running, threadSet, wake, tstate, when, fdVars, ready,
                 now, intr, workerVars, callerVars>>

(* epollUpdate: ADD fails on a known fd, MOD fails on an unknown one, and  *)
(* the failure is only logged.                                             *)
epollUpdate(fd, op, types) ==
  /\ registered' = CASE op = "ADD" -> registered \cup {fd}
                     [] op = "DEL" -> registered \ {fd}
                     [] OTHER      -> registered
  /\ mask' = IF (op = "ADD" /\ fd \notin registered)
                \/ (op = "MOD" /\ fd \in registered)
             THEN [mask EXCEPT ![fd] = types]
             ELSE mask

watchFd(fd, type) ==
  /\ lock = None
  /\ Users # {}
  /\ fds' = [fds EXCEPT ![fd] = @ \cup {type}]
  /\ epollUpdate(fd, IF fds[fd] = {} THEN "ADD" ELSE "MOD", fds'[fd])
  /\ wake' = TRUE
  /\ UNCHANGED <<lock, running, threadSet, taskVars, ready, now, intr,
                 workerVars, callerVars>>

(* The last handler of an fd takes its registration with it.               *)
RemoveOp_Modify(fd, type) == "MOD"
RemoveOp(fd, type) == IF fds[fd] = {type} THEN "DEL" ELSE "MOD"

removeFd(fd, type) ==
  /\ lock = None
  /\ Users # {}
  /\ fds[fd] # {}
  /\ fds' = [fds EXCEPT ![fd] = @ \ {type}]
  /\ epollUpdate(fd, RemoveOp(fd, type), fds'[fd])
  /\ UNCHANGED <<lock, running, threadSet, wake, taskVars, ready, now, intr,
                 workerVars, callerVars>>
-----------------------------------------------------------------------------
(* thread_main.                                                            *)

(* Outcomes of the cast of a delay to int: a delay too long for an int     *)
(* comes out negative, and is then clipped to 0, or saturated.             *)
TimeoutFor(d) == IF d > IntMaxMs THEN {0, IntMaxMs} ELSE {d}

(* Where thread_main goes on once it has the mutex.                        *)
AfterLock(pc) == CASE pc = "start" -> "head"
                   [] pc = "woken" -> "dispatch"
                   [] OTHER        -> "drain"

(* Take the mutex at the start, after epoll_wait or after a callback.      *)
Acquire(w) ==
  /\ lock = None
  /\ wpc[w] \in {"start", "woken", "ran"}
  /\ lock' = w
  /\ wpc' = [wpc EXCEPT ![w] = AfterLock(@)]
  /\ UNCHANGED <<running, threadSet, wake, taskVars, fdVars, ready, now, intr,
                 deadline, batch, cur, task, callerVars>>

(* The head of the loop: compute the timeout and go to sleep.              *)
Sleep(w) ==
  /\ lock = w /\ wpc[w] = "head"
  /\ running
  /\ \/ /\ queued = {}
        /\ deadline' = [deadline EXCEPT ![w] = now + DefaultWait]
     \/ \E t \in queued :
          /\ IsFront(t)
          /\ \E d \in TimeoutFor(IF when[t] < now THEN 0 ELSE when[t] - now) :
               deadline' = [deadline EXCEPT ![w] = now + d]
  /\ lock' = None
  /\ wpc' = [wpc EXCEPT ![w] = "epoll"]
  /\ UNCHANGED <<running, threadSet, wake, taskVars, fdVars, ready, now, intr,
                 batch, cur, task, callerVars>>

(* The last eventfd_write of thread_main.                                  *)
ExitWake_Dropped == wake
ExitWake == TRUE

(* The loop ends: pass the wake-up on and leave.                           *)
Exit(w) ==
  /\ lock = w /\ wpc[w] = "head"
  /\ ~running
  /\ wake' = ExitWake
  /\ lock' = None
  /\ wpc' = [wpc EXCEPT ![w] = "exited"]
  /\ UNCHANGED <<running, threadSet, taskVars, fdVars, ready, now, intr,
                 deadline, batch, cur, task, callerVars>>

(* What epoll_wait can report now; the eventfd is the event on fd None.    *)
Pending ==
  {[fd |-> fd, flags |-> Reported(fd)] : fd \in ReadyFds}
    \cup (IF wake THEN {[fd |-> None, flags |-> {"IN"}]} ELSE {})

(* The timeout of epoll_wait; at MaxNow, the end of time, all are over.    *)
TimedOut_Never(w) == FALSE
TimedOut(w) == now >= deadline[w] \/ now = MaxNow

(* epoll_wait returns events, as many as fit, or times out.  The timeout   *)
(* is dead from here on, and reset.                                        *)
EpollReturn(w) ==
  /\ wpc[w] = "epoll"
  /\ Pending # {} \/ TimedOut(w)
  /\ \E b \in SUBSET Pending :
       /\ Cardinality(b) <= MaxEvents
       /\ b # Pending => Cardinality(b) = MaxEvents
       /\ batch' = [batch EXCEPT ![w] = b]
  /\ deadline' = [deadline EXCEPT ![w] = 0]
  /\ wpc' = [wpc EXCEPT ![w] = "woken"]
  /\ UNCHANGED <<lock, running, threadSet, wake, taskVars, fdVars, ready, now,
                 intr, cur, task, callerVars>>

(* epoll_wait fails (EINTR): back to the head of the loop.                 *)
EpollFail(w) ==
  /\ wpc[w] = "epoll"
  /\ intr < MaxIntr
  /\ intr' = intr + 1
  /\ deadline' = [deadline EXCEPT ![w] = 0]
  /\ wpc' = [wpc EXCEPT ![w] = "start"]
  /\ UNCHANGED <<lock, running, threadSet, wake, taskVars, fdVars, ready, now,
                 batch, cur, task, callerVars>>

(* Look at the next event; the eventfd is read and so reset.               *)
TakeEvent(w) ==
  /\ lock = w /\ wpc[w] = "dispatch"
  /\ cur[w] = None
  /\ \E e \in batch[w] :
       /\ batch' = [batch EXCEPT ![w] = @ \ {e}]
       /\ IF e.fd = None
          THEN wake' = FALSE /\ cur' = cur
          ELSE wake' = wake /\ cur' = [cur EXCEPT ![w] =
                                  [fd |-> e.fd, flags |-> e.flags, stage |-> 0]]
  /\ UNCHANGED <<lock, running, threadSet, taskVars, fdVars, ready, now, intr,
                 wpc, deadline, task, callerVars>>

(* The test on the flags is a bitwise OR with the wanted bits, so it holds *)
(* whatever the event is.                                                  *)
FlagTest(flags, type) == (flags \cup FlagsOf(type)) # {}

(* Handler types of the event still to be tried and to be called.          *)
Callable_SkipFirst(e) ==
  {k \in 1..3 : k > e.stage + 1 /\ FlagTest(e.flags, TypeAt[k]) /\ TypeAt[k] \in fds[e.fd]}
Callable(e) ==
  {k \in 1..3 : k > e.stage /\ FlagTest(e.flags, TypeAt[k]) /\ TypeAt[k] \in fds[e.fd]}

(* Copy the next handler of the event, release the mutex and call it.      *)
CallHandler(w) ==
  /\ lock = w /\ wpc[w] = "dispatch"
  /\ cur[w] # None
  /\ \E k \in Callable(cur[w]) :
       /\ \A j \in Callable(cur[w]) : k <= j
       /\ cur' = [cur EXCEPT ![w].stage = k]
  /\ lock' = None
  /\ wpc' = [wpc EXCEPT ![w] = "handler"]
  /\ UNCHANGED <<running, threadSet, wake, taskVars, fdVars, ready, now, intr,
                 deadline, batch, task, callerVars>>

EndEvent(w) ==
  /\ lock = w /\ wpc[w] = "dispatch"
  /\ cur[w] # None
  /\ Callable(cur[w]) = {}
  /\ cur' = [cur EXCEPT ![w] = None]
  /\ UNCHANGED <<lock, running, threadSet, wake, taskVars, fdVars, ready, now,
                 intr, wpc, deadline, batch, task, callerVars>>

EndBatch(w) ==
  /\ lock = w /\ wpc[w] = "dispatch"
  /\ cur[w] = None /\ batch[w] = {}
  /\ wpc' = [wpc EXCEPT ![w] = "drain"]
  /\ UNCHANGED <<lock, running, threadSet, wake, taskVars, fdVars, ready, now,
                 intr, deadline, batch, cur, task, callerVars>>

(* Pop a due task and release the mutex.                                   *)
PopTask(w) ==
  /\ lock = w /\ wpc[w] = "drain"
  /\ \E t \in queued :
       /\ IsFront(t) /\ when[t] <= now
       /\ tstate' = [tstate EXCEPT ![t] = "popped"]
       /\ task' = [task EXCEPT ![w] = t]
  /\ lock' = None
  /\ wpc' = [wpc EXCEPT ![w] = "popped"]
  /\ UNCHANGED <<running, threadSet, wake, when, cancelled, fdVars, ready, now,
                 intr, deadline, batch, cur, callerVars>>

(* Function::run copies _f and calls the copy unless it is NULL.  From     *)
(* here on the worker's Task is only a reference that keeps it alive.      *)
RunTask(w) ==
  /\ wpc[w] = "popped"
  /\ IF task[w] \in cancelled
     THEN /\ tstate' = [tstate EXCEPT ![task[w]] = "skipped"]
          /\ wpc' = [wpc EXCEPT ![w] = "ran"]
     ELSE /\ tstate' = [tstate EXCEPT ![task[w]] = "called"]
          /\ wpc' = [wpc EXCEPT ![w] = "task"]
  /\ task' = [task EXCEPT ![w] = None]
  /\ UNCHANGED <<lock, running, threadSet, wake, when, cancelled, fdVars, ready,
                 now, intr, deadline, batch, cur, callerVars>>

(* A callback returns.                                                     *)
Return(w) ==
  /\ w \in InCallback
  /\ wpc' = [wpc EXCEPT ![w] = IF @ = "handler" THEN "woken" ELSE "ran"]
  /\ UNCHANGED <<lock, running, threadSet, wake, taskVars, fdVars, ready, now,
                 intr, deadline, batch, cur, task, callerVars>>

EndDrain(w) ==
  /\ lock = w /\ wpc[w] = "drain"
  /\ \A t \in queued : when[t] > now
  /\ wpc' = [wpc EXCEPT ![w] = "head"]
  /\ UNCHANGED <<lock, running, threadSet, wake, taskVars, fdVars, ready, now,
                 intr, deadline, batch, cur, task, callerVars>>

-----------------------------------------------------------------------------
Init ==
  /\ lock = None
  /\ running = FALSE
  /\ threadSet = {}
  /\ wake = FALSE
  /\ tstate = [t \in Tasks |-> "new"]
  /\ when = [t \in Tasks |-> 0]
  /\ cancelled = {}
  /\ fds = [fd \in Fds |-> {}]
  /\ registered = {}
  /\ mask = [fd \in Fds |-> {}]
  /\ ready = [fd \in Fds |-> {}]
  /\ now = 0
  /\ intr = 0
  /\ wpc = [w \in Workers |-> "unborn"]
  /\ deadline = [w \in Workers |-> 0]
  /\ batch = [w \in Workers |-> {}]
  /\ cur = [w \in Workers |-> None]
  /\ task = [w \in Workers |-> None]
  /\ cpc = [c \in Callers |-> "idle"]
  /\ iter = [c \in Callers |-> None]

(* A worker on its own, without what the callback it runs may do.          *)
WorkerStep(w) ==
  \/ Acquire(w) \/ Sleep(w) \/ Exit(w) \/ EpollReturn(w)
  \/ TakeEvent(w) \/ CallHandler(w) \/ EndEvent(w) \/ EndBatch(w)
  \/ PopTask(w) \/ RunTask(w) \/ Return(w) \/ EndDrain(w)

Next ==
  \/ Tick
  \/ \E fd \in Fds : CloseFd(fd) \/ \E s \in ReadyStates : SetReady(fd, s)
  \/ \E c \in Callers : \/ \E new \in SUBSET Workers : start(c, new)
                         \/ StopBegin(c, "stopping")
                         \/ StopBegin(c, "destroying")
                         \/ StopJoin(c)
  \/ \E t \in Tasks : cancel(t) \/ \E at \in Times : enqueue(t, at)
  \/ \E fd \in Fds, type \in EventTypes : watchFd(fd, type) \/ removeFd(fd, type)
  \/ \E w \in Workers : WorkerStep(w) \/ EpollFail(w)

Spec == Init /\ [][Next]_vars

(* The scheduler runs every thread, the mutex starves nobody, callbacks    *)
(* return and time passes.                                                 *)
Fairness ==
  /\ WF_vars(Tick)
  /\ \A w \in Workers : WF_vars(WorkerStep(w)) /\ SF_vars(Acquire(w))
  /\ \A c \in Callers : SF_vars(StopJoin(c))

FairSpec == Spec /\ Fairness

-----------------------------------------------------------------------------
TaskStates == {"new", "queued", "popped", "called", "skipped", "dropped"}
Unlocked == {"unborn", "start", "epoll", "woken", "handler", "popped", "task",
             "ran", "exited"}
Locked == {"head", "dispatch", "drain"}

(* Every variable has its type, and the mutex is held exactly by the       *)
(* worker that is inside one of thread_main's long critical sections.      *)
TypeOK ==
  /\ lock \in Workers \cup {None}
  /\ running \in BOOLEAN /\ wake \in BOOLEAN
  /\ threadSet \subseteq Workers
  /\ tstate \in [Tasks -> TaskStates] /\ when \in [Tasks -> Nat]
  /\ cancelled \subseteq Tasks
  /\ fds \in [Fds -> SUBSET EventTypes] /\ mask \in [Fds -> SUBSET EventTypes]
  /\ registered \subseteq Fds
  /\ ready \in [Fds -> SUBSET Flags]
  /\ now \in Nat /\ intr \in Nat
  /\ wpc \in [Workers -> Locked \cup Unlocked]
  /\ \A w \in Workers : wpc[w] \in Locked <=> lock = w
  /\ deadline \in [Workers -> Nat]
  /\ batch \in [Workers -> SUBSET [fd : Fds \cup {None}, flags : SUBSET Flags]]
  /\ cur \in [Workers -> [fd : Fds, flags : SUBSET Flags, stage : 0..3] \cup {None}]
  /\ task \in [Workers -> Tasks \cup {None}]
  /\ cpc \in [Callers -> {"idle", "stopping", "destroying", "destroyed"}]
  /\ iter \in [Callers -> Workers \cup {None}]

(* stop() writes the eventfd once although many workers may sleep in       *)
(* epoll_wait; each worker that leaves writes it again.  So as long as the *)
(* pool is told to stop and some worker sleeps, the eventfd is readable or *)
(* some worker is awake and will write it: nobody is left asleep.          *)
WakeChain ==
  ~running /\ Asleep # {} => wake \/ Live \ Asleep # {}

(* stop() joins every worker before it forgets their handles, and the      *)
(* destructor frees the object only when no worker is left in thread_main. *)
NoOrphan ==
  /\ Live \subseteq threadSet
  /\ (\E c \in Callers : cpc[c] = "destroyed") => Live = {}

InSync(fd) ==
  /\ fds[fd] = {} <=> fd \notin registered
  /\ fds[fd] # {} => mask[fd] = fds[fd]

(* The handler table and the epoll descriptor agree on every fd, and only  *)
(* a stop() that finds handlers still attached can make them disagree.     *)
EpollInSync ==
  [][\A fd \in Fds : InSync(fd) /\ ~InSync(fd)' =>
                       fds[fd] # {} /\ ~running' /\ threadSet' = {}]_vars

(* watchFd's contract on (fd, type): a handler is called because of an     *)
(* event of its own type.                                                  *)
CallbackMatchesEvent ==
  \A w \in Workers : wpc[w] = "handler" =>
    cur[w].flags \cap FlagsOf(TypeAt[cur[w].stage]) # {}

(* stop() and the destructor return.                                       *)
StopReturns == \A c \in Callers : []<>(cpc[c] \in {"idle", "destroyed"})

(* As long as there is a worker, a queued task leaves the heap, even if    *)
(* the enqueue that added it woke nobody.                                  *)
TaskServed ==
  \A t \in Tasks : tstate[t] = "queued" /\ Live # {}
                     ~> tstate[t] # "queued" \/ Live = {}

Watched(fd) == InSync(fd) /\ Reported(fd) # {} /\ fds[fd] # {} /\ Live # {}

(* As long as there is a worker, an event on a watched fd reaches one of   *)
(* the handlers of that fd, or goes away.                                  *)
EventServed ==
  \A fd \in Fds :
    Watched(fd) ~> ~Watched(fd) \/ \E w \in Workers : wpc[w] = "handler" /\ cur[w].fd = fd
=============================================================================
