# TLA+ verification of LinuxCodeDemos

LinuxCodeDemos is a collection of C and C++ programs around Linux system
interfaces.  Most directories are independent programs that show one call, or
copies of third-party code.  A few have real concurrency or protocol logic.
Those are what this directory models, checks with TLC and proves with TLAPS.

## 1. Inventory

Paths are below `src/linuxdemo/` unless they start with `src/`.

| Part | Source | State | Operations | Hard behaviour | Module |
|---|---|---|---|---|---|
| EventManager | `socket/epoll_threadpool-master/src/eventmanager.*` | thread set, run flag, task heap, handler table, epoll registration, eventfd | start, stop, destructor, enqueue, cancel, watchFd, removeFd, thread_main | workers share one epoll descriptor; one eventfd write must wake all of them; tables change while handlers run | `EventManager` |
| Future, FutureBarrier | same, `future.h` | value, callback and errback lists, references, counter | set, get, tryWait, addCallback, addErrback, release, barrier constructor, signal | tests before the lock, loops after it, spurious wake-ups | `Future` |
| circular_buffer | `socket/udp/udp-piece/circular_buffer.*` | ring, two indexes, size | write, read, get, pop_front, reset | exact fit, wrap-around, full against empty | `CircularBuffer`, `ByteQueue` |
| udp-piece | `socket/udp/udp-piece/udp-piece*` | group of pieces, ring or buffer, counters | cut, get, merge, merge_ex, reset, client, server | loss, duplication, reordering, malloc failure, full ring | `UdpPiece` |
| epoll_framework | `epoll_framework/` | fd_table, epoll_state, cached clock, connections | comm_select, checkTimeouts, comm_close, the setters, four echo handlers | descriptor reuse in a batch of events, stale clock, handlers that stay installed | `Comm` |
| TcpSocket, IOBuffer | `socket/epoll_threadpool-master/src/tcp.*`, `iobuffer.h` | send and receive buffers, callbacks, descriptor, mutex | connect, start, write, disconnect, destructor, onReceive, onCanSend, accept, shutdown | callbacks after disconnect, two workers on one socket, reuse of the descriptor | `TcpSocket`, `IOBuffer` |
| master and workers | `process_IPC/` | process table, signal flags, channels, delay | spawn, reap, signal, pass channel, master and worker cycles | crashed and hung workers, failed spawns, respawn against terminate, full channels | `MasterWorker` |
| Reactor demo | `socket/simple_epoll_demo/Reactor.c` | slot table, epoll registration, scan position | add, del, accept, recv, send, timeout scan | slots and descriptors reused, table full, short sends | `Reactor` |
| shared memory demo | `sharememory/` | flag and buffer | write, read | flag lowered before the text is compared | `SharedMemory` |
| red-black tree | `rbtree.c` | tree, loop variables | search, insert, delete | rebalancing, the sentinel's parent | `RbTree` |
| B-tree | `btree.c` | nodes | insert (not delete) | splits on the way down | `BTree` |

How the parts interact: UdpPiece keeps its bytes in circular_buffer, and its
module uses the sequence that circular_buffer is proved to implement.
TcpSocket registers handlers with EventManager and keeps data in IOBuffer; its
module contains the manager's handler table, task list and worker loop, and uses
the operators of IOBuffer.  The other parts stand alone.

## 2. Modules

### EventManager

Workers run `thread_main`, callers use the public methods.  A method that takes
and releases the mutex in one go is one action (`start`, `enqueue`, `cancel`,
`watchFd`, `removeFd`).  `stop()` and the destructor are `StopBegin` and one
`StopJoin` per joined worker, because the mutex is dropped around the join.
`thread_main` is split where it releases the mutex or blocks: `Acquire`, `Sleep`,
`EpollReturn`, `EpollFail`, `TakeEvent`, `CallHandler`, `EndEvent`, `EndBatch`,
`PopTask`, `RunTask`, `Return`, `EndDrain`, `Exit`.  `lock` is held over several
actions where the code holds `_mutex`.  Handlers and tasks may call the short
methods.  The heap is abstracted to the set of queued tasks and their times, the
eventfd to whether its counter is zero.

### Future

Each thread does one job from `Jobs`: set, let go, get, tryWait, addCallback,
build a barrier, add to it or wait for it.  The tests of `_value` and
`_counter` before the lock are steps of their own, and so is each turn of the
loops that run callbacks after the lock was released.  Condition variables may
wake spuriously.

The barrier's `addCallback` puts the callback into the list before it tests
anything and again under the lock, so a callback added before the futures are
resolved runs twice.  Its first `push_back` has no lock.  With one thread adding
(assumption `OneAdder`) the loop of `signal` sees the list before or after it,
since a node enters the loop's path by one store.  `_errbacks.clear()` in `set` has
no lock either, and may meet the `push_back` of a barrier's constructor: with one
barrier per future the outcome is an empty list or that errback.

### ByteQueue and CircularBuffer

`ByteQueue` is what a ring promises: a bounded FIFO of bytes, whose calls are
visible with their argument, their result and the bytes they hand out.
`CircularBuffer` has the indexes and the two `memcpy`s of the code.
`IsByteQueue` is the refinement; `queue` is read off the ring from the begin
index.

### UdpPiece

The client cuts frames and sends pieces, whole or in two datagrams.  The network
loses, duplicates and swaps them.  The server calls `udp_piece_merge_ex` (with
the ring) or `udp_piece_merge`, each turn of whose loop is a step.  malloc may
fail.  A header is two sync units and four field units, and a split piece is cut
inside it, as the client does; a payload byte is known by its frame and position.
Fields are taken modulo `Word`.  The server looks for the sync word once per call
and then reads fields by position.  When something else is there, because a first
half was not followed by its second half, `Misread` ends the call or copies to
wherever the index read says (`pc = "wild"`, from where nothing is claimed).
`last` and `inStep` record whether that may have happened since the last reset.
`mode` picks one of the scenarios of an instance and never changes.

### Comm

One turn of `main`'s loop is `BeginSelect`, the loop of `checkTimeouts`,
`EpollReturns` or `EpollTimesOut`, then for each event of the batch `CallRead`
and `CallWrite`, then `EndHandlers`, which reads the clock.  The handlers
`accept_connection`, `do_welcome_handler`, `do_echo_handler` and
`do_echo_response` are operators those two actions use.  `accept` returns the
lowest free descriptor.  `epoll_wait` reports at most `MaxEvents` descriptors.
`frees`, `active` and `owed` only record history.

Three places of undefined behaviour are settled by the build.  `stat_init` has no
return statement; without optimisation the pointer it allocated is still in the
return register, so the model returns it.  `do_welcome_handler` passes a format
string as the stream; the model lets the process end there or go on.  The loop of
`checkTimeouts` reads one entry past the table: calloc maps a
page more than the table fills, and the zero found there is skipped.  A write to
a reset connection raises SIGPIPE, which ends the process (`pc = "dead"`).
Unread data is one chunk, shorter than the server's buffer; running out of memory
is not modelled.

### TcpSocket and IOBuffer

One user thread and the manager's workers act on sockets.  A method that takes and
releases the socket's mutex in one go is one action (`start`, `write`,
`setDisconnectCallback`).  `disconnect()` is three: `DisconnectBegin` takes the
handlers away, `DisconnectEnd` closes the descriptor, whose number is free from then
on, and tests the callback, `DisconnectTells` queues it.  `onReceive` and
`onCanSend` are one step per turn of their loops, with the mutex held from the first
to the last.  The destructor (`Delete`) clears the callback without the mutex, as
the code does, and may be called by the user or from inside the disconnect
callback.  When it comes between the test and the queueing, an empty function is
queued; the worker that calls it throws, and the process ends (`Alive`).
`epoll_wait`, `dispatch` and `runTask` are the manager's loop: every handler of a
reported descriptor is looked up and called in turn, as the finding on `flags |
EPOLLIN` says.  The kernel is `pending`, `room` and `link` per connection; sends and
receives may be partial.  Bytes are numbered, so the buffers show loss, duplication
and order.  IOBuffer is a record of a size and a sequence of blocks.

Assumed of the user: callbacks are set before `start()` (tcp.h asks for it), the
receive callback only consumes.  Descriptors are positive, as the tests `_fd > 0`
need.  `_tasks` is a set: two equal tasks do no more than one.

### MasterWorker

The master blocks its signals except in `sigsuspend`, so everything between two
of them is one action, `Wake`: the handlers of all pending signals (`Handled`),
reaping and respawning slot by slot (`ReapChildren`), then terminate, quit,
reload or reopen (`Body`), and the head of the loop (`Doubled`).  These are
operators on the state of an iteration.  A spawn fails at most once per
behaviour, at socketpair ("pair"), at one of the calls on the pair ("set") or at
fork.  Descriptor numbers are those of the kernel: the lowest free.
`WorkerCycle` is one turn of a worker.  Workers may crash, exit with the fatal
code or hang.  SIGIO is asked for but never arrives, because the master keeps
the workers' ends open itself.  Branches behind flags that nothing sets
(`ngx_restart`, `ngx_noaccept`, `ngx_new_binary`) are left out.  A child closes
the master's ends of the channels it finds in the table, by number; where a number
is stale and now its own, it closes its own end and hears nothing (`deaf`).

### Reactor

One turn of the loop is `scan`, `epoll_wait` and then, for each event of the
batch, `take` and `dispatch`, or `acceptconn`; the events of a batch come in any
order.  A failing epoll_wait ends the loop (`epoll_wait_fails`), and a send to a
connection that was reset raises SIGPIPE, which ends the process (`killed`); a
client that closed answers data with a reset (`Refuse`).  A slot's age replaces
`last_active`.  `AfterNul` is the effect of
`buf[len] = 0` after a full buffer, which is the low byte of `len`.
`ReactorDemo` is an instance of the module with its assumptions and the properties
(Re...) that the run `units` checks and `ReactorProofs` proves; `SharedMemoryDemo`
does the same for SharedMemory (Sh...).

### RbTree and BTree

`RbTree` has one action per turn of a loop.  A node is named by its key;
`TakesPlace` renames when deletion moves the successor's key.  Memory not yet
written, nil's children included, is `Unset`.  The two mirrored halves of each
fixup are one definition with a side as parameter.  `BTree` has one action per
level of `btree_insert_nonfull`.

### SharedMemory

Lines are numbered, the last is "end".  The copy into the buffer is a step.  A
print during it gives the old line, the new one or a mixture (`Torn`).  shm1
compares the text with "end" after it has lowered the flag, so the comparison may
overlap the next copy: in each of the three places it meets the old letter or the
new one (`Found`).  `Letters` says where each line has the letter of "end".

## 3. Runs

| Run | Instance | Checks | Result |
|---|---|---|---|
| `em_pool` | 3 workers, one failing epoll_wait; or 2 workers and 2 tasks, times 0 and 1 | WakeChain, NoOrphan, StopReturns, TaskServed | hold |
| `em_events` | 1 worker, 1 descriptor, 1 task, one failing epoll_wait | EventServed, EpollInSync | hold |
| `em_callback_type` | descriptor readable or writable | CallbackMatchesEvent | violated |
| `tcp` | 2 workers and 1 socket; or 1 worker and 2 sockets on one number | WatchesAgree, StreamOut, StreamIn, HushedStaysQuiet, QuietAfterDisconnect, Served | hold |
| `master` | 1 worker process, 3 slots, 3 signals, 1 crash, 1 failed spawn | NoneLeftBehind, TableTrue, Stops, Respawned | hold |
| `master_channel` | the same | ChannelsTrue | violated |
| `units` | the ring, the trees, the reactor and the shared memory, one per behaviour | IndexesAgree, IsByteQueue, RbBalanced, RbDictionary, BtKeysKept, ReTableAgrees, ReEventsFresh, ReEcho, ReAttended, ShInOrder | hold |
| `udp` | 5 scenarios of up to 5 frames, 3 faults | InOrder, BytesInPlace, Recovers | hold |
| `udp_mismatch` | two equal short frames, split, two datagrams lost | MismatchReported | violated |
| `future` | 3 scenarios of 5 threads and 2 futures | OneValue, OnceEach, NeverEarly, CallbacksServed | hold |
| `future_spurious` | one setter, one reader | GetHasValue | violated |
| `comm` | 2 connections, 2 descriptors, timeouts of 2 and 3 s, 5 s of time | StatsLive, NoStaleEvent, EpollInSync, OneReplyPerRequest, ClosedInTime, NotClosedEarly, RequestsServed | hold |

What the violated runs show:

- `em_callback_type`: `thread_main` tests `flags | EPOLLIN` where `&` is meant, so
  every handler of a descriptor is called on any event.
- `udp_mismatch`: `udp_piece_merge_ex` has the statement `get_all_pieces - 1;`, so
  a length mismatch is not reported as -1.  Two frames of two pieces each, with
  the short piece of the first lost: the long pieces of both complete the group,
  their lengths do not add up to the frame's, and the call returns 0.
- `future_spurious`: `Future::get` waits with `if`, so a spurious wake-up makes it
  use a null value.
- `master_channel`: a failed spawn closes its channel but leaves the numbers in
  the table.  After a failed respawn, the next reload's channel has the same
  numbers: the new worker closes its own end as if it were the dead slot's and
  hears nothing, and reaping the dead slot again closes the new worker's channel.

### Bounds

- EventManager: WakeChain needs a third worker (one leaves, one sleeps, one is on
  its way), NoOrphan and StopReturns a loop of more than one join.  Task times
  need an earlier and a later task on two workers; one of the two may be
  cancelled.  `em_pool` takes three idle workers or two with tasks, so that the two
  questions do not multiply.  Handlers and epoll
  registration are per descriptor, so one is enough.
- TcpSocket: blocks of one byte, sends and receives of up to two, and a kernel
  buffer of one byte give partial sends, joined blocks and EAGAIN.  Two workers
  on one socket meet in every pair of callbacks; two sockets in turn on one number
  show reuse.  Both at once would only multiply the two.  Traffic is in one
  direction at a time, because the two buffers share only the mutex.
- MasterWorker: `worker_processes` is 1 in the code.  Three slots hold a worker
  and two that are on their way out; two reloads reuse slots and numbers; a
  channel of two messages fills.
- Reactor: two slots and three clients fill the table and reuse slots and numbers;
  a scan of one slot a turn has to come round.  One client at a time sends.
- RbTree: six keys reach every case of both fixups.  BTree: ten insertions split
  inner nodes at t = 2, and equal keys occur.  SharedMemory: four lines, two of
  which spell "end" between them.
- CircularBuffer: capacity 3 has an exact fit, a one- and a two-step copy and
  both meanings of equal indexes; buffers of 4 do not fit.
- UdpPiece: frames of one full, one short, two and three pieces; two frames of
  equal size in a row; a ring of exactly one piece and one too small; split pieces
  with loss, duplication and reordering on a ring with room for a stray half.
- Future: rival setters, readers and a late callback; barriers over two futures.
- Comm: two connections on two descriptors have one number reused by the second
  connection, or both open in one batch.  The second peer sends one message; the
  first only connects, closes or resets.  The timeouts keep the order of 10 s and
  30 s.  The clock starts above every delay, as a real clock does.  `MaxCuts`
  bounds partial writes.  MaxEvents = 2 covers the listener and one connection
  in a batch with a third descriptor left for the next.

Deadlock is not checked in the runs where threads or programs end.  All bounds
are constants and appear only in guards.

### Fairness

- EventManager: weak fairness of each worker's steps, strong fairness of taking
  the mutex and of the join.  A pthread mutex serves a waiting thread in the end
  as long as it is released again and again.
- Future: some thread that can take a step takes one (`WF` on all steps together);
  each thread has finitely many, so no thread is starved.
- TcpSocket: each worker runs (weak fairness of its steps), the user finishes a
  disconnect it began, and the peer reads.
- MasterWorker: the master runs when a signal is pending, the workers that do not
  hang run, and the timer expires.  Operator and crashes are free.
- Reactor: the loop runs and time passes, as long as the process lives.
- Comm: the server continues; peers and the clock are free.  While more than
  `MaxEvents` descriptors are ready, that each is reported in the end is the
  kernel's rotation of its ready list, which is not modelled; the instance has
  work for finitely many batches.

## 4. Proofs

`EventManagerProofs`, for any number of workers, callers, tasks and descriptors:

- `TypeCorrect`: `Spec => []TypeOK`.  TypeOK is split into `ThreadInv` (who holds
  the mutex, where the threads are) and `DataInv` (tables, tasks, events);
  `ThreadInv` is inductive alone, `DataInv` together with it.
- `WakeChainHolds`: `Spec => []WakeChain`.  While the pool is told to stop and some
  worker sleeps, the eventfd is readable or some worker is awake.  Inductive with
  `ThreadInv`: a worker leaves only through `Exit`, which writes the eventfd.
- `NoOrphanHolds`: `Spec => []NoOrphan` if there is one caller.  The
  strengthening `TrackInv` says what `stop()` has joined: everything in the
  thread set below its iterator has exited.  That is why the loop's end means
  that nobody is left (`LoopJoinsAll`).
- `OnlyStopForgets`: `Spec => EpollInSync` if there is one caller.  Watching and
  removing handlers keeps table and registrations in step (`HandlersKeepSync`), and
  only the end of `stop()` empties the table.  The strengthening `Halted` says
  that the pool stays stopped while `stop()` joins.  It fails with two callers: a
  `start()` during a join sets the run flag, and that `stop()` then drops the
  handlers of a running pool.

`UnitProofs` has the two small programs.  The circular buffer, for any capacity
and any bytes:

- `IndexesAlwaysAgree`: the indexes stay in the ring and agree with the size.
  Inductive as it stands.
- `ImplementsByteQueue`: the ring implements ByteQueue.  The lemmas say what
  dropping (`RingDropped`), writing (`RingWritten`) and copying (`RingCopied`) do
  to the sequence read off the ring; they reduce the arithmetic modulo the
  capacity to one case distinction (`RingFacts`).

The shared memory demo: `PrintedInOrder`, `Sh!Spec => []ShInOrder` for any number
of lines and any letters in them.  Only whole lines are printed, none twice, left
out or out of turn but those wiped at the start, and shm1 stops only after a line
that spells "end" by itself or together with the one after it.  The
strengthening ties the text in the buffer to the last line printed, by where the
two programs are.

`TcpSocketProofs`, for any number of sockets, descriptors and workers:

- `HandlersAgree`: `Spec => []WatchesAgree`.
- `DeletedStaysQuiet`: `Spec => []HushedStaysQuiet`.
- `NothingFollowsDisconnect`: `Spec => QuietAfterDisconnect`.

All three rest on one inductive invariant, `Inv`, which TLC also checked on the
instance of `tcp`.  `TcpSocketInv` states it and proves that the user's calls,
`epoll_wait`, `dispatch` and the turns of `onReceive` and `onCanSend` keep it;
`TcpSocketProofs` has the destructor, the three parts of `disconnect()`, `runTask`,
accepting and the theorems.  `Located` ties the place of each thread to the mutex it
holds, and `Closing` says that a socket between the first two parts of
`disconnect()` has its descriptor and no handlers.  `Telling`, proved beside `Inv`,
says that before the third part the descriptor is gone.  `Owners` gives an open
descriptor one socket, which is what makes a handler in the table the handler of
that socket when numbers are reused.  `Fresh` and `Accepting` say what a socket that
nobody has started looks like.  `Watched` is the part of WatchesAgree that has to
hold while the mutex is held.  `UsedUp` says that once the callback is queued or
called the descriptor is gone and the callback cleared; `Hush` says the same of a
deleted socket.

`CommProofs`, for any number of connections and descriptors and any two timeouts:

- `StatsAreLive`, `EventsAreFresh`, `EpollStaysInSync`, `RepliesMatchRequests`:
  `Spec => []P` for StatsLive, NoStaleEvent, EpollInSync and OneReplyPerRequest.
- `SilentAreClosedInTime`: `Spec => []ClosedInTime`.
- `NoneClosedEarly`: `Spec => NotClosedEarly`, an action property: no timeout comes
  more than one second early.

They rest on `Inv` (first half of the module, with what each handler does to it)
and `Clock`, both also checked with TLC on the instance of `comm`.
`Owned` says that an open descriptor's entry holds its own connection, that it is
registered for exactly one kind of event and that no other descriptor has the
connection; a closed one has an empty entry.  `Counted` follows epoll_fds; its
steps need the cardinality of a set that gains or loses one descriptor
(`Recount`).  `Turn` is what makes the rest of a batch safe: an event still to be
handled is about the connection that has the descriptor now, and says only what
is registered for it, because a handler touches no descriptor but its own and
`accept` takes only closed ones.  For the call of the write handler after the read
handler it says that the descriptor was closed, reset or is now waiting to write.
`Clock` relates four times: the real clock, the cached one (behind by at most the
second spent in epoll_wait), the last check of the timeouts (at most two seconds
before the cached clock) and each deadline (computed from the cached clock, so up
to one second early).  The proof showed that the second lost in the wait and the
second between checks cannot both be lost, so ClosedInTime is stated with the
bound of one second that it gave instead of two.

`FutureProofs`, for any finite set of futures and any threads, of which at most one
builds the barrier:

- `OneSetterWins`, `CallbacksRunOnce`, `BarrierIsNotEarly`: `Spec => []P` for
  OneValue, OnceEach and NeverEarly.
- `ListsAreStable`: `Spec => ListIsStable`, an action property: `set` runs over
  `_callbacks` after it has released the lock, and nobody else changes the list
  while it does.

They rest on two invariants, also checked with TLC.  `Inv` (in `FutureInv`, with
the steps of waiting, of `set` and of `addCallback`) follows each callback from
its registration to its run.  `Held` says that a thread holds a reference to the
future it works on, so that the thread in `~Internal` is alone; `Valued` that a
value belongs to a thread that got through `set`; `Lists` that a list holds only
callbacks of its own future, each once; `Runs` that what may still be run, being
not yet registered, still in the list ahead of the loop of `set`, or an errback
of a future nobody let go, has not been run.  `Counts` (in `FutureProofs`) is
about the barrier: its counter is the number of signals still missing, and a
thread in the loop of `signal` is there because all futures are resolved.

`ReactorProofs`, for any number of slots, descriptors and clients, any timeout and
scan size, and any buffer whose size is a multiple of a byte's range (256 in the
code; `ReAssumption`):

- `ReactorTable`, `ReactorEvents`, `ReactorEchoes`: `Re!Spec => []P` for
  ReTableAgrees, ReEventsFresh and ReEcho.

They rest on `ReInv` and `Echoed`.  `InUse` and `Known` say that slots in use and
registered descriptors belong to each other one to one, so a change of one slot
and its own descriptor disturbs no other (`ReMoved`).  `Fresh` adds to ReEventsFresh
that the events of a batch are about different slots: that is why a callback,
which frees or turns only its own slot, cannot spoil the events still waiting;
and why `acceptconn`, which takes only free slots, gives away none of theirs.
`Echoed` says how much of what was received has been sent back, by the callback
the slot has now.  The operations are stated on one slot with its registration
and its socket, and the lemmas `ReAdd`, `ReDel`, `ReRecv` and `ReSend` say what they
make of it.

Leaves that need no arithmetic name Zenon, because translating them for the SMT
solver takes tlapm far longer than proving them.

Assumptions: only the named ASSUMEs of the component modules, which the runs
evaluate, and for NoOrphan and EpollInSync the one caller.

Only model-checked: all liveness properties (StopReturns, TaskServed,
EventServed, Served, Stops, Respawned, ReAttended, CallbacksServed,
RequestsServed), since fairness is out of the prover's reach; StreamIn, StreamOut
and the size of a buffer, since they need induction over its blocks; the trees,
whose properties are about recursive functions; TableTrue of MasterWorker, whose
loops over the slots are folds and would need induction too; and the safety
properties of UdpPiece, which have no proofs yet.

## 5. What the checks do not say

- NoOrphan fails with two callers: a `start()` during a join of `stop()` may insert
  a handle below the iterator, which is never joined and then cleared with the
  rest of the thread set.  The header does not say whether the two may overlap, so
  this is a hazard, not a finding.
- TaskServed does not bound a task's delay.  Its delays all fit an int; the
  conversion of one that does not is met by EventServed in `em_events`, where the
  worker polls instead of sleeping.
- A `stop()` with handlers attached leaves their registrations in epoll.
  EpollInSync says that nothing else breaks the agreement.
- UdpPiece: under duplication a group can be completed with a hole or with pieces of
  two frames of equal size; BytesInPlace confines this to one frame size. A lost
  second half or a duplicated first half of a split piece makes the server misread
  fields and may make it copy anywhere: BytesInPlace and Recovers speak of the time
  before that and again after a reset (`inStep`).  No frame of the runs is long
  enough to wrap a 16-bit field.
- Comm: a connection accepted during the first `comm_select` gets a deadline from
  a clock of 0 and is closed at once; NotClosedEarly leaves it out.  It allows one
  second, because deadlines are computed from a clock read before the wait.  Handlers
  take no time in the model, which is what the bound of ClosedInTime rests on.
- TcpSocket: StreamOut and StreamIn are about what is handed to the kernel and to
  the callback, not about what the peer gets.  Served lets the connection's end
  cut off what is unsent, and ends with the process when a worker calls the empty
  function (`Alive`).  `onCanSend` would loop on a `send` that returns 0; the
  model has no such result, because `send` of a positive size has none.
- MasterWorker: a failed first spawn leaves `live` at 1 with an empty table, and
  TERM or QUIT then never ends the master; a failed respawn followed by a reload
  leaves two generations.  Stops, Respawned and TableTrue leave out behaviours
  with a failed spawn.  The command is set to CLOSE only before the reaping loop, so
  after a respawn the later dead workers of the same pass are announced with OPEN
  and the respawned worker's channel.  A worker's copy of the table (`view`) is in
  the model, but workers send nothing, so no property depends on it.
- Future: OnceEach is about the callbacks of futures.  One added to a barrier before
  it is resolved runs twice (future.h:378 and 388); no text of the repository says
  how often it should.  Two threads adding to one barrier can lose
  a callback; several errbacks pushed during `clear()` are undefined behaviour;
  `OneAdder` and the one barrier of the model leave both out.
- Reactor: a connection accepted when the table is full is never closed, and the
  rest of a short send is dropped; ReTableAgrees and ReEcho leave these out.
  SIGPIPE and a failing epoll_wait end the service, and ReAttended ends with it.
- SharedMemory: two lines that spell "end" between them stop shm1 early.  shm1
  lowers the flag before its loop and may wipe a line written before it started; if
  that line is "end", shm1 never ends.

## 6. Not modelled

Most of the repository's lines are copies: D-Bus, libevent, picoc, qvfb, protobuf,
the examples of a book (`src/tlpi-book`) and the utilities of Postfix
(`src/util`).  They are other projects' code, so the share of all lines that the
modules cover stays small whatever is modelled of the rest.  Of the
repository's own programs these are left out:

- deletion from the B-tree: it replaces a key by the last key of the child, which
  is the predecessor only in a leaf, and borrows from the left without updating
  the parent's key.  The properties of insertion do not hold of it and the source
  states no others;
- `thread_mutex.c`, which unlocks a mutex it does not hold, and
  `thread_semaphore.c`, whose thread reads the text while the next line is typed;
- Notification and Barrier, which have the waiting pattern of Future;
- `tcp_00`, the message queue, memdev, the binary tree, the one-call demos and the
  blocking clients and servers: one process at a time and no state beyond a call;
- camera, framebuffer, serial port and vendor driver code: ioctl and data
  conversion.

`PROJECT.json` gives the reason for each part and lists the hazards line by line.
