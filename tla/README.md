# A TLA+ model of SRTdatacontroller

This directory holds TLA+ models of the command line tool under
`src/structure/SRTdatacontroller/`, the TLC configurations that check them on
small instances, and proofs, checked by TLAPS, of their main properties. Of the
vendored code in `src/structure/submodule/` one part is modelled from its source:
the global part of the SRT library, on which the tool's interrupt handling, its
exit and its callbacks depend. The rest is third-party code; what the tool sees
of it (a connection as an ordered channel that may break) is marked external.

File names below are relative to `src/structure/SRTdatacontroller/`, those that
begin with `srtcore/` to `src/structure/submodule/srt/`.

## 1. Inventory

| Component | State | Operations | Hard behaviour |
|---|---|---|---|
| `scheduler` (scheduler.hpp) | `tasks_` under `lock_`; `sync_.cv` with `sync_.mtx`; `done_` | `schedule_in`, `schedule_on`, `add_task`; the timer thread; the destructor | three kinds of threads, two mutexes of which each protects half, notifications without the mutex of the condition variable |
| connection loop (misc.cpp) | `listeningSock`, `conn`, `nextReconnect`, the stats writer | `common_run`, `create_connection` | failures at each call, reuse of a socket across attempts, the signal handler |
| SRT socket (srt_socket.cpp) | a handle, two epolls, the mode | constructor, `listen`, `accept`, `connect`, `read`, `write`, destructor | exceptions out of constructors, blocking waits, handles closed by another thread |
| socket group (srt_socket_group.cpp) | a group handle, listener handles, targets by token, a `scheduler` | the same, and the callbacks of the SRT library | callbacks on foreign threads, delayed reconnection of members, destruction |
| forward command (file-forward.cpp) | two nodes, two threads | `run`, `startForwarding`, `forwardMessage` | each thread must end the other; links break under a message |
| SRT node (srt_node.cpp) | bind socket, accepted socket, `m_stop_accept`, epolls | `Connect`, `Listen`, `AcceptConnection`, `Receive`, `Send`, `WaitUndelivered`, `Close` | an accepting thread, polling, a flag from outside |
| application (srtdatacontroller-app.cpp) | `force_break` | command line, signal handler, `srt_startup`, `srt_cleanup` | the handler may run at any moment |
| route command (route.cpp) | two connections, a backward thread | `run`, `route` | two threads on two sockets, either may throw |
| generate and receive commands | counters, a metrics thread | `run_pipe`, `runPipe` | pacing, the metrics thread's stop |
| file transfer (file-send.cpp, file-receive.cpp) | a file on each side, the flags of a segment | `sendFile`, `receiveFiles` | start and end flags, a message that is not sent |
| SRT library, global part (srtcore/api.cpp, with core.cpp, queue.cpp and epoll.cpp) | `m_iInstanceCount`, `m_bGCStatus`, `m_Sockets`, `m_ClosedSockets`, a lock for all of them, one for all epolls and four for each socket | `startup`, `cleanup`, the calls on a socket, the garbage collector, the receiving threads | lock orders, a cleanup inside a signal handler, objects deleted while in use |
| addresses, buffers, stubs, demonstration programs | none of their own | pure functions | none |

**Interaction.** The application runs one command on its main thread.
`generate`, `receive` and others hand a function to `common_run`, which makes a
connection with `create_connection`, calls the function on it and tries again.
A socket object is shared by `listeningSock`, `conn` and the stats writer
through `shared_ptr`s, and its handle is closed with the last of them. A group
owns a `scheduler`, on which it schedules the reconnection of its members.
`route` makes two connections with `create_connection` and joins them.
`file send` and `file receive` make one each, and `forward` uses `SrtNode`s of
its own. The signal handler writes `force_break`
and then calls `srt_cleanup`, which waits for the library's garbage collector.

**What makes the parts correct.** A scheduled task is called once, on time, and
the destructor gets the timer thread to end; attempts to connect are paced;
sockets are let go of when they should be, dead ones above all; forwarded
messages arrive in order and once; threads that depend on each other end
together; a copied file is the file that was sent; a failed member of a group is
connected again, once; the destructor of a group returns, and no callback uses
the group after it; `srt_cleanup` returns and leaves no socket behind; an
interrupt ends the program. The full list of what can go wrong,
line by line, is under `hazards` in `PROJECT.json`.

## 2. Modules

| Module | Models | Composed with |
|---|---|---|
| `TimerService` | what `scheduler` promises, abstractly | refined by `Scheduler` |
| `Scheduler` | scheduler.hpp | |
| `SchedulerProofs` | theorems on `Scheduler` | |
| `Connection` | misc.cpp with the socket life cycle of srt_socket.cpp and srt_socket_group.cpp and the signal handler | |
| `ConnectionProofs` | theorems on `Connection` | |
| `Forward` | file-forward.cpp and srt_node.cpp | |
| `ForwardProofs` | theorems on `Forward` | |
| `FileCopy` | what the two file commands promise together | refined by `FileTransfer` |
| `FileTransfer` | file-send.cpp and file-receive.cpp, joined by an SRT channel | |
| `FileTransferProofs` | theorems on `FileTransfer` | |
| `SrtGroup` | srt_socket_group.cpp, callers and listeners, with what they see of `scheduler`, and `groupConnect` and the threads of the library | |
| `SrtGroupProofs` | theorems on `SrtGroup` | |
| `Route` | route.cpp over `read` and `write` of srt_socket.cpp | |
| `RouteProofs` | theorems on `Route` | |
| `Pipeline` | generate.cpp and receive.cpp, joined by an SRT channel | |
| `PipelineProofs` | theorems on `Pipeline` | |
| `Library` | srtcore/api.cpp as the tool uses it, with the signal handler | |
| `LibraryProofs` | theorems on `Library` | |
| `MC*` | values for the constants | |

Operators whose comment says "Faulty variant" are wrong on purpose: each is a
plausible mistake in one operation, which some property must detect. No
specification uses them.

### Scheduler

`tasks` and `due` are the multimap `tasks_`; `lock` and `mtx` are the owners of
the two mutexes; `timer`, `caller[t]` and `owner` are program counters of the
timer thread, of the call of `schedule_in` for task `t`, and of the
destructor. `batch` and `todo` are the range `begin() .. end_of_tasks_to_run`
and what is left of it. Each lock, each wait and each access to shared state is
a step. `missed` is history: the tasks whose `notify_one` fell in the window
between the timer thread's last look at `tasks_` and its wait.

Abstractions: tasks with equal keys are called in any order (a multimap calls
them in the order of insertion); a read of `tasks_` without `lock_`, a data
race in C++, is an atomic read that may be stale at once; a call of
`schedule_in` still in flight when the object is destroyed is not followed
further.

### Connection

`pc` is the place in `common_run` and `create_connection`. `sock` has the state
of each SRT handle, `listener`, `conn` and `stats` say which `shared_ptr`s refer
to which; `Reap` closes what nobody refers to. A constructor that throws after
`srt_create_socket` leaves an open handle that no destructor will close: it is
put in `orphans`. `until` is the time left to `nextReconnect`, `slept` the time
since `tnow` was read; `age1` and `age2` are history. `intr` is the progress of
the signal handler, whose two steps may come between any two others.

Abstractions: `processingFn` returns or throws, at any time; the connection it
uses is what matters here, not the data. It throws at most once (`threw`): a
second exception adds nothing but another connection held by the stats writer.
One interrupt is enough, as `force_break` is never reset. The test for a null
connection (misc.cpp:125) is left out: `create_connection` never returns null.
The sockets of a group are one handle.

### Forward

`main` is the place in `run` and `startForwarding`, `thread[n]` that of the
thread which receives from node `n`. `link`, `pend` and `snd` stand for the
socket that carries a node's messages, with its receive and send buffers; `held`
is the buffer of `forwardMessage`; `stop` is `m_stop_accept`. `sent` and `got`
are histories.

Abstractions: `src->Close()` and `dst->Close()` are one step, since they set one
flag each and a thread looks at one of them only; `cfg.one_way` is not
represented, since `startForwarding` never reads it; the branch of `Receive` for
an invalid socket is left out, since nobody closes a socket under a running
thread; the listening socket is not represented beyond the success of `Listen`.

### FileTransfer

`sender` and `receiver` are the places in `startFileSender`/`sendFile` and
`startFileReceiver`/`receiveFiles`. The contents of a file are numbered units;
a segment says from which unit on it carries how many, so that a unit in the
wrong place is noticed (`garbled`). `off` and `isStart` are the position of
`ifile` and `hdrSize > 1`; `ofile` and `failed` are the output stream, which
stays failed until the next file is opened. `logs` are the statistics threads,
which end by their flags or because `srt_bstats` fails on a socket that is not
connected any more. `Hdr` is the room of a name; that it is less than a segment
is an assumption.

Abstractions: the names of files are their numbers, and distinct; segments of
both sides have the same size; the receive buffer is not bounded, since
the send buffer is what `write` and the last loop of the sender look at.

### SrtGroup

`main` is the place in `connect()`, in its caller, or in the destructor;
`timer` is the timer thread of `m_scheduler`, inside a task or not (it has
`lock_` when it is); `st` and `cb` are the member sockets and the callback of
each. `jobs` counts the scheduled reconnections of a member. Of `Scheduler` only
two things are seen here: `schedule_in` waits while a task is called, and a
wakeup may be lost (`asleep`). `AddMember` to `ConnectFails` are `groupConnect`
(srtcore/api.cpp:1301), which waits for its members only if the group was empty
before the call; a callback runs on the receiving thread of its socket, sockets
bound to one address share that thread (`shared`), and `srt_close` of a group does
not wait for callbacks.

In a group of listeners (`listens`) `lsn` are the listening sockets, `hook` those
whose callback is running and `prints` the tasks that they have scheduled.
`srt_close` of a listener does wait: it needs `m_LSLock`
(srtcore/queue.cpp:1702), which the receiving thread has while it calls
`listen_callback_fn` (srtcore/queue.cpp:1407). That is what `CloseListener` says
by `m \notin hook`, and why the comment "this group may no longer exist" does
not come true for listeners, while it may for callers.

`member` in `on_connect_callback` points to a variable of a loop that has
ended. What the scheduled task gets is then the target or something that cannot
be connected: `Schedule` chooses.

Abstractions: addresses and weights are data; the delay of a second is left out,
so a task may be called at any later time; a member has at most `Socks`
sockets at a time; a task of `print_member_socket` beyond `MaxPrints` is not
counted, since it only reads. The accepted group that `accept()` returns is an
object of its own without callbacks.

### Route

`pc[d]` is the place in each call of `route()`, `run` that in `run()`. A
connection has a receive buffer `in` and a bounded send buffer `out`. In
non-blocking mode `write` waits for readiness to read or to write, and gives the
message up when there is something to read and no room (`WriteDrops`). Making
the connections is `create_connection`, in `Connection`; both are SRT.

### Pipeline

`gen` and `recv` are the places in `run_pipe` and `runPipe`, `metrics` that in
`metricsWritingLoop`; `cfg` has the options that make a difference
(`cfg.two_way` of `generate` makes none: nothing reads it). All four buffers of
the connection are bounded and the network is reliable, so a message stays where
it is until there is room for it. The pacer waits at most for its time and is
not represented; `--lossrate` and `--duration` may strike at any turn.

### Library

`main` is the main thread inside a call of the library, and `at` the socket it
has a pointer to; `worker` is a receiving thread, `gc` the garbage collector with
the socket `gcAt` that it is closing, `handler` the handler of `SIGINT`. `loc`
says in which map a socket is, `status`, `core` and `broken` are its `m_Status`,
its CUDT's `m_bOpened`/`m_bClosing` and `m_bBroken`, `parent` the listener that
it came from (`m_ListenSocket`), and `queued` are the connections in the
`m_QueuedSockets` of their listener. `count`, `running` and `stopping` are
`m_iInstanceCount`, `m_bGCStatus` and `m_bClosing`; `extra` counts the calls of
`srt_startup` by `SrtNode`s, which nobody undoes, and `doomed` the sockets that
existed when the handler began.

The locks, and the calls of the main thread that have them:

| Variable | Lock | Main thread | Collector |
|---|---|---|---|
| `glob` | `m_GlobControlLock` | looks up or makes a socket | throughout, but not while it closes a socket in `removeSocket` |
| `epoll` | `m_EPollLock` | polls, adds to an epoll, closes | `closeInternal` (srtcore/core.cpp:6255) |
| `conn[s]` | `m_ConnectionLock` | options, bind, listen, connect, close | `closeInternal` (6301) |
| `snd[s]` | `m_SendLock` | options, send, close | `closeInternal` (6345) |
| `rcv[s]` | `m_RecvLock` | options, receive in either mode, close | `releaseSynch`, `closeInternal` (7811, 6346) |
| `acc[s]` | `m_AcceptLock` | accept, close of a listener | the queue of a listener (srtcore/api.cpp:2661, 2750, 3341) |

`m_LSLock` is with the worker while it serves a listener, and `m_InitLock` with
whoever starts or cleans up. Locks that are left out: `m_ListLock` of the send
queue is taken by a closing call next to `m_EPollLock`, and the model treats it
as that one; `m_RcvBufferLock`, `m_SendBlockLock`, `m_RIDListLock` and the lock of
the cache are taken by the main thread inside the scope of a lock of the socket
that is in the model, for which the collector waits first; `m_ControlLock` and
`m_IDLock` are not taken by the collector; the event of the epolls
(`CGlobEvent`) is signalled without a lock. The mutexes of the memory allocator
and of the logger are outside of the model.

The handler runs on top of the main thread, which then stands still (`onMain`,
a signal on Linux), or beside it (a console handler on Windows, or a command
whose main thread only waits for others).

Abstractions: one worker; handshakes fail or succeed; a socket closed for more
than a second is in nobody's hands any more (`RemoveSocket`), the assumption that
the library itself makes, except at the exit, where it does not wait
(srtcore/api.cpp:3343) and a call may go on with freed memory (`main = "wild"`).
A condition variable that is waited on cannot be destroyed (as in glibc). The
forward command makes both its nodes, and so calls `srt_startup` twice, before it
does anything else (`Idle`; file-forward.cpp:78). A non-blocking socket in file
mode whose data is not yet sent is closed at once (the early return at
srtcore/core.cpp:6227 leaves it to the collector, which needs the same locks). A
non-blocking connection that is refused stays as it is until it is closed.
Groups are in `SrtGroup`.

## 3. Runs

| Run | Instance | Shows |
|---|---|---|
| `scheduler` | 2 tasks, delays and clock up to 2 | the range that `manage_tasks` walks is not disturbed; the destructor's wakeup is not lost, that of `add_task` in one window only; `Scheduler` implements `TimerService`; every task is called unless its wakeup was lost; the destructor returns |
| `connection` | 3 handles, a period of 3 ticks, all kinds of URLs and flags | attempts are paced; `close_listener` is respected; the stats writer lets go of connections; a dead socket does not stay in `listeningSock`; an interrupt ends the loop but for two named waits |
| `connection_interrupt` | a listener that reconnects | one of them: violated |
| `forward` | 2 messages each way, a send buffer of 1 | nothing is duplicated, overtaken or lost in the middle; threads end together; an interrupt ends the command unless both links are idle |
| `file` | 2 files of up to 3 units, 1 unit in a first segment and 2 in others | a transfer that ends well is complete but for empty files; `FileTransfer` implements `FileCopy`: no unit in the wrong place, one file after the other; both programs end |
| `file_folder` | 2 files of up to 2 units | that every file arrives: violated |
| `group_safety` | 2 members, 2 calls of `connect()`, 2 sockets for each, 2 scheduled prints | connections do not multiply; the callback of a caller uses a destroyed group only if it was running when the group was closed, that of a listener never; a blocking `connect()` returns without a connected member only if it was repeated |
| `group_live` | 2 members, 1 call | `lock_` is given back; failed members are tried again, but for the named cases; the destructor returns |
| `route` | 3 messages each way, send buffers of 1 | every message is in its place or was given up by `write`; the command ends after a failure unless the destination is silent, and after an interrupt once the handler is back |
| `route_interrupt` | 1 message each way | that an interrupt is handled: violated without `--bidir` |
| `pipeline` | 6 messages, buffers of 1, replies or a duration | the validator gets the numbers in order, with gaps only where `write` gave up; two blocking writes that wait for each other do so until a socket is closed; both end unless they do |
| `library` | 2 sockets, both modes, a handler on the main thread or beside it, up to 2 `SrtNode`s | `srt_cleanup` in the handler returns but for three named cases, and two of them last for ever; when it has joined the collector no earlier socket is left, and when it returned early (srtcore/api.cpp:287) some may be, by an `SrtNode`, until the exit; a collector is left running at the exit only after two unbalanced `srt_startup`s |

Every passing run also checks a type invariant.

**Bounds.** With two tasks one is called while the other is added, and keys 0 to
4 give equal, earlier and later keys. Three handles allow a listener, a
connection and a third that is an orphan or still held by the stats writer; with
a fourth only more of the same. A period of three ticks separates "at once",
"within the period" and "after it". With two messages and room for one in the
send buffer, one message waits while another is in front of it. Files of 0 to 3
units are empty, end within a segment, or end exactly with the first or the
second one. A member with two sockets has an old one, whose callback is still
running, beside its new one. Six messages are what the mutual wait in `Pipeline`
takes: three replies fill two buffers and one pair of hands, and three messages
do so on the other way. With two sockets a listener has a connection in its
queue or in use, or one socket is connecting while another is closed; a handler,
a collector, a worker and a main thread already meet over one. For the safety
properties the proofs remove all of these bounds (section 4).

**Fairness.** Threads are scheduled, mutexes are handed on and the clock
advances. `srt_connect` has a timeout, so an attempt to connect ends;
`accept()` has none, so nobody has to come, but it fails on a closed socket. A
function that works on a connection ends when `force_break` is set and its
socket is closed; a UDP socket is not reached by `srt_cleanup`, and nothing is
assumed of it. In `Forward` and `Route` a peer takes what is sent to it, or a
blocking send could wait for ever; no peer has to send or to leave. In
`FileTransfer` and `Pipeline` both ends are programs of this repository, and only
the network is assumed: it brings what was sent, or the news that the other end
has closed. A mutex that is free again and again is taken in the end: strong
fairness for `schedule_in` in `SrtGroup` and for the check of a message in
`Pipeline`. Tasks are called in the order of their times, so each member's is
called in the end (strong fairness of `JobStart`). No link has to break, and
nobody has to call `connect()` again.

That the signal handler returns is not assumed: `Library` shows that it may not.
Where a property of another module speaks of the time after an interrupt, it
starts when the handler is back (`intr = "clean"`), or has the handlers' return
as a premise (`HandlersReturn`). In `Library` a call that waits on a socket ends
when the socket is closed or broken, and scopes of locks end (weak fairness of
`Proceeds`); handshakes end by their timeout (`WorkerEnds`), and the collector
gets a lock that is free again and again (strong fairness of `Exits` and of the
removal of sockets); a wait on a socket that is up, a wait in `srt_accept` and
polling may last for ever, and nobody has to begin a call. `ToolStops`, the
premise of `CleanupReturns`, is what `force_break` is for: after it the tool makes
only finitely many sockets.

**Deadlock** is not checked: every command returns, and a scheduler may have
nothing to do. That threads do not wait for each other is stated as liveness.

**Findings.** Three claims of the repository do not hold; each has a run whose
counterexample shows how, and an entry under `findings` in `PROJECT.json`. Two
are about `--handle-sigint`: a listener between two attempts does not end, and
without `--bidir` an interrupt ends `route` by an exception that nobody catches.
The third: an empty file is reported as sent and does not arrive.

**Weaknesses that properties name.** Some properties hold only with an exception,
which is then part of their statement: `add_task` can lose a wakeup
(`SleepsOnlyIfMissed`); a reconnection in a blocking group can wait for a
handshake on a thread that waits for `lock_` (`Entangled`); a callback of the
library can use a destroyed group (`DanglingOnlyIfOverlap`); a repeated blocking
`connect()` does not wait (`LinklessOnlyIfRepeated`; a comment at
srtcore/api.cpp:1625 says that it should); a `forward` command with silent peers
does not end on Ctrl+C (`InterruptStopsUnlessIdle`); `write` in non-blocking mode
can give a message up when there is something to read (`Accounted`,
`GapsAreDrops`);
a generator and a receiver that replies, both blocking, can wait for each other
(`MutualWait`). The handler can hang in `srt_cleanup` (`CleanupReturns`): because
the main thread, on top of which it runs, has a lock that the collector needs,
each of those in the table above, or `m_InitLock`, or waits on a condition of a
socket (`Frozen`); because the collector closes sockets with
`m_GlobControlLock` held, against the order that the comment at
srtcore/api.cpp:2793 gives, while the owner of `m_ConnectionLock` or `m_LSLock`
waits for it (`CrossWait`); or because nobody wakes a thread out of `srt_accept`
when the collector closes its listener (`NotTold`). And at the exit closed sockets
are deleted at once, where the comment at srtcore/api.cpp:135 promises a second.
Flags that have no effect, `--oneway` of `forward` and
`--twoway` of `generate`, are left out of the models as they are in the code.

## 4. Proofs

`SchedulerProofs`, for every set of tasks and every delay:

- `TypeCorrect`, `BatchSafe`, `DtorWakeupSafe`, `WakeupLostOnlyInWindow`: the
  invariants of the run `scheduler`. They are proved together through `IInv`,
  which adds who holds which mutex at which place (`LockInv`, `MtxInv`), that
  `done_` is set exactly from the destructor on (`DoneInv`), which tasks are in
  `tasks_` and which were called (`TasksInv`), and that a thread which has
  decided to wait knows of every task it should know of (`WindowInv`). Without
  `MtxInv` the destructor could notify between the predicate and the wait;
  without `WindowInv` nothing is known when the wait begins.
- `Refinement`: `Scheduler` implements `TimerService`. `ServiceStep` maps each
  step to a step of the service or to a stutter, given `IInv`; `TasksInv` is
  what rules out calling a task twice.

`ConnectionProofs`, for any handles, command lines and period:

- `TypeCorrect`, `ListenerClosed`, `StatsReleased`, `Paced`: the safety
  properties of the run `connection`. `IInv` adds `PaceInv` (the attempt before the last
  began at least a period before `nextReconnect`), `OwnInv` (a handle exists
  while somebody refers to it, and only `listeningSock` listens) and
  `PointerInv` (which pointers are set at which place).

`LibraryProofs`, for any number of sockets and a backlog of any length:

- `TypeCorrect`, `CleanupIsComplete`, `CollectorIsJoined`. `TypeOK` has the
  scopes of the locks in it, and is proved in two halves (`Types`, `Scopes`).
  `CleanupIsComplete` speaks of both ways in which the handler's `srt_cleanup`
  returns: when it joined the collector every socket of before the interrupt is
  deleted; when it returned early, as in every session of `forward`, they are
  deleted by the cleanups at the exit unless there were more than two nodes.
  `IInv` adds at which places the main thread
  has a pointer to which socket (`UseInv`), what the map that a socket is in says
  about its state (`SockInv`), that queued connections are open and their listener
  is there (`QueueInv`), who told the collector to stop and waits for it
  (`RunInv`), how many calls of `srt_startup` are not undone (`CountInv`), and by
  which way the sockets of before the interrupt go (`DoomInv`): the collector
  ends only when the last of them was deleted.
- `HangIsForGood`: no step leads out of `CrossWait \/ Frozen`. `FrozenInv` is for
  this one: under a handler that runs on top of it, the main thread uses a socket
  of before the interrupt, so the collector will come to it.

`SrtGroupProofs`, for any number of members, sockets and calls:

- `TypeCorrect`, `NoConnectionTooMany`, `DanglingNeedsOverlap`. `LinksBounded` is
  not inductive, since `connect()` counts itself before it adds its members one
  by one: `LinksInv` has the member's share of the running call besides.
  `CallbackInv` says that a callback runs for a failed socket only, and so that
  scheduling a reconnection replaces a connection and does not add one.
  `CloseInv` says that a callback which runs after the group was closed has been
  running then, `ModeInv` that a listener's callback keeps the listener open.
- `FirstConnectWaits`, an action property, from `FirstInv`: the group of a first
  `connect()` is empty, so that `groupConnect` does wait.

`ForwardProofs`, `RouteProofs` and `PipelineProofs`, for any number of messages and
any size of the buffers. Each follows the concatenation of the buffers on a way,
and the lemmas on sequences say what moving a message from one buffer to the next
does to it (nothing), what a new one does (it comes last) and what a message
given up does (the others stay in order):

- `TypeCorrect` and `NothingOvertakes` of `Forward`; `StageInv` says when a thread
  has a message in its hands.
- `TypeCorrect` and `OnlyWriteDrops` of `Route`. `HeldInv` says when `route()` has a
  message in its buffer, `AccountInv` adds that only messages that were sent were
  dropped, so that the next number is a new one, and
  `StaysUp` that a connection that is up has always been.
- `TypeCorrect`, `OnlyDropsAreMissing` and `WaitIsForGood` of `Pipeline`: nothing but
  the loss of a socket ends `MutualWait`, which needs the bounds of the buffers.
  `GapsAreDrops` says nothing of the numbers after the last one written; `GapInv`
  does, and includes the message that was read and not yet validated.

`FileTransferProofs`, for any number of files, any lengths, and any sizes of a
segment, of a name in it and of the send buffer:

- `TypeCorrect`, `CompleteAtEnd`, and `Refinement`: `FileTransfer` implements
  `FileCopy`. All three rest on the segments on the way (`Way`): their flags tell
  the truth, each goes on where the one before it ends, skipping files without
  contents only, and `sendFile` goes on where the last one ends (`WayInv`). The
  receiver has stored, or spoiled, everything before the first of them, and its
  stream has the right file open (`RecvInv`). `SendInv` says that `sendFile`
  returns true only at the end of a file, unless interrupted. The type of `copy`
  already needs all of it: that a copy does not grow beyond its file is a fact
  about the whole transfer. `StoredAt` and `Passed` move the receiver past a
  segment and past empty files; `CopyStep` maps a stored segment to `Begin` or
  `Extend`, with `GiveUp` if it was stored in part, and all else to a stutter.

The only assumptions are those on the constants (`SchedulerAssumption`,
`ConnectionAssumption`, and so on, one in each module), which TLC evaluates in
the runs. Each `IInv` was checked as an invariant by TLC before it was proved, on
the instance of the module's run; that of `FileTransfer` also with three files,
so that an empty one can lie between two others.

With these every invariant, every action property and both refinements that the
passing runs check are proved. Only model-checked are the liveness properties
(`TaskRuns`, `DtorReturns`, `DeadListenerDropped`, `InterruptStopsUnlessLate`,
`ThreadsStopTogether`, `InterruptStopsUnlessIdle`, `BothEnd`, `LockReturned`,
`MemberRetried`, `DestructorEnds`, `RouteEnds`, `PipelineEnds`,
`CleanupReturns`), since liveness under fairness is beyond the prover, and the
counterexamples, which are single behaviours.

## 5. Not modelled

The parsing of the command line and of URLs, socket options, statistics and log
lines are data or text. Addresses and buffers are pure data types, `ionode.hpp`
and `acceptor.hpp` are not used by any command, and the demonstration client and
server (`src/client`, `src/server`) are short sequential programs around one
socket, without state that outlives a call.

By far the largest part of the repository is vendored: the SRT library's
transport (packets, acknowledgement, congestion control, encryption, error
correction, epoll, groups' sending and receiving), its applications and tests, and
the JSON, logging and command-line libraries. The tool uses the latter three as
pure functions. The transport is a protocol of its own with its own tests; the
models take from it what its interface promises, and only where the tool's
correctness depends on its inside (startup and cleanup, the life of a socket, the
locks, the callbacks, `srt_connect_group`) is it modelled from its source. For
that reason the models cover nearly all of the tool's own code with control flow
and a small share of all lines in the repository.

## 6. Plan

Done: `Scheduler`, `Connection`, `Forward`, `FileTransfer`, `SrtGroup`, `Route`,
`Pipeline` and `Library`, and the proofs of their safety properties and of both
refinements. Left, in this order:

1. Proofs of the safety half of the liveness arguments: what keeps a thread
   that waits from being forgotten, as an invariant (in `Forward`, that a session
   never goes on in one direction once `Close` was called; in `Pipeline`, that a
   metrics thread which has seen its flag holds no mutex).
2. `SrtGroup` on top of `TimerService` in the place of its own view of the
   scheduler.
3. `route` with a UDP end, which an interrupt does not close.
