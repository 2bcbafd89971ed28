------------------------------ MODULE SrtGroup ------------------------------
(***************************************************************************)
(* A group of callers (srt_socket_group.cpp): connect(), the callback by   *)
(* which the SRT library reports a member that failed, the reconnection of *)
(* that member by a task of m_scheduler, and the destructor.  And a group  *)
(* of listeners: listen(), accept(), the callback for a new member and the *)
(* task that it schedules.                                                 *)
(*                                                                         *)
(* Three kinds of threads take part: the main thread, the timer thread of  *)
(* m_scheduler, which holds its lock_ while it calls a task, and the       *)
(* library's receiving threads, which run the handshakes of the sockets    *)
(* and the callbacks.  Sockets that are bound to the same address share    *)
(* one of these.                                                           *)
(***************************************************************************)
EXTENDS Integers, FiniteSets

CONSTANTS N,            \* the number of targets
          Modes,        \* the values of m_blocking_mode
          MaxConnects,  \* bound: calls of connect() on the same group
          Socks,        \* bound: the sockets of a member at a time
          MaxPrints     \* bound: scheduled calls of print_member_socket

ASSUME SrtGroupAssumption == /\ N \in Nat \ {0}
                             /\ Modes \subseteq BOOLEAN
                             /\ MaxConnects \in Nat \ {0}
                             /\ Socks \in Nat \ {0}
                             /\ MaxPrints \in Nat

Member == 1 .. N

\* Member sockets.
Slot == Member \X (1 .. Socks)
NoSlot == <<0, 0>>

VARIABLES
  listens,   \* m_mode is LISTENER
  blocking,  \* m_blocking_mode
  shared,    \* the targets are bound to one address, and share a thread
  main,      \* the main thread, in connect(), its caller or the destructor
  next,      \* the target that srt_connect_group is at
  mblock,    \* block_new_opened of the main thread's srt_connect_group
  spawned,   \* the sockets that it has started
  connects,  \* calls of connect() so far
  token,     \* the targets in m_targets that have a token
  timer,     \* the timer thread: "idle", "add", "wait", "print"
  job,       \* the member that its task connects
  tblock,    \* block_new_opened of its srt_connect_group
  waits,     \* the socket that it waits for
  st,        \* each socket: "free", "pending", "up", "broken", "removed"
  cb,        \* the callback for it: "none", "hook", "found"
  jobs,      \* the scheduled reconnections of each member
  lsn,       \* each of m_listeners: "bound", "listening", "closed"
  hook,      \* the listeners whose callback is running
  prints,    \* the scheduled calls of print_member_socket
  asleep,    \* the wakeup of the timer thread was lost
  lost,      \* history: members whose connection was given up
  overlap,   \* history: a callback was running when the group was closed
  dangling   \* history: a callback used the object after its destruction

vars == <<listens, blocking, shared, main, next, mblock, spawned, connects,
          token, timer, job, tblock, waits, st, cb, jobs, lsn, hook, prints,
          asleep, lost, overlap, dangling>>

mainVars  == <<main, next, mblock, spawned, connects, token>>
timerVars == <<timer, job, tblock, waits>>
linkVars  == <<st, cb>>
modeVars  == <<listens, blocking, shared>>
lsnVars   == <<lsn, hook, prints>>
histVars  == <<lost, overlap, dangling>>

InGroup(s) == st[s] \in {"pending", "up", "broken"}

\* CUDTGroup::m_bOpened: set with the first member, reset with the last.
opened == \E s \in Slot : InGroup(s)

\* The socket that the library makes for member m.
NewSocket(s, m) == /\ s[1] = m
                   /\ st[s] = "free"
                   /\ \A k \in 1 .. s[2] - 1 : st[<<m, k>>] # "free"

\* The receiving thread of a socket, when it is not inside a callback.
WorkerFree(s) == \A t \in Slot : (shared \/ t = s) => cb[t] = "none"

\* Removed from the group; the socket goes when its callback has returned.
Removed(s) == IF cb[s] = "none" THEN "free" ELSE "removed"

Init == /\ listens \in BOOLEAN
        /\ blocking \in Modes /\ shared \in BOOLEAN
        /\ main = "idle" /\ next = 1 /\ mblock = FALSE /\ spawned = {}
        /\ connects = 0 /\ token = {}
        /\ timer = "idle" /\ job = 1 /\ tblock = FALSE /\ waits = NoSlot
        /\ st = [s \in Slot |-> "free"]
        /\ cb = [s \in Slot |-> "none"]
        /\ jobs = [m \in Member |-> 0]
        /\ lsn = [m \in Member |-> "bound"] /\ hook = {} /\ prints = 0
        /\ asleep = FALSE
        /\ lost = {} /\ overlap = FALSE /\ dangling = FALSE

-----------------------------------------------------------------------------
(* connect(), called again by common_run when it fails. *)

Connect ==
  /\ main = "idle" /\ ~listens
  /\ connects < MaxConnects
  /\ connects' = connects + 1
  /\ main' = "adding" /\ next' = 1 /\ spawned' = {}
  /\ mblock' = (blocking /\ ~opened)
  /\ UNCHANGED <<modeVars, lsnVars, token, timerVars, linkVars, jobs, asleep,
                 histVars>>

\* Faulty variant: srt_connect for each target, which sets no token.
AddMemberNoToken(s) ==
  /\ main = "adding" /\ next <= N
  /\ NewSocket(s, next)
  /\ st' = [st EXCEPT ![s] = "pending"]
  /\ spawned' = spawned \cup {s}
  /\ lost' = lost \ {next}
  /\ next' = next + 1
  /\ UNCHANGED <<modeVars, lsnVars, main, mblock, connects, token, timerVars,
                 cb, jobs, asleep, overlap, dangling>>

\* srt_connect_group starts to connect one target, under a new socket.
AddMember(s) ==
  /\ main = "adding" /\ next <= N
  /\ NewSocket(s, next)
  /\ token' = token \cup {next}
  /\ st' = [st EXCEPT ![s] = "pending"]
  /\ spawned' = spawned \cup {s}
  /\ lost' = lost \ {next}
  /\ next' = next + 1
  /\ UNCHANGED <<modeVars, lsnVars, main, mblock, connects, timerVars, cb,
                 jobs, asleep, overlap, dangling>>

\* It has failed already when its status is read: it is not waited for.
AddMemberBreaks(s) ==
  /\ main = "adding" /\ next <= N
  /\ NewSocket(s, next)
  /\ WorkerFree(s)
  /\ token' = token \cup {next}
  /\ st' = [st EXCEPT ![s] = "broken"]
  /\ cb' = [cb EXCEPT ![s] = "hook"]
  /\ lost' = lost \ {next}
  /\ next' = next + 1
  /\ UNCHANGED <<modeVars, lsnVars, main, mblock, spawned, connects, timerVars,
                 jobs, asleep, overlap, dangling>>

\* Faulty variant: the array of targets is taken to be one longer.
AddMemberBeyond ==
  /\ main = "adding" /\ next <= N + 1
  /\ token' = token \cup {next}
  /\ lost' = lost \cup {next}
  /\ next' = next + 1
  /\ UNCHANGED <<modeVars, lsnVars, main, mblock, spawned, connects, timerVars,
                 linkVars, jobs, asleep, overlap, dangling>>

\* It fails at once: there is no callback for that.
AddMemberFails ==
  /\ main = "adding" /\ next <= N
  /\ token' = token \cup {next}
  /\ lost' = lost \cup {next}
  /\ next' = next + 1
  /\ UNCHANGED <<modeVars, lsnVars, main, mblock, spawned, connects, timerVars,
                 linkVars, jobs, asleep, overlap, dangling>>

\* Faulty variant: connect() does not wait for the group.
AllAddedReturns ==
  /\ main = "adding" /\ next > N
  /\ main' = IF spawned = {} THEN "idle" ELSE "connected"
  /\ next' = 1 /\ mblock' = FALSE
  /\ spawned' = {}
  /\ UNCHANGED <<modeVars, lsnVars, connects, token, timerVars, linkVars, jobs,
                 asleep, histVars>>

\* All targets are through: the call fails when none was started, waits when
\* the group was empty and is a blocking one, and returns otherwise.
AllAdded ==
  /\ main = "adding" /\ next > N
  /\ main' = IF spawned = {} THEN "idle"
             ELSE IF mblock THEN "waiting" ELSE "connected"
  /\ next' = 1 /\ mblock' = FALSE
  /\ spawned' = IF mblock THEN spawned ELSE {}
  /\ UNCHANGED <<modeVars, lsnVars, connects, token, timerVars, linkVars, jobs,
                 asleep, histVars>>

ConnectReturns ==
  /\ main = "waiting"
  /\ \E s \in spawned : st[s] = "up"
  /\ main' = "connected"
  /\ spawned' = {}
  /\ UNCHANGED <<modeVars, lsnVars, next, mblock, connects, token, timerVars,
                 linkVars, jobs, asleep, histVars>>

\* Every socket has failed: they are closed and connect() throws.  The group
\* stays in listeningSock.
ConnectFails ==
  /\ main = "waiting"
  /\ \A s \in spawned : st[s] \notin {"pending", "up"}
  /\ st' = [s \in Slot |-> IF s \in spawned /\ st[s] = "broken"
                             THEN Removed(s) ELSE st[s]]
  /\ main' = "idle"
  /\ spawned' = {}
  /\ UNCHANGED <<modeVars, lsnVars, next, mblock, connects, token, timerVars,
                 cb, jobs, asleep, histVars>>

-----------------------------------------------------------------------------
(* The SRT library: handshakes, broken links and their callbacks. *)

LinkUp(s) ==
  /\ st[s] = "pending"
  /\ WorkerFree(s)
  /\ st' = [st EXCEPT ![s] = "up"]
  /\ UNCHANGED <<modeVars, lsnVars, mainVars, timerVars, cb, jobs, asleep,
                 histVars>>

\* A handshake is refused or times out, or a link breaks: the waiting threads
\* are told, then connect_callback_fn is called.
LinkBreaks(s) ==
  /\ st[s] \in {"pending", "up"}
  /\ WorkerFree(s)
  /\ st' = [st EXCEPT ![s] = "broken"]
  /\ cb' = [cb EXCEPT ![s] = "hook"]
  /\ UNCHANGED <<modeVars, lsnVars, mainVars, timerVars, jobs, asleep,
                 histVars>>

\* The garbage collector takes a broken socket out of the group, or the group
\* does when it is used.
RemoveBroken(s) ==
  /\ st[s] = "broken"
  /\ st' = [st EXCEPT ![s] = Removed(s)]
  /\ UNCHANGED <<modeVars, lsnVars, mainVars, timerVars, cb, jobs, asleep,
                 histVars>>

\* What is left of the callback when it returns.
Return(s) == /\ cb' = [cb EXCEPT ![s] = "none"]
             /\ st' = [st EXCEPT ![s] = IF @ = "removed" THEN "free" ELSE @]

targetsKept == main \notin {"close", "join", "gone"}

\* on_connect_callback looks for the token in m_targets.
FindTarget(s) ==
  /\ cb[s] = "hook"
  /\ dangling' = (dangling \/ main = "gone")
  /\ IF targetsKept /\ s[1] \in token
       THEN cb' = [cb EXCEPT ![s] = "found"] /\ UNCHANGED st
       ELSE Return(s)
  /\ UNCHANGED <<modeVars, lsnVars, mainVars, timerVars, jobs, asleep,
                 lost, overlap>>

\* A notification that comes before the timer thread waits is lost.
MayOversleep ==
  IF timer = "idle" /\ (asleep \/ (prints = 0 /\ \A m \in Member : jobs[m] = 0))
    THEN BOOLEAN ELSE {FALSE}

\* Faulty variant: every copy of the target in m_targets is scheduled.
ScheduleTwice(s) ==
  /\ cb[s] = "found"
  /\ timer = "idle"
  /\ jobs' = [jobs EXCEPT ![s[1]] = @ + 2]
  /\ asleep' \in MayOversleep
  /\ dangling' = (dangling \/ main = "gone")
  /\ Return(s)
  /\ UNCHANGED <<modeVars, lsnVars, mainVars, timerVars, lost, overlap>>

\* schedule_in waits for lock_.  *member is read after the loop whose variable
\* it points to: the task gets the target, or something that cannot be
\* connected.
Schedule(s) ==
  /\ cb[s] = "found"
  /\ timer = "idle"
  /\ \/ jobs' = [jobs EXCEPT ![s[1]] = @ + 1] /\ UNCHANGED lost
     \/ lost' = lost \cup {s[1]} /\ UNCHANGED jobs
  /\ asleep' \in MayOversleep
  /\ dangling' = (dangling \/ main = "gone")
  /\ Return(s)
  /\ UNCHANGED <<modeVars, lsnVars, mainVars, timerVars, overlap>>

-----------------------------------------------------------------------------
(* The timer thread: connfn, called with lock_ held. *)

JobStart(m) ==
  /\ timer = "idle"
  /\ main # "gone"
  /\ jobs[m] > 0
  /\ ~asleep
  /\ jobs' = [jobs EXCEPT ![m] = @ - 1]
  /\ timer' = "add" /\ job' = m
  /\ tblock' = (blocking /\ ~opened)
  /\ UNCHANGED <<modeVars, lsnVars, mainVars, waits, linkVars, asleep,
                 histVars>>

\* srt_connect_group for one target; it waits if the group was empty.
JobAdd(s) ==
  /\ timer = "add"
  /\ main \notin {"join", "gone"}
  /\ NewSocket(s, job)
  /\ st' = [st EXCEPT ![s] = "pending"]
  /\ lost' = lost \ {job}
  /\ timer' = IF tblock THEN "wait" ELSE "idle"
  /\ waits' = IF tblock THEN s ELSE NoSlot
  /\ job' = 1 /\ tblock' = FALSE
  /\ UNCHANGED <<modeVars, lsnVars, mainVars, cb, jobs, asleep, overlap,
                 dangling>>

\* It fails at once, as it always does when the group is closed.
JobFails ==
  /\ timer = "add"
  /\ lost' = lost \cup {job}
  /\ timer' = "idle" /\ job' = 1 /\ tblock' = FALSE
  /\ UNCHANGED <<modeVars, lsnVars, mainVars, waits, linkVars, jobs, asleep,
                 overlap, dangling>>

\* Faulty variant: connfn does not return before the member is connected.
JobInsists ==
  /\ timer = "wait"
  /\ st[waits] = "up"
  /\ timer' = "idle" /\ waits' = NoSlot
  /\ UNCHANGED <<modeVars, lsnVars, mainVars, job, tblock, linkVars, jobs,
                 asleep, histVars>>

\* The socket is connected, or has failed and is closed.
JobReturns ==
  /\ timer = "wait"
  /\ st[waits] # "pending"
  /\ st' = [st EXCEPT ![waits] = IF @ = "broken" THEN Removed(waits) ELSE @]
  /\ timer' = "idle" /\ waits' = NoSlot
  /\ UNCHANGED <<modeVars, lsnVars, mainVars, job, tblock, cb, jobs, asleep,
                 histVars>>

-----------------------------------------------------------------------------
(* A group of listeners: listen(), accept() and listen_callback_fn. *)

\* The callbacks are set, then srt_listen is called on one after the other; it
\* may fail, and listen() may be called again on the same group.
Listen ==
  /\ main \in {"idle", "connected"} /\ listens
  /\ \E n \in 0 .. N :
       /\ lsn' = [m \in Member |-> IF m <= n THEN "listening" ELSE lsn[m]]
       /\ main' = IF n = N THEN "listening" ELSE "idle"
  /\ UNCHANGED <<modeVars, next, mblock, spawned, connects, token, timerVars,
                 linkVars, jobs, hook, prints, asleep, histVars>>

\* accept() makes another object of the accepted group, or throws; the
\* listeners go on listening for more members.
AcceptEnds ==
  /\ main = "listening"
  /\ main' \in {"connected", "idle"}
  /\ UNCHANGED <<modeVars, lsnVars, next, mblock, spawned, connects, token,
                 timerVars, linkVars, jobs, asleep, histVars>>

\* The receiving thread of a listener has m_LSLock and calls
\* listen_callback_fn for a new connection.
NewMember(m) ==
  /\ lsn[m] = "listening"
  /\ m \notin hook
  /\ hook' = hook \cup {m}
  /\ UNCHANGED <<modeVars, mainVars, timerVars, linkVars, jobs, lsn, prints,
                 asleep, histVars>>

\* on_listen_callback schedules print_member_socket: it waits for lock_.
SchedulePrint(m) ==
  /\ m \in hook
  /\ timer = "idle"
  /\ dangling' = (dangling \/ main = "gone")
  /\ hook' = hook \ {m}
  /\ prints' = IF prints < MaxPrints THEN prints + 1 ELSE prints
  /\ asleep' \in MayOversleep
  /\ UNCHANGED <<modeVars, mainVars, timerVars, linkVars, jobs, lsn, lost,
                 overlap>>

\* print_member_socket, called with lock_ held.
PrintStart ==
  /\ timer = "idle"
  /\ main # "gone"
  /\ prints > 0
  /\ ~asleep
  /\ prints' = prints - 1
  /\ timer' = "print"
  /\ UNCHANGED <<modeVars, mainVars, job, tblock, waits, linkVars, jobs, lsn,
                 hook, asleep, histVars>>

\* Faulty variant: the task waits for the callback that has scheduled it.
PrintEndWaits ==
  /\ timer = "print"
  /\ hook = {}
  /\ timer' = "idle"
  /\ UNCHANGED <<modeVars, lsnVars, mainVars, job, tblock, waits, linkVars, jobs,
                 asleep, histVars>>

PrintEnd ==
  /\ timer = "print"
  /\ timer' = "idle"
  /\ UNCHANGED <<modeVars, lsnVars, mainVars, job, tblock, waits, linkVars, jobs,
                 asleep, histVars>>

-----------------------------------------------------------------------------
(* The destructor: its body, then that of m_scheduler. *)

\* The connection ended or there is no other attempt; release_targets.
Destroy ==
  /\ main \in {"idle", "connected"}
  /\ main' = "close"
  /\ token' = {}
  /\ UNCHANGED <<modeVars, lsnVars, next, mblock, spawned, connects, timerVars,
                 linkVars, jobs, asleep, histVars>>

\* Faulty variant: m_LSLock is not waited for.
CloseListenerAtOnce(m) ==
  /\ main = "close" /\ listens
  /\ lsn[m] # "closed"
  /\ lsn' = [lsn EXCEPT ![m] = "closed"]
  /\ UNCHANGED <<modeVars, mainVars, timerVars, linkVars, jobs, hook, prints,
                 asleep, histVars>>

\* release_listeners: srt_close of a listener takes it out of its receiving
\* thread at once, for which it waits for m_LSLock.
CloseListener(m) ==
  /\ main = "close" /\ listens
  /\ lsn[m] # "closed"
  /\ m \notin hook
  /\ lsn' = [lsn EXCEPT ![m] = "closed"]
  /\ UNCHANGED <<modeVars, mainVars, timerVars, linkVars, jobs, hook, prints,
                 asleep, histVars>>

\* srt_close(m_bind_socket) closes the members; it does not wait for callbacks.
CloseGroup ==
  /\ main = "close"
  /\ listens => \A m \in Member : lsn[m] = "closed"
  /\ st' = [s \in Slot |-> Removed(s)]
  /\ overlap' = (overlap \/ \E s \in Slot : cb[s] # "none")
  /\ main' = "join"
  /\ UNCHANGED <<modeVars, lsnVars, next, mblock, spawned, connects, token,
                 timerVars, cb, jobs, asleep, lost, dangling>>

\* ~scheduler waits for the timer thread; what is still scheduled is dropped.
JoinScheduler ==
  /\ main = "join"
  /\ timer = "idle"
  /\ main' = "gone"
  /\ jobs' = [m \in Member |-> 0] /\ prints' = 0
  /\ UNCHANGED <<modeVars, lsn, hook, next, mblock, spawned, connects, token,
                 timerVars, linkVars, asleep, histVars>>

Main == \/ Connect \/ AddMemberFails \/ AllAdded \/ ConnectReturns
        \/ ConnectFails \/ Listen \/ AcceptEnds
        \/ Destroy \/ CloseGroup \/ JoinScheduler
        \/ \E s \in Slot : AddMember(s) \/ AddMemberBreaks(s)
        \/ \E m \in Member : CloseListener(m)

Timer == \/ JobFails \/ JobReturns \/ PrintStart \/ PrintEnd
         \/ \E m \in Member : JobStart(m)
         \/ \E s \in Slot : JobAdd(s)

Library(s) == \/ LinkUp(s) \/ LinkBreaks(s) \/ RemoveBroken(s)
              \/ FindTarget(s) \/ Schedule(s)

Next == \/ Main \/ Timer
        \/ \E s \in Slot : Library(s)
        \/ \E m \in Member : NewMember(m) \/ SchedulePrint(m)

Spec == Init /\ [][Next]_vars

\* Threads run; a handshake ends, and a broken socket is removed.  Nobody has
\* to call connect() again or to destroy the group, and no link has to break.
\* Tasks are called in the order of their times, so none is passed over for
\* ever, and a thread that waits for lock_ or for m_LSLock gets it some time.
Fairness ==
  /\ WF_vars(AddMemberFails \/ AllAdded \/ ConnectReturns \/ ConnectFails
             \/ CloseGroup \/ JoinScheduler
             \/ \E s \in Slot : AddMember(s) \/ AddMemberBreaks(s))
  /\ WF_vars(Timer)
  /\ SF_vars(\E m \in Member : SchedulePrint(m))
  /\ SF_vars(\E m \in Member : CloseListener(m))
  /\ \A m \in Member : /\ SF_vars(JobStart(m))
                       /\ SF_vars(\E k \in 1 .. Socks : Schedule(<<m, k>>))
  /\ \A s \in Slot : /\ WF_vars(st[s] = "pending" /\ (LinkUp(s) \/ LinkBreaks(s)))
                     /\ WF_vars(RemoveBroken(s))
                     /\ WF_vars(FindTarget(s))

LiveSpec == Spec /\ Fairness

-----------------------------------------------------------------------------
(* Properties. *)

\* Every variable has its type.
TypeOK ==
  /\ listens \in BOOLEAN /\ blocking \in BOOLEAN /\ shared \in BOOLEAN
  /\ main \in {"idle", "adding", "waiting", "listening", "connected",
              "close", "join", "gone"}
  /\ next \in 1 .. N + 1
  /\ mblock \in BOOLEAN
  /\ spawned \subseteq Slot
  /\ connects \in 0 .. MaxConnects
  /\ token \subseteq Member
  /\ timer \in {"idle", "add", "wait", "print"}
  /\ job \in Member
  /\ tblock \in BOOLEAN
  /\ waits \in Slot \cup {NoSlot}
  /\ st \in [Slot -> {"free", "pending", "up", "broken", "removed"}]
  /\ cb \in [Slot -> {"none", "hook", "found"}]
  /\ jobs \in [Member -> 0 .. MaxConnects]
  /\ lsn \in [Member -> {"bound", "listening", "closed"}]
  /\ hook \subseteq Member
  /\ prints \in 0 .. MaxPrints
  /\ asleep \in BOOLEAN
  /\ lost \subseteq Member
  /\ overlap \in BOOLEAN /\ dangling \in BOOLEAN

\* Connections of member m, in use or on the way to be made again.
Links(m) ==
  Cardinality({s \in Slot : s[1] = m /\ (st[s] \in {"pending", "up"}
                                         \/ cb[s] # "none")})
  + jobs[m] + (IF timer = "add" /\ job = m THEN 1 ELSE 0)

\* A failed member is reconnected once: however often it fails, and whoever
\* connects it, it has no more connections than there were calls of connect().
LinksBounded == \A m \in Member : Links(m) <= connects

\* Both callbacks use a raw pointer to the group, about which a comment in
\* listen_callback_fn says "this group may no longer exist".  That of a caller
\* uses it after the destruction only if it was already running when the group
\* was closed; that of a listener never does.
DanglingOnlyIfOverlap == dangling => overlap /\ ~listens

\* A blocking connect() returns with a member connected, unless it was called
\* again on a group that still had a member on its way: srt_connect_group does
\* not wait on a group that is open, where a comment of it says that it should.
LinklessOnlyIfRepeated ==
  [][main # "connected" /\ main' = "connected" /\ blocking /\ ~listens
       => connects > 1 \/ \E s \in Slot : st[s] = "up"]_vars

\* The timer thread waits, inside a task, for a handshake that is up to a
\* thread which waits, inside a callback, for the lock_ of the timer thread.
Entangled == /\ timer = "wait" /\ shared
             /\ \E s \in Slot : cb[s] = "found"

Trying(m) == \E s \in Slot : s[1] = m /\ st[s] \in {"pending", "up"}

\* A task that waits for its connection comes back, and with it lock_, unless
\* the members share a receiving thread and are entangled.
LockReturned == timer = "wait" ~> timer # "wait" \/ Entangled

\* A member that fails is connected again while the group lives, unless its
\* reconnection is given up, the timer thread oversleeps or is entangled.
MemberRetried ==
  \A m \in Member :
    (\E s \in Slot : s[1] = m /\ cb[s] = "hook")
      ~> (Trying(m) \/ m \in lost \/ asleep \/ Entangled \/ ~targetsKept)

\* The destructor returns, whatever the callbacks and the tasks are at: it
\* waits for the callbacks of listeners, and for the timer thread, which may
\* be inside a task or have been waited for by a callback.
DestructorEnds == main = "close" ~> main = "gone"
=============================================================================
