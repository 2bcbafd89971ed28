----------------------------- MODULE Scheduler -----------------------------
(***************************************************************************)
(* class scheduler (scheduler.hpp): a timer thread that calls tasks at     *)
(* given times.  Three kinds of threads meet here:                         *)
(*   - the timer thread runs timer_loop and manage_tasks;                  *)
(*   - the threads that call schedule_in, one call per task;               *)
(*   - the owner of the object, which destroys it.                         *)
(* lock_ protects tasks_; sync_.mtx is the mutex of the condition variable *)
(* sync_.cv.  add_task notifies while it holds lock_ but not sync_.mtx,    *)
(* and timer_loop reads tasks_ without lock_.                              *)
(***************************************************************************)
EXTENDS Integers, FiniteSets

CONSTANTS Tasks,     \* the tasks that may be scheduled
          MaxDelay,  \* the longest delay of a call of schedule_in
          Horizon    \* bound: the last instant at which a task is scheduled

ASSUME SchedulerAssumption == /\ MaxDelay \in Nat
                              /\ Horizon \in Nat
                              /\ "free" \notin Tasks
                              /\ "timer" \notin Tasks

VARIABLES
  now,     \* steady_clock::now()
  done,    \* done_
  tasks,   \* the tasks in the multimap tasks_
  due,     \* the key of each task in tasks_
  lock,    \* lock_: "free", "timer", or the task whose add_task holds it
  mtx,     \* sync_.mtx: "free", "timer" or "owner"
  timer,   \* where the timer thread is
  batch,   \* manage_tasks: the tasks before end_of_tasks_to_run
  todo,    \* the tasks of batch not called yet
  wake,    \* time_of_first_task
  caller,  \* where the thread that schedules a task is
  owner,   \* where the owner is in ~scheduler
  ran,     \* history: the tasks whose f() was called
  missed   \* history: the tasks whose notify_one came after the timer thread
           \* last looked at tasks_ and before it was waiting

vars == <<now, done, tasks, due, lock, mtx, timer, batch, todo, wake,
          caller, owner, ran, missed>>

TimerPC == {"loop", "manage", "run", "check", "lockWait", "pred", "block",
            "wait", "woken", "lockUntil", "blockUntil", "waitUntil",
            "wokenUntil", "exit"}
CallerPC == {"idle", "add", "notify", "returned"}
OwnerPC  == {"using", "stopping", "signal", "join", "destroyed"}

\* The timer thread has read tasks_ and will now wait, but a notify_one would
\* find nobody waiting.
Window == {"block", "lockUntil", "blockUntil"}

Init == /\ now = 0
        /\ done = FALSE
        /\ tasks = {}
        /\ due = [t \in Tasks |-> 0]
        /\ lock = "free"
        /\ mtx = "free"
        /\ timer = "loop"
        /\ batch = {}
        /\ todo = {}
        /\ wake = 0
        /\ caller = [t \in Tasks |-> "idle"]
        /\ owner = "using"
        /\ ran = {}
        /\ missed = {}

-----------------------------------------------------------------------------
(* Threads that schedule a task. *)

\* Faulty variant: the delay is subtracted.
ScheduleInPast(t) ==
  /\ caller[t] = "idle"
  /\ owner = "using"
  /\ now <= Horizon
  /\ \E d \in 0 .. MaxDelay : due' = [due EXCEPT ![t] = now - d]
  /\ caller' = [caller EXCEPT ![t] = "add"]
  /\ UNCHANGED <<now, done, tasks, lock, mtx, timer, batch, todo, wake,
                 owner, ran, missed>>

\* schedule_in, schedule_on: the time is fixed before add_task is entered.
ScheduleIn(t) ==
  /\ caller[t] = "idle"
  /\ owner = "using"
  /\ now <= Horizon
  /\ \E d \in 0 .. MaxDelay : due' = [due EXCEPT ![t] = now + d]
  /\ caller' = [caller EXCEPT ![t] = "add"]
  /\ UNCHANGED <<now, done, tasks, lock, mtx, timer, batch, todo, wake,
                 owner, ran, missed>>

\* Faulty variant: add_task without the lock_guard.
AddTaskUnlocked(t) ==
  /\ caller[t] = "add"
  /\ owner # "destroyed"
  /\ tasks' = tasks \cup {t}
  /\ caller' = [caller EXCEPT ![t] = "notify"]
  /\ UNCHANGED <<now, done, due, lock, mtx, timer, batch, todo, wake, owner,
                 ran, missed>>

\* add_task: take lock_ and emplace.  A call still in progress when the
\* object is gone is not followed any further: it has no defined meaning.
AddTask(t) ==
  /\ caller[t] = "add"
  /\ owner # "destroyed"
  /\ lock = "free"
  /\ lock' = t
  /\ tasks' = tasks \cup {t}
  /\ caller' = [caller EXCEPT ![t] = "notify"]
  /\ UNCHANGED <<now, done, due, mtx, timer, batch, todo, wake, owner, ran,
                 missed>>

\* What sync_.cv.notify_one() does: only the timer thread ever waits.
Notified(pc) == CASE pc = "wait"      -> "woken"
                  [] pc = "waitUntil" -> "wokenUntil"
                  [] OTHER            -> pc

\* Faulty variant: add_task without notify_one.
NotifyNobody(t) ==
  /\ caller[t] = "notify"
  /\ owner # "destroyed"
  /\ lock' = "free"
  /\ caller' = [caller EXCEPT ![t] = "returned"]
  /\ UNCHANGED <<now, done, tasks, due, mtx, timer, batch, todo, wake, owner,
                 ran, missed>>

\* add_task: notify_one, and the lock_guard is released on return.
NotifyTask(t) ==
  /\ caller[t] = "notify"
  /\ owner # "destroyed"
  /\ timer' = Notified(timer)
  /\ missed' = IF timer \in Window THEN missed \cup {t} ELSE missed
  /\ lock' = "free"
  /\ caller' = [caller EXCEPT ![t] = "returned"]
  /\ UNCHANGED <<now, done, tasks, due, mtx, batch, todo, wake, owner, ran>>

-----------------------------------------------------------------------------
(* The timer thread. *)

\* while (!done_)
LoopTest ==
  /\ timer = "loop"
  /\ timer' = IF done THEN "exit" ELSE "manage"
  /\ UNCHANGED <<now, done, tasks, due, lock, mtx, batch, todo, wake, caller,
                 owner, ran, missed>>

\* manage_tasks: take lock_, upper_bound(now).
ManageTasks ==
  /\ timer = "manage"
  /\ lock = "free"
  /\ lock' = "timer"
  /\ batch' = {t \in tasks : due[t] <= now}
  /\ todo' = batch'
  /\ timer' = "run"
  /\ UNCHANGED <<now, done, tasks, due, mtx, wake, caller, owner, ran, missed>>

\* task->f(), in the order of the keys, while lock_ is held.
RunTask(t) ==
  /\ timer = "run"
  /\ t \in todo
  /\ \A u \in todo : due[t] <= due[u]
  /\ todo' = todo \ {t}
  /\ ran' = ran \cup {t}
  /\ UNCHANGED <<now, done, tasks, due, lock, mtx, timer, batch, wake, caller,
                 owner, missed>>

\* Faulty variant: the completed tasks stay in tasks_.
KeepBatch ==
  /\ timer = "run"
  /\ todo = {}
  /\ batch' = {}
  /\ lock' = "free"
  /\ timer' = "check"
  /\ UNCHANGED <<now, done, tasks, due, mtx, todo, wake, caller, owner, ran,
                 missed>>

\* tasks_.erase(begin, end_of_tasks_to_run), release lock_.
EraseBatch ==
  /\ timer = "run"
  /\ todo = {}
  /\ tasks' = tasks \ batch
  /\ batch' = {}
  /\ lock' = "free"
  /\ timer' = "check"
  /\ UNCHANGED <<now, done, due, mtx, todo, wake, caller, owner, ran, missed>>

\* tasks_.empty() and (*tasks_.begin()).first, read without lock_.
CheckTasks ==
  /\ timer = "check"
  /\ \/ /\ tasks = {}
        /\ timer' = "lockWait"
        /\ wake' = wake
     \/ \E t \in tasks : /\ \A u \in tasks : due[t] <= due[u]
                         /\ wake' = due[t]
                         /\ timer' = "lockUntil"
  /\ UNCHANGED <<now, done, tasks, due, lock, mtx, batch, todo, caller, owner,
                 ran, missed>>

\* unique_lock on sync_.mtx, on the way to the predicate: first, and again
\* each time cv.wait wakes up.
LockWait ==
  /\ timer \in {"lockWait", "woken"}
  /\ mtx = "free"
  /\ mtx' = "timer"
  /\ timer' = "pred"
  /\ UNCHANGED <<now, done, tasks, due, lock, batch, todo, wake, caller, owner,
                 ran, missed>>

\* Faulty variant: the predicate does not look at tasks_.
EvalPredDoneOnly ==
  /\ timer = "pred"
  /\ IF done
       THEN mtx' = "free" /\ timer' = "loop"
       ELSE mtx' = mtx    /\ timer' = "block"
  /\ UNCHANGED <<now, done, tasks, due, lock, batch, todo, wake, caller, owner,
                 ran, missed>>

\* The predicate of cv.wait: done_ || !tasks_.empty().
EvalPred ==
  /\ timer = "pred"
  /\ IF done \/ tasks # {}
       THEN mtx' = "free" /\ timer' = "loop"
       ELSE mtx' = mtx    /\ timer' = "block"
  /\ UNCHANGED <<now, done, tasks, due, lock, batch, todo, wake, caller, owner,
                 ran, missed>>

\* cv.wait: sync_.mtx is released and the thread waits, in one step.
Block ==
  /\ timer = "block"
  /\ mtx' = "free"
  /\ timer' = "wait"
  /\ UNCHANGED <<now, done, tasks, due, lock, batch, todo, wake, caller, owner,
                 ran, missed>>

LockUntil ==
  /\ timer = "lockUntil"
  /\ mtx = "free"
  /\ mtx' = "timer"
  /\ timer' = "blockUntil"
  /\ UNCHANGED <<now, done, tasks, due, lock, batch, todo, wake, caller, owner,
                 ran, missed>>

\* cv.wait_until has no predicate: done_ is not looked at again.
BlockUntil ==
  /\ timer = "blockUntil"
  /\ mtx' = "free"
  /\ timer' = "waitUntil"
  /\ UNCHANGED <<now, done, tasks, due, lock, batch, todo, wake, caller, owner,
                 ran, missed>>

Timeout ==
  /\ timer = "waitUntil"
  /\ wake <= now
  /\ timer' = "wokenUntil"
  /\ UNCHANGED <<now, done, tasks, due, lock, mtx, batch, todo, wake, caller,
                 owner, ran, missed>>

\* A condition variable may wake a thread that nobody notified.
SpuriousWakeup ==
  /\ timer \in {"wait", "waitUntil"}
  /\ timer' = Notified(timer)
  /\ UNCHANGED <<now, done, tasks, due, lock, mtx, batch, todo, wake, caller,
                 owner, ran, missed>>

\* wait_until takes sync_.mtx again and the block's end releases it.
Relock ==
  /\ timer = "wokenUntil"
  /\ mtx = "free"
  /\ timer' = "loop"
  /\ UNCHANGED <<now, done, tasks, due, lock, mtx, batch, todo, wake, caller,
                 owner, ran, missed>>

Timer == \/ LoopTest \/ ManageTasks \/ EraseBatch \/ CheckTasks \/ LockWait
         \/ EvalPred \/ Block \/ LockUntil \/ BlockUntil \/ Timeout \/ Relock
         \/ \E t \in Tasks : RunTask(t)

-----------------------------------------------------------------------------
(* The owner: ~scheduler. *)

SetDone ==
  /\ owner = "using"
  /\ done' = TRUE
  /\ owner' = "stopping"
  /\ UNCHANGED <<now, tasks, due, lock, mtx, timer, batch, todo, wake, caller,
                 ran, missed>>

\* Faulty variant: the destructor notifies without taking sync_.mtx.
DtorNoLock ==
  /\ owner = "stopping"
  /\ owner' = "signal"
  /\ UNCHANGED <<now, done, tasks, due, lock, mtx, timer, batch, todo, wake,
                 caller, ran, missed>>

DtorLock ==
  /\ owner = "stopping"
  /\ mtx = "free"
  /\ mtx' = "owner"
  /\ owner' = "signal"
  /\ UNCHANGED <<now, done, tasks, due, lock, timer, batch, todo, wake, caller,
                 ran, missed>>

DtorNotify ==
  /\ owner = "signal"
  /\ timer' = Notified(timer)
  /\ mtx' = "free"
  /\ owner' = "join"
  /\ UNCHANGED <<now, done, tasks, due, lock, batch, todo, wake, caller, ran,
                 missed>>

Join ==
  /\ owner = "join"
  /\ timer = "exit"
  /\ owner' = "destroyed"
  /\ UNCHANGED <<now, done, tasks, due, lock, mtx, timer, batch, todo, wake,
                 caller, ran, missed>>

Destructor == SetDone \/ DtorLock \/ DtorNotify \/ Join

-----------------------------------------------------------------------------

Tick == /\ now < Horizon + MaxDelay
        /\ now' = now + 1
        /\ UNCHANGED <<done, tasks, due, lock, mtx, timer, batch, todo, wake,
                       caller, owner, ran, missed>>

Next == \/ \E t \in Tasks : ScheduleIn(t) \/ AddTask(t) \/ NotifyTask(t)
        \/ Timer
        \/ SpuriousWakeup
        \/ Destructor
        \/ Tick

Spec == Init /\ [][Next]_vars

\* The operating system runs every thread and the clock advances; a call of
\* f() returns.  Nobody has to call schedule_in or to destroy the object, and
\* no wakeup is spurious for ever.
Fairness == /\ WF_vars(Timer)
            /\ \A t \in Tasks : WF_vars(AddTask(t) \/ NotifyTask(t))
            /\ WF_vars(DtorLock \/ DtorNotify \/ Join)
            /\ WF_vars(Tick)

LiveSpec == Spec /\ Fairness

-----------------------------------------------------------------------------
(* Properties. *)

\* Every variable has its type; in particular no task has a key before the
\* clock's start or more than MaxDelay after the last scheduling instant.
TypeOK == /\ now \in 0 .. Horizon + MaxDelay
          /\ done \in BOOLEAN
          /\ tasks \subseteq Tasks
          /\ due \in [Tasks -> 0 .. Horizon + MaxDelay]
          /\ lock \in {"free", "timer"} \cup Tasks
          /\ mtx \in {"free", "timer", "owner"}
          /\ timer \in TimerPC
          /\ batch \subseteq Tasks
          /\ todo \subseteq Tasks
          /\ wake \in 0 .. Horizon + MaxDelay
          /\ caller \in [Tasks -> CallerPC]
          /\ owner \in OwnerPC
          /\ ran \subseteq Tasks
          /\ missed \subseteq Tasks

\* While manage_tasks walks from begin() to end_of_tasks_to_run, that range
\* stays what it was when upper_bound was called: every task of the batch is
\* still in tasks_ and no other task has come to stand before one of them, so
\* that the walk calls, and the erase removes, exactly the batch.
BatchIsPrefix ==
  timer = "run" =>
    /\ todo \subseteq batch
    /\ batch \subseteq tasks
    /\ \A t \in batch, u \in tasks \ batch : due[t] < due[u]

\* ~scheduler takes sync_.mtx between setting done_ and notifying, so its
\* wakeup is never lost in the untimed wait: once it has begun to join, the
\* timer thread neither waits nor is about to wait without a deadline.
DtorWakes == owner \in {"join", "destroyed"} => timer \notin {"block", "wait"}

\* add_task does not take sync_.mtx, so its wakeup can be lost, but in one way
\* only: if the timer thread sleeps past the time of a task whose add_task has
\* notified, that notify_one fell between the thread's last look at tasks_
\* and its wait.
SleepsOnlyIfMissed ==
  \A t \in tasks :
    \/ caller[t] = "notify"
    \/ t \in missed
    \/ /\ timer # "wait"
       /\ timer = "waitUntil" => wake <= due[t]

\* Every scheduled task is called eventually, unless the object is being
\* destroyed or the wakeup for that task was lost as above.
TaskRuns == \A t \in Tasks :
              caller[t] = "returned" ~> (t \in ran \/ done \/ t \in missed)

\* ~scheduler returns: the join is not held up for ever by either wait of
\* timer_loop, although wait_until may delay it up to time_of_first_task.
DtorReturns == owner = "stopping" ~> owner = "destroyed"

\* The scheduler is a timer service: it calls a task at most once, never
\* before its time and never after the destructor has returned.  A task waits
\* while it is in tasks_, except, during a walk, those already called.
Called == batch \ todo
Status == [t \in Tasks |-> IF t \in tasks \ Called THEN "pending"
                           ELSE IF t \in ran THEN "ran"
                           ELSE "new"]

Service == INSTANCE TimerService
             WITH status <- Status, closed <- owner = "destroyed"

ImplementsService == Service!Spec
=============================================================================
