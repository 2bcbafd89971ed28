-------------------------- MODULE SchedulerProofs --------------------------
(***************************************************************************)
(* The safety properties of Scheduler hold for any set of tasks, any delay *)
(* and any horizon, and every scheduler is a TimerService.                 *)
(***************************************************************************)
EXTENDS Scheduler, TLAPS

\* lock_ is held by the timer thread exactly while it runs a batch, and by a
\* caller exactly between its emplace and its return.
LockInv == /\ lock = "timer" <=> timer = "run"
           /\ \A t \in Tasks : lock = t <=> caller[t] = "notify"

\* sync_.mtx is held by the timer thread from its unique_lock to its wait, and
\* by the owner while it notifies.
MtxInv == /\ mtx = "timer" <=> timer \in {"pred", "block", "blockUntil"}
          /\ mtx = "owner" <=> owner = "signal"

\* done_ is set by the destructor and by nobody else, and the object is gone
\* only after the timer thread has ended.
DoneInv == /\ done <=> owner # "using"
           /\ owner = "destroyed" => timer = "exit"

\* A task is in tasks_ only once its add_task has put it there; a task that
\* was called is in tasks_ only as a part of the batch that is being called.
TasksInv == /\ \A t \in tasks \cup ran : caller[t] \in {"notify", "returned"}
            /\ \A t \in tasks \cap ran : timer = "run" /\ t \in batch \ todo
            /\ timer = "run" => /\ batch \ todo \subseteq ran
                                /\ \A t \in batch : due[t] <= now
            /\ timer # "run" => batch = {}

\* A thread that has decided to wait knows of every task it should know of.
WindowInv ==
  \A t \in tasks :
    \/ caller[t] = "notify"
    \/ t \in missed
    \/ /\ timer # "block"
       /\ timer \in {"lockUntil", "blockUntil"} => wake <= due[t]

IInv == /\ TypeOK
        /\ LockInv
        /\ MtxInv
        /\ DoneInv
        /\ TasksInv
        /\ BatchIsPrefix
        /\ DtorWakes
        /\ WindowInv
        /\ SleepsOnlyIfMissed

-----------------------------------------------------------------------------

\* The initial state is well typed: the object starts with no task.
LEMMA TypeInit == Init => TypeOK
<1> USE SchedulerAssumption DEF SchedulerAssumption
<1> SUFFICES ASSUME Init PROVE TypeOK
  OBVIOUS
<1>1. 0 \in 0 .. Horizon + MaxDelay
  OBVIOUS
<1>2. /\ due \in [Tasks -> 0 .. Horizon + MaxDelay]
      /\ caller \in [Tasks -> CallerPC]
  BY <1>1 DEF Init, CallerPC
<1> QED
  BY <1>1, <1>2 DEF Init, TypeOK, TimerPC, OwnerPC

\* Type correctness is inductive by itself: each action of the three kinds of
\* threads assigns values of the right type.
LEMMA TypeStep == TypeOK /\ [Next]_vars => TypeOK'
<1> USE SchedulerAssumption DEF SchedulerAssumption
<1> SUFFICES ASSUME TypeOK, [Next]_vars PROVE TypeOK'
  OBVIOUS
<1> USE DEF TypeOK, TimerPC, CallerPC, OwnerPC
<1>1. ASSUME NEW t \in Tasks, ScheduleIn(t) PROVE TypeOK'
  <2>1. PICK d \in 0 .. MaxDelay : due' = [due EXCEPT ![t] = now + d]
    BY <1>1 DEF ScheduleIn
  <2>2. now + d \in 0 .. Horizon + MaxDelay
    BY <1>1 DEF ScheduleIn
  <2>3. due' \in [Tasks -> 0 .. Horizon + MaxDelay]
    BY <2>1, <2>2
  <2> QED
    BY <1>1, <2>3 DEF ScheduleIn
<1>2. ASSUME NEW t \in Tasks, AddTask(t) PROVE TypeOK'
  BY <1>2 DEF AddTask
<1>3. ASSUME NEW t \in Tasks, NotifyTask(t) PROVE TypeOK'
  BY <1>3 DEF NotifyTask, Notified
<1>4. CASE LoopTest
  BY <1>4 DEF LoopTest
<1>5. CASE ManageTasks
  BY <1>5 DEF ManageTasks
<1>6. ASSUME NEW t \in Tasks, RunTask(t) PROVE TypeOK'
  BY <1>6 DEF RunTask
<1>7. CASE EraseBatch
  BY <1>7 DEF EraseBatch
<1>8. CASE CheckTasks
  BY <1>8 DEF CheckTasks
<1>9. CASE LockWait \/ EvalPred \/ Block \/ LockUntil \/ BlockUntil
  BY <1>9 DEF LockWait, EvalPred, Block, LockUntil, BlockUntil
<1>10. CASE Timeout \/ SpuriousWakeup \/ Relock
  BY <1>10 DEF Timeout, SpuriousWakeup, Relock, Notified
<1>11. CASE Destructor
  BY <1>11 DEF Destructor, SetDone, DtorLock, DtorNotify, Join, Notified
<1>12. CASE Tick
  BY <1>12 DEF Tick
<1>13. CASE UNCHANGED vars
  BY <1>13 DEF vars
<1> QED
  BY <1>1, <1>2, <1>3, <1>4, <1>5, <1>6, <1>7, <1>8, <1>9, <1>10, <1>11,
     <1>12, <1>13 DEF Next, Timer

\* Every reachable state of the scheduler is well typed; no task is given a
\* time out of range by schedule_in.
THEOREM TypeCorrect == Spec => []TypeOK
  BY TypeInit, TypeStep, PTL DEF Spec

-----------------------------------------------------------------------------

\* The strengthened invariant is inductive, by a case for each action.  The
\* cases that carry the argument are AddTask (LockInv keeps it away from a
\* batch), NotifyTask (it wakes the timer thread or records the miss),
\* EvalPred (it decides to wait only when it sees neither done_ nor a task)
\* and DtorNotify (MtxInv: the timer thread is not between the two).
LEMMA Inductive == IInv /\ [Next]_vars => IInv'
<1> SUFFICES ASSUME IInv, [Next]_vars PROVE IInv'
  OBVIOUS
<1> USE SchedulerAssumption DEF SchedulerAssumption
<1>0. TypeOK'
  BY TypeStep DEF IInv
<1> USE <1>0 DEF IInv, TypeOK, TimerPC, CallerPC, OwnerPC, LockInv, MtxInv,
                 DoneInv, TasksInv, BatchIsPrefix, DtorWakes, WindowInv,
                 SleepsOnlyIfMissed
<1>1. ASSUME NEW t \in Tasks, ScheduleIn(t) PROVE IInv'
  BY <1>1 DEF ScheduleIn
<1>2. ASSUME NEW t \in Tasks, AddTask(t) PROVE IInv'
  BY <1>2 DEF AddTask
<1>3. ASSUME NEW t \in Tasks, NotifyTask(t) PROVE IInv'
  BY <1>3 DEF NotifyTask, Notified, Window
<1>4. CASE LoopTest
  BY <1>4 DEF LoopTest
<1>5. CASE ManageTasks
  BY <1>5 DEF ManageTasks
<1>6. ASSUME NEW t \in Tasks, RunTask(t) PROVE IInv'
  BY <1>6 DEF RunTask
<1>7. CASE EraseBatch
  BY <1>7 DEF EraseBatch
<1>8. CASE CheckTasks
  BY <1>8 DEF CheckTasks
<1>9. CASE LockWait
  BY <1>9 DEF LockWait
<1>10. CASE EvalPred
  BY <1>10 DEF EvalPred
<1>11. CASE Block
  BY <1>11 DEF Block
<1>12. CASE LockUntil
  BY <1>12 DEF LockUntil
<1>13. CASE BlockUntil
  BY <1>13 DEF BlockUntil
<1>14. CASE Timeout
  BY <1>14 DEF Timeout
<1>15. CASE SpuriousWakeup
  BY <1>15 DEF SpuriousWakeup, Notified
<1>16. CASE Relock
  BY <1>16 DEF Relock
<1>17. CASE SetDone
  BY <1>17 DEF SetDone
<1>18. CASE DtorLock
  BY <1>18 DEF DtorLock
<1>19. CASE DtorNotify
  BY <1>19 DEF DtorNotify, Notified
<1>20. CASE Join
  BY <1>20 DEF Join
<1>21. CASE Tick
  BY <1>21 DEF Tick
<1>22. CASE UNCHANGED vars
  BY <1>22 DEF vars
<1> QED
  BY <1>1, <1>2, <1>3, <1>4, <1>5, <1>6, <1>7, <1>8, <1>9, <1>10, <1>11,
     <1>12, <1>13, <1>14, <1>15, <1>16, <1>17, <1>18, <1>19, <1>20, <1>21,
     <1>22 DEF Next, Timer, Destructor

\* The strengthened invariant holds of every reachable state.
LEMMA Invariant == Spec => []IInv
<1>1. Init => IInv
  BY TypeInit, SchedulerAssumption
  DEF SchedulerAssumption, Init, IInv, LockInv, MtxInv, DoneInv, TasksInv,
      BatchIsPrefix, DtorWakes, WindowInv, SleepsOnlyIfMissed
<1> QED
  BY <1>1, Inductive, PTL DEF Spec

\* manage_tasks calls and erases exactly the tasks that upper_bound found,
\* whatever schedule_in does meanwhile.
THEOREM BatchSafe == Spec => []BatchIsPrefix
  BY Invariant, PTL DEF IInv

\* The destructor's wakeup is never lost in the untimed wait of timer_loop.
THEOREM DtorWakeupSafe == Spec => []DtorWakes
  BY Invariant, PTL DEF IInv

\* The wakeup of add_task is lost in the one window only, between the timer
\* thread's last look at tasks_ and its wait.
THEOREM WakeupLostOnlyInWindow == Spec => []SleepsOnlyIfMissed
  BY Invariant, PTL DEF IInv

-----------------------------------------------------------------------------
(* Refinement. *)

\* A scheduler in its initial state is a service with no task.
LEMMA ServiceInit == Init => Service!Init
  BY DEF Init, Service!Init, Status, Called

\* Each step of the three kinds of threads is a step of the service or leaves
\* it as it is: schedule_in stamps, emplace accepts, f() runs, join closes.
LEMMA ServiceStep == IInv /\ [Next]_vars => [Service!Next]_(Service!vars)
<1> SUFFICES ASSUME IInv, [Next]_vars PROVE [Service!Next]_(Service!vars)
  OBVIOUS
<1> USE SchedulerAssumption DEF SchedulerAssumption, IInv, TypeOK, Called,
                               Service!vars
<1>1. ASSUME NEW t \in Tasks, ScheduleIn(t) PROVE Service!Stamp(t)
  <2>1. t \notin tasks \cup ran
    BY <1>1 DEF ScheduleIn, TasksInv
  <2>2. Status[t] = "new"
    BY <2>1 DEF Status
  <2>3. Status' = Status
    BY <1>1 DEF ScheduleIn, Status
  <2> QED
    BY <1>1, <2>2, <2>3 DEF ScheduleIn, Service!Stamp
<1>2. ASSUME NEW t \in Tasks, AddTask(t) PROVE Service!Accept(t)
  <2>1. t \notin tasks \cup ran
    BY <1>2 DEF AddTask, TasksInv
  <2>2. Status[t] = "new"
    BY <2>1 DEF Status
  <2>3. /\ tasks' = tasks \cup {t}
        /\ ran' = ran
        /\ batch' = {} /\ batch = {}
    BY <1>2 DEF AddTask, LockInv, TasksInv
  <2>4. Status' = [Status EXCEPT ![t] = "pending"]
    BY <2>1, <2>3 DEF Status
  <2> QED
    BY <1>2, <2>2, <2>4 DEF AddTask, Service!Accept
<1>3. ASSUME NEW t \in Tasks, RunTask(t) PROVE Service!Run(t)
  <2>1. /\ t \in tasks /\ due[t] <= now
        /\ t \in todo /\ todo \subseteq batch
    BY <1>3 DEF RunTask, TasksInv, BatchIsPrefix
  <2>2. Status[t] = "pending"
    BY <2>1 DEF Status
  <2>3. /\ tasks' = tasks /\ batch' = batch
        /\ ran' = ran \cup {t}
        /\ todo' = todo \ {t}
    BY <1>3 DEF RunTask
  <2>4. Status' = [Status EXCEPT ![t] = "ran"]
    BY <2>1, <2>3 DEF Status
  <2>5. owner # "destroyed"
    BY <1>3 DEF RunTask, DoneInv
  <2> QED
    BY <1>3, <2>1, <2>2, <2>4, <2>5 DEF RunTask, Service!Run
<1>4. CASE EraseBatch
  BY <1>4 DEF EraseBatch, Status, TasksInv, BatchIsPrefix
<1>5. ASSUME NEW t \in Tasks, NotifyTask(t) PROVE UNCHANGED Service!vars
  BY <1>5 DEF NotifyTask, Status
<1>6. CASE LoopTest \/ ManageTasks \/ CheckTasks \/ LockWait \/ EvalPred
             \/ Block \/ LockUntil \/ BlockUntil \/ Timeout \/ Relock
             \/ SpuriousWakeup
  BY <1>6 DEF LoopTest, ManageTasks, CheckTasks, LockWait, EvalPred, Block,
              LockUntil, BlockUntil, Timeout, Relock, SpuriousWakeup, Status,
              TasksInv
<1>7. CASE SetDone \/ DtorLock \/ DtorNotify
  BY <1>7 DEF SetDone, DtorLock, DtorNotify, Status
<1>8. ASSUME Join PROVE Service!Close
  BY <1>8 DEF Join, Service!Close, Status
<1>9. ASSUME Tick PROVE Service!Tick
  BY <1>9 DEF Tick, Service!Tick, Status
<1>10. CASE UNCHANGED vars
  BY <1>10 DEF vars, Status
<1> QED
  BY <1>1, <1>2, <1>3, <1>4, <1>5, <1>6, <1>7, <1>8, <1>9, <1>10
  DEF Next, Timer, Destructor, Service!Next

\* Every scheduler implements the timer service: no task is called twice,
\* before its time, or after ~scheduler has returned.
THEOREM Refinement == Spec => ImplementsService
<1> QED
  BY ServiceInit, ServiceStep, Invariant, PTL
  DEF Spec, ImplementsService, Service!Spec
=============================================================================
