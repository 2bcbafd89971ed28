---------------------------- MODULE TimerService ----------------------------
(***************************************************************************)
(* What class scheduler promises its users: a task handed to it waits      *)
(* until its time has come, is called at most once, and is never called    *)
(* after the object is gone.  It promises no more: a task may be late, and *)
(* closing the service drops the tasks that have not run.                  *)
(***************************************************************************)
EXTENDS Integers

CONSTANTS Tasks,     \* the tasks that may be scheduled
          MaxDelay   \* the longest delay of a call of schedule_in

VARIABLES now,     \* the steady clock
          status,  \* "new", "pending" or "ran", for each task
          due,     \* the instant from which a task may run
          closed   \* the scheduler object is destroyed

vars == <<now, status, due, closed>>

Init == /\ now = 0
        /\ status = [t \in Tasks |-> "new"]
        /\ due = [t \in Tasks |-> 0]
        /\ closed = FALSE

\* A caller fixes the time of a task before the service knows of the task.
Stamp(t) == /\ status[t] = "new"
            /\ \E d \in 0 .. MaxDelay : due' = [due EXCEPT ![t] = now + d]
            /\ UNCHANGED <<now, status, closed>>

Accept(t) == /\ status[t] = "new"
             /\ ~closed
             /\ status' = [status EXCEPT ![t] = "pending"]
             /\ UNCHANGED <<now, due, closed>>

Run(t) == /\ status[t] = "pending"
          /\ due[t] <= now
          /\ ~closed
          /\ status' = [status EXCEPT ![t] = "ran"]
          /\ UNCHANGED <<now, due, closed>>

Close == /\ ~closed
         /\ closed' = TRUE
         /\ UNCHANGED <<now, status, due>>

Tick == /\ now' = now + 1
        /\ UNCHANGED <<status, due, closed>>

Next == \/ \E t \in Tasks : Stamp(t) \/ Accept(t) \/ Run(t)
        \/ Close
        \/ Tick

Spec == Init /\ [][Next]_vars
=============================================================================
