---------------------------- MODULE MCScheduler ----------------------------
(* Two tasks, so that one call of schedule_in can meet the timer thread in *)
(* the middle of the other task's turn.                                    *)
EXTENDS Scheduler

CONSTANTS t1, t2

TwoTasks == {t1, t2}
=============================================================================
