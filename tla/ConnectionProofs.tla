-------------------------- MODULE ConnectionProofs --------------------------
(***************************************************************************)
(* The safety properties of Connection hold for any number of sockets, any *)
(* set of command lines and any length of the reconnection period.         *)
(***************************************************************************)
EXTENDS Connection, TLAPS

\* The clock: the attempt before the last began at least a second before
\* nextReconnect, and the last one no later than tnow was read.
PaceInv == /\ age2 + until >= Period
           /\ pc = "sleep" => slept <= age1

\* The handles that a shared_ptr of common_run or the stats writer refers to.
Held == {h \in Handles : h = listener \/ h = conn \/ h \in stats}

\* Every handle that is held or orphaned exists, none is both, and the object
\* in listeningSock is not a connection in use.
OwnInv == /\ \A h \in Held \cup orphans : sock[h] # "none"
          /\ Held \cap orphans = {}
          /\ listener # NoSock => listener # conn /\ listener \notin stats
          /\ \A h \in Handles : sock[h] = "listening" => h = listener

\* Which of the two pointers are set, by the place in the code.
PointerInv ==
  /\ pc \in {"listen", "establish"} => listener # NoSock
  /\ conn # NoSock <=> pc \in {"register", "process", "unregister"}
  /\ cfg.closeListener /\ pc \in {"process", "unregister"} => listener = NoSock

IInv == /\ TypeOK
        /\ PaceInv
        /\ OwnInv
        /\ PointerInv
        /\ StatsHoldsCurrent

-----------------------------------------------------------------------------

\* The initial state is well typed: no socket, no earlier attempt.
LEMMA TypeInit == Init => TypeOK
<1> SUFFICES ASSUME Init PROVE TypeOK
  OBVIOUS
<1>1. 0 \in 0 .. Period /\ Period \in 0 .. Period
  BY ConnectionAssumption DEF ConnectionAssumption
<1>2. sock \in [Handles -> SockState]
  BY DEF Init, SockState
<1> QED
  BY <1>1, <1>2 DEF Init, TypeOK, PC

\* Each action preserves the types; Register needs to know that conn is set.
LEMMA TypeStep == TypeOK /\ PointerInv /\ [Next]_vars => TypeOK'
<1> SUFFICES ASSUME TypeOK, PointerInv, [Next]_vars PROVE TypeOK'
  OBVIOUS
<1> USE ConnectionAssumption DEF ConnectionAssumption, TypeOK, PC, SockState
<1>1. CASE Start
  BY <1>1 DEF Start
<1>2. CASE Sample
  BY <1>2 DEF Sample, BeginAttempt
<1>3. CASE Wake
  BY <1>3 DEF Wake, BeginAttempt
<1>4. CASE Reuse
  BY <1>4 DEF Reuse
<1>5. ASSUME NEW h \in Handles, Construct(h) PROVE TypeOK'
  BY <1>5 DEF Construct
<1>6. CASE ConstructFails
  BY <1>6 DEF ConstructFails, Throw, Reap
<1>7. ASSUME NEW h \in Handles, ConstructOrphans(h) PROVE TypeOK'
  BY <1>7 DEF ConstructOrphans
<1>8. ASSUME NEW h \in Handles, ConstructUdp(h) PROVE TypeOK'
  BY <1>8 DEF ConstructUdp
<1>9. CASE ListenOk
  BY <1>9 DEF ListenOk
<1>10. CASE ListenFails
  BY <1>10 DEF ListenFails, Throw, Reap
<1>11. ASSUME NEW h \in Handles, Accept(h) PROVE TypeOK'
  BY <1>11 DEF Accept
<1>12. CASE Connect
  BY <1>12 DEF Connect
<1>13. CASE EstablishFails
  BY <1>13 DEF EstablishFails, Throw, Reap
<1>14. ASSUME NEW h \in Handles, AcceptOrphans(h) PROVE TypeOK'
  BY <1>14 DEF AcceptOrphans, Reap
<1>15. CASE Register
  BY <1>15 DEF Register, Reap, PointerInv
<1>16. CASE ProcessReturns
  BY <1>16 DEF ProcessReturns
<1>17. CASE ProcessThrows
  BY <1>17 DEF ProcessThrows, Throw, Reap
<1>18. CASE Unregister
  BY <1>18 DEF Unregister, Reap
<1>19. CASE Test
  BY <1>19 DEF Test, Reap, forceBreak
<1>20. CASE Interrupt
  BY <1>20 DEF Interrupt
<1>21. CASE Cleanup
  BY <1>21 DEF Cleanup
<1>22. CASE Tick
  BY <1>22 DEF Tick, Older
<1>23. CASE UNCHANGED vars
  BY <1>23 DEF vars
<1> QED
  BY <1>1, <1>2, <1>3, <1>4, <1>5, <1>6, <1>7, <1>8, <1>9, <1>10, <1>11,
     <1>12, <1>13, <1>14, <1>15, <1>16, <1>17, <1>18, <1>19, <1>20, <1>21,
     <1>22, <1>23 DEF Next, Run

-----------------------------------------------------------------------------

\* The strengthened invariant is inductive, by a case for each step of
\* common_run, of the signal handler and of the clock.
LEMMA Inductive == IInv /\ [Next]_vars => IInv'
<1> SUFFICES ASSUME IInv, [Next]_vars PROVE IInv'
  OBVIOUS
<1>0. TypeOK'
  BY TypeStep DEF IInv
<1> USE <1>0, ConnectionAssumption
    DEF ConnectionAssumption, IInv, TypeOK, PC, SockState, PaceInv, OwnInv,
        Held, PointerInv, StatsHoldsCurrent
<1>1. CASE Start
  BY <1>1 DEF Start
<1>2. CASE Sample
  <2>1. CASE pc' = "sleep"
    BY <1>2, <2>1 DEF Sample, BeginAttempt
  <2>2. CASE pc' = "create"
    <3>1. /\ until = 0 /\ until' = Period
          /\ age1' = 0 /\ age2' = age1
      BY <1>2, <2>2 DEF Sample, BeginAttempt
    <3>2. PaceInv'
      BY <2>2, <3>1
    <3> QED
      BY <1>2, <2>2, <3>2 DEF Sample, BeginAttempt
  <2> QED
    BY <1>2, <2>1, <2>2 DEF Sample, BeginAttempt
<1>3. CASE Wake
  BY <1>3 DEF Wake, BeginAttempt
<1>4. CASE Reuse
  BY <1>4 DEF Reuse
<1>5. ASSUME NEW h \in Handles, Construct(h) PROVE IInv'
  BY <1>5 DEF Construct
<1>6. CASE ConstructFails
  BY <1>6 DEF ConstructFails, Throw, Reap
<1>7. ASSUME NEW h \in Handles, ConstructOrphans(h) PROVE IInv'
  BY <1>7 DEF ConstructOrphans
<1>8. ASSUME NEW h \in Handles, ConstructUdp(h) PROVE IInv'
  BY <1>8 DEF ConstructUdp
<1>9. CASE ListenOk
  BY <1>9 DEF ListenOk
<1>10. CASE ListenFails
  BY <1>10 DEF ListenFails, Throw, Reap
<1>11. ASSUME NEW h \in Handles, Accept(h) PROVE IInv'
  BY <1>11 DEF Accept
<1>12. CASE Connect
  BY <1>12 DEF Connect
<1>13. CASE EstablishFails
  BY <1>13 DEF EstablishFails, Throw, Reap
<1>14. ASSUME NEW h \in Handles, AcceptOrphans(h) PROVE IInv'
  BY <1>14 DEF AcceptOrphans, Reap
<1>15. CASE Register
  BY <1>15 DEF Register, Reap
<1>16. CASE ProcessReturns
  BY <1>16 DEF ProcessReturns
<1>17. CASE ProcessThrows
  BY <1>17 DEF ProcessThrows, Throw, Reap
<1>18. CASE Unregister
  BY <1>18 DEF Unregister, Reap
<1>19. CASE Test
  BY <1>19 DEF Test, Reap, forceBreak
<1>20. CASE Interrupt
  BY <1>20 DEF Interrupt
<1>21. CASE Cleanup
  BY <1>21 DEF Cleanup
<1>22. CASE Tick
  BY <1>22 DEF Tick, Older
<1>23. CASE UNCHANGED vars
  BY <1>23 DEF vars
<1> QED
  BY <1>1, <1>2, <1>3, <1>4, <1>5, <1>6, <1>7, <1>8, <1>9, <1>10, <1>11,
     <1>12, <1>13, <1>14, <1>15, <1>16, <1>17, <1>18, <1>19, <1>20, <1>21,
     <1>22, <1>23 DEF Next, Run

\* The strengthened invariant holds of every reachable state.
LEMMA Invariant == Spec => []IInv
<1>1. Init => IInv
  BY TypeInit, ConnectionAssumption
  DEF ConnectionAssumption, Init, IInv, PaceInv, OwnInv, Held, PointerInv,
      StatsHoldsCurrent
<1> QED
  BY <1>1, Inductive, PTL DEF Spec

\* Every reachable state of common_run is well typed.
THEOREM TypeCorrect == Spec => []TypeOK
  BY Invariant, PTL DEF IInv

\* With close_listener no listening socket is open while a connection is used.
THEOREM ListenerClosed == Spec => []NoListenerWhileProcessing
<1>1. IInv => NoListenerWhileProcessing
  BY ConnectionAssumption
  DEF ConnectionAssumption, IInv, TypeOK, OwnInv, PointerInv,
      NoListenerWhileProcessing
<1> QED
  BY <1>1, Invariant, PTL

\* The stats writer keeps no connection beyond its use, unless processingFn
\* has thrown.
THEOREM StatsReleased == Spec => []StatsHoldsCurrent
  BY Invariant, PTL DEF IInv

\* An attempt to connect and the next but one are at least a second apart.
THEOREM Paced == Spec => AttemptsPaced
<1>1. IInv /\ [Next]_vars
        => [pc' = "create" /\ pc # "create" => age2 >= Period]_vars
  <2> SUFFICES ASSUME IInv, Next, pc' = "create", pc # "create"
               PROVE  age2 >= Period
    OBVIOUS
  <2>1. Sample \/ Wake
    BY DEF Next, Run, Start, Reuse, Construct, ConstructFails, Throw,
           ConstructOrphans, ConstructUdp, ListenOk, ListenFails, Accept,
           Connect, EstablishFails, AcceptOrphans, Register, ProcessReturns,
           ProcessThrows, Unregister, Test, Interrupt, Cleanup, Tick
  <2>2. until = 0
    BY <2>1 DEF Sample, Wake
  <2> QED
    BY <2>2, ConnectionAssumption
    DEF ConnectionAssumption, IInv, TypeOK, PaceInv
<1> QED
  BY <1>1, Invariant, PTL DEF Spec, AttemptsPaced
=============================================================================
