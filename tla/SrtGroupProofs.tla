--------------------------- MODULE SrtGroupProofs ---------------------------
(***************************************************************************)
(* The safety properties of SrtGroup hold for any number of targets, calls *)
(* of connect(), sockets of a member and scheduled prints.                 *)
(***************************************************************************)
EXTENDS SrtGroup, FiniteSetTheorems, TLAPS

\* A callback runs for a socket that has failed, and a socket that was removed
\* from the group is kept for its callback only.
CallbackInv ==
  \A s \in Slot : /\ cb[s] # "none" => st[s] \in {"broken", "removed"}
                  /\ st[s] = "removed" => cb[s] # "none"

\* Listeners never connect, callers never listen, and a callback of a listener
\* runs only while that one is listening.
ModeInv == /\ listens => connects = 0
           /\ main = "listening" => listens
           /\ ~listens => \A m \in Member : lsn[m] = "bound"
           /\ \A m \in hook : lsn[m] = "listening"

\* Before the first connect() there is nothing in the group, so that a blocking
\* one waits.
FirstInv == /\ connects = 0 => /\ \A s \in Slot : st[s] = "free"
                               /\ \A m \in Member : jobs[m] = 0
                               /\ timer \notin {"add", "wait"}
            /\ main \in {"adding", "waiting"} => connects > 0
            /\ main = "adding" /\ blocking /\ connects = 1 => mblock

\* Once the group is closed it has no member, and a callback that still runs has
\* been running since then.
CloseInv == /\ timer = "wait" => waits \in Slot
            /\ main \in {"join", "gone"}
                 => /\ \A s \in Slot : st[s] \in {"free", "removed"}
                    /\ (\E s \in Slot : cb[s] # "none") => overlap
                    /\ listens => \A m \in Member : lsn[m] = "closed"

\* The member is not started yet by the connect() that is going on.
ToCome(m) == IF main = "adding" /\ next <= m THEN 1 ELSE 0

\* That connect() has a share of the connections of the member still to come.
LinksInv == \A m \in Member : Links(m) + ToCome(m) <= connects

IInv == /\ TypeOK
        /\ CallbackInv
        /\ ModeInv
        /\ FirstInv
        /\ CloseInv
        /\ LinksInv
        /\ DanglingOnlyIfOverlap

-----------------------------------------------------------------------------
(* Counting. *)

\* The sockets that count as connections of member m.
Linked(m) == {s \in Slot : s[1] = m /\ (st[s] \in {"pending", "up"}
                                        \/ cb[s] # "none")}

\* A socket belongs to a member, and there are finitely many sockets.
LEMMA SlotFacts == /\ \A s \in Slot : s[1] \in Member
                   /\ IsFiniteSet(Slot)
<1>1. IsFiniteSet(Member) /\ IsFiniteSet(1 .. Socks)
  BY SrtGroupAssumption, FS_Interval DEF SrtGroupAssumption, Member
<1> QED
  BY <1>1, FS_Product DEF Slot

\* The sockets of a member can be counted, before and after a step: fewer
\* sockets are no more connections, and one socket is one connection.
LEMMA CountFacts ==
  ASSUME NEW m \in Member
  PROVE  /\ Cardinality(Linked(m)) \in Nat /\ Cardinality(Linked(m)') \in Nat
         /\ Linked(m)' \subseteq Linked(m)
              => Cardinality(Linked(m)') <= Cardinality(Linked(m))
         /\ \A s \in Slot :
              /\ Linked(m)' = Linked(m) \cup {s} 
                   => Cardinality(Linked(m)') <= Cardinality(Linked(m)) + 1
              /\ Linked(m)' = Linked(m) \ {s} /\ s \in Linked(m)
                   => Cardinality(Linked(m)') = Cardinality(Linked(m)) - 1
<1>1. IsFiniteSet(Linked(m)) /\ IsFiniteSet(Linked(m)')
  <2>1. Linked(m) \subseteq Slot /\ Linked(m)' \subseteq Slot
    BY DEF Linked
  <2> QED
    BY <2>1, SlotFacts, FS_Subset
<1>2. Cardinality(Linked(m)) \in Nat /\ Cardinality(Linked(m)') \in Nat
  BY <1>1, FS_CardinalityType
<1>3. Linked(m)' \subseteq Linked(m)
        => Cardinality(Linked(m)') <= Cardinality(Linked(m))
  BY <1>1, FS_Subset
<1>4. ASSUME NEW s \in Slot, Linked(m)' = Linked(m) \cup {s}
      PROVE  Cardinality(Linked(m)') <= Cardinality(Linked(m)) + 1
  BY <1>1, <1>2, <1>4, FS_AddElement
<1>5. ASSUME NEW s \in Slot, Linked(m)' = Linked(m) \ {s}, s \in Linked(m)
      PROVE  Cardinality(Linked(m)') = Cardinality(Linked(m)) - 1
  BY <1>1, <1>2, <1>5, FS_RemoveElement
<1> QED
  BY <1>2, <1>3, <1>4, <1>5

\* The connections of a member are its sockets and its tasks.
LEMMA LinksSum ==
  ASSUME NEW m \in Member
  PROVE  /\ Links(m) = Cardinality(Linked(m)) + jobs[m]
                         + (IF timer = "add" /\ job = m THEN 1 ELSE 0)
         /\ Links(m)' = Cardinality(Linked(m)') + jobs'[m]
                          + (IF timer' = "add" /\ job' = m THEN 1 ELSE 0)
BY DEF Links, Linked

-----------------------------------------------------------------------------
(* The steps. *)

\* Each action preserves what callbacks and sockets know of each other.
LEMMA CallbackStep == TypeOK /\ CallbackInv /\ CloseInv /\ [Next]_vars =>
    CallbackInv'
<1> SUFFICES ASSUME TypeOK, CallbackInv, CloseInv, [Next]_vars PROVE
    CallbackInv'
  OBVIOUS
<1> USE DEF TypeOK, CallbackInv, CloseInv, mainVars, timerVars, linkVars,
    modeVars, lsnVars, histVars
<1>1. CASE Connect \/ AddMemberFails \/ AllAdded \/ ConnectReturns \/ Listen \/
    AcceptEnds \/ Destroy \/ JoinScheduler \/ JobFails \/ PrintStart \/
    PrintEnd
  BY <1>1 DEF Connect, AddMemberFails, AllAdded, ConnectReturns, Listen,
      AcceptEnds, Destroy, JoinScheduler, JobFails, PrintStart, PrintEnd
<1>2. CASE ConnectFails
  BY <1>2 DEF ConnectFails, Removed
<1>3. CASE CloseGroup
  BY <1>3 DEF CloseGroup, Removed
<1>4. CASE JobReturns
  BY <1>4 DEF JobReturns, Removed
<1>5. ASSUME NEW s \in Slot, AddMember(s) PROVE CallbackInv'
  BY <1>5 DEF AddMember, NewSocket
<1>6. ASSUME NEW s \in Slot, AddMemberBreaks(s) PROVE CallbackInv'
  BY <1>6 DEF AddMemberBreaks, NewSocket
<1>7. ASSUME NEW s \in Slot, JobAdd(s) PROVE CallbackInv'
  BY <1>7 DEF JobAdd, NewSocket
<1>8. ASSUME NEW s \in Slot, LinkUp(s) PROVE CallbackInv'
  BY <1>8 DEF LinkUp
<1>9. ASSUME NEW s \in Slot, LinkBreaks(s) PROVE CallbackInv'
  BY <1>9 DEF LinkBreaks
<1>10. ASSUME NEW s \in Slot, RemoveBroken(s) PROVE CallbackInv'
  BY <1>10 DEF RemoveBroken, Removed
<1>11. ASSUME NEW s \in Slot, FindTarget(s) PROVE CallbackInv'
  BY <1>11 DEF FindTarget, Return
<1>12. ASSUME NEW s \in Slot, Schedule(s) PROVE CallbackInv'
  BY <1>12 DEF Schedule, Return
<1>13. ASSUME NEW m \in Member, CloseListener(m) \/ JobStart(m) \/ NewMember(m)
    \/ SchedulePrint(m) PROVE CallbackInv'
  BY <1>13 DEF CloseListener, JobStart, NewMember, SchedulePrint
<1>14. CASE UNCHANGED vars
  BY <1>14 DEF vars
<1> QED
  BY <1>1, <1>2, <1>3, <1>4, <1>5, <1>6, <1>7, <1>8, <1>9, <1>10, <1>11, <1>12,
      <1>13, <1>14 DEF Next, Main, Timer, Library

\* Each action preserves the separation of callers and listeners.
LEMMA ModeStep == TypeOK /\ ModeInv /\ FirstInv /\ [Next]_vars => ModeInv'
<1> SUFFICES ASSUME TypeOK, ModeInv, FirstInv, [Next]_vars PROVE ModeInv'
  OBVIOUS
<1> USE SrtGroupAssumption DEF SrtGroupAssumption, TypeOK, ModeInv, FirstInv,
    Member, mainVars, timerVars, linkVars, modeVars, lsnVars, histVars
<1>1. CASE Connect
  BY <1>1 DEF Connect
<1>2. CASE AddMemberFails
  BY <1>2 DEF AddMemberFails
<1>3. CASE AllAdded
  BY <1>3 DEF AllAdded
<1>4. CASE ConnectReturns
  BY <1>4 DEF ConnectReturns
<1>5. CASE ConnectFails
  BY <1>5 DEF ConnectFails
<1>6. CASE Listen
  BY <1>6 DEF Listen
<1>7. CASE AcceptEnds
  BY <1>7 DEF AcceptEnds
<1>8. CASE Destroy
  BY <1>8 DEF Destroy
<1>9. CASE CloseGroup
  BY <1>9 DEF CloseGroup
<1>10. CASE JoinScheduler
  BY <1>10 DEF JoinScheduler
<1>11. CASE JobFails
  BY <1>11 DEF JobFails
<1>12. CASE JobReturns
  BY <1>12 DEF JobReturns
<1>13. CASE PrintStart
  BY <1>13 DEF PrintStart
<1>14. CASE PrintEnd
  BY <1>14 DEF PrintEnd
<1>15. ASSUME NEW s \in Slot, AddMember(s) PROVE ModeInv'
  BY <1>15 DEF AddMember
<1>16. ASSUME NEW s \in Slot, AddMemberBreaks(s) PROVE ModeInv'
  BY <1>16 DEF AddMemberBreaks
<1>17. ASSUME NEW s \in Slot, JobAdd(s) PROVE ModeInv'
  BY <1>17 DEF JobAdd
<1>18. ASSUME NEW s \in Slot, LinkUp(s) PROVE ModeInv'
  BY <1>18 DEF LinkUp
<1>19. ASSUME NEW s \in Slot, LinkBreaks(s) PROVE ModeInv'
  BY <1>19 DEF LinkBreaks
<1>20. ASSUME NEW s \in Slot, RemoveBroken(s) PROVE ModeInv'
  BY <1>20 DEF RemoveBroken
<1>21. ASSUME NEW s \in Slot, FindTarget(s) PROVE ModeInv'
  BY <1>21 DEF FindTarget
<1>22. ASSUME NEW s \in Slot, Schedule(s) PROVE ModeInv'
  BY <1>22 DEF Schedule
<1>23. ASSUME NEW m \in Member, CloseListener(m) PROVE ModeInv'
  BY <1>23 DEF CloseListener
<1>24. ASSUME NEW m \in Member, JobStart(m) PROVE ModeInv'
  BY <1>24 DEF JobStart
<1>25. ASSUME NEW m \in Member, NewMember(m) PROVE ModeInv'
  BY <1>25 DEF NewMember
<1>26. ASSUME NEW m \in Member, SchedulePrint(m) PROVE ModeInv'
  BY <1>26 DEF SchedulePrint
<1>27. CASE UNCHANGED vars
  BY <1>27 DEF vars
<1> QED
  BY <1>1, <1>2, <1>3, <1>4, <1>5, <1>6, <1>7, <1>8, <1>9, <1>10, <1>11, <1>12,
      <1>13, <1>14, <1>15, <1>16, <1>17, <1>18, <1>19, <1>20, <1>21, <1>22,
      <1>23, <1>24, <1>25, <1>26, <1>27 DEF Next, Main, Timer, Library

\* Each action preserves what is known before the first connect() has returned.
LEMMA FirstStep == TypeOK /\ CallbackInv /\ FirstInv /\ CloseInv /\ [Next]_vars
    => FirstInv'
<1> SUFFICES ASSUME TypeOK, CallbackInv, FirstInv, CloseInv, [Next]_vars PROVE
    FirstInv'
  OBVIOUS
<1> USE SrtGroupAssumption, SlotFacts DEF SrtGroupAssumption, TypeOK,
    CallbackInv, FirstInv, CloseInv, mainVars, timerVars, linkVars, modeVars,
    lsnVars, histVars
<1>1. CASE Connect
  BY <1>1 DEF Connect, opened, InGroup
<1>2. CASE AddMemberFails
  BY <1>2 DEF AddMemberFails
<1>3. CASE AllAdded
  BY <1>3 DEF AllAdded
<1>4. CASE ConnectReturns
  BY <1>4 DEF ConnectReturns
<1>5. CASE ConnectFails
  BY <1>5 DEF ConnectFails, Removed
<1>6. CASE Listen
  BY <1>6 DEF Listen
<1>7. CASE AcceptEnds
  BY <1>7 DEF AcceptEnds
<1>8. CASE Destroy
  BY <1>8 DEF Destroy
<1>9. CASE CloseGroup
  BY <1>9 DEF CloseGroup, Removed
<1>10. CASE JoinScheduler
  BY <1>10 DEF JoinScheduler
<1>11. CASE JobFails
  BY <1>11 DEF JobFails
<1>12. CASE JobReturns
  BY <1>12 DEF JobReturns, Removed
<1>13. CASE PrintStart
  BY <1>13 DEF PrintStart
<1>14. CASE PrintEnd
  BY <1>14 DEF PrintEnd
<1>15. ASSUME NEW s \in Slot, AddMember(s) PROVE FirstInv'
  BY <1>15 DEF AddMember, NewSocket
<1>16. ASSUME NEW s \in Slot, AddMemberBreaks(s) PROVE FirstInv'
  BY <1>16 DEF AddMemberBreaks, NewSocket
<1>17. ASSUME NEW s \in Slot, JobAdd(s) PROVE FirstInv'
  BY <1>17 DEF JobAdd, NewSocket
<1>18. ASSUME NEW s \in Slot, LinkUp(s) PROVE FirstInv'
  BY <1>18 DEF LinkUp
<1>19. ASSUME NEW s \in Slot, LinkBreaks(s) PROVE FirstInv'
  BY <1>19 DEF LinkBreaks
<1>20. ASSUME NEW s \in Slot, RemoveBroken(s) PROVE FirstInv'
  BY <1>20 DEF RemoveBroken, Removed
<1>21. ASSUME NEW s \in Slot, FindTarget(s) PROVE FirstInv'
  BY <1>21 DEF FindTarget, Return
<1>22. ASSUME NEW s \in Slot, Schedule(s) PROVE FirstInv'
  BY <1>22 DEF Schedule, Return
<1>23. ASSUME NEW m \in Member, CloseListener(m) PROVE FirstInv'
  BY <1>23 DEF CloseListener
<1>24. ASSUME NEW m \in Member, JobStart(m) PROVE FirstInv'
  BY <1>24 DEF JobStart
<1>25. ASSUME NEW m \in Member, NewMember(m) PROVE FirstInv'
  BY <1>25 DEF NewMember
<1>26. ASSUME NEW m \in Member, SchedulePrint(m) PROVE FirstInv'
  BY <1>26 DEF SchedulePrint
<1>27. CASE UNCHANGED vars
  BY <1>27 DEF vars
<1> QED
  BY <1>1, <1>2, <1>3, <1>4, <1>5, <1>6, <1>7, <1>8, <1>9, <1>10, <1>11, <1>12,
      <1>13, <1>14, <1>15, <1>16, <1>17, <1>18, <1>19, <1>20, <1>21, <1>22,
      <1>23, <1>24, <1>25, <1>26, <1>27 DEF Next, Main, Timer, Library

\* Each action preserves that a closed group has no member and gets none: a task
\* of the timer thread finds the group closed, and no callback begins.
LEMMA CloseStep == TypeOK /\ CallbackInv /\ ModeInv /\ CloseInv /\ [Next]_vars
    => CloseInv'
<1> SUFFICES ASSUME TypeOK, CallbackInv, ModeInv, CloseInv, [Next]_vars PROVE
    CloseInv'
  OBVIOUS
<1> USE DEF TypeOK, CallbackInv, ModeInv, CloseInv, mainVars, timerVars,
    linkVars, modeVars, lsnVars, histVars
<1>1. CASE Connect
  BY <1>1 DEF Connect, opened, InGroup
<1>2. CASE AddMemberFails
  BY <1>2 DEF AddMemberFails
<1>3. CASE AllAdded
  BY <1>3 DEF AllAdded
<1>4. CASE ConnectReturns
  BY <1>4 DEF ConnectReturns
<1>5. CASE ConnectFails
  BY <1>5 DEF ConnectFails, Removed
<1>6. CASE Listen
  BY <1>6 DEF Listen
<1>7. CASE AcceptEnds
  BY <1>7 DEF AcceptEnds
<1>8. CASE Destroy
  BY <1>8 DEF Destroy
<1>9. CASE CloseGroup
  BY <1>9 DEF CloseGroup, Removed
<1>10. CASE JoinScheduler
  BY <1>10 DEF JoinScheduler
<1>11. CASE JobFails
  BY <1>11 DEF JobFails
<1>12. CASE JobReturns
  BY <1>12 DEF JobReturns, Removed
<1>13. CASE PrintStart
  BY <1>13 DEF PrintStart
<1>14. CASE PrintEnd
  BY <1>14 DEF PrintEnd
<1>15. ASSUME NEW s \in Slot, AddMember(s) PROVE CloseInv'
  BY <1>15 DEF AddMember, NewSocket
<1>16. ASSUME NEW s \in Slot, AddMemberBreaks(s) PROVE CloseInv'
  BY <1>16 DEF AddMemberBreaks, NewSocket
<1>17. ASSUME NEW s \in Slot, JobAdd(s) PROVE CloseInv'
  BY <1>17 DEF JobAdd, NewSocket
<1>18. ASSUME NEW s \in Slot, LinkUp(s) PROVE CloseInv'
  BY <1>18 DEF LinkUp
<1>19. ASSUME NEW s \in Slot, LinkBreaks(s) PROVE CloseInv'
  BY <1>19 DEF LinkBreaks
<1>20. ASSUME NEW s \in Slot, RemoveBroken(s) PROVE CloseInv'
  BY <1>20 DEF RemoveBroken, Removed
<1>21. ASSUME NEW s \in Slot, FindTarget(s) PROVE CloseInv'
  BY <1>21 DEF FindTarget, Return
<1>22. ASSUME NEW s \in Slot, Schedule(s) PROVE CloseInv'
  BY <1>22 DEF Schedule, Return
<1>23. ASSUME NEW m \in Member, CloseListener(m) PROVE CloseInv'
  BY <1>23 DEF CloseListener
<1>24. ASSUME NEW m \in Member, JobStart(m) PROVE CloseInv'
  BY <1>24 DEF JobStart
<1>25. ASSUME NEW m \in Member, NewMember(m) PROVE CloseInv'
  BY <1>25 DEF NewMember
<1>26. ASSUME NEW m \in Member, SchedulePrint(m) PROVE CloseInv'
  BY <1>26 DEF SchedulePrint
<1>27. CASE UNCHANGED vars
  BY <1>27 DEF vars
<1> QED
  BY <1>1, <1>2, <1>3, <1>4, <1>5, <1>6, <1>7, <1>8, <1>9, <1>10, <1>11, <1>12,
      <1>13, <1>14, <1>15, <1>16, <1>17, <1>18, <1>19, <1>20, <1>21, <1>22,
      <1>23, <1>24, <1>25, <1>26, <1>27 DEF Next, Main, Timer, Library

\* Each action preserves DanglingOnlyIfOverlap.  The callback of a listener
\* cannot run any more, and that of a caller has been running since the closing.
LEMMA DanglingStep == TypeOK /\ CallbackInv /\ ModeInv /\ FirstInv /\ CloseInv
    /\ DanglingOnlyIfOverlap /\ [Next]_vars => DanglingOnlyIfOverlap'
<1> SUFFICES ASSUME TypeOK, CallbackInv, ModeInv, FirstInv, CloseInv,
    DanglingOnlyIfOverlap, [Next]_vars PROVE DanglingOnlyIfOverlap'
  OBVIOUS
<1> USE DEF TypeOK, CallbackInv, ModeInv, FirstInv, CloseInv,
    DanglingOnlyIfOverlap, mainVars, timerVars, linkVars, modeVars, lsnVars,
    histVars
<1>1. CASE Connect \/ AddMemberFails \/ AllAdded \/ ConnectReturns \/
    ConnectFails \/ Listen \/ AcceptEnds \/ Destroy \/ JoinScheduler \/
    JobFails \/ JobReturns \/ PrintStart \/ PrintEnd
  BY <1>1 DEF Connect, AddMemberFails, AllAdded, ConnectReturns, ConnectFails,
      Listen, AcceptEnds, Destroy, JoinScheduler, JobFails, JobReturns,
      PrintStart, PrintEnd
<1>2. CASE CloseGroup
  BY <1>2 DEF CloseGroup
<1>3. ASSUME NEW s \in Slot, AddMember(s) \/ AddMemberBreaks(s) \/ JobAdd(s) \/
    LinkUp(s) \/ LinkBreaks(s) \/ RemoveBroken(s) PROVE DanglingOnlyIfOverlap'
  BY <1>3 DEF AddMember, AddMemberBreaks, JobAdd, LinkUp, LinkBreaks,
      RemoveBroken
<1>4. ASSUME NEW s \in Slot, FindTarget(s) PROVE DanglingOnlyIfOverlap'
  <2>1. dangling' => dangling \/ main = "gone"
    BY <1>4 DEF FindTarget
  <2>2. UNCHANGED <<overlap, listens>>
    BY <1>4 DEF FindTarget
  <2>3. main = "gone" => overlap
    BY <1>4 DEF FindTarget
  <2>4. ~listens
    BY <1>4 DEF FindTarget
  <2> QED
    BY <2>1, <2>2, <2>3, <2>4
<1>5. ASSUME NEW s \in Slot, Schedule(s) PROVE DanglingOnlyIfOverlap'
  <2>1. dangling' => dangling \/ main = "gone"
    BY <1>5 DEF Schedule
  <2>2. UNCHANGED <<overlap, listens>>
    BY <1>5 DEF Schedule
  <2>3. main = "gone" => overlap
    BY <1>5 DEF Schedule
  <2>4. ~listens
    BY <1>5 DEF Schedule
  <2> QED
    BY <2>1, <2>2, <2>3, <2>4
<1>6. ASSUME NEW m \in Member, CloseListener(m) \/ JobStart(m) \/ NewMember(m)
    PROVE DanglingOnlyIfOverlap'
  BY <1>6 DEF CloseListener, JobStart, NewMember
<1>7. ASSUME NEW m \in Member, SchedulePrint(m) PROVE DanglingOnlyIfOverlap'
  BY <1>7 DEF SchedulePrint
<1>8. CASE UNCHANGED vars
  BY <1>8 DEF vars
<1> QED
  BY <1>1, <1>2, <1>3, <1>4, <1>5, <1>6, <1>7, <1>8 DEF Next, Main, Timer,
      Library

\* Each action preserves the bound of the connections of a member.  A callback
\* hands its share to a task, the task to a socket, and connect() brings one of
\* its own; AddMember and JobAdd use a socket that counts for nothing yet.
LEMMA LinksStep ==
  TypeOK /\ CallbackInv /\ CloseInv /\ LinksInv /\ [Next]_vars
    => LinksInv' /\ jobs' \in [Member -> Nat] /\ connects' \in 0 .. MaxConnects
<1> DEFINE Goal == /\ LinksInv'
                   /\ jobs' \in [Member -> Nat]
                   /\ connects' \in 0 .. MaxConnects
<1> SUFFICES ASSUME TypeOK, CallbackInv, CloseInv, LinksInv, [Next]_vars
             PROVE  Goal
  OBVIOUS
<1> USE SrtGroupAssumption, SlotFacts DEF SrtGroupAssumption, TypeOK,
    CallbackInv, CloseInv, LinksInv, mainVars, timerVars, linkVars, modeVars,
    lsnVars, histVars
<1>1. CASE Connect
  <2>1. jobs' \in [Member -> Nat] /\ connects' \in 0 .. MaxConnects
    BY <1>1 DEF Connect
  <2>2. ASSUME NEW m \in Member PROVE Links(m)' + ToCome(m)' <= connects'
    <3>1. Linked(m)' \subseteq Linked(m)
      BY <1>1 DEF Connect, Linked
    <3> QED
      BY <1>1, <2>1, <3>1, CountFacts, LinksSum DEF Connect, ToCome
  <2> QED
    BY <2>1, <2>2 DEF LinksInv
<1>2. CASE AddMemberFails
  <2>1. jobs' \in [Member -> Nat] /\ connects' \in 0 .. MaxConnects
    BY <1>2 DEF AddMemberFails
  <2>2. ASSUME NEW m \in Member PROVE Links(m)' + ToCome(m)' <= connects'
    <3>1. Linked(m)' \subseteq Linked(m)
      BY <1>2 DEF AddMemberFails, Linked
    <3>2. Links(m) \in Nat /\ Links(m)' \in Nat
      BY <1>2, <2>1, CountFacts, LinksSum DEF AddMemberFails
    <3>3. Links(m)' <= Links(m)
      BY <1>2, <2>1, <3>1, CountFacts, LinksSum DEF AddMemberFails
    <3>4. /\ ToCome(m) = IF m = next THEN 1 ELSE ToCome(m)'
          /\ ToCome(m)' \in {0, 1} /\ (m = next => ToCome(m)' = 0)
      BY <1>2 DEF AddMemberFails, ToCome, Member
    <3>5. Links(m) + ToCome(m) <= connects /\ connects' = connects
      BY <1>2 DEF AddMemberFails
    <3> QED
      BY <3>2, <3>3, <3>4, <3>5
  <2> QED
    BY <2>1, <2>2 DEF LinksInv
<1>3. CASE AllAdded \/ ConnectReturns \/ Listen \/ AcceptEnds \/ Destroy \/
    PrintStart \/ PrintEnd
  <2>1. jobs' \in [Member -> Nat] /\ connects' \in 0 .. MaxConnects
    BY <1>3 DEF AllAdded, ConnectReturns, Listen, AcceptEnds, Destroy,
        PrintStart, PrintEnd
  <2>2. ASSUME NEW m \in Member PROVE Links(m)' + ToCome(m)' <= connects'
    <3>1. Linked(m)' \subseteq Linked(m)
      BY <1>3 DEF AllAdded, ConnectReturns, Listen, AcceptEnds, Destroy,
          PrintStart, PrintEnd, Linked
    <3> QED
      BY <1>3, <2>1, <3>1, CountFacts, LinksSum DEF AllAdded, ConnectReturns,
          Listen, AcceptEnds, Destroy, PrintStart, PrintEnd, ToCome
  <2> QED
    BY <2>1, <2>2 DEF LinksInv
<1>4. CASE ConnectFails
  <2>1. jobs' \in [Member -> Nat] /\ connects' \in 0 .. MaxConnects
    BY <1>4 DEF ConnectFails
  <2>2. ASSUME NEW m \in Member PROVE Links(m)' + ToCome(m)' <= connects'
    <3>1. Linked(m)' \subseteq Linked(m)
      BY <1>4 DEF ConnectFails, Removed, Linked
    <3> QED
      BY <1>4, <2>1, <3>1, CountFacts, LinksSum DEF ConnectFails, ToCome
  <2> QED
    BY <2>1, <2>2 DEF LinksInv
<1>5. CASE CloseGroup
  <2>1. jobs' \in [Member -> Nat] /\ connects' \in 0 .. MaxConnects
    BY <1>5 DEF CloseGroup
  <2>2. ASSUME NEW m \in Member PROVE Links(m)' + ToCome(m)' <= connects'
    <3>1. Linked(m)' \subseteq Linked(m)
      BY <1>5 DEF CloseGroup, Removed, Linked
    <3> QED
      BY <1>5, <2>1, <3>1, CountFacts, LinksSum DEF CloseGroup, ToCome
  <2> QED
    BY <2>1, <2>2 DEF LinksInv
<1>6. CASE JoinScheduler
  <2>1. jobs' \in [Member -> Nat] /\ connects' \in 0 .. MaxConnects
    BY <1>6 DEF JoinScheduler
  <2>2. ASSUME NEW m \in Member PROVE Links(m)' + ToCome(m)' <= connects'
    <3>1. Linked(m)' \subseteq Linked(m)
      BY <1>6 DEF JoinScheduler, Linked
    <3> QED
      BY <1>6, <2>1, <3>1, CountFacts, LinksSum DEF JoinScheduler, ToCome
  <2> QED
    BY <2>1, <2>2 DEF LinksInv
<1>7. CASE JobFails
  <2>1. jobs' \in [Member -> Nat] /\ connects' \in 0 .. MaxConnects
    BY <1>7 DEF JobFails
  <2>2. ASSUME NEW m \in Member PROVE Links(m)' + ToCome(m)' <= connects'
    <3>1. Linked(m)' \subseteq Linked(m)
      BY <1>7 DEF JobFails, Linked
    <3> QED
      BY <1>7, <2>1, <3>1, CountFacts, LinksSum DEF JobFails, ToCome
  <2> QED
    BY <2>1, <2>2 DEF LinksInv
<1>8. CASE JobReturns
  <2>1. jobs' \in [Member -> Nat] /\ connects' \in 0 .. MaxConnects
    BY <1>8 DEF JobReturns
  <2>2. ASSUME NEW m \in Member PROVE Links(m)' + ToCome(m)' <= connects'
    <3>1. Linked(m)' \subseteq Linked(m)
      BY <1>8 DEF JobReturns, Removed, Linked
    <3> QED
      BY <1>8, <2>1, <3>1, CountFacts, LinksSum DEF JobReturns, ToCome
  <2> QED
    BY <2>1, <2>2 DEF LinksInv
<1>9. ASSUME NEW s \in Slot, AddMember(s) PROVE Goal
  <2>1. jobs' \in [Member -> Nat] /\ connects' \in 0 .. MaxConnects
    BY <1>9 DEF AddMember
  <2>2. ASSUME NEW m \in Member PROVE Links(m)' + ToCome(m)' <= connects'
    <3>1. IF m = next THEN Linked(m)' = Linked(m) \cup {s} ELSE Linked(m)' =
        Linked(m)
      BY <1>9 DEF AddMember, NewSocket, Linked
    <3>2. Links(m) \in Nat /\ Links(m)' \in Nat
      BY <1>9, <2>1, CountFacts, LinksSum DEF AddMember
    <3>3. Links(m)' <= Links(m) + (IF m = next THEN 1 ELSE 0)
      BY <1>9, <2>1, <3>1, CountFacts, LinksSum DEF AddMember
    <3>4. /\ ToCome(m) = IF m = next THEN 1 ELSE ToCome(m)'
          /\ ToCome(m)' \in {0, 1} /\ (m = next => ToCome(m)' = 0)
      BY <1>9 DEF AddMember, ToCome, Member
    <3>5. Links(m) + ToCome(m) <= connects /\ connects' = connects
      BY <1>9 DEF AddMember
    <3> QED
      BY <3>2, <3>3, <3>4, <3>5
  <2> QED
    BY <2>1, <2>2 DEF LinksInv
<1>10. ASSUME NEW s \in Slot, AddMemberBreaks(s) PROVE Goal
  <2>1. jobs' \in [Member -> Nat] /\ connects' \in 0 .. MaxConnects
    BY <1>10 DEF AddMemberBreaks
  <2>2. ASSUME NEW m \in Member PROVE Links(m)' + ToCome(m)' <= connects'
    <3>1. IF m = next THEN Linked(m)' = Linked(m) \cup {s} ELSE Linked(m)' =
        Linked(m)
      BY <1>10 DEF AddMemberBreaks, NewSocket, Linked
    <3>2. Links(m) \in Nat /\ Links(m)' \in Nat
      BY <1>10, <2>1, CountFacts, LinksSum DEF AddMemberBreaks
    <3>3. Links(m)' <= Links(m) + (IF m = next THEN 1 ELSE 0)
      BY <1>10, <2>1, <3>1, CountFacts, LinksSum DEF AddMemberBreaks
    <3>4. /\ ToCome(m) = IF m = next THEN 1 ELSE ToCome(m)'
          /\ ToCome(m)' \in {0, 1} /\ (m = next => ToCome(m)' = 0)
      BY <1>10 DEF AddMemberBreaks, ToCome, Member
    <3>5. Links(m) + ToCome(m) <= connects /\ connects' = connects
      BY <1>10 DEF AddMemberBreaks
    <3> QED
      BY <3>2, <3>3, <3>4, <3>5
  <2> QED
    BY <2>1, <2>2 DEF LinksInv
<1>11. ASSUME NEW s \in Slot, JobAdd(s) PROVE Goal
  <2>1. jobs' \in [Member -> Nat] /\ connects' \in 0 .. MaxConnects
    BY <1>11 DEF JobAdd
  <2>2. ASSUME NEW m \in Member PROVE Links(m)' + ToCome(m)' <= connects'
    <3>1. IF m = job THEN Linked(m)' = Linked(m) \cup {s} ELSE Linked(m)' =
        Linked(m)
      BY <1>11 DEF JobAdd, NewSocket, Linked
    <3> QED
      BY <1>11, <2>1, <3>1, CountFacts, LinksSum DEF JobAdd, ToCome
  <2> QED
    BY <2>1, <2>2 DEF LinksInv
<1>12. ASSUME NEW s \in Slot, LinkUp(s) \/ LinkBreaks(s) \/ RemoveBroken(s)
       PROVE  Goal
  <2>1. jobs' \in [Member -> Nat] /\ connects' \in 0 .. MaxConnects
    BY <1>12 DEF LinkUp, LinkBreaks, RemoveBroken
  <2>2. ASSUME NEW m \in Member PROVE Links(m)' + ToCome(m)' <= connects'
    <3>1. Linked(m)' \subseteq Linked(m)
      BY <1>12 DEF LinkUp, LinkBreaks, RemoveBroken, Removed, Linked
    <3> QED
      BY <1>12, <2>1, <3>1, CountFacts, LinksSum DEF LinkUp, LinkBreaks,
          RemoveBroken, ToCome
  <2> QED
    BY <2>1, <2>2 DEF LinksInv
<1>13. ASSUME NEW s \in Slot, FindTarget(s) PROVE Goal
  <2>1. jobs' \in [Member -> Nat] /\ connects' \in 0 .. MaxConnects
    BY <1>13 DEF FindTarget
  <2>2. ASSUME NEW m \in Member PROVE Links(m)' + ToCome(m)' <= connects'
    <3>1. Linked(m)' \subseteq Linked(m)
      BY <1>13 DEF FindTarget, Return, Linked
    <3> QED
      BY <1>13, <2>1, <3>1, CountFacts, LinksSum DEF FindTarget, ToCome
  <2> QED
    BY <2>1, <2>2 DEF LinksInv
<1>14. ASSUME NEW s \in Slot, Schedule(s) PROVE Goal
  <2>1. jobs' \in [Member -> Nat] /\ connects' \in 0 .. MaxConnects
    BY <1>14 DEF Schedule
  <2>2. ASSUME NEW m \in Member PROVE Links(m)' + ToCome(m)' <= connects'
    <3>1. IF m = s[1] THEN Linked(m)' = Linked(m) \ {s} /\ s \in Linked(m) ELSE
        Linked(m)' = Linked(m)
      BY <1>14 DEF Schedule, Return, Linked
    <3> QED
      BY <1>14, <2>1, <3>1, CountFacts, LinksSum DEF Schedule, ToCome
  <2> QED
    BY <2>1, <2>2 DEF LinksInv
<1>15. ASSUME NEW k \in Member, JobStart(k) PROVE Goal
  <2>1. jobs' \in [Member -> Nat] /\ connects' \in 0 .. MaxConnects
    BY <1>15 DEF JobStart
  <2>2. ASSUME NEW m \in Member PROVE Links(m)' + ToCome(m)' <= connects'
    <3>1. Linked(m)' \subseteq Linked(m)
      BY <1>15 DEF JobStart, Linked
    <3> QED
      BY <1>15, <2>1, <3>1, CountFacts, LinksSum DEF JobStart, ToCome
  <2> QED
    BY <2>1, <2>2 DEF LinksInv
<1>16. ASSUME NEW k \in Member, CloseListener(k) \/ NewMember(k) \/
    SchedulePrint(k) PROVE Goal
  <2>1. jobs' \in [Member -> Nat] /\ connects' \in 0 .. MaxConnects
    BY <1>16 DEF CloseListener, NewMember, SchedulePrint
  <2>2. ASSUME NEW m \in Member PROVE Links(m)' + ToCome(m)' <= connects'
    <3>1. Linked(m)' \subseteq Linked(m)
      BY <1>16 DEF CloseListener, NewMember, SchedulePrint, Linked
    <3> QED
      BY <1>16, <2>1, <3>1, CountFacts, LinksSum DEF CloseListener, NewMember,
          SchedulePrint, ToCome
  <2> QED
    BY <2>1, <2>2 DEF LinksInv
<1>17. CASE UNCHANGED vars
  BY <1>17 DEF vars, Links, ToCome
<1> QED
  BY <1>1, <1>2, <1>3, <1>4, <1>5, <1>6, <1>7, <1>8, <1>9, <1>10, <1>11, <1>12,
      <1>13, <1>14, <1>15, <1>16, <1>17 DEF Next, Main, Timer, Library


\* Each action preserves the types.  That a member has no more tasks than there
\* were calls of connect() follows from the bound of its connections.
LEMMA TypeStep ==
  TypeOK /\ CallbackInv /\ CloseInv /\ LinksInv /\ [Next]_vars => TypeOK'
<1> SUFFICES ASSUME TypeOK, CallbackInv, CloseInv, LinksInv, [Next]_vars
             PROVE  TypeOK'
  OBVIOUS
<1>0. jobs' \in [Member -> 0 .. MaxConnects]
  <2>1. jobs' \in [Member -> Nat] /\ connects' \in 0 .. MaxConnects /\ LinksInv'
    BY LinksStep
  <2>2. ASSUME NEW m \in Member PROVE jobs'[m] <= connects'
    <3>1. Links(m)' + ToCome(m)' <= connects'
      BY <2>1 DEF LinksInv
    <3> QED
      BY <2>1, <3>1, CountFacts, LinksSum DEF ToCome
  <2> QED
    BY <2>1, <2>2, SrtGroupAssumption DEF SrtGroupAssumption
<1> USE SrtGroupAssumption, SlotFacts, <1>0 DEF SrtGroupAssumption, TypeOK,
    CloseInv, Member, mainVars, timerVars, linkVars, modeVars, lsnVars, histVars
<1>1. CASE Connect
  BY <1>1 DEF Connect
<1>2. CASE AddMemberFails
  BY <1>2 DEF AddMemberFails
<1>3. CASE AllAdded
  <2>1. main' \in {"idle", "waiting", "connected"}
    BY <1>3 DEF AllAdded
  <2>2. mblock' \in BOOLEAN
    BY <1>3 DEF AllAdded
  <2>3. spawned' \subseteq Slot
    BY <1>3 DEF AllAdded
  <2> QED
    BY <1>3, <2>1, <2>2, <2>3 DEF AllAdded
<1>4. CASE ConnectReturns
  BY <1>4 DEF ConnectReturns
<1>5. CASE ConnectFails
  BY <1>5 DEF ConnectFails, Removed
<1>6. CASE Listen
  BY <1>6 DEF Listen
<1>7. CASE AcceptEnds
  BY <1>7 DEF AcceptEnds
<1>8. CASE Destroy
  BY <1>8 DEF Destroy
<1>9. CASE CloseGroup
  BY <1>9 DEF CloseGroup, Removed
<1>10. CASE JoinScheduler
  BY <1>10 DEF JoinScheduler
<1>11. CASE JobFails
  <2>1. tblock' \in BOOLEAN
    BY <1>11 DEF JobFails
  <2>2. job' \in Member /\ lost' \subseteq Member
    BY <1>11 DEF JobFails
  <2> QED
    BY <1>11, <2>1, <2>2 DEF JobFails
<1>12. CASE JobReturns
  BY <1>12 DEF JobReturns, Removed
<1>13. CASE PrintStart
  BY <1>13 DEF PrintStart
<1>14. CASE PrintEnd
  BY <1>14 DEF PrintEnd
<1>15. ASSUME NEW s \in Slot, AddMember(s) PROVE TypeOK'
  BY <1>15 DEF AddMember, NewSocket
<1>16. ASSUME NEW s \in Slot, AddMemberBreaks(s) PROVE TypeOK'
  BY <1>16 DEF AddMemberBreaks, NewSocket
<1>17. ASSUME NEW s \in Slot, JobAdd(s) PROVE TypeOK'
  <2>1. tblock' \in BOOLEAN
    BY <1>17 DEF JobAdd, NewSocket
  <2>2. waits' \in Slot \cup {NoSlot} /\ timer' \in {"wait", "idle"}
    BY <1>17 DEF JobAdd, NewSocket
  <2>3. job' \in Member /\ lost' \subseteq Member
    BY <1>17 DEF JobAdd, NewSocket
  <2> QED
    BY <1>17, <2>1, <2>2, <2>3 DEF JobAdd
<1>18. ASSUME NEW s \in Slot, LinkUp(s) PROVE TypeOK'
  BY <1>18 DEF LinkUp
<1>19. ASSUME NEW s \in Slot, LinkBreaks(s) PROVE TypeOK'
  BY <1>19 DEF LinkBreaks
<1>20. ASSUME NEW s \in Slot, RemoveBroken(s) PROVE TypeOK'
  BY <1>20 DEF RemoveBroken, Removed
<1>21. ASSUME NEW s \in Slot, FindTarget(s) PROVE TypeOK'
  <2>1. dangling' \in BOOLEAN
    BY <1>21 DEF FindTarget, Return
  <2>2. st' \in [Slot -> {"free", "pending", "up", "broken", "removed"}]
    BY <1>21 DEF FindTarget, Return
  <2>3. cb' \in [Slot -> {"none", "hook", "found"}]
    BY <1>21 DEF FindTarget, Return
  <2> QED
    BY <1>21, <2>1, <2>2, <2>3 DEF FindTarget
<1>22. ASSUME NEW s \in Slot, Schedule(s) PROVE TypeOK'
  <2>1. dangling' \in BOOLEAN
    BY <1>22 DEF Schedule, Return, MayOversleep
  <2>2. asleep' \in BOOLEAN
    BY <1>22 DEF Schedule, Return, MayOversleep
  <2>3. st' \in [Slot -> {"free", "pending", "up", "broken", "removed"}]
    BY <1>22 DEF Schedule, Return, MayOversleep
  <2>4. cb' \in [Slot -> {"none", "hook", "found"}]
    BY <1>22 DEF Schedule, Return, MayOversleep
  <2>5. lost' \subseteq Member
    <3>1. s[1] \in Member
      OBVIOUS
    <3>2. lost' = lost \/ lost' = lost \cup {s[1]}
      BY <1>22 DEF Schedule
    <3> QED
      BY <3>1, <3>2
  <2> QED
    BY <1>22, <2>1, <2>2, <2>3, <2>4, <2>5 DEF Schedule
<1>23. ASSUME NEW m \in Member, CloseListener(m) PROVE TypeOK'
  BY <1>23 DEF CloseListener
<1>24. ASSUME NEW m \in Member, JobStart(m) PROVE TypeOK'
  BY <1>24 DEF JobStart
<1>25. ASSUME NEW m \in Member, NewMember(m) PROVE TypeOK'
  BY <1>25 DEF NewMember
<1>26. ASSUME NEW m \in Member, SchedulePrint(m) PROVE TypeOK'
  <2>1. dangling' \in BOOLEAN
    BY <1>26 DEF SchedulePrint, MayOversleep
  <2>2. asleep' \in BOOLEAN
    BY <1>26 DEF SchedulePrint, MayOversleep
  <2>3. prints' \in 0 .. MaxPrints
    BY <1>26 DEF SchedulePrint, MayOversleep
  <2> QED
    BY <1>26, <2>1, <2>2, <2>3 DEF SchedulePrint
<1>27. CASE UNCHANGED vars
  BY <1>27 DEF vars
<1> QED
  BY <1>1, <1>2, <1>3, <1>4, <1>5, <1>6, <1>7, <1>8, <1>9, <1>10, <1>11, <1>12,
      <1>13, <1>14, <1>15, <1>16, <1>17, <1>18, <1>19, <1>20, <1>21, <1>22,
      <1>23, <1>24, <1>25, <1>26, <1>27 DEF Next, Main, Timer, Library

\* Initially there is no socket, no task and no callback.
LEMMA InitHolds == Init => IInv
<1> SUFFICES ASSUME Init PROVE IInv
  OBVIOUS
<1> USE SrtGroupAssumption, SlotFacts DEF SrtGroupAssumption, Init
<1>1. TypeOK
  <2>1. 1 \in Member /\ 1 \in 1 .. N + 1
    BY DEF Member
  <2>2. blocking \in BOOLEAN
    OBVIOUS
  <2>3. jobs \in [Member -> 0 .. MaxConnects] /\ connects \in 0 .. MaxConnects
    OBVIOUS
  <2>4. listens \in BOOLEAN /\ shared \in BOOLEAN /\ prints \in 0 .. MaxPrints
    OBVIOUS
  <2>5. /\ st \in [Slot -> {"free", "pending", "up", "broken", "removed"}]
        /\ cb \in [Slot -> {"none", "hook", "found"}]
        /\ lsn \in [Member -> {"bound", "listening", "closed"}]
    OBVIOUS
  <2>6. /\ mblock \in BOOLEAN /\ tblock \in BOOLEAN /\ asleep \in BOOLEAN
        /\ overlap \in BOOLEAN /\ dangling \in BOOLEAN
    BY Zenon
  <2> QED
    BY <2>1, <2>2, <2>3, <2>4, <2>5, <2>6 DEF TypeOK
<1>2. CallbackInv /\ ModeInv /\ FirstInv /\ CloseInv
  BY DEF CallbackInv, ModeInv, FirstInv, CloseInv
<1>3. LinksInv
  <2> SUFFICES ASSUME NEW m \in Member PROVE Links(m) + ToCome(m) <= connects
    BY DEF LinksInv
  <2>1. Linked(m) = {}
    BY DEF Linked
  <2>2. Cardinality(Linked(m)) = 0
    BY <2>1, FS_EmptySet
  <2> QED
    BY <2>2, LinksSum DEF ToCome
<1>4. DanglingOnlyIfOverlap
  BY DEF DanglingOnlyIfOverlap
<1> QED
  BY <1>1, <1>2, <1>3, <1>4 DEF IInv

\* All parts together are an invariant of the group.
LEMMA Invariant == Spec => []IInv
<1>1. IInv /\ [Next]_vars => IInv'
  BY TypeStep, CallbackStep, ModeStep, FirstStep, CloseStep, LinksStep,
     DanglingStep DEF IInv
<1> QED
  BY <1>1, InitHolds, PTL DEF Spec

-----------------------------------------------------------------------------

\* Every variable of the group keeps its type.
THEOREM TypeCorrect == Spec => []TypeOK
BY Invariant, PTL DEF IInv

\* However often a member fails, and however connect(), the callbacks and the
\* tasks of m_scheduler interleave, it is connected once for each connect().
THEOREM NoConnectionTooMany == Spec => []LinksBounded
<1>1. IInv => LinksBounded
  <2> SUFFICES ASSUME IInv, NEW m \in Member PROVE Links(m) <= connects
    BY DEF LinksBounded
  <2>1. Links(m) + ToCome(m) <= connects
    BY DEF IInv, LinksInv
  <2>2. Links(m) \in Nat /\ ToCome(m) \in {0, 1} /\ connects \in Nat
    BY CountFacts, LinksSum, SrtGroupAssumption
    DEF IInv, TypeOK, ToCome, SrtGroupAssumption
  <2> QED
    BY <2>1, <2>2
<1> QED
  BY <1>1, Invariant, PTL

\* The callback of a caller uses a destroyed group only if it was running when
\* the group was closed, and that of a listener never does.
THEOREM DanglingNeedsOverlap == Spec => []DanglingOnlyIfOverlap
BY Invariant, PTL DEF IInv

\* The first blocking connect() of a group returns with a connected member.
THEOREM FirstConnectWaits == Spec => LinklessOnlyIfRepeated
<1> DEFINE A ==
             main # "connected" /\ main' = "connected" /\ blocking /\ ~listens
                  => connects > 1 \/ \E s \in Slot : st[s] = "up"
<1>1. IInv /\ [Next]_vars => [A]_vars
  <2> SUFFICES ASSUME IInv, Next, main # "connected", main' = "connected",
                      blocking, ~listens
               PROVE  connects > 1 \/ \E s \in Slot : st[s] = "up"
    OBVIOUS
  <2> USE DEF IInv, TypeOK, mainVars, timerVars, linkVars, modeVars, lsnVars
  <2>1. CASE AllAdded
    BY <2>1, SrtGroupAssumption DEF AllAdded, FirstInv, SrtGroupAssumption
  <2>2. CASE ConnectReturns
    BY <2>2 DEF ConnectReturns
  <2>3. CASE Listen \/ AcceptEnds
    BY <2>3 DEF Listen, AcceptEnds, ModeInv
  <2>4. CASE \/ Connect \/ AddMemberFails \/ ConnectFails \/ Destroy
             \/ CloseGroup \/ JoinScheduler
             \/ \E s \in Slot : AddMember(s) \/ AddMemberBreaks(s)
             \/ \E m \in Member : CloseListener(m)
    BY <2>4 DEF Connect, AddMemberFails, ConnectFails, Destroy, CloseGroup,
         JoinScheduler, AddMember, AddMemberBreaks, CloseListener
  <2>5. CASE Timer
    BY <2>5 DEF Timer, JobFails, JobReturns, PrintStart, PrintEnd, JobStart,
         JobAdd
  <2>6. CASE \/ \E s \in Slot : Library(s)
             \/ \E m \in Member : NewMember(m) \/ SchedulePrint(m)
    BY <2>6 DEF Library, LinkUp, LinkBreaks, RemoveBroken, FindTarget, Schedule,
         NewMember, SchedulePrint
  <2> QED
    BY <2>1, <2>2, <2>3, <2>4, <2>5, <2>6 DEF Next, Main
<1> QED
  BY <1>1, Invariant, PTL DEF Spec, LinklessOnlyIfRepeated

=============================================================================
