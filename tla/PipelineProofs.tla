---------------------------- MODULE PipelineProofs ----------------------------
(***************************************************************************)
(* The safety properties of Pipeline hold for any number of messages, any  *)
(* size of the buffers and all options.                                    *)
(***************************************************************************)
EXTENDS Pipeline, SequenceTheorems, TLAPS

Num == 1 .. NumMsgs

\* A turn of the loop uses at most one number, and there is a message in hand
\* exactly between read and validate_packet.
TurnInv == /\ gen \in {"test", "pace"} => num <= i
           /\ gen = "write" => i < NumMsgs /\ num > 0 /\ num <= i + 1
           /\ recv = "check" => msg \in Num
           /\ recv = "start" => metrics = "off"

Hand == IF recv = "check" THEN <<msg>> ELSE <<>>

\* All messages that are not dropped, in the order of their numbers.
Whole == seen \o Hand \o arrived \o flight

LastOf(s) == IF Len(s) = 0 THEN 0 ELSE s[Len(s)]

\* The last number that write was called for.
Used == IF gen = "write" THEN num - 1 ELSE num

\* A sequence of numbers with gaps in the set D only.
Chain(s, D) ==
  \A k \in 1 .. Len(s) :
    LET before == IF k = 1 THEN 0 ELSE s[k - 1]
    IN  /\ before < s[k]
        /\ (before + 1) .. (s[k] - 1) \subseteq D

\* The gaps are drops from the first to the last number written, and up to now
\* as long as the generator goes on.
GapInv ==
  cfg.metered =>
    /\ Chain(Whole, dropped)
    /\ gen # "ended" => /\ LastOf(Whole) <= Used
                        /\ (LastOf(Whole) + 1) .. Used \subseteq dropped

IInv == /\ TypeOK
        /\ TurnInv
        /\ GapInv

-----------------------------------------------------------------------------
(* The types and the turns of the loop. *)

\* Each action preserves the types and the bounds of the buffers.
LEMMA TypeStep == TypeOK /\ TurnInv /\ [Next]_vars => TypeOK'
<1> SUFFICES ASSUME TypeOK, TurnInv, [Next]_vars PROVE TypeOK'
  OBVIOUS
<1> USE PipelineAssumption DEF PipelineAssumption, TypeOK, TurnInv, Num, Side,
    genVars, recvVars, metricVars, netVars, histVars
<1>1. CASE GenTest
  BY <1>1 DEF GenTest, EndGen
<1>2. CASE DurationOver
  BY <1>2 DEF DurationOver, EndGen
<1>3. CASE LoseMessage
  BY <1>3 DEF LoseMessage
<1>4. CASE GeneratePayload
  BY <1>4 DEF GeneratePayload
<1>5. CASE GenWrite
  BY <1>5 DEF GenWrite
<1>6. CASE GenWriteDrops
  BY <1>6 DEF GenWriteDrops
<1>7. CASE GenThrows
  BY <1>7 DEF GenThrows, EndGen
<1>8. CASE RecvStart
  BY <1>8 DEF RecvStart
<1>9. CASE NoMetricsFile
  BY <1>9 DEF NoMetricsFile, EndRecv
<1>10. CASE RecvRead
  BY <1>10 DEF RecvRead
<1>11. CASE RecvInterrupted
  BY <1>11 DEF RecvInterrupted
<1>12. CASE RecvThrows
  BY <1>12 DEF RecvThrows
<1>13. CASE RecvCheck
  <2>1. seen' \in Seq(1 .. NumMsgs)
    <3>1. CASE cfg.metered
      BY <1>13, <3>1 DEF RecvCheck
    <3>2. CASE ~cfg.metered
      BY <1>13, <3>2 DEF RecvCheck
    <3> QED
      BY <3>1, <3>2
  <2> QED
    BY <1>13, <2>1 DEF RecvCheck
<1>14. CASE RecvReply
  BY <1>14 DEF RecvReply
<1>15. CASE ReplyThrows
  BY <1>15 DEF ReplyThrows
<1>16. CASE RecvReturn
  BY <1>16 DEF RecvReturn, EndRecv
<1>17. CASE MetricsTest
  BY <1>17 DEF MetricsTest
<1>18. CASE MetricsLock
  BY <1>18 DEF MetricsLock
<1>19. CASE MetricsWrite
  BY <1>19 DEF MetricsWrite
<1>20. CASE MetricsWake
  BY <1>20 DEF MetricsWake
<1>21. CASE Deliver
  BY <1>21 DEF Deliver
<1>22. CASE DeliverReply
  BY <1>22 DEF DeliverReply
<1>23. CASE LinkLost
  BY <1>23 DEF LinkLost
<1>24. ASSUME NEW s \in Side, PeerGone(s) PROVE TypeOK'
  BY <1>24 DEF PeerGone
<1>25. ASSUME NEW s \in Side, Interrupt(s) PROVE TypeOK'
  BY <1>25 DEF Interrupt
<1>26. ASSUME NEW s \in Side, Cleanup(s) PROVE TypeOK'
  BY <1>26 DEF Cleanup
<1>27. CASE UNCHANGED vars
  BY <1>27 DEF vars
<1> QED
  BY <1>1, <1>2, <1>3, <1>4, <1>5, <1>6, <1>7, <1>8, <1>9, <1>10, <1>11, <1>12,
      <1>13, <1>14, <1>15, <1>16, <1>17, <1>18, <1>19, <1>20, <1>21, <1>22,
      <1>23, <1>24, <1>25, <1>26, <1>27 DEF Next, Gen, Recv, Metrics

\* Each action preserves the order of a turn.
LEMMA TurnStep == TypeOK /\ TurnInv /\ [Next]_vars => TurnInv'
<1> SUFFICES ASSUME TypeOK, TurnInv, [Next]_vars PROVE TurnInv'
  OBVIOUS
<1> USE PipelineAssumption DEF PipelineAssumption, TypeOK, TurnInv, Num, Side,
    genVars, recvVars, metricVars, netVars, histVars, metricsStop
<1>1. CASE GenTest
  BY <1>1 DEF GenTest, EndGen
<1>2. CASE DurationOver
  BY <1>2 DEF DurationOver, EndGen
<1>3. CASE LoseMessage
  BY <1>3 DEF LoseMessage
<1>4. CASE GeneratePayload
  BY <1>4 DEF GeneratePayload
<1>5. CASE GenWrite
  BY <1>5 DEF GenWrite
<1>6. CASE GenWriteDrops
  BY <1>6 DEF GenWriteDrops
<1>7. CASE GenThrows
  BY <1>7 DEF GenThrows, EndGen
<1>8. CASE RecvStart
  BY <1>8 DEF RecvStart
<1>9. CASE NoMetricsFile
  BY <1>9 DEF NoMetricsFile, EndRecv
<1>10. CASE RecvRead
  BY <1>10 DEF RecvRead
<1>11. CASE RecvInterrupted
  BY <1>11 DEF RecvInterrupted
<1>12. CASE RecvThrows
  BY <1>12 DEF RecvThrows
<1>13. CASE RecvCheck
  BY <1>13 DEF RecvCheck
<1>14. CASE RecvReply
  BY <1>14 DEF RecvReply
<1>15. CASE ReplyThrows
  BY <1>15 DEF ReplyThrows
<1>16. CASE RecvReturn
  BY <1>16 DEF RecvReturn, EndRecv
<1>17. CASE MetricsTest
  BY <1>17 DEF MetricsTest
<1>18. CASE MetricsLock
  BY <1>18 DEF MetricsLock
<1>19. CASE MetricsWrite
  BY <1>19 DEF MetricsWrite
<1>20. CASE MetricsWake
  BY <1>20 DEF MetricsWake
<1>21. CASE Deliver
  BY <1>21 DEF Deliver
<1>22. CASE DeliverReply
  BY <1>22 DEF DeliverReply
<1>23. CASE LinkLost
  BY <1>23 DEF LinkLost
<1>24. ASSUME NEW s \in Side, PeerGone(s) PROVE TurnInv'
  BY <1>24 DEF PeerGone
<1>25. ASSUME NEW s \in Side, Interrupt(s) PROVE TurnInv'
  BY <1>25 DEF Interrupt
<1>26. ASSUME NEW s \in Side, Cleanup(s) PROVE TurnInv'
  BY <1>26 DEF Cleanup
<1>27. CASE UNCHANGED vars
  BY <1>27 DEF vars
<1> QED
  BY <1>1, <1>2, <1>3, <1>4, <1>5, <1>6, <1>7, <1>8, <1>9, <1>10, <1>11, <1>12,
      <1>13, <1>14, <1>15, <1>16, <1>17, <1>18, <1>19, <1>20, <1>21, <1>22,
      <1>23, <1>24, <1>25, <1>26, <1>27 DEF Next, Gen, Recv, Metrics

-----------------------------------------------------------------------------
(* Sequences with gaps. *)

\* read takes the first message of the receive buffer.
LEMMA ReadKeeps ==
  ASSUME NEW s \in Seq(Num), NEW a \in Seq(Num), a # <<>>
  PROVE  s \o <<Head(a)>> \o Tail(a) = s \o <<>> \o a
OBVIOUS

\* validate_packet is given the message that was read.
LEMMA CheckKeeps ==
  ASSUME NEW s \in Seq(Num), NEW x \in Num
  PROVE  Append(s, x) \o <<>> = s \o <<x>>
OBVIOUS

\* Two buffers may be taken for one.
LEMMA ConcatKeeps ==
  ASSUME NEW g \in Seq(Num), NEW a \in Seq(Num), NEW f \in Seq(Num)
  PROVE  (g \o a) \o f = g \o (a \o f)
OBVIOUS

\* The network moves a message from one buffer to the other.
LEMMA MoveKeeps ==
  ASSUME NEW g \in Seq(Num), NEW a \in Seq(Num), NEW f \in Seq(Num), f # <<>>
  PROVE  g \o Append(a, Head(f)) \o Tail(f) = g \o a \o f
<1>1. PICK t : t = Append(a, Head(f))
  OBVIOUS
<1>2. PICK u : u = Tail(f)
  OBVIOUS
<1>3. t \in Seq(Num) /\ u \in Seq(Num) /\ t \o u = a \o f
  BY <1>1, <1>2
<1>4. (g \o t) \o u = g \o (t \o u)
  BY <1>3, ConcatKeeps, Zenon
<1>5. (g \o a) \o f = g \o (a \o f)
  BY ConcatKeeps, Zenon
<1> QED
  BY <1>1, <1>2, <1>3, <1>4, <1>5, Zenon

\* write adds a message at the end.
LEMMA WriteAppends ==
  ASSUME NEW g \in Seq(Num), NEW f \in Seq(Num), NEW x \in Num
  PROVE  g \o Append(f, x) = Append(g \o f, x)
OBVIOUS

\* A number that is higher than the last one goes on with the chain, if all that
\* are between them were dropped.
LEMMA ChainAppend ==
  ASSUME NEW s \in Seq(Num), NEW D, NEW x \in Num, Chain(s, D), LastOf(s) < x,
         (LastOf(s) + 1) .. (x - 1) \subseteq D
  PROVE  Chain(Append(s, x), D) /\ LastOf(Append(s, x)) = x
<1> DEFINE t == Append(s, x)
<1>1. /\ t \in Seq(Num) /\ Len(t) = Len(s) + 1 /\ Len(s) \in Nat
      /\ \A k \in 1 .. Len(s) : t[k] = s[k]
      /\ t[Len(s) + 1] = x
  OBVIOUS
<1> HIDE DEF t
<1>2. ASSUME NEW k \in 1 .. Len(t)
      PROVE  LET before == IF k = 1 THEN 0 ELSE t[k - 1]
             IN  before < t[k] /\ (before + 1) .. (t[k] - 1) \subseteq D
  <2>1. CASE k <= Len(s)
    <3>1. t[k] = s[k] /\ (k # 1 => t[k - 1] = s[k - 1])
      BY <1>1, <2>1
    <3> QED
      BY <1>1, <2>1, <3>1 DEF Chain
  <2>2. CASE k = Len(s) + 1
    <3>1. t[k] = x /\ (IF k = 1 THEN 0 ELSE t[k - 1]) = LastOf(s)
      BY <1>1, <2>2 DEF LastOf
    <3> QED
      BY <3>1
  <2> QED
    BY <1>1, <2>1, <2>2
<1>3. Chain(t, D)
  BY <1>2 DEF Chain
<1>4. LastOf(t) = x
  BY <1>1 DEF LastOf
<1> QED
  BY <1>3, <1>4 DEF t

\* The parts of the pipe are sequences of numbers.
LEMMA Parts ==
  TypeOK /\ TurnInv => /\ seen \in Seq(Num) /\ Hand \in Seq(Num)
                       /\ arrived \in Seq(Num) /\ flight \in Seq(Num)
                       /\ Whole \in Seq(Num) /\ LastOf(Whole) \in Nat
<1> SUFFICES ASSUME TypeOK, TurnInv
             PROVE  /\ seen \in Seq(Num) /\ Hand \in Seq(Num)
                    /\ arrived \in Seq(Num) /\ flight \in Seq(Num)
                    /\ Whole \in Seq(Num) /\ LastOf(Whole) \in Nat
  OBVIOUS
<1>1. seen \in Seq(Num) /\ arrived \in Seq(Num) /\ flight \in Seq(Num)
  BY DEF TypeOK, Num
<1>2. Hand \in Seq(Num)
  <2>1. CASE recv = "check"
    BY <2>1 DEF TurnInv, Hand
  <2>2. CASE recv # "check"
    BY <2>2 DEF Hand
  <2> QED
    BY <2>1, <2>2
<1>3. Whole \in Seq(Num)
  BY <1>1, <1>2, ConcatProperties DEF Whole
<1>4. LastOf(Whole) \in Nat
  <2> DEFINE w == Whole
  <2>1. w \in Seq(Num)
    BY <1>3
  <2> HIDE DEF w
  <2>2. Len(w) # 0 => w[Len(w)] \in Num
    BY <2>1
  <2>3. LastOf(w) \in Nat
    BY <2>2, PipelineAssumption DEF LastOf, Num, PipelineAssumption
  <2> QED
    BY <2>3 DEF w
<1> QED
  BY <1>1, <1>2, <1>3, <1>4

\* A step that leaves the pipe, the drops and the numbers alone keeps GapInv,
\* and so does the end of the generator.
LEMMA GapFrame ==
  ASSUME GapInv, cfg' = cfg, Whole' = Whole, dropped' = dropped,
         gen' = "ended" \/ (gen # "ended" /\ Used' = Used)
           \/ UNCHANGED <<gen, num>>
  PROVE  GapInv'
BY DEF GapInv, Used

\* Each action preserves that the gaps are drops.
LEMMA GapStep == TypeOK /\ TurnInv /\ GapInv /\ [Next]_vars => GapInv'
<1> SUFFICES ASSUME TypeOK, TurnInv, GapInv, [Next]_vars PROVE GapInv'
  OBVIOUS
<1>p. /\ seen \in Seq(Num) /\ Hand \in Seq(Num)
      /\ arrived \in Seq(Num) /\ flight \in Seq(Num)
      /\ Whole \in Seq(Num) /\ LastOf(Whole) \in Nat
  BY Parts
<1> USE DEF genVars, recvVars, metricVars, netVars, histVars
<1>1. CASE GenTest \/ DurationOver \/ LoseMessage \/ GenThrows
  BY <1>1, GapFrame DEF GenTest, DurationOver, LoseMessage, GenThrows, EndGen,
     Whole, Hand, Used
<1>2. CASE GeneratePayload
  <2>1. Used' = Used
    BY <1>2 DEF GeneratePayload, Used, TypeOK
  <2> QED
    BY <1>2, <2>1, GapFrame DEF GeneratePayload, Whole, Hand
<1>3. CASE GenWrite
  <2>1. SUFFICES ASSUME cfg.metered
                 PROVE  /\ Chain(Whole', dropped)
                        /\ LastOf(Whole') <= num
                        /\ (LastOf(Whole') + 1) .. num \subseteq dropped
    BY <1>3 DEF GenWrite, GapInv, Used
  <2>2. num \in Num /\ Used = num - 1
    BY <1>3 DEF GenWrite, TypeOK, TurnInv, Num, Used
  <2>3. Whole' = Append(Whole, num)
    <3>1. Whole' = seen \o Hand \o arrived \o Append(flight, num)
      BY <1>3 DEF GenWrite, Whole, Hand
    <3>2. PICK g \in Seq(Num) : g = seen \o Hand \o arrived
      <4>1. seen \o Hand \o arrived \in Seq(Num)
        BY <1>p, ConcatProperties
      <4> QED
        BY <4>1, Zenon
    <3>3. g \o Append(flight, num) = Append(g \o flight, num)
      BY <1>p, <2>2, WriteAppends, Zenon
    <3> QED
      BY <3>1, <3>2, <3>3, Zenon DEF Whole
  <2>4. /\ Chain(Whole, dropped) /\ LastOf(Whole) < num
        /\ (LastOf(Whole) + 1) .. (num - 1) \subseteq dropped
    BY <1>3, <1>p, <2>1, <2>2 DEF GapInv, GenWrite, Num
  <2>5. Chain(Append(Whole, num), dropped) /\ LastOf(Append(Whole, num)) = num
    BY <1>p, <2>2, <2>4, ChainAppend
  <2> QED
    BY <2>2, <2>3, <2>5 DEF Num
<1>4. CASE GenWriteDrops
  <2>1. SUFFICES ASSUME cfg.metered
                 PROVE  /\ Chain(Whole, dropped')
                        /\ LastOf(Whole) <= num
                        /\ (LastOf(Whole) + 1) .. num \subseteq dropped'
    BY <1>4 DEF GenWriteDrops, GapInv, Used, Whole, Hand
  <2>2. num \in Num /\ Used = num - 1 /\ dropped' = dropped \cup {num}
    BY <1>4 DEF GenWriteDrops, TypeOK, TurnInv, Num, Used
  <2>3. /\ Chain(Whole, dropped) /\ LastOf(Whole) < num
        /\ (LastOf(Whole) + 1) .. (num - 1) \subseteq dropped
    BY <1>4, <1>p, <2>1, <2>2 DEF GapInv, GenWriteDrops, Num
  <2>4. Chain(Whole, dropped')
    BY <2>2, <2>3 DEF Chain
  <2> QED
    BY <1>p, <2>2, <2>3, <2>4 DEF Num
<1>5. CASE \/ RecvStart \/ NoMetricsFile \/ RecvInterrupted \/ RecvThrows
           \/ RecvReply \/ ReplyThrows \/ RecvReturn
           \/ Metrics \/ DeliverReply \/ LinkLost
           \/ \E s \in Side : PeerGone(s) \/ Interrupt(s) \/ Cleanup(s)
  BY <1>5, GapFrame DEF RecvStart, NoMetricsFile, RecvInterrupted, RecvThrows,
     RecvReply, ReplyThrows, RecvReturn, EndRecv, Metrics, MetricsTest,
     MetricsLock, MetricsWrite, MetricsWake, DeliverReply, LinkLost, PeerGone,
     Interrupt, Cleanup, Whole, Hand
<1>6. CASE RecvRead
  <2>1. /\ Whole = seen \o <<>> \o arrived \o flight /\ arrived # <<>>
        /\ Whole' = seen \o <<Head(arrived)>> \o Tail(arrived) \o flight
    BY <1>6 DEF RecvRead, Whole, Hand
  <2>2. PICK a \in Seq(Num) : a = arrived
    BY <1>p
  <2>3. a # <<>>
    BY <2>1, <2>2
  <2>4. \A s \in Seq(Num) : s \o <<Head(a)>> \o Tail(a) = s \o <<>> \o a
    BY <2>3, ReadKeeps, Zenon
  <2>5. Whole' = Whole
    BY <1>p, <2>1, <2>2, <2>4, Zenon
  <2> QED
    BY <1>6, <2>5, GapFrame DEF RecvRead
<1>7. CASE RecvCheck
  <2>1. CASE cfg.metered
    <3>1. /\ Whole = seen \o <<msg>> \o arrived \o flight /\ msg \in Num
          /\ Whole' = Append(seen, msg) \o <<>> \o arrived \o flight
      BY <1>7, <2>1 DEF RecvCheck, Whole, Hand, TurnInv
    <3>2. PICK s \in Seq(Num), x \in Num : s = seen /\ x = msg
      BY <1>p, <3>1
    <3>3. Append(s, x) \o <<>> = s \o <<x>>
      BY CheckKeeps, Zenon
    <3>4. Whole' = Whole
      BY <1>p, <3>1, <3>2, <3>3, Zenon
    <3> QED
      BY <1>7, <3>4, GapFrame DEF RecvCheck
  <2>2. CASE ~cfg.metered
    BY <1>7, <2>2 DEF RecvCheck, GapInv
  <2> QED
    BY <2>1, <2>2
<1>8. CASE Deliver
  <2>1. /\ flight # <<>>
        /\ Whole' = seen \o Hand \o Append(arrived, Head(flight))
                         \o Tail(flight)
    BY <1>8 DEF Deliver, Whole, Hand
  <2>2. Whole' = Whole
    <3>1. PICK g \in Seq(Num) : g = seen \o Hand
      <4>1. seen \o Hand \in Seq(Num)
        BY <1>p, ConcatProperties
      <4> QED
        BY <4>1, Zenon
    <3>2. PICK f \in Seq(Num) : f = flight
      BY <1>p
    <3>3. f # <<>>
      BY <2>1, <3>2
    <3>4. \A a \in Seq(Num) :
            g \o Append(a, Head(f)) \o Tail(f) = g \o a \o f
      BY <3>3, MoveKeeps, Zenon
    <3> QED
      BY <1>p, <2>1, <3>1, <3>2, <3>4, Zenon DEF Whole
  <2> QED
    BY <1>8, <2>2, GapFrame DEF Deliver
<1>9. CASE UNCHANGED vars
  BY <1>9, GapFrame DEF vars, Whole, Hand
<1> QED
  BY <1>1, <1>2, <1>3, <1>4, <1>5, <1>6, <1>7, <1>8, <1>9 DEF Next, Gen, Recv

-----------------------------------------------------------------------------

\* Initially nothing was sent.
LEMMA InitHolds == Init => IInv
<1> SUFFICES ASSUME Init PROVE IInv
  OBVIOUS
<1> USE PipelineAssumption DEF PipelineAssumption, Init
<1>1. TypeOK
  BY DEF TypeOK
<1>2. TurnInv
  BY DEF TurnInv
<1>3. GapInv
  <2>1. Whole = <<>> \o <<>> \o <<>> \o <<>>
    BY DEF Whole, Hand
  <2>2. Whole = <<>>
    BY <2>1
  <2> QED
    BY <2>2 DEF GapInv, Chain, LastOf, Used
<1> QED
  BY <1>1, <1>2, <1>3 DEF IInv

\* All parts together are an invariant of the two programs.
LEMMA Invariant == Spec => []IInv
<1>1. IInv /\ [Next]_vars => IInv'
  BY TypeStep, TurnStep, GapStep DEF IInv
<1> QED
  BY <1>1, InitHolds, PTL DEF Spec

\* Every variable of the two programs keeps its type, and no buffer ever holds
\* more than it can.
THEOREM TypeCorrect == Spec => []TypeOK
BY Invariant, PTL DEF IInv

\* The numbers that validate_packet of the receiver sees rise, and write of the
\* generator gave up every one that is missing in between.
THEOREM OnlyDropsAreMissing == Spec => []GapsAreDrops
<1>1. IInv => GapsAreDrops
  <2> SUFFICES ASSUME IInv, cfg.metered, recv \in {"read", "reply"}
               PROVE  Chain(seen \o arrived \o flight, dropped)
    BY DEF GapsAreDrops, Chain
  <2>1. seen \in Seq(Num) /\ arrived \in Seq(Num) /\ flight \in Seq(Num)
    BY Parts DEF IInv
  <2>2. Whole = seen \o <<>> \o arrived \o flight
    BY DEF Whole, Hand
  <2>3. Whole = seen \o arrived \o flight
    BY <2>1, <2>2
  <2> QED
    BY <2>3 DEF IInv, GapInv
<1> QED
  BY <1>1, Invariant, PTL

\* When the generator and the receiver wait for each other in a blocking write,
\* no step of either program, of its metrics thread or of its signal handler ends
\* that as long as both sockets stay up.
THEOREM WaitIsForGood == Spec => WaitsForGood
<1>1. ASSUME MutualWait, [Next]_vars, sock' = sock PROVE MutualWait'
  <2> USE <1>1, PipelineAssumption DEF PipelineAssumption, MutualWait
  <2>1. CASE Gen
    BY <2>1 DEF Gen, GenTest, DurationOver, LoseMessage, GeneratePayload,
       GenWrite, GenWriteDrops, GenThrows, Side
  <2>2. CASE Recv
    BY <2>2 DEF Recv, RecvStart, NoMetricsFile, RecvRead, RecvInterrupted,
       RecvThrows, RecvCheck, RecvReply, ReplyThrows, RecvReturn, Side
  <2>3. CASE Metrics
    BY <2>3 DEF Metrics, MetricsTest, MetricsLock, MetricsWrite, MetricsWake,
       genVars, recvVars, netVars
  <2>4. CASE Deliver \/ DeliverReply
    BY <2>4 DEF Deliver, DeliverReply
  <2>5. CASE \/ LinkLost
             \/ \E s \in Side : PeerGone(s) \/ Interrupt(s) \/ Cleanup(s)
    BY <2>5 DEF LinkLost, PeerGone, Interrupt, Cleanup, genVars, recvVars, netVars
  <2>6. CASE UNCHANGED vars
    BY <2>6 DEF vars
  <2> QED
    BY <2>1, <2>2, <2>3, <2>4, <2>5, <2>6 DEF Next
<1>2. [Next]_vars => [MutualWait => MutualWait' \/ sock' # sock]_vars
  BY <1>1
<1> QED
  BY <1>2, PTL DEF Spec, WaitsForGood

===============================================================================
