---------------------------- MODULE ForwardProofs ----------------------------
(***************************************************************************)
(* Each direction of the forward command is a pipe, for any number of      *)
(* messages, any size of the send buffers and any number of sessions.      *)
(***************************************************************************)
EXTENDS Forward, SequenceTheorems, TLAPS

Msg == 1 .. MaxMsgs

\* Every node has its queues.
QueueInv == /\ pend \in [Nodes -> Seq(Msg)]
            /\ snd \in [Nodes -> Seq(Msg)]
            /\ sent \in [Nodes -> Seq(Msg)]
            /\ got \in [Nodes -> Seq(Msg)]

\* A thread has a message in its hands exactly when it is about to send it, and
\* no thread runs before the client is accepted.
StageInv ==
  \A n \in Nodes :
    /\ held[n] # None <=> thread[n] = "send"
    /\ main \in {"connect", "listen", "accept"} => thread[n] = "off"

\* What was forwarded of what the peer of node n has sent.
Forwarded(n) == got[Other(n)] \o snd[Other(n)]

\* The direction from node n is a pipe: PipeIntact, for one node.
PipeFrom(n) ==
  /\ IsPrefix(Forwarded(n), sent[n])
  /\ thread[n] \in {"off", "loop", "receive", "poll", "send"} =>
       Forwarded(n) \o InHand(n) \o pend[n] = sent[n]

IInv == /\ TypeOK
        /\ QueueInv
        /\ StageInv
        /\ PipeIntact

-----------------------------------------------------------------------------
(* Queues. *)

\* The peer takes the first message of the send buffer: together they are what
\* they were.
LEMMA TakeKeeps ==
  ASSUME NEW g \in Seq(Msg), NEW s \in Seq(Msg), s # <<>>
  PROVE  Append(g, Head(s)) \o Tail(s) = g \o s
OBVIOUS

\* A message moves from the hands of the thread into the send buffer.
LEMMA PutKeeps ==
  ASSUME NEW g \in Seq(Msg), NEW s \in Seq(Msg), NEW p \in Seq(Msg),
         NEW x \in Msg
  PROVE  (g \o Append(s, x)) \o <<>> \o p = (g \o s) \o <<x>> \o p
OBVIOUS

\* A message moves from the link into the hands of the thread.
LEMMA GetKeeps ==
  ASSUME NEW f \in Seq(Msg), NEW p \in Seq(Msg), p # <<>>
  PROVE  f \o <<Head(p)>> \o Tail(p) = f \o <<>> \o p
OBVIOUS

\* The peer sends another message.
LEMMA SendKeeps ==
  ASSUME NEW f \in Seq(Msg), NEW h \in Seq(Msg), NEW p \in Seq(Msg),
         NEW x \in Msg
  PROVE  f \o h \o Append(p, x) = Append(f \o h \o p, x)
OBVIOUS

\* What has been forwarded is a prefix of all there was.
LEMMA PrefixOfConcat ==
  ASSUME NEW f \in Seq(Msg), NEW h \in Seq(Msg), NEW p \in Seq(Msg)
  PROVE  IsPrefix(f, f \o h \o p)
BY DEF IsPrefix

\* A prefix stays one when more is sent.
LEMMA PrefixOfAppend ==
  ASSUME NEW f \in Seq(Msg), NEW t \in Seq(Msg), NEW x \in Msg, IsPrefix(f, t)
  PROVE  IsPrefix(f, Append(t, x))
BY DEF IsPrefix

\* There are two nodes, each the other one of the other.
LEMMA TwoNodes == \A n \in Nodes : /\ Other(n) \in Nodes /\ Other(n) # n
                                   /\ Other(Other(n)) = n
                                   /\ \A k \in Nodes : k = n \/ k = Other(n)
BY DEF Nodes, Other

-----------------------------------------------------------------------------
(* The steps. *)

\* Each action preserves the types; a message comes from the peer's sequence,
\* which is bounded, and the send buffer is waited for.
LEMMA TypeStep ==
  TypeOK /\ QueueInv /\ StageInv /\ [Next]_vars => TypeOK' /\ QueueInv'
<1> SUFFICES ASSUME TypeOK, QueueInv, StageInv, [Next]_vars
             PROVE  TypeOK' /\ QueueInv'
  OBVIOUS
<1> USE ForwardAssumption, TwoNodes DEF ForwardAssumption, TypeOK, QueueInv,
    StageInv, Msg, Main, ThreadPC, None, Each, traffic
<1>1. CASE RunTest
  BY <1>1 DEF RunTest
<1>2. CASE ConnectDst
  BY <1>2 DEF ConnectDst
<1>3. CASE ListenSrc
  BY <1>3 DEF ListenSrc
<1>4. CASE AcceptSrc
  BY <1>4 DEF AcceptSrc
<1>5. CASE AcceptCancelled
  BY <1>5 DEF AcceptCancelled
<1>6. CASE JoinThreads
  BY <1>6 DEF JoinThreads
<1>7. CASE FlushDst
  BY <1>7 DEF FlushDst
<1>8. CASE FlushTimeout
  BY <1>8 DEF FlushTimeout
<1>9. CASE Interrupt
  BY <1>9 DEF Interrupt
<1>10. ASSUME NEW n \in Nodes, LoopTest(n) PROVE TypeOK' /\ QueueInv'
  BY <1>10 DEF LoopTest, Goto
<1>11. ASSUME NEW n \in Nodes, ReceiveTest(n) PROVE TypeOK' /\ QueueInv'
  BY <1>11 DEF ReceiveTest, Goto
<1>12. ASSUME NEW n \in Nodes, PollTimeout(n) PROVE TypeOK' /\ QueueInv'
  BY <1>12 DEF PollTimeout, Goto
<1>13. ASSUME NEW n \in Nodes, ReceiveMsg(n) PROVE TypeOK' /\ QueueInv'
  <2>1. Head(pend[n]) \in Msg /\ Tail(pend[n]) \in Seq(Msg)
    BY <1>13 DEF ReceiveMsg
  <2>2. held' \in [Nodes -> 0 .. MaxMsgs] /\ pend' \in [Nodes -> Seq(Msg)]
    BY <1>13, <2>1 DEF ReceiveMsg
  <2> QED
    BY <1>13, <2>2 DEF ReceiveMsg, Goto
<1>14. ASSUME NEW n \in Nodes, ReceiveLost(n) PROVE TypeOK' /\ QueueInv'
  BY <1>14 DEF ReceiveLost, Goto
<1>15. ASSUME NEW n \in Nodes, ReceiveError(n) PROVE TypeOK' /\ QueueInv'
  BY <1>15 DEF ReceiveError, Goto
<1>16. ASSUME NEW n \in Nodes, SendMsg(n) PROVE TypeOK' /\ QueueInv'
  <2>1. held[n] \in Msg /\ Other(n) \in Nodes
    BY <1>16 DEF SendMsg
  <2>2. /\ Append(snd[Other(n)], held[n]) \in Seq(Msg)
        /\ Len(Append(snd[Other(n)], held[n])) <= SndBuf
    BY <1>16, <2>1 DEF SendMsg
  <2>3. /\ snd' \in [Nodes -> Seq(Msg)] /\ held' \in [Nodes -> 0 .. MaxMsgs]
        /\ \A k \in Nodes : Len(snd'[k]) <= SndBuf
    BY <1>16, <2>1, <2>2 DEF SendMsg
  <2> QED
    BY <1>16, <2>3 DEF SendMsg, Goto
<1>17. ASSUME NEW n \in Nodes, SendError(n) PROVE TypeOK' /\ QueueInv'
  <2>1. held' \in [Nodes -> 0 .. MaxMsgs]
    BY <1>17 DEF SendError
  <2> QED
    BY <1>17, <2>1 DEF SendError, Goto
<1>18. ASSUME NEW n \in Nodes, CloseBoth(n) PROVE TypeOK' /\ QueueInv'
  BY <1>18 DEF CloseBoth, Goto
<1>19. ASSUME NEW n \in Nodes, PeerSend(n) PROVE TypeOK' /\ QueueInv'
  <2>1. Len(sent[n]) + 1 \in Msg
    BY <1>19 DEF PeerSend
  <2>2. sent' \in [Nodes -> Seq(Msg)] /\ pend' \in [Nodes -> Seq(Msg)]
    BY <1>19, <2>1 DEF PeerSend
  <2> QED
    BY <1>19, <2>2 DEF PeerSend
<1>20. ASSUME NEW n \in Nodes, PeerTakes(n) PROVE TypeOK' /\ QueueInv'
  <2>1. /\ Head(snd[n]) \in Msg /\ Tail(snd[n]) \in Seq(Msg)
        /\ Len(Tail(snd[n])) <= SndBuf
    BY <1>20 DEF PeerTakes
  <2>2. /\ got' \in [Nodes -> Seq(Msg)] /\ snd' \in [Nodes -> Seq(Msg)]
        /\ \A k \in Nodes : Len(snd'[k]) <= SndBuf
    BY <1>20, <2>1 DEF PeerTakes
  <2> QED
    BY <1>20, <2>2 DEF PeerTakes
<1>21. ASSUME NEW n \in Nodes, PeerLeaves(n) PROVE TypeOK' /\ QueueInv'
  BY <1>21 DEF PeerLeaves, Goto
<1>22. CASE UNCHANGED vars
  BY <1>22 DEF vars
<1> QED
  BY <1>1, <1>2, <1>3, <1>4, <1>5, <1>6, <1>7, <1>8, <1>9, <1>10, <1>11, <1>12,
      <1>13, <1>14, <1>15, <1>16, <1>17, <1>18, <1>19, <1>20, <1>21, <1>22 DEF
      Next, MainAlone, ForwardThread

\* Each action preserves that a message is in hand at the right time.
LEMMA StageStep == TypeOK /\ QueueInv /\ StageInv /\ [Next]_vars => StageInv'
<1> SUFFICES ASSUME TypeOK, QueueInv, StageInv, [Next]_vars PROVE StageInv'
  OBVIOUS
<1> USE DEF TypeOK, QueueInv, StageInv, None, Each, traffic
<1>1. CASE RunTest
  BY <1>1 DEF RunTest
<1>2. CASE ConnectDst
  BY <1>2 DEF ConnectDst
<1>3. CASE ListenSrc
  BY <1>3 DEF ListenSrc
<1>4. CASE AcceptSrc
  BY <1>4 DEF AcceptSrc
<1>5. CASE AcceptCancelled
  BY <1>5 DEF AcceptCancelled
<1>6. CASE JoinThreads
  BY <1>6 DEF JoinThreads
<1>7. CASE FlushDst
  BY <1>7 DEF FlushDst
<1>8. CASE FlushTimeout
  BY <1>8 DEF FlushTimeout
<1>9. CASE Interrupt
  BY <1>9 DEF Interrupt
<1>10. ASSUME NEW n \in Nodes, LoopTest(n) PROVE StageInv'
  BY <1>10 DEF LoopTest, Goto
<1>11. ASSUME NEW n \in Nodes, ReceiveTest(n) PROVE StageInv'
  BY <1>11 DEF ReceiveTest, Goto
<1>12. ASSUME NEW n \in Nodes, PollTimeout(n) PROVE StageInv'
  BY <1>12 DEF PollTimeout, Goto
<1>13. ASSUME NEW n \in Nodes, ReceiveMsg(n) PROVE StageInv'
  <2>1. pend[n] \in Seq(Msg) /\ pend[n] # <<>>
    BY <1>13 DEF ReceiveMsg
  <2>2. Head(pend[n]) \in Msg
    BY <2>1
  <2>3. Head(pend[n]) # None
    BY <2>2, ForwardAssumption DEF ForwardAssumption, Msg
  <2> QED
    BY <1>13, <2>3 DEF ReceiveMsg, Goto
<1>14. ASSUME NEW n \in Nodes, ReceiveLost(n) PROVE StageInv'
  BY <1>14 DEF ReceiveLost, Goto
<1>15. ASSUME NEW n \in Nodes, ReceiveError(n) PROVE StageInv'
  BY <1>15 DEF ReceiveError, Goto
<1>16. ASSUME NEW n \in Nodes, SendMsg(n) PROVE StageInv'
  BY <1>16 DEF SendMsg, Goto
<1>17. ASSUME NEW n \in Nodes, SendError(n) PROVE StageInv'
  BY <1>17 DEF SendError, Goto
<1>18. ASSUME NEW n \in Nodes, CloseBoth(n) PROVE StageInv'
  BY <1>18 DEF CloseBoth, Goto
<1>19. ASSUME NEW n \in Nodes, PeerSend(n) PROVE StageInv'
  BY <1>19 DEF PeerSend, Goto
<1>20. ASSUME NEW n \in Nodes, PeerTakes(n) PROVE StageInv'
  BY <1>20 DEF PeerTakes, Goto
<1>21. ASSUME NEW n \in Nodes, PeerLeaves(n) PROVE StageInv'
  BY <1>21 DEF PeerLeaves, Goto
<1>22. CASE UNCHANGED vars
  BY <1>22 DEF vars
<1> QED
  BY <1>1, <1>2, <1>3, <1>4, <1>5, <1>6, <1>7, <1>8, <1>9, <1>10, <1>11, <1>12,
      <1>13, <1>14, <1>15, <1>16, <1>17, <1>18, <1>19, <1>20, <1>21, <1>22 DEF
      Next, MainAlone, ForwardThread

\* A step preserves the pipe from a node if it leaves that pipe alone.
LEMMA PipeFrame ==
  ASSUME NEW n \in Nodes, PipeFrom(n),
         got'[Other(n)] = got[Other(n)], snd'[Other(n)] = snd[Other(n)],
         held'[n] = held[n], pend'[n] = pend[n], sent'[n] = sent[n],
         \/ thread'[n] \notin {"off", "loop", "receive", "poll", "send"}
         \/ thread[n] \in {"off", "loop", "receive", "poll", "send"}
  PROVE  PipeFrom(n)'
BY DEF PipeFrom, Forwarded, InHand

\* Each action preserves the pipes: it moves a message from one part of the pipe
\* to the next, adds one at its end, or gives up the end of it.
LEMMA PipeStep ==
  TypeOK /\ QueueInv /\ StageInv /\ PipeIntact /\ [Next]_vars => PipeIntact'
<1> SUFFICES ASSUME TypeOK, QueueInv, StageInv, PipeIntact, [Next]_vars,
                    NEW n \in Nodes
             PROVE  PipeFrom(n)'
  BY DEF PipeIntact, PipeFrom, Forwarded
<1>p. PipeFrom(n) /\ Other(n) \in Nodes /\ Other(n) # n
  BY TwoNodes DEF PipeIntact, PipeFrom, Forwarded
<1>q. /\ got[Other(n)] \in Seq(Msg) /\ snd[Other(n)] \in Seq(Msg)
      /\ pend[n] \in Seq(Msg) /\ sent[n] \in Seq(Msg)
      /\ Forwarded(n) \in Seq(Msg)
  BY <1>p DEF QueueInv, Forwarded
<1>h. InHand(n) \in Seq(Msg)
  <2>1. CASE held[n] = None
    BY <2>1 DEF InHand
  <2>2. CASE held[n] # None
    <3>1. held[n] \in Msg
      BY <2>2, ForwardAssumption DEF TypeOK, Msg, None, ForwardAssumption
    <3> QED
      BY <2>2, <3>1 DEF InHand
  <2> QED
    BY <2>1, <2>2
<1>1. CASE RunTest
  <2>1. /\ Forwarded(n)' = <<>> \o <<>> /\ InHand(n)' = <<>>
        /\ pend'[n] = <<>> /\ sent'[n] = <<>>
    BY <1>1, <1>p DEF RunTest, Each, Forwarded, InHand
  <2> QED
    BY <2>1 DEF PipeFrom, IsPrefix
<1>2. CASE ConnectDst \/ ListenSrc \/ AcceptCancelled \/ JoinThreads
           \/ FlushDst \/ FlushTimeout \/ Interrupt
  BY <1>2, <1>p, PipeFrame DEF ConnectDst, ListenSrc, AcceptCancelled,
     JoinThreads, FlushDst, FlushTimeout, Interrupt, traffic
<1>3. CASE AcceptSrc
  BY <1>3, <1>p, PipeFrame DEF AcceptSrc, StageInv, traffic
<1>4. ASSUME NEW k \in Nodes,
             \/ LoopTest(k) \/ ReceiveTest(k) \/ PollTimeout(k)
             \/ ReceiveLost(k) \/ ReceiveError(k) \/ CloseBoth(k)
             \/ PeerLeaves(k)
      PROVE  PipeFrom(n)'
  BY <1>4, <1>p, PipeFrame DEF LoopTest, ReceiveTest, PollTimeout, ReceiveLost,
     ReceiveError, CloseBoth, PeerLeaves, Goto, traffic, TypeOK
<1>5. ASSUME NEW k \in Nodes, ReceiveMsg(k) PROVE PipeFrom(n)'
  <2>1. CASE k # n
    BY <1>5, <1>p, <2>1, PipeFrame DEF ReceiveMsg, Goto, TypeOK, QueueInv
  <2>2. CASE k = n
    <3>1. /\ InHand(n) = <<>> /\ pend[n] # <<>>
          /\ Forwarded(n)' = Forwarded(n) /\ sent'[n] = sent[n]
          /\ thread[n] = "poll"
      BY <1>5, <2>2 DEF ReceiveMsg, InHand, StageInv, Forwarded
    <3>2. InHand(n)' = <<Head(pend[n])>> /\ pend'[n] = Tail(pend[n])
      <4>1. Head(pend[n]) \in Msg
        BY <1>q, <3>1
      <4>2. Head(pend[n]) # None
        BY <4>1, ForwardAssumption DEF Msg, None, ForwardAssumption
      <4> QED
        BY <1>5, <2>2, <4>2 DEF ReceiveMsg, InHand, TypeOK, QueueInv
    <3>3. Forwarded(n) \o <<Head(pend[n])>> \o Tail(pend[n])
            = Forwarded(n) \o <<>> \o pend[n]
      BY <1>q, <3>1, GetKeeps
    <3> QED
      BY <1>p, <3>1, <3>2, <3>3 DEF PipeFrom
  <2> QED
    BY <2>1, <2>2
<1>6. ASSUME NEW k \in Nodes, SendMsg(k) PROVE PipeFrom(n)'
  <2>1. CASE k # n
    BY <1>6, <1>p, <2>1, TwoNodes, PipeFrame DEF SendMsg, Goto, TypeOK, QueueInv
  <2>2. CASE k = n
    <3>1. held[n] \in Msg /\ InHand(n) = <<held[n]>> /\ thread[n] = "send"
      BY <1>6, <2>2, ForwardAssumption
      DEF SendMsg, StageInv, TypeOK, InHand, Msg, None, ForwardAssumption
    <3>2. /\ Forwarded(n)' = got[Other(n)] \o Append(snd[Other(n)], held[n])
          /\ InHand(n)' = <<>> /\ pend'[n] = pend[n] /\ sent'[n] = sent[n]
      BY <1>6, <1>p, <2>2 DEF SendMsg, Forwarded, InHand, TypeOK, QueueInv
    <3>3. Forwarded(n)' \in Seq(Msg)
      BY <1>q, <3>1, <3>2
    <3>4. Forwarded(n)' \o <<>> \o pend[n] = sent[n]
      <4> DEFINE g == got[Other(n)]
                 s == snd[Other(n)]
                 p == pend[n]
      <4>1. (g \o s) \o <<held[n]>> \o p = sent[n]
        BY <1>p, <3>1 DEF PipeFrom, Forwarded
      <4>2. g \in Seq(Msg) /\ s \in Seq(Msg) /\ p \in Seq(Msg)
        BY <1>q
      <4> HIDE DEF g, s, p
      <4>3. (g \o Append(s, held[n])) \o <<>> \o p
              = (g \o s) \o <<held[n]>> \o p
        BY <3>1, <4>2, PutKeeps
      <4> QED
        BY <3>2, <4>1, <4>3 DEF g, s, p
    <3>5. IsPrefix(Forwarded(n)', sent[n])
      BY <1>q, <3>3, <3>4, <<>> \in Seq(Msg), PrefixOfConcat
    <3> QED
      BY <3>2, <3>4, <3>5 DEF PipeFrom
  <2> QED
    BY <2>1, <2>2
<1>7. ASSUME NEW k \in Nodes, SendError(k) PROVE PipeFrom(n)'
  <2>1. CASE k # n
    BY <1>7, <1>p, <2>1, PipeFrame DEF SendError, Goto, TypeOK
  <2>2. CASE k = n
    BY <1>7, <1>p, <2>2 DEF SendError, Goto, TypeOK, PipeFrom, Forwarded
  <2> QED
    BY <2>1, <2>2
<1>8. ASSUME NEW k \in Nodes, PeerSend(k) PROVE PipeFrom(n)'
  <2>1. CASE k # n
    BY <1>8, <1>p, <2>1, PipeFrame DEF PeerSend, QueueInv
  <2>2. CASE k = n
    <3> DEFINE x == Len(sent[n]) + 1
    <3>1. x \in Msg
      BY <1>8, <1>q, <2>2, ForwardAssumption
      DEF PeerSend, Msg, ForwardAssumption
    <3>2. /\ sent'[n] = Append(sent[n], x) /\ pend'[n] = Append(pend[n], x)
          /\ Forwarded(n)' = Forwarded(n) /\ InHand(n)' = InHand(n)
          /\ thread'[n] = thread[n]
      BY <1>8, <2>2 DEF PeerSend, QueueInv, Forwarded, InHand
    <3> HIDE DEF x
    <3>3. IsPrefix(Forwarded(n), Append(sent[n], x))
      BY <1>p, <1>q, <3>1, PrefixOfAppend DEF PipeFrom
    <3>4. Forwarded(n) \o InHand(n) \o Append(pend[n], x)
            = Append(Forwarded(n) \o InHand(n) \o pend[n], x)
      <4> DEFINE f == Forwarded(n)
                 h == InHand(n)
                 p == pend[n]
      <4>1. f \in Seq(Msg) /\ h \in Seq(Msg) /\ p \in Seq(Msg)
        BY <1>q, <1>h
      <4> HIDE DEF f, h, p
      <4>2. f \o h \o Append(p, x) = Append(f \o h \o p, x)
        BY <3>1, <4>1, SendKeeps
      <4> QED
        BY <4>2 DEF f, h, p
    <3> QED
      BY <1>p, <3>2, <3>3, <3>4 DEF PipeFrom
  <2> QED
    BY <2>1, <2>2
<1>9. ASSUME NEW k \in Nodes, PeerTakes(k) PROVE PipeFrom(n)'
  <2>1. CASE k = n
    BY <1>9, <1>p, <2>1, PipeFrame DEF PeerTakes, QueueInv
  <2>2. CASE k = Other(n)
    <3>1. /\ got'[Other(n)] = Append(got[Other(n)], Head(snd[Other(n)]))
          /\ snd'[Other(n)] = Tail(snd[Other(n)]) /\ snd[Other(n)] # <<>>
      BY <1>9, <1>p, <2>2 DEF PeerTakes, QueueInv
    <3>2. Forwarded(n)' = Forwarded(n)
      BY <1>q, <3>1, TakeKeeps DEF Forwarded
    <3> QED
      BY <1>9, <1>p, <3>2 DEF PeerTakes, PipeFrom, InHand
  <2> QED
    BY <2>1, <2>2, TwoNodes
<1>10. CASE UNCHANGED vars
  BY <1>10, <1>p, PipeFrame DEF vars
<1> QED
  BY <1>1, <1>2, <1>3, <1>4, <1>5, <1>6, <1>7, <1>8, <1>9, <1>10
  DEF Next, MainAlone, ForwardThread

\* Initially all queues are empty.
LEMMA InitHolds == Init => IInv
<1> SUFFICES ASSUME Init PROVE IInv
  OBVIOUS
<1> USE ForwardAssumption, TwoNodes DEF ForwardAssumption, Init, Each, None
<1>1. QueueInv
  BY DEF QueueInv
<1>2. TypeOK
  <2>1. held \in [Nodes -> 0 .. MaxMsgs]
    OBVIOUS
  <2>2. forceBreak \in BOOLEAN /\ stop \in [Nodes -> BOOLEAN]
    BY Zenon
  <2>3. thread \in [Nodes -> ThreadPC] /\ main \in Main
    BY DEF ThreadPC, Main
  <2> QED
    BY <1>1, <2>1, <2>2, <2>3 DEF QueueInv, TypeOK, Msg
<1>3. StageInv
  BY DEF StageInv
<1>4. PipeIntact
  <2> SUFFICES ASSUME NEW n \in Nodes PROVE PipeFrom(n)
    BY DEF PipeIntact, PipeFrom, Forwarded
  <2>1. /\ Forwarded(n) = <<>> \o <<>> /\ InHand(n) = <<>>
        /\ pend[n] = <<>> /\ sent[n] = <<>>
    BY DEF Forwarded, InHand
  <2> QED
    BY <2>1 DEF PipeFrom, IsPrefix
<1> QED
  BY <1>1, <1>2, <1>3, <1>4 DEF IInv

\* All parts together are an invariant of the forward command.
LEMMA Invariant == Spec => []IInv
<1>1. IInv /\ [Next]_vars => IInv'
  BY TypeStep, StageStep, PipeStep DEF IInv
<1> QED
  BY <1>1, InitHolds, PTL DEF Spec

-----------------------------------------------------------------------------

\* Every variable of the forward command keeps its type, and srt_sendmsg never
\* puts more into a send buffer than fits.
THEOREM TypeCorrect == Spec => []TypeOK
BY Invariant, PTL DEF IInv

\* Whatever the two threads, the peers and an interrupt do, each direction hands
\* on a prefix of what its peer has sent, and loses nothing before it gives up.
THEOREM NothingOvertakes == Spec => []PipeIntact
BY Invariant, PTL DEF IInv

==============================================================================
