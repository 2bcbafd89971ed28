----------------------------- MODULE RouteProofs -----------------------------
(***************************************************************************)
(* The route command loses no message but those for which write returned   *)
(* 0, repeats none and keeps their order, for any number of messages and   *)
(* any size of the send buffers.                                           *)
(***************************************************************************)
EXTENDS Route, SequenceTheorems, TLAPS

BothUp == link = [l \in Link |-> "up"]

\* The buffer of route() holds a message exactly between read and write.
HeldInv == \A d \in Dir : held[d] # <<>> <=> pc[d] = "write"

\* Accounted, for one direction; only messages that were sent are dropped, so
\* that the next one is a new one.
AccountedIn(d) ==
  /\ Rising(Pipe(d))
  /\ Range(Pipe(d)) = (1 .. sent[From(d)]) \ dropped[d]
  /\ dropped[d] \subseteq 1 .. sent[From(d)]

AccountInv == BothUp => \A d \in Dir : AccountedIn(d)

IInv == TypeOK /\ HeldInv /\ AccountInv

-----------------------------------------------------------------------------
(* Buffers. *)

\* read takes the first message of the receive buffer.
LEMMA ReadMoves ==
  ASSUME NEW s \in Seq(Msgs), NEW i \in Seq(Msgs), i # <<>>
  PROVE  s \o <<Head(i)>> \o Tail(i) = s \o <<>> \o i
OBVIOUS

\* write adds the message to the send buffer.
LEMMA WriteMoves ==
  ASSUME NEW g \in Seq(Msgs), NEW o \in Seq(Msgs), NEW h \in Seq(Msgs)
  PROVE  g \o (o \o h) \o <<>> = g \o o \o h
OBVIOUS

\* The peer takes the first message of the send buffer.
LEMMA TakeMoves ==
  ASSUME NEW g \in Seq(Msgs), NEW o \in Seq(Msgs), o # <<>>
  PROVE  Append(g, Head(o)) \o Tail(o) = g \o o
OBVIOUS

\* The other peer sends a message.
LEMMA SendAppends ==
  ASSUME NEW s \in Seq(Msgs), NEW i \in Seq(Msgs), NEW x \in Msgs
  PROVE  s \o Append(i, x) = Append(s \o i, x)
OBVIOUS

\* The next number goes to the end.
LEMMA NextRises ==
  ASSUME NEW p \in Seq(Msgs), NEW n \in Nat, n + 1 \in Msgs,
         Rising(p), Range(p) \subseteq 1 .. n
  PROVE  /\ Rising(Append(p, n + 1))
         /\ Range(Append(p, n + 1)) = Range(p) \cup {n + 1}
<1> DEFINE q == Append(p, n + 1)
<1>1. /\ DOMAIN p = 1 .. Len(p) /\ DOMAIN q = 1 .. Len(p) + 1
      /\ Len(p) \in Nat
      /\ \A i \in 1 .. Len(p) : q[i] = p[i]
      /\ q[Len(p) + 1] = n + 1
  OBVIOUS
<1>2. \A i \in 1 .. Len(p) : p[i] \in 1 .. n
  BY <1>1 DEF Range
<1> HIDE DEF q
<1>3. Rising(q)
  BY <1>1, <1>2 DEF Rising
<1>4. Range(q) = Range(p) \cup {n + 1}
  BY <1>1 DEF Range
<1> QED
  BY <1>3, <1>4 DEF q

\* A message that is given up leaves the others where they are.
LEMMA DropKeeps ==
  ASSUME NEW s \in Seq(Msgs), NEW i \in Seq(Msgs), NEW m \in Msgs,
         Rising(s \o <<m>> \o i)
  PROVE  /\ Rising(s \o <<>> \o i)
         /\ Range(s \o <<>> \o i) = Range(s \o <<m>> \o i) \ {m}
         /\ m \in Range(s \o <<m>> \o i)
<1> DEFINE p == s \o <<m>> \o i
           q == s \o <<>> \o i
           k == Len(s)
           l == Len(i)
<1>1. k \in Nat /\ l \in Nat
  OBVIOUS
<1>2. /\ DOMAIN p = 1 .. k + 1 + l
      /\ DOMAIN q = 1 .. k + l
      /\ p[k + 1] = m
      /\ \A j \in 1 .. k : q[j] = p[j]
      /\ \A j \in k + 1 .. k + l : q[j] = p[j + 1]
  OBVIOUS
<1>3. \A j \in 1 .. k + 1 + l : p[j] \in Nat
  <2>1. p \in Seq(Msgs)
    OBVIOUS
  <2>2. \A j \in DOMAIN p : p[j] \in Msgs
    BY <2>1, ElementOfSeq
  <2> QED
    BY <1>2, <2>2, RouteAssumption DEF Msgs, RouteAssumption
<1>4. Rising(p)
  OBVIOUS
<1> HIDE DEF p, q, k, l
<1>5. \A j1, j2 \in 1 .. k + 1 + l : j1 < j2 => p[j1] < p[j2]
  BY <1>2, <1>4 DEF Rising
<1>6. Rising(q)
  BY <1>1, <1>2, <1>5 DEF Rising
<1>7. Range(q) \subseteq Range(p) \ {m}
  <2> SUFFICES ASSUME NEW j \in 1 .. k + l
               PROVE  q[j] \in Range(p) /\ q[j] # m
    BY <1>2 DEF Range
  <2>1. CASE j \in 1 .. k
    <3>1. j \in 1 .. k + 1 + l /\ k + 1 \in 1 .. k + 1 + l /\ j < k + 1
      BY <1>1, <2>1
    <3>2. q[j] = p[j] /\ p[j] < p[k + 1] /\ p[j] \in Nat
      BY <1>2, <1>3, <1>5, <2>1, <3>1
    <3> QED
      BY <1>2, <1>3, <3>1, <3>2 DEF Range
  <2>2. CASE j \in k + 1 .. k + l
    <3>1. /\ j + 1 \in 1 .. k + 1 + l /\ k + 1 \in 1 .. k + 1 + l
          /\ k + 1 < j + 1
      BY <1>1, <2>2
    <3>2. q[j] = p[j + 1] /\ p[k + 1] < p[j + 1] /\ p[j + 1] \in Nat
      BY <1>2, <1>3, <1>5, <2>2, <3>1
    <3> QED
      BY <1>2, <1>3, <3>1, <3>2 DEF Range
  <2> QED
    BY <1>1, <2>1, <2>2
<1>8. Range(p) \ {m} \subseteq Range(q)
  <2> SUFFICES ASSUME NEW j \in 1 .. k + 1 + l, p[j] # m
               PROVE  p[j] \in Range(q)
    BY <1>2 DEF Range
  <2>1. CASE j \in 1 .. k
    <3>1. j \in 1 .. k + l /\ p[j] = q[j]
      BY <1>1, <1>2, <2>1
    <3> QED
      BY <1>2, <3>1 DEF Range
  <2>2. CASE j \in k + 2 .. k + 1 + l
    <3>1. j - 1 \in k + 1 .. k + l /\ j - 1 \in 1 .. k + l /\ (j - 1) + 1 = j
      BY <1>1, <2>2
    <3>2. p[j] = q[j - 1]
      BY <1>2, <3>1
    <3> QED
      BY <1>2, <3>1, <3>2 DEF Range
  <2> QED
    BY <1>1, <1>2, <2>1, <2>2
<1>9. m \in Range(p)
  BY <1>1, <1>2 DEF Range
<1> QED
  BY <1>6, <1>7, <1>8, <1>9 DEF p, q

-----------------------------------------------------------------------------
(* Types. *)

\* The two directions use different buffers.
LEMMA Ends == \A d \in Dir : From(d) \in Link /\ To(d) \in Link
BY DEF Dir, Link, From, To

\* Each action preserves the types and the bound of the send buffers: write
\* adds one message, where there is room for it.
LEMMA TypeStep == TypeOK /\ HeldInv /\ [Next]_vars => TypeOK'
<1> SUFFICES ASSUME TypeOK, HeldInv, [Next]_vars PROVE TypeOK'
  OBVIOUS
<1> USE RouteAssumption, Ends DEF RouteAssumption, TypeOK
<1>1. ASSUME NEW d \in Dir, RouteStep(d) PROVE TypeOK'
  <2>1. CASE LoopTest(d)
    BY <2>1 DEF LoopTest
  <2>2. CASE Read(d)
    <3>1. Head(in[From(d)]) \in Msgs /\ Tail(in[From(d)]) \in Seq(Msgs)
      BY <2>2 DEF Read
    <3> QED
      BY <2>2, <3>1 DEF Read
  <2>3. CASE ReadThrows(d)
    BY <2>3 DEF ReadThrows
  <2>4. CASE Write(d)
    <3>1. PICK m \in Msgs, o \in Seq(Msgs) : held[d] = <<m>> /\ o = out[To(d)]
      BY <2>4 DEF Write, HeldInv
    <3>2. o \o <<m>> \in Seq(Msgs) /\ Len(o \o <<m>>) = Len(o) + 1
      OBVIOUS
    <3>3. out' \in [Link -> Seq(Msgs)]
      BY <2>4, <3>1, <3>2 DEF Write
    <3>4. \A l \in Link : Len(out'[l]) <= SndBuf
      BY <2>4, <3>1, <3>2 DEF Write
    <3> QED
      BY <2>4, <3>3, <3>4 DEF Write
  <2>5. CASE WriteDrops(d)
    <3>1. Head(held[d]) \in Msgs
      BY <2>5 DEF WriteDrops, HeldInv
    <3> QED
      BY <2>5, <3>1 DEF WriteDrops
  <2>6. CASE WriteThrows(d)
    BY <2>6 DEF WriteThrows
  <2> QED
    BY <1>1, <2>1, <2>2, <2>3, <2>4, <2>5, <2>6 DEF RouteStep
<1>2. ASSUME NEW d \in Dir, PeerTakes(d) PROVE TypeOK'
  <2>1. /\ Head(out[To(d)]) \in Msgs /\ Tail(out[To(d)]) \in Seq(Msgs)
        /\ Len(Tail(out[To(d)])) <= SndBuf
    BY <1>2 DEF PeerTakes
  <2>2. /\ out' \in [Link -> Seq(Msgs)]
        /\ \A l \in Link : Len(out'[l]) <= SndBuf
    BY <1>2, <2>1 DEF PeerTakes
  <2>3. got' \in [Dir -> Seq(Msgs)]
    BY <1>2, <2>1 DEF PeerTakes
  <2> QED
    BY <1>2, <2>2, <2>3 DEF PeerTakes
<1>3. ASSUME NEW l \in Link, PeerSend(l) PROVE TypeOK'
  <2>1. sent[l] + 1 \in Msgs
    BY <1>3 DEF PeerSend, Msgs
  <2>2. in' \in [Link -> Seq(Msgs)]
    BY <1>3, <2>1 DEF PeerSend
  <2>3. sent' \in [Link -> 0 .. MaxMsgs]
    BY <1>3 DEF PeerSend
  <2> QED
    BY <1>3, <2>2, <2>3 DEF PeerSend
<1>4. ASSUME NEW l \in Link, PeerLeaves(l) PROVE TypeOK'
  BY <1>4 DEF PeerLeaves
<1>5. CASE Run
  <2>1. CASE ForwardEnds
    BY <2>1 DEF ForwardEnds
  <2>2. CASE WaitBackward \/ Unwind
    BY <2>2 DEF WaitBackward, Unwind, Leave
  <2>3. CASE WaitNoState
    BY <2>3 DEF WaitNoState
  <2> QED
    BY <1>5, <2>1, <2>2, <2>3 DEF Run
<1>6. CASE Interrupt
  BY <1>6 DEF Interrupt
<1>7. CASE Cleanup
  BY <1>7 DEF Cleanup
<1>8. CASE UNCHANGED vars
  BY <1>8 DEF vars
<1> QED
  BY <1>1, <1>2, <1>3, <1>4, <1>5, <1>6, <1>7, <1>8 DEF Next

\* Read fills the buffer on the way to write, and each of the three ways to
\* leave write empties it.
LEMMA HeldStep == TypeOK /\ HeldInv /\ [Next]_vars => HeldInv'
<1> SUFFICES ASSUME TypeOK, HeldInv, [Next]_vars PROVE HeldInv'
  OBVIOUS
<1> USE DEF TypeOK, HeldInv
<1>1. ASSUME NEW d \in Dir, RouteStep(d) PROVE HeldInv'
  <2>1. CASE LoopTest(d)
    BY <2>1 DEF LoopTest
  <2>2. CASE Read(d)
    BY <2>2 DEF Read
  <2>3. CASE ReadThrows(d)
    BY <2>3 DEF ReadThrows
  <2>4. CASE Write(d)
    BY <2>4 DEF Write
  <2>5. CASE WriteDrops(d)
    BY <2>5 DEF WriteDrops
  <2>6. CASE WriteThrows(d)
    BY <2>6 DEF WriteThrows
  <2> QED
    BY <1>1, <2>1, <2>2, <2>3, <2>4, <2>5, <2>6 DEF RouteStep
<1>2. CASE ~\E d \in Dir : RouteStep(d)
  <2>1. UNCHANGED <<held, pc>>
    BY <1>2 DEF Next, Run, ForwardEnds, WaitBackward, Unwind, Leave,
       WaitNoState, PeerTakes, PeerSend, PeerLeaves, Interrupt, Cleanup, vars
  <2> QED
    BY <2>1
<1> QED
  BY <1>1, <1>2


-----------------------------------------------------------------------------
(* Messages. *)

\* The parts of the way in one direction.
LEMMA Parts ==
  ASSUME TypeOK, NEW d \in Dir
  PROVE  /\ got[d] \in Seq(Msgs) /\ out[To(d)] \in Seq(Msgs)
         /\ held[d] \in Seq(Msgs) /\ in[From(d)] \in Seq(Msgs)
         /\ sent[From(d)] \in 0 .. MaxMsgs
         /\ got[d] \o out[To(d)] \in Seq(Msgs)
         /\ got[d] \o out[To(d)] \o held[d] \in Seq(Msgs)
         /\ Pipe(d) \in Seq(Msgs)
<1>1. /\ got[d] \in Seq(Msgs) /\ out[To(d)] \in Seq(Msgs)
      /\ in[From(d)] \in Seq(Msgs) /\ sent[From(d)] \in 0 .. MaxMsgs
  BY Ends DEF TypeOK
<1>2. held[d] \in Seq(Msgs)
  <2>1. CASE held[d] = <<>>
    BY <2>1
  <2>2. ASSUME NEW m \in Msgs, held[d] = <<m>> PROVE held[d] \in Seq(Msgs)
    BY <2>2
  <2>3. held[d] \in {<<>>} \cup {<<m>> : m \in Msgs}
    BY DEF TypeOK
  <2> QED
    BY <2>1, <2>2, <2>3
<1>3. got[d] \o out[To(d)] \in Seq(Msgs)
  BY <1>1, ConcatProperties
<1>4. got[d] \o out[To(d)] \o held[d] \in Seq(Msgs)
  BY <1>2, <1>3, ConcatProperties
<1>5. Pipe(d) \in Seq(Msgs)
  BY <1>1, <1>4, ConcatProperties DEF Pipe
<1> QED
  BY <1>1, <1>2, <1>3, <1>4, <1>5

\* A connection that is up has always been.
LEMMA StaysUp ==
  ASSUME TypeOK, [Next]_vars, BothUp'
  PROVE  BothUp /\ ~Cleanup /\ ~Leave /\ \A l \in Link : ~PeerLeaves(l)
<1>1. \A l \in Link : link'[l] = "up"
  BY DEF BothUp
<1>2. ~Cleanup /\ ~Leave
  BY <1>1 DEF Cleanup, Leave, Link
<1>3. \A l \in Link : ~PeerLeaves(l)
  BY <1>1 DEF PeerLeaves, TypeOK
<1>4. UNCHANGED link
  BY <1>2, <1>3 DEF Next, Run, ForwardEnds, WaitBackward, Unwind, WaitNoState,
     RouteStep, LoopTest, Read, ReadThrows, Write, WriteDrops, WriteThrows,
     PeerTakes, PeerSend, Interrupt, vars
<1> QED
  BY <1>2, <1>3, <1>4 DEF BothUp

\* A step that leaves the way in one direction as it is.
LEMMA AccountFrame ==
  ASSUME NEW d \in Dir, AccountedIn(d), Pipe(d)' = Pipe(d),
         sent'[From(d)] = sent[From(d)], dropped'[d] = dropped[d]
  PROVE  AccountedIn(d)'
BY DEF AccountedIn

\* The way in one direction grows at its beginning, moves, and loses what write
\* gives up.
LEMMA AccountStep ==
  TypeOK /\ HeldInv /\ AccountInv /\ [Next]_vars => AccountInv'
<1> SUFFICES ASSUME TypeOK, HeldInv, AccountInv, [Next]_vars, BothUp',
                    NEW d \in Dir
             PROVE  AccountedIn(d)'
  BY DEF AccountInv
<1>p. /\ got[d] \in Seq(Msgs) /\ out[To(d)] \in Seq(Msgs)
      /\ held[d] \in Seq(Msgs) /\ in[From(d)] \in Seq(Msgs)
      /\ sent[From(d)] \in 0 .. MaxMsgs
      /\ got[d] \o out[To(d)] \in Seq(Msgs)
      /\ got[d] \o out[To(d)] \o held[d] \in Seq(Msgs)
      /\ Pipe(d) \in Seq(Msgs)
  BY Parts
<1>u. BothUp /\ ~Cleanup /\ ~Leave /\ \A l \in Link : ~PeerLeaves(l)
  BY StaysUp
<1>a. AccountedIn(d)
  BY <1>u DEF AccountInv
<1>o. \A e \in Dir : e # d => From(e) # From(d) /\ To(e) # To(d)
  BY DEF Dir, From, To
<1>1. CASE LoopTest(d)
  BY <1>1, <1>a, AccountFrame DEF LoopTest, Pipe
<1>2. CASE Read(d)
  <2>1. /\ held[d] = <<>> /\ in[From(d)] # <<>>
        /\ Pipe(d)' = got[d] \o out[To(d)] \o <<Head(in[From(d)])>>
                             \o Tail(in[From(d)])
    BY <1>2, Ends DEF Read, Pipe, TypeOK, HeldInv
  <2>2. PICK i \in Seq(Msgs) : i = in[From(d)]
    BY <1>p
  <2>3. i # <<>>
    BY <2>1, <2>2
  <2>4. \A s \in Seq(Msgs) : s \o <<Head(i)>> \o Tail(i) = s \o <<>> \o i
    BY <2>3, ReadMoves, Zenon
  <2>5. Pipe(d)' = Pipe(d)
    BY <1>p, <2>1, <2>2, <2>4, Zenon DEF Pipe
  <2> QED
    BY <1>2, <1>a, <2>5, AccountFrame DEF Read
<1>3. CASE ReadThrows(d)
  BY <1>3, <1>a, AccountFrame DEF ReadThrows, Pipe
<1>4. CASE Write(d)
  <2>1. Pipe(d)' = got[d] \o (out[To(d)] \o held[d]) \o <<>> \o in[From(d)]
    BY <1>4, Ends DEF Write, Pipe, TypeOK
  <2>2. got[d] \o (out[To(d)] \o held[d]) \o <<>>
          = got[d] \o out[To(d)] \o held[d]
    <3>1. PICK g \in Seq(Msgs), o \in Seq(Msgs), h \in Seq(Msgs) :
                 g = got[d] /\ o = out[To(d)] /\ h = held[d]
      BY <1>p
    <3>2. g \o (o \o h) \o <<>> = g \o o \o h
      BY WriteMoves, Zenon
    <3> QED
      BY <3>1, <3>2, Zenon
  <2>3. Pipe(d)' = Pipe(d)
    BY <2>1, <2>2, Zenon DEF Pipe
  <2> QED
    BY <1>4, <1>a, <2>3, AccountFrame DEF Write
<1>5. CASE WriteDrops(d)
  <2>1. PICK m \in Msgs : held[d] = <<m>>
    BY <1>5 DEF WriteDrops, TypeOK, HeldInv
  <2>s. PICK s \in Seq(Msgs), i \in Seq(Msgs) :
               s = got[d] \o out[To(d)] /\ i = in[From(d)]
    BY <1>p, Zenon
  <2>2. /\ Pipe(d) = s \o <<m>> \o i
        /\ Pipe(d)' = s \o <<>> \o i
    BY <1>5, <2>1, <2>s DEF WriteDrops, Pipe, TypeOK
  <2>3. dropped'[d] = dropped[d] \cup {m} /\ sent' = sent
    BY <1>5, <2>1 DEF WriteDrops, TypeOK
  <2>4. Rising(s \o <<m>> \o i)
    BY <1>a, <2>2 DEF AccountedIn
  <2>5. /\ Rising(s \o <<>> \o i)
        /\ Range(s \o <<>> \o i) = Range(s \o <<m>> \o i) \ {m}
        /\ m \in Range(s \o <<m>> \o i)
    BY <2>4, DropKeeps
  <2>6. /\ Rising(Pipe(d)') /\ Range(Pipe(d)') = Range(Pipe(d)) \ {m}
        /\ m \in Range(Pipe(d))
    BY <2>2, <2>5, Zenon
  <2> QED
    BY <1>a, <2>3, <2>6 DEF AccountedIn
<1>6. CASE WriteThrows(d)
  <2>1. link[To(d)] = "up"
    BY <1>u, Ends DEF BothUp
  <2> QED
    BY <1>6, <2>1 DEF WriteThrows
<1>7. CASE PeerTakes(d)
  <2>1. /\ out[To(d)] # <<>>
        /\ Pipe(d)' = Append(got[d], Head(out[To(d)])) \o Tail(out[To(d)])
                        \o held[d] \o in[From(d)]
    BY <1>7, Ends DEF PeerTakes, Pipe, TypeOK
  <2>2. Append(got[d], Head(out[To(d)])) \o Tail(out[To(d)])
          = got[d] \o out[To(d)]
    BY <1>p, <2>1, TakeMoves
  <2>3. Pipe(d)' = Pipe(d)
    BY <2>1, <2>2, Zenon DEF Pipe
  <2> QED
    BY <1>7, <1>a, <2>3, AccountFrame DEF PeerTakes
<1>8. CASE PeerSend(From(d))
  <2>1. PICK n \in Nat : n = sent[From(d)]
    BY <1>p
  <2>2. /\ n + 1 \in Msgs /\ sent'[From(d)] = n + 1 /\ dropped' = dropped
        /\ Pipe(d)' = got[d] \o out[To(d)] \o held[d]
                             \o Append(in[From(d)], n + 1)
    <3>1. From(d) \in Link /\ n < MaxMsgs
      BY <1>8, <2>1, Ends DEF PeerSend
    <3>2. n + 1 \in Msgs
      BY <3>1, RouteAssumption DEF Msgs, RouteAssumption
    <3>3. sent'[From(d)] = n + 1 /\ in'[From(d)] = Append(in[From(d)], n + 1)
      BY <1>8, <2>1, <3>1 DEF PeerSend, TypeOK
    <3>4. UNCHANGED <<got, out, held, dropped>>
      BY <1>8 DEF PeerSend
    <3> QED
      BY <3>2, <3>3, <3>4 DEF Pipe
  <2>3. Pipe(d)' = Append(Pipe(d), n + 1)
    <3>1. PICK s \in Seq(Msgs) : s = got[d] \o out[To(d)] \o held[d]
      BY <1>p, Zenon
    <3>2. s \o Append(in[From(d)], n + 1) = Append(s \o in[From(d)], n + 1)
      BY <1>p, <2>2, SendAppends, Zenon
    <3> QED
      BY <2>2, <3>1, <3>2, Zenon DEF Pipe
  <2>4. PICK p \in Seq(Msgs) : p = Pipe(d)
    BY <1>p
  <2>5. /\ Rising(p) /\ Range(p) = (1 .. n) \ dropped[d]
        /\ dropped[d] \subseteq 1 .. n
    BY <1>a, <2>1, <2>4 DEF AccountedIn
  <2>6. /\ Rising(Append(p, n + 1))
        /\ Range(Append(p, n + 1)) = Range(p) \cup {n + 1}
    BY <2>2, <2>5, NextRises
  <2>7. /\ Range(p) \cup {n + 1} = (1 .. n + 1) \ dropped[d]
        /\ dropped[d] \subseteq 1 .. n + 1
    BY <2>1, <2>5
  <2> QED
    BY <2>2, <2>3, <2>4, <2>6, <2>7 DEF AccountedIn
<1>9. CASE \E e \in Dir \ {d} : RouteStep(e) \/ PeerTakes(e)
  <2>1. PICK e \in Dir : e # d /\ (RouteStep(e) \/ PeerTakes(e))
    BY <1>9
  <2>2. /\ From(e) # From(d) /\ To(e) # To(d)
        /\ From(e) \in Link /\ To(e) \in Link
    BY <1>o, <2>1, Ends
  <2>3. /\ held'[d] = held[d] /\ in'[From(d)] = in[From(d)]
        /\ out'[To(d)] = out[To(d)] /\ got'[d] = got[d]
        /\ sent' = sent /\ dropped'[d] = dropped[d]
    BY <2>1, <2>2, Ends DEF RouteStep, LoopTest, Read, ReadThrows, Write,
       WriteDrops, WriteThrows, PeerTakes, TypeOK
  <2> QED
    BY <1>a, <2>3, AccountFrame DEF Pipe
<1>10. CASE \E l \in Link \ {From(d)} : PeerSend(l)
  <2>1. /\ in'[From(d)] = in[From(d)] /\ sent'[From(d)] = sent[From(d)]
        /\ UNCHANGED <<held, out, got, dropped>>
    BY <1>10, Ends DEF PeerSend, TypeOK
  <2> QED
    BY <1>a, <2>1, AccountFrame DEF Pipe
<1>11. CASE Run \/ Interrupt \/ UNCHANGED vars
  <2>1. UNCHANGED <<held, in, out, got, sent, dropped>>
    BY <1>11, <1>u DEF Run, ForwardEnds, WaitBackward, Unwind, WaitNoState,
       Interrupt, vars
  <2> QED
    BY <1>a, <2>1, AccountFrame DEF Pipe
<1>12. CASE \E e \in Dir : RouteStep(e) \/ PeerTakes(e)
  BY <1>12, <1>1, <1>2, <1>3, <1>4, <1>5, <1>6, <1>7, <1>9 DEF RouteStep
<1> QED
  BY <1>u, <1>8, <1>10, <1>11, <1>12, Zenon DEF Next

-----------------------------------------------------------------------------

\* Initially nothing was sent.
LEMMA InitHolds == Init => IInv
<1> SUFFICES ASSUME Init PROVE IInv
  OBVIOUS
<1> USE RouteAssumption DEF RouteAssumption, Init
<1>1. TypeOK
  BY DEF TypeOK, Msgs
<1>2. HeldInv
  BY DEF HeldInv
<1>3. ASSUME NEW d \in Dir PROVE AccountedIn(d)
  <2>1. Pipe(d) = <<>> \o <<>> \o <<>> \o <<>>
    BY Ends DEF Pipe
  <2>2. Pipe(d) = <<>>
    BY <2>1
  <2>3. sent[From(d)] = 0 /\ dropped[d] = {}
    BY Ends
  <2> QED
    BY <2>2, <2>3 DEF AccountedIn, Rising, Range
<1> QED
  BY <1>1, <1>2, <1>3 DEF IInv, AccountInv

\* IInv is inductive.
LEMMA NextHolds == IInv /\ [Next]_vars => IInv'
BY TypeStep, HeldStep, AccountStep DEF IInv

\* IInv holds in every state that a behaviour reaches.
LEMMA Invariant == Spec => []IInv
<1>1. Init => IInv
  BY InitHolds
<1>2. IInv /\ [Next]_vars => IInv'
  BY NextHolds
<1> QED
  BY <1>1, <1>2, PTL DEF Spec

\* The variables of the two threads of route() and of the connections have
\* their types, and no send buffer is overfilled.
THEOREM TypeCorrect == Spec => []TypeOK
<1>1. IInv => TypeOK
  BY DEF IInv
<1> QED
  BY <1>1, Invariant, PTL

\* While both connections hold, the messages of a peer that route() has read and
\* write has not given up are on the way to the other peer, once and in order.
THEOREM OnlyWriteDrops == Spec => []Accounted
<1>1. IInv => Accounted
  BY DEF IInv, AccountInv, AccountedIn, Accounted, BothUp
<1> QED
  BY <1>1, Invariant, PTL
=============================================================================
