-------------------------- MODULE FileTransferProofs --------------------------
(***************************************************************************)
(* "file send" and "file receive" implement FileCopy, and a transfer that  *)
(* ends well misses nothing, for any number of files, any lengths, and any *)
(* sizes of a segment, a name and the send buffer.                         *)
(***************************************************************************)
EXTENDS FileTransfer, SequenceTheorems, TLAPS

\* The segments between the file that is read and the receiver, in their order.
Way == arrived \o flight \o seg

\* Where unit l of file g is the next thing to send after unit k - 1 of file f:
\* the files between them have no contents.
Goes(sz, f, k, g, l) ==
  \/ g = f /\ l = k
  \/ /\ f < g /\ l = 0 /\ k = sz[f]
     /\ \A h \in File : f < h /\ h < g => sz[h] = 0

\* The flags of a segment tell the truth.
Fits(sz, m) ==
  /\ m.from + m.n <= sz[m.file]
  /\ m.first <=> m.from = 0
  /\ m.eof => m.from + m.n = sz[m.file]

Follows(sz, m, g, l) == Goes(sz, m.file, m.from + m.n, g, l)

\* The segments of w go on from each other.
Legs(sz, w) ==
  /\ \A i \in 1 .. Len(w) : Fits(sz, w[i])
  /\ \A i \in 1 .. Len(w) - 1 : Follows(sz, w[i], w[i + 1].file, w[i + 1].from)

\* The sender has thrown away a segment.
Lost == sender \in {"unwind", "aborted"}

\* sendFile: hdrSize > 1 until something was sent, and it returns true only at
\* the end of the file or when interrupted.
SendInv ==
  /\ sender = "write" <=> seg # <<>>
  /\ off <= size[cur]
  /\ sender = "open" => off = 0
  /\ sender \in {"open", "read"} => (isStart <=> off = 0)
  /\ sender = "write" => off > 0 /\ (seg[1].eof => off = size[cur])
  /\ sender = "tested" /\ ~forceBreak("send") => off = size[cur]

\* What is on the way has no gap, and sendFile goes on where it ends.
WayInv ==
  /\ Legs(size, Way)
  /\ Way # <<>> /\ ~Lost => Follows(size, Way[Len(Way)], cur, off)

\* The state of the receiver that has got everything before unit k of file f.
RecvAt(f, k) ==
  /\ \A g \in File : g < f => size[g] = 0 \/ copy[g] = size[g] \/ g \in spoiled
  /\ \A g \in File : g > f \/ (g = f /\ k = 0) =>
                       copy[g] = Absent /\ g \notin spoiled
  /\ k > 0 /\ failed => f \in spoiled
  /\ k > 0 /\ ~failed => /\ copy[f] = k /\ f \notin spoiled
                         /\ k < size[f] => ofile = f

\* The receiver is where the way begins.
RecvInv ==
  receiver = "read" =>
    /\ Way # <<>> => RecvAt(Way[1].file, Way[1].from)
    /\ Way = <<>> /\ ~Lost => RecvAt(cur, off)

IInv == /\ TypeOK
        /\ SendInv
        /\ WayInv
        /\ RecvInv
        /\ garbled = {}

-----------------------------------------------------------------------------
(* Sequences of segments. *)

\* The way grows at its end.
LEMMA LegsAppend ==
  ASSUME NEW sz, NEW w \in Seq(Segments), NEW m \in Segments,
         Legs(sz, w), Fits(sz, m),
         w # <<>> => Follows(sz, w[Len(w)], m.file, m.from)
  PROVE  Legs(sz, Append(w, m))
<1> DEFINE v == Append(w, m)
<1>1. /\ Len(w) \in Nat /\ Len(v) = Len(w) + 1
      /\ \A i \in 1 .. Len(w) : v[i] = w[i]
      /\ v[Len(w) + 1] = m
      /\ Len(w) > 0 => w # <<>>
  OBVIOUS
<1> HIDE DEF v
<1>2. \A i \in 1 .. Len(v) : Fits(sz, v[i])
  BY <1>1 DEF Legs
<1>3. ASSUME NEW i \in 1 .. Len(v) - 1
      PROVE  Follows(sz, v[i], v[i + 1].file, v[i + 1].from)
  <2>1. CASE i = Len(w)
    BY <1>1, <2>1
  <2>2. CASE i \in 1 .. Len(w) - 1
    <3>1. i + 1 \in 1 .. Len(w) /\ i \in 1 .. Len(w)
      BY <1>1, <2>2
    <3> QED
      BY <1>1, <2>2, <3>1 DEF Legs
  <2> QED
    BY <1>1, <2>1, <2>2
<1> QED
  BY <1>2, <1>3 DEF Legs, v

\* The way loses its first segment.
LEMMA LegsTail ==
  ASSUME NEW sz, NEW w \in Seq(Segments), w # <<>>, Legs(sz, w)
  PROVE  /\ Legs(sz, Tail(w)) /\ Fits(sz, w[1])
         /\ Tail(w) # <<>> =>
              /\ Follows(sz, w[1], Tail(w)[1].file, Tail(w)[1].from)
              /\ Tail(w)[Len(Tail(w))] = w[Len(w)]
         /\ Tail(w) = <<>> => w[1] = w[Len(w)]
<1> DEFINE v == Tail(w)
<1>1. /\ Len(w) \in Nat /\ Len(w) >= 1 /\ Len(v) = Len(w) - 1
      /\ \A i \in 1 .. Len(v) : v[i] = w[i + 1]
      /\ v \in Seq(Segments)
  OBVIOUS
<1> HIDE DEF v
<1>0. (v = <<>> => Len(v) = 0) /\ (v # <<>> => Len(v) >= 1)
  BY <1>1
<1>2. \A i \in 1 .. Len(v) : Fits(sz, v[i])
  BY <1>1 DEF Legs
<1>3. ASSUME NEW i \in 1 .. Len(v) - 1
      PROVE  Follows(sz, v[i], v[i + 1].file, v[i + 1].from)
  <2>1. i + 1 \in 1 .. Len(w) - 1 /\ i \in 1 .. Len(v) /\ i + 1 \in 1 .. Len(v)
    BY <1>1
  <2> QED
    BY <1>1, <2>1 DEF Legs
<1>4. Legs(sz, v) /\ Fits(sz, w[1])
  BY <1>1, <1>2, <1>3 DEF Legs
<1>5. ASSUME v # <<>>
      PROVE  /\ Follows(sz, w[1], v[1].file, v[1].from)
             /\ v[Len(v)] = w[Len(w)]
  <2>1. 1 \in 1 .. Len(w) - 1 /\ v[1] = w[2] /\ v[Len(v)] = w[Len(w)]
    BY <1>0, <1>1, <1>5
  <2> QED
    BY <2>1 DEF Legs
<1>6. v = <<>> => Len(w) = 1
  BY <1>0, <1>1
<1> QED
  BY <1>4, <1>5, <1>6 DEF v

\* The way loses its last segment.
LEMMA LegsFront ==
  ASSUME NEW sz, NEW w \in Seq(Segments), NEW m \in Segments,
         Legs(sz, Append(w, m))
  PROVE  Legs(sz, w)
<1> DEFINE v == Append(w, m)
<1>1. /\ Len(w) \in Nat /\ Len(v) = Len(w) + 1
      /\ \A i \in 1 .. Len(w) : v[i] = w[i]
  OBVIOUS
<1>2. Legs(sz, v)
  OBVIOUS
<1> HIDE DEF v
<1>3. \A i \in 1 .. Len(w) : Fits(sz, w[i])
  BY <1>1, <1>2 DEF Legs
<1>4. ASSUME NEW i \in 1 .. Len(w) - 1
      PROVE  Follows(sz, w[i], w[i + 1].file, w[i + 1].from)
  <2>1. i \in 1 .. Len(v) - 1 /\ i \in 1 .. Len(w) /\ i + 1 \in 1 .. Len(w)
    BY <1>1
  <2> QED
    BY <1>1, <1>2, <2>1 DEF Legs
<1> QED
  BY <1>3, <1>4 DEF Legs

\* The network moves a segment from one buffer to the other.
LEMMA DeliverMoves ==
  ASSUME NEW a \in Seq(Segments), NEW f \in Seq(Segments), f # <<>>
  PROVE  Append(a, Head(f)) \o Tail(f) = a \o f
OBVIOUS

\* dst.write moves the segment that was read into the send buffer.
LEMMA WriteMoves ==
  ASSUME NEW a \in Seq(Segments), NEW f \in Seq(Segments),
         NEW s \in Seq(Segments)
  PROVE  a \o (f \o s) \o <<>> = a \o f \o s
OBVIOUS

\* The receive buffer is where the way begins.
LEMMA ReceiveTakes ==
  ASSUME NEW a \in Seq(Segments), NEW f \in Seq(Segments), a # <<>>
  PROVE  /\ a \o f # <<>> /\ (a \o f)[1] = a[1]
         /\ Tail(a) \o f = Tail(a \o f)
OBVIOUS

-----------------------------------------------------------------------------
(* Positions. *)

\* The parts of the way.
LEMMA Parts ==
  TypeOK => /\ arrived \in Seq(Segments) /\ flight \in Seq(Segments)
            /\ seg \in Seq(Segments)
            /\ arrived \o flight \in Seq(Segments)
            /\ Way \in Seq(Segments)
<1> SUFFICES ASSUME TypeOK
             PROVE  /\ arrived \in Seq(Segments) /\ flight \in Seq(Segments)
                    /\ seg \in Seq(Segments)
                    /\ arrived \o flight \in Seq(Segments)
                    /\ Way \in Seq(Segments)
  OBVIOUS
<1>1. arrived \in Seq(Segments) /\ flight \in Seq(Segments)
  BY DEF TypeOK
<1>2. seg \in Seq(Segments)
  <2>1. CASE seg = <<>>
    BY <2>1
  <2>2. ASSUME NEW m \in Segments, seg = <<m>> PROVE seg \in Seq(Segments)
    BY <2>2
  <2>3. seg \in {<<>>} \cup {<<m>> : m \in Segments}
    BY DEF TypeOK
  <2> QED
    BY <2>1, <2>2, <2>3
<1>3. arrived \o flight \in Seq(Segments)
  BY <1>1, ConcatProperties
<1>4. Way \in Seq(Segments)
  BY <1>2, <1>3, ConcatProperties DEF Way
<1> QED
  BY <1>1, <1>2, <1>3, <1>4

\* The next file is begun when sendFile has read one to its end.
LEMMA GoesOn ==
  ASSUME NEW sz \in [File -> Nat], NEW f \in File, NEW k \in Nat,
         NEW c \in File, Goes(sz, f, k, c, sz[c]), c + 1 \in File
  PROVE  Goes(sz, f, k, c + 1, 0)
<1> USE FileTransferAssumption DEF FileTransferAssumption, File
<1>1. CASE c = f
  BY <1>1 DEF Goes
<1>2. CASE c # f
  BY <1>2 DEF Goes
<1> QED
  BY <1>1, <1>2

\* A receiver that has got everything up to one position has got everything up
\* to the next one.
LEMMA Passed ==
  ASSUME size \in [File -> Nat], NEW f \in File, NEW k \in Nat, NEW g \in File,
         NEW l \in Nat, Goes(size, f, k, g, l), RecvAt(f, k)
  PROVE  RecvAt(g, l)
<1> USE FileTransferAssumption DEF FileTransferAssumption, File
<1>1. CASE g = f /\ l = k
  BY <1>1
<1>2. CASE /\ f < g /\ l = 0 /\ k = size[f]
           /\ \A h \in File : f < h /\ h < g => size[h] = 0
  <2>1. ASSUME NEW h \in File, h < g
        PROVE  size[h] = 0 \/ copy[h] = size[h] \/ h \in spoiled
    <3>1. CASE h < f
      BY <3>1 DEF RecvAt
    <3>2. CASE h = f
      BY <1>2, <3>2 DEF RecvAt
    <3>3. CASE f < h
      BY <1>2, <2>1, <3>3
    <3> QED
      BY <3>1, <3>2, <3>3
  <2>2. ASSUME NEW h \in File, h > g \/ h = g
        PROVE  copy[h] = Absent /\ h \notin spoiled
    <3>1. h > f
      BY <1>2, <2>2
    <3> QED
      BY <3>1 DEF RecvAt
  <2> QED
    BY <1>2, <2>1, <2>2 DEF RecvAt
<1> QED
  BY <1>1, <1>2 DEF Goes

\* The same in every state, and so after every step.
PassesOn == size \in [File -> Nat] =>
              \A f, g \in File : \A k, l \in Nat :
                Goes(size, f, k, g, l) /\ RecvAt(f, k) => RecvAt(g, l)

LEMMA PassedLater == PassesOn'
<1>1. PassesOn
  BY Passed DEF PassesOn
<1> QED
  BY <1>1, PTL

\* The segment that the receiver reads is the one that it waits for.
LEMMA NextSegment ==
  ASSUME TypeOK, WayInv, RecvInv, receiver = "read", arrived # <<>>
  PROVE  /\ arrived[1] \in Segments
         /\ Fits(size, arrived[1])
         /\ RecvAt(arrived[1].file, arrived[1].from)
         /\ Way # <<>> /\ Way[1] = arrived[1]
         /\ Tail(arrived) \o flight \o seg = Tail(Way)
<1>1. PICK a \in Seq(Segments), f \in Seq(Segments), s \in Seq(Segments) :
             a = arrived /\ f = flight /\ s = seg
  BY Parts
<1>2. a # <<>>
  BY <1>1
<1>3. a[1] \in Segments
  BY <1>2
<1>4. /\ a \o f # <<>> /\ (a \o f)[1] = a[1] /\ Tail(a) \o f = Tail(a \o f)
      /\ a \o f \in Seq(Segments)
  BY <1>2, ReceiveTakes, ConcatProperties
<1>5. PICK w \in Seq(Segments) : w = a \o f
  BY <1>4, Zenon
<1>6. w # <<>> /\ w[1] = a[1] /\ Tail(a) \o f = Tail(w)
  BY <1>4, <1>5
<1>7. w \o s # <<>> /\ (w \o s)[1] = w[1] /\ Tail(w) \o s = Tail(w \o s)
  BY <1>6, ReceiveTakes, Zenon
<1>8. Way = w \o s
  BY <1>1, <1>5 DEF Way
<1>9. /\ Way # <<>> /\ Way[1] = arrived[1]
      /\ Tail(arrived) \o flight \o seg = Tail(Way)
  BY <1>1, <1>6, <1>7, <1>8
<1>10. Fits(size, arrived[1])
  <2>1. PICK v \in Seq(Segments) : v = Way
    BY Parts
  <2>2. v # <<>> /\ Legs(size, v) /\ v[1] = arrived[1]
    BY <1>9, <2>1 DEF WayInv
  <2>3. 1 \in 1 .. Len(v)
    BY <2>2
  <2> QED
    BY <2>2, <2>3 DEF Legs
<1>11. RecvAt(arrived[1].file, arrived[1].from)
  BY <1>9 DEF RecvInv
<1> QED
  BY <1>1, <1>3, <1>9, <1>10, <1>11

-----------------------------------------------------------------------------
(* Storing a segment. *)

\* What the stream ofile does with the segment that the receiver waits for: it
\* belongs to the file that is open, at its end.
Stores(m) == /\ \/ m.from = 0
                \/ ~failed
             /\ Store(m, m.file, m.from)

\* The receiver stores a segment in its place, or ignores it because the stream
\* has failed before.
LEMMA Received ==
  ASSUME TypeOK, WayInv, RecvInv, ReceiveFirst \/ ReceiveMore
  PROVE  \/ Stores(arrived[1])
         \/ /\ arrived[1].from > 0 /\ failed
            /\ UNCHANGED <<ofile, failed, copy, spoiled, garbled>>
<1> DEFINE m == arrived[1]
<1>1. receiver = "read" /\ arrived # <<>>
  BY DEF ReceiveFirst, ReceiveMore
<1>2. m \in Segments /\ Fits(size, m) /\ RecvAt(m.file, m.from)
  BY <1>1, NextSegment
<1>3. m.file \in File /\ m.from \in Nat /\ m.n \in Nat \ {0}
  BY <1>2, FileTransferAssumption DEF Segments, FileTransferAssumption
<1>4. CASE ReceiveFirst
  <2>1. m.from = 0
    BY <1>2, <1>4 DEF ReceiveFirst, Fits
  <2> QED
    BY <1>4, <2>1 DEF ReceiveFirst, Stores
<1>5. CASE ReceiveMore /\ failed
  <2>1. m.from > 0
    BY <1>2, <1>3, <1>5 DEF ReceiveMore, Fits
  <2> QED
    BY <1>5, <2>1 DEF ReceiveMore
<1>6. CASE ReceiveMore /\ ~failed
  <2>1. m.from > 0
    BY <1>2, <1>3, <1>6 DEF ReceiveMore, Fits
  <2>2. m.from < size[m.file]
    BY <1>2, <1>3 DEF Fits, TypeOK
  <2>3. copy[m.file] = m.from /\ ofile = m.file
    BY <1>2, <1>6, <2>1, <2>2 DEF RecvAt
  <2>4. ofile # None
    BY <1>3, <2>3 DEF File, None
  <2>5. Store(m, ofile, IF ofile = None THEN 0 ELSE copy[ofile])
    BY <1>6 DEF ReceiveMore
  <2>6. Store(m, m.file, m.from)
    BY <2>3, <2>4, <2>5
  <2> QED
    BY <1>6, <2>6 DEF Stores
<1> QED
  BY <1>4, <1>5, <1>6

\* A stored segment: k of its units are new in the copy.
LEMMA Stored ==
  ASSUME TypeOK, NEW m \in Segments, Fits(size, m), RecvAt(m.file, m.from),
         Stores(m), UNCHANGED size
  PROVE  /\ \E k \in 0 .. m.n :
              /\ copy' = [copy EXCEPT ![m.file] = m.from + k]
              /\ failed' = (k < m.n)
              /\ spoiled' = IF k < m.n THEN spoiled \cup {m.file} ELSE spoiled
         /\ garbled' = garbled
         /\ ofile' = IF m.eof THEN None ELSE m.file
         /\ m.file \notin spoiled
         /\ copy[m.file] = IF m.from = 0 THEN Absent ELSE m.from
         /\ m.file \in File /\ m.from \in Nat /\ m.n \in Nat \ {0}
         /\ m.from + m.n <= size[m.file]
<1>1. m.file \in File /\ m.from \in Nat /\ m.n \in Nat \ {0}
  BY FileTransferAssumption DEF Segments, FileTransferAssumption
<1>2. m.file # None
  BY <1>1 DEF File, None
<1>3. Store(m, m.file, m.from)
  BY DEF Stores
<1>4. garbled' = garbled /\ ofile' = IF m.eof THEN None ELSE m.file
  BY <1>2, <1>3 DEF Store
<1>5. \E k \in 0 .. m.n :
        /\ copy' = [copy EXCEPT ![m.file] = m.from + k]
        /\ failed' = (k < m.n)
        /\ spoiled' = IF k < m.n THEN spoiled \cup {m.file} ELSE spoiled
  BY <1>2, <1>3 DEF Store
<1>6. /\ m.file \notin spoiled
      /\ copy[m.file] = IF m.from = 0 THEN Absent ELSE m.from
  BY <1>1 DEF RecvAt, Stores
<1>7. m.from + m.n <= size[m.file]
  BY DEF Fits
<1> QED
  BY <1>1, <1>4, <1>5, <1>6, <1>7

\* Then everything up to its end is there, or the copy is spoiled.
LEMMA StoredAt ==
  ASSUME TypeOK, NEW m \in Segments, Fits(size, m), RecvAt(m.file, m.from),
         Stores(m), UNCHANGED size
  PROVE  RecvAt(m.file, m.from + m.n)'
<1> DEFINE f == m.file
           e == m.from + m.n
<1>1. PICK k \in 0 .. m.n :
        /\ copy' = [copy EXCEPT ![f] = m.from + k]
        /\ failed' = (k < m.n)
        /\ spoiled' = IF k < m.n THEN spoiled \cup {f} ELSE spoiled
  BY Stored
<1>2. /\ ofile' = IF m.eof THEN None ELSE f
      /\ f \notin spoiled /\ f \in File /\ m.from \in Nat /\ m.n \in Nat \ {0}
  BY Stored
<1>3. e \in Nat /\ e > 0 /\ size' = size
  BY <1>2
<1>4. ASSUME NEW g \in File, g # f
      PROVE  copy'[g] = copy[g] /\ (g \in spoiled' <=> g \in spoiled)
  BY <1>1, <1>4 DEF TypeOK
<1>5. ASSUME NEW g \in File, g < f
      PROVE  size'[g] = 0 \/ copy'[g] = size'[g] \/ g \in spoiled'
  BY <1>2, <1>3, <1>4, <1>5 DEF RecvAt, File
<1>6. ASSUME NEW g \in File, g > f
      PROVE  copy'[g] = Absent /\ g \notin spoiled'
  BY <1>2, <1>4, <1>6 DEF RecvAt, File
<1>7. ASSUME failed' PROVE f \in spoiled'
  BY <1>1, <1>7
<1>8. ASSUME ~failed'
      PROVE  copy'[f] = e /\ f \notin spoiled' /\ (e < size'[f] => ofile' = f)
  <2>1. k = m.n
    <3>1. ~(k < m.n)
      BY <1>1, <1>8, Zenon
    <3> QED
      BY <1>2, <3>1
  <2>2. copy'[f] = e /\ f \notin spoiled'
    BY <1>1, <1>2, <2>1 DEF TypeOK
  <2>3. e < size'[f] => ~m.eof
    BY <1>2, <1>3 DEF Fits, TypeOK
  <2> QED
    BY <1>2, <2>2, <2>3
<1> HIDE DEF e
<1>9. ~(\E g \in File : g = f /\ e = 0)
  BY <1>3
<1> QED
  BY <1>3, <1>5, <1>6, <1>7, <1>8, <1>9 DEF RecvAt, e

-----------------------------------------------------------------------------
(* Types. *)

\* A segment that was read from the file.
Cut(m) == /\ m \in Segments /\ Fits(size, m)
          /\ m.file = cur /\ m.from = off
          /\ m.eof => off + m.n = size[cur]

\* ifile.read fills a segment with what follows in the file.
LEMMA SegmentRead ==
  ASSUME TypeOK, SendInv, ReadSegment \/ ReadError, sender' = "write"
  PROVE  \E m \in Segments : /\ Cut(m)
                             /\ seg' = <<m>>
                             /\ off' = off + m.n /\ off + m.n <= size[cur]
<1> USE FileTransferAssumption DEF FileTransferAssumption
<1>1. /\ off \in Nat /\ size[cur] \in 0 .. MaxSize /\ off <= size[cur]
      /\ cur \in File /\ sender = "read" /\ isStart \in BOOLEAN
      /\ isStart <=> off = 0
  BY DEF TypeOK, SendInv, ReadSegment, ReadError
<1>2. Rest \in Nat /\ Rest = size[cur] - off /\ Room \in Nat \ {0}
  BY <1>1 DEF Rest, Room
<1>3. CASE ReadSegment
  <2> DEFINE n == IF Rest < Room THEN Rest ELSE Room
             m == [file |-> cur, first |-> isStart, eof |-> n < Room,
                   bad |-> FALSE, from |-> off, n |-> n]
  <2>1. n > 0 /\ seg' = <<m>> /\ off' = off + n
    BY <1>3 DEF ReadSegment, FileDone
  <2>2. n \in 1 .. MaxSize /\ off + n <= size[cur] /\ off \in 0 .. MaxSize
    BY <1>1, <1>2, <2>1
  <2>3. n < Room => off + n = size[cur]
    BY <1>1, <1>2
  <2>4. (n < Room) \in BOOLEAN
    BY <1>2
  <2> HIDE DEF n
  <2>5. m \in Segments
    BY <1>1, <2>2, <2>4 DEF Segments
  <2>6. Fits(size, m)
    BY <1>1, <2>2, <2>3 DEF Fits
  <2> QED
    BY <2>1, <2>2, <2>3, <2>5, <2>6 DEF Cut
<1>4. CASE ReadError
  <2>1. PICK n \in 1 .. (IF Rest < Room THEN Rest ELSE Room) :
          /\ seg' = <<[file |-> cur, first |-> isStart, eof |-> FALSE,
                       bad |-> TRUE, from |-> off, n |-> n]>>
          /\ off' = off + n
    BY <1>4 DEF ReadError
  <2> DEFINE m == [file |-> cur, first |-> isStart, eof |-> FALSE,
                   bad |-> TRUE, from |-> off, n |-> n]
  <2>2. n \in 1 .. MaxSize /\ off + n <= size[cur] /\ off \in 0 .. MaxSize
    BY <1>1, <1>2
  <2>3. m \in Segments
    BY <1>1, <2>2 DEF Segments
  <2>4. Fits(size, m)
    BY <1>1, <2>2 DEF Fits
  <2> QED
    BY <2>1, <2>2, <2>3, <2>4 DEF Cut
<1> QED
  BY <1>3, <1>4

\* Each action preserves the types and the bound of the send buffer.
LEMMA TypeStep ==
  TypeOK /\ SendInv /\ WayInv /\ RecvInv /\ [Next]_vars => TypeOK'
<1> SUFFICES ASSUME TypeOK, SendInv, WayInv, RecvInv, [Next]_vars PROVE TypeOK'
  OBVIOUS
<1> USE FileTransferAssumption
    DEF FileTransferAssumption, sendVars, recvVars, TypeOK
<1>1. CASE OpenFile
  BY <1>1 DEF OpenFile, SenderPC
<1>2. CASE ReadSegment \/ ReadError
  <2>1. CASE sender' = "write"
    <3>1. PICK m \in Segments : /\ seg' = <<m>> /\ off' = off + m.n
                                /\ off + m.n <= size[cur]
      BY <1>2, <2>1, SegmentRead
    <3>2. off' \in 0 .. MaxSize
      BY <3>1 DEF Segments
    <3>3. UNCHANGED <<size, logs, intr, sock, cur, isStart, flight, arrived,
                      recvVars>>
      BY <1>2 DEF ReadSegment, ReadError
    <3> QED
      BY <2>1, <3>1, <3>2, <3>3 DEF SenderPC
  <2>2. CASE sender' # "write"
    BY <1>2, <2>2 DEF ReadSegment, ReadError, FileDone, SenderPC
  <2> QED
    BY <2>1, <2>2
<1>3. CASE SendInterrupted
  BY <1>3 DEF SendInterrupted, FileDone, SenderPC
<1>4. CASE WriteSegment
  <2>1. PICK m \in Segments, f \in Seq(Segments) : seg = <<m>> /\ f = flight
    BY <1>4 DEF WriteSegment, SendInv
  <2>2. f \o <<m>> \in Seq(Segments) /\ Len(f \o <<m>>) = Len(f) + 1
    OBVIOUS
  <2>3. flight' \in Seq(Segments) /\ Len(flight') <= SndBuf
    BY <1>4, <2>1, <2>2 DEF WriteSegment
  <2>4. sender' \in SenderPC
    BY <1>4 DEF WriteSegment, SenderPC
  <2>5. isStart' \in BOOLEAN
    BY <1>4 DEF WriteSegment
  <2> QED
    BY <1>4, <2>3, <2>4, <2>5 DEF WriteSegment
<1>5. CASE WriteThrows
  BY <1>5 DEF WriteThrows, SenderPC, Side
<1>6. CASE NextFile
  <2>1. CASE forceBreak("send") \/ cur = N
    BY <1>6, <2>1 DEF NextFile, SenderPC
  <2>2. CASE ~(forceBreak("send") \/ cur = N)
    <3>1. cur' \in File /\ off' \in 0 .. MaxSize
      BY <1>6, <2>2 DEF NextFile, File
    <3>2. isStart' \in BOOLEAN
      BY <1>6, <2>2 DEF NextFile
    <3> QED
      BY <1>6, <2>2, <3>1, <3>2 DEF NextFile, SenderPC
  <2> QED
    BY <2>1, <2>2
<1>7. CASE Drain
  BY <1>7 DEF Drain, SenderPC
<1>8. CASE EndSender
  BY <1>8 DEF EndSender, SenderPC, Side
<1>9. CASE ReceiveFirst \/ ReceiveMore
  <2>1. receiver = "read" /\ arrived # <<>> /\ Tail(arrived) \in Seq(Segments)
    BY <1>9 DEF ReceiveFirst, ReceiveMore
  <2>2. /\ arrived' = Tail(arrived)
        /\ UNCHANGED <<size, logs, intr, sock, sendVars, flight, receiver>>
    BY <1>9 DEF ReceiveFirst, ReceiveMore
  <2>3. /\ arrived[1] \in Segments /\ Fits(size, arrived[1])
        /\ RecvAt(arrived[1].file, arrived[1].from)
    BY <2>1, NextSegment
  <2>4. CASE Stores(arrived[1])
    <3> DEFINE m == arrived[1]
    <3>1. PICK k \in 0 .. m.n :
            /\ copy' = [copy EXCEPT ![m.file] = m.from + k]
            /\ failed' = (k < m.n)
            /\ spoiled' = IF k < m.n THEN spoiled \cup {m.file} ELSE spoiled
      BY <2>2, <2>3, <2>4, Stored
    <3>2. /\ garbled' = garbled /\ ofile' = IF m.eof THEN None ELSE m.file
          /\ m.file \in File /\ m.from \in Nat /\ m.n \in Nat \ {0}
          /\ m.from + m.n <= size[m.file]
      BY <2>2, <2>3, <2>4, Stored
    <3> HIDE DEF m
    <3>3. size[m.file] \in 0 .. MaxSize
      BY <3>2
    <3>4. m.from + k \in Absent .. MaxSize
      <4>1. k \in Nat /\ k <= m.n
        BY <3>2
      <4>2. PICK b \in Nat, n \in Nat, z \in 0 .. MaxSize :
                   b = m.from /\ n = m.n /\ z = size[m.file]
        BY <3>2, <3>3
      <4>3. b + n <= z /\ k <= n
        BY <3>2, <4>1, <4>2
      <4>4. b + k \in Absent .. MaxSize
        BY <4>1, <4>3 DEF Absent
      <4> QED
        BY <4>2, <4>4
    <3>5. copy' \in [File -> Absent .. MaxSize]
      BY <3>1, <3>4
    <3>6. failed' \in BOOLEAN
      <4>1. k \in Int /\ m.n \in Int /\ failed' = (k < m.n)
        BY <3>1, <3>2
      <4> QED
        BY <4>1
    <3>7. ofile' \in File \cup {None} /\ spoiled' \subseteq File
      BY <3>1, <3>2
    <3> QED
      BY <2>1, <2>2, <3>2, <3>5, <3>6, <3>7
  <2>5. CASE UNCHANGED <<ofile, failed, copy, spoiled, garbled>>
    BY <2>1, <2>2, <2>5
  <2> QED
    BY <1>9, <2>4, <2>5, Received
<1>10. CASE ReceiveFirstFails
  <2>1. Tail(arrived) \in Seq(Segments)
    BY <1>10 DEF ReceiveFirstFails
  <2> QED
    BY <1>10, <2>1 DEF ReceiveFirstFails, ReceiverPC
<1>11. CASE ReceiveInterrupted \/ ReadThrows
  BY <1>11 DEF ReceiveInterrupted, ReadThrows, ReceiverPC
<1>12. CASE EndReceiver
  BY <1>12 DEF EndReceiver, ReceiverPC, Side
<1>13. CASE Deliver
  <2>1. /\ Head(flight) \in Segments /\ Tail(flight) \in Seq(Segments)
        /\ Len(Tail(flight)) <= SndBuf
    BY <1>13 DEF Deliver
  <2> QED
    BY <1>13, <2>1 DEF Deliver
<1>14. CASE LinkLost
  BY <1>14 DEF LinkLost
<1>15. ASSUME NEW s \in Side, PeerGone(s) \/ Cleanup(s) PROVE TypeOK'
  BY <1>15 DEF PeerGone, Cleanup
<1>16. ASSUME NEW s \in Side, Interrupt(s) PROVE TypeOK'
  BY <1>16 DEF Interrupt
<1>17. ASSUME NEW s \in Side, LogStops(s) PROVE TypeOK'
  <2>1. logs' \in [Side -> BOOLEAN]
    BY <1>17, Zenon DEF LogStops
  <2> QED
    BY <1>17, <2>1 DEF LogStops
<1>18. CASE UNCHANGED vars
  BY <1>18 DEF vars
<1> QED
  BY <1>1, <1>2, <1>3, <1>4, <1>5, <1>6, <1>7, <1>8, <1>9, <1>10, <1>11, <1>12,
     <1>13, <1>14, <1>15, <1>16, <1>17, <1>18 DEF Next, Sender, Receiver

-----------------------------------------------------------------------------
(* The sender. *)

\* sendFile returns true only at the end of the file, unless interrupted.
LEMMA SendStep == TypeOK /\ SendInv /\ [Next]_vars => SendInv'
<1> SUFFICES ASSUME TypeOK, SendInv, [Next]_vars PROVE SendInv'
  OBVIOUS
<1> USE FileTransferAssumption DEF FileTransferAssumption, sendVars
<1>1. CASE OpenFile
  BY <1>1 DEF OpenFile, SendInv, forceBreak
<1>2. CASE ReadSegment \/ ReadError
  <2>1. UNCHANGED <<size, intr, cur, isStart>>
    BY <1>2 DEF ReadSegment, ReadError
  <2>2. CASE sender' = "write"
    <3>1. PICK m \in Segments : /\ Cut(m) /\ seg' = <<m>> /\ off' = off + m.n
                                /\ off + m.n <= size[cur]
      BY <1>2, <2>2, SegmentRead
    <3>2. off' > 0 /\ off' <= size'[cur'] /\ (m.eof => off' = size'[cur'])
      BY <2>1, <3>1 DEF TypeOK, Segments, Cut
    <3>3. seg' # <<>> /\ seg'[1] = m
      BY <3>1
    <3> QED
      BY <2>2, <3>2, <3>3 DEF SendInv
  <2>3. CASE sender' # "write"
    <3>1. /\ UNCHANGED <<seg, off>> /\ sender = "read"
          /\ sender' \in {"tested", "giveUp"}
      BY <1>2, <2>3 DEF ReadSegment, ReadError, FileDone
    <3>2. CASE ReadError
      BY <2>1, <2>3, <3>1, <3>2 DEF SendInv, ReadError
    <3>3. CASE ReadSegment
      <4>1. ~((IF Rest < Room THEN Rest ELSE Room) > 0)
        BY <2>3, <3>3 DEF ReadSegment
      <4>2. off = size[cur]
        BY <4>1 DEF Rest, Room, TypeOK, SendInv
      <4> QED
        BY <2>1, <3>1, <4>2 DEF SendInv, forceBreak
    <3> QED
      BY <1>2, <3>2, <3>3
  <2> QED
    BY <2>2, <2>3
<1>3. CASE SendInterrupted
  BY <1>3 DEF SendInterrupted, FileDone, SendInv, forceBreak
<1>4. CASE WriteSegment
  BY <1>4 DEF WriteSegment, SendInv, forceBreak, TypeOK
<1>5. CASE WriteThrows
  BY <1>5 DEF WriteThrows, SendInv, forceBreak
<1>6. CASE NextFile
  <2>1. CASE forceBreak("send") \/ cur = N
    BY <1>6, <2>1 DEF NextFile, SendInv, forceBreak
  <2>2. CASE ~(forceBreak("send") \/ cur = N)
    <3>1. /\ sender' = "open" /\ cur' = cur + 1 /\ off' = 0 /\ isStart' = TRUE
          /\ seg' = seg /\ size' = size /\ sender = "tested"
      BY <1>6, <2>2 DEF NextFile
    <3>2. cur' \in File
      BY <2>2, <3>1 DEF TypeOK, File
    <3>3. off' <= size'[cur']
      BY <3>1, <3>2 DEF TypeOK
    <3> QED
      BY <3>1, <3>3 DEF SendInv
  <2> QED
    BY <2>1, <2>2
<1>7. CASE Drain
  BY <1>7 DEF Drain, SendInv, forceBreak
<1>8. CASE EndSender
  BY <1>8 DEF EndSender, SendInv, forceBreak
<1>9. ASSUME UNCHANGED <<size, sendVars>>,
             forceBreak("send") => forceBreak("send")'
      PROVE  SendInv'
  BY <1>9 DEF SendInv
<1>10. CASE Receiver \/ Deliver \/ LinkLost \/ UNCHANGED vars
  <2>1. UNCHANGED <<size, sendVars, intr>>
    BY <1>10 DEF Receiver, ReceiveFirst, ReceiveFirstFails, ReceiveMore,
       ReceiveInterrupted, ReadThrows, EndReceiver, Deliver, LinkLost, vars
  <2> QED
    BY <1>9, <2>1 DEF forceBreak
<1>11. ASSUME NEW s \in Side,
              PeerGone(s) \/ Interrupt(s) \/ Cleanup(s) \/ LogStops(s)
       PROVE  SendInv'
  <2>1. UNCHANGED <<size, sendVars>>
    BY <1>11 DEF PeerGone, Interrupt, Cleanup, LogStops
  <2>2. forceBreak("send") => forceBreak("send")'
    BY <1>11 DEF PeerGone, Interrupt, Cleanup, LogStops, forceBreak, TypeOK,
       Side
  <2> QED
    BY <1>9, <2>1, <2>2
<1> QED
  BY <1>1, <1>2, <1>3, <1>4, <1>5, <1>6, <1>7, <1>8, <1>10, <1>11
     DEF Next, Sender

-----------------------------------------------------------------------------
(* The way. *)

\* A step that leaves the way and both of its ends where they are.  What the
\* sender has lost stays lost, and a receiver that has left its loop does not
\* come back.
LEMMA WayFrame ==
  ASSUME WayInv, RecvInv, Way' = Way, UNCHANGED <<size, cur, off>>,
         Lost => Lost',
         receiver' = "read" =>
           receiver = "read" /\ UNCHANGED <<ofile, failed, copy, spoiled>>
  PROVE  WayInv' /\ RecvInv'
BY DEF WayInv, RecvInv, RecvAt

\* A segment was read: the way grows.
LEMMA WayGrows ==
  ASSUME TypeOK, SendInv, WayInv, RecvInv, sender = "read", sender' = "write",
         NEW m \in Segments, Cut(m), seg' = <<m>>, off' = off + m.n,
         UNCHANGED <<size, cur, flight, arrived, recvVars>>
  PROVE  WayInv' /\ RecvInv'
<1>1. PICK w \in Seq(Segments) : w = arrived \o flight
  BY Parts
<1>2. w = w \o <<>> /\ w \o <<m>> = Append(w, m)
  OBVIOUS
<1>3. seg = <<>>
  BY DEF SendInv
<1>4. Way = w /\ Way' = Append(w, m)
  BY <1>1, <1>2, <1>3 DEF Way
<1>5. Legs(size, w) /\ (w # <<>> => Follows(size, w[Len(w)], m.file, m.from))
  BY <1>4 DEF WayInv, Lost, Cut
<1>6. Legs(size, Append(w, m))
  BY <1>5, LegsAppend DEF Cut
<1>7. /\ Append(w, m) # <<>> /\ Append(w, m)[Len(Append(w, m))] = m
      /\ w # <<>> => Append(w, m)[1] = w[1]
      /\ w = <<>> => Append(w, m)[1] = m
  OBVIOUS
<1>8. Follows(size, m, cur, off')
  BY DEF Follows, Goes, Cut
<1>9. WayInv'
  BY <1>4, <1>6, <1>7, <1>8 DEF WayInv
<1>10. RecvInv'
  <2> SUFFICES ASSUME receiver = "read"
               PROVE  RecvAt(Append(w, m)[1].file, Append(w, m)[1].from)'
    BY <1>4, <1>7 DEF RecvInv, recvVars
  <2>1. CASE w # <<>>
    <3>1. RecvAt(w[1].file, w[1].from)
      BY <1>4, <2>1 DEF RecvInv
    <3> QED
      BY <1>7, <2>1, <3>1 DEF RecvAt, recvVars
  <2>2. CASE w = <<>>
    <3>1. RecvAt(m.file, m.from)
      BY <1>4, <2>2 DEF RecvInv, Lost, Cut
    <3> QED
      BY <1>7, <2>2, <3>1 DEF RecvAt, recvVars
  <2> QED
    BY <2>1, <2>2
<1> QED
  BY <1>9, <1>10

\* dst.write throws: the last segment is lost, and the sender does not go on.
LEMMA WayCut ==
  ASSUME TypeOK, SendInv, WayInv, RecvInv, WriteThrows
  PROVE  WayInv' /\ RecvInv'
<1>1. PICK m \in Segments : seg = <<m>>
  BY DEF TypeOK, SendInv, WriteThrows
<1>2. PICK w \in Seq(Segments) : w = arrived \o flight
  BY Parts
<1>3. w = w \o <<>> /\ w \o <<m>> = Append(w, m)
  OBVIOUS
<1>4. Way = Append(w, m) /\ Way' = w
  BY <1>1, <1>2, <1>3 DEF Way, WriteThrows
<1>5. Legs(size, w)
  BY <1>4, LegsFront DEF WayInv
<1>6. Lost' /\ UNCHANGED <<size, recvVars>>
  BY DEF WriteThrows, Lost
<1>7. WayInv'
  BY <1>4, <1>5, <1>6 DEF WayInv
<1>8. /\ Append(w, m) # <<>>
      /\ w # <<>> => Append(w, m)[1] = w[1]
  <2>1. Append(w, m) # <<>>
    OBVIOUS
  <2>2. w # <<>> => 1 \in 1 .. Len(w)
    OBVIOUS
  <2>3. \A i \in 1 .. Len(w) : Append(w, m)[i] = w[i]
    OBVIOUS
  <2> QED
    BY <2>1, <2>2, <2>3
<1>9. RecvInv'
  BY <1>4, <1>6, <1>8 DEF RecvInv, RecvAt, recvVars
<1> QED
  BY <1>7, <1>9

\* sendFile goes on with the next file.
LEMMA WayTurns ==
  ASSUME TypeOK, SendInv, WayInv, RecvInv, NextFile
  PROVE  WayInv' /\ RecvInv'
<1> USE FileTransferAssumption DEF FileTransferAssumption
<1>1. /\ Way' = Way /\ UNCHANGED <<size, recvVars>> /\ sender = "tested"
      /\ ~Lost /\ ~Lost'
  BY DEF NextFile, Way, Lost
<1>2. CASE forceBreak("send") \/ cur = N
  BY <1>1, <1>2, WayFrame DEF NextFile, recvVars
<1>3. CASE ~(forceBreak("send") \/ cur = N)
  <2>1. cur' = cur + 1 /\ off' = 0
    BY <1>3 DEF NextFile
  <2>2. off = size[cur]
    BY <1>1, <1>3 DEF SendInv
  <2>3. cur \in File /\ cur + 1 \in File
    BY <1>3 DEF TypeOK, File
  <2>4. size \in [File -> Nat] /\ size[cur] \in Nat
    BY <2>3 DEF TypeOK
  <2>5. PICK w \in Seq(Segments) : w = Way
    BY Parts
  <2>6. WayInv'
    <3>1. Legs(size, w)
      BY <2>5 DEF WayInv
    <3>2. ASSUME w # <<>> PROVE Follows(size, w[Len(w)], cur + 1, 0)
      <4>1. w[Len(w)] \in Segments
        BY <3>2
      <4>2. w[Len(w)].file \in File /\ w[Len(w)].from + w[Len(w)].n \in Nat
        BY <4>1 DEF Segments
      <4>3. Follows(size, w[Len(w)], cur, size[cur])
        BY <1>1, <2>2, <2>5, <3>2 DEF WayInv
      <4> QED
        BY <2>3, <2>4, <4>2, <4>3, GoesOn DEF Follows
    <3> QED
      BY <1>1, <2>1, <2>5, <3>1, <3>2 DEF WayInv
  <2>7. RecvInv'
    <3>1. ASSUME receiver = "read", w # <<>>
          PROVE  RecvAt(w[1].file, w[1].from)'
      BY <1>1, <2>5, <3>1 DEF RecvInv, RecvAt, recvVars
    <3>2. ASSUME receiver = "read", w = <<>>
          PROVE  RecvAt(cur + 1, 0)
      <4>1. RecvAt(cur, size[cur])
        BY <1>1, <2>2, <2>5, <3>2 DEF RecvInv
      <4>2. Goes(size, cur, size[cur], cur + 1, 0)
        BY <2>3 DEF Goes, File
      <4> QED
        BY <2>3, <2>4, <4>1, <4>2, Passed
    <3>3. ASSUME receiver = "read", w = <<>>
          PROVE  RecvAt(cur, off)'
      BY <1>1, <2>1, <3>2, <3>3 DEF RecvAt, recvVars
    <3> QED
      BY <1>1, <2>5, <3>1, <3>3 DEF RecvInv, recvVars
  <2> QED
    BY <2>6, <2>7
<1> QED
  BY <1>2, <1>3

\* The receiver takes a segment from the beginning of the way.
LEMMA WayShrinks ==
  ASSUME TypeOK, WayInv, receiver = "read", NEW m \in Segments,
         Way # <<>>, Way[1] = m, Way' = Tail(Way), UNCHANGED <<size, sendVars>>,
         receiver' = "read" => RecvAt(m.file, m.from + m.n)'
  PROVE  WayInv' /\ RecvInv'
<1>1. PICK w \in Seq(Segments) : w = Way
  BY Parts
<1>2. PICK v \in Seq(Segments) : v = Tail(w)
  BY <1>1
<1>3. /\ Legs(size, v)
      /\ v # <<>> => /\ Follows(size, w[1], v[1].file, v[1].from)
                     /\ v[Len(v)] = w[Len(w)]
      /\ v = <<>> => w[1] = w[Len(w)]
  BY <1>1, <1>2, LegsTail DEF WayInv
<1>4. Way' = v /\ (Lost' <=> Lost) /\ cur' = cur /\ off' = off /\ size' = size
  BY <1>1, <1>2 DEF Lost, sendVars
<1>5. ~Lost => Follows(size, w[Len(w)], cur, off)
  BY <1>1 DEF WayInv
<1>6. WayInv'
  BY <1>3, <1>4, <1>5 DEF WayInv
<1>7. RecvInv'
  <2> SUFFICES ASSUME receiver' = "read"
               PROVE  /\ v # <<>> => RecvAt(v[1].file, v[1].from)'
                      /\ v = <<>> /\ ~Lost => RecvAt(cur, off)'
    BY <1>4 DEF RecvInv
  <2>1. w[1] = m
    BY <1>1
  <2>2. m.file \in File /\ m.from + m.n \in Nat
    BY DEF Segments
  <2>3. size' \in [File -> Nat]
    BY <1>4 DEF TypeOK
  <2>4. ASSUME v # <<>> PROVE RecvAt(v[1].file, v[1].from)'
    <3>1. v[1] \in Segments
      BY <2>4
    <3>2. v[1].file \in File /\ v[1].from \in Nat
      BY <3>1 DEF Segments
    <3>3. Goes(size', m.file, m.from + m.n, v[1].file, v[1].from)
      BY <1>3, <1>4, <2>1, <2>4 DEF Follows
    <3> QED
      BY <2>2, <2>3, <3>2, <3>3, PassedLater DEF PassesOn
  <2>5. ASSUME v = <<>>, ~Lost PROVE RecvAt(cur, off)'
    <3>1. cur \in File /\ off \in Nat
      BY DEF TypeOK
    <3>2. Goes(size', m.file, m.from + m.n, cur, off)
      BY <1>3, <1>4, <1>5, <2>1, <2>5 DEF Follows
    <3> QED
      BY <1>4, <2>2, <2>3, <3>1, <3>2, PassedLater DEF PassesOn
  <2> QED
    BY <2>4, <2>5
<1> QED
  BY <1>6, <1>7

\* Each action leaves what is on the way in its place.
LEMMA WayStep ==
  ASSUME TypeOK, SendInv, WayInv, RecvInv, [Next]_vars
  PROVE  WayInv' /\ RecvInv'
<1> USE DEF sendVars, recvVars
<1>1. CASE OpenFile \/ SendInterrupted \/ Drain \/ EndSender
  <2>1. UNCHANGED <<size, cur, off, seg, flight, arrived, recvVars>>
    BY <1>1 DEF OpenFile, SendInterrupted, Drain, EndSender
  <2>2. Lost => Lost'
    BY <1>1 DEF OpenFile, SendInterrupted, Drain, EndSender, Lost
  <2> QED
    BY <2>1, <2>2, WayFrame DEF Way
<1>2. CASE ReadSegment \/ ReadError
  <2>1. sender = "read" /\ UNCHANGED <<size, cur, flight, arrived, recvVars>>
    BY <1>2 DEF ReadSegment, ReadError
  <2>2. CASE sender' = "write"
    <3>1. PICK m \in Segments : Cut(m) /\ seg' = <<m>> /\ off' = off + m.n
      BY <1>2, <2>2, SegmentRead
    <3> QED
      BY <2>1, <2>2, <3>1, WayGrows
  <2>3. CASE sender' # "write"
    <3>1. UNCHANGED <<seg, off>>
      BY <1>2, <2>3 DEF ReadSegment, ReadError
    <3> QED
      BY <2>1, <3>1, WayFrame DEF Way, Lost
  <2> QED
    BY <2>2, <2>3
<1>3. CASE WriteSegment
  <2>1. PICK a \in Seq(Segments), f \in Seq(Segments), s \in Seq(Segments) :
               a = arrived /\ f = flight /\ s = seg
    BY Parts
  <2>2. a \o (f \o s) \o <<>> = a \o f \o s
    BY WriteMoves, Zenon
  <2>3. Way' = Way
    BY <1>3, <2>1, <2>2 DEF WriteSegment, Way
  <2>4. ~Lost /\ UNCHANGED <<size, cur, off, recvVars>>
    BY <1>3 DEF WriteSegment, Lost
  <2> QED
    BY <2>3, <2>4, WayFrame
<1>4. CASE WriteThrows
  BY <1>4, WayCut
<1>5. CASE NextFile
  BY <1>5, WayTurns
<1>6. CASE ReceiveFirst \/ ReceiveMore
  <2>1. /\ receiver = "read" /\ arrived # <<>> /\ arrived' = Tail(arrived)
        /\ UNCHANGED <<size, sendVars, flight>>
    BY <1>6 DEF ReceiveFirst, ReceiveMore
  <2>2. PICK m \in Segments : m = arrived[1]
    BY <2>1, NextSegment
  <2>3. /\ Fits(size, m) /\ RecvAt(m.file, m.from)
        /\ Way # <<>> /\ Way[1] = m
        /\ Tail(arrived) \o flight \o seg = Tail(Way)
    BY <2>1, <2>2, NextSegment
  <2>4. Way' = Tail(Way)
    BY <2>1, <2>3 DEF Way
  <2>5. RecvAt(m.file, m.from + m.n)'
    <3>1. CASE Stores(m)
      BY <2>1, <2>3, <3>1, StoredAt
    <3>2. CASE /\ m.from > 0 /\ failed
               /\ UNCHANGED <<ofile, failed, copy, spoiled, garbled>>
      <4>1. m.from \in Nat /\ m.n \in Nat \ {0} /\ m.file \in File
        BY DEF Segments
      <4>2. m.from + m.n > 0 /\ ~(m.from + m.n = 0)
        BY <4>1
      <4> QED
        BY <2>1, <2>3, <3>2, <4>1, <4>2 DEF RecvAt
    <3> QED
      BY <1>6, <2>2, <3>1, <3>2, Received
  <2> QED
    BY <2>1, <2>3, <2>4, <2>5, WayShrinks
<1>7. CASE ReceiveFirstFails
  <2>1. /\ receiver = "read" /\ arrived # <<>> /\ arrived' = Tail(arrived)
        /\ receiver' # "read" /\ UNCHANGED <<size, sendVars, flight>>
    BY <1>7 DEF ReceiveFirstFails
  <2>2. PICK m \in Segments : m = arrived[1]
    BY <2>1, NextSegment
  <2>3. Way # <<>> /\ Way[1] = m /\ Tail(arrived) \o flight \o seg = Tail(Way)
    BY <2>1, <2>2, NextSegment
  <2>4. Way' = Tail(Way)
    BY <2>1, <2>3 DEF Way
  <2> QED
    BY <2>1, <2>3, <2>4, WayShrinks
<1>8. CASE ReceiveInterrupted \/ ReadThrows \/ EndReceiver
  <2>1. UNCHANGED <<size, sendVars, flight, arrived>> /\ receiver' # "read"
    BY <1>8 DEF ReceiveInterrupted, ReadThrows, EndReceiver
  <2> QED
    BY <2>1, WayFrame DEF Way, Lost
<1>9. CASE Deliver
  <2>1. PICK a \in Seq(Segments), f \in Seq(Segments) :
               a = arrived /\ f = flight
    BY Parts
  <2>2. f # <<>>
    BY <1>9, <2>1 DEF Deliver
  <2>3. Append(a, Head(f)) \o Tail(f) = a \o f
    BY <2>2, DeliverMoves, Zenon
  <2>4. Way' = Way
    BY <1>9, <2>1, <2>3 DEF Deliver, Way
  <2> QED
    BY <1>9, <2>4, WayFrame DEF Deliver, Lost
<1>10. CASE LinkLost \/ UNCHANGED vars
  <2>1. UNCHANGED <<size, sendVars, flight, arrived, recvVars>>
    BY <1>10 DEF LinkLost, vars
  <2> QED
    BY <2>1, WayFrame DEF Way, Lost
<1>11. ASSUME NEW s \in Side,
              PeerGone(s) \/ Interrupt(s) \/ Cleanup(s) \/ LogStops(s)
       PROVE  WayInv' /\ RecvInv'
  <2>1. UNCHANGED <<size, sendVars, flight, arrived, recvVars>>
    BY <1>11 DEF PeerGone, Interrupt, Cleanup, LogStops
  <2> QED
    BY <2>1, WayFrame DEF Way, Lost
<1> QED
  BY <1>1, <1>2, <1>3, <1>4, <1>5, <1>6, <1>7, <1>8, <1>9, <1>10, <1>11
     DEF Next, Sender, Receiver

\* No unit goes to the wrong file or out of its place.
LEMMA GarbledStep ==
  TypeOK /\ WayInv /\ RecvInv /\ garbled = {} /\ [Next]_vars => garbled' = {}
<1> SUFFICES ASSUME TypeOK, WayInv, RecvInv, garbled = {}, [Next]_vars
             PROVE  garbled' = garbled
  OBVIOUS
<1>1. CASE ReceiveFirst \/ ReceiveMore
  <2>1. receiver = "read" /\ arrived # <<>> /\ UNCHANGED size
    BY <1>1 DEF ReceiveFirst, ReceiveMore
  <2>2. /\ arrived[1] \in Segments /\ Fits(size, arrived[1])
        /\ RecvAt(arrived[1].file, arrived[1].from)
    BY <2>1, NextSegment
  <2>3. CASE Stores(arrived[1])
    BY <2>1, <2>2, <2>3, Stored
  <2> QED
    BY <1>1, <2>3, Received
<1>2. CASE ~(ReceiveFirst \/ ReceiveMore)
  BY <1>2 DEF Next, Sender, OpenFile, ReadSegment, ReadError, SendInterrupted,
     WriteSegment, WriteThrows, NextFile, Drain, EndSender, Receiver,
     ReceiveFirstFails, ReceiveInterrupted, ReadThrows, EndReceiver, Deliver,
     LinkLost, PeerGone, Interrupt, Cleanup, LogStops, vars, recvVars
<1> QED
  BY <1>1, <1>2

-----------------------------------------------------------------------------

\* Initially nothing was read, and no copy exists.
LEMMA InitHolds == Init => IInv
<1> SUFFICES ASSUME Init PROVE IInv
  OBVIOUS
<1> USE FileTransferAssumption DEF FileTransferAssumption, Init
<1>1. TypeOK
  <2>1. isStart \in BOOLEAN /\ failed \in BOOLEAN
    BY Zenon
  <2>2. cur \in File /\ off \in 0 .. MaxSize
    BY DEF File
  <2>3. copy \in [File -> Absent .. MaxSize]
    BY DEF Absent
  <2>4. flight \in Seq(Segments) /\ Len(flight) <= SndBuf
    OBVIOUS
  <2>5. /\ arrived \in Seq(Segments)
        /\ seg \in {<<>>} \cup {<<m>> : m \in Segments}
    OBVIOUS
  <2> QED
    BY <2>1, <2>2, <2>3, <2>4, <2>5 DEF TypeOK, SenderPC, ReceiverPC
<1>2. SendInv
  <2>1. off <= size[cur]
    BY DEF File
  <2> QED
    BY <2>1 DEF SendInv
<1>3. Way = <<>>
  <2>1. Way = <<>> \o <<>> \o <<>>
    BY DEF Way
  <2> QED
    BY <2>1
<1>4. WayInv
  BY <1>3 DEF WayInv, Legs
<1>5. RecvAt(cur, off)
  <2>1. \A g \in File : ~(g < cur) /\ copy[g] = Absent /\ g \notin spoiled
    BY DEF File
  <2> QED
    BY <2>1 DEF RecvAt
<1>6. RecvInv
  BY <1>3, <1>5 DEF RecvInv
<1> QED
  BY <1>1, <1>2, <1>4, <1>6 DEF IInv

\* IInv is inductive.
LEMMA NextHolds == IInv /\ [Next]_vars => IInv'
<1> SUFFICES ASSUME IInv, [Next]_vars PROVE IInv'
  OBVIOUS
<1>1. TypeOK /\ SendInv /\ WayInv /\ RecvInv /\ garbled = {}
  BY DEF IInv
<1>2. TypeOK' /\ SendInv' /\ garbled' = {}
  BY <1>1, TypeStep, SendStep, GarbledStep
<1>3. WayInv' /\ RecvInv'
  BY <1>1, WayStep
<1> QED
  BY <1>2, <1>3 DEF IInv

\* IInv holds in every state that a behaviour reaches.
LEMMA Invariant == Spec => []IInv
<1>1. Init => IInv
  BY InitHolds
<1>2. IInv /\ [Next]_vars => IInv'
  BY NextHolds
<1> QED
  BY <1>1, <1>2, PTL DEF Spec

\* The variables of both programs have their types, the send buffer is never
\* overfilled, and no copy is longer than a file can be.
THEOREM TypeCorrect == Spec => []TypeOK
<1>1. IInv => TypeOK
  BY DEF IInv
<1> QED
  BY <1>1, Invariant, PTL

\* When startFileSender has sent all files and everything has arrived, the copy
\* of every file that has any contents is complete or could not be written.
THEOREM CompleteAtEnd == Spec => []NothingMissing
<1>1. IInv => NothingMissing
  <2> SUFFICES ASSUME IInv, Delivered, NEW f \in File \ spoiled, size[f] > 0
               PROVE  copy[f] = size[f]
    BY DEF NothingMissing
  <2>1. TypeOK /\ SendInv /\ RecvInv
    BY DEF IInv
  <2>2. seg = <<>>
    BY <2>1 DEF SendInv, Delivered
  <2>3. Way = <<>>
    <3>1. Way = <<>> \o <<>> \o <<>>
      BY <2>2 DEF Way, Delivered
    <3> QED
      BY <3>1
  <2>4. RecvAt(N, size[N])
    BY <2>1, <2>3 DEF RecvInv, Delivered, Lost
  <2>5. CASE f < N
    BY <2>1, <2>4, <2>5 DEF RecvAt
  <2>6. CASE f = N
    BY <2>1, <2>4, <2>6 DEF RecvAt
  <2> QED
    BY <2>5, <2>6, FileTransferAssumption DEF File, FileTransferAssumption
<1> QED
  BY <1>1, Invariant, PTL

-----------------------------------------------------------------------------
(* Refinement. *)

\* The destination is empty when the two programs start.
LEMMA CopyInit == Init => Copies!Init
BY FileTransferAssumption
   DEF Init, Copies!Init, Copies!File, Copies!Absent, File, Absent,
       FileTransferAssumption

\* A segment that is stored begins or extends the copy of its file; every other
\* step leaves the copies alone.
LEMMA CopyStep == IInv /\ [Next]_vars => [Copies!Next]_Copies!vars
<1> SUFFICES ASSUME IInv, [Next]_vars PROVE [Copies!Next]_Copies!vars
  OBVIOUS
<1> USE FileTransferAssumption DEF FileTransferAssumption
<1>i. TypeOK /\ WayInv /\ RecvInv
  BY DEF IInv
<1>1. CASE ReceiveFirst \/ ReceiveMore
  <2>1. receiver = "read" /\ arrived # <<>> /\ UNCHANGED size
    BY <1>1 DEF ReceiveFirst, ReceiveMore
  <2>2. PICK m \in Segments : m = arrived[1]
    BY <1>i, <2>1, NextSegment
  <2>3. Fits(size, m) /\ RecvAt(m.file, m.from)
    BY <1>i, <2>1, <2>2, NextSegment
  <2>4. CASE Stores(m)
    <3>1. PICK k \in 0 .. m.n :
            /\ copy' = [copy EXCEPT ![m.file] = m.from + k]
            /\ spoiled' = IF k < m.n THEN spoiled \cup {m.file} ELSE spoiled
      BY <1>i, <2>1, <2>3, <2>4, Stored
    <3>2. /\ garbled' = garbled /\ m.file \notin spoiled
          /\ copy[m.file] = IF m.from = 0 THEN Absent ELSE m.from
          /\ m.file \in File /\ m.from \in Nat /\ m.n \in Nat \ {0}
          /\ m.from + m.n <= size[m.file]
      BY <1>i, <2>1, <2>3, <2>4, Stored
    <3>3. PICK f \in File, b \in Nat, z \in Nat :
                 f = m.file /\ b = m.from /\ z = size[m.file]
      BY <1>i, <3>2 DEF TypeOK
    <3>4. k \in Nat /\ b + k <= z
      BY <3>2, <3>3
    <3>5. Copies!GiveUp(f) \/ UNCHANGED spoiled
      BY <3>1, <3>3 DEF Copies!GiveUp
    <3>6. Copies!Begin(f) \/ Copies!Extend(f) \/ UNCHANGED copy
      <4>1. CASE b = 0
        <5>1. copy[f] = Absent /\ b + k \in copy[f] + 1 .. size[f]
          BY <3>2, <3>3, <3>4, <4>1 DEF Absent
        <5>2. \A g \in 1 .. f - 1 : Copies!Settled(g)
          BY <2>3, <3>3 DEF RecvAt, File, Copies!Settled
        <5> QED
          BY <3>1, <3>3, <5>1, <5>2
             DEF Copies!Begin, Copies!Longer, Copies!Absent, Absent
      <4>2. CASE b > 0 /\ k > 0
        <5>1. /\ copy[f] # Absent /\ f \notin spoiled
              /\ b + k \in copy[f] + 1 .. size[f]
          BY <3>2, <3>3, <3>4, <4>2 DEF Absent
        <5> QED
          BY <3>1, <3>3, <5>1
             DEF Copies!Extend, Copies!Longer, Copies!Absent, Absent
      <4>3. CASE b > 0 /\ k = 0
        <5>1. copy' = [copy EXCEPT ![f] = b + k]
          BY <3>1, <3>3
        <5>2. b + k = copy[f]
          BY <3>2, <3>3, <4>3
        <5> QED
          BY <1>i, <5>1, <5>2 DEF TypeOK
      <4> QED
        BY <3>4, <4>1, <4>2, <4>3
    <3> QED
      BY <2>1, <3>2, <3>3, <3>5, <3>6 DEF Copies!Next, Copies!File, File
  <2>5. CASE UNCHANGED <<ofile, failed, copy, spoiled, garbled>>
    BY <2>1, <2>5 DEF Copies!vars
  <2> QED
    BY <1>1, <1>i, <2>2, <2>4, <2>5, Received
<1>2. CASE ~(ReceiveFirst \/ ReceiveMore)
  <2>1. UNCHANGED <<size, copy, spoiled, garbled>>
    BY <1>2 DEF Next, Sender, OpenFile, ReadSegment, ReadError, SendInterrupted,
       WriteSegment, WriteThrows, NextFile, Drain, EndSender, Receiver,
       ReceiveFirstFails, ReceiveInterrupted, ReadThrows, EndReceiver, Deliver,
       LinkLost, PeerGone, Interrupt, Cleanup, LogStops, vars, recvVars
  <2> QED
    BY <2>1 DEF Copies!vars
<1> QED
  BY <1>1, <1>2

\* The two programs implement FileCopy: whatever fails and whoever is
\* interrupted, copies grow from their beginning and one after the other, and no
\* unit is written to the wrong file or out of its place.
THEOREM Refinement == Spec => ImplementsCopy
<1> QED
  BY CopyInit, CopyStep, Invariant, PTL DEF Spec, ImplementsCopy, Copies!Spec
===============================================================================
