---------------------------- MODULE FileTransfer ----------------------------
(***************************************************************************)
(* "file send" (file-send.cpp) and "file receive" (file-receive.cpp), two  *)
(* programs connected by an SRT socket in message mode.                    *)
(*                                                                         *)
(* A file is cut in segments.  A segment starts with a byte of flags; the  *)
(* first one of a file also has the file's name.  The contents of a file   *)
(* are numbered units: a segment carries the units from m.from on, and the *)
(* receiver notices (garbled) when it writes a unit anywhere but in its    *)
(* place.                                                                  *)
(***************************************************************************)
EXTENDS Integers, Sequences

CONSTANTS N,        \* the number of files found by readDirectory
          MaxSize,  \* bound: the length of a file
          Seg,      \* segmentSize less the flags, in units
          Hdr,      \* the room that a name takes in a segment
          SndBuf    \* segments that fit in the send buffer

ASSUME FileTransferAssumption ==
  /\ N \in Nat \ {0}
  /\ MaxSize \in Nat
  /\ Hdr \in Nat \ {0} /\ Seg \in Nat /\ Hdr < Seg
  /\ SndBuf \in Nat \ {0}

File == 1 .. N
Absent == -1
None == 0
Side == {"send", "recv"}

VARIABLES
  size,      \* the length of each file
  logs,      \* whether the thread statsFunc of each side is running
  intr,      \* each side's signal handler: "none", "flag", "clean"
  sock,      \* each side's socket: "up", "broken", "closed"
  sender,    \* where startFileSender and sendFile are
  cur,       \* the file that is sent, counted from 1
  off,       \* how much of it has been read
  isStart,   \* hdrSize > 1
  seg,       \* the segment that was read and not sent yet
  flight,    \* the segments in the send buffer
  arrived,   \* the segments in the receive buffer
  receiver,  \* where startFileReceiver and receiveFiles are
  ofile,     \* the file that the stream ofile has open, or None
  failed,    \* the stream ofile is in a failed state
  copy,      \* the length of each file at the destination
  spoiled,   \* history: files that could not be written to the end
  garbled    \* history: files that got a unit out of its place

vars == <<size, logs, intr, sock, sender, cur, off, isStart, seg, flight,
          arrived, receiver, ofile, failed, copy, spoiled, garbled>>

sendVars == <<sender, cur, off, isStart, seg>>
recvVars == <<receiver, ofile, failed, copy, spoiled, garbled>>

SenderPC == {"open", "read", "write", "tested", "drain", "giveUp",
             "join", "joinBad", "unwind", "ended", "aborted"}
ReceiverPC == {"read", "close", "unwind", "ended"}

\* A segment, and what sendFile does after it: go on, end the file, or fail.
Segments == [file : File, first : BOOLEAN, eof : BOOLEAN, bad : BOOLEAN,
             from : 0 .. MaxSize, n : 1 .. MaxSize]

forceBreak(side) == intr[side] # "none"

Init == /\ size \in [File -> 0 .. MaxSize]
        /\ logs \in [Side -> BOOLEAN]
        /\ intr = [s \in Side |-> "none"]
        /\ sock = [s \in Side |-> "up"]
        /\ sender = "open" /\ cur = 1 /\ off = 0 /\ isStart = TRUE
        /\ seg = <<>>
        /\ flight = <<>> /\ arrived = <<>>
        /\ receiver = "read" /\ ofile = None /\ failed = FALSE
        /\ copy = [f \in File |-> Absent]
        /\ spoiled = {}
        /\ garbled = {}

-----------------------------------------------------------------------------
(* The sender. *)

\* ifstream ifile(filename): when a file cannot be opened, sendFile returns
\* false and the loop over the files ends.
OpenFile ==
  /\ sender = "open"
  /\ sender' \in {"read", "giveUp"}
  /\ UNCHANGED <<size, logs, intr, sock, cur, off, isStart, seg, flight,
                 arrived, recvVars>>

Room == IF isStart THEN Seg - Hdr ELSE Seg
Rest == size[cur] - off

\* sendFile returns true: the loop over the files goes on unless interrupted.
FileDone == sender' = "tested"

\* Faulty variant: the loop is left at the end of the file before the write.
ReadDropsTail ==
  /\ sender = "read"
  /\ ~forceBreak("send")
  /\ IF Rest >= Room
       THEN /\ seg' = <<[file |-> cur, first |-> isStart, eof |-> FALSE,
                         bad |-> FALSE, from |-> off, n |-> Room]>>
            /\ off' = off + Room
            /\ sender' = "write"
       ELSE FileDone /\ off' = size[cur] /\ UNCHANGED seg
  /\ UNCHANGED <<size, logs, intr, sock, cur, isStart, flight, arrived,
                 recvVars>>

\* ifile.read: eof() is set when the file ends before the segment is full.  A
\* segment without contents is not sent, whatever its flags are.
ReadSegment ==
  /\ sender = "read"
  /\ ~forceBreak("send")
  /\ LET n == IF Rest < Room THEN Rest ELSE Room
     IN  IF n > 0
           THEN /\ seg' = <<[file |-> cur, first |-> isStart, eof |-> n < Room,
                             bad |-> FALSE, from |-> off, n |-> n]>>
                /\ off' = off + n
                /\ sender' = "write"
           ELSE FileDone /\ UNCHANGED <<seg, off>>
  /\ UNCHANGED <<size, logs, intr, sock, cur, isStart, flight, arrived,
                 recvVars>>

\* ifile.read fails: what it got is sent, and sendFile returns false.
ReadError ==
  /\ sender = "read"
  /\ ~forceBreak("send")
  /\ \/ \E n \in 1 .. (IF Rest < Room THEN Rest ELSE Room) :
          /\ seg' = <<[file |-> cur, first |-> isStart, eof |-> FALSE,
                       bad |-> TRUE, from |-> off, n |-> n]>>
          /\ off' = off + n
          /\ sender' = "write"
     \/ sender' = "giveUp" /\ UNCHANGED <<seg, off>>
  /\ UNCHANGED <<size, logs, intr, sock, cur, isStart, flight, arrived,
                 recvVars>>

\* while (!forceBreak): sendFile reports success.
SendInterrupted ==
  /\ sender = "read"
  /\ forceBreak("send")
  /\ FileDone
  /\ UNCHANGED <<size, logs, intr, sock, cur, off, isStart, seg, flight,
                 arrived, recvVars>>

\* Faulty variant: the write does not wait for room.
WriteNoWait ==
  /\ sender = "write"
  /\ sock["send"] = "up"
  /\ flight' = flight \o seg
  /\ seg' = <<>>
  /\ isStart' = FALSE
  /\ sender' = IF seg[1].eof THEN "tested"
               ELSE IF seg[1].bad THEN "giveUp" ELSE "read"
  /\ UNCHANGED <<size, logs, intr, sock, cur, off, arrived, recvVars>>

\* Faulty variant: hdrSize is not set to 1 after the first segment.
WriteKeepsHeader ==
  /\ sender = "write"
  /\ sock["send"] = "up"
  /\ Len(flight) < SndBuf
  /\ flight' = flight \o seg
  /\ seg' = <<>>
  /\ sender' = IF seg[1].eof THEN "tested"
               ELSE IF seg[1].bad THEN "giveUp" ELSE "read"
  /\ UNCHANGED <<size, logs, intr, sock, cur, off, isStart, arrived, recvVars>>

\* dst.write blocks until there is room in the send buffer; hdrSize = 1.
WriteSegment ==
  /\ sender = "write"
  /\ sock["send"] = "up"
  /\ Len(flight) < SndBuf
  /\ flight' = flight \o seg
  /\ seg' = <<>>
  /\ isStart' = FALSE
  /\ sender' = IF seg[1].eof THEN "tested"
               ELSE IF seg[1].bad THEN "giveUp" ELSE "read"
  /\ UNCHANGED <<size, logs, intr, sock, cur, off, arrived, recvVars>>

\* dst.write throws: dstSock is the first to go.
WriteThrows ==
  /\ sender = "write"
  /\ sock["send"] # "up"
  /\ seg' = <<>>
  /\ sock' = [sock EXCEPT !["send"] = "closed"]
  /\ sender' = "unwind"
  /\ UNCHANGED <<size, logs, intr, cur, off, isStart, flight, arrived, recvVars>>

\* if (forceBreak) break; otherwise the next file.
NextFile ==
  /\ sender = "tested"
  /\ IF forceBreak("send") \/ cur = N
       THEN sender' = "drain" /\ UNCHANGED <<cur, off, isStart>>
       ELSE sender' = "open" /\ cur' = cur + 1 /\ off' = 0 /\ isStart' = TRUE
  /\ UNCHANGED <<size, logs, intr, sock, seg, flight, arrived, recvVars>>

\* srt_getsndbuffer reports no blocks, or an error; localBreak = true.
Drain ==
  /\ sender \in {"drain", "giveUp"}
  /\ flight = <<>> \/ sock["send"] # "up"
  /\ sender' = IF sender = "drain" THEN "join" ELSE "joinBad"
  /\ UNCHANGED <<size, logs, intr, sock, cur, off, isStart, seg, flight,
                 arrived, recvVars>>

\* statsLogger.wait(), or the destructor of statsLogger after an exception;
\* then the socket is closed.
EndSender ==
  /\ sender \in {"join", "joinBad", "unwind"}
  /\ ~logs["send"]
  /\ sock' = [sock EXCEPT !["send"] = "closed"]
  /\ sender' = IF sender = "join" THEN "ended" ELSE "aborted"
  /\ UNCHANGED <<size, logs, intr, cur, off, isStart, seg, flight, arrived,
                 recvVars>>

Sender == \/ OpenFile \/ ReadSegment \/ ReadError \/ SendInterrupted
          \/ WriteSegment \/ WriteThrows \/ NextFile \/ Drain \/ EndSender

-----------------------------------------------------------------------------
(* The receiver. *)

\* ofile.write and, with the end flag, ofile.close(), for a stream that has
\* file f open, at the given length, or none.  A write that fails has stored a
\* part of the segment; one without a file stores nothing.
Store(m, f, length) ==
  /\ \E k \in IF f = None THEN {0} ELSE 0 .. m.n :
       /\ copy' = IF f = None THEN copy ELSE [copy EXCEPT ![f] = length + k]
       /\ failed' = (k < m.n)
       /\ spoiled' = IF f # None /\ k < m.n THEN spoiled \cup {f} ELSE spoiled
  /\ garbled' = IF f = None \/ (f = m.file /\ length = m.from)
                  THEN garbled ELSE garbled \cup {f}
  /\ ofile' = IF m.eof THEN None ELSE f

\* The first segment of a file: close what is open, create the file, store.
ReceiveFirst ==
  /\ receiver = "read"
  /\ ~forceBreak("recv")
  /\ sock["recv"] # "closed"
  /\ arrived # <<>>
  /\ arrived[1].first
  /\ Store(arrived[1], arrived[1].file, 0)
  /\ arrived' = Tail(arrived)
  /\ UNCHANGED <<size, logs, intr, sock, sendVars, flight, receiver>>

\* Its folders or the file itself cannot be created: receiveFiles returns.
ReceiveFirstFails ==
  /\ receiver = "read"
  /\ ~forceBreak("recv")
  /\ sock["recv"] # "closed"
  /\ arrived # <<>>
  /\ arrived[1].first
  /\ arrived' = Tail(arrived)
  /\ ofile' = None
  /\ receiver' = "close"
  /\ UNCHANGED <<size, logs, intr, sock, sendVars, flight, failed, copy,
                 spoiled, garbled>>

\* Any other segment goes to the stream, unless that has failed before.
ReceiveMore ==
  /\ receiver = "read"
  /\ ~forceBreak("recv")
  /\ sock["recv"] # "closed"
  /\ arrived # <<>>
  /\ ~arrived[1].first
  /\ IF failed
       THEN UNCHANGED <<ofile, failed, copy, spoiled, garbled>>
       ELSE Store(arrived[1], ofile, IF ofile = None THEN 0 ELSE copy[ofile])
  /\ arrived' = Tail(arrived)
  /\ UNCHANGED <<size, logs, intr, sock, sendVars, flight, receiver>>

\* while (!forceBreak)
ReceiveInterrupted ==
  /\ receiver = "read"
  /\ forceBreak("recv")
  /\ receiver' = "close"
  /\ ofile' = None
  /\ UNCHANGED <<size, logs, intr, sock, sendVars, flight, arrived, failed,
                 copy, spoiled, garbled>>

\* src.read throws once nothing is left to read.
ReadThrows ==
  /\ receiver = "read"
  /\ \/ sock["recv"] = "broken" /\ arrived = <<>>
     \/ sock["recv"] = "closed"
  /\ receiver' = "unwind"
  /\ ofile' = None
  /\ UNCHANGED <<size, logs, intr, sock, sendVars, flight, arrived, failed,
                 copy, spoiled, garbled>>

\* As in EndSender.
EndReceiver ==
  /\ receiver \in {"close", "unwind"}
  /\ ~logs["recv"]
  /\ sock' = [sock EXCEPT !["recv"] = "closed"]
  /\ receiver' = "ended"
  /\ UNCHANGED <<size, logs, intr, sendVars, flight, arrived, ofile, failed,
                 copy, spoiled, garbled>>

Receiver == \/ ReceiveFirst \/ ReceiveFirstFails \/ ReceiveMore
            \/ ReceiveInterrupted \/ ReadThrows \/ EndReceiver

-----------------------------------------------------------------------------
(* The threads that write statistics. *)

localBreak(s) == IF s = "send" THEN sender \in {"join", "joinBad"}
                               ELSE receiver = "close"

\* Faulty variant: get_statistics returns nothing when srt_bstats fails.
LogStopsByFlag(s) ==
  /\ logs[s]
  /\ forceBreak(s) \/ localBreak(s)
  /\ logs' = [logs EXCEPT ![s] = FALSE]
  /\ UNCHANGED <<size, intr, sock, sendVars, flight, arrived, recvVars>>

\* statsFunc sees one of its flags, or getStatistics throws, because srt_bstats
\* fails on a socket that is not connected any more.
LogStops(s) ==
  /\ logs[s]
  /\ forceBreak(s) \/ localBreak(s) \/ sock[s] # "up"
  /\ logs' = [logs EXCEPT ![s] = FALSE]
  /\ UNCHANGED <<size, intr, sock, sendVars, flight, arrived, recvVars>>

-----------------------------------------------------------------------------
(* The network and the signal handlers. *)

Deliver ==
  /\ flight # <<>>
  /\ sock["recv"] = "up"
  /\ arrived' = Append(arrived, Head(flight))
  /\ flight' = Tail(flight)
  /\ UNCHANGED <<size, logs, intr, sock, sendVars, recvVars>>

\* The connection times out, on both sides.
LinkLost ==
  /\ sock["send"] = "up"
  /\ sock["recv"] = "up"
  /\ sock' = [s \in Side |-> "broken"]
  /\ UNCHANGED <<size, logs, intr, sendVars, flight, arrived, recvVars>>

\* One side learns that the other has closed its socket; what is still in
\* flight then does not arrive.
PeerGone(s) ==
  /\ sock[s] = "up"
  /\ \E p \in Side \ {s} : sock[p] = "closed"
  /\ sock' = [sock EXCEPT ![s] = "broken"]
  /\ UNCHANGED <<size, logs, intr, sendVars, flight, arrived, recvVars>>

\* OnINT_ForceExit on one side: force_break = true, then srt_cleanup().
Interrupt(s) ==
  /\ intr[s] = "none"
  /\ intr' = [intr EXCEPT ![s] = "flag"]
  /\ UNCHANGED <<size, logs, sock, sendVars, flight, arrived, recvVars>>

Cleanup(s) ==
  /\ intr[s] = "flag"
  /\ intr' = [intr EXCEPT ![s] = "clean"]
  /\ sock' = [sock EXCEPT ![s] = "closed"]
  /\ UNCHANGED <<size, logs, sendVars, flight, arrived, recvVars>>

Next == \/ Sender \/ Receiver
        \/ Deliver \/ LinkLost
        \/ \E s \in Side : PeerGone(s) \/ Interrupt(s) \/ Cleanup(s)
                         \/ LogStops(s)

Spec == Init /\ [][Next]_vars

\* Both programs run, a signal handler ends, and the network brings what was
\* sent or the news that the other side is gone.
Fairness == /\ WF_vars(Sender) /\ WF_vars(Receiver) /\ WF_vars(Deliver)
            /\ \A s \in Side : /\ WF_vars(PeerGone(s))
                              /\ WF_vars(LogStops(s))

LiveSpec == Spec /\ Fairness

-----------------------------------------------------------------------------
(* Properties. *)

\* Every variable has its type; the send buffer never holds more than it can.
TypeOK ==
  /\ size \in [File -> 0 .. MaxSize]
  /\ logs \in [Side -> BOOLEAN]
  /\ intr \in [Side -> {"none", "flag", "clean"}]
  /\ sock \in [Side -> {"up", "broken", "closed"}]
  /\ sender \in SenderPC
  /\ cur \in File
  /\ off \in 0 .. MaxSize
  /\ isStart \in BOOLEAN
  /\ seg \in {<<>>} \cup {<<m>> : m \in Segments}
  /\ flight \in Seq(Segments) /\ Len(flight) <= SndBuf
  /\ arrived \in Seq(Segments)
  /\ receiver \in ReceiverPC
  /\ ofile \in File \cup {None}
  /\ failed \in BOOLEAN
  /\ copy \in [File -> Absent .. MaxSize]
  /\ spoiled \subseteq File
  /\ garbled \subseteq File

\* sendFile has returned true for every file and read the last one to its end,
\* nothing is on the way any more and the receiver has not given up.
Delivered == /\ sender = "ended" /\ cur = N /\ off = size[N]
             /\ flight = <<>> /\ arrived = <<>>
             /\ receiver = "read"

\* A transfer that ends well has brought every file that has any contents, to
\* the last unit, except those that the receiver could not write.
NothingMissing ==
  Delivered => \A f \in File \ spoiled : size[f] > 0 => copy[f] = size[f]

\* The two programs implement FileCopy: copies grow from their beginning, no
\* unit is written to the wrong file or out of its place, and a file is begun
\* only when those before it are settled.  The flags of the segments alone tell
\* the receiver where it is.
Copies == INSTANCE FileCopy

ImplementsCopy == Copies!Spec

Ended(s) == IF s = "send" THEN sender \in {"ended", "aborted"}
                          ELSE receiver = "ended"

\* No signal handler hangs in srt_cleanup: see CleanupReturns in Library.
HandlersReturn == \A s \in Side : []<>(intr[s] # "flag")

\* Both programs end, whatever fails and whoever is interrupted.  The receiver
\* learns of the end of the transfer by an exception, which leaves it waiting
\* for a thread whose flag localBreak nobody will set.
BothEnd == HandlersReturn => \A s \in Side : <>[]Ended(s)

\* srtdatacontroller-app.cpp says of the command "file" "Send/receive a single
\* file or folder contents": after a transfer that ends well every file is
\* there.
FolderArrives ==
  Delivered => \A f \in File \ spoiled : copy[f] = size[f]
=============================================================================
