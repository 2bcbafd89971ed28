------------------------------ MODULE Pipeline ------------------------------
(***************************************************************************)
(* run_pipe of the command "generate" (generate.cpp) at one end of an SRT  *)
(* connection, and runPipe of the command "receive" (receive.cpp), with    *)
(* its metrics thread, at the other.  The network is reliable and all      *)
(* buffers are bounded: a message stays in the send buffer until there is  *)
(* room for it on the other side.                                          *)
(*                                                                         *)
(* Messages are numbered by metrics::generator, from 1.  Replies are all   *)
(* alike: only how many there are in each place matters.                   *)
(***************************************************************************)
EXTENDS Integers, Sequences

CONSTANTS NumMsgs,  \* --num; with --duration, a bound
          Buf,      \* messages that fit in each buffer
          Configs   \* the options that are considered

\* --duration, m_blocking_mode of both sides, receive --twoway and
\* --enable-metrics.
Options == [timed : BOOLEAN, blocking : BOOLEAN, reply : BOOLEAN,
            metered : BOOLEAN]

ASSUME PipelineAssumption == /\ NumMsgs \in Nat /\ Buf \in Nat \ {0}
                             /\ Configs \subseteq Options

Side == {"gen", "recv"}

VARIABLES
  cfg,        \* the options of both programs
  intr,       \* each program's signal handler: "none", "flag", "clean"
  sock,       \* each program's socket: "up", "broken", "closed"
  gen,        \* run_pipe: "test", "pace", "write", "ended"
  i,          \* the loop counter
  num,        \* the last number that generate_payload has used
  recv,       \* runPipe: "start", "read", "check", "reply", "stop", "returned"
  msg,        \* the message it has read
  metrics,    \* metricsWritingLoop: "off", "test", "lock", "write", "sleep", "ended"
  mtx,        \* who holds metricsMtx
  flight,     \* the send buffer of the generator
  arrived,    \* the receive buffer of the receiver
  rout,       \* replies in the send buffer of the receiver
  rin,        \* replies in the receive buffer of the generator
  seen,       \* history: the messages that validate_packet was given
  dropped     \* history: the messages for which write returned 0

vars == <<cfg, intr, sock, gen, i, num, recv, msg,
          metrics, mtx, flight, arrived, rout, rin, seen, dropped>>

genVars == <<gen, i, num>>
recvVars == <<recv, msg>>
metricVars == <<metrics, mtx>>
netVars == <<flight, arrived, rout, rin>>
histVars == <<seen, dropped>>

forceBreak(s) == intr[s] # "none"

Init == /\ cfg \in Configs
        /\ intr = [s \in Side |-> "none"]
        /\ sock = [s \in Side |-> "up"]
        /\ gen = "test" /\ i = 0 /\ num = 0
        /\ recv = "start" /\ msg = 0
        /\ metrics = "off" /\ mtx = "free"
        /\ flight = <<>> /\ arrived = <<>> /\ rout = 0 /\ rin = 0
        /\ seen = <<>> /\ dropped = {}

-----------------------------------------------------------------------------
(* run_pipe. *)

\* The program lets go of the connection: common_run is told by the return.
EndGen == /\ gen' = "ended"
          /\ sock' = [sock EXCEPT !["gen"] = "closed"]

GenTest ==
  /\ gen = "test"
  /\ IF (~cfg.timed /\ i >= NumMsgs) \/ forceBreak("gen")
       THEN EndGen
       ELSE gen' = "pace" /\ UNCHANGED sock
  /\ UNCHANGED <<cfg, intr, i, num, recvVars, metricVars, netVars, histVars>>

\* ratepacer->wait, then the test of the duration.
DurationOver ==
  /\ gen = "pace"
  /\ cfg.timed
  /\ EndGen
  /\ UNCHANGED <<cfg, intr, i, num, recvVars, metricVars, netVars, histVars>>

\* --lossrate: the turn passes without a message.
LoseMessage ==
  /\ gen = "pace"
  /\ i < NumMsgs
  /\ i' = i + 1
  /\ gen' = "test"
  /\ UNCHANGED <<cfg, intr, sock, num, recvVars, metricVars, netVars,
                 histVars>>

\* pldgen.generate_payload
GeneratePayload ==
  /\ gen = "pace"
  /\ i < NumMsgs
  /\ num' = num + 1
  /\ gen' = "write"
  /\ UNCHANGED <<cfg, intr, sock, i, recvVars, metricVars, netVars, histVars>>

\* Faulty variant: write does not look at the room in the send buffer.
GenWriteAlways ==
  /\ gen = "write"
  /\ sock["gen"] = "up"
  /\ flight' = Append(flight, num)
  /\ i' = i + 1
  /\ gen' = "test"
  /\ UNCHANGED <<cfg, intr, sock, num, recvVars, metricVars, arrived, rout,
                 rin, histVars>>

GenWrite ==
  /\ gen = "write"
  /\ sock["gen"] = "up"
  /\ Len(flight) < Buf
  /\ flight' = Append(flight, num)
  /\ i' = i + 1
  /\ gen' = "test"
  /\ UNCHANGED <<cfg, intr, sock, num, recvVars, metricVars, arrived, rout,
                 rin, histVars>>

\* Faulty variant: a blocking write gives up as well.
GenWriteDropsAlways ==
  /\ gen = "write"
  /\ sock["gen"] = "up"
  /\ Len(flight) = Buf
  /\ rin > 0
  /\ dropped' = dropped \cup {num}
  /\ i' = i + 1
  /\ gen' = "test"
  /\ UNCHANGED <<cfg, intr, sock, num, recvVars, metricVars, netVars, seen>>

\* write returns 0, since there is something to read and no room to send; the
\* result is not looked at.
GenWriteDrops ==
  /\ gen = "write"
  /\ ~cfg.blocking
  /\ sock["gen"] = "up"
  /\ Len(flight) = Buf
  /\ rin > 0
  /\ dropped' = dropped \cup {num}
  /\ i' = i + 1
  /\ gen' = "test"
  /\ UNCHANGED <<cfg, intr, sock, num, recvVars, metricVars, netVars, seen>>

\* write throws; run_pipe catches the exception and returns.
GenThrows ==
  /\ gen = "write"
  /\ sock["gen"] # "up"
  /\ EndGen
  /\ UNCHANGED <<cfg, intr, i, num, recvVars, metricVars, netVars, histVars>>

Gen == \/ GenTest \/ DurationOver \/ LoseMessage \/ GeneratePayload
       \/ GenWrite \/ GenWriteDrops \/ GenThrows

-----------------------------------------------------------------------------
(* runPipe. *)

EndRecv == /\ recv' = "returned"
           /\ sock' = [sock EXCEPT !["recv"] = "closed"]

\* The metrics thread is started.
RecvStart ==
  /\ recv = "start"
  /\ recv' = "read"
  /\ metrics' = IF cfg.metered THEN "test" ELSE "off"
  /\ UNCHANGED <<cfg, intr, sock, genVars, msg, mtx, netVars, histVars>>

\* The file for the metrics cannot be opened.
NoMetricsFile ==
  /\ recv = "start"
  /\ cfg.metered
  /\ EndRecv
  /\ UNCHANGED <<cfg, intr, genVars, msg, metricVars, netVars, histVars>>

\* while (!forceBreak) and sock.read, which returns what has arrived also when
\* the link is broken.
RecvRead ==
  /\ recv = "read"
  /\ ~forceBreak("recv")
  /\ sock["recv"] # "closed"
  /\ arrived # <<>>
  /\ msg' = Head(arrived)
  /\ arrived' = Tail(arrived)
  /\ recv' = "check"
  /\ UNCHANGED <<cfg, intr, sock, genVars, metricVars, flight, rout, rin,
                 histVars>>

\* The loop ends; metricsStop = true.
RecvInterrupted ==
  /\ recv = "read"
  /\ forceBreak("recv")
  /\ recv' = "stop"
  /\ UNCHANGED <<cfg, intr, sock, genVars, msg, metricVars, netVars, histVars>>

RecvThrows ==
  /\ recv = "read"
  /\ \/ sock["recv"] = "broken" /\ arrived = <<>>
     \/ sock["recv"] = "closed"
  /\ recv' = "stop"
  /\ UNCHANGED <<cfg, intr, sock, genVars, msg, metricVars, netVars, histVars>>

\* Faulty variant: try_lock, and no check when the mutex is taken.
RecvCheckTry ==
  /\ recv = "check"
  /\ seen' = IF cfg.metered /\ mtx = "free" THEN Append(seen, msg) ELSE seen
  /\ recv' = IF cfg.reply THEN "reply" ELSE "read"
  /\ msg' = 0
  /\ UNCHANGED <<cfg, intr, sock, genVars, metricVars, netVars, dropped>>

\* validate_packet, with metricsMtx held.
RecvCheck ==
  /\ recv = "check"
  /\ cfg.metered => mtx = "free"
  /\ seen' = IF cfg.metered THEN Append(seen, msg) ELSE seen
  /\ recv' = IF cfg.reply THEN "reply" ELSE "read"
  /\ msg' = 0
  /\ UNCHANGED <<cfg, intr, sock, genVars, metricVars, netVars, dropped>>

\* The reply is written; in non-blocking mode it is dropped when there is no
\* room for it and something to read.
RecvReply ==
  /\ recv = "reply"
  /\ sock["recv"] = "up"
  /\ \/ rout < Buf /\ rout' = rout + 1
     \/ rout = Buf /\ ~cfg.blocking /\ arrived # <<>> /\ UNCHANGED rout
  /\ recv' = "read"
  /\ UNCHANGED <<cfg, intr, sock, genVars, msg, metricVars, flight, arrived,
                 rin, histVars>>

ReplyThrows ==
  /\ recv = "reply"
  /\ sock["recv"] # "up"
  /\ recv' = "stop"
  /\ UNCHANGED <<cfg, intr, sock, genVars, msg, metricVars, netVars, histVars>>

\* metricsTh.get()
RecvReturn ==
  /\ recv = "stop"
  /\ metrics \in {"off", "ended"}
  /\ EndRecv
  /\ UNCHANGED <<cfg, intr, genVars, msg, metricVars, netVars, histVars>>

Recv == \/ RecvStart \/ NoMetricsFile \/ RecvRead \/ RecvInterrupted
        \/ RecvThrows \/ RecvCheck \/ RecvReply \/ ReplyThrows \/ RecvReturn

-----------------------------------------------------------------------------
(* metricsWritingLoop; its forceBreak is metricsStop. *)

metricsStop == recv \in {"stop", "returned"}

MetricsTest ==
  /\ metrics = "test"
  /\ metrics' = IF metricsStop THEN "ended" ELSE "lock"
  /\ UNCHANGED <<cfg, intr, sock, genVars, recvVars, mtx, netVars, histVars>>

MetricsLock ==
  /\ metrics = "lock"
  /\ mtx = "free"
  /\ mtx' = "metrics" /\ metrics' = "write"
  /\ UNCHANGED <<cfg, intr, sock, genVars, recvVars, netVars, histVars>>

\* Faulty variant: the mutex is not released.
MetricsWriteLocked ==
  /\ metrics = "write"
  /\ metrics' = "sleep"
  /\ UNCHANGED <<cfg, intr, sock, genVars, recvVars, mtx, netVars, histVars>>

MetricsWrite ==
  /\ metrics = "write"
  /\ mtx' = "free" /\ metrics' = "sleep"
  /\ UNCHANGED <<cfg, intr, sock, genVars, recvVars, netVars, histVars>>

\* sleep_until(statTime)
MetricsWake ==
  /\ metrics = "sleep"
  /\ metrics' = "test"
  /\ UNCHANGED <<cfg, intr, sock, genVars, recvVars, mtx, netVars, histVars>>

Metrics == MetricsTest \/ MetricsLock \/ MetricsWrite \/ MetricsWake

-----------------------------------------------------------------------------
(* The network and the signal handlers. *)

Deliver ==
  /\ sock["recv"] = "up"
  /\ flight # <<>> /\ Len(arrived) < Buf
  /\ arrived' = Append(arrived, Head(flight))
  /\ flight' = Tail(flight)
  /\ UNCHANGED <<cfg, intr, sock, genVars, recvVars, metricVars, rout, rin,
                 histVars>>

DeliverReply ==
  /\ sock["gen"] = "up"
  /\ rout > 0 /\ rin < Buf
  /\ rin' = rin + 1 /\ rout' = rout - 1
  /\ UNCHANGED <<cfg, intr, sock, genVars, recvVars, metricVars, flight,
                 arrived, histVars>>

LinkLost ==
  /\ sock["gen"] = "up" /\ sock["recv"] = "up"
  /\ sock' = [s \in Side |-> "broken"]
  /\ UNCHANGED <<cfg, intr, genVars, recvVars, metricVars, netVars, histVars>>

\* One side learns that the other one has closed its socket.
PeerGone(s) ==
  /\ sock[s] = "up"
  /\ \E p \in Side \ {s} : sock[p] = "closed"
  /\ sock' = [sock EXCEPT ![s] = "broken"]
  /\ UNCHANGED <<cfg, intr, genVars, recvVars, metricVars, netVars, histVars>>

Interrupt(s) ==
  /\ intr[s] = "none"
  /\ intr' = [intr EXCEPT ![s] = "flag"]
  /\ UNCHANGED <<cfg, sock, genVars, recvVars, metricVars, netVars, histVars>>

\* srt_cleanup
Cleanup(s) ==
  /\ intr[s] = "flag"
  /\ intr' = [intr EXCEPT ![s] = "clean"]
  /\ sock' = [sock EXCEPT ![s] = "closed"]
  /\ UNCHANGED <<cfg, genVars, recvVars, metricVars, netVars, histVars>>

Next == \/ Gen \/ Recv \/ Metrics
        \/ Deliver \/ DeliverReply \/ LinkLost
        \/ \E s \in Side : PeerGone(s) \/ Interrupt(s) \/ Cleanup(s)

Spec == Init /\ [][Next]_vars

\* The threads run, and the network brings what it can or the news that the
\* other side is gone.
Fairness ==
  /\ WF_vars(Gen) /\ WF_vars(Metrics)
  /\ WF_vars(Recv) /\ SF_vars(RecvCheck)
  /\ WF_vars(Deliver) /\ WF_vars(DeliverReply)
  /\ \A s \in Side : WF_vars(PeerGone(s))

LiveSpec == Spec /\ Fairness

-----------------------------------------------------------------------------
(* Properties. *)

\* Every variable has its type; no buffer holds more than it can.
TypeOK ==
  /\ cfg \in Options
  /\ intr \in [Side -> {"none", "flag", "clean"}]
  /\ sock \in [Side -> {"up", "broken", "closed"}]
  /\ gen \in {"test", "pace", "write", "ended"}
  /\ i \in 0 .. NumMsgs /\ num \in 0 .. NumMsgs
  /\ recv \in {"start", "read", "check", "reply", "stop", "returned"}
  /\ msg \in 0 .. NumMsgs
  /\ metrics \in {"off", "test", "lock", "write", "sleep", "ended"}
  /\ mtx \in {"free", "metrics"}
  /\ flight \in Seq(1 .. NumMsgs) /\ Len(flight) <= Buf
  /\ arrived \in Seq(1 .. NumMsgs) /\ Len(arrived) <= Buf
  /\ rout \in 0 .. Buf /\ rin \in 0 .. Buf
  /\ seen \in Seq(1 .. NumMsgs)
  /\ dropped \subseteq 1 .. NumMsgs

\* The validator of the receiver measures the network: it is given the numbers
\* in order and once, and a gap in them is a message that write gave up, never
\* one that the two programs lost or mixed up on the way.
GapsAreDrops ==
  LET pipe == seen \o arrived \o flight
  IN  cfg.metered /\ recv \in {"read", "reply"} =>
        \A k \in 1 .. Len(pipe) :
          LET before == IF k = 1 THEN 0 ELSE pipe[k - 1]
          IN  /\ before < pipe[k]
              /\ (before + 1) .. (pipe[k] - 1) \subseteq dropped

\* Each waits in a blocking write for room that only the other one can make:
\* the receiver does not read while it writes a reply, and the generator never
\* reads.  All four buffers are full.
MutualWait == /\ cfg.blocking /\ cfg.reply
              /\ sock = [s \in Side |-> "up"]
              /\ gen = "write" /\ Len(flight) = Buf /\ Len(arrived) = Buf
              /\ recv = "reply" /\ rout = Buf /\ rin = Buf

\* It is no delay: as long as the connection holds, neither write (srt_socket.cpp,
\* a blocking srt_sendmsg2) returns, also not after an interrupt.
WaitsForGood == [][MutualWait => MutualWait' \/ sock' # sock]_vars

\* No signal handler hangs in srt_cleanup: see CleanupReturns in Library.
HandlersReturn == \A s \in Side : []<>(intr[s] # "flag")

\* The generator ends, and the receiver after it, unless they wait for each
\* other.
PipelineEnds ==
  HandlersReturn => <>((gen = "ended" /\ recv = "returned") \/ MutualWait)
=============================================================================
