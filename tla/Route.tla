-------------------------------- MODULE Route --------------------------------
(***************************************************************************)
(* The command "route" (route.cpp) between two SRT connections: the main   *)
(* thread routes from SRC to DST and, with --bidir, a second one from DST  *)
(* to SRC.  They use socket::srt::read and write (srt_socket.cpp), which   *)
(* throw when a connection is gone.                                        *)
(*                                                                         *)
(* The messages of each peer are numbered from 1.                          *)
(***************************************************************************)
EXTENDS Integers, Sequences, SequencesExt

CONSTANTS MaxMsgs,  \* bound: messages that each peer sends
          SndBuf    \* messages that fit in a send buffer

ASSUME RouteAssumption == MaxMsgs \in Nat /\ SndBuf \in Nat \ {0}

Link == {"src", "dst"}
Dir == {"fwd", "bkwd"}
From(d) == IF d = "fwd" THEN "src" ELSE "dst"
To(d) == IF d = "fwd" THEN "dst" ELSE "src"

VARIABLES
  bidir,     \* --bidir
  blocking,  \* m_blocking_mode of the connections
  intr,      \* the signal handler: "none", "flag", "clean"
  run,       \* run(): "route", "wait", "unwind", "ended", "crashed"
  pc,        \* each call of route(): "test", "read", "write", "returned", "threw"
  held,      \* its buffer
  link,      \* each connection: "up", "broken", "closed"
  in,        \* its receive buffer
  out,       \* its send buffer
  sent,      \* the messages that its peer has sent so far
  got,       \* history: those that arrived at the other peer
  dropped    \* history: those for which write returned 0

vars == <<bidir, blocking, intr, run, pc, held, link, in, out, sent, got, dropped>>

forceBreak == intr # "none"

Init == /\ bidir \in BOOLEAN /\ blocking \in BOOLEAN
        /\ intr = "none"
        /\ run = "route"
        /\ pc = [d \in Dir |-> IF d = "fwd" \/ bidir THEN "test" ELSE "returned"]
        /\ held = [d \in Dir |-> <<>>]
        /\ link = [l \in Link |-> "up"]
        /\ in = [l \in Link |-> <<>>]
        /\ out = [l \in Link |-> <<>>]
        /\ sent = [l \in Link |-> 0]
        /\ got = [d \in Dir |-> <<>>]
        /\ dropped = [d \in Dir |-> {}]

-----------------------------------------------------------------------------
(* route(), for each direction. *)

LoopTest(d) ==
  /\ pc[d] = "test"
  /\ pc' = [pc EXCEPT ![d] = IF forceBreak THEN "returned" ELSE "read"]
  /\ UNCHANGED <<bidir, blocking, intr, run, held, link, in, out, sent, got,
                 dropped>>

\* sock_src.read: what has arrived can be read also when the link is broken.
Read(d) ==
  /\ pc[d] = "read"
  /\ link[From(d)] # "closed"
  /\ in[From(d)] # <<>>
  /\ held' = [held EXCEPT ![d] = <<Head(in[From(d)])>>]
  /\ in' = [in EXCEPT ![From(d)] = Tail(@)]
  /\ pc' = [pc EXCEPT ![d] = "write"]
  /\ UNCHANGED <<bidir, blocking, intr, run, link, out, sent, got, dropped>>

\* Faulty variant: a lost connection is taken for a spurious readiness.
ReadThrowsIfClosed(d) ==
  /\ pc[d] = "read"
  /\ link[From(d)] = "closed"
  /\ pc' = [pc EXCEPT ![d] = "threw"]
  /\ UNCHANGED <<bidir, blocking, intr, run, held, link, in, out, sent, got,
                 dropped>>

\* Nothing is left to read.
ReadThrows(d) ==
  /\ pc[d] = "read"
  /\ \/ link[From(d)] = "broken" /\ in[From(d)] = <<>>
     \/ link[From(d)] = "closed"
  /\ pc' = [pc EXCEPT ![d] = "threw"]
  /\ UNCHANGED <<bidir, blocking, intr, run, held, link, in, out, sent, got,
                 dropped>>

\* Faulty variant: write does not look at the room in the send buffer.
WriteAlways(d) ==
  /\ pc[d] = "write"
  /\ link[To(d)] = "up"
  /\ out' = [out EXCEPT ![To(d)] = @ \o held[d]]
  /\ held' = [held EXCEPT ![d] = <<>>]
  /\ pc' = [pc EXCEPT ![d] = "test"]
  /\ UNCHANGED <<bidir, blocking, intr, run, link, in, sent, got, dropped>>

\* Faulty variant: the write is retried also when the message was sent.
WriteRetries(d) ==
  /\ pc[d] = "write"
  /\ link[To(d)] = "up"
  /\ Len(out[To(d)]) < SndBuf
  /\ out' = [out EXCEPT ![To(d)] = @ \o held[d]]
  /\ UNCHANGED <<bidir, blocking, intr, run, pc, held, link, in, sent, got,
                 dropped>>

\* sock_dst.write
Write(d) ==
  /\ pc[d] = "write"
  /\ link[To(d)] = "up"
  /\ Len(out[To(d)]) < SndBuf
  /\ out' = [out EXCEPT ![To(d)] = @ \o held[d]]
  /\ held' = [held EXCEPT ![d] = <<>>]
  /\ pc' = [pc EXCEPT ![d] = "test"]
  /\ UNCHANGED <<bidir, blocking, intr, run, link, in, sent, got, dropped>>

\* srt_epoll_wait returns because there is something to read; srt_sendmsg2
\* finds no room, write returns 0, and route() goes on with the next message.
WriteDrops(d) ==
  /\ pc[d] = "write"
  /\ ~blocking
  /\ link[To(d)] = "up"
  /\ Len(out[To(d)]) = SndBuf
  /\ in[To(d)] # <<>>
  /\ dropped' = [dropped EXCEPT ![d] = @ \cup {Head(held[d])}]
  /\ held' = [held EXCEPT ![d] = <<>>]
  /\ pc' = [pc EXCEPT ![d] = "test"]
  /\ UNCHANGED <<bidir, blocking, intr, run, link, in, out, sent, got>>

\* The link is gone: write throws.
WriteThrows(d) ==
  /\ pc[d] = "write"
  /\ link[To(d)] # "up"
  /\ held' = [held EXCEPT ![d] = <<>>]
  /\ pc' = [pc EXCEPT ![d] = "threw"]
  /\ UNCHANGED <<bidir, blocking, intr, run, link, in, out, sent, got, dropped>>

RouteStep(d) == \/ LoopTest(d) \/ Read(d) \/ ReadThrows(d)
                \/ Write(d) \/ WriteDrops(d) \/ WriteThrows(d)

-----------------------------------------------------------------------------
(* run(), after route(src, dst). *)

ForwardEnds ==
  /\ run = "route"
  /\ pc["fwd"] \in {"returned", "threw"}
  /\ run' = IF pc["fwd"] = "threw" THEN "unwind" ELSE "wait"
  /\ UNCHANGED <<bidir, blocking, intr, pc, held, link, in, out, sent, got,
                 dropped>>

bkwdEnded == pc["bkwd"] \in {"returned", "threw"}

\* run() returns and lets go of both connections.
Leave == /\ run' = "ended"
         /\ link' = [l \in Link |-> "closed"]
         /\ UNCHANGED <<bidir, blocking, intr, pc, held, in, out, sent, got,
                        dropped>>

\* route_bkwd.wait().
WaitBackward == run = "wait" /\ bidir /\ bkwdEnded /\ Leave

\* Without --bidir, route_bkwd has no state: wait() throws a future_error, which
\* the catch block does not match.
WaitNoState ==
  /\ run = "wait"
  /\ ~bidir
  /\ run' = "crashed"
  /\ UNCHANGED <<bidir, blocking, intr, pc, held, link, in, out, sent, got,
                 dropped>>

\* The exception leaves the try block by the destructor of route_bkwd, which
\* waits for the other thread.
Unwind == run = "unwind" /\ bkwdEnded /\ Leave

-----------------------------------------------------------------------------
(* The peers, the network and the signal handler. *)

\* They stop to matter when the program has ended.
Over == run \in {"ended", "crashed"}

PeerSend(l) ==
  /\ link[l] = "up" /\ ~Over
  /\ sent[l] < MaxMsgs
  /\ sent' = [sent EXCEPT ![l] = @ + 1]
  /\ in' = [in EXCEPT ![l] = Append(@, sent[l] + 1)]
  /\ UNCHANGED <<bidir, blocking, intr, run, pc, held, link, out, got, dropped>>

PeerTakes(d) ==
  /\ link[To(d)] = "up" /\ ~Over
  /\ out[To(d)] # <<>>
  /\ got' = [got EXCEPT ![d] = Append(@, Head(out[To(d)]))]
  /\ out' = [out EXCEPT ![To(d)] = Tail(@)]
  /\ UNCHANGED <<bidir, blocking, intr, run, pc, held, link, in, sent, dropped>>

PeerLeaves(l) ==
  /\ link[l] = "up" /\ ~Over
  /\ link' = [link EXCEPT ![l] = "broken"]
  /\ UNCHANGED <<bidir, blocking, intr, run, pc, held, in, out, sent, got,
                 dropped>>

Interrupt ==
  /\ intr = "none" /\ ~Over
  /\ intr' = "flag"
  /\ UNCHANGED <<bidir, blocking, run, pc, held, link, in, out, sent, got,
                 dropped>>

\* srt_cleanup() closes the connections.
Cleanup ==
  /\ intr = "flag"
  /\ intr' = "clean"
  /\ link' = [l \in Link |-> "closed"]
  /\ UNCHANGED <<bidir, blocking, run, pc, held, in, out, sent, got, dropped>>

Run == ForwardEnds \/ WaitBackward \/ WaitNoState \/ Unwind

Next == \/ Run
        \/ \E d \in Dir : RouteStep(d) \/ PeerTakes(d)
        \/ \E l \in Link : PeerSend(l) \/ PeerLeaves(l)
        \/ Interrupt \/ Cleanup

Spec == Init /\ [][Next]_vars

\* The threads run.  A peer takes what is sent to it; it does not have to send
\* anything, or to leave.  The signal handler need not come back: see
\* CleanupReturns in Library.
Fairness == /\ WF_vars(Run)
            /\ \A d \in Dir : WF_vars(RouteStep(d)) /\ WF_vars(PeerTakes(d))

LiveSpec == Spec /\ Fairness

-----------------------------------------------------------------------------
(* Properties. *)

Msgs == 1 .. MaxMsgs

\* Every variable has its type; no send buffer holds more than it can.
TypeOK ==
  /\ bidir \in BOOLEAN /\ blocking \in BOOLEAN
  /\ intr \in {"none", "flag", "clean"}
  /\ run \in {"route", "wait", "unwind", "ended", "crashed"}
  /\ pc \in [Dir -> {"test", "read", "write", "returned", "threw"}]
  /\ held \in [Dir -> {<<>>} \cup {<<m>> : m \in Msgs}]
  /\ link \in [Link -> {"up", "broken", "closed"}]
  /\ in \in [Link -> Seq(Msgs)]
  /\ out \in [Link -> Seq(Msgs)]
  /\ \A l \in Link : Len(out[l]) <= SndBuf
  /\ sent \in [Link -> 0 .. MaxMsgs]
  /\ got \in [Dir -> Seq(Msgs)]
  /\ dropped \in [Dir -> SUBSET Msgs]

\* What is left, in the order of sending, of the messages in one direction.
Pipe(d) == got[d] \o out[To(d)] \o held[d] \o in[From(d)]

Rising(s) == \A i, j \in DOMAIN s : i < j => s[i] < s[j]

\* While both links hold, every message of a peer is in its place on the way
\* to the other one, once, or was dropped because write returned 0.
Accounted ==
  \A d \in Dir : link = [l \in Link |-> "up"] =>
    /\ Rising(Pipe(d))
    /\ Range(Pipe(d)) = (1 .. sent[From(d)]) \ dropped[d]

\* After the forward direction has failed, or the handler of an interrupt has
\* come back, the command ends, unless the other thread waits for a message
\* of a destination that is silent.
RouteEnds ==
  run = "unwind" \/ intr = "clean" ~>
    \/ Over
    \/ /\ pc["bkwd"] = "read"
       /\ link["dst"] = "up" /\ in["dst"] = <<>>

\* The option --handle-sigint says "Handle Ctrl+C interrupt": an interrupt does
\* not end the program by an exception that nobody catches.
InterruptHandled == run # "crashed"
=============================================================================
