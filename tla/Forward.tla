------------------------------ MODULE Forward ------------------------------
(***************************************************************************)
(* The "forward" command: run, startForwarding and forwardMessage          *)
(* (file-forward.cpp) over two nodes of class SrtNode (srt_node.cpp).      *)
(*                                                                         *)
(* Node "src" listens and accepts one client; node "dst" calls out.  Two   *)
(* threads forward, each from one node to the other.  Each node's traffic  *)
(* goes over one link: the accepted socket of "src", the bind socket of    *)
(* "dst".  A session lasts until one thread gives up; run then starts the  *)
(* next one.                                                               *)
(***************************************************************************)
EXTENDS Integers, Sequences, SequencesExt

CONSTANTS MaxMsgs,  \* bound: messages a peer sends in a session
          SndBuf    \* messages that fit in a link's send buffer

ASSUME ForwardAssumption == MaxMsgs \in Nat /\ SndBuf \in Nat \ {0}

Nodes == {"src", "dst"}
Other(n) == IF n = "src" THEN "dst" ELSE "src"

VARIABLES
  forceBreak,  \* force_break
  main,        \* where run and startForwarding are
  stop,        \* m_stop_accept of each node
  link,        \* the link of each node: "none", "up", "broken" or "closed"
  pend,        \* messages of the peer not yet received, for each node
  snd,         \* messages in the send buffer of each node's link
  thread,      \* the thread that receives from each node
  held,        \* the message that thread has received and not sent yet
  sent,        \* history: what the peer of each node has sent
  got          \* history: what the peer of each node has been delivered

vars == <<forceBreak, main, stop, link, pend, snd, thread, held, sent,
          got>>

traffic == <<pend, snd, held, sent, got>>

Main == {"run", "connect", "listen", "accept", "forward", "flush", "returned"}
ThreadPC == {"off", "loop", "receive", "poll", "send", "close", "done"}
None == 0
Each(v) == [n \in Nodes |-> v]

Init == /\ forceBreak = FALSE
        /\ main = "run"
        /\ stop = Each(FALSE)
        /\ link = Each("none")
        /\ pend = Each(<<>>)
        /\ snd = Each(<<>>)
        /\ thread = Each("off")
        /\ held = Each(None)
        /\ sent = Each(<<>>)
        /\ got = Each(<<>>)

-----------------------------------------------------------------------------
(* run and startForwarding, on the main thread. *)

\* Faulty variant: run never looks at forceBreak.
RunForever ==
  /\ main = "run"
  /\ main' = "connect"
  /\ stop' = Each(FALSE)
  /\ link' = Each("none")
  /\ thread' = Each("off")
  /\ pend' = Each(<<>>) /\ snd' = Each(<<>>) /\ held' = Each(None)
  /\ sent' = Each(<<>>) /\ got' = Each(<<>>)
  /\ UNCHANGED <<forceBreak>>

\* while (!forceBreak) startForwarding(...): the two nodes are created anew.
\* What was left of the last session is out of reach.
RunTest ==
  /\ main = "run"
  /\ main' = IF forceBreak THEN "returned" ELSE "connect"
  /\ stop' = Each(FALSE)
  /\ link' = Each("none")
  /\ thread' = Each("off")
  /\ pend' = Each(<<>>) /\ snd' = Each(<<>>) /\ held' = Each(None)
  /\ sent' = Each(<<>>) /\ got' = Each(<<>>)
  /\ UNCHANGED <<forceBreak>>

\* dst->Connect(): a blocking srt_connect, which may fail.
ConnectDst ==
  /\ main = "connect"
  /\ \/ main' = "listen" /\ link' = [link EXCEPT !["dst"] = "up"]
     \/ main' = "run"    /\ UNCHANGED link
  /\ UNCHANGED <<forceBreak, stop, thread, traffic>>

\* src->Listen(1): bind and listen, which may fail; ~SrtNode closes the link.
ListenSrc ==
  /\ main = "listen"
  /\ \/ main' = "accept" /\ UNCHANGED link
     \/ main' = "run"    /\ link' = [link EXCEPT !["dst"] = "closed"]
  /\ UNCHANGED <<forceBreak, stop, thread, traffic>>

\* AcceptingThread, waited for by startForwarding, accepts a client.
AcceptSrc ==
  /\ main = "accept"
  /\ link' = [link EXCEPT !["src"] = "up"]
  /\ thread' = Each("loop")
  /\ main' = "forward"
  /\ UNCHANGED <<forceBreak, stop, traffic>>

\* AcceptingThread wakes up every 500 ms and looks at force_break.
AcceptCancelled ==
  /\ main = "accept"
  /\ forceBreak
  /\ link' = [link EXCEPT !["dst"] = "closed"]
  /\ main' = "run"
  /\ UNCHANGED <<forceBreak, stop, thread, traffic>>

JoinThreads ==
  /\ main = "forward"
  /\ \A n \in Nodes : thread[n] = "done"
  /\ main' = "flush"
  /\ UNCHANGED <<forceBreak, stop, link, thread, traffic>>

\* WaitUndelivered(3000) on each node.  It asks the bind socket: that of "src"
\* is the listener, so only "dst" is waited for.  ~SrtNode then closes the
\* bind sockets; the accepted socket of "src" stays open.
FlushDst ==
  /\ main = "flush"
  /\ link["dst"] # "up" \/ snd["dst"] = <<>>
  /\ link' = [link EXCEPT !["dst"] = "closed"]
  /\ main' = "run"
  /\ UNCHANGED <<forceBreak, stop, thread, traffic>>

\* ... or the three seconds are over.
FlushTimeout ==
  /\ main = "flush"
  /\ link["dst"] = "up"
  /\ snd["dst"] # <<>>
  /\ link' = [link EXCEPT !["dst"] = "closed"]
  /\ main' = "run"
  /\ UNCHANGED <<forceBreak, stop, thread, traffic>>

\* The steps of the main thread that need no client.
MainAlone == \/ RunTest \/ ConnectDst \/ ListenSrc \/ AcceptCancelled
             \/ JoinThreads \/ FlushDst \/ FlushTimeout

-----------------------------------------------------------------------------
(* forwardMessage, on the thread that receives from node n. *)

Goto(n, pc) == thread' = [thread EXCEPT ![n] = pc]

\* while (!forceBreak)
LoopTest(n) ==
  /\ thread[n] = "loop"
  /\ Goto(n, IF forceBreak THEN "close" ELSE "receive")
  /\ UNCHANGED <<forceBreak, main, stop, link, traffic>>

\* Receive: while (!m_stop_accept); otherwise it returns 0.
ReceiveTest(n) ==
  /\ thread[n] = "receive"
  /\ Goto(n, IF stop[n] THEN "close" ELSE "poll")
  /\ UNCHANGED <<forceBreak, main, stop, link, traffic>>

\* Receive: srt_epoll_wait found nothing for three seconds.
PollTimeout(n) ==
  /\ thread[n] = "poll"
  /\ pend[n] = <<>>
  /\ link[n] = "up"
  /\ Goto(n, "receive")
  /\ UNCHANGED <<forceBreak, main, stop, link, traffic>>

\* Receive: srt_recvmsg2 returned a message.
ReceiveMsg(n) ==
  /\ thread[n] = "poll"
  /\ pend[n] # <<>>
  /\ held' = [held EXCEPT ![n] = Head(pend[n])]
  /\ pend' = [pend EXCEPT ![n] = Tail(@)]
  /\ Goto(n, "send")
  /\ UNCHANGED <<forceBreak, main, stop, link, snd, sent, got>>

\* Receive: SRT_ECONNLOST, the socket is closed.
ReceiveLost(n) ==
  /\ thread[n] = "poll"
  /\ pend[n] = <<>>
  /\ link[n] = "broken"
  /\ link' = [link EXCEPT ![n] = "closed"]
  /\ Goto(n, "close")
  /\ UNCHANGED <<forceBreak, main, stop, traffic>>

\* Receive: any other error of srt_recvmsg2 (for one, a spurious wakeup of the
\* epoll) is returned, and forwardMessage gives up.
ReceiveError(n) ==
  /\ thread[n] = "poll"
  /\ pend[n] = <<>>
  /\ link[n] = "up"
  /\ Goto(n, "close")
  /\ UNCHANGED <<forceBreak, main, stop, link, traffic>>

\* Faulty variant: a message that was not sent is received again.
SendRetries(n) ==
  LET m == Other(n) IN
  /\ thread[n] = "send"
  /\ link[m] = "up"
  /\ Len(snd[m]) < SndBuf
  /\ snd' = [snd EXCEPT ![m] = Append(@, held[n])]
  /\ \/ held' = [held EXCEPT ![n] = None] /\ Goto(n, "loop")
     \/ UNCHANGED <<held, thread>>
  /\ UNCHANGED <<forceBreak, main, stop, link, pend, sent, got>>

\* Faulty variant: srt_sendmsg does not wait for room.
SendNoWait(n) ==
  LET m == Other(n) IN
  /\ thread[n] = "send"
  /\ link[m] = "up"
  /\ snd' = [snd EXCEPT ![m] = Append(@, held[n])]
  /\ held' = [held EXCEPT ![n] = None]
  /\ Goto(n, "loop")
  /\ UNCHANGED <<forceBreak, main, stop, link, pend, sent, got>>

\* Send: srt_sendmsg is blocking and waits for room in the send buffer.
SendMsg(n) ==
  LET m == Other(n) IN
  /\ thread[n] = "send"
  /\ link[m] = "up"
  /\ Len(snd[m]) < SndBuf
  /\ snd' = [snd EXCEPT ![m] = Append(@, held[n])]
  /\ held' = [held EXCEPT ![n] = None]
  /\ Goto(n, "loop")
  /\ UNCHANGED <<forceBreak, main, stop, link, pend, sent, got>>

\* Send: the link is gone, and the message with it.
SendError(n) ==
  /\ thread[n] = "send"
  /\ link[Other(n)] # "up"
  /\ held' = [held EXCEPT ![n] = None]
  /\ Goto(n, "close")
  /\ UNCHANGED <<forceBreak, main, stop, link, pend, snd, sent, got>>

\* Faulty variant: only the receiving node is stopped.
CloseOwn(n) ==
  /\ thread[n] = "close"
  /\ stop' = [stop EXCEPT ![n] = TRUE]
  /\ Goto(n, "done")
  /\ UNCHANGED <<forceBreak, main, link, traffic>>

\* src->Close(); dst->Close(); and the thread ends.
CloseBoth(n) ==
  /\ thread[n] = "close"
  /\ stop' = Each(TRUE)
  /\ Goto(n, "done")
  /\ UNCHANGED <<forceBreak, main, link, traffic>>

ForwardThread(n) ==
  \/ LoopTest(n) \/ ReceiveTest(n) \/ PollTimeout(n) \/ ReceiveMsg(n)
  \/ ReceiveLost(n) \/ ReceiveError(n) \/ SendMsg(n) \/ SendError(n)
  \/ CloseBoth(n)

-----------------------------------------------------------------------------
(* The peers and the signal handler. *)

PeerSend(n) ==
  /\ link[n] = "up"
  /\ Len(sent[n]) < MaxMsgs
  /\ sent' = [sent EXCEPT ![n] = Append(@, Len(@) + 1)]
  /\ pend' = [pend EXCEPT ![n] = Append(@, Len(sent[n]) + 1)]
  /\ UNCHANGED <<forceBreak, main, stop, link, snd, thread, held, got>>

PeerTakes(n) ==
  /\ link[n] = "up"
  /\ snd[n] # <<>>
  /\ got' = [got EXCEPT ![n] = Append(@, Head(snd[n]))]
  /\ snd' = [snd EXCEPT ![n] = Tail(@)]
  /\ UNCHANGED <<forceBreak, main, stop, link, pend, thread, held,
                 sent>>

PeerLeaves(n) ==
  /\ link[n] = "up"
  /\ link' = [link EXCEPT ![n] = "broken"]
  /\ UNCHANGED <<forceBreak, main, stop, thread, traffic>>

\* OnINT_ForceExit.  Its srt_cleanup closes nothing here: each SrtNode has
\* called srt_startup once more, and the library counts the calls.
Interrupt ==
  /\ ~forceBreak
  /\ forceBreak' = TRUE
  /\ UNCHANGED <<main, stop, link, thread, traffic>>

Next == \/ MainAlone
        \/ AcceptSrc
        \/ \E n \in Nodes : \/ ForwardThread(n)
                            \/ PeerSend(n) \/ PeerTakes(n) \/ PeerLeaves(n)
        \/ Interrupt

Spec == Init /\ [][Next]_vars

\* Every thread runs, every wait with a timeout ends, and a peer takes what is
\* sent to it: a peer that never did would block srt_sendmsg for ever.  No
\* peer has to connect, to send or to leave.
Fairness == /\ WF_vars(MainAlone)
            /\ \A n \in Nodes : /\ WF_vars(ForwardThread(n))
                                /\ WF_vars(PeerTakes(n))

LiveSpec == Spec /\ Fairness

-----------------------------------------------------------------------------
(* Properties. *)

\* Every variable has its type; a send buffer never holds more than it can.
TypeOK == /\ forceBreak \in BOOLEAN
          /\ main \in Main
          /\ stop \in [Nodes -> BOOLEAN]
          /\ link \in [Nodes -> {"none", "up", "broken", "closed"}]
          /\ thread \in [Nodes -> ThreadPC]
          /\ held \in [Nodes -> 0 .. MaxMsgs]
          /\ \A n \in Nodes : /\ pend[n] \in Seq(1 .. MaxMsgs)
                              /\ snd[n] \in Seq(1 .. MaxMsgs)
                              /\ sent[n] \in Seq(1 .. MaxMsgs)
                              /\ got[n] \in Seq(1 .. MaxMsgs)
                              /\ Len(snd[n]) <= SndBuf

\* The message that the thread of node n has in its hands, if any.
InHand(n) == IF held[n] = None THEN <<>> ELSE <<held[n]>>

\* Each direction is a pipe: what has been delivered, is in the send buffer, in
\* the thread's hands and not yet received is, in this order, what the peer has
\* sent.  Messages are lost, at the end of a session, only behind those that
\* were forwarded; none is duplicated or overtaken.
PipeIntact ==
  \A n \in Nodes :
    LET forwarded == got[Other(n)] \o snd[Other(n)]
    IN  /\ IsPrefix(forwarded, sent[n])
        /\ thread[n] \in {"off", "loop", "receive", "poll", "send"} =>
             forwarded \o InHand(n) \o pend[n] = sent[n]

\* When one thread of a session gives up, so does the other: a session never
\* goes on in one direction only.
ThreadsStopTogether ==
  \A n \in Nodes : thread[n] = "done" ~> thread[Other(n)] \in {"done", "off"}

\* Both links are alive and both threads wait in Receive for a message.
Idle == /\ main = "forward"
        /\ \A n \in Nodes : /\ link[n] = "up"
                            /\ pend[n] = <<>>
                            /\ thread[n] \in {"receive", "poll"}

\* After an interrupt the command ends, except while the peers neither send
\* nor leave.
InterruptStopsUnlessIdle == []<>(~forceBreak \/ main = "returned" \/ Idle)
=============================================================================
