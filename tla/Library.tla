------------------------------- MODULE Library -------------------------------
(***************************************************************************)
(* The global part of the SRT library (CUDTUnited in srtcore/api.cpp, with *)
(* what its callers hold of CUDT in srtcore/core.cpp) as the tool uses it: *)
(* srt_startup and srt_cleanup with their counter, the sockets from their  *)
(* creation to their removal by the garbage collector, and srt_cleanup     *)
(* called by the signal handler while a thread is inside the library.      *)
(*                                                                         *)
(* Threads: the main thread of the tool, a receiving thread of the library *)
(* (worker), the garbage collector (gc) and the handler of SIGINT.  The    *)
(* handler runs on top of the main thread, which then stands still, or on  *)
(* a thread of its own, as on Windows.                                     *)
(***************************************************************************)
EXTENDS Integers, FiniteSets

CONSTANTS Socks,     \* bound: the sockets that exist at one time
          NoSock,    \* no socket
          Modes,     \* the modes of interest: blocking or not
          OnMain,    \* where the handler runs: on the main thread or not
          Backlog,   \* connections a listener keeps until they are accepted
          MaxStarts  \* bound: the nodes of the forward command

ASSUME LibraryAssumption == /\ NoSock \notin Socks
                            /\ Modes \subseteq BOOLEAN
                            /\ OnMain \subseteq BOOLEAN
                            /\ Backlog \in Nat \ {0}
                            /\ MaxStarts \in Nat

VARIABLES
  blocking,  \* the mode of all sockets
  onMain,    \* the handler runs on the main thread
  extra,     \* history: calls of srt_startup by an SrtNode
  count,     \* m_iInstanceCount
  running,   \* m_bGCStatus: there is a garbage collector to be joined
  stopping,  \* CUDTUnited::m_bClosing
  gc,        \* where the garbage collector is
  gcAt,      \* the socket that it is closing
  loc,       \* where each socket is: "none", "open" (m_Sockets), "closed"
             \* (m_ClosedSockets), "erased" (in neither, not deleted yet)
  status,    \* m_Status of each socket
  core,      \* its CUDT: "shut" (!m_bOpened), "opened", "closing" (m_bClosing)
  broken,    \* the sockets that have m_bBroken
  parent,    \* m_ListenSocket: the listener that a connection came from
  queued,    \* the connections in the m_QueuedSockets of their listener
  glob,      \* who has m_GlobControlLock
  epoll,     \* who has m_EPollLock
  conn,      \* who has m_ConnectionLock of each socket
  snd,       \* who has m_SendLock of each socket
  rcv,       \* who has m_RecvLock of each socket
  acc,       \* who has m_AcceptLock of each socket
  main,      \* where the main thread is
  at,        \* the socket that it is using
  worker,    \* the socket whose handshake the worker concludes, or the
             \* listener that it has m_LSLock for
  handler,   \* the signal handler: "none", "enter", "join" (of the collector),
             \* "cleaned", or "skipped" when there was nothing for it to do
  doomed     \* history: the sockets that existed at the interrupt and still do

vars == <<blocking, onMain, extra, count, running, stopping, gc, gcAt, loc,
          status, core, broken, parent, queued, glob, epoll, conn, snd, rcv,
          acc, main, at, worker, handler, doomed>>

modeVars   == <<blocking, onMain>>
globalVars == <<extra, count, running, stopping>>
sockVars   == <<loc, status, core, broken, parent, queued>>
lockVars   == <<glob, epoll, conn, snd, rcv, acc>>

Free == "free"
Owner == {Free, "main", "worker", "gc"}
Waiting == {"connect", "accept", "send", "recv", "poll"}
MainPC == {"idle", "startup", "create", "locate", "use", "listen", "option",
           "post", "accepting", "receiving", "unlisten", "broadcast", "linger",
           "close", "closed", "exit", "static", "exit2", "exited", "wild"}
            \cup Waiting
Status == {"init", "listening", "connecting", "connected", "closing"}

Fresh(s) == loc[s] = "none"

Init == /\ blocking \in Modes /\ onMain \in OnMain
        /\ extra = 0 /\ count = 1 /\ running = TRUE /\ stopping = FALSE
        /\ gc = "loop" /\ gcAt = NoSock
        /\ loc = [s \in Socks |-> "none"]
        /\ status = [s \in Socks |-> "init"]
        /\ core = [s \in Socks |-> "shut"]
        /\ broken = {}
        /\ parent = [s \in Socks |-> NoSock]
        /\ queued = {}
        /\ glob = Free /\ epoll = Free
        /\ conn = [s \in Socks |-> Free]
        /\ snd = [s \in Socks |-> Free]
        /\ rcv = [s \in Socks |-> Free]
        /\ acc = [s \in Socks |-> Free]
        /\ main = "idle" /\ at = NoSock
        /\ worker = NoSock
        /\ handler = "none"
        /\ doomed = {}

\* The main thread stands still while the handler runs on top of it.
MainRuns == ~(onMain /\ handler \in {"enter", "join"})

\* In the scope of m_EPollLock it does nothing else.
Goto(pc, s) == MainRuns /\ epoll # "main" /\ main' = pc /\ at' = s

\* A socket is gone: everything about it is as before its creation.
Forget(s) == /\ loc' = [loc EXCEPT ![s] = "none"]
             /\ status' = [status EXCEPT ![s] = "init"]
             /\ core' = [core EXCEPT ![s] = "shut"]
             /\ broken' = broken \ {s}
             /\ parent' = [parent EXCEPT ![s] = NoSock]
             /\ conn' = [conn EXCEPT ![s] = Free]
             /\ snd' = [snd EXCEPT ![s] = Free]
             /\ rcv' = [rcv EXCEPT ![s] = Free]
             /\ acc' = [acc EXCEPT ![s] = Free]
             /\ doomed' = doomed \ {s}

-----------------------------------------------------------------------------
(* The main thread: startup, and the life of a socket. *)

\* m_iInstanceCount is incremented; the first call starts the collector.
StartupEffect == /\ count' = count + 1
                 /\ IF count <= 0 /\ ~running
                      THEN running' = TRUE /\ stopping' = FALSE /\ gc' = "loop"
                      ELSE UNCHANGED <<running, stopping, gc>>

\* srt_startup, by the constructor of an SrtNode.  It needs m_InitLock, which
\* a cleanup keeps until it has joined the collector.
Startup == /\ main = "idle"
           /\ extra < MaxStarts
           /\ extra' = extra + 1
           /\ handler # "join"
           /\ Goto("startup", NoSock)
           /\ StartupEffect
           /\ UNCHANGED <<modeVars, gcAt, sockVars, lockVars, worker, handler,
                          doomed>>

\* The main thread is between two calls.  The forward command makes both its
\* nodes before it does anything else.
Idle == main = "idle" /\ extra % 2 = 0

\* Faulty variant: every srt_create_socket counts as a startup.
AutoStartupAlways == /\ Idle
                     /\ handler # "join"
                     /\ Goto("startup", NoSock)
                     /\ StartupEffect
                     /\ UNCHANGED <<modeVars, extra, gcAt, sockVars, lockVars,
                                    worker, handler, doomed>>

\* srt_create_socket starts the library again when there is no collector.
AutoStartup == /\ Idle
               /\ ~running
               /\ handler # "join"
               /\ Goto("startup", NoSock)
               /\ StartupEffect
               /\ UNCHANGED <<modeVars, extra, gcAt, sockVars, lockVars, worker,
                              handler, doomed>>

StartupReturns == /\ main = "startup"
                  /\ Goto("idle", NoSock)
                  /\ UNCHANGED <<modeVars, globalVars, gc, gcAt, sockVars,
                                 lockVars, worker, handler, doomed>>

\* newSocket under m_GlobControlLock.
NewSocket(s) == /\ Idle
                /\ running
                /\ Fresh(s)
                /\ glob = Free
                /\ glob' = "main"
                /\ loc' = [loc EXCEPT ![s] = "open"]
                /\ Goto("create", s)
                /\ UNCHANGED <<modeVars, globalVars, gc, gcAt, status, core,
                               broken, parent, queued, epoll, conn, snd, rcv,
                               acc, worker, handler, doomed>>

\* Every call on a socket looks it up under m_GlobControlLock.
Locate(s) == /\ Idle
             /\ loc[s] = "open"
             /\ s \notin queued
             /\ glob = Free
             /\ glob' = "main"
             /\ Goto("locate", s)
             /\ UNCHANGED <<modeVars, globalVars, gc, gcAt, sockVars, epoll,
                            conn, snd, rcv, acc, worker, handler, doomed>>

Unlock == /\ main \in {"create", "locate"}
          /\ glob' = Free
          /\ IF main = "create" THEN Goto("idle", NoSock) ELSE Goto("use", at)
          /\ UNCHANGED <<modeVars, globalVars, gc, gcAt, sockVars, epoll, conn,
                         snd, rcv, acc, worker, handler, doomed>>

\* The call goes on with a pointer to the socket, and no lock.
Found == main = "use"

\* It is refused: the socket is not in a state for it.  Or it was about the
\* epoll of the socket only, and is over.
CallFails == /\ Found
             /\ Goto("idle", NoSock)
             /\ UNCHANGED <<modeVars, globalVars, gc, gcAt, sockVars, lockVars,
                            worker, handler, doomed>>

\* m_EPollLock is taken for a moment by the calls on an epoll (srt_epoll_create,
\* _add_usock, _wait, _release) and by closeInternal, which takes m_ListLock of
\* the send queue likewise.  Where the other calls take it they have a lock of
\* the socket as well.
EPollLocks == /\ main \in (IF blocking THEN {"linger"}
                                       ELSE {"poll", "use", "linger"})
              /\ MainRuns
              /\ epoll = Free
              /\ epoll' = "main"
              /\ UNCHANGED <<modeVars, globalVars, gc, gcAt, sockVars, glob, conn,
                             snd, rcv, acc, main, at, worker, handler, doomed>>

EPollUnlocks == /\ epoll = "main"
                /\ MainRuns
                /\ epoll' = Free
                /\ UNCHANGED <<modeVars, globalVars, gc, gcAt, sockVars, glob,
                               conn, snd, rcv, acc, main, at, worker, handler,
                               doomed>>

\* srt_setsockopt has all three locks of the socket for a moment; srt_getsockopt
\* and srt_epoll_add_usock have one of them.
Option == /\ Found
          /\ at \notin broken /\ core[at] # "closing"
          /\ {conn[at], snd[at], rcv[at]} = {Free}
          /\ conn' = [conn EXCEPT ![at] = "main"]
          /\ snd' = [snd EXCEPT ![at] = "main"]
          /\ rcv' = [rcv EXCEPT ![at] = "main"]
          /\ Goto("option", at)
          /\ UNCHANGED <<modeVars, globalVars, gc, gcAt, sockVars, glob, epoll,
                         acc, worker, handler, doomed>>

OptionReturns == /\ main = "option"
                 /\ conn' = [conn EXCEPT ![at] = Free]
                 /\ snd' = [snd EXCEPT ![at] = Free]
                 /\ rcv' = [rcv EXCEPT ![at] = Free]
                 /\ Goto("idle", NoSock)
                 /\ UNCHANGED <<modeVars, globalVars, gc, gcAt, sockVars, glob,
                                epoll, acc, worker, handler, doomed>>

\* srt_bind and srt_listen: open and setListenState under m_ConnectionLock.
Listen == /\ Found
          /\ status[at] = "init"
          /\ conn[at] = Free
          /\ core' = [core EXCEPT ![at] = "opened"]
          /\ conn' = [conn EXCEPT ![at] = "main"]
          /\ Goto("listen", at)
          /\ UNCHANGED <<modeVars, globalVars, gc, gcAt, loc, status, broken,
                         parent, queued, glob, epoll, snd, rcv, acc, worker,
                         handler, doomed>>

ListenReturns == /\ main = "listen"
                 /\ status' = [status EXCEPT ![at] = "listening"]
                 /\ conn' = [conn EXCEPT ![at] = Free]
                 /\ Goto("idle", NoSock)
                 /\ UNCHANGED <<modeVars, globalVars, gc, gcAt, loc, core, broken,
                                parent, queued, glob, epoll, snd, rcv, acc,
                                worker, handler, doomed>>

\* srt_connect: it keeps m_ConnectionLock until the handshake is over in
\* blocking mode; otherwise the worker goes on with it.
Connect == /\ Found
           /\ status[at] = "init"
           /\ conn[at] = Free
           /\ status' = [status EXCEPT ![at] = "connecting"]
           /\ core' = [core EXCEPT ![at] = "opened"]
           /\ IF blocking
                THEN conn' = [conn EXCEPT ![at] = "main"] /\ Goto("connect", at)
                ELSE Goto("idle", NoSock) /\ UNCHANGED conn
           /\ UNCHANGED <<modeVars, globalVars, gc, gcAt, loc, broken, parent,
                          queued, glob, epoll, snd, rcv, acc, worker, handler,
                          doomed>>

\* The handshake of a blocking call succeeded ...
ConnectOk == /\ main = "connect"
             /\ Goto("post", at)
             /\ UNCHANGED <<modeVars, globalVars, gc, gcAt, sockVars, lockVars,
                            worker, handler, doomed>>

\* Faulty variant: the error path leaves m_ConnectionLock locked.
ConnectFailsLocked ==
  /\ main = "connect"
  /\ status' = [status EXCEPT ![at] = "init"]
  /\ Goto("idle", NoSock)
  /\ UNCHANGED <<modeVars, globalVars, gc, gcAt, loc, core, broken, parent,
                 queued, lockVars, worker, handler, doomed>>

\* ... was refused, timed out, or the socket is being closed.
ConnectFails == /\ main = "connect"
                /\ status' = [status EXCEPT ![at] = "init"]
                /\ conn' = [conn EXCEPT ![at] = Free]
                /\ Goto("idle", NoSock)
                /\ UNCHANGED <<modeVars, globalVars, gc, gcAt, loc, core, broken,
                               parent, queued, glob, epoll, snd, rcv, acc,
                               worker, handler, doomed>>

\* postConnect looks the socket up once more, with m_ConnectionLock held: it
\* is connected if it is still there.
PostConnect(s, failed) ==
  /\ glob = Free
  /\ conn' = [conn EXCEPT ![s] = Free]
  /\ status' = [status EXCEPT ![s] = IF loc[s] = "open" THEN "connected"
                                                        ELSE failed]

ConnectEnds == /\ main = "post"
               /\ PostConnect(at, "init")
               /\ Goto("idle", NoSock)
               /\ UNCHANGED <<modeVars, globalVars, gc, gcAt, loc, core, broken,
                              parent, queued, glob, epoll, snd, rcv, acc, worker,
                              handler, doomed>>

\* srt_accept looks at the queue of the listener under m_AcceptLock ...
Queued(l) == {s \in queued : parent[s] = l}

Listening(l) == status[l] = "listening" /\ l \notin broken

Accept == /\ Found
          /\ status[at] = "listening"
          /\ acc[at] = Free
          /\ acc' = [acc EXCEPT ![at] = "main"]
          /\ Goto("accepting", at)
          /\ UNCHANGED <<modeVars, globalVars, gc, gcAt, sockVars, glob, epoll,
                         conn, snd, rcv, worker, handler, doomed>>

\* ... and takes one of the connections, fails when there is none or the
\* listener is closed, or waits on m_AcceptCond in blocking mode.
AcceptEnds ==
  /\ main = "accepting"
  /\ acc' = [acc EXCEPT ![at] = Free]
  /\ \/ /\ Listening(at)
        /\ \E s \in Queued(at) : queued' = queued \ {s}
        /\ Goto("idle", NoSock)
     \/ /\ Listening(at) => Queued(at) = {}
        /\ UNCHANGED queued
        /\ IF Listening(at) /\ blocking THEN Goto("accept", at)
                                        ELSE Goto("idle", NoSock)
  /\ UNCHANGED <<modeVars, globalVars, gc, gcAt, loc, status, core, broken,
                 parent, glob, epoll, conn, snd, rcv, worker, handler, doomed>>

\* The wait ends with a new connection, or spuriously.  Nobody notifies the
\* waiting thread when the collector closes the listener.
AcceptWakes == /\ main = "accept"
               /\ acc[at] = Free
               /\ acc' = [acc EXCEPT ![at] = "main"]
               /\ Goto("accepting", at)
               /\ UNCHANGED <<modeVars, globalVars, gc, gcAt, sockVars, glob,
                              epoll, conn, snd, rcv, worker, handler, doomed>>

\* srt_sendmsg2 has m_SendLock, also while it waits for room in the buffer.
Send == /\ Found
        /\ status[at] = "connected" /\ at \notin broken
        /\ snd[at] = Free
        /\ snd' = [snd EXCEPT ![at] = "main"]
        /\ Goto("send", at)
        /\ UNCHANGED <<modeVars, globalVars, gc, gcAt, sockVars, glob, epoll,
                       conn, rcv, acc, worker, handler, doomed>>

SendReturns == /\ main = "send"
               /\ snd' = [snd EXCEPT ![at] = Free]
               /\ Goto("idle", NoSock)
               /\ UNCHANGED <<modeVars, globalVars, gc, gcAt, sockVars, glob,
                              epoll, conn, rcv, acc, worker, handler, doomed>>

\* srt_recvmsg2 has m_RecvLock in either mode ...
Receive == /\ Found
           /\ status[at] = "connected"
           /\ rcv[at] = Free
           /\ rcv' = [rcv EXCEPT ![at] = "main"]
           /\ Goto("receiving", at)
           /\ UNCHANGED <<modeVars, globalVars, gc, gcAt, sockVars, glob, epoll,
                          conn, snd, acc, worker, handler, doomed>>

\* The call that waits on a socket ends once the socket is closed or broken.
SocketDown == at # NoSock /\ (core[at] # "opened" \/ at \in broken)

\* ... but not while it waits on m_RecvDataCond, for a second at a time.
ReceiveWaits == /\ main = "receiving"
                /\ blocking /\ ~SocketDown
                /\ rcv' = [rcv EXCEPT ![at] = Free]
                /\ Goto("recv", at)
                /\ UNCHANGED <<modeVars, globalVars, gc, gcAt, sockVars, glob,
                               epoll, conn, snd, acc, worker, handler, doomed>>

ReceiveWakes == /\ main = "recv"
                /\ rcv[at] = Free
                /\ rcv' = [rcv EXCEPT ![at] = "main"]
                /\ Goto("receiving", at)
                /\ UNCHANGED <<modeVars, globalVars, gc, gcAt, sockVars, glob,
                               epoll, conn, snd, acc, worker, handler, doomed>>

ReceiveReturns == /\ main = "receiving"
                  /\ rcv' = [rcv EXCEPT ![at] = Free]
                  /\ Goto("idle", NoSock)
                  /\ UNCHANGED <<modeVars, globalVars, gc, gcAt, sockVars, glob,
                                 epoll, conn, snd, acc, worker, handler, doomed>>

\* srt_epoll_wait and the other calls on an epoll alone.
Poll == /\ main = "idle"
        /\ ~blocking
        /\ Goto("poll", NoSock)
        /\ UNCHANGED <<modeVars, globalVars, gc, gcAt, sockVars, lockVars, worker,
                       handler, doomed>>

PollReturns == /\ main = "poll"
               /\ Goto("idle", NoSock)
               /\ UNCHANGED <<modeVars, globalVars, gc, gcAt, sockVars, lockVars,
                              worker, handler, doomed>>

\* srt_close of a listener takes it out of the receiving thread, with
\* m_ConnectionLock held; the collector does the rest.
CloseListener == /\ Found
                 /\ Listening(at)
                 /\ conn[at] = Free
                 /\ broken' = broken \cup {at}
                 /\ conn' = [conn EXCEPT ![at] = "main"]
                 /\ Goto("unlisten", at)
                 /\ UNCHANGED <<modeVars, globalVars, gc, gcAt, loc, status, core,
                                parent, queued, glob, epoll, snd, rcv, acc,
                                worker, handler, doomed>>

\* That waits for m_LSLock.  Then those who wait in srt_accept are notified,
\* under m_AcceptLock.
NotListening == /\ main = "unlisten"
                /\ worker # at
                /\ acc[at] = Free
                /\ status' = [status EXCEPT ![at] = "closing"]
                /\ conn' = [conn EXCEPT ![at] = Free]
                /\ acc' = [acc EXCEPT ![at] = "main"]
                /\ Goto("broadcast", at)
                /\ UNCHANGED <<modeVars, globalVars, gc, gcAt, loc, core, broken,
                               parent, queued, glob, epoll, snd, rcv, worker,
                               handler, doomed>>

Broadcast == /\ main = "broadcast"
             /\ acc' = [acc EXCEPT ![at] = Free]
             /\ Goto("idle", NoSock)
             /\ UNCHANGED <<modeVars, globalVars, gc, gcAt, sockVars, glob, epoll,
                            conn, snd, rcv, worker, handler, doomed>>

\* srt_close of another socket: closeInternal, which takes the locks of the
\* socket unless there is nothing to close, and then m_GlobControlLock.
Shutting(s) == IF core[s] = "opened" THEN "closing" ELSE core[s]

Close == /\ Found
         /\ status[at] # "listening"
         /\ status' = [status EXCEPT ![at] = "closing"]
         /\ core' = [core EXCEPT ![at] = Shutting(at)]
         /\ Goto(IF core[at] = "shut" THEN "closed" ELSE "linger", at)
         /\ UNCHANGED <<modeVars, globalVars, gc, gcAt, loc, broken, parent,
                        queued, lockVars, worker, handler, doomed>>

CloseLocks == /\ main = "linger"
              /\ {conn[at], snd[at], rcv[at]} = {Free}
              /\ conn' = [conn EXCEPT ![at] = "main"]
              /\ snd' = [snd EXCEPT ![at] = "main"]
              /\ rcv' = [rcv EXCEPT ![at] = "main"]
              /\ Goto("close", at)
              /\ UNCHANGED <<modeVars, globalVars, gc, gcAt, sockVars, glob,
                             epoll, acc, worker, handler, doomed>>

CloseUnlocks == /\ main = "close"
                /\ core' = [core EXCEPT ![at] = "shut"]
                /\ conn' = [conn EXCEPT ![at] = Free]
                /\ snd' = [snd EXCEPT ![at] = Free]
                /\ rcv' = [rcv EXCEPT ![at] = Free]
                /\ Goto("closed", at)
                /\ UNCHANGED <<modeVars, globalVars, gc, gcAt, loc, status,
                               broken, parent, queued, glob, epoll, acc, worker,
                               handler, doomed>>

\* The socket is moved, unless the collector was faster.
CloseMoves == /\ main = "closed"
              /\ glob = Free
              /\ loc' = [loc EXCEPT ![at] = IF @ = "open" THEN "closed" ELSE @]
              /\ Goto("idle", NoSock)
              /\ UNCHANGED <<modeVars, globalVars, gc, gcAt, status, core, broken,
                             parent, queued, lockVars, worker, handler, doomed>>

-----------------------------------------------------------------------------
(* srt_cleanup, by ~NetworkInit, by ~CUDTUnited and by the handler. *)

\* m_InitLock is with the main thread.
HasInitLock == main \in {"startup", "exit", "exit2"}

\* The counter goes down; the collector is told to stop if that was the last.
LastCleanup == count <= 1 /\ running

CleanupEffect == /\ count' = count - 1
                 /\ stopping' = (stopping \/ LastCleanup)
                 /\ UNCHANGED <<extra, running>>

\* The collector has ended and is joined.
Joined == /\ gc = "ended"
          /\ gc' = "none"
          /\ running' = FALSE
          /\ UNCHANGED <<extra, count, stopping>>

\* ~NetworkInit, at the end of main().
Exit == /\ Idle
        /\ handler # "join"
        /\ CleanupEffect
        /\ Goto(IF LastCleanup THEN "exit" ELSE "static", NoSock)
        /\ UNCHANGED <<modeVars, gc, gcAt, sockVars, lockVars, worker, handler,
                       doomed>>

\* ~CUDTUnited, after main(): once more, if there is still a collector.
StaticExit == /\ main = "static"
              /\ handler # "join"
              /\ IF running THEN CleanupEffect ELSE UNCHANGED globalVars
              /\ Goto(IF LastCleanup THEN "exit2" ELSE "exited", NoSock)
              /\ UNCHANGED <<modeVars, gc, gcAt, sockVars, lockVars, worker,
                             handler, doomed>>

ExitJoins == /\ main \in {"exit", "exit2"}
             /\ Joined
             /\ Goto(IF main = "exit" THEN "static" ELSE "exited", NoSock)
             /\ UNCHANGED <<modeVars, gcAt, sockVars, lockVars, worker, handler,
                            doomed>>

\* OnINT_ForceExit begins, at any moment.
Interrupt == /\ handler = "none"
             /\ main # "exited"
             /\ handler' = "enter"
             /\ doomed' = {s \in Socks : ~Fresh(s)}
             /\ UNCHANGED <<modeVars, globalVars, gc, gcAt, sockVars, lockVars,
                            main, at, worker>>

HandlerCleanup == /\ handler = "enter"
                  /\ ~HasInitLock
                  /\ CleanupEffect
                  /\ handler' = IF LastCleanup THEN "join" ELSE "skipped"
                  /\ UNCHANGED <<modeVars, gc, gcAt, sockVars, lockVars, main, at,
                                 worker, doomed>>

HandlerJoins == /\ handler = "join"
                /\ Joined
                /\ handler' = "cleaned"
                /\ UNCHANGED <<modeVars, gcAt, sockVars, lockVars, main, at,
                               worker, doomed>>

-----------------------------------------------------------------------------
(* The receiving thread of the library. *)

\* A request arrives for a listener: the worker has m_LSLock until it is done.
ConnectionRequest(l) ==
  /\ loc[l] = "open" /\ Listening(l)
  /\ worker = NoSock
  /\ worker' = l
  /\ UNCHANGED <<modeVars, globalVars, gc, gcAt, sockVars, lockVars, main, at,
                 handler, doomed>>

Serving == /\ worker # NoSock
           /\ status[worker] = "listening"
           /\ glob = Free

\* A connection is made, and put into the queue of the listener.
NewConnection(s) ==
  /\ Serving
  /\ Cardinality(Queued(worker)) < Backlog
  /\ Fresh(s)
  /\ acc[worker] = Free /\ epoll = Free
  /\ loc' = [loc EXCEPT ![s] = "open"]
  /\ status' = [status EXCEPT ![s] = "connected"]
  /\ core' = [core EXCEPT ![s] = "opened"]
  /\ parent' = [parent EXCEPT ![s] = worker]
  /\ queued' = queued \cup {s}
  /\ worker' = NoSock
  /\ UNCHANGED <<modeVars, globalVars, gc, gcAt, broken, lockVars, main, at,
                 handler, doomed>>

\* It is refused, or the peer is connected already.
ConnectionRefused ==
  /\ Serving
  /\ worker' = NoSock
  /\ UNCHANGED <<modeVars, globalVars, gc, gcAt, sockVars, lockVars, main, at,
                 handler, doomed>>

\* The answer to a non-blocking srt_connect arrives.
AsyncResponse(s) ==
  /\ ~blocking
  /\ status[s] = "connecting" /\ core[s] = "opened"
  /\ worker = NoSock
  /\ conn[s] = Free
  /\ conn' = [conn EXCEPT ![s] = "worker"]
  /\ worker' = s
  /\ UNCHANGED <<modeVars, globalVars, gc, gcAt, sockVars, glob, epoll, snd, rcv,
                 acc, main, at, handler, doomed>>

AsyncConnected ==
  /\ worker # NoSock /\ status[worker] # "listening"
  /\ epoll = Free
  /\ PostConnect(worker, status[worker])
  /\ worker' = NoSock
  /\ UNCHANGED <<modeVars, globalVars, gc, gcAt, loc, core, broken, parent,
                 queued, glob, epoll, snd, rcv, acc, main, at, handler, doomed>>

\* The peer shut the connection down, or was not heard of for too long.
LinkBreaks(s) ==
  /\ status[s] = "connected" /\ core[s] = "opened"
  /\ worker = NoSock
  /\ epoll = Free
  /\ broken' = broken \cup {s}
  /\ core' = [core EXCEPT ![s] = "closing"]
  /\ UNCHANGED <<modeVars, globalVars, gc, gcAt, loc, status, parent, queued,
                 lockVars, main, at, worker, handler, doomed>>

-----------------------------------------------------------------------------
(* The garbage collector. *)

\* The main thread is in a call that has a pointer to the socket ...
Uses(s) == at = s /\ main \in MainPC \ {"idle", "wild"}

\* ... and waits on a condition of it, which cannot be destroyed meanwhile.
WaitsOn(s) == at = s /\ main \in {"accept", "recv"}

\* A connection is taken out of the queue of its listener under m_AcceptLock.
CanUnqueue(s) == parent[s] # NoSock => acc[parent[s]] = Free

\* checkBrokenSockets moves a broken socket to m_ClosedSockets.  A listener has
\* three seconds to be closed.
CheckBroken(s) ==
  /\ gc \in {"loop", "sweep"} /\ gcAt = NoSock
  /\ glob = Free
  /\ loc[s] = "open" /\ s \in broken /\ status[s] # "listening"
  /\ CanUnqueue(s)
  /\ loc' = [loc EXCEPT ![s] = "closed"]
  /\ status' = [status EXCEPT ![s] = "closing"]
  /\ queued' = queued \ {s}
  /\ UNCHANGED <<modeVars, globalVars, gc, gcAt, core, broken, parent, lockVars,
                 main, at, worker, handler, doomed>>

\* A socket that was closed a second ago is removed; calls that found it before
\* are over by then.  At the exit it is removed at once.  The connections that
\* wait for being accepted are closed with their listener, under m_AcceptLock;
\* the m_ListenSocket of the others names no socket any more.
RemoveSocket(s) ==
  /\ gc \in {"loop", "sweep"} /\ gcAt = NoSock
  /\ glob = Free /\ epoll = Free /\ acc[s] = Free
  /\ loc[s] = "closed"
  /\ gc = "loop" => ~Uses(s) /\ worker # s
  /\ gcAt' = s
  /\ loc' = [t \in Socks |-> CASE t = s -> "erased"
                               [] t \in Queued(s) -> "closed"
                               [] OTHER -> loc[t]]
  /\ status' = [t \in Socks |-> IF t \in Queued(s) THEN "closing" ELSE status[t]]
  /\ core' = [t \in Socks |-> IF t \in Queued(s) THEN "shut" ELSE core[t]]
  /\ broken' = broken \cup Queued(s)
  /\ parent' = [t \in Socks |-> IF parent[t] = s THEN NoSock ELSE parent[t]]
  /\ queued' = queued \ Queued(s)
  /\ UNCHANGED <<modeVars, globalVars, gc, lockVars, main, at, worker, handler,
                 doomed>>

\* Faulty variant: the locks of the socket are not taken.
CanCloseUnlocked(s) == core[s] # "none"

\* closeInternal takes m_EPollLock, the locks of the socket, and m_LSLock of a
\* listener.
CanClose(s) == \/ core[s] = "shut"
               \/ /\ {epoll, conn[s], snd[s], rcv[s]} = {Free}
                  /\ worker # s

\* The socket is closed and deleted.  A call that still has a pointer to it goes
\* on with freed memory.
DeleteSocket ==
  /\ gc \in {"loop", "sweep"} /\ gcAt # NoSock
  /\ glob = Free
  /\ CanClose(gcAt)
  /\ ~WaitsOn(gcAt) /\ worker # gcAt
  /\ Forget(gcAt)
  /\ gcAt' = NoSock
  /\ IF Uses(gcAt) THEN main' = "wild" /\ at' = NoSock /\ epoll' = Free
                   ELSE UNCHANGED <<main, at, epoll>>
  /\ UNCHANGED <<modeVars, globalVars, gc, queued, glob, worker, handler>>

\* The loop ends, and m_GlobControlLock is taken to close all sockets.
GlobalExit ==
  /\ gc = "loop" /\ gcAt = NoSock
  /\ stopping
  /\ glob = Free
  /\ glob' = "gc"
  /\ gc' = "break"
  /\ UNCHANGED <<modeVars, globalVars, gcAt, sockVars, epoll, conn, snd, rcv, acc,
                 main, at, worker, handler, doomed>>

\* Faulty variant: m_bBroken and m_bClosing are not set before the wait.
BreakSocketSilently(s) ==
  /\ gc = "break" /\ gcAt = NoSock
  /\ loc[s] = "open"
  /\ gcAt' = s
  /\ UNCHANGED <<modeVars, globalVars, gc, sockVars, lockVars, main, at, worker,
                 handler, doomed>>

\* breakSocket_LOCKED on one socket after the other, ...
BreakSocket(s) ==
  /\ gc = "break" /\ gcAt = NoSock
  /\ loc[s] = "open"
  /\ gcAt' = s
  /\ broken' = broken \cup {s}
  /\ core' = [core EXCEPT ![s] = Shutting(s)]
  /\ UNCHANGED <<modeVars, globalVars, gc, loc, status, parent, queued, lockVars,
                 main, at, worker, handler, doomed>>

\* ... each of which is closed when its locks are free, and moved.
BreakDone ==
  /\ gc = "break" /\ gcAt # NoSock
  /\ CanClose(gcAt) /\ CanUnqueue(gcAt)
  /\ gcAt' = NoSock
  /\ core' = [core EXCEPT ![gcAt] = "shut"]
  /\ status' = [status EXCEPT ![gcAt] = "closing"]
  /\ loc' = [loc EXCEPT ![gcAt] = "closed"]
  /\ queued' = queued \ {gcAt}
  /\ UNCHANGED <<modeVars, globalVars, gc, broken, parent, lockVars, main, at,
                 worker, handler, doomed>>

AllBroken ==
  /\ gc = "break" /\ gcAt = NoSock
  /\ \A s \in Socks : loc[s] # "open"
  /\ glob' = Free
  /\ gc' = "sweep"
  /\ UNCHANGED <<modeVars, globalVars, gcAt, sockVars, epoll, conn, snd, rcv, acc,
                 main, at, worker, handler, doomed>>

\* Faulty variant: the thread ends without another look at m_ClosedSockets.
GCEndsEarly ==
  /\ gc = "sweep" /\ gcAt = NoSock
  /\ glob = Free
  /\ gc' = "ended"
  /\ UNCHANGED <<modeVars, globalVars, gcAt, sockVars, lockVars, main, at,
                 worker, handler, doomed>>

\* The thread ends when m_ClosedSockets is empty.
GCEnds ==
  /\ gc = "sweep" /\ gcAt = NoSock
  /\ glob = Free
  /\ \A s \in Socks : loc[s] # "closed"
  /\ gc' = "ended"
  /\ UNCHANGED <<modeVars, globalVars, gcAt, sockVars, lockVars, main, at,
                 worker, handler, doomed>>

-----------------------------------------------------------------------------
Calls == \/ Startup \/ AutoStartup \/ StartupReturns \/ Unlock \/ CallFails
         \/ EPollLocks \/ EPollUnlocks \/ Option \/ OptionReturns
         \/ Listen \/ ListenReturns
         \/ Connect \/ ConnectOk \/ ConnectFails \/ ConnectEnds
         \/ Accept \/ AcceptEnds \/ AcceptWakes \/ Send \/ SendReturns
         \/ Receive \/ ReceiveWaits \/ ReceiveWakes \/ ReceiveReturns
         \/ Poll \/ PollReturns
         \/ CloseListener \/ NotListening \/ Broadcast
         \/ Close \/ CloseLocks \/ CloseUnlocks \/ CloseMoves
         \/ Exit \/ StaticExit \/ ExitJoins
         \/ \E s \in Socks : NewSocket(s) \/ Locate(s)

WorkerEnds == \/ AsyncConnected \/ ConnectionRefused
              \/ \E s \in Socks : NewConnection(s)

Worker == \/ WorkerEnds
          \/ \E s \in Socks : \/ AsyncResponse(s) \/ LinkBreaks(s)
                              \/ ConnectionRequest(s)

Collector == \/ DeleteSocket \/ GlobalExit \/ BreakDone \/ AllBroken \/ GCEnds
             \/ \E s \in Socks : CheckBroken(s) \/ RemoveSocket(s) \/ BreakSocket(s)

Handler == Interrupt \/ HandlerCleanup \/ HandlerJoins

Next == Calls \/ Worker \/ Collector \/ Handler

\* What the main thread does on its own once it has begun a call.
Proceeds == \/ StartupReturns \/ Unlock
            \/ Found /\ Calls
            \/ OptionReturns \/ ListenReturns
            \/ ConnectOk \/ ConnectFails \/ ConnectEnds
            \/ AcceptEnds
            \/ ReceiveWaits \/ ReceiveWakes \/ ReceiveReturns
            \/ SocketDown /\ SendReturns
            \/ EPollUnlocks
            \/ NotListening \/ Broadcast
            \/ CloseLocks \/ CloseUnlocks \/ CloseMoves
            \/ ExitJoins

\* What the collector does at its exit, but for the sockets.
Exits == \/ GlobalExit \/ AllBroken \/ GCEnds \/ BreakDone
         \/ \E s \in Socks : BreakSocket(s)

\* Threads go on, and get a lock that is free again and again.  A
\* handshake ends (it times out); a wait of a call on a socket that is up may
\* last forever.
Fairness ==
  /\ WF_vars(Proceeds)
  /\ SF_vars(WorkerEnds)
  /\ SF_vars(Exits)
  /\ SF_vars(DeleteSocket \/ \E s \in Socks : RemoveSocket(s))
  /\ WF_vars(HandlerCleanup \/ HandlerJoins)

Spec == Init /\ [][Next]_vars /\ Fairness

-----------------------------------------------------------------------------
(* Properties. *)

\* Every variable has its type, and a thread owns a lock exactly where the code
\* of CUDTUnited and CUDT is in the scope of that lock.
TypeOK == /\ blocking \in BOOLEAN /\ onMain \in BOOLEAN
          /\ extra \in 0..MaxStarts /\ count \in Int
          /\ running \in BOOLEAN /\ stopping \in BOOLEAN
          /\ gc \in {"loop", "break", "sweep", "ended", "none"}
          /\ gcAt \in Socks \cup {NoSock}
          /\ loc \in [Socks -> {"none", "open", "closed", "erased"}]
          /\ status \in [Socks -> Status]
          /\ core \in [Socks -> {"shut", "opened", "closing"}]
          /\ broken \subseteq Socks
          /\ parent \in [Socks -> Socks \cup {NoSock}] /\ queued \subseteq Socks
          /\ glob \in Owner /\ epoll \in {Free, "main"}
          /\ conn \in [Socks -> Owner] /\ snd \in [Socks -> Owner]
          /\ rcv \in [Socks -> Owner] /\ acc \in [Socks -> Owner]
          /\ main \in MainPC /\ at \in Socks \cup {NoSock}
          /\ worker \in Socks \cup {NoSock}
          /\ handler \in {"none", "enter", "join", "cleaned", "skipped"}
          /\ doomed \subseteq Socks
          /\ glob = "main" <=> main \in {"create", "locate"}
          /\ glob = "gc" <=> gc = "break"
          /\ epoll = "main" => main \in {"poll", "use", "linger"}
          /\ \A s \in Socks :
               /\ conn[s] = "worker" <=> worker = s /\ status[s] # "listening"
               /\ conn[s] = "main" <=> /\ at = s
                                       /\ main \in {"listen", "option", "connect",
                                                   "post", "unlisten", "close"}
               /\ snd[s] = "main" <=> at = s /\ main \in {"option", "send", "close"}
               /\ rcv[s] = "main" <=> /\ at = s
                                      /\ main \in {"option", "receiving", "close"}
               /\ acc[s] = "main" <=> at = s /\ main \in {"accepting", "broadcast"}
               /\ loc[s] = "erased" <=> gcAt = s /\ gc # "break"

\* The collector has m_GlobControlLock and waits for m_ConnectionLock or m_LSLock
\* of a socket, whose owner waits for m_GlobControlLock.
CrossWait == /\ gc = "break" /\ gcAt # NoSock
             /\ core[gcAt] # "shut"
             /\ \/ worker = gcAt
                \/ main = "post" /\ at = gcAt

\* The main thread stands still with something that the cleanup needs: with
\* m_InitLock or m_GlobControlLock, with m_EPollLock while there is a socket to
\* be closed, with a lock of an open socket, with m_AcceptLock of a socket that is
\* still to be removed, or in a wait on a socket.
Frozen == /\ onMain
          /\ \/ handler = "enter" /\ HasInitLock
             \/ /\ handler = "join"
                /\ \/ glob = "main"
                   \/ /\ epoll = "main"
                      /\ \E s \in doomed : loc[s] # "erased" \/ core[s] # "shut"
                   \/ \E s \in Socks :
                        \/ core[s] # "shut" /\ "main" \in {conn[s], snd[s], rcv[s]}
                        \/ acc[s] = "main" /\ loc[s] # "erased"
                        \/ WaitsOn(s)

\* A thread waits in srt_accept for a listener that is closed already.
NotTold == main = "accept" /\ status[at] # "listening"

\* The handler sets force_break first: the loops of the tool make only finitely
\* many sockets after that.
ToolStops == <>[][handler # "none" => ~\E s \in Socks : NewSocket(s)]_vars

\* The signal handler returns (OnINT_ForceExit, srt_cleanup), except in the three
\* cases in which it can hang.
CleanupReturns ==
  ToolStops => (handler = "enter" ~> \/ handler \in {"cleaned", "skipped"}
                                     \/ CrossWait \/ Frozen \/ NotTold)

\* The first two of them are no delays: nothing ends them.
HangsForGood == [][CrossWait \/ Frozen => (CrossWait \/ Frozen)']_vars

\* A cleanup by the handler that joined the collector has deleted every socket of
\* before the interrupt, also those the tool has lost.  One that returned early
\* (api.cpp:287) leaves some only if an SrtNode has called srt_startup; the calls
\* at the exit delete these too, the connections that an SrtNode does not close
\* among them, unless there were more than the two nodes of the forward command.
NothingSurvives ==
  /\ handler = "cleaned" => doomed = {}
  /\ handler = "skipped" /\ doomed # {}
       => extra > 0 /\ (main = "exited" => extra > 2)

\* The process is left with a running collector, whose mutexes ~CUDTUnited has
\* destroyed, only if there were at least two calls of srt_startup too many.
CollectorJoined == main = "exited" /\ gc # "none" => extra >= 2

=============================================================================
