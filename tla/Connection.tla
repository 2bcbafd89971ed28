----------------------------- MODULE Connection -----------------------------
(***************************************************************************)
(* common_run and create_connection (misc.cpp) with the SRT sockets that   *)
(* they create, reuse and drop (socket::srt, socket::srt_group).           *)
(*                                                                         *)
(* One thread runs the loop of common_run.  It meets the clock, the peers  *)
(* (which connect, refuse and go away) and the handler of SIGINT, which    *)
(* sets force_break and then calls srt_cleanup.  A socket object owns one  *)
(* SRT handle; it is destroyed, and its handle closed, when the last       *)
(* shared_ptr to it goes: listeningSock, conn, or the stats writer's.      *)
(*                                                                         *)
(* Times are relative: how long until nextReconnect, how long since tnow.  *)
(***************************************************************************)
EXTENDS Integers, FiniteSets

CONSTANTS Handles,     \* bound: the handles that may be open at one time
          NoSock,      \* a null shared_ptr
          Configs,     \* the command lines of interest
          Period,      \* seconds(1), in ticks of the clock
          MaxOrphans   \* bound: handles left open by a failed constructor

ASSUME ConnectionAssumption ==
  /\ NoSock \notin Handles
  /\ Period \in Nat \ {0}
  /\ MaxOrphans \in Nat
  /\ Configs \subseteq [kind : {"srt", "group", "udp", "bad"},
                        listens : BOOLEAN, reconnect : BOOLEAN,
                        closeListener : BOOLEAN, writeStats : BOOLEAN]

VARIABLES
  cfg,         \* the URLs (kind and mode) and the flags
  pc,          \* where common_run is
  until,       \* the time left until nextReconnect, 0 when it is past
  slept,       \* the time since tnow was read, while sleeping
  sock,        \* the state of each SRT handle
  listener,    \* listeningSock
  conn,        \* conn
  stats,       \* the connections the stats writer holds
  intr,        \* the signal handler: "none", "flag" (force_break), "clean"
  orphans,     \* history: handles left open with nobody to close them
  threw,       \* history: processingFn has thrown
  age1, age2   \* history: the time since the last attempt to connect began,
               \* and since the one before it; Period stands for longer

vars == <<cfg, pc, until, slept, sock, listener, conn, stats, intr, orphans,
          threw, age1, age2>>

PC == {"start", "sample", "sleep", "create", "listen", "establish",
       "register", "process", "unregister", "test", "returned"}

\* A handle is "none" (unused), "open" (created and bound), "listening",
\* "connected", or "closed" while an object still refers to it.
SockState == {"none", "open", "listening", "connected", "closed"}

forceBreak == intr # "none"

Init == /\ cfg \in Configs
        /\ pc = "start"
        /\ until = 0
        /\ slept = 0
        /\ sock = [h \in Handles |-> "none"]
        /\ listener = NoSock
        /\ conn = NoSock
        /\ stats = {}
        /\ intr = "none"
        /\ orphans = {}
        /\ threw = FALSE
        /\ age1 = Period
        /\ age2 = Period

\* The handles after the shared_ptrs have become l, c and st: ~srt and
\* ~srt_group close the handle of an object that nobody holds any more.
Reap(s, l, c, st) ==
  [h \in Handles |-> IF h \in {l, c} \cup st \cup orphans THEN s[h] ELSE "none"]

\* An exception out of create_connection or processingFn: conn, if any, is
\* destroyed with the try block, listeningSock becomes l.
Throw(s, l) == /\ pc' = "test"
               /\ listener' = l
               /\ conn' = NoSock
               /\ sock' = Reap(s, l, NoSock, stats)

-----------------------------------------------------------------------------
(* common_run: set up, and the pacing of the attempts. *)

Start == /\ pc = "start"
         /\ \/ pc' = "sample"
            \/ cfg.writeStats /\ pc' = "returned"   \* no stats file
         /\ UNCHANGED <<cfg, until, slept, sock, listener, conn, stats, intr,
                        orphans, threw, age1, age2>>

BeginAttempt == /\ pc' = "create"
                /\ age1' = 0
                /\ age2' = age1

\* tnow = now(); if (tnow < nextReconnect) sleep_until(nextReconnect).
Sample == /\ pc = "sample"
          /\ slept' = 0
          /\ \/ /\ until > 0
                /\ pc' = "sleep"
                /\ UNCHANGED <<until, age1, age2>>
             \/ /\ until = 0
                /\ BeginAttempt
                /\ until' = Period
          /\ UNCHANGED <<cfg, sock, listener, conn, stats, intr, orphans, threw>>

\* Faulty variant: the sleep is skipped.
WakeEarly == /\ pc = "sleep"
             /\ BeginAttempt
             /\ until' = Period - slept
             /\ UNCHANGED <<cfg, slept, sock, listener, conn, stats, intr,
                            orphans, threw>>

\* Faulty variant: the second is counted on from what was slept.
WakeLate == /\ pc = "sleep"
            /\ until = 0
            /\ BeginAttempt
            /\ until' = Period + slept
            /\ UNCHANGED <<cfg, slept, sock, listener, conn, stats, intr,
                           orphans, threw>>

\* nextReconnect = tnow + seconds(1), where tnow was read before the sleep.
Wake == /\ pc = "sleep"
        /\ until = 0
        /\ BeginAttempt
        /\ until' = Period - slept
        /\ UNCHANGED <<cfg, slept, sock, listener, conn, stats, intr, orphans,
                       threw>>

-----------------------------------------------------------------------------
(* create_connection. *)

Reuse == /\ pc = "create"
         /\ cfg.kind \in {"srt", "group"}
         /\ listener # NoSock
         /\ pc' = IF cfg.kind = "group" /\ cfg.listens THEN "listen"
                                                       ELSE "establish"
         /\ UNCHANGED <<cfg, until, slept, sock, listener, conn, stats, intr,
                        orphans, threw, age1, age2>>

\* make_shared<socket::srt>(uri) or make_shared<socket::srt_group>(urls).
Construct(h) ==
  /\ pc = "create"
  /\ cfg.kind \in {"srt", "group"}
  /\ listener = NoSock
  /\ sock[h] = "none"
  /\ sock' = [sock EXCEPT ![h] = "open"]
  /\ listener' = h
  /\ pc' = IF cfg.listens THEN "listen" ELSE "establish"
  /\ UNCHANGED <<cfg, until, slept, conn, stats, intr, orphans, threw, age1,
                 age2>>

\* The constructor throws: there is no handle, or bind failed and closed it.
\* Without bonding, or with an unknown protocol, there is nothing but this.
ConstructFails ==
  /\ pc = "create"
  /\ listener = NoSock
  /\ Throw(sock, NoSock)
  /\ UNCHANGED <<cfg, until, slept, stats, intr, orphans, threw, age1, age2>>

\* The constructor throws after srt_create_socket (an option is rejected, the
\* epoll fails, a member of the group cannot be set up): no destructor runs.
ConstructOrphans(h) ==
  /\ pc = "create"
  /\ cfg.kind \in {"srt", "group"}
  /\ listener = NoSock
  /\ sock[h] = "none"
  /\ Cardinality(orphans) < MaxOrphans
  /\ orphans' = orphans \cup {h}
  /\ pc' = "test"
  /\ sock' = [sock EXCEPT ![h] = "open"]
  /\ UNCHANGED <<cfg, until, slept, listener, conn, stats, intr, threw, age1,
                 age2>>

\* make_shared<socket::udp>(uri): connected as soon as it exists.
ConstructUdp(h) ==
  /\ pc = "create"
  /\ cfg.kind = "udp"
  /\ sock[h] = "none"
  /\ sock' = [sock EXCEPT ![h] = "connected"]
  /\ conn' = h
  /\ pc' = "register"
  /\ UNCHANGED <<cfg, until, slept, listener, stats, intr, orphans, threw,
                 age1, age2>>

ListenOk ==
  /\ pc = "listen"
  /\ sock[listener] \in {"open", "listening"}
  /\ sock' = [sock EXCEPT ![listener] = "listening"]
  /\ pc' = "establish"
  /\ UNCHANGED <<cfg, until, slept, listener, conn, stats, intr, orphans,
                 threw, age1, age2>>

\* listen() throws, outside the try block: listeningSock keeps the object.
\* srt::listen has closed the handle when srt_listen failed, and not when
\* configure_post did; srt_group::listen closes nothing.
ListenFails ==
  /\ pc = "listen"
  /\ \E st \in IF cfg.kind = "srt" THEN {"closed", "listening"}
                                   ELSE {"open", "listening"} :
       Throw([sock EXCEPT ![listener] = IF @ = "closed" THEN @ ELSE st],
             listener)
  /\ UNCHANGED <<cfg, until, slept, stats, intr, orphans, threw, age1, age2>>

\* accept() returns a new connection.
Accept(h) ==
  /\ pc = "establish"
  /\ cfg.listens
  /\ sock[listener] = "listening"
  /\ sock[h] = "none"
  /\ sock' = [sock EXCEPT ![h] = "connected"]
  /\ conn' = h
  /\ pc' = "register"
  /\ UNCHANGED <<cfg, until, slept, listener, stats, intr, orphans, threw,
                 age1, age2>>

\* connect() returns the object itself, and listeningSock lets go of it.
Connect ==
  /\ pc = "establish"
  /\ ~cfg.listens
  /\ sock[listener] = "open"
  /\ sock' = [sock EXCEPT ![listener] = "connected"]
  /\ conn' = listener
  /\ listener' = NoSock
  /\ pc' = "register"
  /\ UNCHANGED <<cfg, until, slept, stats, intr, orphans, threw, age1, age2>>

\* Faulty variant: the catch block of create_connection is missing.
EstablishFailsKeeps ==
  /\ pc = "establish"
  /\ Throw(sock, listener)
  /\ UNCHANGED <<cfg, until, slept, stats, intr, orphans, threw, age1, age2>>

\* accept() or connect() throws.  For a single socket create_connection drops
\* listeningSock; a group stays there, be it of listeners or of callers.
EstablishFails ==
  /\ pc = "establish"
  /\ Throw(sock, IF cfg.kind = "srt" THEN NoSock ELSE listener)
  /\ UNCHANGED <<cfg, until, slept, stats, intr, orphans, threw, age1, age2>>

\* accept() throws after srt_accept: the accepted handle is nobody's.
AcceptOrphans(h) ==
  /\ pc = "establish"
  /\ cfg.listens
  /\ sock[listener] = "listening"
  /\ sock[h] = "none"
  /\ Cardinality(orphans) < MaxOrphans
  /\ orphans' = orphans \cup {h}
  /\ LET l == IF cfg.kind = "srt" THEN NoSock ELSE listener
     IN  /\ listener' = l
         /\ sock' = [Reap(sock, l, NoSock, stats) EXCEPT ![h] = "connected"]
  /\ pc' = "test"
  /\ UNCHANGED <<cfg, until, slept, conn, stats, intr, threw, age1, age2>>

-----------------------------------------------------------------------------
(* common_run: the connection is used. *)

\* Faulty variant: close_listener is forgotten.
RegisterKeeps ==
  /\ pc = "register"
  /\ stats' = IF cfg.writeStats THEN stats \cup {conn} ELSE stats
  /\ pc' = "process"
  /\ UNCHANGED <<cfg, until, slept, sock, listener, conn, intr, orphans, threw,
                 age1, age2>>

\* if (closeListener) listeningSock.reset(); stats->add_socket(conn).
Register ==
  /\ pc = "register"
  /\ listener' = IF cfg.closeListener THEN NoSock ELSE listener
  /\ stats' = IF cfg.writeStats THEN stats \cup {conn} ELSE stats
  /\ sock' = Reap(sock, listener', conn, stats')
  /\ pc' = "process"
  /\ UNCHANGED <<cfg, until, slept, conn, intr, orphans, threw, age1, age2>>

\* processingFn(conn, forceBreak) comes back: the work is done, the peer is
\* gone, or forceBreak is set.
ProcessReturns ==
  /\ pc = "process"
  /\ pc' = "unregister"
  /\ UNCHANGED <<cfg, until, slept, sock, listener, conn, stats, intr, orphans,
                 threw, age1, age2>>

\* processingFn throws: remove_socket is skipped.
ProcessThrows ==
  /\ pc = "process"
  /\ ~threw
  /\ threw' = TRUE
  /\ Throw(sock, listener)
  /\ UNCHANGED <<cfg, until, slept, stats, intr, orphans, age1, age2>>

\* Faulty variant: the stats writer keeps the connection.
UnregisterKeeps ==
  /\ pc = "unregister"
  /\ conn' = NoSock
  /\ sock' = Reap(sock, listener, NoSock, stats)
  /\ pc' = "test"
  /\ UNCHANGED <<cfg, until, slept, listener, stats, intr, orphans, threw, age1,
                 age2>>

\* stats->remove_socket(conn->id()), and conn goes with the try block.
Unregister ==
  /\ pc = "unregister"
  /\ stats' = stats \ {conn}
  /\ conn' = NoSock
  /\ sock' = Reap(sock, listener, NoSock, stats')
  /\ pc' = "test"
  /\ UNCHANGED <<cfg, until, slept, listener, intr, orphans, threw, age1, age2>>

\* Faulty variant: the loop looks at reconnect alone.
TestReconnectOnly ==
  /\ pc = "test"
  /\ \/ /\ cfg.reconnect
        /\ pc' = "sample"
        /\ UNCHANGED <<sock, listener, stats>>
     \/ /\ ~cfg.reconnect
        /\ pc' = "returned"
        /\ listener' = NoSock
        /\ stats' = {}
        /\ sock' = Reap(sock, NoSock, NoSock, {})
  /\ UNCHANGED <<cfg, until, slept, conn, intr, orphans, threw, age1, age2>>

\* while (reconnect && !forceBreak); on return the locals are destroyed.
Test ==
  /\ pc = "test"
  /\ \/ /\ cfg.reconnect /\ ~forceBreak
        /\ pc' = "sample"
        /\ UNCHANGED <<sock, listener, stats>>
     \/ /\ ~cfg.reconnect \/ forceBreak
        /\ pc' = "returned"
        /\ listener' = NoSock
        /\ stats' = {}
        /\ sock' = Reap(sock, NoSock, NoSock, {})
  /\ UNCHANGED <<cfg, until, slept, conn, intr, orphans, threw, age1, age2>>

-----------------------------------------------------------------------------
(* The environment. *)

\* OnINT_ForceExit: force_break = true.
Interrupt ==
  /\ intr = "none"
  /\ intr' = "flag"
  /\ UNCHANGED <<cfg, pc, until, slept, sock, listener, conn, stats, orphans,
                 threw, age1, age2>>

\* OnINT_ForceExit: srt_cleanup(), which closes every SRT socket.  A socket
\* created later starts the library again.
Cleanup ==
  /\ intr = "flag"
  /\ intr' = "clean"
  /\ sock' = IF cfg.kind = "udp" THEN sock
             ELSE [h \in Handles |-> CASE sock[h] = "none"  -> "none"
                                       [] h \in orphans     -> "none"
                                       [] OTHER             -> "closed"]
  /\ orphans' = IF cfg.kind = "udp" THEN orphans ELSE {}
  /\ UNCHANGED <<cfg, pc, until, slept, listener, conn, stats, threw, age1,
                 age2>>

Older(x) == IF x < Period THEN x + 1 ELSE x

Tick == /\ until' = IF until > 0 THEN until - 1 ELSE 0
        /\ slept' = IF pc = "sleep" THEN Older(slept) ELSE slept
        /\ age1' = Older(age1)
        /\ age2' = Older(age2)
        /\ UNCHANGED <<cfg, pc, sock, listener, conn, stats, intr, orphans,
                       threw>>

Run == \/ Start \/ Sample \/ Wake
       \/ Reuse \/ ConstructFails \/ ListenOk \/ ListenFails
       \/ Connect \/ EstablishFails
       \/ Register \/ ProcessReturns \/ ProcessThrows \/ Unregister \/ Test
       \/ \E h \in Handles : \/ Construct(h) \/ ConstructOrphans(h)
                             \/ ConstructUdp(h)
                             \/ Accept(h) \/ AcceptOrphans(h)

Next == Run \/ Interrupt \/ Cleanup \/ Tick

Spec == Init /\ [][Next]_vars

-----------------------------------------------------------------------------
(* Fairness. *)

\* The steps that common_run takes in bounded time whatever the peers do.
\* srt_connect has a timeout; accept() has none, but fails on a closed handle;
\* processingFn ends when forceBreak is set and its socket is closed, which
\* srt_cleanup does not do to a UDP socket.
Prompt == \/ Start \/ Sample \/ Wake \/ Reuse \/ ListenOk \/ ListenFails
          \/ Register \/ Unregister \/ Test
          \/ \E h \in Handles : Construct(h) \/ ConstructUdp(h)
          \/ ConstructFails
          \/ Connect
          \/ /\ pc = "establish"
             /\ ~cfg.listens \/ sock[listener] # "listening"
             /\ EstablishFails
          \/ (forceBreak /\ cfg.kind # "udp" /\ ProcessReturns)

\* The loop stands still while the handler runs on its thread, and the handler
\* need not come back: see CleanupReturns in Library.
Fairness == WF_vars(intr # "flag" /\ Prompt) /\ WF_vars(Tick)

LiveSpec == Spec /\ Fairness

-----------------------------------------------------------------------------
(* Properties. *)

\* Every variable has its type: the times stay within a second, and each
\* shared_ptr is null or refers to a handle.
TypeOK == /\ cfg \in Configs
          /\ pc \in PC
          /\ until \in 0 .. Period
          /\ slept \in 0 .. Period
          /\ sock \in [Handles -> SockState]
          /\ listener \in Handles \cup {NoSock}
          /\ conn \in Handles \cup {NoSock}
          /\ stats \subseteq Handles
          /\ intr \in {"none", "flag", "clean"}
          /\ orphans \subseteq Handles
          /\ threw \in BOOLEAN
          /\ age1 \in 0 .. Period
          /\ age2 \in 0 .. Period

\* nextReconnect limits the rate of the attempts.  Two attempts in a row may
\* be closer than a second, because tnow is read before the sleep, but an
\* attempt and the next but one are always a second apart.
AttemptsPaced == [][pc' = "create" /\ pc # "create" => age2 >= Period]_vars

\* close_listener (misc.hpp: "whether to close a listener once a connection has
\* been established"): no listening socket is open while the connection is in
\* use, whichever way the connection came about.
NoListenerWhileProcessing ==
  cfg.closeListener /\ pc = "process" =>
    \A h \in Handles : sock[h] # "listening"

\* The stats writer holds no connection but the current one, so that it keeps
\* no socket open beyond its use; only an exception out of processingFn, which
\* skips remove_socket, can leave one behind.
StatsHoldsCurrent == stats \subseteq {conn} \/ threw

\* A socket object whose handle is closed does not stay in listeningSock: the
\* attempt that finds it so fails, drops it, and the next starts afresh, unless
\* the signal handler keeps the thread.
DeadListenerDropped ==
  (listener # NoSock /\ sock[listener] = "closed")
    ~> listener = NoSock \/ intr = "flag"

\* accept() on a listener that was created after srt_cleanup had run.
WaitsOnLateListener == /\ pc = "establish"
                       /\ cfg.listens
                       /\ intr = "clean"
                       /\ sock[listener] = "listening"

\* processingFn waits on a UDP socket, which the handler leaves open.
WaitsOnUdp == cfg.kind = "udp" /\ pc = "process"

\* When the handler of an interrupt has come back, common_run returns, except that
\* it may wait for a client on a listener made after the handler closed all
\* sockets, or for UDP data.
InterruptStopsUnlessLate ==
  intr = "clean" ~> (pc = "returned" \/ WaitsOnLateListener \/ WaitsOnUdp)

\* srtdatacontroller-app.cpp says of --handle-sigint "Handle Ctrl+C interrupt":
\* when its handler has come back, common_run returns.
InterruptEndsRun == intr = "clean" ~> pc = "returned"
=============================================================================
