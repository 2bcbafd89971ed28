---------------------------- MODULE LibraryProofs ----------------------------
(***************************************************************************)
(* The safety properties of Library hold for any set of sockets, any       *)
(* backlog and any number of nodes, wherever the signal handler runs.      *)
(***************************************************************************)
EXTENDS Library, TLAPS

\* The two halves of TypeOK: the types of the variables ...
Types == /\ blocking \in BOOLEAN /\ onMain \in BOOLEAN
         /\ extra \in 0..MaxStarts /\ count \in Int
         /\ running \in BOOLEAN /\ stopping \in BOOLEAN
         /\ gc \in {"loop", "break", "sweep", "ended", "none"}
         /\ gcAt \in Socks \cup {NoSock}
         /\ loc \in [Socks -> {"none", "open", "closed", "erased"}]
         /\ status \in [Socks -> Status]
         /\ core \in [Socks -> {"shut", "opened", "closing"}]
         /\ broken \subseteq Socks
         /\ parent \in [Socks -> Socks \cup {NoSock}] /\ queued \subseteq Socks
         /\ glob \in Owner /\ epoll \in {Free, "main"}
         /\ conn \in [Socks -> Owner] /\ snd \in [Socks -> Owner]
         /\ rcv \in [Socks -> Owner] /\ acc \in [Socks -> Owner]
         /\ main \in MainPC /\ at \in Socks \cup {NoSock}
         /\ worker \in Socks \cup {NoSock}
         /\ handler \in {"none", "enter", "join", "cleaned", "skipped"}
         /\ doomed \subseteq Socks

\* ... and the scopes of the locks.
Scopes == /\ glob = "main" <=> main \in {"create", "locate"}
          /\ glob = "gc" <=> gc = "break"
          /\ epoll = "main" => main \in {"poll", "use", "linger"}
          /\ \A s \in Socks :
               /\ conn[s] = "worker" <=> worker = s /\ status[s] # "listening"
               /\ conn[s] = "main" <=> /\ at = s
                                       /\ main \in {"listen", "option", "connect",
                                                   "post", "unlisten", "close"}
               /\ snd[s] = "main" <=> at = s /\ main \in {"option", "send", "close"}
               /\ rcv[s] = "main" <=> /\ at = s
                                      /\ main \in {"option", "receiving", "close"}
               /\ acc[s] = "main" <=> at = s /\ main \in {"accepting", "broadcast"}
               /\ loc[s] = "erased" <=> gcAt = s /\ gc # "break"

\* The places at which the main thread has a pointer to a socket.
UsesSocket == {"create", "locate", "use", "option", "listen", "connect", "post",
               "accepting", "accept", "send", "receiving", "recv", "unlisten",
               "broadcast", "linger", "close", "closed"}

\* That socket exists, and its status shows what has been begun with it; it stays
\* where it is while srt_listen or srt_connect has its m_ConnectionLock.
UseInv == /\ at # NoSock <=> main \in UsesSocket
          /\ main \in {"connect", "post"} => blocking
          /\ main = "listen" => status[at] = "init"
          /\ main \in {"connect", "post"} => status[at] = "connecting"
          /\ main \in {"linger", "close", "closed"}
               => status[at] \in {"connected", "closing"}
          /\ main \in {"listen", "connect", "post"}
               => loc[at] = "open" /\ core[at] # "shut"
          /\ at # NoSock => loc[at] # "none"

\* What is known of a socket from where it is: a fresh one was never used, a
\* listener is open and not shut, and the worker has a listener or a socket on
\* which connect was called without waiting.
SockInv ==
  \A s \in Socks :
    /\ conn[s] # "gc" /\ {snd[s], rcv[s], acc[s]} \subseteq {Free, "main"}
    /\ loc[s] = "none" => /\ status[s] = "init" /\ core[s] = "shut"
                         /\ s \notin broken
    /\ status[s] = "listening" => loc[s] = "open" /\ core[s] # "shut"
    /\ status[s] = "init" => loc[s] \in {"none", "open"}
    /\ status[s] \in {"init", "connecting"} /\ s \in broken /\ loc[s] = "open"
         => gc = "break" /\ gcAt = s
    /\ worker = s => /\ loc[s] # "none"
                     /\ \/ status[s] = "listening"
                        \/ ~blocking /\ status[s] \in {"connecting", "closing"}

\* A queued connection is with nobody.  A socket that another one names as its
\* listener is still known.
QueueInv ==
  \A s \in Socks :
    /\ s \in queued => /\ loc[s] = "open" /\ status[s] = "connected"
                       /\ at # s /\ worker # s
    /\ parent[s] # NoSock => loc[parent[s]] \in {"open", "closed"}

\* Who told the collector to stop waits for its end, and nobody else does.
RunInv == /\ running <=> gc # "none"
          /\ gc \in {"break", "sweep", "ended"} => stopping
          /\ gc \in {"ended", "none"} => gcAt = NoSock
          /\ running /\ stopping
               => main \in {"exit", "exit2"} \/ handler = "join"
          /\ handler = "join" => running /\ stopping /\ ~HasInitLock
          /\ main \in {"exit", "exit2"} => running /\ stopping

\* m_iInstanceCount is at most the calls of srt_startup not undone yet: one less
\* after each of the cleanups of the exit, and one less after an early return of
\* the handler's.
CountInv == /\ running => count <= 1 + extra
            /\ ~running \/ stopping => count <= 0
            /\ main = "static" /\ running => count <= extra
            /\ main = "exited" /\ running => count <= extra - 1
            /\ handler = "skipped" /\ doomed # {} =>
                 /\ count <= extra
                 /\ main = "static" => count <= extra - 1
                 /\ main = "exited" => extra > 2

\* The sockets of before the interrupt go through m_ClosedSockets, and so do all
\* sockets when the collector stops without an interrupt.
DoomInv ==
  /\ \A s \in doomed : loc[s] # "none"
  /\ gc = "sweep" => \A s \in doomed : loc[s] # "open"
  /\ gc \in {"ended", "none"} => doomed = {}
  /\ handler = "none" =>
       /\ doomed = {}
       /\ gc = "sweep" => \A s \in Socks : loc[s] # "open"
       /\ gc \in {"ended", "none"} => \A s \in Socks : loc[s] = "none"

\* The collector removes no socket in use before it stops.  When the handler runs
\* on top of the main thread, the socket which that thread uses is one of before
\* the interrupt, and is not being removed if the thread has m_EPollLock.
FrozenInv ==
  /\ gc = "loop" /\ gcAt # NoSock => at # gcAt
  /\ onMain /\ handler \in {"enter", "join"} =>
       /\ at # NoSock => at \in doomed
       /\ epoll = "main" /\ gcAt # NoSock /\ gc # "break" => at # gcAt

IInv == /\ TypeOK
        /\ UseInv
        /\ SockInv
        /\ QueueInv
        /\ RunInv
        /\ CountInv
        /\ DoomInv
        /\ FrozenInv
        /\ NothingSurvives
        /\ CollectorJoined

-----------------------------------------------------------------------------

\* Each action preserves the types.
LEMMA TypesStep == Types /\ UseInv /\ [Next]_vars => Types'
<1> SUFFICES ASSUME Types, UseInv, [Next]_vars PROVE Types'
  OBVIOUS
<1> USE LibraryAssumption DEF LibraryAssumption, Types, UsesSocket, UseInv,
    modeVars, globalVars, sockVars, lockVars, Goto, Free, Owner, Waiting,
    MainPC, Status
<1>1. CASE Startup
  <2>1. running' \in BOOLEAN /\ stopping' \in BOOLEAN
    BY <1>1 DEF Startup, StartupEffect
  <2> QED
    BY <1>1, <2>1 DEF Startup, StartupEffect
<1>2. CASE AutoStartup
  <2>1. running' \in BOOLEAN /\ stopping' \in BOOLEAN
    BY <1>2 DEF AutoStartup, StartupEffect, Idle
  <2> QED
    BY <1>2, <2>1 DEF AutoStartup, StartupEffect, Idle
<1>3. CASE StartupReturns
  BY <1>3 DEF StartupReturns
<1>4. CASE Unlock
  BY <1>4 DEF Unlock
<1>5. CASE CallFails
  BY <1>5 DEF CallFails, Found
<1>6. CASE EPollLocks
  BY <1>6 DEF EPollLocks, MainRuns
<1>7. CASE EPollUnlocks
  BY <1>7 DEF EPollUnlocks, MainRuns
<1>8. CASE Option
  BY <1>8 DEF Option, Found
<1>9. CASE OptionReturns
  BY <1>9 DEF OptionReturns
<1>10. CASE Listen
  BY <1>10 DEF Listen, Found
<1>11. CASE ListenReturns
  BY <1>11 DEF ListenReturns
<1>12. CASE Connect
  BY <1>12 DEF Connect, Found
<1>13. CASE ConnectOk
  BY <1>13 DEF ConnectOk
<1>14. CASE ConnectFails
  BY <1>14 DEF ConnectFails
<1>15. CASE ConnectEnds
  BY <1>15 DEF ConnectEnds, PostConnect
<1>16. CASE Accept
  BY <1>16 DEF Accept, Found
<1>17. CASE AcceptEnds
  BY <1>17 DEF AcceptEnds, Queued, Listening
<1>18. CASE AcceptWakes
  BY <1>18 DEF AcceptWakes
<1>19. CASE Send
  BY <1>19 DEF Send, Found
<1>20. CASE SendReturns
  BY <1>20 DEF SendReturns
<1>21. CASE Receive
  BY <1>21 DEF Receive, Found
<1>22. CASE ReceiveWaits
  BY <1>22 DEF ReceiveWaits
<1>23. CASE ReceiveWakes
  BY <1>23 DEF ReceiveWakes
<1>24. CASE ReceiveReturns
  BY <1>24 DEF ReceiveReturns
<1>25. CASE Poll
  BY <1>25 DEF Poll
<1>26. CASE PollReturns
  BY <1>26 DEF PollReturns
<1>27. CASE CloseListener
  BY <1>27 DEF CloseListener, Found, Listening
<1>28. CASE NotListening
  BY <1>28 DEF NotListening
<1>29. CASE Broadcast
  BY <1>29 DEF Broadcast
<1>30. CASE Close
  BY <1>30 DEF Close, Shutting, Found
<1>31. CASE CloseLocks
  BY <1>31 DEF CloseLocks
<1>32. CASE CloseUnlocks
  BY <1>32 DEF CloseUnlocks
<1>33. CASE CloseMoves
  BY <1>33 DEF CloseMoves
<1>34. CASE Exit
  BY <1>34 DEF Exit, CleanupEffect, LastCleanup, Idle
<1>35. CASE StaticExit
  BY <1>35 DEF StaticExit, CleanupEffect, LastCleanup
<1>36. CASE ExitJoins
  <2>1. running' \in BOOLEAN /\ stopping' \in BOOLEAN
    BY <1>36 DEF ExitJoins, Joined
  <2> QED
    BY <1>36, <2>1 DEF ExitJoins, Joined
<1>37. CASE AsyncConnected
  BY <1>37 DEF AsyncConnected, PostConnect
<1>38. CASE ConnectionRefused
  BY <1>38 DEF ConnectionRefused, Serving
<1>39. CASE DeleteSocket
  BY <1>39 DEF DeleteSocket, Forget, CanClose, Uses, WaitsOn
<1>40. CASE GlobalExit
  BY <1>40 DEF GlobalExit
<1>41. CASE BreakDone
  BY <1>41 DEF BreakDone, CanClose, CanUnqueue
<1>42. CASE AllBroken
  BY <1>42 DEF AllBroken
<1>43. CASE GCEnds
  BY <1>43 DEF GCEnds
<1>44. CASE Interrupt
  BY <1>44 DEF Interrupt, Fresh
<1>45. CASE HandlerCleanup
  BY <1>45 DEF HandlerCleanup, CleanupEffect, LastCleanup
<1>46. CASE HandlerJoins
  <2>1. running' \in BOOLEAN /\ stopping' \in BOOLEAN
    BY <1>46 DEF HandlerJoins, Joined
  <2> QED
    BY <1>46, <2>1 DEF HandlerJoins, Joined
<1>47. ASSUME NEW s \in Socks, NewSocket(s) PROVE Types'
  BY <1>47 DEF NewSocket, Fresh, Idle
<1>48. ASSUME NEW s \in Socks, Locate(s) PROVE Types'
  BY <1>48 DEF Locate, Idle
<1>49. ASSUME NEW s \in Socks, NewConnection(s) PROVE Types'
  BY <1>49 DEF NewConnection, Serving, Queued, Fresh
<1>50. ASSUME NEW s \in Socks, AsyncResponse(s) PROVE Types'
  BY <1>50 DEF AsyncResponse
<1>51. ASSUME NEW s \in Socks, LinkBreaks(s) PROVE Types'
  BY <1>51 DEF LinkBreaks
<1>52. ASSUME NEW s \in Socks, ConnectionRequest(s) PROVE Types'
  BY <1>52 DEF ConnectionRequest, Listening
<1>53. ASSUME NEW s \in Socks, CheckBroken(s) PROVE Types'
  BY <1>53 DEF CheckBroken, CanUnqueue
<1>54. ASSUME NEW s \in Socks, RemoveSocket(s) PROVE Types'
  BY <1>54 DEF RemoveSocket, Queued, Uses
<1>55. ASSUME NEW s \in Socks, BreakSocket(s) PROVE Types'
  BY <1>55 DEF BreakSocket, Shutting
<1>56. CASE UNCHANGED vars
  BY <1>56 DEF vars
<1> QED
  BY <1>1, <1>2, <1>3, <1>4, <1>5, <1>6, <1>7, <1>8, <1>9, <1>10, <1>11, <1>12,
      <1>13, <1>14, <1>15, <1>16, <1>17, <1>18, <1>19, <1>20, <1>21, <1>22,
      <1>23, <1>24, <1>25, <1>26, <1>27, <1>28, <1>29, <1>30, <1>31, <1>32,
      <1>33, <1>34, <1>35, <1>36, <1>37, <1>38, <1>39, <1>40, <1>41, <1>42,
      <1>43, <1>44, <1>45, <1>46, <1>47, <1>48, <1>49, <1>50, <1>51, <1>52,
      <1>53, <1>54, <1>55, <1>56 DEF Next, Calls, Worker, WorkerEnds,
      Collector, Handler

\* Each action preserves the ownership of the locks.
LEMMA ScopesStep == Types /\ Scopes /\ UseInv /\ SockInv /\ QueueInv /\ RunInv
    /\ [Next]_vars => Scopes'
<1> SUFFICES ASSUME Types, Scopes, UseInv, SockInv, QueueInv, RunInv,
    [Next]_vars PROVE Scopes'
  OBVIOUS
<1> USE LibraryAssumption DEF LibraryAssumption, Types, Scopes, UsesSocket,
    UseInv, SockInv, QueueInv, RunInv, HasInitLock, modeVars, globalVars,
    sockVars, lockVars, Goto, Free, Owner, Waiting, MainPC, Status
<1>1. CASE Startup
  BY <1>1 DEF Startup, StartupEffect
<1>2. CASE AutoStartup
  BY <1>2 DEF AutoStartup, StartupEffect, Idle
<1>3. CASE StartupReturns
  BY <1>3 DEF StartupReturns
<1>4. CASE Unlock
  BY <1>4 DEF Unlock
<1>5. CASE CallFails
  BY <1>5 DEF CallFails, Found
<1>6. CASE EPollLocks
  BY <1>6 DEF EPollLocks, MainRuns
<1>7. CASE EPollUnlocks
  BY <1>7 DEF EPollUnlocks, MainRuns
<1>8. CASE Option
  BY <1>8 DEF Option, Found
<1>9. CASE OptionReturns
  BY <1>9 DEF OptionReturns
<1>10. CASE Listen
  BY <1>10 DEF Listen, Found
<1>11. CASE ListenReturns
  BY <1>11 DEF ListenReturns
<1>12. CASE Connect
  BY <1>12 DEF Connect, Found
<1>13. CASE ConnectOk
  BY <1>13 DEF ConnectOk
<1>14. CASE ConnectFails
  BY <1>14 DEF ConnectFails
<1>15. CASE ConnectEnds
  BY <1>15 DEF ConnectEnds, PostConnect
<1>16. CASE Accept
  BY <1>16 DEF Accept, Found
<1>17. CASE AcceptEnds
  BY <1>17 DEF AcceptEnds, Queued, Listening
<1>18. CASE AcceptWakes
  BY <1>18 DEF AcceptWakes
<1>19. CASE Send
  BY <1>19 DEF Send, Found
<1>20. CASE SendReturns
  BY <1>20 DEF SendReturns
<1>21. CASE Receive
  BY <1>21 DEF Receive, Found
<1>22. CASE ReceiveWaits
  BY <1>22 DEF ReceiveWaits
<1>23. CASE ReceiveWakes
  BY <1>23 DEF ReceiveWakes
<1>24. CASE ReceiveReturns
  BY <1>24 DEF ReceiveReturns
<1>25. CASE Poll
  BY <1>25 DEF Poll
<1>26. CASE PollReturns
  BY <1>26 DEF PollReturns
<1>27. CASE CloseListener
  BY <1>27 DEF CloseListener, Found, Listening
<1>28. CASE NotListening
  BY <1>28 DEF NotListening
<1>29. CASE Broadcast
  BY <1>29 DEF Broadcast
<1>30. CASE Close
  BY <1>30 DEF Close, Shutting, Found
<1>31. CASE CloseLocks
  BY <1>31 DEF CloseLocks
<1>32. CASE CloseUnlocks
  BY <1>32 DEF CloseUnlocks
<1>33. CASE CloseMoves
  BY <1>33 DEF CloseMoves
<1>34. CASE Exit
  BY <1>34 DEF Exit, CleanupEffect, LastCleanup, Idle
<1>35. CASE StaticExit
  BY <1>35 DEF StaticExit, CleanupEffect, LastCleanup
<1>36. CASE ExitJoins
  BY <1>36 DEF ExitJoins, Joined
<1>37. CASE AsyncConnected
  BY <1>37 DEF AsyncConnected, PostConnect
<1>38. CASE ConnectionRefused
  BY <1>38 DEF ConnectionRefused, Serving
<1>39. CASE DeleteSocket
  BY <1>39 DEF DeleteSocket, Forget, CanClose, Uses, WaitsOn
<1>40. CASE GlobalExit
  BY <1>40 DEF GlobalExit
<1>41. CASE BreakDone
  BY <1>41 DEF BreakDone, CanClose, CanUnqueue
<1>42. CASE AllBroken
  BY <1>42 DEF AllBroken
<1>43. CASE GCEnds
  BY <1>43 DEF GCEnds
<1>44. CASE Interrupt
  BY <1>44 DEF Interrupt, Fresh
<1>45. CASE HandlerCleanup
  BY <1>45 DEF HandlerCleanup, CleanupEffect, LastCleanup
<1>46. CASE HandlerJoins
  BY <1>46 DEF HandlerJoins, Joined
<1>47. ASSUME NEW s \in Socks, NewSocket(s) PROVE Scopes'
  BY <1>47 DEF NewSocket, Fresh, Idle
<1>48. ASSUME NEW s \in Socks, Locate(s) PROVE Scopes'
  BY <1>48 DEF Locate, Idle
<1>49. ASSUME NEW s \in Socks, NewConnection(s) PROVE Scopes'
  BY <1>49 DEF NewConnection, Serving, Queued, Fresh
<1>50. ASSUME NEW s \in Socks, AsyncResponse(s) PROVE Scopes'
  BY <1>50 DEF AsyncResponse
<1>51. ASSUME NEW s \in Socks, LinkBreaks(s) PROVE Scopes'
  BY <1>51 DEF LinkBreaks
<1>52. ASSUME NEW s \in Socks, ConnectionRequest(s) PROVE Scopes'
  BY <1>52 DEF ConnectionRequest, Listening
<1>53. ASSUME NEW s \in Socks, CheckBroken(s) PROVE Scopes'
  BY <1>53 DEF CheckBroken, CanUnqueue
<1>54. ASSUME NEW s \in Socks, RemoveSocket(s) PROVE Scopes'
  BY <1>54 DEF RemoveSocket, Queued, Uses
<1>55. ASSUME NEW s \in Socks, BreakSocket(s) PROVE Scopes'
  BY <1>55 DEF BreakSocket, Shutting
<1>56. CASE UNCHANGED vars
  BY <1>56 DEF vars
<1> QED
  BY <1>1, <1>2, <1>3, <1>4, <1>5, <1>6, <1>7, <1>8, <1>9, <1>10, <1>11, <1>12,
      <1>13, <1>14, <1>15, <1>16, <1>17, <1>18, <1>19, <1>20, <1>21, <1>22,
      <1>23, <1>24, <1>25, <1>26, <1>27, <1>28, <1>29, <1>30, <1>31, <1>32,
      <1>33, <1>34, <1>35, <1>36, <1>37, <1>38, <1>39, <1>40, <1>41, <1>42,
      <1>43, <1>44, <1>45, <1>46, <1>47, <1>48, <1>49, <1>50, <1>51, <1>52,
      <1>53, <1>54, <1>55, <1>56 DEF Next, Calls, Worker, WorkerEnds,
      Collector, Handler

\* Each action preserves what is known of the socket in use.
LEMMA UseStep == Types /\ Scopes /\ UseInv /\ SockInv /\ QueueInv /\ RunInv /\
    [Next]_vars => UseInv'
<1> SUFFICES ASSUME Types, Scopes, UseInv, SockInv, QueueInv, RunInv,
    [Next]_vars PROVE UseInv'
  OBVIOUS
<1> USE LibraryAssumption DEF LibraryAssumption, Types, Scopes, UsesSocket,
    UseInv, SockInv, QueueInv, RunInv, modeVars, globalVars, sockVars,
    lockVars, Goto, Free, Owner, Waiting, MainPC, Status
<1>1. CASE Startup
  BY <1>1 DEF Startup, StartupEffect
<1>2. CASE AutoStartup
  BY <1>2 DEF AutoStartup, StartupEffect, Idle
<1>3. CASE StartupReturns
  BY <1>3 DEF StartupReturns
<1>4. CASE Unlock
  BY <1>4 DEF Unlock
<1>5. CASE CallFails
  BY <1>5 DEF CallFails, Found
<1>6. CASE EPollLocks
  BY <1>6 DEF EPollLocks, MainRuns
<1>7. CASE EPollUnlocks
  BY <1>7 DEF EPollUnlocks, MainRuns
<1>8. CASE Option
  BY <1>8 DEF Option, Found
<1>9. CASE OptionReturns
  BY <1>9 DEF OptionReturns
<1>10. CASE Listen
  BY <1>10 DEF Listen, Found
<1>11. CASE ListenReturns
  BY <1>11 DEF ListenReturns
<1>12. CASE Connect
  BY <1>12 DEF Connect, Found
<1>13. CASE ConnectOk
  BY <1>13 DEF ConnectOk
<1>14. CASE ConnectFails
  BY <1>14 DEF ConnectFails
<1>15. CASE ConnectEnds
  BY <1>15 DEF ConnectEnds, PostConnect
<1>16. CASE Accept
  BY <1>16 DEF Accept, Found
<1>17. CASE AcceptEnds
  BY <1>17 DEF AcceptEnds, Queued, Listening
<1>18. CASE AcceptWakes
  BY <1>18 DEF AcceptWakes
<1>19. CASE Send
  BY <1>19 DEF Send, Found
<1>20. CASE SendReturns
  BY <1>20 DEF SendReturns
<1>21. CASE Receive
  BY <1>21 DEF Receive, Found
<1>22. CASE ReceiveWaits
  BY <1>22 DEF ReceiveWaits
<1>23. CASE ReceiveWakes
  BY <1>23 DEF ReceiveWakes
<1>24. CASE ReceiveReturns
  BY <1>24 DEF ReceiveReturns
<1>25. CASE Poll
  BY <1>25 DEF Poll
<1>26. CASE PollReturns
  BY <1>26 DEF PollReturns
<1>27. CASE CloseListener
  BY <1>27 DEF CloseListener, Found, Listening
<1>28. CASE NotListening
  BY <1>28 DEF NotListening
<1>29. CASE Broadcast
  BY <1>29 DEF Broadcast
<1>30. CASE Close
  BY <1>30 DEF Close, Shutting, Found
<1>31. CASE CloseLocks
  BY <1>31 DEF CloseLocks
<1>32. CASE CloseUnlocks
  BY <1>32 DEF CloseUnlocks
<1>33. CASE CloseMoves
  BY <1>33 DEF CloseMoves
<1>34. CASE Exit
  BY <1>34 DEF Exit, CleanupEffect, LastCleanup, Idle
<1>35. CASE StaticExit
  BY <1>35 DEF StaticExit, CleanupEffect, LastCleanup
<1>36. CASE ExitJoins
  BY <1>36 DEF ExitJoins, Joined
<1>37. CASE AsyncConnected
  BY <1>37 DEF AsyncConnected, PostConnect
<1>38. CASE ConnectionRefused
  BY <1>38 DEF ConnectionRefused, Serving
<1>39. CASE DeleteSocket
  BY <1>39 DEF DeleteSocket, Forget, CanClose, Uses, WaitsOn
<1>40. CASE GlobalExit
  BY <1>40 DEF GlobalExit
<1>41. CASE BreakDone
  BY <1>41 DEF BreakDone, CanClose, CanUnqueue
<1>42. CASE AllBroken
  BY <1>42 DEF AllBroken
<1>43. CASE GCEnds
  BY <1>43 DEF GCEnds
<1>44. CASE Interrupt
  BY <1>44 DEF Interrupt, Fresh
<1>45. CASE HandlerCleanup
  BY <1>45 DEF HandlerCleanup, CleanupEffect, LastCleanup
<1>46. CASE HandlerJoins
  BY <1>46 DEF HandlerJoins, Joined
<1>47. ASSUME NEW s \in Socks, NewSocket(s) PROVE UseInv'
  BY <1>47 DEF NewSocket, Fresh, Idle
<1>48. ASSUME NEW s \in Socks, Locate(s) PROVE UseInv'
  BY <1>48 DEF Locate, Idle
<1>49. ASSUME NEW s \in Socks, NewConnection(s) PROVE UseInv'
  BY <1>49 DEF NewConnection, Serving, Queued, Fresh
<1>50. ASSUME NEW s \in Socks, AsyncResponse(s) PROVE UseInv'
  BY <1>50 DEF AsyncResponse
<1>51. ASSUME NEW s \in Socks, LinkBreaks(s) PROVE UseInv'
  BY <1>51 DEF LinkBreaks
<1>52. ASSUME NEW s \in Socks, ConnectionRequest(s) PROVE UseInv'
  BY <1>52 DEF ConnectionRequest, Listening
<1>53. ASSUME NEW s \in Socks, CheckBroken(s) PROVE UseInv'
  BY <1>53 DEF CheckBroken, CanUnqueue
<1>54. ASSUME NEW s \in Socks, RemoveSocket(s) PROVE UseInv'
  BY <1>54 DEF RemoveSocket, Queued, Uses
<1>55. ASSUME NEW s \in Socks, BreakSocket(s) PROVE UseInv'
  BY <1>55 DEF BreakSocket, Shutting
<1>56. CASE UNCHANGED vars
  BY <1>56 DEF vars
<1> QED
  BY <1>1, <1>2, <1>3, <1>4, <1>5, <1>6, <1>7, <1>8, <1>9, <1>10, <1>11, <1>12,
      <1>13, <1>14, <1>15, <1>16, <1>17, <1>18, <1>19, <1>20, <1>21, <1>22,
      <1>23, <1>24, <1>25, <1>26, <1>27, <1>28, <1>29, <1>30, <1>31, <1>32,
      <1>33, <1>34, <1>35, <1>36, <1>37, <1>38, <1>39, <1>40, <1>41, <1>42,
      <1>43, <1>44, <1>45, <1>46, <1>47, <1>48, <1>49, <1>50, <1>51, <1>52,
      <1>53, <1>54, <1>55, <1>56 DEF Next, Calls, Worker, WorkerEnds,
      Collector, Handler

\* Each action preserves what is known of every socket from where it is.
LEMMA SockStep == Types /\ Scopes /\ UseInv /\ SockInv /\ QueueInv /\ RunInv /\
    [Next]_vars => SockInv'
<1> SUFFICES ASSUME Types, Scopes, UseInv, SockInv, QueueInv, RunInv,
    [Next]_vars PROVE SockInv'
  OBVIOUS
<1> USE LibraryAssumption DEF LibraryAssumption, Types, Scopes, UsesSocket,
    UseInv, SockInv, QueueInv, RunInv, HasInitLock, modeVars, globalVars,
    sockVars, lockVars, Goto, Free, Owner, Waiting, MainPC, Status
<1>1. CASE Startup
  BY <1>1 DEF Startup, StartupEffect
<1>2. CASE AutoStartup
  BY <1>2 DEF AutoStartup, StartupEffect, Idle
<1>3. CASE StartupReturns
  BY <1>3 DEF StartupReturns
<1>4. CASE Unlock
  BY <1>4 DEF Unlock
<1>5. CASE CallFails
  BY <1>5 DEF CallFails, Found
<1>6. CASE EPollLocks
  BY <1>6 DEF EPollLocks, MainRuns
<1>7. CASE EPollUnlocks
  BY <1>7 DEF EPollUnlocks, MainRuns
<1>8. CASE Option
  BY <1>8 DEF Option, Found
<1>9. CASE OptionReturns
  BY <1>9 DEF OptionReturns
<1>10. CASE Listen
  BY <1>10 DEF Listen, Found
<1>11. CASE ListenReturns
  BY <1>11 DEF ListenReturns
<1>12. CASE Connect
  BY <1>12 DEF Connect, Found
<1>13. CASE ConnectOk
  BY <1>13 DEF ConnectOk
<1>14. CASE ConnectFails
  BY <1>14 DEF ConnectFails
<1>15. CASE ConnectEnds
  BY <1>15 DEF ConnectEnds, PostConnect
<1>16. CASE Accept
  BY <1>16 DEF Accept, Found
<1>17. CASE AcceptEnds
  BY <1>17 DEF AcceptEnds, Queued, Listening
<1>18. CASE AcceptWakes
  BY <1>18 DEF AcceptWakes
<1>19. CASE Send
  BY <1>19 DEF Send, Found
<1>20. CASE SendReturns
  BY <1>20 DEF SendReturns
<1>21. CASE Receive
  BY <1>21 DEF Receive, Found
<1>22. CASE ReceiveWaits
  BY <1>22 DEF ReceiveWaits
<1>23. CASE ReceiveWakes
  BY <1>23 DEF ReceiveWakes
<1>24. CASE ReceiveReturns
  BY <1>24 DEF ReceiveReturns
<1>25. CASE Poll
  BY <1>25 DEF Poll
<1>26. CASE PollReturns
  BY <1>26 DEF PollReturns
<1>27. CASE CloseListener
  BY <1>27 DEF CloseListener, Found, Listening
<1>28. CASE NotListening
  BY <1>28 DEF NotListening
<1>29. CASE Broadcast
  BY <1>29 DEF Broadcast
<1>30. CASE Close
  BY <1>30 DEF Close, Shutting, Found
<1>31. CASE CloseLocks
  BY <1>31 DEF CloseLocks
<1>32. CASE CloseUnlocks
  BY <1>32 DEF CloseUnlocks
<1>33. CASE CloseMoves
  BY <1>33 DEF CloseMoves
<1>34. CASE Exit
  BY <1>34 DEF Exit, CleanupEffect, LastCleanup, Idle
<1>35. CASE StaticExit
  BY <1>35 DEF StaticExit, CleanupEffect, LastCleanup
<1>36. CASE ExitJoins
  BY <1>36 DEF ExitJoins, Joined
<1>37. CASE AsyncConnected
  BY <1>37 DEF AsyncConnected, PostConnect
<1>38. CASE ConnectionRefused
  BY <1>38 DEF ConnectionRefused, Serving
<1>39. CASE DeleteSocket
  BY <1>39 DEF DeleteSocket, Forget, CanClose, Uses, WaitsOn
<1>40. CASE GlobalExit
  BY <1>40 DEF GlobalExit
<1>41. CASE BreakDone
  BY <1>41 DEF BreakDone, CanClose, CanUnqueue
<1>42. CASE AllBroken
  BY <1>42 DEF AllBroken
<1>43. CASE GCEnds
  BY <1>43 DEF GCEnds
<1>44. CASE Interrupt
  BY <1>44 DEF Interrupt, Fresh
<1>45. CASE HandlerCleanup
  BY <1>45 DEF HandlerCleanup, CleanupEffect, LastCleanup
<1>46. CASE HandlerJoins
  BY <1>46 DEF HandlerJoins, Joined
<1>47. ASSUME NEW s \in Socks, NewSocket(s) PROVE SockInv'
  BY <1>47 DEF NewSocket, Fresh, Idle
<1>48. ASSUME NEW s \in Socks, Locate(s) PROVE SockInv'
  BY <1>48 DEF Locate, Idle
<1>49. ASSUME NEW s \in Socks, NewConnection(s) PROVE SockInv'
  BY <1>49 DEF NewConnection, Serving, Queued, Fresh
<1>50. ASSUME NEW s \in Socks, AsyncResponse(s) PROVE SockInv'
  BY <1>50 DEF AsyncResponse
<1>51. ASSUME NEW s \in Socks, LinkBreaks(s) PROVE SockInv'
  BY <1>51 DEF LinkBreaks
<1>52. ASSUME NEW s \in Socks, ConnectionRequest(s) PROVE SockInv'
  BY <1>52 DEF ConnectionRequest, Listening
<1>53. ASSUME NEW s \in Socks, CheckBroken(s) PROVE SockInv'
  BY <1>53 DEF CheckBroken, CanUnqueue
<1>54. ASSUME NEW s \in Socks, RemoveSocket(s) PROVE SockInv'
  BY <1>54 DEF RemoveSocket, Queued, Uses
<1>55. ASSUME NEW s \in Socks, BreakSocket(s) PROVE SockInv'
  BY <1>55 DEF BreakSocket, Shutting
<1>56. CASE UNCHANGED vars
  BY <1>56 DEF vars
<1> QED
  BY <1>1, <1>2, <1>3, <1>4, <1>5, <1>6, <1>7, <1>8, <1>9, <1>10, <1>11, <1>12,
      <1>13, <1>14, <1>15, <1>16, <1>17, <1>18, <1>19, <1>20, <1>21, <1>22,
      <1>23, <1>24, <1>25, <1>26, <1>27, <1>28, <1>29, <1>30, <1>31, <1>32,
      <1>33, <1>34, <1>35, <1>36, <1>37, <1>38, <1>39, <1>40, <1>41, <1>42,
      <1>43, <1>44, <1>45, <1>46, <1>47, <1>48, <1>49, <1>50, <1>51, <1>52,
      <1>53, <1>54, <1>55, <1>56 DEF Next, Calls, Worker, WorkerEnds,
      Collector, Handler

\* Each action preserves what is known of connections and their listeners.
LEMMA QueueStep == Types /\ Scopes /\ UseInv /\ SockInv /\ QueueInv /\
    [Next]_vars => QueueInv'
<1> SUFFICES ASSUME Types, Scopes, UseInv, SockInv, QueueInv, [Next]_vars PROVE
    QueueInv'
  OBVIOUS
<1> USE LibraryAssumption DEF LibraryAssumption, Types, Scopes, UsesSocket,
    UseInv, SockInv, QueueInv, modeVars, globalVars, sockVars, lockVars, Goto,
    Free, Owner, Waiting, MainPC, Status
<1>1. CASE Startup
  BY <1>1 DEF Startup, StartupEffect
<1>2. CASE AutoStartup
  BY <1>2 DEF AutoStartup, StartupEffect, Idle
<1>3. CASE StartupReturns
  BY <1>3 DEF StartupReturns
<1>4. CASE Unlock
  BY <1>4 DEF Unlock
<1>5. CASE CallFails
  BY <1>5 DEF CallFails, Found
<1>6. CASE EPollLocks
  BY <1>6 DEF EPollLocks, MainRuns
<1>7. CASE EPollUnlocks
  BY <1>7 DEF EPollUnlocks, MainRuns
<1>8. CASE Option
  BY <1>8 DEF Option, Found
<1>9. CASE OptionReturns
  BY <1>9 DEF OptionReturns
<1>10. CASE Listen
  BY <1>10 DEF Listen, Found
<1>11. CASE ListenReturns
  BY <1>11 DEF ListenReturns
<1>12. CASE Connect
  BY <1>12 DEF Connect, Found
<1>13. CASE ConnectOk
  BY <1>13 DEF ConnectOk
<1>14. CASE ConnectFails
  BY <1>14 DEF ConnectFails
<1>15. CASE ConnectEnds
  BY <1>15 DEF ConnectEnds, PostConnect
<1>16. CASE Accept
  BY <1>16 DEF Accept, Found
<1>17. CASE AcceptEnds
  BY <1>17 DEF AcceptEnds, Queued, Listening
<1>18. CASE AcceptWakes
  BY <1>18 DEF AcceptWakes
<1>19. CASE Send
  BY <1>19 DEF Send, Found
<1>20. CASE SendReturns
  BY <1>20 DEF SendReturns
<1>21. CASE Receive
  BY <1>21 DEF Receive, Found
<1>22. CASE ReceiveWaits
  BY <1>22 DEF ReceiveWaits
<1>23. CASE ReceiveWakes
  BY <1>23 DEF ReceiveWakes
<1>24. CASE ReceiveReturns
  BY <1>24 DEF ReceiveReturns
<1>25. CASE Poll
  BY <1>25 DEF Poll
<1>26. CASE PollReturns
  BY <1>26 DEF PollReturns
<1>27. CASE CloseListener
  BY <1>27 DEF CloseListener, Found, Listening
<1>28. CASE NotListening
  BY <1>28 DEF NotListening
<1>29. CASE Broadcast
  BY <1>29 DEF Broadcast
<1>30. CASE Close
  BY <1>30 DEF Close, Shutting, Found
<1>31. CASE CloseLocks
  BY <1>31 DEF CloseLocks
<1>32. CASE CloseUnlocks
  BY <1>32 DEF CloseUnlocks
<1>33. CASE CloseMoves
  BY <1>33 DEF CloseMoves
<1>34. CASE Exit
  BY <1>34 DEF Exit, CleanupEffect, LastCleanup, Idle
<1>35. CASE StaticExit
  BY <1>35 DEF StaticExit, CleanupEffect, LastCleanup
<1>36. CASE ExitJoins
  BY <1>36 DEF ExitJoins, Joined
<1>37. CASE AsyncConnected
  BY <1>37 DEF AsyncConnected, PostConnect
<1>38. CASE ConnectionRefused
  BY <1>38 DEF ConnectionRefused, Serving
<1>39. CASE DeleteSocket
  BY <1>39 DEF DeleteSocket, Forget, CanClose, Uses, WaitsOn
<1>40. CASE GlobalExit
  BY <1>40 DEF GlobalExit
<1>41. CASE BreakDone
  BY <1>41 DEF BreakDone, CanClose, CanUnqueue
<1>42. CASE AllBroken
  BY <1>42 DEF AllBroken
<1>43. CASE GCEnds
  BY <1>43 DEF GCEnds
<1>44. CASE Interrupt
  BY <1>44 DEF Interrupt, Fresh
<1>45. CASE HandlerCleanup
  BY <1>45 DEF HandlerCleanup, CleanupEffect, LastCleanup
<1>46. CASE HandlerJoins
  BY <1>46 DEF HandlerJoins, Joined
<1>47. ASSUME NEW s \in Socks, NewSocket(s) PROVE QueueInv'
  BY <1>47 DEF NewSocket, Fresh, Idle
<1>48. ASSUME NEW s \in Socks, Locate(s) PROVE QueueInv'
  BY <1>48 DEF Locate, Idle
<1>49. ASSUME NEW s \in Socks, NewConnection(s) PROVE QueueInv'
  BY <1>49 DEF NewConnection, Serving, Queued, Fresh
<1>50. ASSUME NEW s \in Socks, AsyncResponse(s) PROVE QueueInv'
  BY <1>50 DEF AsyncResponse
<1>51. ASSUME NEW s \in Socks, LinkBreaks(s) PROVE QueueInv'
  BY <1>51 DEF LinkBreaks
<1>52. ASSUME NEW s \in Socks, ConnectionRequest(s) PROVE QueueInv'
  BY <1>52 DEF ConnectionRequest, Listening
<1>53. ASSUME NEW s \in Socks, CheckBroken(s) PROVE QueueInv'
  BY <1>53 DEF CheckBroken, CanUnqueue
<1>54. ASSUME NEW s \in Socks, RemoveSocket(s) PROVE QueueInv'
  BY <1>54 DEF RemoveSocket, Queued, Uses
<1>55. ASSUME NEW s \in Socks, BreakSocket(s) PROVE QueueInv'
  BY <1>55 DEF BreakSocket, Shutting
<1>56. CASE UNCHANGED vars
  BY <1>56 DEF vars
<1> QED
  BY <1>1, <1>2, <1>3, <1>4, <1>5, <1>6, <1>7, <1>8, <1>9, <1>10, <1>11, <1>12,
      <1>13, <1>14, <1>15, <1>16, <1>17, <1>18, <1>19, <1>20, <1>21, <1>22,
      <1>23, <1>24, <1>25, <1>26, <1>27, <1>28, <1>29, <1>30, <1>31, <1>32,
      <1>33, <1>34, <1>35, <1>36, <1>37, <1>38, <1>39, <1>40, <1>41, <1>42,
      <1>43, <1>44, <1>45, <1>46, <1>47, <1>48, <1>49, <1>50, <1>51, <1>52,
      <1>53, <1>54, <1>55, <1>56 DEF Next, Calls, Worker, WorkerEnds,
      Collector, Handler

\* Each action preserves that a collector told to stop is waited for: nobody
\* starts the library or cleans it up between the order and the join.
LEMMA RunStep == Types /\ UseInv /\ RunInv /\ [Next]_vars => RunInv'
<1> SUFFICES ASSUME Types, UseInv, RunInv, [Next]_vars PROVE RunInv'
  OBVIOUS
<1> USE LibraryAssumption DEF LibraryAssumption, Types, UsesSocket, UseInv,
    RunInv, modeVars, globalVars, sockVars, lockVars, Goto, MainPC, Waiting,
    HasInitLock
<1>1. CASE Startup
  BY <1>1 DEF Startup, StartupEffect
<1>2. CASE AutoStartup
  BY <1>2 DEF AutoStartup, StartupEffect, Idle
<1>3. CASE StartupReturns \/ Unlock \/ CallFails \/ EPollLocks \/ EPollUnlocks
    \/ Option \/ OptionReturns \/ Listen \/ ListenReturns \/ Connect \/
    ConnectOk \/ ConnectFails \/ ConnectEnds \/ Accept
  BY <1>3 DEF StartupReturns, Unlock, CallFails, Found, EPollLocks, MainRuns,
      EPollUnlocks, Option, OptionReturns, Listen, ListenReturns, Connect,
      ConnectOk, ConnectFails, ConnectEnds, PostConnect, Accept
<1>4. CASE AcceptEnds \/ AcceptWakes \/ Send \/ SendReturns \/ Receive \/
    ReceiveWaits \/ ReceiveWakes \/ ReceiveReturns \/ Poll \/ PollReturns \/
    CloseListener \/ NotListening \/ Broadcast \/ Close \/ CloseLocks \/
    CloseUnlocks \/ CloseMoves
  BY <1>4 DEF AcceptEnds, Queued, Listening, AcceptWakes, Send, Found,
      SendReturns, Receive, ReceiveWaits, ReceiveWakes, ReceiveReturns, Poll,
      PollReturns, CloseListener, NotListening, Broadcast, Close, Shutting,
      CloseLocks, CloseUnlocks, CloseMoves
<1>5. CASE Exit
  BY <1>5 DEF Exit, CleanupEffect, LastCleanup, Idle
<1>6. CASE StaticExit
  BY <1>6 DEF StaticExit, CleanupEffect, LastCleanup
<1>7. CASE ExitJoins
  BY <1>7 DEF ExitJoins, Joined
<1>8. CASE AsyncConnected \/ ConnectionRefused
  BY <1>8 DEF AsyncConnected, PostConnect, ConnectionRefused, Serving
<1>9. CASE DeleteSocket
  BY <1>9 DEF DeleteSocket, Forget, CanClose, Uses, WaitsOn
<1>10. CASE GlobalExit
  BY <1>10 DEF GlobalExit
<1>11. CASE BreakDone
  BY <1>11 DEF BreakDone, CanClose, CanUnqueue
<1>12. CASE AllBroken
  BY <1>12 DEF AllBroken
<1>13. CASE GCEnds
  BY <1>13 DEF GCEnds
<1>14. CASE Interrupt
  BY <1>14 DEF Interrupt, Fresh
<1>15. CASE HandlerCleanup
  BY <1>15 DEF HandlerCleanup, CleanupEffect, LastCleanup
<1>16. CASE HandlerJoins
  BY <1>16 DEF HandlerJoins, Joined
<1>17. ASSUME NEW s \in Socks, NewSocket(s) \/ Locate(s) PROVE RunInv'
  BY <1>17 DEF NewSocket, Fresh, Idle, Locate
<1>18. ASSUME NEW s \in Socks, NewConnection(s) \/ AsyncResponse(s) \/
    LinkBreaks(s) \/ ConnectionRequest(s) PROVE RunInv'
  BY <1>18 DEF NewConnection, Serving, Queued, Fresh, AsyncResponse,
      LinkBreaks, ConnectionRequest, Listening
<1>19. ASSUME NEW s \in Socks, CheckBroken(s) \/ RemoveSocket(s) \/
    BreakSocket(s) PROVE RunInv'
  BY <1>19 DEF CheckBroken, CanUnqueue, RemoveSocket, Queued, Uses,
      BreakSocket, Shutting
<1>20. CASE UNCHANGED vars
  BY <1>20 DEF vars
<1> QED
  BY <1>1, <1>2, <1>3, <1>4, <1>5, <1>6, <1>7, <1>8, <1>9, <1>10, <1>11, <1>12,
      <1>13, <1>14, <1>15, <1>16, <1>17, <1>18, <1>19, <1>20 DEF Next, Calls,
      Worker, WorkerEnds, Collector, Handler

\* Each action preserves the bounds of the counter.  ~CUDTUnited leaves the
\* collector behind only after two starts too many, and the two cleanups of the
\* exit make up for an early return of the handler's unless there were more.
LEMMA CountStep == Types /\ UseInv /\ RunInv /\ CountInv /\ DoomInv /\
    CollectorJoined /\ [Next]_vars => (CountInv /\ CollectorJoined)'
<1> SUFFICES ASSUME Types, UseInv, RunInv, CountInv, DoomInv, CollectorJoined,
    [Next]_vars PROVE (CountInv /\ CollectorJoined)'
  OBVIOUS
<1> USE LibraryAssumption DEF LibraryAssumption, Types, UsesSocket, UseInv,
    RunInv, CountInv, CollectorJoined, DoomInv, modeVars, globalVars, sockVars,
    lockVars, Goto, MainPC, Waiting, HasInitLock
<1>1. CASE Startup
  BY <1>1 DEF Startup, StartupEffect
<1>2. CASE AutoStartup
  BY <1>2 DEF AutoStartup, StartupEffect, Idle
<1>3. CASE StartupReturns \/ Unlock \/ CallFails \/ EPollLocks \/ EPollUnlocks
    \/ Option \/ OptionReturns \/ Listen \/ ListenReturns \/ Connect \/
    ConnectOk \/ ConnectFails \/ ConnectEnds \/ Accept
  BY <1>3 DEF StartupReturns, Unlock, CallFails, Found, EPollLocks, MainRuns,
      EPollUnlocks, Option, OptionReturns, Listen, ListenReturns, Connect,
      ConnectOk, ConnectFails, ConnectEnds, PostConnect, Accept
<1>4. CASE AcceptEnds \/ AcceptWakes \/ Send \/ SendReturns \/ Receive \/
    ReceiveWaits \/ ReceiveWakes \/ ReceiveReturns \/ Poll \/ PollReturns \/
    CloseListener \/ NotListening \/ Broadcast \/ Close \/ CloseLocks \/
    CloseUnlocks \/ CloseMoves
  BY <1>4 DEF AcceptEnds, Queued, Listening, AcceptWakes, Send, Found,
      SendReturns, Receive, ReceiveWaits, ReceiveWakes, ReceiveReturns, Poll,
      PollReturns, CloseListener, NotListening, Broadcast, Close, Shutting,
      CloseLocks, CloseUnlocks, CloseMoves
<1>5. CASE Exit
  BY <1>5 DEF Exit, CleanupEffect, LastCleanup, Idle
<1>6. CASE StaticExit
  BY <1>6 DEF StaticExit, CleanupEffect, LastCleanup
<1>7. CASE ExitJoins
  BY <1>7 DEF ExitJoins, Joined
<1>8. CASE AsyncConnected \/ ConnectionRefused
  BY <1>8 DEF AsyncConnected, PostConnect, ConnectionRefused, Serving
<1>9. CASE DeleteSocket
  BY <1>9 DEF DeleteSocket, Forget, CanClose, Uses, WaitsOn
<1>10. CASE GlobalExit
  BY <1>10 DEF GlobalExit
<1>11. CASE BreakDone
  BY <1>11 DEF BreakDone, CanClose, CanUnqueue
<1>12. CASE AllBroken
  BY <1>12 DEF AllBroken
<1>13. CASE GCEnds
  BY <1>13 DEF GCEnds
<1>14. CASE Interrupt
  BY <1>14 DEF Interrupt, Fresh
<1>15. CASE HandlerCleanup
  BY <1>15 DEF HandlerCleanup, CleanupEffect, LastCleanup
<1>16. CASE HandlerJoins
  BY <1>16 DEF HandlerJoins, Joined
<1>17. ASSUME NEW s \in Socks, NewSocket(s) \/ Locate(s) PROVE (CountInv /\
    CollectorJoined)'
  BY <1>17 DEF NewSocket, Fresh, Idle, Locate
<1>18. ASSUME NEW s \in Socks, NewConnection(s) \/ AsyncResponse(s) \/
    LinkBreaks(s) \/ ConnectionRequest(s) PROVE (CountInv /\ CollectorJoined)'
  BY <1>18 DEF NewConnection, Serving, Queued, Fresh, AsyncResponse,
      LinkBreaks, ConnectionRequest, Listening
<1>19. ASSUME NEW s \in Socks, CheckBroken(s) \/ RemoveSocket(s) \/
    BreakSocket(s) PROVE (CountInv /\ CollectorJoined)'
  BY <1>19 DEF CheckBroken, CanUnqueue, RemoveSocket, Queued, Uses,
      BreakSocket, Shutting
<1>20. CASE UNCHANGED vars
  BY <1>20 DEF vars
<1> QED
  BY <1>1, <1>2, <1>3, <1>4, <1>5, <1>6, <1>7, <1>8, <1>9, <1>10, <1>11, <1>12,
      <1>13, <1>14, <1>15, <1>16, <1>17, <1>18, <1>19, <1>20 DEF Next, Calls,
      Worker, WorkerEnds, Collector, Handler

\* Each action preserves the way of the old sockets: none of them is open any
\* more in the sweep, and none is left after it.
LEMMA DoomStep == Types /\ Scopes /\ UseInv /\ SockInv /\ QueueInv /\ RunInv /\
    DoomInv /\ [Next]_vars => DoomInv'
<1> SUFFICES ASSUME Types, Scopes, UseInv, SockInv, QueueInv, RunInv, DoomInv,
    [Next]_vars PROVE DoomInv'
  OBVIOUS
<1> USE LibraryAssumption DEF LibraryAssumption, Types, Scopes, UsesSocket,
    UseInv, SockInv, QueueInv, RunInv, DoomInv, HasInitLock, modeVars,
    globalVars, sockVars, lockVars, Goto, Free, Owner, Waiting, MainPC, Status
<1>1. CASE Startup
  BY <1>1 DEF Startup, StartupEffect
<1>2. CASE AutoStartup
  BY <1>2 DEF AutoStartup, StartupEffect, Idle
<1>3. CASE StartupReturns
  BY <1>3 DEF StartupReturns
<1>4. CASE Unlock
  BY <1>4 DEF Unlock
<1>5. CASE CallFails
  BY <1>5 DEF CallFails, Found
<1>6. CASE EPollLocks
  BY <1>6 DEF EPollLocks, MainRuns
<1>7. CASE EPollUnlocks
  BY <1>7 DEF EPollUnlocks, MainRuns
<1>8. CASE Option
  BY <1>8 DEF Option, Found
<1>9. CASE OptionReturns
  BY <1>9 DEF OptionReturns
<1>10. CASE Listen
  BY <1>10 DEF Listen, Found
<1>11. CASE ListenReturns
  BY <1>11 DEF ListenReturns
<1>12. CASE Connect
  BY <1>12 DEF Connect, Found
<1>13. CASE ConnectOk
  BY <1>13 DEF ConnectOk
<1>14. CASE ConnectFails
  BY <1>14 DEF ConnectFails
<1>15. CASE ConnectEnds
  BY <1>15 DEF ConnectEnds, PostConnect
<1>16. CASE Accept
  BY <1>16 DEF Accept, Found
<1>17. CASE AcceptEnds
  BY <1>17 DEF AcceptEnds, Queued, Listening
<1>18. CASE AcceptWakes
  BY <1>18 DEF AcceptWakes
<1>19. CASE Send
  BY <1>19 DEF Send, Found
<1>20. CASE SendReturns
  BY <1>20 DEF SendReturns
<1>21. CASE Receive
  BY <1>21 DEF Receive, Found
<1>22. CASE ReceiveWaits
  BY <1>22 DEF ReceiveWaits
<1>23. CASE ReceiveWakes
  BY <1>23 DEF ReceiveWakes
<1>24. CASE ReceiveReturns
  BY <1>24 DEF ReceiveReturns
<1>25. CASE Poll
  BY <1>25 DEF Poll
<1>26. CASE PollReturns
  BY <1>26 DEF PollReturns
<1>27. CASE CloseListener
  BY <1>27 DEF CloseListener, Found, Listening
<1>28. CASE NotListening
  BY <1>28 DEF NotListening
<1>29. CASE Broadcast
  BY <1>29 DEF Broadcast
<1>30. CASE Close
  BY <1>30 DEF Close, Shutting, Found
<1>31. CASE CloseLocks
  BY <1>31 DEF CloseLocks
<1>32. CASE CloseUnlocks
  BY <1>32 DEF CloseUnlocks
<1>33. CASE CloseMoves
  BY <1>33 DEF CloseMoves
<1>34. CASE Exit
  BY <1>34 DEF Exit, CleanupEffect, LastCleanup, Idle
<1>35. CASE StaticExit
  BY <1>35 DEF StaticExit, CleanupEffect, LastCleanup
<1>36. CASE ExitJoins
  BY <1>36 DEF ExitJoins, Joined
<1>37. CASE AsyncConnected
  BY <1>37 DEF AsyncConnected, PostConnect
<1>38. CASE ConnectionRefused
  BY <1>38 DEF ConnectionRefused, Serving
<1>39. CASE DeleteSocket
  BY <1>39 DEF DeleteSocket, Forget, CanClose, Uses, WaitsOn
<1>40. CASE GlobalExit
  BY <1>40 DEF GlobalExit
<1>41. CASE BreakDone
  BY <1>41 DEF BreakDone, CanClose, CanUnqueue
<1>42. CASE AllBroken
  BY <1>42 DEF AllBroken
<1>43. CASE GCEnds
  BY <1>43 DEF GCEnds
<1>44. CASE Interrupt
  BY <1>44 DEF Interrupt, Fresh
<1>45. CASE HandlerCleanup
  BY <1>45 DEF HandlerCleanup, CleanupEffect, LastCleanup
<1>46. CASE HandlerJoins
  BY <1>46 DEF HandlerJoins, Joined
<1>47. ASSUME NEW s \in Socks, NewSocket(s) PROVE DoomInv'
  BY <1>47 DEF NewSocket, Fresh, Idle
<1>48. ASSUME NEW s \in Socks, Locate(s) PROVE DoomInv'
  BY <1>48 DEF Locate, Idle
<1>49. ASSUME NEW s \in Socks, NewConnection(s) PROVE DoomInv'
  BY <1>49 DEF NewConnection, Serving, Queued, Fresh
<1>50. ASSUME NEW s \in Socks, AsyncResponse(s) PROVE DoomInv'
  BY <1>50 DEF AsyncResponse
<1>51. ASSUME NEW s \in Socks, LinkBreaks(s) PROVE DoomInv'
  BY <1>51 DEF LinkBreaks
<1>52. ASSUME NEW s \in Socks, ConnectionRequest(s) PROVE DoomInv'
  BY <1>52 DEF ConnectionRequest, Listening
<1>53. ASSUME NEW s \in Socks, CheckBroken(s) PROVE DoomInv'
  BY <1>53 DEF CheckBroken, CanUnqueue
<1>54. ASSUME NEW s \in Socks, RemoveSocket(s) PROVE DoomInv'
  BY <1>54 DEF RemoveSocket, Queued, Uses
<1>55. ASSUME NEW s \in Socks, BreakSocket(s) PROVE DoomInv'
  BY <1>55 DEF BreakSocket, Shutting
<1>56. CASE UNCHANGED vars
  BY <1>56 DEF vars
<1> QED
  BY <1>1, <1>2, <1>3, <1>4, <1>5, <1>6, <1>7, <1>8, <1>9, <1>10, <1>11, <1>12,
      <1>13, <1>14, <1>15, <1>16, <1>17, <1>18, <1>19, <1>20, <1>21, <1>22,
      <1>23, <1>24, <1>25, <1>26, <1>27, <1>28, <1>29, <1>30, <1>31, <1>32,
      <1>33, <1>34, <1>35, <1>36, <1>37, <1>38, <1>39, <1>40, <1>41, <1>42,
      <1>43, <1>44, <1>45, <1>46, <1>47, <1>48, <1>49, <1>50, <1>51, <1>52,
      <1>53, <1>54, <1>55, <1>56 DEF Next, Calls, Worker, WorkerEnds,
      Collector, Handler

\* Each action preserves what a main thread under the handler holds on to.
LEMMA FrozenStep == Types /\ Scopes /\ UseInv /\ SockInv /\ QueueInv /\ RunInv
    /\ DoomInv /\ FrozenInv /\ [Next]_vars => FrozenInv'
<1> SUFFICES ASSUME Types, Scopes, UseInv, SockInv, QueueInv, RunInv, DoomInv,
    FrozenInv, [Next]_vars PROVE FrozenInv'
  OBVIOUS
<1> USE LibraryAssumption DEF LibraryAssumption, Types, Scopes, UsesSocket,
    UseInv, SockInv, QueueInv, RunInv, DoomInv, FrozenInv, MainRuns,
    HasInitLock, modeVars, globalVars, sockVars, lockVars, Goto, Free, Owner,
    Waiting, MainPC, Status
<1>1. CASE Startup
  BY <1>1 DEF Startup, StartupEffect
<1>2. CASE AutoStartup
  BY <1>2 DEF AutoStartup, StartupEffect, Idle
<1>3. CASE StartupReturns
  BY <1>3 DEF StartupReturns
<1>4. CASE Unlock
  BY <1>4 DEF Unlock
<1>5. CASE CallFails
  BY <1>5 DEF CallFails, Found
<1>6. CASE EPollLocks
  BY <1>6 DEF EPollLocks
<1>7. CASE EPollUnlocks
  BY <1>7 DEF EPollUnlocks
<1>8. CASE Option
  BY <1>8 DEF Option, Found
<1>9. CASE OptionReturns
  BY <1>9 DEF OptionReturns
<1>10. CASE Listen
  BY <1>10 DEF Listen, Found
<1>11. CASE ListenReturns
  BY <1>11 DEF ListenReturns
<1>12. CASE Connect
  BY <1>12 DEF Connect, Found
<1>13. CASE ConnectOk
  BY <1>13 DEF ConnectOk
<1>14. CASE ConnectFails
  BY <1>14 DEF ConnectFails
<1>15. CASE ConnectEnds
  BY <1>15 DEF ConnectEnds, PostConnect
<1>16. CASE Accept
  BY <1>16 DEF Accept, Found
<1>17. CASE AcceptEnds
  BY <1>17 DEF AcceptEnds, Queued, Listening
<1>18. CASE AcceptWakes
  BY <1>18 DEF AcceptWakes
<1>19. CASE Send
  BY <1>19 DEF Send, Found
<1>20. CASE SendReturns
  BY <1>20 DEF SendReturns
<1>21. CASE Receive
  BY <1>21 DEF Receive, Found
<1>22. CASE ReceiveWaits
  BY <1>22 DEF ReceiveWaits
<1>23. CASE ReceiveWakes
  BY <1>23 DEF ReceiveWakes
<1>24. CASE ReceiveReturns
  BY <1>24 DEF ReceiveReturns
<1>25. CASE Poll
  BY <1>25 DEF Poll
<1>26. CASE PollReturns
  BY <1>26 DEF PollReturns
<1>27. CASE CloseListener
  BY <1>27 DEF CloseListener, Found, Listening
<1>28. CASE NotListening
  BY <1>28 DEF NotListening
<1>29. CASE Broadcast
  BY <1>29 DEF Broadcast
<1>30. CASE Close
  BY <1>30 DEF Close, Shutting, Found
<1>31. CASE CloseLocks
  BY <1>31 DEF CloseLocks
<1>32. CASE CloseUnlocks
  BY <1>32 DEF CloseUnlocks
<1>33. CASE CloseMoves
  BY <1>33 DEF CloseMoves
<1>34. CASE Exit
  BY <1>34 DEF Exit, CleanupEffect, LastCleanup, Idle
<1>35. CASE StaticExit
  BY <1>35 DEF StaticExit, CleanupEffect, LastCleanup
<1>36. CASE ExitJoins
  BY <1>36 DEF ExitJoins, Joined
<1>37. CASE AsyncConnected
  BY <1>37 DEF AsyncConnected, PostConnect
<1>38. CASE ConnectionRefused
  BY <1>38 DEF ConnectionRefused, Serving
<1>39. CASE DeleteSocket
  BY <1>39 DEF DeleteSocket, Forget, CanClose, Uses, WaitsOn
<1>40. CASE GlobalExit
  BY <1>40 DEF GlobalExit
<1>41. CASE BreakDone
  BY <1>41 DEF BreakDone, CanClose, CanUnqueue
<1>42. CASE AllBroken
  BY <1>42 DEF AllBroken
<1>43. CASE GCEnds
  BY <1>43 DEF GCEnds
<1>44. CASE Interrupt
  BY <1>44 DEF Interrupt, Fresh
<1>45. CASE HandlerCleanup
  BY <1>45 DEF HandlerCleanup, CleanupEffect, LastCleanup
<1>46. CASE HandlerJoins
  BY <1>46 DEF HandlerJoins, Joined
<1>47. ASSUME NEW s \in Socks, NewSocket(s) PROVE FrozenInv'
  BY <1>47 DEF NewSocket, Fresh, Idle
<1>48. ASSUME NEW s \in Socks, Locate(s) PROVE FrozenInv'
  BY <1>48 DEF Locate, Idle
<1>49. ASSUME NEW s \in Socks, NewConnection(s) PROVE FrozenInv'
  BY <1>49 DEF NewConnection, Serving, Queued, Fresh
<1>50. ASSUME NEW s \in Socks, AsyncResponse(s) PROVE FrozenInv'
  BY <1>50 DEF AsyncResponse
<1>51. ASSUME NEW s \in Socks, LinkBreaks(s) PROVE FrozenInv'
  BY <1>51 DEF LinkBreaks
<1>52. ASSUME NEW s \in Socks, ConnectionRequest(s) PROVE FrozenInv'
  BY <1>52 DEF ConnectionRequest, Listening
<1>53. ASSUME NEW s \in Socks, CheckBroken(s) PROVE FrozenInv'
  BY <1>53 DEF CheckBroken, CanUnqueue
<1>54. ASSUME NEW s \in Socks, RemoveSocket(s) PROVE FrozenInv'
  BY <1>54 DEF RemoveSocket, Queued, Uses
<1>55. ASSUME NEW s \in Socks, BreakSocket(s) PROVE FrozenInv'
  BY <1>55 DEF BreakSocket, Shutting
<1>56. CASE UNCHANGED vars
  BY <1>56 DEF vars
<1> QED
  BY <1>1, <1>2, <1>3, <1>4, <1>5, <1>6, <1>7, <1>8, <1>9, <1>10, <1>11, <1>12,
      <1>13, <1>14, <1>15, <1>16, <1>17, <1>18, <1>19, <1>20, <1>21, <1>22,
      <1>23, <1>24, <1>25, <1>26, <1>27, <1>28, <1>29, <1>30, <1>31, <1>32,
      <1>33, <1>34, <1>35, <1>36, <1>37, <1>38, <1>39, <1>40, <1>41, <1>42,
      <1>43, <1>44, <1>45, <1>46, <1>47, <1>48, <1>49, <1>50, <1>51, <1>52,
      <1>53, <1>54, <1>55, <1>56 DEF Next, Calls, Worker, WorkerEnds,
      Collector, Handler

\* Each action preserves what the handler's cleanup has to do with the sockets of
\* before the interrupt: it returns when they are gone, or the counter was at
\* least two.
LEMMA SurviveStep == Types /\ UseInv /\ RunInv /\ CountInv /\ DoomInv /\
    CountInv' /\ NothingSurvives /\ [Next]_vars => NothingSurvives'
<1> SUFFICES ASSUME Types, UseInv, RunInv, CountInv, DoomInv, CountInv',
    NothingSurvives, [Next]_vars PROVE NothingSurvives'
  OBVIOUS
<1> USE LibraryAssumption DEF LibraryAssumption, Types, UsesSocket, UseInv,
    RunInv, CountInv, NothingSurvives, DoomInv, modeVars, globalVars, sockVars,
    lockVars, Goto, MainPC, Waiting, HasInitLock
<1>1. CASE Startup
  BY <1>1 DEF Startup, StartupEffect
<1>2. CASE AutoStartup
  BY <1>2 DEF AutoStartup, StartupEffect, Idle
<1>3. CASE StartupReturns \/ Unlock \/ CallFails \/ EPollLocks \/ EPollUnlocks
    \/ Option \/ OptionReturns \/ Listen \/ ListenReturns \/ Connect \/
    ConnectOk \/ ConnectFails \/ ConnectEnds \/ Accept
  BY <1>3 DEF StartupReturns, Unlock, CallFails, Found, EPollLocks, MainRuns,
      EPollUnlocks, Option, OptionReturns, Listen, ListenReturns, Connect,
      ConnectOk, ConnectFails, ConnectEnds, PostConnect, Accept
<1>4. CASE AcceptEnds \/ AcceptWakes \/ Send \/ SendReturns \/ Receive \/
    ReceiveWaits \/ ReceiveWakes \/ ReceiveReturns \/ Poll \/ PollReturns \/
    CloseListener \/ NotListening \/ Broadcast \/ Close \/ CloseLocks \/
    CloseUnlocks \/ CloseMoves
  BY <1>4 DEF AcceptEnds, Queued, Listening, AcceptWakes, Send, Found,
      SendReturns, Receive, ReceiveWaits, ReceiveWakes, ReceiveReturns, Poll,
      PollReturns, CloseListener, NotListening, Broadcast, Close, Shutting,
      CloseLocks, CloseUnlocks, CloseMoves
<1>5. CASE Exit
  BY <1>5 DEF Exit, CleanupEffect, LastCleanup, Idle
<1>6. CASE StaticExit
  BY <1>6 DEF StaticExit, CleanupEffect, LastCleanup
<1>7. CASE ExitJoins
  BY <1>7 DEF ExitJoins, Joined
<1>8. CASE AsyncConnected \/ ConnectionRefused
  BY <1>8 DEF AsyncConnected, PostConnect, ConnectionRefused, Serving
<1>9. CASE DeleteSocket
  BY <1>9 DEF DeleteSocket, Forget, CanClose, Uses, WaitsOn
<1>10. CASE GlobalExit
  BY <1>10 DEF GlobalExit
<1>11. CASE BreakDone
  BY <1>11 DEF BreakDone, CanClose, CanUnqueue
<1>12. CASE AllBroken
  BY <1>12 DEF AllBroken
<1>13. CASE GCEnds
  BY <1>13 DEF GCEnds
<1>14. CASE Interrupt
  BY <1>14 DEF Interrupt, Fresh
<1>15. CASE HandlerCleanup
  BY <1>15 DEF HandlerCleanup, CleanupEffect, LastCleanup
<1>16. CASE HandlerJoins
  BY <1>16 DEF HandlerJoins, Joined
<1>17. ASSUME NEW s \in Socks, NewSocket(s) \/ Locate(s) PROVE NothingSurvives'
  BY <1>17 DEF NewSocket, Fresh, Idle, Locate
<1>18. ASSUME NEW s \in Socks, NewConnection(s) \/ AsyncResponse(s) \/
    LinkBreaks(s) \/ ConnectionRequest(s) PROVE NothingSurvives'
  BY <1>18 DEF NewConnection, Serving, Queued, Fresh, AsyncResponse,
      LinkBreaks, ConnectionRequest, Listening
<1>19. ASSUME NEW s \in Socks, CheckBroken(s) \/ RemoveSocket(s) \/
    BreakSocket(s) PROVE NothingSurvives'
  BY <1>19 DEF CheckBroken, CanUnqueue, RemoveSocket, Queued, Uses,
      BreakSocket, Shutting
<1>20. CASE UNCHANGED vars
  BY <1>20 DEF vars
<1> QED
  BY <1>1, <1>2, <1>3, <1>4, <1>5, <1>6, <1>7, <1>8, <1>9, <1>10, <1>11, <1>12,
      <1>13, <1>14, <1>15, <1>16, <1>17, <1>18, <1>19, <1>20 DEF Next, Calls,
      Worker, WorkerEnds, Collector, Handler

\* TypeOK is its two halves.
LEMMA Halves == TypeOK <=> Types /\ Scopes
<1>1. TypeOK => Types
  BY DEF TypeOK, Types
<1>2. TypeOK => Scopes
  BY DEF TypeOK, Scopes
<1>3. Types /\ Scopes => TypeOK
  BY DEF TypeOK, Types, Scopes
<1> QED
  BY <1>1, <1>2, <1>3

\* Initially the library is started, the collector runs and there is no socket.
LEMMA InitHolds == Init => IInv
<1> SUFFICES ASSUME Init PROVE IInv
  OBVIOUS
<1> USE LibraryAssumption DEF LibraryAssumption, Init
<1>1. Types
  <2>1. blocking \in BOOLEAN /\ onMain \in BOOLEAN
    OBVIOUS
  <2>2. running \in BOOLEAN /\ stopping \in BOOLEAN
    OBVIOUS
  <2>3. extra \in 0 .. MaxStarts /\ count \in Int
    OBVIOUS
  <2>4. /\ loc \in [Socks -> {"none", "open", "closed", "erased"}]
        /\ status \in [Socks -> Status]
        /\ core \in [Socks -> {"shut", "opened", "closing"}]
        /\ parent \in [Socks -> Socks \cup {NoSock}]
    BY DEF Status
  <2>5. /\ conn \in [Socks -> Owner] /\ snd \in [Socks -> Owner]
        /\ rcv \in [Socks -> Owner] /\ acc \in [Socks -> Owner]
    BY DEF Owner
  <2> QED
    BY <2>1, <2>2, <2>3, <2>4, <2>5 DEF Types, Free, Owner, MainPC
<1>2. Scopes /\ UseInv /\ SockInv /\ QueueInv
  BY DEF Scopes, UseInv, UsesSocket, SockInv, QueueInv, Free
<1>3. RunInv /\ CountInv /\ DoomInv /\ FrozenInv
  BY DEF RunInv, CountInv, DoomInv, FrozenInv, HasInitLock
<1>4. NothingSurvives /\ CollectorJoined
  BY DEF NothingSurvives, CollectorJoined
<1> QED
  BY <1>1, <1>2, <1>3, <1>4, Halves DEF IInv

\* All parts together are an invariant of the library.
LEMMA Invariant == Spec => []IInv
<1>1. ASSUME IInv, [Next]_vars PROVE IInv'
  <2>1. Types /\ Scopes
    BY <1>1, Halves DEF IInv
  <2>2. Types' /\ Scopes'
    BY <1>1, <2>1, TypesStep, ScopesStep DEF IInv
  <2>3. TypeOK'
    BY <2>2, Halves, PTL
  <2>4. UseInv' /\ SockInv' /\ QueueInv'
    BY <1>1, <2>1, UseStep, SockStep, QueueStep DEF IInv
  <2>5. RunInv' /\ CountInv' /\ CollectorJoined'
    BY <1>1, <2>1, RunStep, CountStep DEF IInv
  <2>6. DoomInv' /\ FrozenInv'
    BY <1>1, <2>1, DoomStep, FrozenStep DEF IInv
  <2>7. NothingSurvives'
    BY <1>1, <2>1, <2>5, SurviveStep DEF IInv
  <2> QED
    BY <2>3, <2>4, <2>5, <2>6, <2>7 DEF IInv
<1> QED
  BY <1>1, InitHolds, PTL DEF Spec

-----------------------------------------------------------------------------

\* Every variable keeps its type, and m_GlobControlLock, m_EPollLock and the four
\* locks of a socket are owned exactly in their scopes of CUDTUnited and CUDT.
THEOREM TypeCorrect == Spec => []TypeOK
BY Invariant, PTL DEF IInv

\* When the handler's srt_cleanup has joined the collector, every socket of before
\* the interrupt was deleted, whatever the other threads did meanwhile.  When it
\* has returned early because an SrtNode called srt_startup, they may be left, but
\* not at the end of the process with the two nodes of one forward session.
THEOREM CleanupIsComplete == Spec => []NothingSurvives
BY Invariant, PTL DEF IInv

\* The process ends with a running collector only if srt_startup was called at
\* least twice too often by SrtNode objects.
THEOREM CollectorIsJoined == Spec => []CollectorJoined
BY Invariant, PTL DEF IInv

\* A collector that waits for a lock with m_GlobControlLock in its hand: no
\* step of another thread ends the wait.
LEMMA CrossWaitStays == Types /\ Scopes /\ UseInv /\ SockInv /\ QueueInv /\
    RunInv /\ CrossWait /\ [Next]_vars => CrossWait'
<1> SUFFICES ASSUME Types, Scopes, UseInv, SockInv, QueueInv, RunInv,
    CrossWait, [Next]_vars PROVE CrossWait'
  OBVIOUS
<1> USE LibraryAssumption DEF LibraryAssumption, Types, Scopes, UsesSocket,
    UseInv, SockInv, QueueInv, RunInv, CrossWait, modeVars, globalVars,
    sockVars, lockVars, Goto, Free
<1>1. CASE Startup
  BY <1>1 DEF Startup, StartupEffect
<1>2. CASE AutoStartup
  BY <1>2 DEF AutoStartup, StartupEffect, Idle
<1>3. CASE StartupReturns
  BY <1>3 DEF StartupReturns
<1>4. CASE Unlock
  BY <1>4 DEF Unlock
<1>5. CASE CallFails
  BY <1>5 DEF CallFails, Found
<1>6. CASE EPollLocks
  BY <1>6 DEF EPollLocks, MainRuns
<1>7. CASE EPollUnlocks
  BY <1>7 DEF EPollUnlocks, MainRuns
<1>8. CASE Option
  BY <1>8 DEF Option, Found
<1>9. CASE OptionReturns
  BY <1>9 DEF OptionReturns
<1>10. CASE Listen
  BY <1>10 DEF Listen, Found
<1>11. CASE ListenReturns
  BY <1>11 DEF ListenReturns
<1>12. CASE Connect
  BY <1>12 DEF Connect, Found
<1>13. CASE ConnectOk
  BY <1>13 DEF ConnectOk
<1>14. CASE ConnectFails
  BY <1>14 DEF ConnectFails
<1>15. CASE ConnectEnds
  BY <1>15 DEF ConnectEnds, PostConnect
<1>16. CASE Accept
  BY <1>16 DEF Accept, Found
<1>17. CASE AcceptEnds
  BY <1>17 DEF AcceptEnds, Queued, Listening
<1>18. CASE AcceptWakes
  BY <1>18 DEF AcceptWakes
<1>19. CASE Send
  BY <1>19 DEF Send, Found
<1>20. CASE SendReturns
  BY <1>20 DEF SendReturns
<1>21. CASE Receive
  BY <1>21 DEF Receive, Found
<1>22. CASE ReceiveWaits
  BY <1>22 DEF ReceiveWaits
<1>23. CASE ReceiveWakes
  BY <1>23 DEF ReceiveWakes
<1>24. CASE ReceiveReturns
  BY <1>24 DEF ReceiveReturns
<1>25. CASE Poll
  BY <1>25 DEF Poll
<1>26. CASE PollReturns
  BY <1>26 DEF PollReturns
<1>27. CASE CloseListener
  BY <1>27 DEF CloseListener, Found, Listening
<1>28. CASE NotListening
  BY <1>28 DEF NotListening
<1>29. CASE Broadcast
  BY <1>29 DEF Broadcast
<1>30. CASE Close
  BY <1>30 DEF Close, Shutting, Found
<1>31. CASE CloseLocks
  BY <1>31 DEF CloseLocks
<1>32. CASE CloseUnlocks
  BY <1>32 DEF CloseUnlocks
<1>33. CASE CloseMoves
  BY <1>33 DEF CloseMoves
<1>34. CASE Exit \/ StaticExit \/ ExitJoins
  BY <1>34 DEF Exit, CleanupEffect, LastCleanup, Idle, StaticExit, ExitJoins,
      Joined
<1>35. CASE AsyncConnected \/ ConnectionRefused
  BY <1>35 DEF AsyncConnected, PostConnect, ConnectionRefused, Serving
<1>36. CASE DeleteSocket
  BY <1>36 DEF DeleteSocket, Forget, CanClose, Uses, WaitsOn
<1>37. CASE GlobalExit \/ AllBroken \/ GCEnds
  BY <1>37 DEF GlobalExit, AllBroken, GCEnds
<1>38. CASE BreakDone
  BY <1>38 DEF BreakDone, CanClose, CanUnqueue
<1>39. CASE Interrupt
  BY <1>39 DEF Interrupt, Fresh
<1>40. CASE HandlerCleanup
  BY <1>40 DEF HandlerCleanup, CleanupEffect, LastCleanup
<1>41. CASE HandlerJoins
  BY <1>41 DEF HandlerJoins, Joined
<1>42. ASSUME NEW s \in Socks, NewSocket(s) \/ Locate(s) PROVE CrossWait'
  BY <1>42 DEF NewSocket, Fresh, Idle, Locate
<1>43. ASSUME NEW s \in Socks, NewConnection(s) PROVE CrossWait'
  BY <1>43 DEF NewConnection, Serving, Queued, Fresh
<1>44. ASSUME NEW s \in Socks, AsyncResponse(s) PROVE CrossWait'
  BY <1>44 DEF AsyncResponse
<1>45. ASSUME NEW s \in Socks, LinkBreaks(s) PROVE CrossWait'
  BY <1>45 DEF LinkBreaks
<1>46. ASSUME NEW s \in Socks, ConnectionRequest(s) PROVE CrossWait'
  BY <1>46 DEF ConnectionRequest, Listening
<1>47. ASSUME NEW s \in Socks, CheckBroken(s) \/ RemoveSocket(s) \/
    BreakSocket(s) PROVE CrossWait'
  BY <1>47 DEF CheckBroken, CanUnqueue, RemoveSocket, Queued, Uses,
      BreakSocket, Shutting
<1>48. CASE UNCHANGED vars
  BY <1>48 DEF vars
<1> QED
  BY <1>1, <1>2, <1>3, <1>4, <1>5, <1>6, <1>7, <1>8, <1>9, <1>10, <1>11, <1>12,
      <1>13, <1>14, <1>15, <1>16, <1>17, <1>18, <1>19, <1>20, <1>21, <1>22,
      <1>23, <1>24, <1>25, <1>26, <1>27, <1>28, <1>29, <1>30, <1>31, <1>32,
      <1>33, <1>34, <1>35, <1>36, <1>37, <1>38, <1>39, <1>40, <1>41, <1>42,
      <1>43, <1>44, <1>45, <1>46, <1>47, <1>48 DEF Next, Calls, Worker,
      WorkerEnds, Collector, Handler

\* A main thread that stands still with a lock, or in a wait, that the cleanup
\* needs: no step of the collector or of the worker gets around it.
LEMMA FrozenStays == Types /\ Scopes /\ UseInv /\ SockInv /\ QueueInv /\ RunInv
    /\ DoomInv /\ FrozenInv /\ Frozen /\ [Next]_vars => Frozen'
<1> SUFFICES ASSUME Types, Scopes, UseInv, SockInv, QueueInv, RunInv, DoomInv,
    FrozenInv, Frozen, [Next]_vars PROVE Frozen'
  OBVIOUS
<1> USE LibraryAssumption DEF LibraryAssumption, Types, Scopes, UsesSocket,
    UseInv, SockInv, QueueInv, RunInv, DoomInv, FrozenInv, Frozen, MainRuns,
    HasInitLock, WaitsOn, modeVars, globalVars, sockVars, lockVars, Goto, Free
<1>1. CASE Startup \/ AutoStartup \/ StartupReturns \/ Unlock \/ CallFails \/
    EPollLocks \/ EPollUnlocks \/ Option \/ OptionReturns \/ Listen \/
    ListenReturns \/ Connect \/ ConnectOk \/ ConnectFails \/ ConnectEnds \/
    Accept \/ AcceptEnds \/ AcceptWakes \/ Send \/ SendReturns \/ Receive \/
    ReceiveWaits \/ ReceiveWakes \/ ReceiveReturns \/ Poll \/ PollReturns \/
    CloseListener \/ NotListening \/ Broadcast \/ Close \/ CloseLocks \/
    CloseUnlocks \/ CloseMoves \/ Exit \/ StaticExit \/ ExitJoins
  BY <1>1 DEF Startup, StartupEffect, AutoStartup, Idle, StartupReturns,
      Unlock, CallFails, Found, EPollLocks, EPollUnlocks, Option,
      OptionReturns, Listen, ListenReturns, Connect, ConnectOk, ConnectFails,
      ConnectEnds, PostConnect, Accept, AcceptEnds, Queued, Listening,
      AcceptWakes, Send, SendReturns, Receive, ReceiveWaits, ReceiveWakes,
      ReceiveReturns, Poll, PollReturns, CloseListener, NotListening,
      Broadcast, Close, Shutting, CloseLocks, CloseUnlocks, CloseMoves, Exit,
      CleanupEffect, LastCleanup, StaticExit, ExitJoins, Joined
<1>2. CASE AsyncConnected
  BY <1>2 DEF AsyncConnected, PostConnect
<1>3. CASE ConnectionRefused
  BY <1>3 DEF ConnectionRefused, Serving
<1>4. CASE DeleteSocket
  <2>1. CASE handler = "enter"
    BY <1>4, <2>1 DEF DeleteSocket, Forget, Uses
  <2>2. CASE handler = "join" /\ epoll = "main"
    <3>1. core[gcAt] = "shut" /\ loc[gcAt] = "erased" /\ at # gcAt
      BY <1>4, <2>2 DEF DeleteSocket, CanClose
    <3>2. \E t \in doomed : loc[t] # "erased" \/ core[t] # "shut"
      BY <1>4, <2>2 DEF DeleteSocket
    <3>3. PICK t \in doomed : loc[t] # "erased" \/ core[t] # "shut"
      BY <3>2
    <3>4. t # gcAt /\ t \in doomed' /\ loc'[t] = loc[t] /\ core'[t] = core[t]
      BY <1>4, <3>1, <3>3 DEF DeleteSocket, Forget
    <3> QED
      BY <1>4, <2>2, <3>1, <3>3, <3>4 DEF DeleteSocket, Uses
  <2>3. CASE handler = "join" /\ epoll # "main"
    <3>1. PICK t \in Socks :
            \/ core[t] # "shut" /\ "main" \in {conn[t], snd[t], rcv[t]}
            \/ acc[t] = "main" /\ loc[t] # "erased"
            \/ WaitsOn(t)
      BY <1>4, <2>3 DEF DeleteSocket
    <3>2. at = t
      BY <3>1
    <3>3. t # gcAt
      BY <1>4, <3>1 DEF DeleteSocket, CanClose
    <3> QED
      BY <1>4, <2>3, <3>1, <3>2, <3>3 DEF DeleteSocket, Forget, Uses
  <2> QED
    BY <2>1, <2>2, <2>3
<1>5. CASE GlobalExit
  BY <1>5 DEF GlobalExit
<1>6. CASE BreakDone
  BY <1>6 DEF BreakDone, CanClose, CanUnqueue
<1>7. CASE AllBroken
  BY <1>7 DEF AllBroken
<1>8. CASE GCEnds
  BY <1>8 DEF GCEnds
<1>9. CASE Interrupt
  BY <1>9 DEF Interrupt, Fresh
<1>10. CASE HandlerCleanup
  BY <1>10 DEF HandlerCleanup, CleanupEffect, LastCleanup
<1>11. CASE HandlerJoins
  BY <1>11 DEF HandlerJoins, Joined
<1>12. ASSUME NEW s \in Socks, NewSocket(s) \/ Locate(s) PROVE Frozen'
  BY <1>12 DEF NewSocket, Fresh, Idle, Locate
<1>13. ASSUME NEW s \in Socks, NewConnection(s) PROVE Frozen'
  BY <1>13 DEF NewConnection, Serving, Queued, Fresh
<1>14. ASSUME NEW s \in Socks, AsyncResponse(s) PROVE Frozen'
  BY <1>14 DEF AsyncResponse
<1>15. ASSUME NEW s \in Socks, LinkBreaks(s) PROVE Frozen'
  BY <1>15 DEF LinkBreaks
<1>16. ASSUME NEW s \in Socks, ConnectionRequest(s) PROVE Frozen'
  BY <1>16 DEF ConnectionRequest, Listening
<1>17. ASSUME NEW s \in Socks, CheckBroken(s) PROVE Frozen'
  BY <1>17 DEF CheckBroken, CanUnqueue
<1>18. ASSUME NEW s \in Socks, RemoveSocket(s) PROVE Frozen'
  BY <1>18 DEF RemoveSocket, Queued, Uses
<1>19. ASSUME NEW s \in Socks, BreakSocket(s) PROVE Frozen'
  BY <1>19 DEF BreakSocket, Shutting
<1>20. CASE UNCHANGED vars
  BY <1>20 DEF vars
<1> QED
  BY <1>1, <1>2, <1>3, <1>4, <1>5, <1>6, <1>7, <1>8, <1>9, <1>10, <1>11, <1>12,
      <1>13, <1>14, <1>15, <1>16, <1>17, <1>18, <1>19, <1>20 DEF Next, Calls,
      Worker, WorkerEnds, Collector, Handler

\* An interrupt that hangs in one of the two ways never returns: no step of any
\* thread leads out of CrossWait or Frozen.
THEOREM HangIsForGood == Spec => HangsForGood
<1>1. ASSUME IInv, [Next]_vars
      PROVE  [CrossWait \/ Frozen => (CrossWait \/ Frozen)']_vars
  <2>1. Types /\ Scopes
    BY <1>1, Halves DEF IInv
  <2>2. CrossWait => CrossWait'
    BY <1>1, <2>1, CrossWaitStays DEF IInv
  <2>3. Frozen => Frozen'
    BY <1>1, <2>1, FrozenStays DEF IInv
  <2> QED
    BY <2>2, <2>3
<1> QED
  BY <1>1, Invariant, PTL DEF Spec, HangsForGood

=============================================================================
