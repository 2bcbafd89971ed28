---------------------------- MODULE MCConnection ----------------------------
(* Three handles: a listener, a connection, and one more for an orphan or a  *)
(* connection that the stats writer still holds.                             *)
EXTENDS Connection

CONSTANTS h1, h2, h3

MCHandles == {h1, h2, h3}

Cfg(kinds, listens, reconnect) ==
  [kind : kinds, listens : listens, reconnect : reconnect,
   closeListener : BOOLEAN, writeStats : BOOLEAN]

\* A UDP socket and an unusable URL have no mode: they never listen.
AllConfigs == Cfg({"srt", "group"}, BOOLEAN, BOOLEAN)
                \cup Cfg({"udp", "bad"}, {FALSE}, BOOLEAN)

ListenerConfigs == Cfg({"srt"}, {TRUE}, {TRUE})
=============================================================================
