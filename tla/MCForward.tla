----------------------------- MODULE MCForward -----------------------------
(* Up to two messages in each direction of a session: one can be held or    *)
(* wait for room while another is behind it.                                *)
EXTENDS Forward
=============================================================================
