----------------------------- MODULE MCPipeline -----------------------------
(* Pipeline for TLC: the options that the .cfg files choose from. *)
EXTENDS Pipeline

\* Replies and a duration are one too many for TLC to follow together.
ReplyOrTimed == {c \in Options : c.reply # c.timed}
=============================================================================
