--------------------------- MODULE MCFileTransfer ---------------------------
(* Two files of up to three units.  A first segment holds one unit and the  *)
(* others two, so that a file can be empty, end inside a segment, or end    *)
(* exactly with its first or its second segment.                            *)
EXTENDS FileTransfer
=============================================================================
