------------------------------ MODULE MCLibrary ------------------------------
(* Library for TLC: the values of the constants are in the .cfg file. *)
EXTENDS Library
=============================================================================
