------------------------------- MODULE MCMdio -------------------------------
(* A small instance of MdioController for TLC. *)
EXTENDS MdioController

MCVals == {0, 1}
=============================================================================
