------------------------- MODULE MCLibraryCallbacks -------------------------
(* A small instance of LibraryCallbacks and its table. *)
EXTENDS LibraryCallbacks

CONSTANT string
Keys == {string, PosZero, NegZero, 2, 3}
=============================================================================
