---------------------------- MODULE MCStateArena ----------------------------
(* Small instances of StateArena for TLC. *)
EXTENDS StateArena
=============================================================================
