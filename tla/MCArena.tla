------------------------------ MODULE MCArena ------------------------------
(* Small arenas: blocks of three bytes, requests from none to more than one. *)
EXTENDS Arena
=============================================================================
