------------------------------- MODULE MCArena -------------------------------
(***************************************************************************)
(* A small instance of Arena: an unsigned of 6 bits, blocks of 2 to 32     *)
(* bytes in tracks of which the last holds two sizes, and requests that    *)
(* are rounded up, used again, not used again, refused or never served.    *)
(***************************************************************************)
EXTENDS Arena, TLC

Symmetric == Permutations(Blocks) \cup Permutations(Buffers)
=============================================================================
