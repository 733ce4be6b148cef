------------------------------ MODULE MCKeyGen ------------------------------
(* Values for KeyGen: the processes are model values of MCKeyGen.cfg.      *)
EXTENDS KeyGen

CONSTANTS k1, k2, s1

MCOldKeys == {<<k1, 0>>}
=============================================================================
