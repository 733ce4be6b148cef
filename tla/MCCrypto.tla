------------------------------ MODULE MCCrypto ------------------------------
(* Small numbers for public keys and signatures: keys are 1..9, and a        *)
(* region is told from every other one the model instances use.             *)
EXTENDS Integers, SequencesExt

MCPubKey(k) == 200 + k

MCHash(r) == FoldLeft(LAMBDA h, c : (31 * h + c) % 9973, 0, r)

MCSignature(k, r) == 10000 * k + MCHash(r)
=============================================================================
