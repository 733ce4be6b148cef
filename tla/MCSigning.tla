------------------------------ MODULE MCSigning ------------------------------
(* Values for Signing: three signers, two of which share a key, or only    *)
(* two with keys of their own, and one process that creates the bundle     *)
(* anew with another payload.  The payload of the first bundle looks like  *)
(* a SIGN chunk, where the other one has ended.                            *)
EXTENDS Signing, MCCrypto

CONSTANTS s1, s2, s3, c1

MCKeyOf == [s \in Signers |-> IF s = s2 THEN 2 ELSE 1]

MCPayloadOf == [c \in Creators |-> <<6>>]

\* A payload as long as that of the first bundle, so that the file has the same size.
MCSamePayload == [c \in Creators |-> <<6, 7, 8>>]

MCInitial == {<<RIFF, 5, DDFB, 3, 5, SIGN, 50>>}
=============================================================================
