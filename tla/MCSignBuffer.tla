---------------------------- MODULE MCSignBuffer ----------------------------
(* Values for SignBuffer: three keys, two payloads, every bundle with up to *)
(* two entries cut off anywhere, and files of other layouts.                *)
EXTENDS SignBuffer, MCCrypto

Payloads == {<<5>>, <<6, 7>>}

\* The bundle of a payload with the entries of ks.
SignedBundle(payload, ks) ==
  LET ddfb    == <<DDFB, Len(payload)>> \o payload
      entries == FlattenSeq([i \in DOMAIN ks |-> Entry(ks[i], ddfb)])
      sign    == IF ks = <<>> THEN <<>> ELSE <<SIGN, Len(entries)>> \o entries
  IN  <<RIFF, Len(ddfb) + Len(sign)>> \o ddfb \o sign

Signings == {<<>>, <<1>>, <<2>>, <<1, 2>>, <<2, 1>>}

Bundles == {SignedBundle(p, ks) : p \in Payloads, ks \in Signings}

\* What a write that ended early leaves.
Cut == UNION {{SubSeq(f, 1, n) : n \in 0 .. Len(f)} : f \in Bundles}

\* The same when it ended inside a key or a signature.
CutInside ==
  UNION {{SubSeq(f, 1, p + i - 1) \o <<Torn>> : p \in EntryPositions(f), i \in {2, 4}} :
           f \in Bundles}

Foreign == 9

Others ==
  {\* an entry of another format, and one over another payload
   <<RIFF, 9, DDFB, 1, 5, SIGN, 4, 32, 200, 64, 3>>,
   <<RIFF, 9, DDFB, 1, 5, SIGN, 4, 33, 201, 64, 3>>,
   \* entries behind a hole
   <<RIFF, 17, DDFB, 1, 5, SIGN, 12, 33, 202, 64, 3, 0, 0, 0, 0,
     33, 201, 64, MCSignature(1, <<DDFB, 1, 5>>)>>,
   \* a chunk of another kind between DDFB and SIGN
   <<RIFF, 11, DDFB, 1, 5, Foreign, 2, 8, 8, SIGN, 0>>,
   \* not bundles: no RIFF header, nothing behind it
   <<Foreign, 0, 0>>, <<Foreign, 0, DDFB, 0>>, <<RIFF, 0>>}

MCInputs == Bundles \cup Cut \cup CutInside \cup Others
=============================================================================
