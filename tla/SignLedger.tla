----------------------------- MODULE SignLedger -----------------------------
(***************************************************************************)
(* What the commands promise about one bundle: it has a payload and a set  *)
(* of keys that signed it.  "create" replaces the payload and leaves the   *)
(* bundle unsigned; "sign" adds its key, or leaves the bundle alone, and   *)
(* exits with 0 only when the bundle is signed by its key.                 *)
(***************************************************************************)
CONSTANTS
  Keys,        \* private keys
  Payloads,    \* what a bundle can hold
  Signers,     \* processes that run "sign"
  Creators,    \* processes that run "create"
  KeyOf,       \* the key of a signer
  PayloadOf    \* the payload of a creator

VARIABLES payload, signed, code

vars == <<payload, signed, code>>

Procs == Signers \cup Creators

Codes == {"none", "ok", "fail", "killed"}

TypeOK ==
  /\ payload \in Payloads
  /\ signed \subseteq Keys
  /\ code \in [Procs -> Codes]

Init ==
  /\ payload \in Payloads
  /\ signed \subseteq Keys
  /\ code = [p \in Procs |-> "none"]

Start(p) ==
  /\ code' = [code EXCEPT ![p] = "none"]
  /\ UNCHANGED <<payload, signed>>

Sign(p) ==
  /\ p \in Signers
  /\ code[p] = "none"
  /\ signed' = signed \cup {KeyOf[p]}
  /\ UNCHANGED <<payload, code>>

Create(p) ==
  /\ p \in Creators
  /\ code[p] = "none"
  /\ payload' = PayloadOf[p]
  /\ signed' = {}
  /\ UNCHANGED code

\* Exit with 0: the bundle is what the command says it is.
Succeed(p) ==
  /\ code[p] = "none"
  /\ p \in Signers => KeyOf[p] \in signed
  /\ p \in Creators => payload = PayloadOf[p]
  /\ code' = [code EXCEPT ![p] = "ok"]
  /\ UNCHANGED <<payload, signed>>

Fail(p) ==
  /\ code[p] = "none"
  /\ code' = [code EXCEPT ![p] = "fail"]
  /\ UNCHANGED <<payload, signed>>

Next == \E p \in Procs : Start(p) \/ Sign(p) \/ Create(p) \/ Succeed(p) \/ Fail(p)

Spec == Init /\ [][Next]_vars
=============================================================================
