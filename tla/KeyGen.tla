------------------------------- MODULE KeyGen -------------------------------
(***************************************************************************)
(* Runs of "ddfb keygen" on one key name, and the runs of "ddfb sign" that *)
(* load the private key meanwhile.  A step is a system call, or the        *)
(* computation between two of them.  A file is a sequence of cells that    *)
(* say which key they belong to; a missing file and an empty one are both  *)
(* <<>>, since no reader tells them apart.                                 *)
(***************************************************************************)
EXTENDS Integers, Sequences

CONSTANTS
  Keygens,     \* processes that run "keygen"
  Signers,     \* processes that run "sign" with that key
  OldKeys,     \* keys that earlier runs made
  KeyLen,      \* cells of a private key, 32 bytes; a public key has one more
  PathLengths, \* "short", "long" without room for ".pub", or "longer" than a path
  MaxRuns,     \* bound: runs of each process
  CanFail,     \* fopen and fclose may fail, /dev/urandom may be missing
  CanCrash     \* a run may be killed between two steps

Procs == Keygens \cup Signers

ASSUME KeyGenAssumption ==
  /\ Keygens \cap Signers = {}
  /\ KeyLen \in Nat \ {0}
  /\ PathLengths \subseteq {"short", "long", "longer"}
  /\ MaxRuns \in Nat
  /\ {CanFail, CanCrash} \subseteq BOOLEAN

VARIABLES
  pathLength, \* of the key name, one of PathLengths
  files,      \* what is at the path of the private and of the public key, and elsewhere
  pc,         \* where each process is; "idle" between two runs
  random,     \* what PL_FillRandom has in its buffer: "zero" somewhere, or "good"
  result,     \* result of ECC_CreateKeyPair
  key,        \* private_key of a signer
  code,       \* how the last run ended: exit status 0 is "ok", 1 is "fail"
  runs,       \* runs started; the key of a run is named by process and run
  \* what happened, for the properties
  alone,      \* keygen processes whose last run no other one overlapped
  cut,        \* keygen processes whose last run lost data when closing a file
  spoilt,     \* such a file held data of another run
  last        \* the keygen processes that ended last, at most one

vars == <<pathLength, files, pc, random, result, key, code, runs, alone, cut, spoilt, last>>
hist == <<alone, cut, spoilt, last>>

Key(p) == <<p, runs[p]>>

PrivateFile(k) == [i \in 1 .. KeyLen |-> <<"private", k>>]
PublicFile(k) == [i \in 1 .. KeyLen + 1 |-> <<"public", k>>]

\* The names the keys are written to.  U_sstream_put_str drops a string that does
\* not fit: a path without room for ".pub" stays as it is, and of one that is
\* longer nothing is put, so that outpath is used although it was never set.
PrivatePath == IF pathLength = "longer" THEN "elsewhere" ELSE "private"

PublicPath ==
  IF pathLength = "longer" THEN "elsewhere"
  ELSE IF pathLength = "long" THEN "private" ELSE "public"

Goto(p, l) == pc' = [pc EXCEPT ![p] = l]

Exit(p, status) ==
  /\ Goto(p, "idle")
  /\ code' = [code EXCEPT ![p] = status]
  /\ random' = [random EXCEPT ![p] = "zero"]
  /\ result' = [result EXCEPT ![p] = 0]
  /\ key' = [key EXCEPT ![p] = <<>>]
  /\ last' = IF p \in Keygens THEN {p} ELSE last
  /\ UNCHANGED <<pathLength, runs, alone>>

\* main returns 0 when both files were written.
Status(n) == IF n = 2 THEN "ok" ELSE "fail"

\* There may be both files of an earlier pair, or one of them.
InitialFiles ==
  [private : {<<>>} \cup {PrivateFile(k) : k \in OldKeys},
   public : {<<>>} \cup {PublicFile(k) : k \in OldKeys},
   elsewhere : {<<>>}]

Init ==
  /\ pathLength \in PathLengths
  /\ files \in InitialFiles
  /\ pc = [p \in Procs |-> "idle"]
  /\ random = [p \in Procs |-> "zero"]
  /\ result = [p \in Procs |-> 0]
  /\ key = [p \in Procs |-> <<>>]
  /\ code = [p \in Procs |-> "none"]
  /\ runs = [p \in Procs |-> 0]
  /\ alone = {} /\ cut = {} /\ spoilt = FALSE /\ last = {}

Running == {q \in Keygens : pc[q] # "idle"}

Start(p) ==
  /\ pc[p] = "idle" /\ runs[p] < MaxRuns
  /\ runs' = [runs EXCEPT ![p] = @ + 1]
  /\ code' = [code EXCEPT ![p] = "none"]
  /\ Goto(p, IF p \in Keygens THEN "source" ELSE "stat")
  /\ alone' = IF p \notin Keygens THEN alone ELSE IF Running = {} THEN {p} ELSE {}
  /\ cut' = cut \ {p}
  /\ UNCHANGED <<pathLength, files, random, result, key, spoilt, last>>

-----------------------------------------------------------------------------
(* PL_FillRandom, called by uECC_make_key.                                 *)

OpenSource(p) ==
  /\ pc[p] = "source"
  /\ Goto(p, "draw")
  /\ UNCHANGED <<pathLength, files, random, result, key, code, runs, hist>>

\* No /dev/urandom: uECC_make_key fails.
NoSource(p) ==
  /\ CanFail
  /\ pc[p] = "source"
  /\ Exit(p, "fail")
  /\ UNCHANGED <<files, cut, spoilt>>

\* fread, whose result is ignored: a byte that is zero, or was not read.
DrawZero(p) ==
  /\ pc[p] = "draw"
  /\ random' = [random EXCEPT ![p] = "zero"]
  /\ Goto(p, "scan")
  /\ UNCHANGED <<pathLength, files, result, key, code, runs, hist>>

DrawGood(p) ==
  /\ pc[p] = "draw"
  /\ random' = [random EXCEPT ![p] = "good"]
  /\ Goto(p, "scan")
  /\ UNCHANGED <<pathLength, files, result, key, code, runs, hist>>

\* Mutant of DrawAgain: the source is opened again, whatever has been drawn.
DrawForEver(p) ==
  /\ pc[p] = "scan"
  /\ Goto(p, "source")
  /\ UNCHANGED <<pathLength, files, random, result, key, code, runs, hist>>

DrawAgain(p) ==
  /\ pc[p] = "scan"
  /\ random[p] = "zero"
  /\ Goto(p, "draw")
  /\ UNCHANGED <<pathLength, files, random, result, key, code, runs, hist>>

MakeKey(p) ==
  /\ pc[p] = "scan"
  /\ random[p] = "good"
  /\ Goto(p, "open_private")
  /\ UNCHANGED <<pathLength, files, random, result, key, code, runs, hist>>

-----------------------------------------------------------------------------
(* ECC_CreateKeyPair stores the keys; a file is smaller than a stdio block, *)
(* so that fwrite succeeds and fclose writes it.                            *)

OpenFile(p, at, path) ==
  /\ pc[p] = at
  /\ files' = [files EXCEPT ![path] = <<>>]
  /\ Goto(p, IF at = "open_private" THEN "close_private" ELSE "close_public")
  /\ UNCHANGED <<pathLength, random, result, key, code, runs, hist>>

\* Cells written over a file from its start.
Over(f, cells) == cells \o SubSeq(f, Len(cells) + 1, Len(f))

Cut(p, path) ==
  /\ cut' = cut \cup {p}
  /\ spoilt' = (spoilt \/ files[path] # <<>>)

OpenPrivate(p) == OpenFile(p, "open_private", PrivatePath)

\* Mutant of PrivateFails: a file that could not be opened counts as written.
PrivateFailsUnnoticed(p) ==
  /\ pc[p] = "open_private" /\ (CanFail \/ pathLength = "longer")
  /\ Goto(p, "open_public")
  /\ result' = [result EXCEPT ![p] = 1]
  /\ UNCHANGED <<pathLength, files, random, key, code, runs, hist>>

\* fopen fails, of a name never set for any reason; the public key is stored all
\* the same.
PrivateFails(p) ==
  /\ pc[p] = "open_private" /\ (CanFail \/ pathLength = "longer")
  /\ Goto(p, "open_public")
  /\ UNCHANGED <<pathLength, files, random, result, key, code, runs, hist>>

ClosePrivate(p) ==
  /\ pc[p] = "close_private"
  /\ files' = [files EXCEPT ![PrivatePath] = Over(@, PrivateFile(Key(p)))]
  /\ result' = [result EXCEPT ![p] = 1]
  /\ Goto(p, "open_public")
  /\ UNCHANGED <<pathLength, random, key, code, runs, hist>>

\* fclose writes less; its result is not looked at.
ClosePrivateFails(p) ==
  /\ CanFail
  /\ pc[p] = "close_private"
  /\ \E n \in 0 .. KeyLen - 1 :
       files' = [files EXCEPT ![PrivatePath] = Over(@, SubSeq(PrivateFile(Key(p)), 1, n))]
  /\ result' = [result EXCEPT ![p] = 1]
  /\ Cut(p, PrivatePath)
  /\ Goto(p, "open_public")
  /\ UNCHANGED <<pathLength, random, key, code, runs, alone, last>>

OpenPublic(p) == OpenFile(p, "open_public", PublicPath)

PublicFails(p) ==
  /\ pc[p] = "open_public" /\ (CanFail \/ pathLength = "longer")
  /\ Exit(p, Status(result[p]))
  /\ UNCHANGED <<files, cut, spoilt>>

ClosePublic(p) ==
  /\ pc[p] = "close_public"
  /\ files' = [files EXCEPT ![PublicPath] = Over(@, PublicFile(Key(p)))]
  /\ Exit(p, Status(result[p] + 1))
  /\ UNCHANGED <<cut, spoilt>>

ClosePublicFails(p) ==
  /\ CanFail
  /\ pc[p] = "close_public"
  /\ \E n \in 0 .. KeyLen :
       files' = [files EXCEPT ![PublicPath] = Over(@, SubSeq(PublicFile(Key(p)), 1, n))]
  /\ Exit(p, Status(result[p] + 1))
  /\ Cut(p, PublicPath)

-----------------------------------------------------------------------------
(* ECC_Sign loads the private key: PL_StatFile, then PL_LoadFile.          *)

\* No file can have the name that is longer than a path.
KeyFile == IF pathLength = "longer" THEN <<>> ELSE files["private"]

StatKey(p) ==
  /\ pc[p] = "stat"
  /\ Len(KeyFile) = KeyLen
  /\ Goto(p, "load")
  /\ UNCHANGED <<pathLength, files, random, result, key, code, runs, hist>>

\* fopen and ftell; another size than statbuf.size is an error in the end.
OpenKey(p) ==
  /\ pc[p] = "load"
  /\ Len(KeyFile) = KeyLen
  /\ Goto(p, "read")
  /\ UNCHANGED <<pathLength, files, random, result, key, code, runs, hist>>

\* Mutant of ReadKey: the result of fread is not compared with the size.
ReadSome(p) ==
  /\ pc[p] = "read"
  /\ key' = [key EXCEPT ![p] = SubSeq(KeyFile \o [i \in 1 .. KeyLen |-> <<"stack", <<>>>>], 1, KeyLen)]
  /\ Goto(p, "sign")
  /\ UNCHANGED <<pathLength, files, random, result, code, runs, hist>>

ReadKey(p) ==
  /\ pc[p] = "read"
  /\ Len(KeyFile) >= KeyLen
  /\ key' = [key EXCEPT ![p] = SubSeq(KeyFile, 1, KeyLen)]
  /\ Goto(p, "sign")
  /\ UNCHANGED <<pathLength, files, random, result, code, runs, hist>>

KeyFails(p) ==
  /\ \/ pc[p] \in {"stat", "load"} /\ Len(KeyFile) # KeyLen
     \/ pc[p] = "read" /\ Len(KeyFile) < KeyLen
     \/ pc[p] \in {"stat", "load", "read"} /\ CanFail
  /\ Exit(p, "fail")
  /\ UNCHANGED <<files, cut, spoilt>>

\* The rest of ECC_Sign is in module Signing.
UseKey(p) ==
  /\ pc[p] = "sign"
  /\ Exit(p, "ok")
  /\ UNCHANGED <<files, cut, spoilt>>

-----------------------------------------------------------------------------
Crash(p) ==
  /\ CanCrash
  /\ pc[p] # "idle"
  /\ Exit(p, "killed")
  /\ UNCHANGED <<files, cut, spoilt>>

\* The steps that carry a run on, but for the draw.
Advance(p) ==
  \/ OpenSource(p) \/ DrawAgain(p) \/ MakeKey(p)
  \/ OpenPrivate(p) \/ PrivateFails(p) \/ ClosePrivate(p)
  \/ OpenPublic(p) \/ PublicFails(p) \/ ClosePublic(p)
  \/ StatKey(p) \/ OpenKey(p) \/ ReadKey(p) \/ KeyFails(p) \/ UseKey(p)

Trouble(p) ==
  NoSource(p) \/ ClosePrivateFails(p) \/ ClosePublicFails(p) \/ Crash(p)

Done ==
  /\ \A p \in Procs : pc[p] = "idle" /\ runs[p] = MaxRuns
  /\ UNCHANGED vars

Next ==
  \/ \E p \in Procs :
       Start(p) \/ Advance(p) \/ DrawZero(p) \/ DrawGood(p) \/ Trouble(p)
  \/ Done

\* Processes are scheduled, system calls return, and the source yields bytes: 32
\* of them are free of zeros with a probability of 88 %, hence now and then.
Spec ==
  /\ Init /\ [][Next]_vars
  /\ \A p \in Procs :
       WF_vars(Advance(p) \/ DrawZero(p) \/ DrawGood(p)) /\ SF_vars(DrawGood(p))

-----------------------------------------------------------------------------
(* Properties.                                                             *)

\* A private key and its public key, each complete.
IsPairOf(p) ==
  /\ files["private"] = PrivateFile(Key(p))
  /\ files["public"] = PublicFile(Key(p))

\* "The keygen command creates two files which contain the private and public
\* keys" (README.md 42): whatever happened to the files before, after a run that
\* ended with exit status 0 they are the two keys it made; provided that no
\* other keygen overlapped it, no fclose failed, and the path is short enough.
PairReported ==
  \A p \in last :
    Running = {} /\ p \in alone /\ p \notin cut /\ pathLength = "short" /\ code[p] = "ok" =>
      IsPairOf(p)

\* A signer uses only a whole private key that some run made, although the file
\* is emptied and written while it loads it, by keygen processes that fail, are
\* killed and overlap; but for a key of which fclose left a part over one that
\* another run had put there meanwhile, and for a path with no room for ".pub",
\* where a signer can meet the public key.
WholeKeysUsed ==
  \A s \in Signers :
    pc[s] = "sign" /\ ~spoilt /\ pathLength # "long" =>
      \E k \in OldKeys \cup (Keygens \X (1 .. MaxRuns)) : key[s] = PrivateFile(k)

\* Every run ends, keygen because some draw has no zero in it.
RunsEnd == \A p \in Procs : pc[p] # "idle" ~> pc[p] = "idle"
=============================================================================
