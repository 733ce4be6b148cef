------------------------------- MODULE Signing -------------------------------
(***************************************************************************)
(* Runs of "ddfb sign" and "ddfb create" against one .ddf file.  Every run *)
(* is an operating system process; a step is one system call on the file,  *)
(* or the computation between two of them (ECC_Sign of Bundle).  There is  *)
(* no lock, no temporary file and no rename: the file is truncated and     *)
(* written in place, by stdio, whole blocks first and the rest in fclose,  *)
(* and it is read block by block.  A block, and a write that is cut short, *)
(* may end inside a key or a signature (Torn).                             *)
(***************************************************************************)
EXTENDS Bundle

CONSTANTS
  Signers,     \* processes that run "sign"
  Creators,    \* processes that run "create"
  KeyOf,       \* the key a signer signs with
  PayloadOf,   \* the DDFB payload a creator stores
  Initial,     \* the file before the first run, one of these
  Block,       \* cells of a stdio block
  MaxRuns,     \* bound: runs of each process
  Exclusive,   \* runs follow one another, as one user types them
  CanFail,     \* fopen, fwrite and fclose may fail: read-only file, full disk
  CanCrash     \* a run may be killed between two steps

Procs == Signers \cup Creators

ASSUME ProcAssumption ==
  /\ Signers \cap Creators = {}
  /\ KeyOf \in [Signers -> Keys]
  /\ PayloadOf \in [Creators -> Seq(Nat)]
  /\ Block \in Nat \ {0}
  /\ MaxRuns \in Nat
  /\ {Exclusive, CanFail, CanCrash} \subseteq BOOLEAN

\* The file before the first run is one that "create" has stored.
ASSUME InitialAssumption ==
  \A f \in Initial : f \in Seq(Nat) /\ f = Unsigned(SubSeq(f, 5, Len(f)))

VARIABLES
  disk,      \* the .ddf file
  pc,        \* where each process is; "idle" between two runs
  size,      \* statbuf.size, see Size
  data,      \* ddf_data, as far as it was read; from "open" on, the file to write
  code,      \* how the last run ended: exit status 0 is "ok", 1 is "fail"
  runs,      \* runs started
  \* what happened, for the properties
  stale,     \* processes whose look at the file another one has overtaken
  raced,     \* a process wrote the file although its data was stale
  clash,     \* two processes had the file open for writing at the same time
  mixed,     \* a process emptied the file while another one was reading it
  fault,     \* a write was cut short, and no create has replaced the file since
  promised   \* keys for which a run exited with 0 since the last create

vars ==
  <<disk, pc, size, data, code, runs, stale, raced, clash, mixed, fault, promised>>
hist == <<stale, raced, clash, mixed, fault, promised>>

\* Cells written over a file at an offset; a gap reads as zeros.
Overlay(f, off, cells) ==
  LET end == off + Len(cells)
  IN  IF cells = <<>> THEN f
      ELSE [i \in 1 .. (IF end > Len(f) THEN end ELSE Len(f)) |->
              IF i \in off + 1 .. end THEN cells[i - off] ELSE Get(f, Len(f), i - 1)]

\* Cells of f that fwrite hands to the kernel at once; the rest waits for fclose.
Blocks(f) == Block * (Len(f) \div Block)

\* The cells of a file that are keys and signatures.
Fields(f) == {p + i : p \in EntryPositions(f), i \in {2, 4}}

\* What can be on its way to the file when the cells of f behind the first m are
\* written as far as the n-th: a key or signature may be cut.
Parts(f, m, n) ==
  {SubSeq(f, m + 1, n)}
  \cup {SubSeq(f, m + 1, n) \o <<Torn>> : i \in {n + 1} \cap Fields(f)}

\* What stat and ftell say of a file, two for a cell: one that ends inside a key or
\* signature is shorter than one where it is complete.
Size(f) == 2 * Len(f) - (IF f # <<>> /\ f[Len(f)] = Torn THEN 1 ELSE 0)

Writing(p) == pc[p] \in {"write", "flush"}

Goto(p, l) == pc' = [pc EXCEPT ![p] = l]

\* The end of a run: its memory is gone.
Exit(p, status) ==
  /\ Goto(p, "idle")
  /\ code' = [code EXCEPT ![p] = status]
  /\ size' = [size EXCEPT ![p] = 0]
  /\ data' = [data EXCEPT ![p] = <<>>]
  /\ stale' = stale \ {p}
  /\ promised' = IF status = "ok" /\ p \in Signers /\ p \notin stale
                 THEN promised \cup {KeyOf[p]} ELSE promised
  /\ UNCHANGED runs

\* main returns 0 when ECC_Sign or DDF_CreateBundle returned 1.  ECC_Sign does
\* whatever PL_WriteFile said; DDF_StoreBundle only when it returned 1.
WriteFailedStatus(p) == IF p \in Signers THEN "ok" ELSE "fail"

Init ==
  /\ disk \in Initial
  /\ pc = [p \in Procs |-> "idle"]
  /\ size = [p \in Procs |-> 0]
  /\ data = [p \in Procs |-> <<>>]
  /\ code = [p \in Procs |-> "none"]
  /\ runs = [p \in Procs |-> 0]
  /\ stale = {} /\ promised = {}
  /\ raced = FALSE /\ clash = FALSE /\ mixed = FALSE /\ fault = FALSE

-----------------------------------------------------------------------------
(* A run begins: sign has loaded its key file, create has built the bundle *)
(* in memory.                                                              *)

Begin(p) ==
  /\ pc[p] = "idle" /\ runs[p] < MaxRuns
  /\ Exclusive => \A q \in Procs : pc[q] = "idle"
  /\ runs' = [runs EXCEPT ![p] = @ + 1]
  /\ code' = [code EXCEPT ![p] = "none"]

StartSign(p) ==
  /\ p \in Signers
  /\ Begin(p)
  /\ Goto(p, "stat")
  /\ UNCHANGED <<disk, size, data, hist>>

StartCreate(p) ==
  /\ p \in Creators
  /\ Begin(p)
  /\ Goto(p, "open")
  /\ data' = [data EXCEPT ![p] = Unsigned(PayloadOf[p])]
  /\ UNCHANGED <<disk, size, hist>>

\* Mutant of KeyFails: the run exits with 0.
KeyFailsUnnoticed(p) ==
  /\ pc[p] = "stat"
  /\ Exit(p, "ok")
  /\ UNCHANGED <<disk, raced, clash, mixed, fault>>

\* The key file is missing, has not 32 bytes, or is not a key.
KeyFails(p) ==
  /\ pc[p] = "stat"
  /\ Exit(p, "fail")
  /\ UNCHANGED <<disk, raced, clash, mixed, fault>>

-----------------------------------------------------------------------------
(* ECC_Sign loads the file: PL_StatFile, then PL_LoadFile.                 *)

\* What p sees from here on is stale at once if somebody is writing.
StatBundle(p) ==
  /\ pc[p] = "stat"
  /\ Goto(p, "load")
  /\ size' = [size EXCEPT ![p] = Size(disk)]
  /\ stale' = IF \E q \in Procs : Writing(q) THEN stale \cup {p} ELSE stale
  /\ UNCHANGED <<disk, data, code, runs, raced, clash, mixed, fault, promised>>

\* fopen and ftell; a size other than statbuf.size is an error in the end.
OpenBundle(p) ==
  /\ pc[p] = "load"
  /\ Size(disk) = size[p]
  /\ Goto(p, "read")
  /\ UNCHANGED <<disk, size, data, code, runs, hist>>

\* Cells that fread wants, as many bytes as ftell said: of the last one it may want
\* the first bytes only.
Wanted(p) == (size[p] + 1) \div 2

\* Cells it can have from the file as it is now.
Readable(p) == IF Size(disk) >= size[p] THEN Wanted(p) ELSE Size(disk) \div 2

CellRead(p, i) == IF 2 * i > size[p] THEN Torn ELSE disk[i]

\* Where the next block that fread asks for ends, or the file.
BlockEnd(p) ==
  LET next == Block * (Len(data[p]) \div Block + 1)
  IN  IF next < Readable(p) THEN next ELSE Readable(p)

\* fread, one block or what there is of it.
ReadBlock(p) ==
  /\ pc[p] = "read"
  /\ Len(data[p]) < BlockEnd(p) \/ BlockEnd(p) = Wanted(p)
  /\ data' = [data EXCEPT ![p] =
                 [i \in 1 .. BlockEnd(p) |-> IF i \in DOMAIN @ THEN @[i] ELSE CellRead(p, i)]]
  /\ Goto(p, IF BlockEnd(p) = Wanted(p) THEN "sign" ELSE "read")
  /\ UNCHANGED <<disk, size, code, runs, hist>>

\* The file has another size than statbuf.size, or ends before as many bytes were read.
LoadFails(p) ==
  /\ \/ pc[p] = "load" /\ Size(disk) # size[p]
     \/ pc[p] = "read" /\ BlockEnd(p) <= Len(data[p]) /\ BlockEnd(p) < Wanted(p)
  /\ Exit(p, "fail")
  /\ UNCHANGED <<disk, raced, clash, mixed, fault>>

-----------------------------------------------------------------------------
(* ECC_Sign on the loaded file.                                            *)

Verdict(p) == ECC_Sign(data[p], KeyOf[p])

RejectBundle(p) ==
  /\ pc[p] = "sign"
  /\ Verdict(p).res = "invalid"
  /\ Exit(p, "fail")
  /\ UNCHANGED <<disk, raced, clash, mixed, fault>>

SignaturePresent(p) ==
  /\ pc[p] = "sign"
  /\ Verdict(p).res = "present"
  /\ Exit(p, "ok")
  /\ UNCHANGED <<disk, raced, clash, mixed, fault>>

AppendSignature(p) ==
  /\ pc[p] = "sign"
  /\ Verdict(p).res = "append"
  /\ data' = [data EXCEPT ![p] = Verdict(p).image]
  /\ Goto(p, "open")
  /\ UNCHANGED <<disk, size, code, runs, hist>>

-----------------------------------------------------------------------------
(* PL_WriteFile.                                                           *)

\* Mutant of OpenTruncates: the file is opened without emptying it.
OpenKeeps(p) ==
  /\ pc[p] = "open"
  /\ disk' = disk
  /\ Goto(p, "write")
  /\ stale' = stale \cup {q \in Signers \ {p} : pc[q] \notin {"idle", "stat"}}
  /\ raced' = (raced \/ p \in stale)
  /\ clash' = (clash \/ \E q \in Procs : Writing(q))
  /\ mixed' = (mixed \/ \E q \in Procs : pc[q] = "read")
  /\ promised' = IF p \in Creators THEN {} ELSE promised
  /\ UNCHANGED <<size, data, code, runs, fault>>

\* fopen with "wb" empties the file.
OpenTruncates(p) ==
  /\ pc[p] = "open"
  /\ disk' = <<>>
  /\ Goto(p, "write")
  /\ stale' = stale \cup {q \in Signers \ {p} : pc[q] \notin {"idle", "stat"}}
  /\ raced' = (raced \/ p \in stale)
  /\ clash' = (clash \/ \E q \in Procs : Writing(q))
  /\ mixed' = (mixed \/ \E q \in Procs : pc[q] = "read")
  /\ promised' = IF p \in Creators THEN {} ELSE promised
  /\ UNCHANGED <<size, data, code, runs, fault>>

OpenFails(p) ==
  /\ CanFail
  /\ pc[p] = "open"
  /\ Exit(p, WriteFailedStatus(p))
  /\ fault' = TRUE
  /\ UNCHANGED <<disk, raced, clash, mixed>>

WriteBlocks(p) ==
  /\ pc[p] = "write"
  /\ \E part \in Parts(data[p], 0, Blocks(data[p])) : disk' = Overlay(disk, 0, part)
  /\ Goto(p, "flush")
  /\ UNCHANGED <<size, data, code, runs, hist>>

WriteFails(p) ==
  /\ CanFail
  /\ pc[p] = "write"
  /\ \E n \in 0 .. Blocks(data[p]) - 1 :
       \E part \in Parts(data[p], 0, n) : disk' = Overlay(disk, 0, part)
  /\ Exit(p, WriteFailedStatus(p))
  /\ fault' = TRUE
  /\ UNCHANGED <<raced, clash, mixed>>

Rest(f) == SubSeq(f, Blocks(f) + 1, Len(f))

\* Mutant of FlushAndExit: what fwrite kept back never reaches the file.
ExitWithoutFlush(p) ==
  /\ pc[p] = "flush"
  /\ disk' = disk
  /\ Exit(p, "ok")
  /\ fault' = (fault /\ p \in Signers)
  /\ UNCHANGED <<raced, clash, mixed>>

FlushAndExit(p) ==
  /\ pc[p] = "flush"
  /\ disk' = Overlay(disk, Blocks(data[p]), Rest(data[p]))
  /\ Exit(p, "ok")
  /\ fault' = (fault /\ p \in Signers)
  /\ UNCHANGED <<raced, clash, mixed>>

\* The result of fclose is not looked at: the run ends as if all was written.
FlushFails(p) ==
  /\ CanFail
  /\ pc[p] = "flush"
  /\ \E n \in Blocks(data[p]) .. Len(data[p]) - 1 :
       \E part \in Parts(data[p], Blocks(data[p]), n) :
         disk' = Overlay(disk, Blocks(data[p]), part)
  /\ Exit(p, "ok")
  /\ fault' = TRUE
  /\ UNCHANGED <<raced, clash, mixed>>

-----------------------------------------------------------------------------
Crash(p) ==
  /\ CanCrash
  /\ pc[p] # "idle"
  /\ Exit(p, "killed")
  /\ fault' = (fault \/ Writing(p))
  /\ UNCHANGED <<disk, raced, clash, mixed>>

\* The steps that carry a run on to its end.
Advance(p) ==
  \/ StatBundle(p) \/ OpenBundle(p) \/ ReadBlock(p) \/ LoadFails(p)
  \/ RejectBundle(p) \/ SignaturePresent(p) \/ AppendSignature(p)
  \/ OpenTruncates(p) \/ WriteBlocks(p) \/ FlushAndExit(p)

Trouble(p) ==
  KeyFails(p) \/ OpenFails(p) \/ WriteFails(p) \/ FlushFails(p) \/ Crash(p)

Done ==
  /\ \A p \in Procs : pc[p] = "idle" /\ runs[p] = MaxRuns
  /\ UNCHANGED vars

Next ==
  \/ \E p \in Procs : StartSign(p) \/ StartCreate(p) \/ Advance(p) \/ Trouble(p)
  \/ Done

Spec == Init /\ [][Next]_vars

\* A process that runs is scheduled, and no system call blocks for ever.
FairSpec == Spec /\ \A p \in Procs : WF_vars(Advance(p))

-----------------------------------------------------------------------------
(* Properties.                                                             *)

Labels == {"idle", "stat", "load", "read", "sign", "open", "write", "flush"}

\* Types of the variables.
TypeOK ==
  /\ disk \in Seq(Nat)
  /\ pc \in [Procs -> Labels]
  /\ size \in [Procs -> Nat]
  /\ data \in [Procs -> Seq(Nat)]
  /\ code \in [Procs -> {"none", "ok", "fail", "killed"}]
  /\ runs \in [Procs -> 0 .. MaxRuns]
  /\ stale \subseteq Signers
  /\ promised \subseteq Keys
  /\ {raced, clash, mixed, fault} \subseteq BOOLEAN

\* Nobody has the file open for writing: what is on disk stays there for now.
Settled == \A p \in Procs : ~Writing(p)

\* A signature a run reported with exit status 0 is in the file, until "create"
\* replaces the bundle, an I/O error or a kill cuts a write short, a run writes
\* what it computed from a file another run has replaced meanwhile, or two runs
\* mix their files: what is behind the payload then may pass for a SIGN chunk.
NothingLost ==
  Settled /\ ~raced /\ ~clash /\ ~fault => promised \subseteq SignersOf(disk)

\* Concurrent runs may lose signatures, but they leave no wrong one behind, and not
\* even for a moment: as long as no two had the file open for writing together and none
\* emptied it while another one was reading it, every entry of the file verifies for the
\* bundle it is in, unless its signature is missing or cut: a run may sign a file that
\* another one is still writing, or that a kill or an error left so.
EntriesVerify ==
  ~clash /\ ~mixed =>
    \A p \in EntryPositions(disk) :
      \/ disk[p + 4] \in {0, Torn}
      \/ Verifies(disk[p + 4], disk[p + 2], RegionOf(disk))

\* The regions a hash may be computed over: those of the stored payloads.
Genuine ==
  {RegionOf(f) : f \in Initial} \cup {RegionOf(Unsigned(PayloadOf[c])) : c \in Creators}

\* What a run signs is the whole DDFB chunk of some "create".
SignsBundles ==
  \A p \in Signers : pc[p] \in {"open", "write", "flush"} => RegionOf(data[p]) \in Genuine

\* No run signs a DDFB chunk that was cut or is still being written: what gets a
\* signature is the whole payload of some "create", unless two runs that had the
\* file open for writing together have mixed theirs, or a run read the file while
\* another one began to write it anew.
OnlyGenuineSigned == ~clash /\ ~mixed => SignsBundles

\* A run does not add a second entry of its key: "The signature is appended
\* only if it doesn't exist yet" (ddfb.c 1646).
NoDuplicates ==
  Settled => \A p, q \in EntryPositions(disk) : disk[p + 2] = disk[q + 2] => p = q

\* The keys whose signature the next run would find.
Found(f) == {k \in Keys : ECC_FindSignature(f, k, RegionOf(f))}

\* After kills and errors, runs that follow one another still do no damage: a signer
\* opens for writing only what it has read as a bundle, and each signature that could
\* be found in the file can be found in the new one.  Its own may be behind a hole,
\* where the scan does not come, or not be there for want of room.
FoundStaysFound ==
  [][\A p \in Signers :
       OpenTruncates(p) => IsBundle(disk) /\ Found(disk) \subseteq Found(data[p])]_vars

\* "The sign command adds the signature over a bundle to the .ddf file"
\* (README.md 50): a run that exits with 0 leaves its signature in the file.
SignReportsTruth ==
  [][\A p \in Signers :
       code[p] = "none" /\ code'[p] = "ok" => KeyOf[p] \in SignersOf(disk')]_vars

\* "creates a standalone file" (README.md 34): create exits with 0 only when the
\* file is the whole bundle.
CreateReportsTruth ==
  [][\A p \in Creators :
       code[p] = "none" /\ code'[p] = "ok" => disk' = Unsigned(PayloadOf[p])]_vars

-----------------------------------------------------------------------------
(* Runs that follow one another, without I/O errors, keep the ledger: the  *)
(* bundle is the one being written from the moment it is truncated.        *)

Current ==
  IF Settled THEN disk ELSE data[CHOOSE p \in Procs : Writing(p)]

Ledger ==
  INSTANCE SignLedger WITH
    Payloads <- Genuine,
    PayloadOf <- [c \in Creators |-> RegionOf(Unsigned(PayloadOf[c]))],
    payload <- RegionOf(Current),
    signed <- SignersOf(Current)

KeepsLedger == Ledger!Spec
=============================================================================
