----------------------------- MODULE SignBuffer -----------------------------
(***************************************************************************)
(* ECC_Sign on the loaded file, loop by loop: every iteration of the chunk *)
(* walk in GetChunkRef, every entry ECC_FindSignature looks at and every   *)
(* field ECC_AppendSignature puts is a step.  One run of the program signs *)
(* one file with one key; both are chosen in Init.                         *)
(***************************************************************************)
EXTENDS Bundle

CONSTANT Inputs           \* files that may be loaded

\* The files are bundles as DDF_CreateBundle lays them out, with the DDFB chunk
\* first in the RIFF container, whole or cut off anywhere, signed or not; and
\* files that are something else.  What is behind the DDFB chunk is arbitrary.
ASSUME InputAssumption ==
  \A f \in Inputs :
    /\ f \in Seq(Nat)
    /\ Get(f, Len(f), Header) \in {DDFB, 0}

ASSUME SignatureAssumption ==
  \A f \in Inputs, k \in Keys :
    \A i, j \in 1 .. Len(f) :
      Signature(k, SubSeq(Padded(f), i, j)) \in Nat

VARIABLES
  file,      \* the file PL_LoadFile read
  key,       \* the private key
  buf,       \* ddf_data
  pc,        \* the call ECC_Sign is in
  walking,   \* TRUE inside the loop of GetChunkRef
  pos,       \* bs.pos of the current stream
  ok,        \* bs.status of ECC_AppendSignature's stream is U_BSTREAM_OK
  chunk,     \* what GetChunkRef returned last
  region,    \* the hashed cells, standing for sha256
  idx,       \* next field of the entry to put
  out,       \* out_ddf_size; 0 when nothing is to be written
  ret        \* what ECC_Sign returns, -1 while it runs

vars == <<file, key, buf, pc, walking, pos, ok, chunk, region, idx, out, ret>>

Calls == {"riff", "ddfb", "find", "scan", "sign", "base", "again", "entry",
          "done"}

\* The tag each call of GetChunkRef looks for.
Tag == CASE pc = "riff" -> RIFF
         [] pc \in {"ddfb", "base"} -> DDFB
         [] OTHER -> SIGN

\* ECC_FindSignature gets the size of the file, everybody else the buffer's.
Size == IF pc \in {"find", "scan"} THEN Len(file) ELSE Len(buf)

\* Call GetChunkRef with offset from, and continue as call.
CallGetChunkRef(call, from) ==
  /\ pc' = call
  /\ walking' = TRUE
  /\ pos' = from

Return(value) ==
  /\ pc' = "done"
  /\ ret' = value
  /\ UNCHANGED <<walking, pos>>

-----------------------------------------------------------------------------
Init ==
  /\ file \in Inputs
  /\ key \in Keys
  /\ buf = Padded(file)
  /\ pc = "riff" /\ walking = TRUE /\ pos = 0
  /\ ok = TRUE
  /\ chunk = NoChunk
  /\ region = <<>>
  /\ idx = 1
  /\ out = 0
  /\ ret = -1

-----------------------------------------------------------------------------
(* One iteration of the loop in GetChunkRef.                               *)

ChunkFound ==
  /\ walking
  /\ Get(buf, Size, pos) = Tag
  /\ chunk' = ChunkAt(buf, Size, pos)
  /\ walking' = FALSE
  /\ UNCHANGED <<file, key, buf, pc, pos, ok, region, idx, out, ret>>

ChunkMissing ==
  /\ walking
  /\ Get(buf, Size, pos) # Tag
  /\ Get(buf, Size, pos) = 0 \/ After(buf, Size, pos) >= Size
  /\ chunk' = NoChunk
  /\ walking' = FALSE
  /\ UNCHANGED <<file, key, buf, pc, pos, ok, region, idx, out, ret>>

\* Mutant of ChunkSkipped: the header is not skipped along with the data.
DataSkipped ==
  /\ walking
  /\ Get(buf, Size, pos) \notin {Tag, 0}
  /\ After(buf, Size, pos) < Size
  /\ pos' = pos + Get(buf, Size, pos + 1)
  /\ UNCHANGED <<file, key, buf, pc, walking, ok, chunk, region, idx, out, ret>>

ChunkSkipped ==
  /\ walking
  /\ Get(buf, Size, pos) \notin {Tag, 0}
  /\ After(buf, Size, pos) < Size
  /\ pos' = After(buf, Size, pos)
  /\ UNCHANGED <<file, key, buf, pc, walking, ok, chunk, region, idx, out, ret>>

-----------------------------------------------------------------------------
(* ECC_Sign up to the search for the signature.                            *)

CheckRIFF ==
  /\ pc = "riff" /\ ~walking
  /\ IF chunk.tag = 0
     THEN Return(0)
     ELSE CallGetChunkRef("ddfb", Header) /\ UNCHANGED ret
  /\ UNCHANGED <<file, key, buf, ok, chunk, region, idx, out>>

RejectDDFB ==
  /\ pc = "ddfb" /\ ~walking
  /\ chunk.tag = 0 \/ chunk.offset + chunk.size > Len(file)
  /\ Return(0)
  /\ UNCHANGED <<file, key, buf, ok, chunk, region, idx, out>>

HashDDFB ==
  /\ pc = "ddfb" /\ ~walking
  /\ chunk.tag # 0 /\ chunk.offset + chunk.size <= Len(file)
  /\ region' = Region(buf, chunk)
  /\ CallGetChunkRef("find", Header)
  /\ UNCHANGED <<file, key, buf, ok, chunk, idx, out, ret>>

-----------------------------------------------------------------------------
(* ECC_FindSignature: no signature of this key leads on to                 *)
(* ECC_AppendSignature, which looks for the SIGN chunk again.              *)

NoSignChunk ==
  /\ pc = "find" /\ ~walking
  /\ chunk.tag = 0
  /\ CallGetChunkRef("sign", Header)
  /\ UNCHANGED <<file, key, buf, ok, chunk, region, idx, out, ret>>

StartScan ==
  /\ pc = "find" /\ ~walking
  /\ chunk.tag # 0
  /\ pc' = "scan" /\ pos' = chunk.offset
  /\ UNCHANGED <<file, key, buf, walking, ok, chunk, region, idx, out, ret>>

\* The field f (0..3) of the entry at pos, read from the file.
Field(f) == Get(buf, Size, pos + f)

\* Mutant of InScan: the last entry is not looked at.
InScanButLast == pc = "scan" /\ pos + EntryLen < chunk.offset + chunk.size

InScan == pc = "scan" /\ pos < chunk.offset + chunk.size

WellFormedEntry == Field(0) = PubLen /\ Field(2) = SigLen

Present ==
  /\ WellFormedEntry
  /\ Field(1) = PubKey(key)
  /\ Verifies(Field(3), PubKey(key), region)

AlreadySigned ==
  /\ InScan /\ Present
  /\ Return(1)
  /\ UNCHANGED <<file, key, buf, ok, chunk, region, idx, out>>

\* Mutant of NextEntry: the two length prefixes are not skipped.
NextEntryShort ==
  /\ InScan /\ WellFormedEntry /\ ~Present
  /\ pos' = IF pos + 2 <= Size THEN pos + 2 ELSE Size
  /\ UNCHANGED <<file, key, buf, pc, walking, ok, chunk, region, idx, out, ret>>

NextEntry ==
  /\ InScan /\ WellFormedEntry /\ ~Present
  /\ pos' = IF pos + EntryLen <= Size THEN pos + EntryLen ELSE Size
  /\ UNCHANGED <<file, key, buf, pc, walking, ok, chunk, region, idx, out, ret>>

EndScan ==
  /\ pc = "scan"
  /\ ~InScan \/ ~WellFormedEntry
  /\ CallGetChunkRef("sign", Header)
  /\ UNCHANGED <<file, key, buf, ok, chunk, region, idx, out, ret>>

-----------------------------------------------------------------------------
(* ECC_AppendSignature.                                                    *)

\* Put v at pos; a put that does not fit makes every later one a no-op.
PutField(v) ==
  LET fits == ok /\ pos < Len(buf)
  IN  /\ buf' = IF fits THEN Put(buf, pos, v) ELSE buf
      /\ pos' = IF fits THEN pos + 1 ELSE pos
      /\ ok' = fits

\* Mutant of StartEntry: the chunk is written from its start.
StartEntryOver ==
  /\ pc' = "entry"
  /\ idx' = 1
  /\ pos' = chunk.offset

\* U_ASSERT(chunk.tag != 0), then bs.pos = chunk.offset + chunk.size.
StartEntry ==
  /\ pc' = "entry"
  /\ idx' = 1
  /\ pos' = chunk.offset + chunk.size

SignChunkLocated ==
  /\ pc \in {"sign", "again"} /\ ~walking
  /\ chunk.tag # 0
  /\ StartEntry
  /\ UNCHANGED <<file, key, buf, walking, ok, chunk, region, out, ret>>

FindBase ==
  /\ pc = "sign" /\ ~walking
  /\ chunk.tag = 0
  /\ CallGetChunkRef("base", Header)
  /\ UNCHANGED <<file, key, buf, ok, chunk, region, idx, out, ret>>

\* Mutants of NewSignChunk: the new chunk starts inside the DDFB chunk, or leaves
\* a gap behind it.
NewSignChunkInside ==
  /\ pc = "base" /\ ~walking
  /\ chunk.tag # 0
  /\ buf' = Put(Put(buf, chunk.size, SIGN), chunk.size + 1, 0)
  /\ ok' = TRUE
  /\ CallGetChunkRef("again", Header)
  /\ UNCHANGED <<file, key, chunk, region, idx, out, ret>>

NewSignChunkGap ==
  LET end == chunk.offset + chunk.size + 1
  IN  /\ pc = "base" /\ ~walking
      /\ chunk.tag # 0
      /\ buf' = Put(Put(buf, end, SIGN), end + 1, 0)
      /\ ok' = TRUE
      /\ CallGetChunkRef("again", Header)
      /\ UNCHANGED <<file, key, chunk, region, idx, out, ret>>

\* Both puts of the new header, then the walk that finds it.
NewSignChunk ==
  LET end  == chunk.offset + chunk.size
      room == end + Header <= Len(buf)
  IN  /\ pc = "base" /\ ~walking
      /\ chunk.tag # 0
      /\ buf' = Put(Put(buf, end, SIGN), end + 1, 0)
      /\ ok' = room
      /\ CallGetChunkRef("again", Header)
      /\ UNCHANGED <<file, key, chunk, region, idx, out, ret>>

PutEntryField ==
  /\ pc = "entry" /\ idx <= EntryLen
  /\ PutField(Entry(key, region)[idx])
  /\ idx' = idx + 1
  /\ UNCHANGED <<file, key, pc, walking, chunk, region, out, ret>>

\* Mutants of PatchSizes: the operands of the SIGN size are swapped; the RIFF
\* size is not updated.
PatchSizesSwapped ==
  /\ pc = "entry" /\ idx > EntryLen
  /\ buf' = IF ok
            THEN Put(Put(buf, chunk.offset - 1, chunk.offset - pos), 1, pos - Header)
            ELSE buf
  /\ out' = pos
  /\ Return(1)
  /\ UNCHANGED <<file, key, ok, chunk, region, idx>>

PatchSignSizeOnly ==
  /\ pc = "entry" /\ idx > EntryLen
  /\ buf' = IF ok THEN Put(buf, chunk.offset - 1, pos - chunk.offset) ELSE buf
  /\ out' = pos
  /\ Return(1)
  /\ UNCHANGED <<file, key, ok, chunk, region, idx>>

\* The SIGN size at chunk.offset - 4 and the RIFF size at 4, if the stream is
\* still good; ECC_Sign returns 1 in any case.
PatchSizes ==
  /\ pc = "entry" /\ idx > EntryLen
  /\ buf' = IF ok
            THEN Put(Put(buf, chunk.offset - 1, pos - chunk.offset), 1, pos - Header)
            ELSE buf
  /\ out' = pos
  /\ Return(1)
  /\ UNCHANGED <<file, key, ok, chunk, region, idx>>

Finished ==
  /\ pc = "done"
  /\ UNCHANGED vars

-----------------------------------------------------------------------------
Step ==
  \/ ChunkFound \/ ChunkMissing \/ ChunkSkipped
  \/ CheckRIFF \/ RejectDDFB \/ HashDDFB
  \/ NoSignChunk \/ StartScan \/ AlreadySigned \/ NextEntry \/ EndScan
  \/ FindBase \/ NewSignChunk \/ SignChunkLocated
  \/ PutEntryField \/ PatchSizes

Next == Step \/ Finished

Spec == Init /\ [][Next]_vars

FairSpec == Spec /\ WF_vars(Step)
-----------------------------------------------------------------------------
(* Properties.                                                             *)

\* Types of the variables: the buffer never changes its length, the streams
\* stay at non-negative positions and every cell stays a number.
TypeOK ==
  /\ file \in Inputs
  /\ key \in Keys
  /\ buf \in Seq(Nat) /\ Len(buf) = Room(file)
  /\ pc \in Calls
  /\ walking \in BOOLEAN
  /\ pos \in Nat
  /\ ok \in BOOLEAN
  /\ chunk \in [tag : Nat, size : Nat, offset : Nat]
  /\ idx \in 1 .. EntryLen + 1
  /\ out \in Nat
  /\ ret \in {-1, 0, 1}

\* Where the DDFB chunk ends and the SIGN chunk is expected.
PayloadEnd == After(file, Len(file), Header)

\* Signing leaves the signed data alone: whatever follows the DDFB chunk, no
\* header, entry or back-patched size is put into the DDFB chunk or over the
\* RIFF tag; before its end only the RIFF size (position 1) may change.
PayloadKept ==
  \A p \in 0 .. Len(buf) - 1 :
    p # 1 /\ p < PayloadEnd => buf[p + 1] = Get(file, Len(file), p)

\* The assertions of ECC_AppendSignature (ddfb.c 1403 and 1412) and of the
\* calls of GetChunkRef (offset < size) never fail.
AssertHolds ==
  /\ pc \in {"base", "again"} /\ ~walking => chunk.tag # 0
  /\ walking => pos < Size

\* The file handed to PL_WriteFile; cells behind the buffer are other memory.
Result == [i \in 1 .. out |-> Get(buf, out, i - 1)]

Appended == pc = "done" /\ out > 0

\* The SIGN chunk as it is found in the loaded buffer, before any change.
LoadedSign == GetChunkRef(file, Room(file), Header, SIGN)

\* The declared end of the SIGN chunk leaves room for one more entry.
SmallTear ==
  LoadedSign.offset + LoadedSign.size + EntryLen <= Room(file)

\* The reserved room is enough: if no more was cut off the file than the room
\* allows, every put succeeds and the file to write lies inside the buffer,
\* although ECC_Sign looks at neither.
RoomSuffices == Appended /\ SmallTear => ok /\ out <= Len(buf)

\* Every entry the file held, complete, inside its SIGN chunk is still there,
\* unchanged and inside the SIGN chunk of the file to write.
SignaturesKept ==
  Appended =>
    \A p \in EntryPositions(file) :
      /\ p \in EntryPositions(Result)
      /\ SubSeq(Result, p + 1, p + EntryLen) = SubSeq(file, p + 1, p + EntryLen)

\* The back-patched sizes are those of the file: RIFF covers all of it, and the
\* walk a reader makes finds a SIGN chunk that ends where the file ends.
SizesAgree ==
  Appended /\ SmallTear =>
    LET sign == GetChunkRef(Result, out, Header, SIGN)
    IN  /\ Result[2] = out - Header
        /\ sign.tag = SIGN
        /\ sign.offset + sign.size = out

\* The file is an uncut bundle: it begins with RIFF, and its SIGN chunk, if any,
\* follows the DDFB chunk, ends where the file ends and holds entries only.
Uncut ==
  LET sign == GetChunkRef(file, Len(file), Header, SIGN)
      n    == (Len(file) - sign.offset) \div EntryLen
  IN  /\ IsBundle(file) /\ file[1] = RIFF
      /\ \/ sign.tag = 0 /\ Len(file) = PayloadEnd
         \/ /\ sign.offset = PayloadEnd + Header
            /\ sign.offset + sign.size = Len(file)
            /\ sign.size = n * EntryLen
            /\ \A i \in 0 .. n - 1 : sign.offset + i * EntryLen \in EntryPositions(file)

\* "The signature is appended only if it doesn't exist yet" (ddfb.c 1646): for
\* an uncut bundle a first run makes the second one find the signature, and an
\* entry is appended only when the file had no valid one of this key.
SignedOnce ==
  pc = "done" /\ Uncut =>
    /\ ret = 1
    /\ out = 0 => key \in SignersOf(file)
    /\ out > 0 => /\ key \notin SignersOf(file)
                  /\ ECC_Sign(Result, key).res = "present"

\* The loops compute what the operators of Bundle define, for every file: the
\* same verdict and the same file to write.
RunsAsSpecified ==
  pc = "done" =>
    LET o == ECC_Sign(file, key)
    IN  /\ o.res = "invalid" <=> ret = 0
        /\ o.res = "present" <=> ret = 1 /\ out = 0
        /\ o.res = "append" => Result = o.image

\* Every run of ECC_Sign returns: the chunk walks and the scan end on any file
\* whose sizes do not wrap around.
Terminates == <>(pc = "done")
=============================================================================
