-------------------------- MODULE SignBuffer_proofs --------------------------
(***************************************************************************)
(* ECC_Sign, for every input file, key and amount of reserved room: it     *)
(* never changes the data it signs, and it computes what the operators of  *)
(* Bundle say.                                                             *)
(*                                                                         *)
(* PayloadKept: every put happens at or behind the end of the DDFB chunk   *)
(* because every walk for the SIGN chunk starts on the DDFB header and     *)
(* leaves it for the end of its chunk; that is what Placed says.           *)
(*                                                                         *)
(* RunsAsSpecified: the walk that is under way finds what the whole walk   *)
(* finds, the rest of the scan decides, and the buffer after n fields of   *)
(* the entry is known cell by cell; that is LoopInv.  The other invariants *)
(* follow from the file that is written, read back cell by cell.           *)
(***************************************************************************)
EXTENDS SignBuffer, Bundle_proofs

-----------------------------------------------------------------------------
(* The byte stream.                                                        *)

LEMMA CellType ==
  ASSUME NEW s \in Seq(Nat), NEW n \in Nat, NEW p \in Nat
  PROVE  Get(s, n, p) \in Nat
  BY DEF Get

LEMMA PutLemma ==
  ASSUME NEW s \in Seq(Nat), NEW p \in Nat, NEW v \in Nat
  PROVE  /\ Put(s, p, v) \in Seq(Nat)
         /\ Len(Put(s, p, v)) = Len(s)
         /\ \A i \in 1 .. Len(s) : Put(s, p, v)[i] = IF i = p + 1 THEN v ELSE s[i]
<1>1. /\ DOMAIN s = 1 .. Len(s)
      /\ Len(s) \in Nat
      /\ \A i \in 1 .. Len(s) : s[i] \in Nat
  OBVIOUS
<1>2. Put(s, p, v) = [i \in 1 .. Len(s) |-> IF i = p + 1 THEN v ELSE s[i]]
  BY <1>1 DEF Put
<1>3. \A i \in 1 .. Len(s) : (IF i = p + 1 THEN v ELSE s[i]) \in Nat
  BY <1>1
<1> QED
  BY <1>1, <1>2, <1>3

LEMMA PaddedLemma ==
  ASSUME NEW f \in Seq(Nat)
  PROVE  /\ Padded(f) \in Seq(Nat)
         /\ Len(Padded(f)) = Len(f) + Extra
         /\ \A p \in Nat : p < Len(f) + Extra => Padded(f)[p + 1] = Get(f, Len(f), p)
<1> DEFINE z == [i \in 1 .. Extra |-> 0]
<1>1. z \in Seq(Nat) /\ Len(z) = Extra /\ \A i \in 1 .. Extra : z[i] = 0
  BY ExtraAssumption
<1> HIDE DEF z
<1>2. Padded(f) = f \o z
  BY DEF Padded, z
<1>3. /\ f \o z \in Seq(Nat)
      /\ Len(f \o z) = Len(f) + Extra
      /\ \A i \in 1 .. Len(f) + Extra :
           (f \o z)[i] = IF i <= Len(f) THEN f[i] ELSE z[i - Len(f)]
  BY <1>1, ExtraAssumption
<1>4. ASSUME NEW p \in Nat, p < Len(f) + Extra
      PROVE  Padded(f)[p + 1] = Get(f, Len(f), p)
  <2>1. p + 1 \in 1 .. Len(f) + Extra
    BY <1>4, ExtraAssumption
  <2>2. (f \o z)[p + 1] = IF p + 1 <= Len(f) THEN f[p + 1] ELSE z[p + 1 - Len(f)]
    BY <2>1, <1>3
  <2>3. CASE p < Len(f)
    BY <2>2, <2>3, <1>2 DEF Get
  <2>4. CASE ~(p < Len(f))
    <3>1. p + 1 - Len(f) \in 1 .. Extra
      BY <2>1, <2>4, ExtraAssumption
    <3> QED
      BY <2>2, <2>4, <3>1, <1>1, <1>2 DEF Get
  <2> QED
    BY <2>3, <2>4
<1> QED
  BY <1>2, <1>3, <1>4

-----------------------------------------------------------------------------
(* The inductive invariant.                                                *)

\* ECC_Sign has accepted the DDFB chunk: it is the first one and complete.
Accepted ==
  /\ Get(file, Len(file), Header) = DDFB
  /\ PayloadEnd <= Len(file)
  /\ Signature(key, region) \in Nat

\* Where the walks are and what they have found.
Placed ==
  /\ pc \notin {"riff", "ddfb", "done"} => Accepted
  /\ pc \in {"riff", "ddfb", "find", "scan", "sign", "base"} => buf = Padded(file)
  /\ pc \in {"scan", "entry", "done"} => ~walking
  /\ walking => pos < Size
  /\ walking /\ pc \in {"ddfb", "base"} => pos = Header
  /\ walking /\ pc \in {"find", "sign"} => pos = Header \/ pos >= PayloadEnd
  /\ walking /\ pc = "again" => pos = Header \/ pos = PayloadEnd
  /\ pc = "again" => PayloadEnd < Len(buf) /\ buf[PayloadEnd + 1] = SIGN
  /\ ~walking /\ pc \in {"ddfb", "base"} =>
       \/ chunk = NoChunk
       \/ /\ chunk.tag = DDFB /\ chunk.offset = Header + Header
          /\ chunk.offset + chunk.size = PayloadEnd
          /\ Get(file, Len(file), Header) = DDFB
  /\ ~walking /\ pc \in {"base", "again"} => chunk.tag # 0
  /\ ~walking /\ pc \in {"find", "sign", "again"} /\ chunk.tag # 0 =>
       chunk.offset > PayloadEnd
  /\ pc = "entry" => chunk.offset > PayloadEnd /\ pos >= chunk.offset

IInv == TypeOK /\ PayloadKept /\ Placed

-----------------------------------------------------------------------------
(* What the invariant says about numbers.                                  *)

LEMMA Numbers ==
  ASSUME TypeOK
  PROVE  /\ file \in Seq(Nat) /\ Len(file) \in Nat
         /\ Len(buf) \in Nat /\ Len(buf) >= Len(file) + 6
         /\ PayloadEnd \in Nat /\ PayloadEnd >= 4
         /\ PayloadEnd = 4 + Get(file, Len(file), 3)
         /\ Size \in Nat /\ Size <= Len(buf)
         /\ Get(file, Len(file), Header) \in {DDFB, 0}
         /\ Header = 2 /\ EntryLen = 4
<1>1. file \in Seq(Nat) /\ Get(file, Len(file), Header) \in {DDFB, 0}
  BY InputAssumption DEF TypeOK
<1>2. Len(file) \in Nat /\ Len(buf) \in Nat /\ Len(buf) >= Len(file) + 6
  BY <1>1, ExtraAssumption DEF TypeOK, Room, Header, EntryLen
<1>3. Get(file, Len(file), 3) \in Nat
  BY <1>1, <1>2, CellType
<1>4. PayloadEnd = 4 + Get(file, Len(file), 3)
  BY DEF PayloadEnd, After, Header
<1>5. Size \in Nat /\ Size <= Len(buf)
  BY <1>2 DEF Size
<1> QED
  BY <1>1, <1>2, <1>3, <1>4, <1>5 DEF Header, EntryLen

\* The cells a walk reads.
LEMMA Cells ==
  ASSUME TypeOK, NEW p \in Nat
  PROVE  /\ Get(buf, Size, p) \in Nat
         /\ After(buf, Size, p) \in Nat /\ After(buf, Size, p) >= p + 2
         /\ ChunkAt(buf, Size, p) \in [tag : Nat, size : Nat, offset : Nat]
         /\ ChunkAt(buf, Size, p).tag = Get(buf, Size, p)
         /\ ChunkAt(buf, Size, p).offset > p
<1>1. buf \in Seq(Nat) /\ Size \in Nat
  BY Numbers DEF TypeOK
<1>2. Get(buf, Size, p) \in Nat
  BY <1>1, CellType
<1>3. Get(buf, Size, p + 1) \in Nat
  <2>1. p + 1 \in Nat
    OBVIOUS
  <2> QED
    BY <1>1, <2>1, CellType
<1> QED
  BY <1>2, <1>3 DEF After, ChunkAt, Header

\* From the DDFB header every walk in the accepted file goes to PayloadEnd.
LEMMA FirstChunk ==
  ASSUME TypeOK, PayloadKept, Accepted
  PROVE  /\ Header < Size
         /\ Get(buf, Size, Header) = DDFB
         /\ After(buf, Size, Header) = PayloadEnd
         /\ ChunkAt(buf, Size, Header).offset = 4
         /\ ChunkAt(buf, Size, Header).size = PayloadEnd - 4
<1>1. PayloadEnd >= 4 /\ PayloadEnd <= Len(file) /\ PayloadEnd \in Nat
  BY Numbers DEF Accepted
<1>2. Size \in Nat /\ Size >= Len(file) /\ Size <= Len(buf) /\ Len(buf) \in Nat
  BY Numbers DEF Size
<1>3. buf[3] = Get(file, Len(file), 2) /\ buf[4] = Get(file, Len(file), 3)
  <2>1. \A p \in 0 .. Len(buf) - 1 :
          p # 1 /\ p < PayloadEnd => buf[p + 1] = Get(file, Len(file), p)
    BY DEF PayloadKept
  <2>2. 2 \in 0 .. Len(buf) - 1 /\ 3 \in 0 .. Len(buf) - 1
    BY <1>1, <1>2
  <2>3. buf[2 + 1] = Get(file, Len(file), 2) /\ buf[3 + 1] = Get(file, Len(file), 3)
    BY <2>1, <2>2, <1>1
  <2> QED
    BY <2>3
<1>4. Get(buf, Size, 2) = buf[3] /\ Get(buf, Size, 3) = buf[4]
  BY <1>1, <1>2 DEF Get
<1>5. Get(file, Len(file), 2) = DDFB
  BY DEF Accepted, Header
<1>6. Get(file, Len(file), 3) = PayloadEnd - 4
  <2>1. Get(file, Len(file), 3) \in Nat
    BY Numbers, CellType
  <2> QED
    BY <2>1, Numbers
<1> QED
  BY <1>1, <1>2, <1>3, <1>4, <1>5, <1>6 DEF After, ChunkAt, Header

LEMMA Loaded ==
  ASSUME file \in Inputs
  PROVE  /\ Padded(file) \in Seq(Nat) /\ Len(Padded(file)) = Room(file)
         /\ \A p \in 0 .. Room(file) - 1 : Padded(file)[p + 1] = Get(file, Len(file), p)
<1>1. file \in Seq(Nat)
  BY InputAssumption
<1>2. Len(file) + Extra \in Nat
  BY <1>1, ExtraAssumption
<1> QED
  BY <1>1, <1>2, PaddedLemma DEF Room


-----------------------------------------------------------------------------
LEMMA Initially == Init => IInv
<1> SUFFICES ASSUME Init PROVE IInv
  OBVIOUS
<1>1. file \in Inputs /\ buf = Padded(file)
  BY DEF Init
<1>2. TypeOK
  BY <1>1, Loaded DEF Init, TypeOK, Calls, NoChunk, EntryLen
<1>3. PayloadKept
  BY <1>1, <1>2, Loaded DEF PayloadKept, TypeOK
<1>4. Placed
  <2>1. 0 < Size
    BY <1>2, Numbers DEF Init, Size
  <2> QED
    BY <1>1, <2>1 DEF Init, Placed
<1> QED
  BY <1>2, <1>3, <1>4 DEF IInv

\* The steps that leave the buffer alone keep what is said about it.
LEMMA BufferUnchanged ==
  ASSUME PayloadKept, UNCHANGED <<file, buf>>
  PROVE  PayloadKept'
  BY DEF PayloadKept, PayloadEnd, After, Get

LEMMA AcceptedUnchanged ==
  ASSUME Accepted, UNCHANGED <<file, key, region>>
  PROVE  Accepted'
  BY DEF Accepted, PayloadEnd, After, Get

\* A put behind the DDFB chunk does not change it.
LEMMA PutBehind ==
  ASSUME TypeOK, PayloadKept, UNCHANGED file,
         NEW p \in Nat, p >= PayloadEnd \/ p = 1, NEW v \in Nat,
         buf' = Put(buf, p, v)
  PROVE  PayloadKept'
<1>1. /\ buf \in Seq(Nat) /\ Len(buf') = Len(buf) /\ Len(buf) \in Nat
      /\ \A i \in 1 .. Len(buf) : buf'[i] = IF i = p + 1 THEN v ELSE buf[i]
  <2>1. buf \in Seq(Nat)
    BY DEF TypeOK
  <2> QED
    BY <2>1, PutLemma
<1>2. PayloadEnd' = PayloadEnd /\ PayloadEnd \in Nat
  BY Numbers DEF PayloadEnd, After, Get
<1>3. ASSUME NEW i \in 0 .. Len(buf) - 1, i # 1, i < PayloadEnd
      PROVE  buf'[i + 1] = Get(file, Len(file), i)
  <2>1. i # p /\ i + 1 \in 1 .. Len(buf)
    BY <1>1, <1>2, <1>3
  <2>2. buf'[i + 1] = buf[i + 1]
    BY <1>1, <2>1
  <2> QED
    BY <1>3, <2>2 DEF PayloadKept
<1> QED
  BY <1>1, <1>2, <1>3 DEF PayloadKept, Get

-----------------------------------------------------------------------------
LEMMA ChunkFoundKeeps == ASSUME IInv, ChunkFound PROVE IInv'
<1> USE DEF IInv, ChunkFound
<1>1. pos \in Nat /\ pos < Size
  BY DEF TypeOK, Placed
<1>2. TypeOK'
  BY <1>1, Cells DEF TypeOK, Room
<1>3. PayloadKept'
  BY BufferUnchanged
<1>4. Placed'
  <2>1. Accepted => Accepted'
    BY AcceptedUnchanged
  <2>2. PayloadEnd' = PayloadEnd /\ PayloadEnd \in Nat /\ PayloadEnd >= 4
    BY Numbers DEF PayloadEnd, After, Get
  <2>3. chunk' = ChunkAt(buf, Size, pos) /\ chunk'.tag = Tag /\ chunk'.offset > pos
    BY <1>1, Cells
  <2>4. Tag # 0
    BY TagAssumption DEF Tag
  <2>5. ASSUME pc \in {"ddfb", "base"}
        PROVE  /\ chunk'.tag = DDFB /\ chunk'.offset = 4
               /\ chunk'.offset + chunk'.size = PayloadEnd
               /\ Get(file, Len(file), Header) = DDFB
    <3>1. pos = Header /\ Size = Len(buf) /\ Tag = DDFB
      BY <2>5 DEF Placed, Size, Tag
    <3>2. Len(buf) \in Nat /\ Len(buf) >= 6 /\ Len(file) \in Nat
      BY Numbers
    <3>3. buf = Padded(file) /\ file \in Inputs
      BY <2>5 DEF Placed, TypeOK
    <3>4. 3 \in 0 .. Room(file) - 1 /\ Len(buf) = Room(file)
      BY <3>2 DEF TypeOK
    <3>5. buf[3 + 1] = Get(file, Len(file), 3)
      BY <3>3, <3>4, Loaded
    <3>6. Get(buf, Size, 3) = buf[4]
      BY <3>1, <3>2 DEF Get
    <3>7. PayloadEnd = 4 + Get(buf, Size, 3)
      BY <3>5, <3>6, Numbers
    <3>8. chunk'.size = Get(buf, Size, 3) /\ chunk'.offset = 4
      BY <2>3, <3>1, <3>2 DEF ChunkAt, Header
    <3>9. Get(file, Len(file), Header) = DDFB
      <4>1. 2 \in 0 .. Room(file) - 1
        BY <3>4
      <4>2. buf[2 + 1] = Get(file, Len(file), 2)
        BY <3>3, <4>1, Loaded
      <4>3. Get(buf, Size, 2) = buf[3]
        BY <3>1, <3>2 DEF Get
      <4> QED
        BY <3>1, <4>2, <4>3 DEF Header
    <3> QED
      BY <2>3, <3>1, <3>7, <3>8, <3>9, <2>2
  <2>6. ASSUME pc \in {"find", "sign", "again"}
        PROVE  chunk'.offset > PayloadEnd
    <3>1. Accepted /\ Tag = SIGN
      BY <2>6 DEF Placed, Tag
    <3>2. pos # Header
      BY <3>1, FirstChunk, TagAssumption
    <3>3. pos >= PayloadEnd
      BY <2>6, <3>2, <2>2 DEF Placed
    <3>4. chunk'.offset \in Nat
      BY <1>2 DEF TypeOK
    <3> QED
      BY <2>2, <2>3, <3>3, <3>4, <1>1
  <2>7. Get(file, Len(file), Header)' = Get(file, Len(file), Header)
    BY DEF Get
  <2> QED
    BY <2>1, <2>2, <2>3, <2>4, <2>5, <2>6, <2>7 DEF Placed, Header
<1> QED
  BY <1>2, <1>3, <1>4

LEMMA ChunkMissingKeeps == ASSUME IInv, ChunkMissing PROVE IInv'
<1> USE DEF IInv, ChunkMissing
<1>1. pos \in Nat /\ pos < Size
  BY DEF TypeOK, Placed
<1>2. TypeOK'
  BY DEF TypeOK, Room, NoChunk
<1>3. PayloadKept'
  BY BufferUnchanged
<1>4. Placed'
  <2>1. Accepted => Accepted'
    BY AcceptedUnchanged
  <2>2. PayloadEnd' = PayloadEnd /\ PayloadEnd \in Nat /\ PayloadEnd >= 4
    BY Numbers DEF PayloadEnd, After, Get
  <2>3. chunk'.tag = 0
    BY DEF NoChunk
  <2>4. pc # "base"
    <3> SUFFICES ASSUME pc = "base" PROVE FALSE
      OBVIOUS
    <3>1. Accepted /\ pos = Header /\ Tag = DDFB
      BY DEF Placed, Tag
    <3> QED
      BY <3>1, FirstChunk
  <2>5. pc # "again"
    <3> SUFFICES ASSUME pc = "again" PROVE FALSE
      OBVIOUS
    <3>1. Accepted /\ Tag = SIGN /\ Size = Len(buf) /\ (pos = Header \/ pos = PayloadEnd)
      BY DEF Placed, Tag, Size
    <3>2. PayloadEnd < Len(buf) /\ buf[PayloadEnd + 1] = SIGN
      BY DEF Placed
    <3>3. CASE pos = PayloadEnd
      <4>1. Get(buf, Size, pos) = SIGN
        BY <3>1, <3>2, <3>3 DEF Get
      <4> QED
        BY <4>1, <3>1
    <3>4. CASE pos = Header
      <4>1. Get(buf, Size, pos) = DDFB /\ After(buf, Size, pos) = PayloadEnd
        BY <3>1, <3>4, FirstChunk
      <4>2. DDFB # 0 /\ Len(buf) \in Nat
        BY TagAssumption, Numbers
      <4> QED
        BY <4>1, <4>2, <3>1, <3>2, <2>2
    <3> QED
      BY <3>1, <3>3, <3>4
  <2> QED
    BY <2>1, <2>2, <2>3, <2>4, <2>5 DEF Placed
<1> QED
  BY <1>2, <1>3, <1>4

LEMMA ChunkSkippedKeeps == ASSUME IInv, ChunkSkipped PROVE IInv'
<1> USE DEF IInv, ChunkSkipped
<1>1. pos \in Nat /\ pos < Size
  BY DEF TypeOK, Placed
<1>2. /\ pos' = After(buf, Size, pos) /\ pos' \in Nat /\ pos' >= pos + 2
      /\ pos' < Size /\ Size' = Size
  BY <1>1, Cells DEF Size
<1>3. TypeOK'
  BY <1>2 DEF TypeOK, Room
<1>4. PayloadKept'
  BY BufferUnchanged
<1>5. Placed'
  <2>1. Accepted => Accepted'
    BY AcceptedUnchanged
  <2>2. PayloadEnd' = PayloadEnd /\ PayloadEnd \in Nat
    BY Numbers DEF PayloadEnd, After, Get
  <2>3. pc \notin {"ddfb", "base"}
    <3> SUFFICES ASSUME pc \in {"ddfb", "base"} PROVE FALSE
      OBVIOUS
    <3>1. pos = Header /\ Tag = DDFB /\ Size = Len(buf) /\ buf = Padded(file)
      BY DEF Placed, Tag, Size
    <3>2. 2 \in 0 .. Room(file) - 1 /\ file \in Inputs /\ Len(buf) = Room(file)
      BY Numbers DEF TypeOK
    <3>3. Padded(file)[2 + 1] = Get(file, Len(file), 2)
      BY <3>2, Loaded
    <3>4. buf[3] = Get(file, Len(file), 2)
      BY <3>1, <3>3
    <3>5. Get(buf, Size, 2) = buf[3]
      BY <3>1, <3>2, Numbers DEF Get
    <3>6. Get(buf, Size, 2) \in {DDFB, 0}
      BY <3>4, <3>5, Numbers
    <3> QED
      BY <3>1, <3>6, Numbers
  <2>4. ASSUME pc \in {"find", "sign", "again"}
        PROVE  pos' = PayloadEnd \/ (pc # "again" /\ pos' >= PayloadEnd)
    <3>1. Accepted /\ Tag = SIGN
      BY <2>4 DEF Placed, Tag
    <3>2. CASE pos = Header
      BY <3>1, <3>2, <1>2, FirstChunk
    <3>3. CASE pos # Header /\ pc # "again"
      BY <2>4, <3>3, <1>1, <1>2, <2>2 DEF Placed
    <3>4. CASE pos # Header /\ pc = "again"
      <4>1. pos = PayloadEnd /\ buf[PayloadEnd + 1] = SIGN /\ PayloadEnd < Len(buf)
        BY <3>4 DEF Placed
      <4>2. Get(buf, Size, pos) = SIGN
        BY <4>1, <3>4, <1>1 DEF Get, Size
      <4> QED
        BY <4>2, <3>1
    <3> QED
      BY <3>2, <3>3, <3>4
  <2> QED
    BY <1>2, <2>1, <2>2, <2>3, <2>4 DEF Placed
<1> QED
  BY <1>3, <1>4, <1>5


-----------------------------------------------------------------------------
LEMMA CheckRIFFKeeps == ASSUME IInv, CheckRIFF PROVE IInv'
<1>1. /\ TypeOK /\ PayloadKept /\ Placed /\ pc = "riff" /\ ~walking
      /\ UNCHANGED <<file, key, buf, ok, chunk, region, idx, out>>
  BY DEF IInv, CheckRIFF
<1>2. PayloadKept'
  BY <1>1, BufferUnchanged
<1>3. CASE Return(0)
  <2>1. TypeOK'
    BY <1>1, <1>3 DEF TypeOK, Return, Calls, Room
  <2>2. Placed'
    BY <1>1, <1>3 DEF Placed, Return
  <2> QED
    BY <1>2, <2>1, <2>2 DEF IInv
<1>4. CASE CallGetChunkRef("ddfb", Header) /\ UNCHANGED ret
  <2>1. TypeOK'
    BY <1>1, <1>4 DEF TypeOK, CallGetChunkRef, Calls, Room, Header
  <2>2. Header < Len(buf)
    BY <1>1, Numbers
  <2>3. Placed'
    BY <1>1, <1>4, <2>2 DEF Placed, CallGetChunkRef, Size
  <2> QED
    BY <1>2, <2>1, <2>3 DEF IInv
<1> QED
  BY <1>3, <1>4 DEF CheckRIFF

LEMMA RejectDDFBKeeps == ASSUME IInv, RejectDDFB PROVE IInv'
<1>1. Return(0) /\ UNCHANGED <<file, key, buf, ok, chunk, region, idx, out>>
  BY DEF RejectDDFB
<1>2. TypeOK /\ PayloadKept /\ Placed /\ ~walking
  BY DEF IInv, RejectDDFB
<1>3. TypeOK'
  BY <1>1, <1>2 DEF TypeOK, Return, Calls, Room
<1>4. PayloadKept'
  BY <1>1, <1>2, BufferUnchanged
<1>5. Placed'
  BY <1>1, <1>2 DEF Placed, Return
<1> QED
  BY <1>3, <1>4, <1>5 DEF IInv

LEMMA HashDDFBKeeps == ASSUME IInv, HashDDFB PROVE IInv'
<1>1. /\ TypeOK /\ PayloadKept /\ Placed /\ pc = "ddfb" /\ ~walking
      /\ chunk.tag # 0 /\ chunk.offset + chunk.size <= Len(file)
      /\ region' = Region(buf, chunk)
      /\ CallGetChunkRef("find", Header)
      /\ UNCHANGED <<file, key, buf, ok, chunk, idx, out, ret>>
  BY DEF IInv, HashDDFB
<1>2. TypeOK'
  BY <1>1 DEF TypeOK, CallGetChunkRef, Calls, Room, Header
<1>3. PayloadKept'
  BY <1>1, BufferUnchanged
<1>4. /\ chunk.offset = 4 /\ chunk.offset + chunk.size = PayloadEnd
      /\ Get(file, Len(file), Header) = DDFB /\ buf = Padded(file)
  BY <1>1 DEF Placed, NoChunk, Header
<1>5. /\ PayloadEnd \in Nat /\ PayloadEnd >= 4 /\ PayloadEnd <= Len(file)
      /\ Len(file) \in Nat
  BY <1>1, <1>4, Numbers
<1>6. Signature(key, region') \in Nat
  <2>1. file \in Inputs /\ key \in Keys
    BY <1>1 DEF TypeOK
  <2>2. 3 \in 1 .. Len(file) /\ PayloadEnd \in 1 .. Len(file)
    BY <1>5
  <2>3. region' = SubSeq(Padded(file), 3, PayloadEnd)
    <3>1. chunk.offset - Header + 1 = 3
      BY <1>4 DEF Header
    <3> QED
      BY <1>1, <1>4, <3>1 DEF Region
  <2>4. Signature(key, SubSeq(Padded(file), 3, PayloadEnd)) \in Nat
    BY <2>1, <2>2, SignatureAssumption
  <2> QED
    BY <2>3, <2>4
<1>7. Accepted'
  BY <1>1, <1>4, <1>5, <1>6 DEF Accepted, PayloadEnd, After, Get
<1>8. Placed'
  <2>1. Header < Len(file)
    BY <1>5 DEF Header
  <2> QED
    BY <1>1, <1>4, <1>7, <2>1 DEF Placed, CallGetChunkRef, Size
<1> QED
  BY <1>2, <1>3, <1>8 DEF IInv

LEMMA NoSignChunkKeeps == ASSUME IInv, NoSignChunk PROVE IInv'
<1>1. /\ TypeOK /\ PayloadKept /\ Placed /\ pc = "find"
      /\ CallGetChunkRef("sign", Header)
      /\ UNCHANGED <<file, key, buf, ok, chunk, region, idx, out, ret>>
  BY DEF IInv, NoSignChunk
<1>2. TypeOK'
  BY <1>1 DEF TypeOK, CallGetChunkRef, Calls, Room, Header
<1>3. PayloadKept'
  BY <1>1, BufferUnchanged
<1>4. Placed'
  <2>1. Accepted /\ Accepted'
    BY <1>1, AcceptedUnchanged DEF Placed
  <2>2. Header < Len(buf)
    BY <1>1, Numbers
  <2> QED
    BY <1>1, <2>1, <2>2 DEF Placed, CallGetChunkRef, Size
<1> QED
  BY <1>2, <1>3, <1>4 DEF IInv

LEMMA StartScanKeeps == ASSUME IInv, StartScan PROVE IInv'
<1>1. /\ TypeOK /\ PayloadKept /\ Placed /\ pc = "find" /\ ~walking
      /\ pc' = "scan" /\ pos' = chunk.offset
      /\ UNCHANGED <<file, key, buf, walking, ok, chunk, region, idx, out, ret>>
  BY DEF IInv, StartScan
<1>2. TypeOK'
  BY <1>1 DEF TypeOK, Calls, Room
<1>3. PayloadKept'
  BY <1>1, BufferUnchanged
<1>4. Placed'
  BY <1>1, AcceptedUnchanged DEF Placed
<1> QED
  BY <1>2, <1>3, <1>4 DEF IInv

LEMMA AlreadySignedKeeps == ASSUME IInv, AlreadySigned PROVE IInv'
<1>1. /\ TypeOK /\ PayloadKept /\ Placed /\ pc = "scan"
      /\ Return(1)
      /\ UNCHANGED <<file, key, buf, ok, chunk, region, idx, out>>
  BY DEF IInv, AlreadySigned, InScan
<1>2. TypeOK'
  BY <1>1 DEF TypeOK, Return, Calls, Room
<1>3. PayloadKept'
  BY <1>1, BufferUnchanged
<1>4. Placed'
  BY <1>1 DEF Placed, Return
<1> QED
  BY <1>2, <1>3, <1>4 DEF IInv

LEMMA NextEntryKeeps == ASSUME IInv, NextEntry PROVE IInv'
<1>1. /\ TypeOK /\ PayloadKept /\ Placed /\ pc = "scan"
      /\ pos' = IF pos + EntryLen <= Size THEN pos + EntryLen ELSE Size
      /\ UNCHANGED <<file, key, buf, pc, walking, ok, chunk, region, idx, out, ret>>
  BY DEF IInv, NextEntry, InScan
<1>2. TypeOK'
  <2>1. Size \in Nat
    BY <1>1, Numbers
  <2> QED
    BY <1>1, <2>1 DEF TypeOK, Calls, Room, EntryLen
<1>3. PayloadKept'
  BY <1>1, BufferUnchanged
<1>4. Placed'
  BY <1>1, AcceptedUnchanged DEF Placed
<1> QED
  BY <1>2, <1>3, <1>4 DEF IInv

LEMMA EndScanKeeps == ASSUME IInv, EndScan PROVE IInv'
<1>1. /\ TypeOK /\ PayloadKept /\ Placed /\ pc = "scan"
      /\ CallGetChunkRef("sign", Header)
      /\ UNCHANGED <<file, key, buf, ok, chunk, region, idx, out, ret>>
  BY DEF IInv, EndScan
<1>2. TypeOK'
  BY <1>1 DEF TypeOK, CallGetChunkRef, Calls, Room, Header
<1>3. PayloadKept'
  BY <1>1, BufferUnchanged
<1>4. Placed'
  <2>1. Accepted /\ Accepted'
    BY <1>1, AcceptedUnchanged DEF Placed
  <2>2. Header < Len(buf)
    BY <1>1, Numbers
  <2> QED
    BY <1>1, <2>1, <2>2 DEF Placed, CallGetChunkRef, Size
<1> QED
  BY <1>2, <1>3, <1>4 DEF IInv

LEMMA FindBaseKeeps == ASSUME IInv, FindBase PROVE IInv'
<1>1. /\ TypeOK /\ PayloadKept /\ Placed /\ pc = "sign"
      /\ CallGetChunkRef("base", Header)
      /\ UNCHANGED <<file, key, buf, ok, chunk, region, idx, out, ret>>
  BY DEF IInv, FindBase
<1>2. TypeOK'
  BY <1>1 DEF TypeOK, CallGetChunkRef, Calls, Room, Header
<1>3. PayloadKept'
  BY <1>1, BufferUnchanged
<1>4. Placed'
  <2>1. Accepted /\ Accepted'
    BY <1>1, AcceptedUnchanged DEF Placed
  <2>2. Header < Len(buf)
    BY <1>1, Numbers
  <2> QED
    BY <1>1, <2>1, <2>2 DEF Placed, CallGetChunkRef, Size
<1> QED
  BY <1>2, <1>3, <1>4 DEF IInv

-----------------------------------------------------------------------------
(* The steps of ECC_AppendSignature that put.                              *)

LEMMA SignChunkLocatedKeeps == ASSUME IInv, SignChunkLocated PROVE IInv'
<1>1. /\ TypeOK /\ PayloadKept /\ Placed /\ pc \in {"sign", "again"} /\ ~walking
      /\ chunk.tag # 0
      /\ pc' = "entry" /\ idx' = 1 /\ pos' = chunk.offset + chunk.size
      /\ UNCHANGED <<file, key, buf, walking, ok, chunk, region, out, ret>>
  BY DEF IInv, SignChunkLocated, StartEntry
<1>2. TypeOK'
  BY <1>1 DEF TypeOK, Calls, Room, EntryLen
<1>3. PayloadKept'
  BY <1>1, BufferUnchanged
<1>4. Placed'
  <2>1. Accepted /\ Accepted'
    BY <1>1, AcceptedUnchanged DEF Placed
  <2>2. chunk.offset > PayloadEnd /\ PayloadEnd' = PayloadEnd
    BY <1>1 DEF Placed, PayloadEnd, After, Get
  <2>3. pos' >= chunk.offset
    BY <1>1 DEF TypeOK
  <2> QED
    BY <1>1, <2>1, <2>2, <2>3 DEF Placed
<1> QED
  BY <1>2, <1>3, <1>4 DEF IInv

LEMMA NewSignChunkKeeps == ASSUME IInv, NewSignChunk PROVE IInv'
<1> DEFINE end == chunk.offset + chunk.size
<1>1. /\ TypeOK /\ PayloadKept /\ Placed /\ pc = "base" /\ ~walking
      /\ chunk.tag # 0
      /\ buf' = Put(Put(buf, end, SIGN), end + 1, 0)
      /\ ok' = (end + Header <= Len(buf))
      /\ CallGetChunkRef("again", Header)
      /\ UNCHANGED <<file, key, chunk, region, idx, out, ret>>
  BY DEF IInv, NewSignChunk
<1>2. end = PayloadEnd /\ Accepted
  BY <1>1 DEF Placed, NoChunk
<1>3. /\ PayloadEnd \in Nat /\ PayloadEnd >= 4 /\ PayloadEnd <= Len(file)
      /\ Len(file) \in Nat /\ Len(buf) \in Nat /\ Len(buf) >= Len(file) + 6
  BY <1>1, <1>2, Numbers DEF Accepted
<1>4. /\ buf' \in Seq(Nat) /\ Len(buf') = Len(buf)
      /\ \A i \in 1 .. Len(buf) :
           buf'[i] = IF i = PayloadEnd + 1 THEN SIGN
                     ELSE IF i = PayloadEnd + 2 THEN 0 ELSE buf[i]
  <2> DEFINE first  == Put(buf, PayloadEnd, SIGN)
             second == PayloadEnd + 1
  <2>1. buf \in Seq(Nat) /\ SIGN \in Nat /\ 0 \in Nat /\ second \in Nat
    BY <1>1, <1>3, TagAssumption DEF TypeOK
  <2>2. buf' = Put(first, second, 0)
    BY <1>1, <1>2
  <2>3. /\ first \in Seq(Nat) /\ Len(first) = Len(buf)
        /\ \A i \in 1 .. Len(buf) :
             first[i] = IF i = PayloadEnd + 1 THEN SIGN ELSE buf[i]
    BY <1>3, <2>1, PutLemma
  <2>4. second = PayloadEnd + 1
    OBVIOUS
  <2> HIDE DEF first, second
  <2>5. /\ buf' \in Seq(Nat) /\ Len(buf') = Len(first)
        /\ \A i \in 1 .. Len(first) :
             buf'[i] = IF i = second + 1 THEN 0 ELSE first[i]
    BY <2>1, <2>2, <2>3, PutLemma
  <2>6. ASSUME NEW i \in 1 .. Len(buf)
        PROVE  buf'[i] = IF i = PayloadEnd + 1 THEN SIGN
                         ELSE IF i = PayloadEnd + 2 THEN 0 ELSE buf[i]
    <3>1. buf'[i] = IF i = second + 1 THEN 0 ELSE first[i]
      BY <2>3, <2>5
    <3>2. first[i] = IF i = PayloadEnd + 1 THEN SIGN ELSE buf[i]
      BY <2>3
    <3> QED
      BY <1>3, <2>4, <3>1, <3>2
  <2> QED
    BY <2>3, <2>5, <2>6
<1> HIDE DEF end
<1>5. TypeOK'
  <2>1. ok' \in BOOLEAN
    BY <1>1
  <2> QED
    BY <1>1, <1>4, <2>1 DEF TypeOK, CallGetChunkRef, Calls, Room, Header
<1>6. PayloadEnd' = PayloadEnd
  BY <1>1 DEF PayloadEnd, After, Get
<1>7. PayloadKept'
  <2>1. ASSUME NEW i \in 0 .. Len(buf) - 1, i # 1, i < PayloadEnd
        PROVE  buf'[i + 1] = Get(file, Len(file), i)
    <3>1. i + 1 \in 1 .. Len(buf) /\ i + 1 # PayloadEnd + 1 /\ i + 1 # PayloadEnd + 2
      BY <1>3, <2>1
    <3>2. buf'[i + 1] = buf[i + 1]
      BY <1>4, <3>1
    <3> QED
      BY <1>1, <2>1, <3>2 DEF PayloadKept
  <2> QED
    BY <1>1, <1>4, <1>6, <2>1 DEF PayloadKept, Get
<1>8. Placed'
  <2>1. Accepted'
    BY <1>1, <1>2, AcceptedUnchanged
  <2>2. PayloadEnd < Len(buf') /\ buf'[PayloadEnd + 1] = SIGN /\ Header < Len(buf')
    <3>1. PayloadEnd + 1 \in 1 .. Len(buf) /\ Header < Len(buf)
      BY <1>3 DEF Header
    <3>2. Len(buf') = Len(buf)
      BY <1>4
    <3>3. buf'[PayloadEnd + 1] = SIGN
      BY <1>4, <3>1
    <3> QED
      BY <1>3, <3>1, <3>2, <3>3
  <2> QED
    BY <1>1, <1>6, <2>1, <2>2 DEF Placed, CallGetChunkRef, Size
<1> QED
  BY <1>5, <1>7, <1>8 DEF IInv

LEMMA PutEntryFieldKeeps == ASSUME IInv, PutEntryField PROVE IInv'
<1> DEFINE v == Entry(key, region)[idx]
<1>1. /\ TypeOK /\ PayloadKept /\ Placed /\ pc = "entry" /\ idx <= EntryLen
      /\ PutField(v)
      /\ idx' = idx + 1
      /\ UNCHANGED <<file, key, pc, walking, chunk, region, out, ret>>
  BY DEF IInv, PutEntryField
<1>2. Accepted /\ chunk.offset > PayloadEnd /\ pos >= chunk.offset /\ ~walking
  BY <1>1 DEF Placed
<1>3. /\ PayloadEnd \in Nat /\ pos \in Nat /\ chunk.offset \in Nat
      /\ pos >= PayloadEnd /\ PayloadEnd' = PayloadEnd
  BY <1>1, <1>2, Numbers DEF TypeOK, PayloadEnd, After, Get
<1>4. v \in Nat
  <2>1. idx \in 1 .. 4
    BY <1>1 DEF TypeOK, EntryLen
  <2>2. /\ PubLen \in Nat /\ SigLen \in Nat /\ PubKey(key) \in Nat
        /\ Signature(key, region) \in Nat
    BY <1>1, <1>2, LenAssumption DEF TypeOK, Accepted
  <2> QED
    BY <2>1, <2>2 DEF Entry
<1> HIDE DEF v
<1>5. idx' \in 1 .. EntryLen + 1
  BY <1>1 DEF TypeOK, EntryLen
<1>6. CASE ok /\ pos < Len(buf)
  <2>1. buf' = Put(buf, pos, v) /\ pos' = pos + 1 /\ ok' = TRUE
    BY <1>1, <1>6 DEF PutField
  <2>2. buf' \in Seq(Nat) /\ Len(buf') = Len(buf)
    BY <1>1, <1>3, <1>4, <2>1, PutLemma DEF TypeOK
  <2>3. TypeOK'
    BY <1>1, <1>3, <1>5, <2>1, <2>2 DEF TypeOK, Room
  <2>4. PayloadKept'
    BY <1>1, <1>3, <1>4, <2>1, PutBehind
  <2>5. Placed'
    <3>1. Accepted'
      BY <1>1, <1>2, AcceptedUnchanged
    <3>2. pos' >= chunk.offset
      BY <1>2, <1>3, <2>1
    <3> QED
      BY <1>1, <1>2, <1>3, <3>1, <3>2 DEF Placed
  <2> QED
    BY <2>3, <2>4, <2>5 DEF IInv
<1>7. CASE ~(ok /\ pos < Len(buf))
  <2>1. buf' = buf /\ pos' = pos /\ ok' = FALSE
    BY <1>1, <1>7 DEF PutField
  <2>2. TypeOK'
    <3>1. ok' \in BOOLEAN /\ buf' \in Seq(Nat) /\ Len(buf') = Room(file)
      BY <1>1, <2>1 DEF TypeOK
    <3> QED
      BY <1>1, <1>5, <2>1, <3>1 DEF TypeOK, Room
  <2>3. PayloadKept'
    BY <1>1, <2>1, BufferUnchanged
  <2>4. Placed'
    BY <1>1, <1>2, <1>3, <2>1, AcceptedUnchanged DEF Placed
  <2> QED
    BY <2>2, <2>3, <2>4 DEF IInv
<1> QED
  BY <1>6, <1>7

LEMMA PatchSizesKeeps == ASSUME IInv, PatchSizes PROVE IInv'
<1> DEFINE at == chunk.offset - 1
           patched == Put(buf, at, pos - chunk.offset)
<1>1. /\ TypeOK /\ PayloadKept /\ Placed /\ pc = "entry"
      /\ buf' = IF ok THEN Put(patched, 1, pos - Header) ELSE buf
      /\ out' = pos
      /\ Return(1)
      /\ UNCHANGED <<file, key, ok, chunk, region, idx>>
  BY DEF IInv, PatchSizes
<1>2. chunk.offset > PayloadEnd /\ pos >= chunk.offset /\ ~walking
  BY <1>1 DEF Placed
<1>3. /\ PayloadEnd \in Nat /\ PayloadEnd >= 4 /\ pos \in Nat /\ chunk.offset \in Nat
      /\ PayloadEnd' = PayloadEnd
  BY <1>1, Numbers DEF TypeOK, PayloadEnd, After, Get
<1>4. /\ at \in Nat /\ at >= PayloadEnd
      /\ pos - chunk.offset \in Nat /\ pos - Header \in Nat
  BY <1>2, <1>3 DEF Header
<1>5. /\ patched \in Seq(Nat) /\ Len(patched) = Len(buf)
      /\ \A i \in 1 .. Len(buf) :
           patched[i] = IF i = at + 1 THEN pos - chunk.offset ELSE buf[i]
  <2>1. buf \in Seq(Nat)
    BY <1>1 DEF TypeOK
  <2> HIDE DEF at
  <2> QED
    BY <1>4, <2>1, PutLemma
<1> HIDE DEF patched, at
<1>6. /\ buf' \in Seq(Nat) /\ Len(buf') = Len(buf)
      /\ \A i \in 1 .. Len(buf) : i # 2 /\ i < PayloadEnd + 1 => buf'[i] = buf[i]
  <2>1. CASE ok
    <3>1. /\ buf' \in Seq(Nat) /\ Len(buf') = Len(patched)
          /\ \A i \in 1 .. Len(patched) :
               buf'[i] = IF i = 1 + 1 THEN pos - Header ELSE patched[i]
      BY <1>1, <1>4, <1>5, <2>1, PutLemma
    <3>2. ASSUME NEW i \in 1 .. Len(buf), i # 2, i < PayloadEnd + 1
          PROVE  buf'[i] = buf[i]
      <4>1. buf'[i] = patched[i]
        BY <1>5, <3>1, <3>2
      <4>2. i # at + 1
        BY <1>3, <1>4, <3>2
      <4> QED
        BY <1>5, <4>1, <4>2
    <3> QED
      BY <1>5, <3>1, <3>2
  <2>2. CASE ~ok
    BY <1>1, <2>2 DEF TypeOK
  <2> QED
    BY <2>1, <2>2
<1>7. TypeOK'
  BY <1>1, <1>3, <1>6 DEF TypeOK, Return, Calls, Room
<1>8. PayloadKept'
  <2>1. Len(buf) \in Nat
    BY <1>1, Numbers
  <2>2. ASSUME NEW p \in 0 .. Len(buf) - 1, p # 1, p < PayloadEnd
        PROVE  buf'[p + 1] = Get(file, Len(file), p)
    <3>1. p + 1 \in 1 .. Len(buf) /\ p + 1 # 2 /\ p + 1 < PayloadEnd + 1
      BY <1>3, <2>1, <2>2
    <3>2. buf'[p + 1] = buf[p + 1]
      BY <1>6, <3>1
    <3> QED
      BY <1>1, <2>2, <3>2 DEF PayloadKept
  <2> QED
    BY <1>1, <1>3, <1>6, <2>2 DEF PayloadKept, Get
<1>9. Placed'
  BY <1>1, <1>2 DEF Placed, Return
<1> QED
  BY <1>7, <1>8, <1>9 DEF IInv

-----------------------------------------------------------------------------
LEMMA Stuttering == ASSUME IInv, UNCHANGED vars PROVE IInv'
<1>1. PayloadKept'
  BY BufferUnchanged DEF IInv, vars
<1>2. TypeOK'
  BY DEF IInv, vars, TypeOK, Room
<1>3. Placed'
  <2>1. Accepted => Accepted'
    BY AcceptedUnchanged DEF vars
  <2> QED
    BY <2>1 DEF IInv, vars, Placed, Size, PayloadEnd, After, Get
<1> QED
  BY <1>1, <1>2, <1>3 DEF IInv

LEMMA Steps == ASSUME IInv, [Next]_vars PROVE IInv'
<1>1. CASE Step
  BY <1>1, ChunkFoundKeeps, ChunkMissingKeeps, ChunkSkippedKeeps, CheckRIFFKeeps,
     RejectDDFBKeeps, HashDDFBKeeps, NoSignChunkKeeps, StartScanKeeps,
     AlreadySignedKeeps, NextEntryKeeps, EndScanKeeps, FindBaseKeeps,
     NewSignChunkKeeps, SignChunkLocatedKeeps, PutEntryFieldKeeps,
     PatchSizesKeeps DEF Step
<1>2. CASE UNCHANGED vars
  BY <1>2, Stuttering
<1> QED
  BY <1>1, <1>2 DEF Next, Finished

LEMMA Inductive == Spec => []IInv
  BY Initially, Steps, PTL DEF Spec

\* The variables of a run of ECC_Sign keep their types: no size that is patched
\* is negative, no put changes the length of the buffer.
THEOREM SignTypes == Spec => []TypeOK
<1>1. IInv => TypeOK
  BY DEF IInv
<1> QED
  BY <1>1, Inductive, PTL

\* Signing leaves the signed data alone, whatever follows it in the file: the
\* DDFB chunk and the RIFF tag in the buffer are those of the loaded file.
THEOREM SignKeepsPayload == Spec => []PayloadKept
<1>1. IInv => PayloadKept
  BY DEF IInv
<1> QED
  BY <1>1, Inductive, PTL

\* No assertion on the way can fail: ECC_AppendSignature always finds the DDFB
\* chunk ECC_Sign has accepted, and the SIGN chunk it has just put behind it.
THEOREM SignAsserts == Spec => []AssertHolds
<1>1. IInv => AssertHolds
  BY DEF IInv, Placed, AssertHolds
<1> QED
  BY <1>1, Inductive, PTL

-----------------------------------------------------------------------------
(* What the loops compute.                                                 *)

\* What the walk of the current call finds in the file as it was loaded.
Sought == GetChunkRef(file, Size, IF pc = "riff" THEN 0 ELSE Header, Tag)

\* The calls of GetChunkRef that come before the buffer is changed.
Walks ==
  pc \in {"riff", "ddfb", "find", "sign", "base"} =>
    IF walking THEN GetChunkRef(file, Size, pos, Tag) = Sought ELSE chunk = Sought

Signed == ECC_FindSignature(file, key, RegionOf(file))

\* What a place tells of the file: the checks that led there.
Decided ==
  /\ pc \notin {"riff", "done"} => GetChunkRef(file, Room(file), 0, RIFF).tag # 0
  /\ pc \notin {"riff", "ddfb", "done"} => IsBundle(file) /\ region = RegionOf(file)
  /\ pc \in {"sign", "base", "again", "entry"} => ~Signed
  /\ pc \in {"base", "again"} => LoadedSign = NoChunk
  /\ pc # "done" => out = 0 /\ ret = -1
  /\ pc \notin {"entry", "done"} => ok

\* The rest of the scan decides.
Scanning ==
  pc = "scan" =>
    /\ chunk.tag # 0 /\ pos \in 0 .. Len(file)
    /\ Signed <=> Scan(file, key, region, chunk.offset + chunk.size)[pos]

\* Where the entries of the SIGN chunk begin, and where the new one goes.
Entries == IF LoadedSign.tag = 0 THEN PayloadEnd + Header ELSE LoadedSign.offset
Place == Entries + LoadedSign.size

\* The stream after n fields of the new entry.
PosAfter(n) ==
  IF Place >= Room(file) THEN Place
  ELSE IF Place + n <= Room(file) THEN Place + n ELSE Room(file)

OkAfter(n) == n = 0 \/ Place + n <= Room(file)

CellAfter(n, i) ==
  IF LoadedSign.tag = 0 /\ i = Entries THEN 0
  ELSE IF LoadedSign.tag = 0 /\ i = Entries - 1 THEN SIGN
  ELSE IF i > Place /\ i <= Place + n THEN Entry(key, region)[i - Place]
  ELSE Get(file, Room(file), i - 1)

\* The header of a new chunk, then the entry field by field.
Writes ==
  /\ pc = "again" => /\ \A i \in 1 .. Len(buf) : buf[i] = CellAfter(0, i)
                     /\ ~walking => chunk.offset = Entries /\ chunk.size = 0
  /\ pc = "entry" => /\ chunk.offset = Entries
                     /\ pos = PosAfter(idx - 1) /\ ok = OkAfter(idx - 1)
                     /\ \A i \in 1 .. Len(buf) : buf[i] = CellAfter(idx - 1, i)

Refused == ret = 0 /\ out = 0 /\ ~IsBundle(file)
Known   == ret = 1 /\ out = 0 /\ IsBundle(file) /\ Signed
Written == /\ ret = 1 /\ IsBundle(file) /\ ~Signed /\ region = RegionOf(file)
           /\ out = PosAfter(EntryLen) /\ ok = OkAfter(EntryLen)
           /\ Result = ECC_AppendSignature(file, key, RegionOf(file))

Ended == pc = "done" => Refused \/ Known \/ Written

LoopInv == IInv /\ Walks /\ Decided /\ Scanning /\ Writes /\ Ended

-----------------------------------------------------------------------------
\* In the loaded buffer the streams read what is in the file.
LEMMA LoadedReads ==
  ASSUME TypeOK, buf = Padded(file), NEW p \in Nat
  PROVE  /\ Get(buf, Size, p) = Get(file, Size, p)
         /\ After(buf, Size, p) = After(file, Size, p)
         /\ ChunkAt(buf, Size, p) = ChunkAt(file, Size, p)
<1>1. /\ Len(file) \in Nat /\ Room(file) \in Nat /\ Len(buf) = Room(file)
      /\ Size = Len(file) \/ Size = Room(file)
      /\ Room(file) >= Len(file)
  BY Numbers DEF TypeOK, Size
<1>2. ASSUME NEW q \in Nat PROVE Get(buf, Size, q) = Get(file, Size, q)
  <2>1. CASE q < Size
    <3>1. buf[q + 1] = Get(file, Len(file), q)
      <4>1. q \in 0 .. Room(file) - 1
        BY <1>1, <2>1
      <4> QED
        BY <4>1, Loaded DEF TypeOK
    <3> QED
      BY <1>1, <2>1, <3>1 DEF Get
  <2>2. CASE ~(q < Size)
    BY <2>2 DEF Get
  <2> QED
    BY <2>1, <2>2
<1>3. p + 1 \in Nat
  OBVIOUS
<1> QED
  BY <1>2, <1>3 DEF After, ChunkAt

\* What depends on the file and the key alone.
LEMMA FileKept ==
  ASSUME UNCHANGED <<file, key>>
  PROVE  /\ LoadedSign' = LoadedSign /\ PayloadEnd' = PayloadEnd
         /\ Room(file)' = Room(file) /\ Room(file') = Room(file)
         /\ Entries' = Entries /\ Place' = Place
         /\ Signed' = Signed /\ IsBundle(file)' = IsBundle(file)
         /\ RegionOf(file)' = RegionOf(file)
<1>1. LoadedSign' = LoadedSign /\ PayloadEnd' = PayloadEnd
  BY DEF LoadedSign, PayloadEnd
<1>2. Entries' = Entries
  BY <1>1 DEF Entries
<1>3. Place' = Place
  BY <1>1, <1>2 DEF Place
<1>4. Signed' = Signed
  BY DEF Signed
<1> QED
  BY <1>1, <1>2, <1>3, <1>4

LEMMA CellKept ==
  ASSUME UNCHANGED <<file, key, region>>, NEW n, NEW i
  PROVE  CellAfter(n, i)' = CellAfter(n, i)
BY FileKept DEF CellAfter, Entry

LEMMA SoughtKept ==
  ASSUME UNCHANGED <<file, pc>>, Len(buf') = Len(buf)
  PROVE  Sought' = Sought /\ Size' = Size /\ Tag' = Tag
BY DEF Sought, Size, Tag

\* Steps inside GetChunkRef, on the file as it was loaded.
LEMMA WalkKeeps ==
  ASSUME LoopInv, IInv', ChunkFound \/ ChunkMissing \/ ChunkSkipped
  PROVE  Walks'
<1>1. /\ walking /\ pos \in Nat /\ pos < Size /\ Size \in Nat /\ file \in File
      /\ UNCHANGED <<file, pc, buf>>
  BY Numbers DEF LoopInv, IInv, Placed, TypeOK, File, ChunkFound, ChunkMissing, ChunkSkipped
<1>2. Sought' = Sought /\ Size' = Size /\ Tag' = Tag
  BY <1>1, SoughtKept
<1>3. SUFFICES ASSUME pc \in {"riff", "ddfb", "find", "sign", "base"}
               PROVE  IF walking' THEN GetChunkRef(file, Size, pos', Tag) = Sought
                      ELSE chunk' = Sought
  BY <1>1, <1>2 DEF Walks
<1>4. GetChunkRef(file, Size, pos, Tag) = Sought
  BY <1>1, <1>3 DEF LoopInv, Walks
<1>5. /\ Get(buf, Size, pos) = Get(file, Size, pos)
      /\ After(buf, Size, pos) = After(file, Size, pos)
      /\ ChunkAt(buf, Size, pos) = ChunkAt(file, Size, pos)
  BY <1>1, <1>3, LoadedReads DEF LoopInv, IInv, Placed
<1>6. GetChunkRef(file, Size, pos, Tag) =
        IF Get(file, Size, pos) = Tag THEN ChunkAt(file, Size, pos)
        ELSE IF Get(file, Size, pos) = 0 THEN NoChunk
        ELSE GetChunkRef(file, Size, After(file, Size, pos), Tag)
  BY <1>1, ChunkRefStep
<1>7. CASE ChunkFound
  BY <1>4, <1>5, <1>6, <1>7 DEF ChunkFound
<1>8. CASE ChunkMissing
  <2>1. After(file, Size, pos) \in Nat
    BY <1>1, AfterType
  <2>2. After(file, Size, pos) >= Size =>
          GetChunkRef(file, Size, After(file, Size, pos), Tag) = NoChunk
    BY <1>1, <2>1, ChunkRefStep
  <2> QED
    BY <1>4, <1>5, <1>6, <1>8, <2>2 DEF ChunkMissing
<1>9. CASE ChunkSkipped
  BY <1>1, <1>4, <1>5, <1>6, <1>9 DEF ChunkSkipped
<1> QED
  BY <1>7, <1>8, <1>9

LEMMA WalkStepKeeps ==
  ASSUME LoopInv, IInv', ChunkFound \/ ChunkMissing \/ ChunkSkipped
  PROVE  LoopInv'
<1>1. /\ walking /\ UNCHANGED <<file, key, buf, pc, ok, region, idx, out, ret>>
      /\ IInv /\ TypeOK /\ Placed /\ PayloadKept
  BY DEF LoopInv, IInv, ChunkFound, ChunkMissing, ChunkSkipped
<1>2. pc \notin {"scan", "entry", "done"}
  BY <1>1 DEF Placed
<1>3. Decided'
  <2>1. Decided
    BY DEF LoopInv
  <2> QED
    BY <1>1, <2>1, FileKept DEF Decided
<1>4. Scanning' /\ Ended'
  BY <1>1, <1>2 DEF Scanning, Ended
<1>5. Writes'
  <2> SUFFICES ASSUME pc = "again"
               PROVE  /\ \A i \in 1 .. Len(buf) : buf[i] = CellAfter(0, i)
                      /\ ~walking' => chunk'.offset = Entries /\ chunk'.size = 0
    BY <1>1, <1>2, FileKept, CellKept DEF Writes
  <2>1. \A i \in 1 .. Len(buf) : buf[i] = CellAfter(0, i)
    BY DEF LoopInv, Writes
  <2>2. ASSUME ~walking' PROVE chunk'.offset = Entries /\ chunk'.size = 0
    <3>1. ChunkFound
      <4>1. ~ChunkMissing
        BY <1>1, <2>2 DEF IInv, Placed, ChunkMissing, NoChunk
      <4> QED
        BY <1>1, <2>2, <4>1 DEF ChunkSkipped
    <3>2. LoadedSign = NoChunk /\ Accepted
      BY <1>1 DEF LoopInv, Decided, Placed
    <3>3. Entries = PayloadEnd + 2
      BY <3>2 DEF Entries, NoChunk, Header
    <3>4. /\ PayloadEnd \in Nat /\ PayloadEnd >= 4 /\ PayloadEnd + 2 <= Len(buf)
          /\ Len(buf) \in Nat /\ Size = Len(buf)
      BY <1>1, <3>2, Numbers DEF Accepted, Size
    <3>5. pos = PayloadEnd
      <4>1. pos = Header \/ pos = PayloadEnd
        BY <1>1 DEF Placed
      <4>2. Get(buf, Size, Header) = DDFB /\ DDFB # SIGN
        BY <1>1, <3>2, FirstChunk, TagAssumption
      <4>3. Get(buf, Size, pos) = SIGN
        BY <3>1 DEF ChunkFound, Tag
      <4> QED
        BY <4>1, <4>2, <4>3
    <3>6. chunk' = ChunkAt(buf, Size, PayloadEnd)
      BY <3>1, <3>5 DEF ChunkFound
    <3>7. chunk'.offset = PayloadEnd + 2 /\ chunk'.size = Get(buf, Size, PayloadEnd + 1)
      BY <3>4, <3>6 DEF ChunkAt, Header
    <3>8. Get(buf, Size, PayloadEnd + 1) = 0
      <4>1. Get(buf, Size, PayloadEnd + 1) = buf[PayloadEnd + 2]
        BY <3>4 DEF Get
      <4>2. buf[PayloadEnd + 2] = CellAfter(0, PayloadEnd + 2)
        BY <2>1, <3>4
      <4> QED
        BY <3>2, <3>3, <4>1, <4>2 DEF CellAfter, NoChunk
    <3> QED
      BY <3>3, <3>7, <3>8
  <2> QED
    BY <2>1, <2>2
<1> QED
  BY <1>3, <1>4, <1>5, WalkKeeps DEF LoopInv

-----------------------------------------------------------------------------
(* From the loaded file to the verdict.                                    *)

LEMMA CallStarts ==
  ASSUME NEW call \in {"ddfb", "find", "sign", "base", "again"},
         CallGetChunkRef(call, Header), UNCHANGED file
  PROVE  Walks'
BY DEF Walks, Sought, CallGetChunkRef

\* The conditions under which ECC_Sign goes on.
LEMMA Verdict ==
  LET c == GetChunkRef(file, Room(file), Header, DDFB)
  IN  /\ IsBundle(file) <=> /\ GetChunkRef(file, Room(file), 0, RIFF).tag # 0
                            /\ c.tag # 0 /\ ~(c.offset + c.size > Len(file))
      /\ IsBundle(file) => Payload(file) = c
BY DEF IsBundle, Payload, NoChunk

LEMMA CheckRIFFComputes ==
  ASSUME LoopInv, IInv', CheckRIFF
  PROVE  LoopInv'
<1>1. /\ pc = "riff" /\ ~walking /\ UNCHANGED <<file, key, buf, ok, chunk, region, idx, out>>
      /\ Decided /\ TypeOK
  BY DEF CheckRIFF, LoopInv, IInv
<1>2. chunk = GetChunkRef(file, Room(file), 0, RIFF)
  <2>1. Size = Room(file) /\ Tag = RIFF
    BY <1>1 DEF Size, Tag, TypeOK
  <2> QED
    BY <1>1, <2>1 DEF LoopInv, Walks, Sought
<1>3. CASE chunk.tag = 0
  <2>1. pc' = "done" /\ ret' = 0
    BY <1>3 DEF CheckRIFF, Return
  <2>2. ~IsBundle(file)
    BY <1>2, <1>3, Verdict
  <2>3. Refused'
    BY <1>1, <2>1, <2>2 DEF Refused, Decided
  <2> QED
    BY <2>1, <2>3 DEF LoopInv, Walks, Decided, Scanning, Writes, Ended
<1>4. CASE chunk.tag # 0
  <2>1. CallGetChunkRef("ddfb", Header) /\ pc' = "ddfb" /\ UNCHANGED ret
    BY <1>4 DEF CheckRIFF, CallGetChunkRef
  <2>2. Walks'
    BY <1>1, <2>1, CallStarts
  <2>3. Decided'
    BY <1>1, <1>2, <1>4, <2>1, FileKept DEF Decided
  <2> QED
    BY <2>1, <2>2, <2>3 DEF LoopInv, Scanning, Writes, Ended
<1> QED
  BY <1>3, <1>4

\* The DDFB chunk that was found.
LEMMA FoundDDFB ==
  ASSUME LoopInv, pc \in {"ddfb", "base"}, ~walking
  PROVE  chunk = GetChunkRef(file, Room(file), Header, DDFB)
<1>1. Size = Room(file) /\ Tag = DDFB
  BY DEF Size, Tag, LoopInv, IInv, TypeOK
<1> QED
  BY <1>1 DEF LoopInv, Walks, Sought

LEMMA RejectDDFBComputes ==
  ASSUME LoopInv, IInv', RejectDDFB
  PROVE  LoopInv'
<1>1. /\ pc = "ddfb" /\ ~walking /\ UNCHANGED <<file, key, out>> /\ Decided
      /\ pc' = "done" /\ ret' = 0
  BY DEF RejectDDFB, LoopInv, Return
<1>2. ~IsBundle(file)
  <2>1. chunk = GetChunkRef(file, Room(file), Header, DDFB)
    BY <1>1, FoundDDFB
  <2> QED
    BY <2>1, Verdict DEF RejectDDFB
<1>3. Refused'
  BY <1>1, <1>2 DEF Refused, Decided
<1> QED
  BY <1>1, <1>3 DEF LoopInv, Walks, Decided, Scanning, Writes, Ended

LEMMA HashDDFBComputes ==
  ASSUME LoopInv, IInv', HashDDFB
  PROVE  LoopInv'
<1>1. /\ pc = "ddfb" /\ ~walking /\ UNCHANGED <<file, key, buf, ok, chunk, idx, out, ret>>
      /\ Decided /\ IInv /\ CallGetChunkRef("find", Header) /\ pc' = "find"
      /\ region' = Region(buf, chunk)
  BY DEF HashDDFB, LoopInv, CallGetChunkRef
<1>2. chunk = GetChunkRef(file, Room(file), Header, DDFB)
  BY <1>1, FoundDDFB
<1>3. IsBundle(file)
  <2>1. chunk.tag # 0 /\ ~(chunk.offset + chunk.size > Len(file))
    <3>1. chunk.offset + chunk.size \in Nat /\ Len(file) \in Nat
      <4>1. TypeOK
        BY <1>1 DEF IInv
      <4>2. chunk \in [tag : Nat, size : Nat, offset : Nat]
        BY <4>1 DEF TypeOK
      <4>3. Len(file) \in Nat
        BY <4>1, Numbers
      <4> QED
        BY <4>2, <4>3
    <3> QED
      BY <3>1 DEF HashDDFB
  <2> QED
    BY <1>1, <1>2, <2>1, Verdict DEF Decided
<1>4. region' = RegionOf(file)
  <2>1. buf = Padded(file)
    BY <1>1 DEF IInv, Placed
  <2> QED
    BY <1>1, <1>2, <1>3, <2>1, Verdict DEF RegionOf
<1>5. Walks'
  BY <1>1, CallStarts
<1>6. Decided'
  BY <1>1, <1>3, <1>4, FileKept DEF Decided
<1> QED
  BY <1>1, <1>5, <1>6 DEF LoopInv, Scanning, Writes, Ended

-----------------------------------------------------------------------------
(* The scan over the entries.                                              *)

LEMMA FindScan ==
  ASSUME NEW f, NEW k, NEW r
  PROVE  LET c == GetChunkRef(f, Len(f), Header, SIGN)
         IN  ECC_FindSignature(f, k, r) <=> c.tag # 0 /\ Scan(f, k, r, c.offset + c.size)[c.offset]
BY DEF ECC_FindSignature, Scan, IsScan, ScanStep

LEMMA ScanOne ==
  ASSUME NEW f \in File, NEW k, NEW r, NEW end, NEW p \in 0 .. Len(f)
  PROVE  Scan(f, k, r, end)[p] <=> ScanStep(f, k, r, end, Scan(f, k, r, end), p)
<1> DEFINE s == Scan(f, k, r, end)
<1>1. IsScan(f, k, r, end, s, 0)
  BY ScanExists DEF Scan
<1> HIDE DEF s
<1>2. s[p] = ScanStep(f, k, r, end, s, p)
  BY <1>1 DEF IsScan
<1>3. s[p] <=> ScanStep(f, k, r, end, s, p)
  BY <1>2
<1> QED
  BY <1>3 DEF s

\* The SIGN chunk that was found in the file begins inside it.
LEMMA SignInFile ==
  ASSUME NEW f \in File, NEW size \in Nat, NEW tag, GetChunkRef(f, size, Header, tag) # NoChunk
  PROVE  GetChunkRef(f, size, Header, tag).offset \in 0 .. size
<1>1. PICK q \in Nat : q < size /\ GetChunkRef(f, size, Header, tag) = ChunkAt(f, size, q)
  BY WalkFurther DEF Header
<1> QED
  BY <1>1 DEF ChunkAt, Header

LEMMA NoSignChunkComputes ==
  ASSUME LoopInv, IInv', NoSignChunk
  PROVE  LoopInv'
<1>1. /\ pc = "find" /\ ~walking /\ chunk.tag = 0
      /\ UNCHANGED <<file, key, buf, ok, chunk, region, idx, out, ret>>
      /\ Decided /\ CallGetChunkRef("sign", Header) /\ pc' = "sign"
  BY DEF NoSignChunk, LoopInv, CallGetChunkRef
<1>2. ~Signed
  <2>1. chunk = GetChunkRef(file, Len(file), Header, SIGN)
    BY <1>1 DEF LoopInv, Walks, Sought, Size, Tag
  <2> QED
    BY <1>1, <2>1, FindScan DEF Signed
<1>3. Walks'
  BY <1>1, CallStarts
<1>4. Decided'
  BY <1>1, <1>2, FileKept DEF Decided
<1> QED
  BY <1>1, <1>3, <1>4 DEF LoopInv, Scanning, Writes, Ended

LEMMA StartScanComputes ==
  ASSUME LoopInv, IInv', StartScan
  PROVE  LoopInv'
<1>1. /\ pc = "find" /\ ~walking /\ chunk.tag # 0 /\ pc' = "scan" /\ pos' = chunk.offset
      /\ UNCHANGED <<file, key, buf, ok, chunk, region, idx, out, ret>>
      /\ Decided /\ file \in File /\ Len(file) \in Nat
  BY Numbers DEF StartScan, LoopInv, IInv, File
<1>2. chunk = GetChunkRef(file, Len(file), Header, SIGN)
  BY <1>1 DEF LoopInv, Walks, Sought, Size, Tag
<1>3. chunk.offset \in 0 .. Len(file)
  <2>1. chunk # NoChunk
    BY <1>1 DEF NoChunk
  <2> QED
    BY <1>1, <1>2, <2>1, SignInFile
<1>4. Signed <=> Scan(file, key, region, chunk.offset + chunk.size)[chunk.offset]
  BY <1>1, <1>2, FindScan DEF Decided, Signed
<1>5. Scanning'
  BY <1>1, <1>3, <1>4, FileKept DEF Scanning
<1>6. Decided'
  BY <1>1, FileKept DEF Decided
<1> QED
  BY <1>1, <1>5, <1>6 DEF LoopInv, Walks, Writes, Ended

\* One look of the scan at an entry, by what the stream reads.
LEMMA ScanHere ==
  ASSUME LoopInv, pc = "scan"
  PROVE  /\ Signed <=> /\ InScan /\ WellFormedEntry
                       /\ \/ Present
                          \/ /\ pos + EntryLen <= Size
                             /\ Scan(file, key, region, chunk.offset + chunk.size)[pos + EntryLen]
         /\ Size = Len(file) /\ Len(file) \in Nat /\ file \in File /\ pos \in 0 .. Len(file)
<1> DEFINE end == chunk.offset + chunk.size
           s   == Scan(file, key, region, end)
<1>1. /\ Len(file) \in Nat /\ file \in File /\ Size = Len(file) /\ pos \in 0 .. Len(file)
      /\ TypeOK /\ buf = Padded(file)
      /\ Signed <=> s[pos]
  BY Numbers DEF LoopInv, IInv, File, Size, Scanning, Placed
<1>2. /\ Field(0) = Get(file, Len(file), pos) /\ Field(1) = Get(file, Len(file), pos + 1)
      /\ Field(2) = Get(file, Len(file), pos + 2) /\ Field(3) = Get(file, Len(file), pos + 3)
  <2>1. pos \in Nat /\ pos + 0 = pos /\ pos + 1 \in Nat /\ pos + 2 \in Nat /\ pos + 3 \in Nat
    BY <1>1
  <2> QED
    BY <1>1, <2>1, LoadedReads DEF Field
<1> HIDE DEF s
<1>3. s[pos] <=> ScanStep(file, key, region, end, s, pos)
  BY <1>1, ScanOne DEF s
<1>4. s[pos] <=> /\ pos < end /\ WellFormedEntry
                 /\ Present \/ (pos + EntryLen <= Len(file) /\ s[pos + EntryLen])
  BY <1>2, <1>3 DEF ScanStep, WellFormedEntry, Present
<1>5. InScan <=> pos < end
  BY DEF InScan
<1> QED
  BY <1>1, <1>4, <1>5 DEF s

LEMMA AlreadySignedComputes ==
  ASSUME LoopInv, IInv', AlreadySigned
  PROVE  LoopInv'
<1>1. /\ pc = "scan" /\ InScan /\ Present /\ WellFormedEntry
      /\ UNCHANGED <<file, key, out>> /\ Decided /\ pc' = "done" /\ ret' = 1
  BY DEF AlreadySigned, LoopInv, Return, InScan, Present
<1>2. Signed
  BY <1>1, ScanHere
<1>3. Known'
  BY <1>1, <1>2, FileKept DEF Known, Decided
<1> QED
  BY <1>1, <1>3 DEF LoopInv, Walks, Decided, Scanning, Writes, Ended

LEMMA NextEntryComputes ==
  ASSUME LoopInv, IInv', NextEntry
  PROVE  LoopInv'
<1> DEFINE end == chunk.offset + chunk.size
           s   == Scan(file, key, region, end)
<1>1. /\ pc = "scan" /\ InScan /\ WellFormedEntry /\ ~Present
      /\ UNCHANGED <<file, key, buf, pc, walking, ok, chunk, region, idx, out, ret>>
      /\ Decided /\ chunk.tag # 0
      /\ pos' = IF pos + EntryLen <= Size THEN pos + EntryLen ELSE Size
  BY DEF NextEntry, LoopInv, InScan, Scanning
<1>2. /\ Signed <=> pos + EntryLen <= Size /\ s[pos + EntryLen]
      /\ Size = Len(file) /\ Len(file) \in Nat /\ file \in File /\ pos \in 0 .. Len(file)
  BY <1>1, ScanHere
<1>3. ~s[Len(file)]
  <2>1. Get(file, Len(file), Len(file)) = 0 /\ PubLen # 0 /\ Len(file) \in 0 .. Len(file)
    BY <1>2, LenAssumption DEF Get
  <2> HIDE DEF end
  <2> QED
    BY <1>2, <2>1, ScanOne DEF ScanStep
<1> HIDE DEF s
<1>4. pos' \in 0 .. Len(file) /\ (Signed <=> s[pos'])
  BY <1>1, <1>2, <1>3 DEF EntryLen
<1>5. Scanning'
  BY <1>1, <1>4, FileKept DEF Scanning, s
<1>6. Decided'
  BY <1>1, FileKept DEF Decided
<1> QED
  BY <1>1, <1>5, <1>6 DEF LoopInv, Walks, Writes, Ended

LEMMA EndScanComputes ==
  ASSUME LoopInv, IInv', EndScan
  PROVE  LoopInv'
<1>1. /\ pc = "scan" /\ (~InScan \/ ~WellFormedEntry)
      /\ UNCHANGED <<file, key, buf, ok, chunk, region, idx, out, ret>>
      /\ Decided /\ CallGetChunkRef("sign", Header) /\ pc' = "sign"
  BY DEF EndScan, LoopInv, CallGetChunkRef
<1>2. ~Signed
  BY <1>1, ScanHere
<1>3. Walks'
  BY <1>1, CallStarts
<1>4. Decided'
  BY <1>1, <1>2, FileKept DEF Decided
<1> QED
  BY <1>1, <1>3, <1>4 DEF LoopInv, Scanning, Writes, Ended

-----------------------------------------------------------------------------
(* The new header and the entry.                                           *)

LEMMA FindBaseComputes ==
  ASSUME LoopInv, IInv', FindBase
  PROVE  LoopInv'
<1>1. /\ pc = "sign" /\ ~walking /\ chunk.tag = 0
      /\ UNCHANGED <<file, key, buf, ok, chunk, region, idx, out, ret>>
      /\ Decided /\ CallGetChunkRef("base", Header) /\ pc' = "base"
      /\ file \in File /\ Room(file) \in Nat /\ Len(buf) = Room(file)
  BY Numbers DEF FindBase, LoopInv, CallGetChunkRef, IInv, TypeOK, File
<1>2. LoadedSign = NoChunk
  <2>1. chunk = LoadedSign
    BY <1>1 DEF LoopInv, Walks, Sought, Size, Tag, LoadedSign
  <2>2. LoadedSign = NoChunk \/ LoadedSign.tag = SIGN
    BY <1>1, ChunkRefType DEF LoadedSign, Header
  <2> QED
    BY <1>1, <2>1, <2>2, TagAssumption
<1>3. Walks'
  BY <1>1, CallStarts
<1>4. Decided'
  BY <1>1, <1>2, FileKept DEF Decided
<1> QED
  BY <1>1, <1>3, <1>4 DEF LoopInv, Scanning, Writes, Ended

\* What the buffer holds before anything is put.
LEMMA NothingPut ==
  ASSUME TypeOK, buf = Padded(file), NEW i \in 1 .. Len(buf)
  PROVE  buf[i] = Get(file, Room(file), i - 1)
<1>1. /\ Len(file) \in Nat /\ Len(buf) = Room(file) /\ Room(file) \in Nat
      /\ Room(file) >= Len(file) /\ file \in Inputs
  BY Numbers DEF TypeOK
<1>2. i - 1 \in 0 .. Room(file) - 1 /\ (i - 1) + 1 = i
  BY <1>1
<1>3. buf[i] = Get(file, Len(file), i - 1)
  BY <1>1, <1>2, Loaded
<1> QED
  BY <1>1, <1>2, <1>3 DEF Get

LEMMA NewSignChunkComputes ==
  ASSUME LoopInv, IInv', NewSignChunk
  PROVE  LoopInv'
<1>1. /\ pc = "base" /\ ~walking /\ chunk.tag # 0 /\ Decided /\ TypeOK /\ Placed
      /\ UNCHANGED <<file, key, chunk, region, idx, out, ret>>
      /\ CallGetChunkRef("again", Header) /\ pc' = "again" /\ walking'
      /\ LoadedSign = NoChunk /\ Accepted /\ buf = Padded(file)
  BY DEF NewSignChunk, LoopInv, CallGetChunkRef, IInv, Placed, Decided
<1>2. /\ PayloadEnd \in Nat /\ PayloadEnd + 2 <= Len(buf) /\ Len(buf) \in Nat
      /\ Len(buf) = Room(file) /\ buf \in Seq(Nat) /\ PayloadEnd + 1 \in Nat
  <2>1. PayloadEnd \in Nat /\ Len(file) \in Nat /\ Len(buf) \in Nat /\ Len(buf) >= Len(file) + 6
    BY <1>1, Numbers
  <2>2. PayloadEnd <= Len(file) /\ Len(buf) = Room(file) /\ buf \in Seq(Nat)
    BY <1>1 DEF Accepted, TypeOK
  <2> QED
    BY <2>1, <2>2
<1>3. chunk.offset + chunk.size = PayloadEnd
  BY <1>1 DEF Placed, NoChunk
<1>4. ok' = TRUE /\ buf' = Put(Put(buf, PayloadEnd, SIGN), PayloadEnd + 1, 0)
  BY <1>2, <1>3 DEF NewSignChunk, Header
<1>5. Entries = PayloadEnd + 2 /\ LoadedSign.tag = 0
  BY <1>1 DEF Entries, NoChunk, Header
<1>6. ASSUME NEW i \in 1 .. Len(buf)
      PROVE  buf'[i] = CellAfter(0, i)
  <2> DEFINE b == Put(buf, PayloadEnd, SIGN)
  <2>1. /\ b \in Seq(Nat) /\ Len(b) = Len(buf)
        /\ b[i] = IF i = PayloadEnd + 1 THEN SIGN ELSE buf[i]
    BY <1>2, PutLemma, TagAssumption
  <2> HIDE DEF b
  <2>2. buf'[i] = IF i = PayloadEnd + 2 THEN 0 ELSE b[i]
    <3>1. \A j \in 1 .. Len(b) : Put(b, PayloadEnd + 1, 0)[j] = IF j = (PayloadEnd + 1) + 1 THEN 0 ELSE b[j]
      <4> DEFINE p == PayloadEnd + 1
      <4>1. b \in Seq(Nat) /\ p \in Nat /\ 0 \in Nat
        BY <1>2, <2>1
      <4> HIDE DEF p
      <4>2. \A j \in 1 .. Len(b) : Put(b, p, 0)[j] = IF j = p + 1 THEN 0 ELSE b[j]
        BY <4>1, PutLemma
      <4> QED
        BY <4>2 DEF p
    <3>2. Put(b, PayloadEnd + 1, 0)[i] = IF i = (PayloadEnd + 1) + 1 THEN 0 ELSE b[i]
      BY <2>1, <3>1
    <3>3. buf' = Put(b, PayloadEnd + 1, 0) /\ (PayloadEnd + 1) + 1 = PayloadEnd + 2
      BY <1>2, <1>4 DEF b
    <3> QED
      BY <3>2, <3>3
  <2>3. CellAfter(0, i) = IF i = PayloadEnd + 2 THEN 0
                          ELSE IF i = PayloadEnd + 1 THEN SIGN
                          ELSE Get(file, Room(file), i - 1)
    <3>1. ~(i > Place /\ i <= Place + 0)
      <4>1. Place = PayloadEnd + 2
        BY <1>1, <1>2, <1>5 DEF Place, NoChunk
      <4> QED
        BY <1>2, <4>1
    <3>2. Entries - 1 = PayloadEnd + 1
      BY <1>2, <1>5
    <3> QED
      BY <1>5, <3>1, <3>2 DEF CellAfter
  <2>4. buf[i] = Get(file, Room(file), i - 1)
    BY <1>1, NothingPut
  <2> QED
    BY <2>1, <2>2, <2>3, <2>4
<1>7. Len(buf') = Len(buf)
  <2>1. TypeOK'
    BY DEF IInv
  <2> QED
    BY <1>1, <1>2, <2>1, FileKept DEF TypeOK
<1>8. Writes'
  BY <1>1, <1>6, <1>7, FileKept, CellKept DEF Writes
<1>9. Walks'
  BY <1>1, CallStarts
<1>10. Decided'
  BY <1>1, <1>4, FileKept DEF Decided
<1> QED
  BY <1>1, <1>8, <1>9, <1>10 DEF LoopInv, Scanning, Ended

\* Where the entry goes.
LEMMA PlaceType ==
  ASSUME LoopInv
  PROVE  /\ PayloadEnd \in Nat /\ PayloadEnd >= 4
         /\ LoadedSign = NoChunk
            \/ (LoadedSign.tag = SIGN /\ LoadedSign.size \in Nat /\ LoadedSign.offset \in Nat)
         /\ LoadedSign.tag = 0 <=> LoadedSign = NoChunk
         /\ LoadedSign.size \in Nat
         /\ Entries \in Nat /\ Entries >= 3
         /\ Place \in Nat /\ Place >= Entries
         /\ Room(file) \in Nat /\ Len(buf) = Room(file)
<1>1. /\ PayloadEnd \in Nat /\ PayloadEnd >= 4 /\ file \in File
      /\ Room(file) \in Nat /\ Len(buf) = Room(file)
  BY Numbers DEF LoopInv, IInv, TypeOK, File
<1>2. \/ LoadedSign = NoChunk
      \/ /\ LoadedSign.tag = SIGN /\ LoadedSign.size \in Nat
         /\ LoadedSign.offset \in Nat /\ LoadedSign.offset >= 3
  BY <1>1, ChunkRefType DEF LoadedSign, Header
<1>3. LoadedSign.tag = 0 <=> LoadedSign = NoChunk
  BY <1>2, TagAssumption DEF NoChunk
<1>4. LoadedSign.size \in Nat
  BY <1>2 DEF NoChunk
<1>5. Entries \in Nat /\ Entries >= 3
  BY <1>1, <1>2, <1>3 DEF Entries, Header
<1>6. Place \in Nat /\ Place >= Entries
  BY <1>4, <1>5 DEF Place
<1> QED
  BY <1>1, <1>2, <1>3, <1>4, <1>5, <1>6

LEMMA SignChunkLocatedComputes ==
  ASSUME LoopInv, IInv', SignChunkLocated
  PROVE  LoopInv'
<1>1. /\ pc \in {"sign", "again"} /\ ~walking /\ chunk.tag # 0 /\ Decided /\ TypeOK /\ Placed
      /\ UNCHANGED <<file, key, buf, ok, chunk, region, out, ret>>
      /\ pc' = "entry" /\ idx' = 1 /\ pos' = chunk.offset + chunk.size /\ ok
      /\ ~Signed /\ region = RegionOf(file) /\ IsBundle(file)
  BY DEF SignChunkLocated, LoopInv, StartEntry, IInv, Decided
<1>2. /\ Place \in Nat /\ Room(file) \in Nat /\ Len(buf) = Room(file) /\ LoadedSign.size \in Nat
      /\ Entries \in Nat
  BY PlaceType
<1>3. /\ chunk.offset = Entries /\ pos' = Place
      /\ \A i \in 1 .. Len(buf) : buf[i] = CellAfter(0, i)
  <2>1. CASE pc = "sign"
    <3>1. chunk = LoadedSign
      BY <1>1, <1>2, <2>1 DEF LoopInv, Walks, Sought, Size, Tag, LoadedSign
    <3>2. chunk.offset = Entries /\ pos' = Place
      BY <1>1, <3>1 DEF Entries, Place
    <3>3. ASSUME NEW i \in 1 .. Len(buf) PROVE buf[i] = CellAfter(0, i)
      <4>1. buf[i] = Get(file, Room(file), i - 1)
        BY <1>1, <2>1, NothingPut DEF Placed
      <4>2. ~(i > Place /\ i <= Place + 0)
        BY <1>2
      <4> QED
        BY <1>1, <3>1, <4>1, <4>2 DEF CellAfter
    <3> QED
      BY <3>2, <3>3
  <2>2. CASE pc = "again"
    <3>1. LoadedSign.size = 0
      BY <1>1, <2>2 DEF Decided, NoChunk
    <3>2. chunk.offset = Entries /\ chunk.size = 0
      BY <1>1, <2>2 DEF LoopInv, Writes
    <3>3. pos' = Place
      BY <1>1, <3>1, <3>2 DEF Place
    <3> QED
      BY <2>2, <3>2, <3>3 DEF LoopInv, Writes
  <2> QED
    BY <1>1, <2>1, <2>2
<1>4. Place = PosAfter(0) /\ OkAfter(0)
  BY <1>2 DEF PosAfter, OkAfter
<1>5. Writes'
  <2>1. PosAfter(0)' = PosAfter(0) /\ OkAfter(0)' = OkAfter(0)
    BY <1>1, FileKept DEF PosAfter, OkAfter
  <2>2. idx' - 1 = 0
    BY <1>1
  <2>3. \A i \in 1 .. Len(buf) : CellAfter(0, i)' = CellAfter(0, i)
    BY <1>1, CellKept
  <2>4. /\ chunk'.offset = Entries' /\ pos' = PosAfter(0)' /\ ok' = OkAfter(0)'
        /\ \A i \in 1 .. Len(buf') : buf'[i] = CellAfter(0, i)'
    BY <1>1, <1>3, <1>4, <2>1, <2>3, FileKept DEF OkAfter
  <2> QED
    BY <1>1, <2>2, <2>4 DEF Writes
<1>6. Decided'
  BY <1>1, FileKept DEF Decided
<1> QED
  BY <1>1, <1>5, <1>6 DEF LoopInv, Walks, Scanning, Ended

\* Behind the file the stream reads zeros, in the reserved room and without it.
LEMMA RoomReads ==
  ASSUME NEW f \in File, NEW p \in Nat
  PROVE  Get(f, Room(f), p) = Get(f, Len(f), p)
<1>1. Len(f) \in Nat /\ Room(f) \in Nat /\ Room(f) >= Len(f)
  BY RoomType DEF File, Header, EntryLen
<1> QED
  BY <1>1 DEF Get

\* The DDFB chunk ECC_Sign accepts.
LEMMA BundleShape ==
  ASSUME NEW f \in File, Get(f, Len(f), Header) \in {DDFB, 0}, IsBundle(f)
  PROVE  LET c == GetChunkRef(f, Room(f), Header, DDFB)
         IN  /\ Payload(f) = c /\ c.tag = DDFB /\ c.offset = 4
             /\ c.size = Get(f, Len(f), 3) /\ c.size \in Nat
             /\ c.offset + c.size = After(f, Len(f), Header)
             /\ After(f, Len(f), Header) = 4 + c.size
             /\ After(f, Len(f), Header) <= Len(f)
             /\ Get(f, Len(f), Header) = DDFB
             /\ GetChunkRef(f, Room(f), 0, RIFF).tag # 0
<1> DEFINE c == GetChunkRef(f, Room(f), Header, DDFB)
<1>1. Len(f) \in Nat /\ Room(f) \in Nat /\ Room(f) >= Len(f) + 6 /\ Header = 2
  BY RoomType DEF File, Header, EntryLen
<1>2. /\ GetChunkRef(f, Room(f), 0, RIFF).tag # 0 /\ c.tag # 0
      /\ ~(c.offset + c.size > Len(f)) /\ Payload(f) = c
  BY DEF IsBundle, Payload, NoChunk
<1>3. /\ Get(f, Room(f), 2) = Get(f, Len(f), 2) /\ Get(f, Room(f), 3) = Get(f, Len(f), 3)
      /\ Get(f, Len(f), 3) \in Nat
  BY <1>1, RoomReads, GetType
<1>4. c = IF Get(f, Len(f), 2) = DDFB THEN ChunkAt(f, Room(f), 2)
          ELSE IF Get(f, Len(f), 2) = 0 THEN NoChunk
          ELSE GetChunkRef(f, Room(f), After(f, Room(f), 2), DDFB)
  BY <1>1, <1>3, ChunkRefStep
<1>5. Get(f, Len(f), 2) = DDFB
  BY <1>1, <1>2, <1>4 DEF NoChunk
<1>6. c = [tag |-> DDFB, size |-> Get(f, Len(f), 3), offset |-> 4]
  BY <1>1, <1>3, <1>4, <1>5 DEF ChunkAt, Header
<1>7. After(f, Len(f), Header) = 4 + Get(f, Len(f), 3)
  <2>1. After(f, Len(f), 2) = 2 + 2 + Get(f, Len(f), 2 + 1)
    BY <1>1 DEF After
  <2> QED
    BY <1>1, <1>3, <2>1
<1> HIDE DEF c
<1>8. c.tag = DDFB /\ c.offset = 4 /\ c.size = Get(f, Len(f), 3)
  BY <1>6
<1> QED
  BY <1>1, <1>2, <1>3, <1>5, <1>7, <1>8 DEF c

\* A new chunk goes behind the DDFB chunk, which ends in the file: there is room.
LEMMA NewFits ==
  ASSUME LoopInv, IsBundle(file), LoadedSign = NoChunk
  PROVE  Place = PayloadEnd + 2 /\ Place + 4 <= Room(file)
<1>1. /\ file \in File /\ Get(file, Len(file), Header) \in {DDFB, 0} /\ Len(file) \in Nat
      /\ Room(file) >= Len(file) + 6 /\ Room(file) \in Nat /\ PayloadEnd \in Nat
  BY Numbers DEF LoopInv, IInv, TypeOK, File
<1>2. PayloadEnd <= Len(file)
  BY <1>1, BundleShape DEF PayloadEnd
<1>3. Place = PayloadEnd + 2
  BY <1>1 DEF Place, Entries, NoChunk, Header
<1> QED
  BY <1>1, <1>2, <1>3

\* The file to write, by the places of this run.
FinalCell(i) ==
  IF OkAfter(EntryLen) /\ i = Header THEN PosAfter(EntryLen) - Header
  ELSE IF OkAfter(EntryLen) /\ i = Entries THEN PosAfter(EntryLen) - Entries
  ELSE CellAfter(EntryLen, i)

LEMMA AppendForm ==
  ASSUME LoopInv, IsBundle(file), region = RegionOf(file)
  PROVE  ECC_AppendSignature(file, key, region) = [i \in 1 .. PosAfter(EntryLen) |-> FinalCell(i)]
<1> DEFINE end == Place + EntryLen
           fits == end <= Room(file)
           new == LoadedSign.tag = 0
           last == IF fits THEN end ELSE IF Place > Room(file) THEN Place ELSE Room(file)
           cell(i) ==
             CASE fits /\ i = Header             -> Span(Header, end)
               [] fits /\ i = Entries            -> Span(Entries, end)
               [] ~fits /\ new /\ i = Entries    -> 0
               [] new /\ i = Entries - 1         -> SIGN
               [] i > Place /\ i <= Room(file)   -> Entry(key, region)[i - Place]
               [] OTHER                          -> Get(file, Room(file), i - 1)
<1>1. /\ file \in File /\ Get(file, Len(file), Header) \in {DDFB, 0} /\ Len(file) \in Nat
      /\ Room(file) >= Len(file) + 6 /\ Header = 2 /\ EntryLen = 4
  BY Numbers DEF LoopInv, IInv, TypeOK, File
<1>2. /\ PayloadEnd \in Nat /\ PayloadEnd >= 4
      /\ Room(file) \in Nat /\ LoadedSign.size \in Nat
      /\ Entries \in Nat /\ Entries >= 3 /\ Place \in Nat /\ Place >= Entries
      /\ LoadedSign.tag = 0 <=> LoadedSign = NoChunk
  BY PlaceType
<1> DEFINE base == GetChunkRef(file, Room(file), Header, DDFB)
<1>3. base.offset + base.size = PayloadEnd /\ PayloadEnd <= Len(file)
  BY <1>1, BundleShape DEF PayloadEnd
<1>4. new => Place = PayloadEnd + 2 /\ fits
  BY <1>1, <1>2, NewFits
<1>5. ECC_AppendSignature(file, key, region) = [i \in 1 .. last |-> cell(i)]
  <2>1. (IF new THEN base.offset + base.size + Header ELSE LoadedSign.offset) = Entries
    BY <1>3 DEF Entries
  <2>2. EntryStart(LoadedSign, Entries) = Place
    BY DEF EntryStart, Place
  <2> HIDE DEF base
  <2> QED
    BY <2>1, <2>2 DEF ECC_AppendSignature, LoadedSign, base
<1>6. last = PosAfter(EntryLen) /\ fits = OkAfter(EntryLen)
  BY <1>1, <1>2 DEF PosAfter, OkAfter
<1>7. ASSUME NEW i \in 1 .. last PROVE cell(i) = FinalCell(i)
  <2>1. i \in Nat /\ i >= 1
    BY <1>1, <1>2
  <2>2. i > Place /\ i <= Room(file) <=> i > Place /\ i <= Place + 4
    BY <1>1, <1>2, <2>1
  <2>3. Span(Header, end) = end - Header /\ Span(Entries, end) = end - Entries
    BY DEF Span
  <2>4. fits => last = end
    OBVIOUS
  <2>5. ~fits => ~new
    BY <1>4
  <2>6. /\ i = Entries => ~(i > Place) /\ i # Entries - 1
        /\ i = Header => i # Entries /\ ~(i > Place)
        /\ i = Entries - 1 => ~(i > Place)
        /\ new => Entries - 1 # Header
    <3>1. new => Entries = PayloadEnd + 2
      BY <1>1 DEF Entries
    <3> QED
      BY <1>1, <1>2, <3>1
  <2>7. FinalCell(i) = IF fits /\ i = Header THEN end - Header
                       ELSE IF fits /\ i = Entries THEN end - Entries
                       ELSE CellAfter(4, i)
    BY <1>1, <1>6, <2>4 DEF FinalCell
  <2>8. CellAfter(4, i) = IF new /\ i = Entries THEN 0
                          ELSE IF new /\ i = Entries - 1 THEN SIGN
                          ELSE IF i > Place /\ i <= Room(file) THEN Entry(key, region)[i - Place]
                          ELSE Get(file, Room(file), i - 1)
    BY <2>2 DEF CellAfter
  <2> HIDE DEF fits, new, end
  <2>9. CASE i = Header
    <3>1. i # Entries /\ ~(i > Place) /\ ~(new /\ i = Entries - 1)
      BY <2>6, <2>9
    <3>2. CASE fits
      BY <2>3, <2>7, <2>9, <3>1, <3>2
    <3>3. CASE ~fits
      BY <2>5, <2>7, <2>8, <3>1, <3>3
    <3> QED
      BY <3>2, <3>3
  <2>10. CASE i = Entries /\ i # Header
    BY <2>3, <2>5, <2>6, <2>7, <2>8, <2>10
  <2>11. CASE i # Entries /\ i # Header
    BY <2>6, <2>7, <2>8, <2>11
  <2> QED
    BY <2>9, <2>10, <2>11
<1> HIDE DEF cell, last, fits
<1>8. [i \in 1 .. last |-> cell(i)] = [i \in 1 .. last |-> FinalCell(i)]
  BY <1>7
<1> QED
  BY <1>5, <1>6, <1>8

LEMMA PutEntryFieldComputes ==
  ASSUME LoopInv, IInv', PutEntryField
  PROVE  LoopInv'
<1>1. PICK m \in 1 .. 4 : idx = m
  BY DEF PutEntryField, LoopInv, IInv, TypeOK, EntryLen
<1> DEFINE n == m - 1
           v == Entry(key, region)[m]
           fits == ok /\ pos < Len(buf)
<1>2. /\ pc = "entry" /\ idx' = m + 1
      /\ UNCHANGED <<file, key, pc, walking, chunk, region, out, ret>>
      /\ buf' = (IF fits THEN Put(buf, pos, v) ELSE buf)
      /\ pos' = (IF fits THEN pos + 1 ELSE pos)
      /\ ok' = fits
  BY <1>1 DEF PutEntryField, PutField
<1>3. Decided /\ TypeOK /\ buf \in Seq(Nat) /\ pos \in Nat /\ Len(buf) \in Nat
  BY Numbers DEF LoopInv, IInv, TypeOK
<1>4. /\ chunk.offset = Entries /\ pos = PosAfter(n) /\ ok = OkAfter(n)
      /\ \A i \in 1 .. Len(buf) : buf[i] = CellAfter(n, i)
  BY <1>1, <1>2 DEF LoopInv, Writes
<1>5. /\ Place \in Nat /\ Place >= Entries /\ Entries \in Nat
      /\ Room(file) \in Nat /\ Len(buf) = Room(file)
  BY PlaceType
<1>6. /\ fits <=> Place + m <= Room(file)
      /\ fits => pos = Place + n
  <2>1. ok <=> n = 0 \/ Place + n <= Room(file)
    BY <1>4 DEF OkAfter
  <2>2. pos = IF Place >= Room(file) THEN Place
              ELSE IF Place + n <= Room(file) THEN Place + n ELSE Room(file)
    BY <1>4 DEF PosAfter
  <2>3. n \in Nat /\ Place + m = Place + n + 1
    BY <1>5
  <2> HIDE DEF n
  <2>4. fits => Place < Room(file) /\ Place + n < Room(file)
    BY <1>5, <2>1, <2>2, <2>3
  <2>5. Place + n + 1 <= Room(file) => fits
    BY <1>5, <2>1, <2>2, <2>3
  <2> QED
    BY <1>5, <2>2, <2>3, <2>4, <2>5
<1>7. fits = OkAfter(m)
  BY <1>6 DEF OkAfter
<1>8. pos' = PosAfter(m)
  BY <1>2, <1>4, <1>5, <1>6 DEF PosAfter
<1>9. ASSUME NEW i \in 1 .. Len(buf) PROVE buf'[i] = CellAfter(m, i)
  <2>1. CASE fits
    <3>1. v \in Nat
      <4>1. Signature(key, region) \in Nat
        BY <1>2 DEF LoopInv, IInv, Placed, Accepted
      <4>2. PubLen \in Nat /\ SigLen \in Nat /\ PubKey(key) \in Nat
        BY <1>3, LenAssumption DEF TypeOK
      <4> QED
        BY <4>1, <4>2 DEF Entry
    <3>2. buf'[i] = IF i = pos + 1 THEN v ELSE buf[i]
      <4> HIDE DEF v
      <4> QED
        BY <1>2, <1>3, <2>1, <3>1, PutLemma
    <3>3. pos = Place + n /\ pos + 1 = Place + m
      BY <1>5, <1>6, <2>1
    <3>4. CASE i = Place + m
      <4>1. i > Place /\ i <= Place + m /\ i # Entries /\ i # Entries - 1 /\ i - Place = m
        BY <1>5, <3>4
      <4> QED
        BY <3>2, <3>3, <3>4, <4>1 DEF CellAfter
    <3>5. CASE i # Place + m
      <4>1. i <= Place + m <=> i <= Place + n
        BY <1>5, <3>5
      <4>2. buf'[i] = CellAfter(n, i)
        BY <1>4, <3>2, <3>3, <3>5
      <4> HIDE DEF n
      <4> QED
        BY <4>1, <4>2 DEF CellAfter
    <3> QED
      BY <3>4, <3>5
  <2>2. CASE ~fits
    <3>1. i <= Place + m <=> i <= Place + n
      BY <1>5, <1>6, <2>2
    <3>2. buf'[i] = CellAfter(n, i)
      BY <1>2, <1>4, <2>2
    <3> HIDE DEF n
    <3> QED
      BY <3>1, <3>2 DEF CellAfter
  <2> QED
    BY <2>1, <2>2
<1>10. Len(buf') = Len(buf)
  <2>1. TypeOK'
    BY DEF IInv
  <2> QED
    BY <1>2, <1>5, <2>1, FileKept DEF TypeOK
<1>11. Writes'
  <2>1. idx' - 1 = m
    BY <1>2
  <2>2. PosAfter(m)' = PosAfter(m) /\ OkAfter(m)' = OkAfter(m)
    BY <1>2, FileKept DEF PosAfter, OkAfter
  <2>3. \A i \in 1 .. Len(buf) : CellAfter(m, i)' = CellAfter(m, i)
    BY <1>2, CellKept
  <2>4. /\ chunk'.offset = Entries' /\ pos' = PosAfter(m)' /\ ok' = OkAfter(m)'
        /\ \A i \in 1 .. Len(buf') : buf'[i] = CellAfter(m, i)'
    BY <1>2, <1>4, <1>7, <1>8, <1>9, <1>10, <2>2, <2>3, FileKept
  <2> QED
    BY <1>2, <2>1, <2>4 DEF Writes
<1>12. Decided'
  BY <1>2, <1>3, FileKept DEF Decided
<1> QED
  BY <1>2, <1>11, <1>12 DEF LoopInv, Walks, Scanning, Ended

\* Both sizes, if the stream is still good, and what is handed to PL_WriteFile.
LEMMA PatchSizesComputes ==
  ASSUME LoopInv, IInv', PatchSizes
  PROVE  LoopInv'
<1> DEFINE b == Put(buf, Entries - 1, pos - Entries)
<1>1. /\ pc = "entry" /\ idx = 5 /\ pc' = "done" /\ ret' = 1 /\ out' = pos
      /\ UNCHANGED <<file, key, ok, region>>
      /\ buf \in Seq(Nat) /\ Decided /\ TypeOK
  <2>1. TypeOK /\ Decided
    BY DEF LoopInv, IInv
  <2>2. buf \in Seq(Nat) /\ idx \in 1 .. 5
    BY <2>1 DEF TypeOK, EntryLen
  <2>3. /\ pc = "entry" /\ idx > 4 /\ pc' = "done" /\ ret' = 1 /\ out' = pos
        /\ UNCHANGED <<file, key, ok, region>>
    BY DEF PatchSizes, Return, EntryLen
  <2> QED
    BY <2>1, <2>2, <2>3
<1>2. /\ chunk.offset = Entries /\ pos = PosAfter(4) /\ ok = OkAfter(4)
      /\ \A i \in 1 .. Len(buf) : buf[i] = CellAfter(4, i)
  BY <1>1 DEF LoopInv, Writes
<1>3. /\ Place \in Nat /\ Place >= Entries /\ Entries \in Nat /\ Entries >= 3
      /\ Room(file) \in Nat /\ Len(buf) = Room(file) /\ Header = 2 /\ EntryLen = 4
  BY PlaceType DEF Header, EntryLen
<1>4. IsBundle(file) /\ ~Signed /\ region = RegionOf(file)
  BY <1>1 DEF Decided
<1>5. buf' = IF ok THEN Put(b, 1, pos - 2) ELSE buf
  BY <1>2, <1>3 DEF PatchSizes
<1>6. ok => pos = Place + 4 /\ Place + 4 <= Room(file)
  <2>1. ok => Place + 4 <= Room(file)
    <3>1. OkAfter(4) => Place + 4 <= Room(file)
      BY DEF OkAfter
    <3> QED
      BY <1>2, <3>1, Zenon
  <2>2. Place + 4 <= Room(file) => PosAfter(4) = Place + 4
    BY <1>3 DEF PosAfter
  <2> QED
    BY <1>2, <2>1, <2>2
<1>7. ASSUME NEW i \in 1 .. Len(buf)
      PROVE  buf'[i] = FinalCell(i)
  <2>1. buf[i] = CellAfter(4, i)
    BY <1>2
  <2>2. FinalCell(i) = IF ok /\ i = 2 THEN pos - 2
                       ELSE IF ok /\ i = Entries THEN pos - Entries
                       ELSE CellAfter(4, i)
    BY <1>2, <1>3 DEF FinalCell
  <2>3. CASE ok
    <3>1. Entries - 1 \in Nat /\ (Entries - 1) + 1 = Entries /\ pos - Entries \in Nat /\ pos - 2 \in Nat
      BY <1>3, <1>6, <2>3
    <3>2. b \in Seq(Nat) /\ Len(b) = Len(buf) /\ b[i] = IF i = Entries THEN pos - Entries ELSE buf[i]
      <4> DEFINE e == Entries - 1
                 v == pos - Entries
      <4>1. e \in Nat /\ v \in Nat /\ e + 1 = Entries
        BY <3>1
      <4> HIDE DEF e, v
      <4>2. /\ Put(buf, e, v) \in Seq(Nat) /\ Len(Put(buf, e, v)) = Len(buf)
            /\ Put(buf, e, v)[i] = IF i = e + 1 THEN v ELSE buf[i]
        BY <1>1, <4>1, PutLemma
      <4> QED
        BY <4>1, <4>2 DEF e, v
    <3> HIDE DEF b
    <3>3. buf'[i] = IF i = 2 THEN pos - 2 ELSE b[i]
      <4> DEFINE v == pos - 2
      <4>1. v \in Nat /\ 1 \in Nat /\ 1 + 1 = 2
        BY <3>1
      <4> HIDE DEF v
      <4>2. \A j \in 1 .. Len(b) : Put(b, 1, v)[j] = IF j = 1 + 1 THEN v ELSE b[j]
        BY <3>2, <4>1, PutLemma
      <4>3. Put(b, 1, v)[i] = IF i = 2 THEN v ELSE b[i]
        BY <3>2, <4>2
      <4>4. buf' = Put(b, 1, v)
        BY <1>5, <2>3 DEF v
      <4> QED
        BY <4>3, <4>4 DEF v
    <3> QED
      BY <1>3, <2>1, <2>2, <2>3, <3>2, <3>3
  <2>4. CASE ~ok
    BY <1>5, <2>1, <2>2, <2>4
  <2> QED
    BY <2>3, <2>4
<1>8. Len(buf') = Room(file)
  <2>1. TypeOK'
    BY DEF IInv
  <2> QED
    BY <1>1, <2>1, FileKept DEF TypeOK
<1>9. ECC_AppendSignature(file, key, region) = [i \in 1 .. PosAfter(4) |-> FinalCell(i)]
  BY <1>3, <1>4, AppendForm
<1>10. ASSUME NEW i \in 1 .. pos
       PROVE  Get(buf', pos, i - 1) = FinalCell(i)
  <2>1. i \in Nat /\ i >= 1 /\ i <= pos /\ pos \in Nat /\ i - 1 < pos
    BY <1>1 DEF TypeOK
  <2>2. CASE i <= Room(file)
    <3>1. Get(buf', pos, i - 1) = buf'[(i - 1) + 1] /\ (i - 1) + 1 = i
      BY <1>3, <1>8, <2>1, <2>2 DEF Get
    <3>2. i \in 1 .. Len(buf)
      BY <1>3, <2>1, <2>2
    <3> QED
      BY <1>7, <3>1, <3>2
  <2>3. CASE ~(i <= Room(file))
    <3>1. Get(buf', pos, i - 1) = 0
      BY <1>3, <1>8, <2>1, <2>3 DEF Get
    <3>2. pos = Place /\ Place > Room(file) /\ ~OkAfter(4)
      BY <1>2, <1>3, <2>1, <2>3 DEF PosAfter, OkAfter
    <3>3. LoadedSign.tag # 0
      BY <1>3, <1>4, <3>2, NewFits, PlaceType
    <3>4. FinalCell(i) = CellAfter(4, i)
      BY <1>3, <3>2 DEF FinalCell
    <3>5. CellAfter(4, i) = Get(file, Room(file), i - 1)
      BY <2>1, <3>2, <3>3 DEF CellAfter
    <3>6. Get(file, Room(file), i - 1) = 0
      BY <1>3, <2>1, <2>3 DEF Get
    <3> QED
      BY <3>1, <3>4, <3>5, <3>6
  <2> QED
    BY <2>2, <2>3
<1>11. Result' = ECC_AppendSignature(file, key, region)
  <2>1. Result' = [i \in 1 .. pos |-> Get(buf', pos, i - 1)]
    BY <1>1 DEF Result
  <2>2. Result' = [i \in 1 .. pos |-> FinalCell(i)]
    BY <1>10, <2>1
  <2> QED
    BY <1>2, <1>9, <2>2
<1>12. Written'
  <2>1. PosAfter(EntryLen)' = PosAfter(EntryLen) /\ OkAfter(EntryLen)' = OkAfter(EntryLen)
    BY <1>1, FileKept DEF PosAfter, OkAfter
  <2>2. ECC_AppendSignature(file, key, RegionOf(file))' = ECC_AppendSignature(file, key, region)
    BY <1>1, <1>4, FileKept
  <2> QED
    BY <1>1, <1>2, <1>3, <1>4, <1>11, <2>1, <2>2, FileKept DEF Written
<1> QED
  BY <1>1, <1>12 DEF LoopInv, Walks, Decided, Scanning, Writes, Ended

-----------------------------------------------------------------------------
LEMMA LoopInitial == Init => LoopInv
<1> SUFFICES ASSUME Init PROVE LoopInv
  OBVIOUS
<1>1. IInv
  BY Initially
<1> QED
  BY <1>1 DEF Init, LoopInv, Walks, Sought, Decided, Scanning, Writes, Ended

LEMMA LoopStep == ASSUME LoopInv, [Next]_vars PROVE LoopInv'
<1>1. IInv'
  BY Steps DEF LoopInv
<1>2. ASSUME UNCHANGED vars PROVE LoopInv'
  <2>1. UNCHANGED <<file, key, buf, pc, walking, pos, ok, chunk, region, idx, out, ret>>
    BY <1>2 DEF vars
  <2>2. Walks' /\ Decided' /\ Scanning' /\ Writes' /\ Ended'
    BY <2>1, FileKept DEF LoopInv, Walks, Sought, Size, Tag, Decided, Scanning, Writes, Ended,
       Refused, Known, Written, PosAfter, OkAfter, CellAfter, Result
  <2> QED
    BY <1>1, <2>2 DEF LoopInv
<1> QED
  BY <1>1, <1>2, WalkStepKeeps, CheckRIFFComputes, RejectDDFBComputes, HashDDFBComputes,
     NoSignChunkComputes, StartScanComputes, AlreadySignedComputes, NextEntryComputes,
     EndScanComputes, FindBaseComputes, NewSignChunkComputes, SignChunkLocatedComputes,
     PutEntryFieldComputes, PatchSizesComputes
  DEF Next, Step, Finished

LEMMA LoopAlways == Spec => []LoopInv
<1>1. LoopInv /\ [Next]_vars => LoopInv'
  BY LoopStep
<1> QED
  BY <1>1, LoopInitial, PTL DEF Spec

\* The loops of ECC_Sign compute what the operators of Bundle say, for every file: the
\* same verdict, and the same file to write, in whatever shape the entries are.
THEOREM SignAsSpecified == Spec => []RunsAsSpecified
<1>1. ASSUME LoopInv, pc = "done" PROVE RunsAsSpecified
  <2>1. Refused \/ Known \/ Written
    BY <1>1 DEF LoopInv, Ended
  <2>2. Written => out # 0
    BY PlaceType, <1>1 DEF Written, PosAfter, EntryLen
  <2>3. ECC_Sign(file, key) =
          IF ~IsBundle(file) THEN Outcome("invalid", <<>>)
          ELSE IF Signed THEN Outcome("present", <<>>)
          ELSE Outcome("append", ECC_AppendSignature(file, key, RegionOf(file)))
    BY DEF ECC_Sign, Signed
  <2> QED
    BY <2>1, <2>2, <2>3 DEF RunsAsSpecified, Refused, Known, Written, Outcome
<1>2. LoopInv => RunsAsSpecified
  BY <1>1 DEF RunsAsSpecified
<1> QED
  BY <1>2, LoopAlways, PTL

\* The room ECC_Sign reserves is enough: unless more was cut off the file than the
\* room makes up for, no put is dropped and the file to write lies in the buffer.
THEOREM SignRoomSuffices == Spec => []RoomSuffices
<1>1. ASSUME LoopInv, Appended, SmallTear PROVE ok /\ out <= Len(buf)
  <2>1. Written
    BY <1>1 DEF LoopInv, Ended, Appended, Refused, Known
  <2>2. /\ Place \in Nat /\ Room(file) \in Nat /\ Len(buf) = Room(file)
        /\ LoadedSign.tag = 0 <=> LoadedSign = NoChunk
    BY <1>1, PlaceType
  <2>3. Place + 4 <= Room(file)
    <3>1. CASE LoadedSign = NoChunk
      <4>1. IsBundle(file)
        BY <2>1 DEF Written
      <4> QED
        BY <1>1, <3>1, <4>1, NewFits
    <3>2. CASE LoadedSign # NoChunk
      BY <1>1, <2>2, <3>2 DEF SmallTear, Place, Entries, EntryLen
    <3> QED
      BY <3>1, <3>2
  <2>4. OkAfter(EntryLen) /\ PosAfter(EntryLen) <= Room(file)
    BY <2>2, <2>3 DEF PosAfter, OkAfter, EntryLen
  <2>5. ok = OkAfter(EntryLen) /\ out = PosAfter(EntryLen)
    BY <2>1 DEF Written
  <2>6. ok
    BY <2>4, <2>5, Zenon
  <2> QED
    BY <2>2, <2>4, <2>5, <2>6
<1>2. LoopInv => RoomSuffices
  BY <1>1 DEF RoomSuffices
<1> QED
  BY <1>2, LoopAlways, PTL

-----------------------------------------------------------------------------
(* The file to write, for a reader.                                        *)

\* A walk that passes the same headers finds the same chunk.
LEMMA SameWalk ==
  ASSUME NEW d \in File, NEW e \in File, NEW m \in Nat, NEW n \in Nat, NEW tag, tag # 0,
         NEW from \in Nat, NEW q \in Nat, from <= q, q + 2 < m, q < n,
         Get(d, m, q) = tag, GetChunkRef(d, m, from, tag) = ChunkAt(d, m, q),
         \A p \in from .. q : Get(e, n, p) = Get(d, m, p)
  PROVE  GetChunkRef(e, n, from, tag) = ChunkAt(e, n, q)
<1> DEFINE Bad(p) == /\ GetChunkRef(d, m, p, tag) = ChunkAt(d, m, q)
                     /\ GetChunkRef(e, n, p, tag) # ChunkAt(e, n, q)
           T == {t \in 0 .. q - from : Bad(q - t)}
<1>1. SUFFICES ASSUME Bad(from) PROVE FALSE
  OBVIOUS
<1>2. PICK t \in T : \A u \in T : t <= u
  <2>1. T \in SUBSET Nat
    <3> HIDE DEF Bad
    <3> QED
      OBVIOUS
  <2>2. q - from \in T
    <3>1. q - from \in 0 .. q - from /\ q - (q - from) = from
      OBVIOUS
    <3> HIDE DEF Bad
    <3> QED
      BY <1>1, <3>1
  <2> HIDE DEF T
  <2> QED
    BY <2>1, <2>2, Smallest
<1> DEFINE p == q - t
<1>3. p \in from .. q /\ p \in Nat /\ Bad(p) /\ t = q - p
  <2> HIDE DEF Bad
  <2> QED
    BY <1>2
<1>4. p < m /\ p < n /\ Get(e, n, p) = Get(d, m, p)
  BY <1>3
<1> HIDE DEF p
<1>5. ChunkAt(d, m, q).tag = tag /\ ChunkAt(d, m, q).offset = q + 2 /\ ChunkAt(d, m, q) # NoChunk
  BY DEF ChunkAt, Header, NoChunk
<1>6. CASE Get(d, m, p) = tag
  <2>1. ChunkAt(d, m, p) = ChunkAt(d, m, q)
    BY <1>3, <1>4, <1>6, ChunkRefStep
  <2>2. ChunkAt(d, m, p).offset = IF p + 1 < m THEN p + 2 ELSE p + 1
    BY DEF ChunkAt, Header
  <2>3. p = q
    BY <1>3, <1>5, <2>1, <2>2
  <2>4. GetChunkRef(e, n, p, tag) = ChunkAt(e, n, p)
    BY <1>3, <1>4, <1>6, ChunkRefStep
  <2> QED
    BY <1>3, <2>3, <2>4
<1>7. CASE Get(d, m, p) # tag
  <2> DEFINE a == After(d, m, p)
  <2>1. a \in Nat /\ a >= p + 2
    BY <1>3, AfterType
  <2>2. Get(d, m, p) # 0 /\ GetChunkRef(d, m, a, tag) = ChunkAt(d, m, q)
    BY <1>3, <1>4, <1>5, <1>7, ChunkRefStep
  <2> HIDE DEF a
  <2>3. a <= q
    <3>1. PICK r \in Nat : a <= r /\ r < m /\ GetChunkRef(d, m, a, tag) = ChunkAt(d, m, r)
      BY <1>5, <2>1, <2>2, WalkFurther
    <3>2. ChunkAt(d, m, r).offset = IF r + 1 < m THEN r + 2 ELSE r + 1
      BY DEF ChunkAt, Header
    <3>3. ChunkAt(d, m, r).offset = q + 2
      BY <1>5, <2>2, <3>1
    <3> QED
      BY <2>1, <3>1, <3>2, <3>3
  <2>4. After(e, n, p) = a
    <3>1. p + 1 \in from .. q
      BY <1>3, <2>1, <2>3
    <3> QED
      BY <3>1 DEF After, a
  <2>5. GetChunkRef(e, n, p, tag) = GetChunkRef(e, n, a, tag)
    BY <1>3, <1>4, <1>7, <2>2, <2>4, ChunkRefStep
  <2>6. Bad(a)
    BY <1>3, <2>2, <2>5
  <2>7. q - a \in T
    <3>1. q - a \in 0 .. q - from /\ q - (q - a) = a
      BY <1>3, <2>1, <2>3
    <3> HIDE DEF Bad
    <3> QED
      BY <2>6, <3>1
  <2>8. t <= q - a
    <3> HIDE DEF T
    <3> QED
      BY <1>2, <2>7
  <2> QED
    BY <1>3, <2>1, <2>3, <2>8
<1> QED
  BY <1>6, <1>7

\* The SIGN chunk of a loaded file is in the file, as what follows it is zero.
LEMMA LoadedSignShape ==
  ASSUME LoopInv, LoadedSign # NoChunk
  PROVE  \E q \in Nat : /\ q >= 2 /\ q < Len(file) /\ Get(file, Room(file), q) = SIGN
                        /\ LoadedSign = ChunkAt(file, Room(file), q)
                        /\ LoadedSign.size = Get(file, Room(file), q + 1)
                        /\ LoadedSign.offset = q + 2 /\ LoadedSign.tag = SIGN
<1>1. file \in File /\ Len(file) \in Nat /\ Room(file) \in Nat /\ Room(file) >= Len(file) + 6
  BY Numbers DEF LoopInv, IInv, TypeOK, File
<1>2. PICK q \in Nat : /\ q >= 2 /\ q < Room(file) /\ Get(file, Room(file), q) = SIGN
                       /\ LoadedSign = ChunkAt(file, Room(file), q)
  BY <1>1, WalkFurther DEF LoadedSign, Header
<1>3. q < Len(file)
  BY <1>1, <1>2, TagAssumption DEF Get
<1>4. q + 1 < Room(file)
  BY <1>1, <1>3
<1>5. /\ LoadedSign.size = Get(file, Room(file), q + 1)
      /\ LoadedSign.offset = q + 2 /\ LoadedSign.tag = SIGN
  BY <1>2, <1>4 DEF ChunkAt, Header
<1> QED
  BY <1>2, <1>3, <1>5

\* The places in a file that was loaded and in the file to write.
Appending == LoopInv /\ Written

LEMMA AppendFacts ==
  ASSUME Appending
  PROVE  /\ file \in File /\ Len(file) \in Nat /\ Room(file) \in Nat /\ Room(file) >= Len(file) + 6
         /\ key \in Keys /\ IsBundle(file) /\ Get(file, Len(file), 2) = DDFB
         /\ PayloadEnd \in Nat /\ PayloadEnd >= 4 /\ PayloadEnd <= Len(file)
         /\ PayloadEnd = 4 + Get(file, Len(file), 3)
         /\ LoadedSign.size \in Nat /\ Entries \in Nat /\ Entries >= PayloadEnd + 2
         /\ Place = Entries + LoadedSign.size /\ Place \in Nat
         /\ out \in Nat /\ out >= Place
         /\ ok => out = Place + 4 /\ Place + 4 <= Room(file)
         /\ Place + 4 <= Room(file) => ok
         /\ LoadedSign = NoChunk => ok /\ Entries = PayloadEnd + 2
         /\ LoadedSign.tag = 0 <=> LoadedSign = NoChunk
<1>1. /\ file \in File /\ Get(file, Len(file), 2) \in {DDFB, 0} /\ Len(file) \in Nat
      /\ Room(file) >= Len(file) + 6 /\ Room(file) \in Nat
      /\ PayloadEnd = 4 + Get(file, Len(file), 3)
  BY Numbers DEF LoopInv, IInv, TypeOK, File, Header, Appending
<1>2. key \in Keys /\ IsBundle(file) /\ out = PosAfter(4) /\ ok = OkAfter(4)
  BY DEF Appending, LoopInv, IInv, TypeOK, Written, EntryLen
<1>3. Get(file, Len(file), 2) = DDFB /\ PayloadEnd <= Len(file)
  BY <1>1, <1>2, BundleShape DEF PayloadEnd, Header
<1>4. /\ PayloadEnd \in Nat /\ PayloadEnd >= 4 /\ LoadedSign.size \in Nat
      /\ Entries \in Nat /\ Place \in Nat
      /\ LoadedSign.tag = 0 <=> LoadedSign = NoChunk
  BY PlaceType DEF Appending
<1>5. Place = Entries + LoadedSign.size
  BY DEF Place
<1>6. ok <=> Place + 4 <= Room(file)
  <2>1. OkAfter(4) <=> Place + 4 <= Room(file)
    BY DEF OkAfter
  <2> QED
    BY <1>2, <2>1, Zenon
<1>7. out \in Nat /\ out >= Place /\ (ok => out = Place + 4)
  <2>1. PosAfter(4) \in Nat /\ PosAfter(4) >= Place /\ (Place + 4 <= Room(file) => PosAfter(4) = Place + 4)
    BY <1>1, <1>4 DEF PosAfter
  <2> QED
    BY <1>2, <1>6, <2>1
<1>8. LoadedSign = NoChunk => ok /\ Entries = PayloadEnd + 2
  <2> HAVE LoadedSign = NoChunk
  <2>1. Place + 4 <= Room(file)
    BY <1>2, NewFits DEF Appending
  <2>2. Entries = PayloadEnd + 2
    BY <1>4 DEF Entries, Header
  <2> QED
    BY <1>6, <2>1, <2>2
<1>9. Entries >= PayloadEnd + 2
  <2>1. CASE LoadedSign = NoChunk
    BY <1>4, <1>8, <2>1
  <2>2. CASE LoadedSign # NoChunk
    <3>1. PICK q \in Nat : q >= 2 /\ q < Len(file) /\ LoadedSign.offset = q + 2
                           /\ Get(file, Room(file), q) = SIGN
                           /\ LoadedSign = ChunkAt(file, Room(file), q)
      BY <2>2, LoadedSignShape DEF Appending
    <3>2. Get(file, Room(file), 2) = DDFB /\ Get(file, Room(file), 3) = Get(file, Len(file), 3)
      BY <1>1, <1>3, RoomReads
    <3>3. After(file, Room(file), 2) = PayloadEnd
      BY <1>1, <3>2 DEF After, Header
    <3>4. LoadedSign = GetChunkRef(file, Room(file), PayloadEnd, SIGN)
      <4>1. GetChunkRef(file, Room(file), 2, SIGN) = GetChunkRef(file, Room(file), PayloadEnd, SIGN)
        BY <1>1, <3>2, <3>3, ChunkRefStep, TagAssumption
      <4> QED
        BY <4>1 DEF LoadedSign, Header
    <3>5. PICK r \in Nat : r >= PayloadEnd /\ r < Room(file) /\ LoadedSign = ChunkAt(file, Room(file), r)
      BY <1>1, <1>4, <2>2, <3>4, WalkFurther
    <3>6. r = q
      <4>1. CASE r + 1 < Room(file)
        <5>1. LoadedSign.offset = r + 2
          BY <3>5, <4>1 DEF ChunkAt, Header
        <5> QED
          BY <3>1, <5>1
      <4>2. CASE ~(r + 1 < Room(file))
        <5>1. LoadedSign.offset = r + 1
          BY <3>5, <4>2 DEF ChunkAt, Header
        <5> QED
          BY <1>1, <3>1, <4>2, <5>1
      <4> QED
        BY <4>1, <4>2
    <3>7. Entries = q + 2
      BY <1>4, <2>2, <3>1 DEF Entries
    <3> QED
      BY <1>4, <3>5, <3>6, <3>7
  <2> QED
    BY <2>1, <2>2
<1> QED
  BY <1>1, <1>2, <1>3, <1>4, <1>5, <1>6, <1>7, <1>8, <1>9

\* What is put behind the entries, and what a reader gets from the rest.
LEMMA WrittenCells ==
  ASSUME Appending
  PROVE  /\ Result \in File /\ Len(Result) = out
         /\ \A p \in Nat : p < out => Get(Result, out, p) = FinalCell(p + 1)
<1>1. out \in Nat /\ buf \in File
  BY AppendFacts DEF Appending, LoopInv, IInv, TypeOK, File
<1>2. \A i \in 1 .. out : Get(buf, out, i - 1) \in Nat
  <2>1. \A i \in 1 .. out : i - 1 \in Nat
    BY <1>1
  <2> QED
    BY <1>1, <2>1, GetType
<1>3. Result \in File /\ Len(Result) = out
  BY <1>1, <1>2 DEF Result, File
<1>4. Result = [i \in 1 .. out |-> FinalCell(i)]
  <2>1. /\ LoopInv /\ IsBundle(file) /\ region = RegionOf(file) /\ out = PosAfter(EntryLen)
        /\ Result = ECC_AppendSignature(file, key, region)
    BY DEF Appending, Written
  <2> QED
    BY <2>1, AppendForm
<1>5. \A p \in Nat : p < out => p + 1 \in 1 .. out /\ Get(Result, out, p) = Result[p + 1]
  BY <1>1, <1>3 DEF Get
<1> QED
  BY <1>3, <1>4, <1>5

LEMMA WrittenForm ==
  ASSUME Appending
  PROVE  /\ Get(Result, out, 0) = Get(file, Len(file), 0)
         /\ ok => Get(Result, out, 1) = out - 2
         /\ \A p \in Nat : p >= 2 /\ p < Entries - 2 => Get(Result, out, p) = Get(file, Len(file), p)
         /\ Get(Result, out, Entries - 2) = SIGN
         /\ Get(Result, out, Entries - 1) = IF ok THEN out - Entries ELSE LoadedSign.size
         /\ \A p \in Nat : p >= Entries /\ p < Place => Get(Result, out, p) = Get(file, Len(file), p)
         /\ ok => /\ Get(Result, out, Place) = PubLen /\ Get(Result, out, Place + 1) = PubKey(key)
                  /\ Get(Result, out, Place + 2) = SigLen
                  /\ Get(Result, out, Place + 3) = Signature(key, region)
<1>1. /\ file \in File /\ Len(file) \in Nat /\ Room(file) \in Nat /\ Room(file) >= Len(file) + 6
      /\ PayloadEnd \in Nat /\ PayloadEnd >= 4 /\ PayloadEnd <= Len(file)
      /\ LoadedSign.size \in Nat /\ Entries \in Nat /\ Entries >= PayloadEnd + 2
      /\ Place = Entries + LoadedSign.size /\ Place \in Nat
      /\ out \in Nat /\ out >= Place
      /\ ok => out = Place + 4
  BY AppendFacts
<1>2. /\ LoadedSign = NoChunk => ok /\ Entries = PayloadEnd + 2
      /\ LoadedSign.tag = 0 <=> LoadedSign = NoChunk
  BY AppendFacts
<1>3. out = PosAfter(4) /\ (ok <=> OkAfter(4))
  <2>1. ok = OkAfter(4) /\ out = PosAfter(4)
    BY DEF Appending, Written, EntryLen
  <2> QED
    BY <2>1, Zenon
<1>4. \A i : FinalCell(i) = IF ok /\ i = 2 THEN out - 2
                            ELSE IF ok /\ i = Entries THEN out - Entries
                            ELSE CellAfter(4, i)
  <2>1. \A i : FinalCell(i) = IF OkAfter(4) /\ i = 2 THEN PosAfter(4) - 2
                              ELSE IF OkAfter(4) /\ i = Entries THEN PosAfter(4) - Entries
                              ELSE CellAfter(4, i)
    BY DEF FinalCell, EntryLen, Header
  <2> QED
    BY <1>3, <2>1
<1>5. \A i \in Nat : i >= 1 =>
        CellAfter(4, i) = IF LoadedSign = NoChunk /\ i = Entries THEN 0
                          ELSE IF LoadedSign = NoChunk /\ i = Entries - 1 THEN SIGN
                          ELSE IF i > Place /\ i <= Place + 4 THEN Entry(key, region)[i - Place]
                          ELSE Get(file, Len(file), i - 1)
  <2>1. \A i \in Nat : i >= 1 => i - 1 \in Nat
    OBVIOUS
  <2>2. \A i \in Nat : i >= 1 => Get(file, Room(file), i - 1) = Get(file, Len(file), i - 1)
    BY <1>1, <2>1, RoomReads
  <2> QED
    BY <1>2, <2>2 DEF CellAfter
<1>6. \A p \in Nat : p < out => Get(Result, out, p) = FinalCell(p + 1)
  BY WrittenCells
<1> DEFINE R(p) == Get(Result, out, p)
           F(p) == Get(file, Len(file), p)
<1> HIDE DEF R, F
<1>7. ASSUME NEW p \in Nat, p < out, NEW i \in Nat, i = p + 1
      PROVE  R(p) = IF ok /\ i = 2 THEN out - 2
                    ELSE IF ok /\ i = Entries THEN out - Entries
                    ELSE IF LoadedSign = NoChunk /\ i = Entries THEN 0
                    ELSE IF LoadedSign = NoChunk /\ i = Entries - 1 THEN SIGN
                    ELSE IF i > Place /\ i <= Place + 4 THEN Entry(key, region)[i - Place]
                    ELSE F(p)
  <2>1. R(p) = FinalCell(i)
    BY <1>6, <1>7 DEF R
  <2>2. i >= 1 /\ i - 1 = p
    BY <1>7
  <2>3. CellAfter(4, i) = IF LoadedSign = NoChunk /\ i = Entries THEN 0
                          ELSE IF LoadedSign = NoChunk /\ i = Entries - 1 THEN SIGN
                          ELSE IF i > Place /\ i <= Place + 4 THEN Entry(key, region)[i - Place]
                          ELSE F(p)
    BY <1>5, <2>2 DEF F
  <2> QED
    BY <1>4, <2>1, <2>3
<1>8. R(0) = F(0)
  <2>1. 0 \in Nat /\ 0 < out /\ 1 \in Nat /\ 1 = 0 + 1 /\ 1 # 2 /\ 1 # Entries /\ 1 # Entries - 1 /\ ~(1 > Place)
    BY <1>1
  <2> QED
    BY <1>7, <2>1
<1>9. ok => R(1) = out - 2
  <2>1. 1 \in Nat /\ 1 < out /\ 2 \in Nat /\ 2 = 1 + 1
    BY <1>1
  <2> QED
    BY <1>7, <2>1
<1>10. ASSUME NEW p \in Nat, p >= 2, p < Entries - 2 PROVE R(p) = F(p)
  <2>1. PICK i \in Nat : i = p + 1
    OBVIOUS
  <2>2. p < out /\ i # 2 /\ i # Entries /\ i # Entries - 1 /\ ~(i > Place)
    BY <1>1, <1>10, <2>1
  <2> QED
    BY <1>7, <2>1, <2>2
<1>11. LoadedSign # NoChunk => F(Entries - 2) = SIGN /\ F(Entries - 1) = LoadedSign.size
  <2> HAVE LoadedSign # NoChunk
  <2>1. PICK q \in Nat : /\ Get(file, Room(file), q) = SIGN /\ LoadedSign.offset = q + 2
                         /\ LoadedSign.size = Get(file, Room(file), q + 1)
    BY LoadedSignShape DEF Appending
  <2>2. Entries = q + 2 /\ Entries - 2 = q /\ Entries - 1 = q + 1
    BY <1>2, <2>1 DEF Entries
  <2>3. F(q) = SIGN /\ F(q + 1) = LoadedSign.size
    <3>1. q + 1 \in Nat
      OBVIOUS
    <3> QED
      BY <1>1, <2>1, <3>1, RoomReads DEF F
  <2> QED
    BY <2>2, <2>3
<1>12. R(Entries - 2) = SIGN
  <2>1. PICK p \in Nat : p = Entries - 2
    BY <1>1
  <2>2. PICK i \in Nat : i = p + 1
    OBVIOUS
  <2>3. p < out /\ i # 2 /\ i # Entries /\ i = Entries - 1 /\ ~(i > Place)
    BY <1>1, <2>1, <2>2
  <2>4. R(p) = SIGN
    BY <1>7, <1>11, <2>1, <2>2, <2>3
  <2> QED
    BY <2>1, <2>4
<1>13. R(Entries - 1) = IF ok THEN out - Entries ELSE LoadedSign.size
  <2>1. PICK p \in Nat : p = Entries - 1
    BY <1>1
  <2>2. PICK i \in Nat : i = p + 1
    OBVIOUS
  <2>3. p < out /\ i # 2 /\ i = Entries /\ i # Entries - 1 /\ ~(i > Place)
    BY <1>1, <2>1, <2>2
  <2>4. R(p) = IF ok THEN out - Entries ELSE LoadedSign.size
    BY <1>2, <1>7, <1>11, <2>1, <2>2, <2>3
  <2> QED
    BY <2>1, <2>4
<1>14. ASSUME NEW p \in Nat, p >= Entries, p < Place PROVE R(p) = F(p)
  <2>1. PICK i \in Nat : i = p + 1
    OBVIOUS
  <2>2. p < out /\ i # 2 /\ i # Entries /\ i # Entries - 1 /\ ~(i > Place)
    BY <1>1, <1>14, <2>1
  <2> QED
    BY <1>7, <2>1, <2>2
<1>15. ok => /\ R(Place) = PubLen /\ R(Place + 1) = PubKey(key)
             /\ R(Place + 2) = SigLen /\ R(Place + 3) = Signature(key, region)
  <2> SUFFICES ASSUME ok PROVE /\ R(Place) = PubLen /\ R(Place + 1) = PubKey(key)
                               /\ R(Place + 2) = SigLen /\ R(Place + 3) = Signature(key, region)
    OBVIOUS
  <2>1. out = Place + 4
    BY <1>1
  <2>2. Place \in Nat
    BY <1>1
  <2>3. Entries \in Nat /\ Place >= Entries /\ Entries >= 6
    BY <1>1
  <2>4. ASSUME NEW j \in 0 .. 3 PROVE R(Place + j) = Entry(key, region)[j + 1]
    <3>1. PICK p \in Nat : p = Place + j
      BY <2>2
    <3>2. PICK i \in Nat : i = p + 1
      OBVIOUS
    <3>3. /\ p < out /\ i # 2 /\ i # Entries /\ i # Entries - 1
          /\ i > Place /\ i <= Place + 4 /\ i - Place = j + 1
      BY <2>1, <2>2, <2>3, <3>1, <3>2
    <3>4. R(p) = Entry(key, region)[i - Place]
      BY <1>7, <3>2, <3>3
    <3> QED
      BY <3>1, <3>3, <3>4
  <2>5. R(Place + 0) = Entry(key, region)[0 + 1] /\ R(Place + 1) = Entry(key, region)[1 + 1]
        /\ R(Place + 2) = Entry(key, region)[2 + 1] /\ R(Place + 3) = Entry(key, region)[3 + 1]
    BY <2>4
  <2>6. Place + 0 = Place
    BY <1>1
  <2> QED
    BY <2>5, <2>6 DEF Entry
<1> QED
  BY <1>8, <1>9, <1>10, <1>12, <1>13, <1>14, <1>15 DEF R, F

\* The walk a reader makes finds the SIGN chunk, with the size that was patched.
LEMMA ReaderFinds ==
  ASSUME Appending
  PROVE  GetChunkRef(Result, out, Header, SIGN)
           = [tag |-> SIGN, size |-> IF ok THEN out - Entries ELSE LoadedSign.size,
              offset |-> Entries]
<1>1. /\ file \in File /\ Len(file) \in Nat /\ Room(file) \in Nat /\ Room(file) >= Len(file) + 6
      /\ Get(file, Len(file), 2) = DDFB
      /\ PayloadEnd \in Nat /\ PayloadEnd >= 4 /\ PayloadEnd <= Len(file)
      /\ PayloadEnd = 4 + Get(file, Len(file), 3)
      /\ LoadedSign.size \in Nat /\ Entries \in Nat /\ Entries >= PayloadEnd + 2
      /\ Place = Entries + LoadedSign.size /\ Place \in Nat
      /\ out \in Nat /\ out >= Place
  BY AppendFacts
<1>2. /\ LoadedSign = NoChunk => ok /\ Entries = PayloadEnd + 2
      /\ LoadedSign.tag = 0 <=> LoadedSign = NoChunk
  BY AppendFacts
<1>3. Result \in File
  BY WrittenCells
<1>4. PICK q \in Nat : q = Entries - 2
  BY <1>1
<1>5. q >= PayloadEnd /\ q + 1 < out /\ q + 2 = Entries /\ q + 1 = Entries - 1
  <2>1. Entries \in Nat /\ PayloadEnd \in Nat /\ Entries >= PayloadEnd + 2
    BY <1>1
  <2>2. Entries <= out /\ out \in Nat
    BY <1>1
  <2> QED
    BY <1>4, <2>1, <2>2
<1>6. /\ \A p \in Nat : p >= 2 /\ p < q => Get(Result, out, p) = Get(file, Len(file), p)
      /\ Get(Result, out, q) = SIGN
      /\ Get(Result, out, q + 1) = IF ok THEN out - Entries ELSE LoadedSign.size
  BY <1>4, <1>5, WrittenForm
<1>7. ChunkAt(Result, out, q) = [tag |-> SIGN, size |-> IF ok THEN out - Entries ELSE LoadedSign.size,
                                 offset |-> Entries]
  BY <1>5, <1>6 DEF ChunkAt, Header
<1>8. SIGN # 0 /\ SIGN # DDFB /\ DDFB # 0
  BY TagAssumption
<1>9. CASE LoadedSign # NoChunk
  <2>1. PICK r \in Nat : /\ r >= 2 /\ r < Len(file) /\ Get(file, Room(file), r) = SIGN
                         /\ LoadedSign = ChunkAt(file, Room(file), r) /\ LoadedSign.offset = r + 2
    BY <1>9, LoadedSignShape DEF Appending
  <2>2. r = q
    BY <1>2, <1>5, <1>9, <2>1 DEF Entries
  <2>3. \A p \in 2 .. q : Get(Result, out, p) = Get(file, Room(file), p)
    <3> TAKE p \in 2 .. q
    <3>1. p \in Nat /\ p >= 2 /\ (p < q \/ p = q)
      OBVIOUS
    <3>2. Get(file, Room(file), p) = Get(file, Len(file), p)
      BY <1>1, <3>1, RoomReads
    <3> QED
      BY <1>6, <2>1, <2>2, <3>1, <3>2
  <2>4. GetChunkRef(file, Room(file), 2, SIGN) = ChunkAt(file, Room(file), q)
    BY <2>1, <2>2 DEF LoadedSign, Header
  <2>5. GetChunkRef(Result, out, 2, SIGN) = ChunkAt(Result, out, q)
    <3>1. 2 \in Nat /\ 2 <= q /\ q + 2 < Room(file) /\ q < out
      BY <1>1, <1>5, <2>1, <2>2
    <3> QED
      BY <1>1, <1>3, <1>8, <2>1, <2>2, <2>3, <2>4, <3>1, SameWalk
  <2> QED
    BY <1>7, <2>5 DEF Header
<1>10. CASE LoadedSign = NoChunk
  <2>1. q = PayloadEnd
    BY <1>1, <1>2, <1>4, <1>10
  <2>2. Get(Result, out, 2) = DDFB /\ Get(Result, out, 3) = Get(file, Len(file), 3)
    <3>1. 2 \in Nat /\ 3 \in Nat /\ 2 < q /\ 3 < q
      BY <1>1, <2>1
    <3> QED
      BY <1>1, <1>6, <3>1
  <2>3. After(Result, out, 2) = q
    BY <1>1, <2>1, <2>2 DEF After, Header
  <2>4. 2 \in Nat /\ 2 < out /\ q < out
    BY <1>1, <1>5
  <2>5. GetChunkRef(Result, out, 2, SIGN) = GetChunkRef(Result, out, q, SIGN)
    BY <1>1, <1>3, <1>8, <2>2, <2>3, <2>4, ChunkRefStep
  <2>6. GetChunkRef(Result, out, q, SIGN) = ChunkAt(Result, out, q)
    BY <1>1, <1>3, <1>6, <2>4, ChunkRefStep
  <2> QED
    BY <1>7, <2>5, <2>6 DEF Header
<1> QED
  BY <1>9, <1>10

\* A run that ended with a file to write came through ECC_AppendSignature.
LEMMA EndedAppending ==
  ASSUME LoopInv, Appended
  PROVE  Appending
BY DEF LoopInv, Ended, Appended, Appending, Refused, Known

\* The sizes of the file that is written agree with it: RIFF covers all of it, and
\* the SIGN chunk a reader finds ends where the file ends.
THEOREM SignSizesAgree == Spec => []SizesAgree
<1>1. ASSUME LoopInv, Appended, SmallTear
      PROVE  LET sign == GetChunkRef(Result, out, Header, SIGN)
             IN  /\ Result[2] = out - Header
                 /\ sign.tag = SIGN
                 /\ sign.offset + sign.size = out
  <2>1. Appending
    BY <1>1, EndedAppending
  <2>2. out \in Nat /\ Entries \in Nat /\ out >= 6
    <3>1. /\ out \in Nat /\ Entries \in Nat /\ Place \in Nat /\ LoadedSign.size \in Nat
          /\ PayloadEnd \in Nat /\ PayloadEnd >= 4 /\ Entries >= PayloadEnd + 2
          /\ Place = Entries + LoadedSign.size /\ out >= Place
      BY <2>1, AppendFacts
    <3> QED
      BY <3>1
  <2>3. ok
    <3>1. Place + 4 <= Room(file)
      <4>1. CASE LoadedSign = NoChunk
        BY <1>1, <2>1, <4>1, AppendFacts
      <4>2. CASE LoadedSign # NoChunk
        BY <1>1, <2>1, <4>2, AppendFacts DEF SmallTear, Place, Entries, EntryLen
      <4> QED
        BY <4>1, <4>2
    <3> QED
      BY <2>1, <3>1, AppendFacts
  <2>4. GetChunkRef(Result, out, Header, SIGN)
          = [tag |-> SIGN, size |-> out - Entries, offset |-> Entries]
    BY <2>1, <2>3, ReaderFinds
  <2>5. Result[2] = out - 2
    <3>1. Get(Result, out, 1) = out - 2 /\ Len(Result) = out
      BY <2>1, <2>3, WrittenForm, WrittenCells
    <3> QED
      BY <2>2, <3>1 DEF Get
  <2> QED
    BY <2>2, <2>4, <2>5 DEF Header
<1>2. LoopInv => SizesAgree
  BY <1>1 DEF SizesAgree
<1> QED
  BY <1>2, LoopAlways, PTL

\* Two sequences that agree somewhere.
LEMMA SameCut ==
  ASSUME NEW s \in File, NEW t \in File, NEW a \in Nat, NEW b \in Nat,
         \A i \in a .. b : s[i] = t[i]
  PROVE  SubSeq(s, a, b) = SubSeq(t, a, b)
OBVIOUS

\* What was signed stays signed: every complete entry of the loaded file is in the
\* file that is written, where it was, and inside its SIGN chunk.
THEOREM SignSignaturesKept == Spec => []SignaturesKept
<1>1. ASSUME LoopInv, Appended, NEW p \in EntryPositions(file)
      PROVE  /\ p \in EntryPositions(Result)
             /\ SubSeq(Result, p + 1, p + EntryLen) = SubSeq(file, p + 1, p + EntryLen)
  <2> DEFINE c == GetChunkRef(file, Len(file), Header, SIGN)
  <2>1. Appending
    BY <1>1, EndedAppending
  <2>2. /\ file \in File /\ Len(file) \in Nat /\ Room(file) \in Nat /\ Room(file) >= Len(file) + 6
        /\ LoadedSign.size \in Nat /\ Entries \in Nat
        /\ Place = Entries + LoadedSign.size /\ Place \in Nat
        /\ out \in Nat /\ out >= Place /\ (ok => out = Place + 4)
        /\ LoadedSign.tag = 0 <=> LoadedSign = NoChunk
    BY <2>1, AppendFacts
  <2>3. Result \in File /\ Len(Result) = out
    BY <2>1, WrittenCells
  <2>4. /\ p \in c.offset .. c.offset + c.size - 4 /\ c.tag # 0 /\ p + 4 <= Len(file)
        /\ file[p + 1] = PubLen /\ file[p + 3] = SigLen
    BY DEF EntryPositions, EntryLen
  <2>5. PICK q \in Nat : q >= 2 /\ q < Len(file) /\ Get(file, Len(file), q) = SIGN
                         /\ c = ChunkAt(file, Len(file), q)
    <3>1. c # NoChunk
      BY <2>4 DEF NoChunk
    <3> QED
      BY <2>2, <3>1, WalkFurther DEF Header
  <2>6. Get(file, Len(file), q + 1) \in Nat
    <3>1. q + 1 \in Nat
      OBVIOUS
    <3> QED
      BY <2>2, <3>1, GetType
  <2> HIDE DEF c
  <2>7. q + 1 < Len(file)
    <3>1. CASE q + 1 < Len(file)
      BY <3>1
    <3>2. CASE ~(q + 1 < Len(file))
      <4>1. c.offset = q + 1 /\ c.size \in Nat
        BY <2>5, <2>6, <3>2 DEF ChunkAt
      <4> QED
        BY <2>2, <2>4, <3>2, <4>1
    <3> QED
      BY <3>1, <3>2
  <2>8. c.offset = q + 2 /\ c.size = Get(file, Len(file), q + 1)
    BY <2>5, <2>7 DEF ChunkAt, Header
  <2>9. q + 2 < Len(file) /\ p \in Nat /\ p >= q + 2 /\ p <= q + 2 + c.size - 4
    BY <2>2, <2>4, <2>6, <2>8
  <2>10. LoadedSign = ChunkAt(file, Room(file), q)
    <3>1. \A r \in 2 .. q : Get(file, Room(file), r) = Get(file, Len(file), r)
      <4>1. \A r \in 2 .. q : r \in Nat
        OBVIOUS
      <4> QED
        BY <2>2, <4>1, RoomReads
    <3>2. GetChunkRef(file, Len(file), 2, SIGN) = ChunkAt(file, Len(file), q) /\ SIGN # 0
      BY <2>5, TagAssumption DEF c, Header
    <3>3. GetChunkRef(file, Room(file), 2, SIGN) = ChunkAt(file, Room(file), q)
      <4>1. 2 \in Nat /\ 2 <= q /\ q < Room(file)
        BY <2>2, <2>5
      <4> QED
        BY <2>2, <2>5, <2>9, <3>1, <3>2, <4>1, SameWalk
    <3> QED
      BY <3>3 DEF LoadedSign, Header
  <2>11. LoadedSign.tag = SIGN /\ LoadedSign.offset = q + 2 /\ LoadedSign.size = c.size
    <3>1. q + 1 \in Nat /\ q + 1 < Room(file)
      BY <2>2, <2>7
    <3>2. Get(file, Room(file), q + 1) = Get(file, Len(file), q + 1)
          /\ Get(file, Room(file), q) = Get(file, Len(file), q)
      BY <2>2, <3>1, RoomReads
    <3> QED
      BY <2>5, <2>8, <2>10, <3>1, <3>2 DEF ChunkAt, Header
  <2>12. Entries = q + 2 /\ Place = q + 2 + c.size
    BY <2>2, <2>11, TagAssumption DEF Entries
  <2>13. p >= Entries /\ p + 4 <= Place
    BY <2>2, <2>6, <2>8, <2>9, <2>12
  <2>14. \A i \in p + 1 .. p + 4 : Result[i] = file[i]
    <3> TAKE i \in p + 1 .. p + 4
    <3>1. PICK r \in Nat : r = i - 1
      BY <2>9
    <3>2. r >= Entries /\ r < Place /\ r < out /\ r < Len(file) /\ r + 1 = i
      <4>1. i \in Nat /\ i >= p + 1 /\ i <= p + 4
        BY <2>9
      <4>2. Place \in Nat /\ out \in Nat /\ out >= Place /\ Entries \in Nat /\ Len(file) \in Nat
        BY <2>2
      <4>3. p + 4 <= Len(file)
        BY <2>4
      <4> QED
        BY <2>9, <2>13, <3>1, <4>1, <4>2, <4>3
    <3>3. Get(Result, out, r) = Get(file, Len(file), r)
      BY <2>1, <3>2, WrittenForm
    <3> QED
      BY <2>2, <2>3, <3>2, <3>3 DEF Get
  <2>15. SubSeq(Result, p + 1, p + 4) = SubSeq(file, p + 1, p + 4)
    <3>1. PICK a \in Nat, b \in Nat : a = p + 1 /\ b = p + 4
      BY <2>9
    <3>2. \A i \in a .. b : Result[i] = file[i]
      BY <2>14, <3>1
    <3>3. SubSeq(Result, a, b) = SubSeq(file, a, b)
      BY <2>2, <2>3, <3>2, SameCut
    <3> QED
      BY <3>1, <3>3
  <2>16. p \in EntryPositions(Result)
    <3> DEFINE d == GetChunkRef(Result, Len(Result), Header, SIGN)
    <3>1. d.tag = SIGN /\ d.offset = Entries /\ d.size = IF ok THEN out - Entries ELSE LoadedSign.size
      BY <2>1, <2>3, ReaderFinds
    <3> HIDE DEF d
    <3>2. p \in d.offset .. d.offset + d.size - 4 /\ p + 4 <= Len(Result)
      <4>1. CASE ok
        BY <2>2, <2>3, <2>9, <2>13, <3>1, <4>1
      <4>2. CASE ~ok
        BY <2>2, <2>3, <2>9, <2>13, <3>1, <4>2
      <4> QED
        BY <4>1, <4>2
    <3>3. Result[p + 1] = PubLen /\ Result[p + 3] = SigLen
      BY <2>4, <2>9, <2>14
    <3> QED
      BY <3>1, <3>2, <3>3, TagAssumption DEF EntryPositions, d, EntryLen
  <2> QED
    BY <2>15, <2>16 DEF EntryLen
<1>2. LoopInv => SignaturesKept
  BY <1>1 DEF SignaturesKept
<1> QED
  BY <1>2, LoopAlways, PTL

-----------------------------------------------------------------------------
(* Bundles that were not cut off, with entries of any signatures.          *)

UncutBy(f, n) ==
  LET sign == GetChunkRef(f, Len(f), Header, SIGN)
      end  == After(f, Len(f), Header)
  IN  /\ IsBundle(f) /\ f[1] = RIFF
      /\ \/ n = 0 /\ sign.tag = 0 /\ Len(f) = end
         \/ /\ sign.offset = end + Header
            /\ sign.size = n * EntryLen
            /\ sign.offset + sign.size = Len(f)
            /\ \A i \in 0 .. n - 1 : sign.offset + i * EntryLen \in EntryPositions(f)

\* The entry at p is one of this key and verifies.
Hit(f, k, p) ==
  f[p + 2] = PubKey(k) /\ Verifies(f[p + 4], PubKey(k), RegionOf(f))

\* Where a field that reads 33, a key, 64 can be in a row of entries.
LEMMA Aligned ==
  ASSUME NEW f \in File, NEW k \in Keys, NEW o \in Nat, NEW n \in Nat, NEW p \in Nat,
         Len(f) = o + 4 * n, p >= o, p + 4 <= Len(f),
         \A i \in 0 .. n - 1 : f[o + 4 * i + 1] = PubLen /\ f[o + 4 * i + 3] = SigLen,
         f[p + 1] = PubLen, f[p + 2] = PubKey(k), f[p + 3] = SigLen
  PROVE  \E i \in 0 .. n - 1 : p = o + 4 * i
<1>1. PubKey(k) # PubLen /\ PubKey(k) # SigLen /\ PubLen # SigLen
  BY CellAssumption
<1>2. PICK d \in Nat : p = o + d
  <2>1. p - o \in Nat /\ p = o + (p - o)
    OBVIOUS
  <2> QED
    BY <2>1
<1>3. PICK i \in Nat, r \in 0 .. 3 : d = 4 * i + r
  <2>1. d \div 4 \in Nat /\ d % 4 \in 0 .. 3 /\ d = 4 * (d \div 4) + (d % 4)
    OBVIOUS
  <2> QED
    BY <2>1
<1>4. i \in 0 .. n - 1
  <2>1. 4 * i + r + 4 <= 4 * n
    BY <1>2, <1>3
  <2> QED
    BY <2>1
<1>5. f[o + 4 * i + 1] = PubLen /\ f[o + 4 * i + 3] = SigLen
  BY <1>4
<1>6. r # 1
  <2>1. r = 1 => p + 2 = o + 4 * i + 3
    BY <1>2, <1>3
  <2> QED
    BY <1>1, <1>5, <2>1
<1>7. r # 2
  <2>1. r = 2 => p + 1 = o + 4 * i + 3
    BY <1>2, <1>3
  <2> QED
    BY <1>1, <1>5, <2>1
<1>8. r # 3
  <2> SUFFICES ASSUME r = 3 PROVE FALSE
    OBVIOUS
  <2>1. PICK j \in Nat : j = i + 1
    OBVIOUS
  <2>2. p + 2 = o + 4 * j + 1
    BY <1>2, <1>3, <2>1
  <2>3. j \in 0 .. n - 1
    <3>1. 4 * i + 3 + 4 <= 4 * n
      BY <1>2, <1>3
    <3> QED
      BY <2>1, <3>1
  <2>4. f[o + 4 * j + 1] = PubLen
    BY <2>3
  <2> QED
    BY <1>1, <2>2, <2>4
<1>9. r = 0
  BY <1>6, <1>7, <1>8
<1> QED
  BY <1>2, <1>3, <1>4, <1>9

\* The scan of a row of entries finds a hit if there is one.
LEMMA ScanRow ==
  ASSUME NEW f \in File, NEW k \in Keys, NEW o \in Nat, NEW n \in Nat, Len(f) = o + 4 * n,
         \A i \in 0 .. n - 1 : f[o + 4 * i + 1] = PubLen /\ f[o + 4 * i + 3] = SigLen
  PROVE  Scan(f, k, RegionOf(f), Len(f))[o] <=> \E i \in 0 .. n - 1 : Hit(f, k, o + 4 * i)
<1> DEFINE S(p) == Scan(f, k, RegionOf(f), Len(f))[p]
           Ahead(j) == \E i \in 0 .. n - 1 : i >= j /\ Hit(f, k, o + 4 * i)
           Bad(j) == ~(S(o + 4 * j) <=> Ahead(j))
           T == {t \in 0 .. n : Bad(n - t)}
<1>1. Len(f) \in Nat
  OBVIOUS
<1>2. ~S(Len(f))
  <2>1. Len(f) \in 0 .. Len(f) /\ ~(Len(f) < Len(f))
    BY <1>1
  <2>2. Scan(f, k, RegionOf(f), Len(f))[Len(f)] <=>
          ScanStep(f, k, RegionOf(f), Len(f), Scan(f, k, RegionOf(f), Len(f)), Len(f))
    BY <2>1, ScanOne
  <2> QED
    BY <2>1, <2>2 DEF ScanStep
<1>3. ASSUME NEW j \in 0 .. n - 1
      PROVE  S(o + 4 * j) <=> Hit(f, k, o + 4 * j) \/ S(o + 4 * (j + 1))
  <2>1. PICK p \in Nat : p = o + 4 * j
    OBVIOUS
  <2>2. p + 4 <= Len(f) /\ p < Len(f) /\ p \in 0 .. Len(f) /\ p + 4 = o + 4 * (j + 1)
    BY <2>1
  <2>3. f[p + 1] = PubLen /\ f[p + 3] = SigLen
    BY <2>1
  <2>4. /\ Get(f, Len(f), p) = f[p + 1] /\ Get(f, Len(f), p + 1) = f[p + 2]
        /\ Get(f, Len(f), p + 2) = f[p + 3] /\ Get(f, Len(f), p + 3) = f[p + 4]
    BY <1>1, <2>2 DEF Get
  <2>5. S(p) <=> ScanStep(f, k, RegionOf(f), Len(f), Scan(f, k, RegionOf(f), Len(f)), p)
    BY <2>2, ScanOne
  <2>6. S(p) <=> Hit(f, k, p) \/ S(p + 4)
    BY <2>2, <2>3, <2>4, <2>5 DEF ScanStep, Hit, EntryLen
  <2> QED
    <3> HIDE DEF S
    <3> QED
      BY <2>1, <2>2, <2>6
<1> HIDE DEF S
<1>4. ASSUME NEW j \in 0 .. n - 1 PROVE Ahead(j) <=> Hit(f, k, o + 4 * j) \/ Ahead(j + 1)
  OBVIOUS
<1>5. ~Ahead(n)
  OBVIOUS
<1> HIDE DEF Ahead
<1>6. T = {}
  <2> SUFFICES ASSUME T # {} PROVE FALSE
    OBVIOUS
  <2>1. PICK t \in T : \A u \in T : t <= u
    <3>1. T \in SUBSET Nat
      <4> HIDE DEF Bad
      <4> QED
        OBVIOUS
    <3> HIDE DEF T
    <3> QED
      BY <3>1, Smallest
  <2>2. t \in 0 .. n /\ Bad(n - t)
    <3> HIDE DEF Bad
    <3> QED
      BY <2>1
  <2>3. t # 0
    <3> SUFFICES ASSUME t = 0 PROVE FALSE
      OBVIOUS
    <3>1. n - t = n /\ o + 4 * n = Len(f)
      OBVIOUS
    <3>2. ~S(o + 4 * n)
      BY <1>2, <3>1
    <3> QED
      BY <1>5, <2>2, <3>1, <3>2
  <2>4. PICK j \in 0 .. n - 1 : j = n - t /\ j + 1 = n - (t - 1) /\ t - 1 \in 0 .. n /\ ~(t <= t - 1)
    BY <2>2, <2>3
  <2>5. ~Bad(j + 1)
    <3>1. t - 1 \notin T
      <4> HIDE DEF T
      <4> QED
        BY <2>1, <2>4
    <3> HIDE DEF Bad
    <3> QED
      BY <2>4, <3>1
  <2> QED
    BY <1>3, <1>4, <2>2, <2>4, <2>5
<1>7. ~Bad(0)
  <2>1. n \in 0 .. n /\ n - n = 0
    OBVIOUS
  <2> HIDE DEF Bad
  <2> QED
    BY <1>6, <2>1
<1>8. o + 4 * 0 = o
  OBVIOUS
<1> QED
  BY <1>7, <1>8 DEF S, Ahead

\* Where the entries of an uncut bundle begin and end.
LEMMA UncutShape ==
  ASSUME NEW f \in File, NEW n \in Nat, UncutBy(f, n), Get(f, Len(f), Header) \in {DDFB, 0}
  PROVE  LET sign == GetChunkRef(f, Len(f), Header, SIGN)
             end  == After(f, Len(f), Header)
         IN  /\ end \in Nat /\ end >= 4 /\ end <= Len(f) /\ Len(f) \in Nat
             /\ \/ n = 0 /\ sign = NoChunk /\ Len(f) = end
                \/ /\ sign.tag = SIGN /\ sign.offset = end + 2 /\ sign.size = 4 * n
                   /\ Len(f) = end + 2 + 4 * n
                   /\ sign = ChunkAt(f, Len(f), end) /\ Get(f, Len(f), end) = SIGN
                   /\ \A i \in 0 .. n - 1 : /\ f[end + 2 + 4 * i + 1] = PubLen
                                            /\ f[end + 2 + 4 * i + 3] = SigLen
<1> DEFINE sign == GetChunkRef(f, Len(f), Header, SIGN)
           end  == After(f, Len(f), Header)
<1>1. Len(f) \in Nat /\ Get(f, Len(f), 2) = DDFB /\ end \in Nat /\ end >= 4 /\ end <= Len(f)
  <2>1. end <= Len(f) /\ Get(f, Len(f), 2) = DDFB
    BY BundleShape DEF UncutBy, Header
  <2>2. Len(f) \in Nat
    BY DEF File
  <2>3. end \in Nat /\ end >= 4
    BY <2>2, AfterType DEF Header
  <2> QED
    BY <2>1, <2>2, <2>3
<1>2. SIGN # 0 /\ SIGN # DDFB /\ DDFB # 0
  BY TagAssumption
<1>3. sign = NoChunk \/ sign.tag = SIGN
  BY <1>1, ChunkRefType DEF Header
<1>4. sign = GetChunkRef(f, Len(f), end, SIGN)
  <2>1. 2 \in Nat /\ 2 < Len(f)
    BY <1>1
  <2>2. GetChunkRef(f, Len(f), 2, SIGN) = GetChunkRef(f, Len(f), After(f, Len(f), 2), SIGN)
    BY <1>1, <1>2, <2>1, ChunkRefStep
  <2> QED
    BY <2>2 DEF Header
<1>5. CASE n = 0 /\ sign.tag = 0 /\ Len(f) = end
  BY <1>1, <1>2, <1>3, <1>5
<1>6. CASE /\ sign.offset = end + Header /\ sign.size = n * EntryLen
           /\ sign.offset + sign.size = Len(f)
           /\ \A i \in 0 .. n - 1 : sign.offset + i * EntryLen \in EntryPositions(f)
  <2>1. sign.offset = end + 2 /\ sign.size = 4 * n /\ Len(f) = end + 2 + 4 * n
    BY <1>1, <1>6 DEF Header, EntryLen
  <2>2. sign # NoChunk
    BY <1>1, <2>1 DEF NoChunk
  <2>3. sign = ChunkAt(f, Len(f), end) /\ Get(f, Len(f), end) = SIGN
    <3>1. end < Len(f)
      BY <1>1, <2>1
    <3>2. CASE Get(f, Len(f), end) = SIGN
      BY <1>1, <1>4, <3>1, <3>2, ChunkRefStep
    <3>3. CASE Get(f, Len(f), end) # SIGN
      <4> DEFINE a == After(f, Len(f), end)
      <4>1. a \in Nat /\ a >= end + 2
        BY <1>1, AfterType
      <4>2. sign = GetChunkRef(f, Len(f), a, SIGN)
        BY <1>1, <1>4, <2>2, <3>1, <3>3, ChunkRefStep
      <4> HIDE DEF a, sign
      <4>3. sign.offset \in Nat /\ sign.offset >= a + 1
        BY <1>1, <2>2, <4>1, <4>2, ChunkRefType
      <4> QED
        BY <1>1, <2>1, <4>1, <4>3
    <3> QED
      BY <3>2, <3>3
  <2>4. ASSUME NEW i \in 0 .. n - 1
        PROVE  f[end + 2 + 4 * i + 1] = PubLen /\ f[end + 2 + 4 * i + 3] = SigLen
    <3>1. end + 2 + 4 * i = sign.offset + i * EntryLen
      BY <2>1 DEF EntryLen
    <3> HIDE DEF sign, end
    <3>2. end + 2 + 4 * i \in EntryPositions(f)
      BY <1>6, <3>1
    <3> QED
      BY <3>2 DEF EntryPositions
  <2> QED
    BY <1>1, <1>3, <2>1, <2>2, <2>3, <2>4
<1> QED
  BY <1>5, <1>6 DEF UncutBy

\* In such a file ECC_FindSignature finds the signature of a key if it is there.
LEMMA UncutFinds ==
  ASSUME NEW f \in File, NEW n \in Nat, UncutBy(f, n), NEW k \in Keys,
         Get(f, Len(f), Header) \in {DDFB, 0}
  PROVE  ECC_FindSignature(f, k, RegionOf(f)) <=> k \in SignersOf(f)
<1> DEFINE sign == GetChunkRef(f, Len(f), Header, SIGN)
           end  == After(f, Len(f), Header)
           o    == end + 2
<1>1. ECC_FindSignature(f, k, RegionOf(f)) <=>
        sign.tag # 0 /\ Scan(f, k, RegionOf(f), sign.offset + sign.size)[sign.offset]
  BY FindScan
<1>2. k \in SignersOf(f) <=> \E p \in EntryPositions(f) : Hit(f, k, p)
  BY DEF SignersOf, EntriesOf, Hit
<1>3. \A p : p \in EntryPositions(f) <=>
             /\ p \in sign.offset .. sign.offset + sign.size - 4 /\ sign.tag # 0
             /\ p + 4 <= Len(f) /\ f[p + 1] = PubLen /\ f[p + 3] = SigLen
  BY DEF EntryPositions, EntryLen
<1>4. /\ end \in Nat /\ Len(f) \in Nat
      /\ \/ n = 0 /\ sign = NoChunk /\ Len(f) = end
         \/ /\ sign.tag = SIGN /\ sign.offset = end + 2 /\ sign.size = 4 * n
            /\ Len(f) = end + 2 + 4 * n
            /\ \A i \in 0 .. n - 1 : /\ f[end + 2 + 4 * i + 1] = PubLen
                                     /\ f[end + 2 + 4 * i + 3] = SigLen
  BY UncutShape
<1> HIDE DEF sign, end
<1>5. CASE sign = NoChunk
  BY <1>1, <1>2, <1>3, <1>5 DEF NoChunk
<1>6. CASE sign # NoChunk
  <2>1. /\ sign.tag = SIGN /\ sign.offset = o /\ sign.size = 4 * n /\ Len(f) = o + 4 * n
        /\ o \in Nat
    BY <1>4, <1>6
  <2>2. \A i \in 0 .. n - 1 : f[o + 4 * i + 1] = PubLen /\ f[o + 4 * i + 3] = SigLen
    BY <1>4, <1>6
  <2> HIDE DEF o
  <2>3. ECC_FindSignature(f, k, RegionOf(f)) <=> \E i \in 0 .. n - 1 : Hit(f, k, o + 4 * i)
    <3>1. Scan(f, k, RegionOf(f), Len(f))[o] <=> \E i \in 0 .. n - 1 : Hit(f, k, o + 4 * i)
      BY <2>1, <2>2, ScanRow
    <3> QED
      BY <1>1, <2>1, <3>1, TagAssumption
  <2>4. ASSUME NEW p \in EntryPositions(f), Hit(f, k, p)
        PROVE  \E i \in 0 .. n - 1 : Hit(f, k, o + 4 * i)
    <3>1. /\ p \in Nat /\ p >= o /\ p + 4 <= Len(f)
          /\ f[p + 1] = PubLen /\ f[p + 2] = PubKey(k) /\ f[p + 3] = SigLen
      BY <1>3, <2>1, <2>4 DEF Hit
    <3>2. PICK i \in 0 .. n - 1 : p = o + 4 * i
      <4>1. PICK r \in Nat : r = p
        BY <3>1
      <4>2. /\ r >= o /\ r + 4 <= Len(f)
            /\ f[r + 1] = PubLen /\ f[r + 2] = PubKey(k) /\ f[r + 3] = SigLen
        BY <3>1, <4>1
      <4>3. o \in Nat /\ Len(f) = o + 4 * n
        BY <2>1
      <4>4. \E i \in 0 .. n - 1 : r = o + 4 * i
        BY <2>2, <4>2, <4>3, Aligned, ZenonT(60)
      <4> QED
        BY <4>1, <4>4
    <3> QED
      BY <2>4, <3>2
  <2>5. ASSUME NEW i \in 0 .. n - 1 PROVE o + 4 * i \in EntryPositions(f)
    <3>1. PICK p \in Nat : p = o + 4 * i
      BY <2>1
    <3>2. p >= o /\ p + 4 <= o + 4 * n
      BY <2>1, <3>1
    <3>3. f[p + 1] = PubLen /\ f[p + 3] = SigLen
      BY <2>2, <3>1
    <3>4. p \in sign.offset .. sign.offset + sign.size - 4
      BY <2>1, <3>2
    <3> QED
      BY <1>3, <2>1, <3>1, <3>2, <3>3, <3>4, TagAssumption
  <2> QED
    BY <1>2, <2>3, <2>4, <2>5
<1> QED
  BY <1>5, <1>6

\* Where the new entry goes in such a file: behind the others.
LEMMA UncutPlaces ==
  ASSUME Appending, NEW n \in Nat, UncutBy(file, n)
  PROVE  /\ ok /\ Entries = PayloadEnd + 2 /\ Place = Entries + 4 * n /\ out = Place + 4
         /\ \A i \in 0 .. n - 1 : /\ file[Entries + 4 * i + 1] = PubLen
                                  /\ file[Entries + 4 * i + 3] = SigLen
         /\ n # 0 => Place <= Len(file)
<1> DEFINE sign == GetChunkRef(file, Len(file), Header, SIGN)
<1>1. /\ file \in File /\ Len(file) \in Nat /\ Room(file) \in Nat /\ Room(file) >= Len(file) + 6
      /\ Get(file, Len(file), 2) = DDFB
      /\ PayloadEnd \in Nat /\ PayloadEnd >= 4 /\ PayloadEnd <= Len(file)
      /\ PayloadEnd = 4 + Get(file, Len(file), 3)
      /\ Place = Entries + LoadedSign.size /\ Place \in Nat /\ Entries \in Nat
      /\ ok => out = Place + 4
      /\ Place + 4 <= Room(file) => ok
  BY AppendFacts
<1>2. /\ \/ n = 0 /\ sign = NoChunk /\ Len(file) = PayloadEnd
         \/ /\ sign.tag = SIGN /\ sign.offset = PayloadEnd + 2 /\ sign.size = 4 * n
            /\ Len(file) = PayloadEnd + 2 + 4 * n
            /\ sign = ChunkAt(file, Len(file), PayloadEnd) /\ Get(file, Len(file), PayloadEnd) = SIGN
            /\ \A i \in 0 .. n - 1 : /\ file[PayloadEnd + 2 + 4 * i + 1] = PubLen
                                     /\ file[PayloadEnd + 2 + 4 * i + 3] = SigLen
  BY <1>1, UncutShape DEF PayloadEnd, Header
<1>3. SIGN # 0 /\ SIGN # DDFB /\ DDFB # 0
  BY TagAssumption
<1>4. LoadedSign = GetChunkRef(file, Room(file), PayloadEnd, SIGN)
  <2>1. Get(file, Room(file), 2) = DDFB /\ Get(file, Room(file), 3) = Get(file, Len(file), 3)
    BY <1>1, RoomReads
  <2>2. After(file, Room(file), 2) = PayloadEnd
    BY <1>1, <2>1 DEF After, Header
  <2>3. GetChunkRef(file, Room(file), 2, SIGN) = GetChunkRef(file, Room(file), PayloadEnd, SIGN)
    BY <1>1, <1>3, <2>1, <2>2, ChunkRefStep
  <2> QED
    BY <2>3 DEF LoadedSign, Header
<1>5. PayloadEnd < Room(file) /\ Get(file, Room(file), PayloadEnd) = Get(file, Len(file), PayloadEnd)
  BY <1>1, RoomReads
<1> HIDE DEF sign
<1>6. CASE n = 0 /\ sign = NoChunk /\ Len(file) = PayloadEnd
  <2>1. Get(file, Len(file), PayloadEnd) = 0
    BY <1>1, <1>6 DEF Get
  <2>2. LoadedSign = NoChunk
    BY <1>1, <1>3, <1>4, <1>5, <2>1, ChunkRefStep
  <2>3. ok /\ Entries = PayloadEnd + 2
    BY <2>2, AppendFacts
  <2>4. Place = Entries
    BY <1>1, <2>2 DEF NoChunk
  <2> QED
    BY <1>1, <1>6, <2>3, <2>4
<1>7. CASE sign # NoChunk
  <2>1. /\ sign.size = 4 * n /\ Len(file) = PayloadEnd + 2 + 4 * n
        /\ sign = ChunkAt(file, Len(file), PayloadEnd) /\ Get(file, Len(file), PayloadEnd) = SIGN
    BY <1>2, <1>7
  <2>2. LoadedSign = ChunkAt(file, Room(file), PayloadEnd)
    BY <1>1, <1>4, <1>5, <2>1, ChunkRefStep
  <2>3. /\ LoadedSign.tag = SIGN /\ LoadedSign.offset = PayloadEnd + 2
        /\ LoadedSign.size = Get(file, Len(file), PayloadEnd + 1)
    <3>1. PayloadEnd + 1 \in Nat /\ PayloadEnd + 1 < Room(file)
      BY <1>1
    <3>2. Get(file, Room(file), PayloadEnd + 1) = Get(file, Len(file), PayloadEnd + 1)
      BY <1>1, <3>1, RoomReads
    <3> QED
      BY <1>5, <2>1, <2>2, <3>1, <3>2 DEF ChunkAt, Header
  <2>4. sign.size = Get(file, Len(file), PayloadEnd + 1)
    BY <2>1 DEF ChunkAt
  <2>5. Entries = PayloadEnd + 2 /\ Place = Entries + 4 * n
    BY <1>1, <1>3, <2>1, <2>3, <2>4 DEF Entries
  <2>6. Place = Len(file)
    BY <2>1, <2>5
  <2>7. ok /\ out = Place + 4 /\ Place <= Len(file)
    <3>1. Place + 4 <= Room(file) /\ Place <= Len(file)
      BY <1>1, <2>6
    <3>2. ok
      BY <1>1, <3>1
    <3> QED
      BY <1>1, <3>1, <3>2
  <2>8. \A i \in 0 .. n - 1 : /\ file[Entries + 4 * i + 1] = PubLen
                              /\ file[Entries + 4 * i + 3] = SigLen
    BY <1>2, <1>7, <2>5
  <2> QED
    BY <2>5, <2>8, <2>7, Zenon
<1>8. NoChunk.tag = 0
  BY DEF NoChunk
<1> QED
  BY <1>2, <1>3, <1>6, <1>7, <1>8, Zenon

\* So the file that is written is a bundle over the same payload.
LEMMA UncutRegion ==
  ASSUME Appending, NEW n \in Nat, UncutBy(file, n)
  PROVE  /\ IsBundle(Result) /\ RegionOf(Result) = RegionOf(file)
         /\ Get(Result, out, 2) = DDFB /\ After(Result, out, 2) = PayloadEnd
         /\ Result[1] = RIFF
<1>1. /\ file \in File /\ Len(file) \in Nat /\ IsBundle(file)
      /\ Get(file, Len(file), 2) = DDFB
      /\ PayloadEnd \in Nat /\ PayloadEnd >= 4 /\ PayloadEnd <= Len(file)
      /\ PayloadEnd = 4 + Get(file, Len(file), 3)
  BY AppendFacts
<1>2. Entries = PayloadEnd + 2 /\ out \in Nat /\ out >= Entries
  BY UncutPlaces, AppendFacts
<1>3. Result \in File /\ Len(Result) = out
  BY WrittenCells
<1>4. /\ Get(Result, out, 0) = Get(file, Len(file), 0)
      /\ \A p \in Nat : p >= 2 /\ p < PayloadEnd => Get(Result, out, p) = Get(file, Len(file), p)
  <2>1. Entries - 2 = PayloadEnd
    BY <1>1, <1>2
  <2> QED
    BY <2>1, WrittenForm
<1>5. Result[1] = RIFF
  <2>1. Get(file, Len(file), 0) = RIFF
    BY <1>1 DEF Get, UncutBy
  <2> QED
    BY <1>1, <1>2, <1>3, <1>4, <2>1 DEF Get
<1>6. Get(Result, out, 2) = DDFB /\ Get(Result, out, 3) = Get(file, Len(file), 3)
  <2>1. Get(Result, out, 2) = Get(file, Len(file), 2)
    BY <1>1, <1>4
  <2>2. Get(Result, out, 3) = Get(file, Len(file), 3)
    BY <1>1, <1>4
  <2> QED
    BY <1>1, <2>1, <2>2
<1>7. After(Result, out, 2) = PayloadEnd
  BY <1>1, <1>6 DEF After, Header
<1>8. Room(Result) \in Nat /\ Room(Result) >= out + 6
  BY <1>3, RoomType DEF Header, EntryLen
<1> DEFINE c == GetChunkRef(Result, Room(Result), Header, DDFB)
<1>9. c = [tag |-> DDFB, size |-> Get(file, Len(file), 3), offset |-> 4]
  <2>1. Get(Result, Room(Result), 2) = DDFB /\ Get(Result, Room(Result), 3) = Get(file, Len(file), 3)
    BY <1>3, <1>6, RoomReads
  <2>2. GetChunkRef(Result, Room(Result), 2, DDFB) = ChunkAt(Result, Room(Result), 2)
    <3>1. 2 \in Nat /\ 2 < Room(Result)
      BY <1>1, <1>2, <1>8
    <3> QED
      BY <1>3, <1>8, <2>1, <3>1, ChunkRefStep
  <2> QED
    BY <1>2, <1>8, <2>1, <2>2 DEF ChunkAt, Header
<1>10. GetChunkRef(Result, Room(Result), 0, RIFF).tag # 0
  <2>1. Get(Result, Room(Result), 0) = RIFF /\ 0 \in Nat /\ 0 < Room(Result)
    BY <1>1, <1>2, <1>3, <1>5, <1>8 DEF Get
  <2>2. GetChunkRef(Result, Room(Result), 0, RIFF) = ChunkAt(Result, Room(Result), 0)
    BY <1>3, <1>8, <2>1, ChunkRefStep
  <2>3. RIFF # 0
    BY TagAssumption
  <2> QED
    BY <2>1, <2>2, <2>3 DEF ChunkAt
<1> HIDE DEF c
<1>11. Payload(Result) = c
  <2>1. c.offset + c.size = PayloadEnd
    BY <1>1, <1>9
  <2>2. ~(c.offset + c.size > Len(Result))
    BY <1>1, <1>2, <1>3, <2>1
  <2> QED
    BY <1>10, <2>2 DEF Payload, c
<1>12. IsBundle(Result)
  BY <1>9, <1>11, TagAssumption DEF IsBundle
<1>13. Payload(file) = c
  <2> DEFINE b == GetChunkRef(file, Room(file), Header, DDFB)
  <2>1. Payload(file) = b
    BY <1>1, BundleShape DEF Header
  <2>2. b = [tag |-> DDFB, size |-> Get(file, Len(file), 3), offset |-> 4]
    <3>1. /\ 2 \in Nat /\ Room(file) \in Nat /\ 3 < Room(file)
          /\ Get(file, Room(file), 2) = DDFB /\ Get(file, Room(file), 3) = Get(file, Len(file), 3)
      BY <1>1, RoomReads, AppendFacts
    <3>2. GetChunkRef(file, Room(file), 2, DDFB) = ChunkAt(file, Room(file), 2)
      BY <1>1, <3>1, ChunkRefStep
    <3> QED
      BY <3>1, <3>2 DEF ChunkAt, Header
  <2> QED
    BY <1>9, <2>1, <2>2
<1>14. RegionOf(Result) = SubSeq(Padded(Result), 3, PayloadEnd)
       /\ RegionOf(file) = SubSeq(Padded(file), 3, PayloadEnd)
  <2>1. c.offset - Header + 1 = 3 /\ c.offset + c.size = PayloadEnd
    BY <1>1, <1>9 DEF Header
  <2> QED
    BY <1>11, <1>13, <2>1 DEF RegionOf, Region
<1>15. SubSeq(Padded(Result), 3, PayloadEnd) = SubSeq(Padded(file), 3, PayloadEnd)
  <2>1. /\ Padded(Result) \in File /\ Padded(file) \in File
        /\ \A p \in Nat : p < out + Extra => Padded(Result)[p + 1] = Get(Result, out, p)
        /\ \A p \in Nat : p < Len(file) + Extra => Padded(file)[p + 1] = Get(file, Len(file), p)
    BY <1>1, <1>3, PaddedLemma DEF File
  <2>2. \A i \in 3 .. PayloadEnd : Padded(Result)[i] = Padded(file)[i]
    <3> TAKE i \in 3 .. PayloadEnd
    <3>1. PICK p \in Nat : p = i - 1
      BY <1>1
    <3>2. /\ p >= 2 /\ p < PayloadEnd /\ p + 1 = i
          /\ p < out + Extra /\ p < Len(file) + Extra
      BY <1>1, <1>2, <3>1, ExtraAssumption
    <3> QED
      BY <1>4, <2>1, <3>2
  <2>3. 3 \in Nat /\ PayloadEnd \in Nat
    BY <1>1
  <2> QED
    BY <2>1, <2>2, <2>3, SameCut
<1> QED
  BY <1>5, <1>6, <1>7, <1>12, <1>14, <1>15

\* And an uncut one, with one entry more, which is of this key and verifies.
LEMMA UncutOnceMore ==
  ASSUME Appending, NEW n \in Nat, UncutBy(file, n)
  PROVE  UncutBy(Result, n + 1) /\ key \in SignersOf(Result)
<1> DEFINE sign == GetChunkRef(Result, Len(Result), Header, SIGN)
<1>1. /\ key \in Keys /\ Place \in Nat /\ Entries \in Nat /\ Entries >= 6 /\ out \in Nat
      /\ Len(file) \in Nat /\ file \in File
  BY AppendFacts
<1>2. /\ ok /\ Entries = PayloadEnd + 2 /\ Place = Entries + 4 * n /\ out = Place + 4
      /\ \A i \in 0 .. n - 1 : /\ file[Entries + 4 * i + 1] = PubLen
                               /\ file[Entries + 4 * i + 3] = SigLen
      /\ n # 0 => Place <= Len(file)
  BY UncutPlaces
<1>3. Entries = PayloadEnd + 2 /\ Place = Entries + 4 * n /\ out = Place + 4
  BY <1>2
<1>4. /\ IsBundle(Result) /\ RegionOf(Result) = RegionOf(file)
      /\ After(Result, out, 2) = PayloadEnd /\ Result[1] = RIFF
  BY UncutRegion
<1>5. Result \in File /\ Len(Result) = out
  BY WrittenCells
<1>6. sign = [tag |-> SIGN, size |-> out - Entries, offset |-> Entries]
  BY <1>5, <1>2, ReaderFinds
<1>7. PICK e \in Nat, l \in Nat : /\ e = Entries /\ l = out /\ e >= 6
                                  /\ Place = e + 4 * n /\ l = e + 4 * n + 4
  BY <1>1, <1>3
<1>8. sign.tag # 0 /\ sign.offset = e /\ sign.size = 4 * (n + 1) /\ sign.offset + sign.size = l
  <2>1. l - e = 4 * (n + 1) /\ e + (l - e) = l
    BY <1>7
  <2> QED
    BY <1>6, <1>7, <2>1, TagAssumption
<1> HIDE DEF sign
<1>9. /\ Result[Place + 1] = PubLen /\ Result[Place + 2] = PubKey(key)
      /\ Result[Place + 3] = SigLen /\ Result[Place + 4] = Signature(key, region)
  <2>1. /\ Get(Result, out, Place) = Result[Place + 1] /\ Get(Result, out, Place + 1) = Result[Place + 2]
        /\ Get(Result, out, Place + 2) = Result[Place + 3] /\ Get(Result, out, Place + 3) = Result[Place + 4]
    <3>1. PICK p \in Nat : p = Place
      BY <1>1
    <3>2. p + 4 = l
      BY <1>7, <3>1
    <3>3. /\ Get(Result, out, p) = Result[p + 1] /\ Get(Result, out, p + 1) = Result[p + 2]
          /\ Get(Result, out, p + 2) = Result[p + 3] /\ Get(Result, out, p + 3) = Result[p + 4]
      BY <1>5, <1>7, <3>2 DEF Get
    <3> QED
      BY <3>1, <3>3
  <2> QED
    BY <1>2, <2>1, WrittenForm
<1>10. ASSUME NEW i \in 0 .. n
      PROVE  Result[Entries + 4 * i + 1] = PubLen /\ Result[Entries + 4 * i + 3] = SigLen
  <2>1. CASE i = n
    BY <1>3, <1>9, <2>1
  <2>2. CASE i # n
    <3>1. i \in 0 .. n - 1 /\ n # 0
      BY <2>2
    <3>2. PICK p \in Nat : p = Entries + 4 * i
      BY <1>1
    <3>3. /\ p >= Entries /\ p + 4 <= Place /\ p + 4 <= Len(file) /\ p + 4 <= out
      <4>1. Place <= Len(file)
        BY <1>2, <3>1
      <4>2. p = e + 4 * i
        BY <1>7, <3>2
      <4>3. p >= e /\ p + 4 <= e + 4 * n
        BY <3>1, <4>2
      <4>4. p >= Entries /\ p + 4 <= Place /\ p + 4 <= out
        BY <1>7, <4>3
      <4> QED
        BY <1>1, <4>1, <4>4
    <3>4. file[p + 1] = PubLen /\ file[p + 3] = SigLen
      BY <1>2, <3>1, <3>2
    <3>5. Get(Result, out, p) = Get(file, Len(file), p)
          /\ Get(Result, out, p + 2) = Get(file, Len(file), p + 2)
      <4>1. p + 2 \in Nat /\ p >= Entries /\ p < Place /\ p + 2 >= Entries /\ p + 2 < Place
        BY <1>1, <3>3
      <4> QED
        BY <4>1, WrittenForm
    <3>6. /\ Get(Result, out, p) = Result[p + 1] /\ Get(Result, out, p + 2) = Result[p + 3]
          /\ Get(file, Len(file), p) = file[p + 1] /\ Get(file, Len(file), p + 2) = file[p + 3]
      BY <1>1, <1>5, <3>3 DEF Get
    <3> QED
      BY <3>2, <3>4, <3>5, <3>6
  <2> QED
    BY <2>1, <2>2
<1>11. ASSUME NEW i \in 0 .. n PROVE Entries + 4 * i \in EntryPositions(Result)
  <2>1. PICK p \in Nat : p = Entries + 4 * i
    BY <1>1
  <2>2. p >= e /\ p + 4 <= l /\ p \in Entries .. out - 4
    <3>1. p = e + 4 * i
      BY <1>7, <2>1
    <3>2. p >= e /\ p <= l - 4
      BY <1>7, <3>1
    <3> QED
      BY <1>7, <3>2
  <2>3. Result[p + 1] = PubLen /\ Result[p + 3] = SigLen
    BY <1>10, <2>1
  <2>4. p \in sign.offset .. sign.offset + sign.size - 4 /\ p + 4 <= Len(Result)
    BY <1>5, <1>8, <1>7, <2>2
  <2>5. p \in EntryPositions(Result)
    BY <1>8, <2>3, <2>4 DEF EntryPositions, sign, EntryLen
  <2> QED
    BY <2>1, <2>5
<1>12. key \in SignersOf(Result)
  <2>1. Place \in EntryPositions(Result)
    <3>1. n \in 0 .. n
      OBVIOUS
    <3> QED
      BY <1>3, <1>11, <3>1
  <2>2. Verifies(Result[Place + 4], Result[Place + 2], RegionOf(Result))
    <3>1. region = RegionOf(file)
      BY DEF Appending, Written
    <3> QED
      BY <1>1, <1>4, <1>9, <3>1 DEF Verifies
  <2> QED
    BY <1>1, <1>9, <2>1, <2>2 DEF SignersOf, EntriesOf
<1>13. UncutBy(Result, n + 1)
  <2>1. /\ sign.offset = PayloadEnd + 2 /\ sign.size = (n + 1) * 4
        /\ sign.offset + sign.size = Len(Result)
    BY <1>3, <1>5, <1>8, <1>7
  <2>2. \A i \in 0 .. n + 1 - 1 : sign.offset + i * 4 \in EntryPositions(Result)
    <3> TAKE i \in 0 .. n + 1 - 1
    <3>1. i \in 0 .. n /\ sign.offset + i * 4 = Entries + 4 * i
      BY <1>8, <1>7
    <3> QED
      BY <1>11, <3>1
  <2>3. After(Result, Len(Result), Header) = PayloadEnd
    BY <1>4, <1>5 DEF Header
  <2> QED
    BY <1>4, <2>1, <2>2, <2>3 DEF UncutBy, sign, Header, EntryLen
<1> QED
  BY <1>12, <1>13

LEMMA UncutRows ==
  ASSUME LoopInv, Uncut
  PROVE  \E n \in Nat : UncutBy(file, n)
<1> DEFINE sign == GetChunkRef(file, Len(file), Header, SIGN)
           n    == (Len(file) - sign.offset) \div EntryLen
<1>1. /\ IsBundle(file) /\ file[1] = RIFF
      /\ \/ sign.tag = 0 /\ Len(file) = PayloadEnd
         \/ /\ sign.offset = PayloadEnd + Header
            /\ sign.offset + sign.size = Len(file)
            /\ sign.size = n * EntryLen
            /\ \A i \in 0 .. n - 1 : sign.offset + i * EntryLen \in EntryPositions(file)
  BY DEF Uncut
<1>2. file \in File /\ Len(file) \in Nat
  BY Numbers DEF LoopInv, IInv, TypeOK, File
<1>3. sign.size \in Nat /\ sign.offset \in Nat
  BY <1>2, ChunkRefType DEF NoChunk, Header
<1> HIDE DEF sign
<1>4. CASE sign.tag = 0 /\ Len(file) = PayloadEnd
  <2>1. UncutBy(file, 0)
    BY <1>1, <1>4 DEF UncutBy, sign, PayloadEnd
  <2> QED
    BY <2>1
<1>5. CASE sign.offset + sign.size = Len(file)
  <2>1. n \in Nat
    BY <1>2, <1>3, <1>5 DEF EntryLen
  <2> HIDE DEF n
  <2>2. CASE sign.offset = PayloadEnd + Header /\ sign.size = n * EntryLen
             /\ \A i \in 0 .. n - 1 : sign.offset + i * EntryLen \in EntryPositions(file)
    <3>1. UncutBy(file, n)
      BY <1>1, <1>5, <2>2 DEF UncutBy, sign, PayloadEnd
    <3> QED
      BY <2>1, <3>1
  <2> QED
    BY <1>1, <1>4, <2>2
<1> QED
  BY <1>1, <1>4, <1>5

\* The signature is appended only if it does not exist yet: an uncut bundle gets an
\* entry exactly if it had no valid one of the key, and a second run then finds it.
THEOREM SignSignedOnce == Spec => []SignedOnce
<1>1. ASSUME LoopInv, pc = "done", Uncut
      PROVE  /\ ret = 1
             /\ out = 0 => key \in SignersOf(file)
             /\ out > 0 => /\ key \notin SignersOf(file)
                           /\ ECC_Sign(Result, key).res = "present"
  <2>1. PICK n \in Nat : UncutBy(file, n)
    BY <1>1, UncutRows
  <2>2. file \in File /\ key \in Keys /\ Get(file, Len(file), Header) \in {DDFB, 0}
    BY <1>1, Numbers DEF LoopInv, IInv, TypeOK, File
  <2>3. Signed <=> key \in SignersOf(file)
    BY <2>1, <2>2, UncutFinds DEF Signed
  <2>4. Known \/ Written
    BY <1>1, <2>1 DEF LoopInv, Ended, Refused, UncutBy
  <2>5. CASE Known
    BY <2>3, <2>5 DEF Known
  <2>6. CASE Written
    <3>1. Appending
      BY <1>1, <2>6 DEF Appending
    <3>2. UncutBy(Result, n + 1) /\ key \in SignersOf(Result)
      BY <2>1, <3>1, UncutOnceMore
    <3>3. IsBundle(Result) /\ Get(Result, out, 2) = DDFB
      BY <2>1, <3>1, UncutRegion
    <3>4. Result \in File /\ Len(Result) = out
      BY <3>1, WrittenCells
    <3>5. n + 1 \in Nat
      OBVIOUS
    <3>6. ECC_FindSignature(Result, key, RegionOf(Result))
      BY <2>2, <3>2, <3>3, <3>4, <3>5, UncutFinds DEF Header
    <3>7. ECC_Sign(Result, key) = Outcome("present", <<>>)
      BY <3>3, <3>6 DEF ECC_Sign
    <3>8. ret = 1 /\ ~Signed
      BY <2>6 DEF Written
    <3>9. out # 0
      <4>1. out \in Nat /\ out >= Place /\ Place \in Nat /\ Place >= 6
        BY <3>1, AppendFacts
      <4> QED
        BY <4>1
    <3> QED
      BY <2>3, <3>7, <3>8, <3>9 DEF Outcome
  <2> QED
    BY <2>4, <2>5, <2>6
<1>2. LoopInv => SignedOnce
  BY <1>1 DEF SignedOnce
<1> QED
  BY <1>2, LoopAlways, PTL

=============================================================================
