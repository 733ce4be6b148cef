---------------------------- MODULE Bundle_proofs ----------------------------
(***************************************************************************)
(* What GetChunkRef and the functions built on it return, for files of     *)
(* every length.  Its walk is a recursive function; that there is such a   *)
(* function follows since a step of the walk goes on to a later position.  *)
(***************************************************************************)
EXTENDS Bundle, TLAPS, WellFoundedInduction, SequenceTheorems

File == Seq(Nat)

\* A set of numbers that is not empty has a smallest one.
LEMMA Smallest ==
  ASSUME NEW T \in SUBSET Nat, T # {}
  PROVE  \E m \in T : \A n \in T : m <= n
<1>1. IsWellFoundedOn(OpToRel(<, Nat), Nat)
  BY NatLessThanWellFounded
<1>2. PICK m \in T : \A n \in T : ~(<<n, m>> \in OpToRel(<, Nat))
  BY <1>1, WFMin
<1>3. \A n \in T : ~(n < m)
  BY <1>2 DEF OpToRel
<1> QED
  BY <1>3

-----------------------------------------------------------------------------
\* One step of the walk, by what the walk w returns further on.
WalkStep(data, size, tag, w, p) ==
  IF Get(data, size, p) = tag THEN ChunkAt(data, size, p)
  ELSE IF Get(data, size, p) = 0 \/ After(data, size, p) >= size THEN NoChunk
  ELSE w[After(data, size, p)]

IsWalk(data, size, tag, w, n) ==
  w = [p \in n .. size |-> WalkStep(data, size, tag, w, p)]

Walk(data, size, tag) == CHOOSE w : IsWalk(data, size, tag, w, 0)

LEMMA GetType ==
  ASSUME NEW data \in File, NEW size \in Nat, NEW p \in Nat
  PROVE  Get(data, size, p) \in Nat
  BY DEF Get, File

LEMMA AfterType ==
  ASSUME NEW data \in File, NEW size \in Nat, NEW p \in Nat
  PROVE  After(data, size, p) \in Nat /\ After(data, size, p) >= p + 2
<1>1. Get(data, size, p + 1) \in Nat
  BY GetType
<1> QED
  BY <1>1 DEF After, Header

LEMMA WalkExists ==
  ASSUME NEW data \in File, NEW size \in Nat, NEW tag
  PROVE  \E w : IsWalk(data, size, tag, w, 0)
<1> DEFINE T == {n \in 0 .. size + 1 : \E w : IsWalk(data, size, tag, w, n)}
<1>1. size + 1 \in T
  <2> DEFINE v == [p \in {} |-> 0]
  <2>1. (size + 1) .. size = {}
    OBVIOUS
  <2>2. v = [p \in (size + 1) .. size |-> WalkStep(data, size, tag, v, p)]
    BY <2>1
  <2>3. IsWalk(data, size, tag, v, size + 1)
    BY <2>2 DEF IsWalk
  <2> QED
    BY <2>3
<1>2. PICK m \in T : \A n \in T : m <= n
  <2>1. T \in SUBSET Nat /\ T # {}
    BY <1>1
  <2> HIDE DEF T
  <2> QED
    BY <2>1, Smallest
<1>3. SUFFICES ASSUME m # 0 PROVE FALSE
  BY <1>2
<1>4. PICK w : IsWalk(data, size, tag, w, m)
  BY <1>2
<1> DEFINE k == m - 1
           v == [p \in k .. size |-> IF p = k THEN WalkStep(data, size, tag, w, p) ELSE w[p]]
<1>5. m \in Nat /\ k \in 0 .. size /\ k < m
  BY <1>3
<1>6. ASSUME NEW p \in k .. size
      PROVE  v[p] = WalkStep(data, size, tag, v, p)
  <2>1. After(data, size, p) \in Nat /\ After(data, size, p) >= m
    <3>1. p \in Nat /\ p + 1 >= m
      BY <1>5
    <3>2. After(data, size, p) \in Nat /\ After(data, size, p) >= p + 2
      BY <3>1, AfterType
    <3> QED
      BY <1>5, <3>1, <3>2
  <2>2. After(data, size, p) < size => v[After(data, size, p)] = w[After(data, size, p)]
    BY <2>1, <1>5
  <2>3. WalkStep(data, size, tag, v, p) = WalkStep(data, size, tag, w, p)
    BY <2>1, <2>2 DEF WalkStep
  <2>4. CASE p = k
    BY <2>3, <2>4
  <2>5. CASE p # k
    <3>1. p \in m .. size
      BY <1>5, <2>5
    <3>2. w[p] = WalkStep(data, size, tag, w, p)
      BY <3>1, <1>4 DEF IsWalk
    <3> QED
      BY <2>3, <2>5, <3>2
  <2> QED
    BY <2>4, <2>5
<1>7. IsWalk(data, size, tag, v, k)
  BY <1>6 DEF IsWalk
<1>8. k \in T
  BY <1>5, <1>7
<1> QED
  BY <1>2, <1>5, <1>8

\* GetChunkRef takes one step, and goes on behind the chunk.
LEMMA ChunkRefStep ==
  ASSUME NEW data \in File, NEW size \in Nat, NEW tag, NEW from \in Nat
  PROVE  GetChunkRef(data, size, from, tag) =
           IF from >= size THEN NoChunk
           ELSE IF Get(data, size, from) = tag THEN ChunkAt(data, size, from)
           ELSE IF Get(data, size, from) = 0 THEN NoChunk
           ELSE GetChunkRef(data, size, After(data, size, from), tag)
<1> DEFINE w == Walk(data, size, tag)
<1>1. w = [p \in 0 .. size |-> WalkStep(data, size, tag, w, p)]
  BY WalkExists DEF Walk, IsWalk
<1>2. \A f : GetChunkRef(data, size, f, tag) = IF f < size THEN w[f] ELSE NoChunk
  BY DEF GetChunkRef, Walk, IsWalk, WalkStep
<1> HIDE DEF w
<1>3. After(data, size, from) \in Nat
  BY AfterType
<1>4. CASE from >= size
  BY <1>2, <1>4
<1>5. CASE from < size
  <2>1. w[from] = WalkStep(data, size, tag, w, from)
    BY <1>1, <1>5
  <2> QED
    BY <1>2, <1>3, <1>5, <2>1 DEF WalkStep
<1> QED
  BY <1>4, <1>5

\* The walk ends with nothing, or with a chunk of that tag at or behind its start.
LEMMA WalkFurther ==
  ASSUME NEW data \in File, NEW size \in Nat, NEW tag, NEW from \in Nat
  PROVE  \/ GetChunkRef(data, size, from, tag) = NoChunk
         \/ \E q \in Nat : /\ from <= q /\ q < size /\ Get(data, size, q) = tag
                           /\ GetChunkRef(data, size, from, tag) = ChunkAt(data, size, q)
<1> DEFINE Found(p) == \E q \in Nat : /\ p <= q /\ q < size /\ Get(data, size, q) = tag
                                      /\ GetChunkRef(data, size, p, tag) = ChunkAt(data, size, q)
           Bad(p) == GetChunkRef(data, size, p, tag) # NoChunk /\ ~Found(p)
           T == {n \in 0 .. size : Bad(size - n)}
<1>1. SUFFICES ASSUME Bad(from) PROVE FALSE
  OBVIOUS
<1>2. from < size
  BY <1>1, ChunkRefStep
<1>3. size - from \in T
  <2>1. size - from \in 0 .. size /\ size - (size - from) = from
    BY <1>2
  <2> HIDE DEF Bad
  <2> QED
    BY <1>1, <2>1
<1>4. PICK m \in T : \A n \in T : m <= n
  <2>1. T \in SUBSET Nat
    <3> HIDE DEF Bad
    <3> QED
      OBVIOUS
  <2>2. T # {}
    <3> HIDE DEF T
    <3> QED
      BY <1>3
  <2> HIDE DEF T
  <2> QED
    BY <2>1, <2>2, Smallest
<1> DEFINE p == size - m
<1>5. p \in Nat /\ p <= size /\ Bad(p)
  BY <1>4
<1>6. p < size /\ Get(data, size, p) # 0
  BY <1>5, ChunkRefStep
<1>7. CASE Get(data, size, p) = tag
  <2>1. GetChunkRef(data, size, p, tag) = ChunkAt(data, size, p)
    BY <1>5, <1>6, <1>7, ChunkRefStep
  <2>2. Found(p)
    BY <1>5, <1>6, <1>7, <2>1
  <2> QED
    BY <1>5, <2>2
<1>8. CASE Get(data, size, p) # tag
  <2> DEFINE a == After(data, size, p)
  <2>1. a \in Nat /\ a >= p + 2
    BY <1>5, AfterType
  <2>2. GetChunkRef(data, size, p, tag) = GetChunkRef(data, size, a, tag)
    BY <1>5, <1>6, <1>8, ChunkRefStep
  <2>3. ~Found(a)
    <3>1. Found(a) => Found(p)
      BY <1>5, <2>1, <2>2
    <3> QED
      BY <1>5, <3>1
  <2>4. Bad(a)
    BY <1>5, <2>2, <2>3
  <2>5. a < size
    BY <1>5, <2>1, <2>2, ChunkRefStep
  <2>6. size - a \in T
    <3>1. size - a \in 0 .. size /\ size - (size - a) = a
      BY <2>1, <2>5
    <3> HIDE DEF Bad, a
    <3> QED
      BY <2>4, <3>1
  <2>7. m <= size - a
    BY <1>4, <2>6
  <2> QED
    BY <1>4, <1>5, <2>1, <2>7
<1> QED
  BY <1>7, <1>8

LEMMA ChunkRefType ==
  ASSUME NEW data \in File, NEW size \in Nat, NEW tag, NEW from \in Nat
  PROVE  LET c == GetChunkRef(data, size, from, tag)
         IN  \/ c = NoChunk
             \/ /\ c.tag = tag /\ c.size \in Nat
                /\ c.offset \in Nat /\ c.offset >= from + 1
<1> DEFINE c == GetChunkRef(data, size, from, tag)
<1>1. CASE c = NoChunk
  BY <1>1
<1>2. CASE c # NoChunk
  <2>1. PICK q \in Nat : /\ from <= q /\ Get(data, size, q) = tag
                         /\ c = ChunkAt(data, size, q)
    BY <1>2, WalkFurther
  <2>2. Get(data, size, q + 1) \in Nat
    <3>1. q + 1 \in Nat
      OBVIOUS
    <3> QED
      BY <3>1, GetType
  <2> HIDE DEF c
  <2>3. /\ c.tag = tag /\ c.size \in Nat
        /\ c.offset = q + 2 \/ c.offset = q + 1
    BY <2>1, <2>2 DEF ChunkAt, Header
  <2> QED
    BY <2>1, <2>3 DEF c
<1> QED
  BY <1>1, <1>2

-----------------------------------------------------------------------------
(* Files that begin with the bundle of a payload, cut off anywhere.         *)

\* Where the DDFB chunk ends.
End(P) == 4 + Len(P)

Starts(f, P) ==
  \A i \in 1 .. Len(f) : i <= End(P) /\ i # 2 => f[i] = Unsigned(P)[i]

\* What is signed of it.
Signable(P) == SubSeq(Unsigned(P), 3, End(P))

Whole(f, P) == Starts(f, P) /\ Len(f) >= End(P)

LEMMA UnsignedFacts ==
  ASSUME NEW P \in File
  PROVE  /\ Unsigned(P) \in File /\ Len(Unsigned(P)) = End(P)
         /\ Len(P) \in Nat /\ End(P) \in Nat /\ End(P) >= 4
         /\ Unsigned(P)[1] = RIFF /\ Unsigned(P)[3] = DDFB /\ Unsigned(P)[4] = Len(P)
<1>1. Len(P) \in Nat /\ P \in Seq(Nat)
  BY DEF File
<1>2. RIFF \in Nat /\ DDFB \in Nat /\ Header + Len(P) \in Nat
  BY <1>1, TagAssumption DEF Header
<1> DEFINE h == <<RIFF, Header + Len(P), DDFB, Len(P)>>
<1>3. h \in Seq(Nat) /\ Len(h) = 4 /\ h[1] = RIFF /\ h[3] = DDFB /\ h[4] = Len(P)
  BY <1>1, <1>2
<1>4. Unsigned(P) = h \o P
  BY DEF Unsigned
<1> HIDE DEF h
<1>5. /\ h \o P \in Seq(Nat) /\ Len(h \o P) = 4 + Len(P)
      /\ \A i \in 1 .. 4 + Len(P) : (h \o P)[i] = IF i <= 4 THEN h[i] ELSE P[i - 4]
  <2>1. /\ Len(h \o P) = Len(h) + Len(P)
        /\ \A i \in 1 .. Len(h) + Len(P) :
             (h \o P)[i] = IF i <= Len(h) THEN h[i] ELSE P[i - Len(h)]
        /\ h \o P \in Seq(Nat)
    BY <1>1, <1>3, ConcatProperties
  <2> QED
    BY <1>3, <2>1
<1>6. (h \o P)[1] = h[1] /\ (h \o P)[3] = h[3] /\ (h \o P)[4] = h[4]
  BY <1>1, <1>5
<1> QED
  BY <1>1, <1>3, <1>4, <1>5, <1>6 DEF End, File

LEMMA StartsUnsigned ==
  ASSUME NEW P \in File PROVE Whole(Unsigned(P), P)
  BY UnsignedFacts DEF Starts, Whole

\* What GetChunkRef returns for the headers of such a file, whatever its length.
LEMMA Headers ==
  ASSUME NEW f \in File, NEW P \in File, Starts(f, P), NEW size \in Nat, size >= Len(f)
  PROVE  /\ (GetChunkRef(f, size, 0, RIFF).tag = 0) = (Len(f) = 0)
         /\ Len(f) < 3 => GetChunkRef(f, size, Header, DDFB) = NoChunk
         /\ Len(f) = 3 /\ size > 3 =>
              GetChunkRef(f, size, Header, DDFB) = [tag |-> DDFB, size |-> 0, offset |-> 4]
         /\ Len(f) >= 4 =>
              GetChunkRef(f, size, Header, DDFB) = [tag |-> DDFB, size |-> Len(P), offset |-> 4]
<1>1. Len(f) \in Nat /\ DDFB # 0 /\ RIFF # 0
  BY TagAssumption DEF File
<1>2. End(P) >= 4 /\ End(P) \in Nat
  BY UnsignedFacts
<1>3. /\ Len(f) >= 1 => f[1] = RIFF
      /\ Len(f) >= 3 => f[3] = DDFB
      /\ Len(f) >= 4 => f[4] = Len(P)
  <2>1. \A i \in {1, 3, 4} : Len(f) >= i => f[i] = Unsigned(P)[i]
    BY <1>1, <1>2 DEF Starts
  <2> QED
    BY <2>1, UnsignedFacts
<1>4. /\ Get(f, size, 0) = IF Len(f) >= 1 THEN RIFF ELSE 0
      /\ Get(f, size, 2) = IF Len(f) >= 3 THEN DDFB ELSE 0
      /\ Get(f, size, 3) = IF Len(f) >= 4 THEN Len(P) ELSE 0
  BY <1>1, <1>3 DEF Get
<1>5. (GetChunkRef(f, size, 0, RIFF).tag = 0) = (Len(f) = 0)
  <2>1. GetChunkRef(f, size, 0, RIFF) =
          IF Len(f) = 0 THEN NoChunk ELSE ChunkAt(f, size, 0)
    BY <1>1, <1>4, ChunkRefStep
  <2> QED
    BY <1>1, <1>4, <2>1 DEF ChunkAt, NoChunk
<1>6. Len(f) < 3 => GetChunkRef(f, size, 2, DDFB) = NoChunk
  BY <1>1, <1>4, ChunkRefStep
<1>7. Len(f) >= 3 => GetChunkRef(f, size, 2, DDFB) = ChunkAt(f, size, 2)
  BY <1>1, <1>4, ChunkRefStep
<1>8. Len(f) >= 3 /\ size > 3 =>
        ChunkAt(f, size, 2) = [tag |-> DDFB, size |-> Get(f, size, 3), offset |-> 4]
  BY <1>1, <1>4 DEF ChunkAt, Header
<1>9. Len(f) = 3 /\ size > 3 =>
        GetChunkRef(f, size, 2, DDFB) = [tag |-> DDFB, size |-> 0, offset |-> 4]
  <2> HAVE Len(f) = 3 /\ size > 3
  <2>1. Get(f, size, 3) = 0 /\ Len(f) >= 3
    BY <1>4
  <2> QED
    BY <1>7, <1>8, <2>1
<1>10. Len(f) >= 4 =>
         GetChunkRef(f, size, 2, DDFB) = [tag |-> DDFB, size |-> Len(P), offset |-> 4]
  <2> HAVE Len(f) >= 4
  <2>1. Get(f, size, 3) = Len(P) /\ Len(f) >= 3 /\ size > 3
    BY <1>1, <1>4
  <2> QED
    BY <1>7, <1>8, <2>1
<1>11. Header = 2
  BY DEF Header
<1> QED
  BY <1>5, <1>6, <1>9, <1>10, <1>11, Zenon

LEMMA RoomType ==
  ASSUME NEW f \in File
  PROVE  Len(f) \in Nat /\ Room(f) \in Nat /\ Room(f) >= Len(f) + Header + EntryLen
  BY ExtraAssumption DEF Room, File, Header, EntryLen

\* ECC_Sign takes such a file for a bundle when its DDFB chunk is complete, and then
\* signs all of it.
LEMMA PayloadFound ==
  ASSUME NEW f \in File, NEW P \in File, Starts(f, P)
  PROVE  /\ IsBundle(f) <=> Len(f) >= End(P)
         /\ IsBundle(f) => Payload(f) = [tag |-> DDFB, size |-> Len(P), offset |-> 4]
<1> DEFINE c == GetChunkRef(f, Room(f), Header, DDFB)
<1>1. /\ Len(f) \in Nat /\ Room(f) \in Nat /\ Room(f) >= Len(f) + 6
      /\ Len(P) \in Nat /\ End(P) = 4 + Len(P)
  BY RoomType, UnsignedFacts DEF Header, EntryLen, End
<1>2. /\ (GetChunkRef(f, Room(f), 0, RIFF).tag = 0) = (Len(f) = 0)
      /\ Len(f) < 3 => c = NoChunk
      /\ Len(f) = 3 => c = [tag |-> DDFB, size |-> 0, offset |-> 4]
      /\ Len(f) >= 4 => c = [tag |-> DDFB, size |-> Len(P), offset |-> 4]
  BY <1>1, Headers
<1>3. Payload(f) = IF GetChunkRef(f, Room(f), 0, RIFF).tag = 0 \/ c.offset + c.size > Len(f)
                   THEN NoChunk ELSE c
  BY DEF Payload
<1>4. NoChunk.tag = 0 /\ NoChunk.offset = 0 /\ NoChunk.size = 0 /\ DDFB # 0
  BY TagAssumption DEF NoChunk
<1> HIDE DEF c
<1> DEFINE found == [tag |-> DDFB, size |-> Len(P), offset |-> 4]
<1>5. CASE Len(f) < 3
  <2>1. Payload(f) = NoChunk
    BY <1>1, <1>2, <1>3, <1>5
  <2> QED
    BY <1>1, <1>4, <1>5, <2>1 DEF IsBundle
<1>6. CASE Len(f) = 3
  <2>1. c.offset + c.size = 4
    BY <1>2, <1>6
  <2>2. Payload(f) = NoChunk
    BY <1>1, <1>3, <1>6, <2>1
  <2> QED
    BY <1>1, <1>4, <1>6, <2>2 DEF IsBundle
<1>7. CASE Len(f) >= 4
  <2>1. c = found /\ c.offset + c.size = End(P) /\ found.tag # 0
    BY <1>1, <1>2, <1>4, <1>7
  <2>2. Payload(f) = IF End(P) > Len(f) THEN NoChunk ELSE found
    BY <1>1, <1>2, <1>3, <1>7, <2>1
  <2> QED
    BY <1>1, <1>4, <1>7, <2>1, <2>2 DEF IsBundle
<1>8. Len(f) < 3 \/ Len(f) = 3 \/ Len(f) >= 4
  <2>1. \A n \in Nat : n < 3 \/ n = 3 \/ n >= 4
    OBVIOUS
  <2> QED
    BY <1>1, <2>1, Zenon
<1> QED
  BY <1>5, <1>6, <1>7, <1>8

\* So any two files that hold all of a payload have the same region.
LEMMA WholeRegion ==
  ASSUME NEW f \in File, NEW P \in File, Whole(f, P)
  PROVE  RegionOf(f) = Signable(P)
<1>1. /\ Len(f) \in Nat /\ Extra \in Nat /\ Len(P) \in Nat
      /\ End(P) = 4 + Len(P) /\ Len(f) >= End(P) /\ f \in Seq(Nat)
  BY UnsignedFacts, ExtraAssumption DEF Whole, File, End
<1>2. Payload(f) = [tag |-> DDFB, size |-> Len(P), offset |-> 4]
  BY <1>1, PayloadFound DEF Whole
<1>3. RegionOf(f) = SubSeq(Padded(f), 3, End(P))
  BY <1>1, <1>2 DEF RegionOf, Region, Header
<1> DEFINE z == [i \in 1 .. Extra |-> 0]
<1>4. z \in Seq(Nat) /\ Len(z) = Extra
  BY <1>1
<1>5. Padded(f) = f \o z
  BY DEF Padded
<1> HIDE DEF z
<1>6. /\ f \o z \in Seq(Nat) /\ Len(f \o z) = Len(f) + Extra
      /\ \A i \in 1 .. Len(f) + Extra : (f \o z)[i] = IF i <= Len(f) THEN f[i] ELSE z[i - Len(f)]
  BY <1>1, <1>4, ConcatProperties
<1>7. \A i \in 3 .. End(P) : Padded(f)[i] = Unsigned(P)[i]
  <2>1. \A i \in 3 .. End(P) : f[i] = Unsigned(P)[i]
    BY <1>1 DEF Whole, Starts
  <2> QED
    BY <1>1, <1>5, <1>6, <2>1
<1>8. SubSeq(Padded(f), 3, End(P)) = SubSeq(Unsigned(P), 3, End(P))
  BY <1>1, <1>7
<1> QED
  BY <1>3, <1>8 DEF Signable

-----------------------------------------------------------------------------
(* The SIGN chunk of such a file, and what ECC_AppendSignature makes of it. *)

\* The walk comes by the DDFB chunk and goes on where it ends.
LEMMA SignBehind ==
  ASSUME NEW f \in File, NEW P \in File, Whole(f, P), NEW size \in Nat, size >= Len(f)
  PROVE  GetChunkRef(f, size, Header, SIGN) = GetChunkRef(f, size, End(P), SIGN)
<1>1. /\ Len(f) \in Nat /\ Len(P) \in Nat /\ End(P) = 4 + Len(P) /\ Len(f) >= End(P)
      /\ DDFB # 0 /\ DDFB # SIGN
  BY UnsignedFacts, TagAssumption DEF Whole, File, End
<1>2. f[3] = DDFB /\ f[4] = Len(P)
  <2>1. \A i \in {3, 4} : f[i] = Unsigned(P)[i]
    BY <1>1 DEF Whole, Starts
  <2> QED
    BY <2>1, UnsignedFacts
<1>3. Get(f, size, 2) = DDFB /\ Get(f, size, 3) = Len(P)
  BY <1>1, <1>2 DEF Get
<1>4. After(f, size, 2) = End(P)
  BY <1>1, <1>3 DEF After, Header
<1>5. GetChunkRef(f, size, 2, SIGN) = GetChunkRef(f, size, After(f, size, 2), SIGN)
  BY <1>1, <1>3, ChunkRefStep
<1> QED
  BY <1>4, <1>5 DEF Header

\* Where the entries of its SIGN chunk begin.
Base(P) == End(P) + Header

\* Cell i of f is what an entry has at that place.
EntryCell(f, P, i) ==
  LET k == (i - Base(P) - 1) % EntryLen
  IN  \/ k = 0 /\ f[i] = PubLen
      \/ k = 1 /\ \E key \in Keys : f[i] = PubKey(key)
      \/ k = 2 /\ f[i] = SigLen
      \/ k = 3 /\ Verifies(f[i], f[i - 2], Signable(P))

\* Behind the payload is a SIGN chunk with room for whole entries, cut off
\* anywhere, where entries are or zeros, or a key or signature that is cut.
SignTail(f, P) ==
  /\ Len(f) > End(P) => f[End(P) + 1] = SIGN
  /\ Len(f) > End(P) + 1 => f[End(P) + 2] % EntryLen = 0
  /\ \A i \in Base(P) + 1 .. Len(f) : f[i] \in {0, Torn} \/ EntryCell(f, P, i)

Tidy(f, P) == Starts(f, P) /\ SignTail(f, P)

LEMMA EndFacts ==
  ASSUME NEW f \in File, NEW P \in File
  PROVE  /\ Len(f) \in Nat /\ Len(P) \in Nat
         /\ End(P) \in Nat /\ End(P) = 4 + Len(P) /\ Base(P) = End(P) + 2
         /\ Room(f) \in Nat /\ Room(f) >= Len(f) + 6
BY UnsignedFacts, RoomType DEF End, Base, Header, EntryLen, File

\* GetChunkRef finds it there.
LEMMA TidySign ==
  ASSUME NEW f \in File, NEW P \in File, Tidy(f, P), Len(f) >= End(P),
         NEW size \in Nat, size >= Len(f)
  PROVE  GetChunkRef(f, size, Header, SIGN) =
           IF Len(f) = End(P) THEN NoChunk
           ELSE [tag    |-> SIGN,
                 size   |-> Get(f, size, End(P) + 1),
                 offset |-> IF End(P) + 1 < size THEN Base(P) ELSE End(P) + 1]
<1>1. Len(f) \in Nat /\ End(P) \in Nat /\ Base(P) = End(P) + 2
  BY EndFacts
<1>2. GetChunkRef(f, size, Header, SIGN) = GetChunkRef(f, size, End(P), SIGN)
  BY SignBehind DEF Whole, Tidy
<1>3. SIGN # 0
  BY TagAssumption
<1>4. Get(f, size, End(P)) = IF Len(f) = End(P) THEN 0 ELSE SIGN
  <2>1. Len(f) > End(P) => f[End(P) + 1] = SIGN
    BY DEF Tidy, SignTail
  <2> QED
    BY <1>1, <2>1 DEF Get
<1>5. CASE Len(f) = End(P)
  BY <1>1, <1>2, <1>3, <1>4, <1>5, ChunkRefStep
<1>6. CASE Len(f) # End(P)
  <2>1. GetChunkRef(f, size, End(P), SIGN) = ChunkAt(f, size, End(P))
    BY <1>1, <1>4, <1>6, ChunkRefStep
  <2> QED
    BY <1>1, <1>2, <1>4, <1>6, <2>1 DEF ChunkAt, Header
<1> QED
  BY <1>5, <1>6

\* The declared size of the entries a loaded file has.
Declared(f, P) == Get(f, Room(f), End(P) + 1)

\* What ECC_AppendSignature writes, cell by cell.
LEMMA AppendCells ==
  ASSUME NEW f \in File, NEW P \in File, Tidy(f, P), Len(f) >= End(P),
         NEW key, NEW region
  PROVE  LET g     == ECC_AppendSignature(f, key, region)
             entry == Base(P) + Declared(f, P)
             fits  == entry + EntryLen <= Room(f)
         IN  /\ Declared(f, P) \in Nat
             /\ Len(f) <= End(P) + 1 => Declared(f, P) = 0
             /\ g = [i \in 1 .. Len(g) |-> g[i]]
             /\ Len(g) \in Nat /\ Len(g) >= Base(P)
             /\ fits => Len(g) = entry + EntryLen
             /\ ~fits => Len(g) = IF entry > Room(f) THEN entry ELSE Room(f)
             /\ \A i \in 1 .. Len(g) :
                  g[i] = IF i = Header /\ fits THEN Len(g) - Header
                         ELSE IF i = Base(P) /\ fits THEN Declared(f, P) + EntryLen
                         ELSE IF i = End(P) + 1 THEN SIGN
                         ELSE IF i > entry /\ i <= Room(f) THEN Entry(key, region)[i - entry]
                         ELSE Get(f, Room(f), i - 1)
<1>1. /\ Len(f) \in Nat /\ Room(f) \in Nat /\ Room(f) >= Len(f) + 6
      /\ End(P) \in Nat /\ End(P) >= 4 /\ End(P) = 4 + Len(P) /\ Base(P) = End(P) + 2
  BY EndFacts, UnsignedFacts
<1> DEFINE g     == ECC_AppendSignature(f, key, region)
           sign  == GetChunkRef(f, Room(f), Header, SIGN)
           base  == GetChunkRef(f, Room(f), Header, DDFB)
           entry == Base(P) + Declared(f, P)
           fits  == entry + EntryLen <= Room(f)
           last  == IF fits THEN entry + EntryLen
                    ELSE IF entry > Room(f) THEN entry ELSE Room(f)
           cell(i) == IF i = Header /\ fits THEN last - Header
                      ELSE IF i = Base(P) /\ fits THEN Declared(f, P) + EntryLen
                      ELSE IF i = End(P) + 1 THEN SIGN
                      ELSE IF i > entry /\ i <= Room(f) THEN Entry(key, region)[i - entry]
                      ELSE Get(f, Room(f), i - 1)
<1>2. base = [tag |-> DDFB, size |-> Len(P), offset |-> 4]
  BY <1>1, Headers DEF Tidy
<1>3. sign = IF Len(f) = End(P) THEN NoChunk
             ELSE [tag |-> SIGN, size |-> Declared(f, P), offset |-> Base(P)]
  BY <1>1, TidySign DEF Declared
<1>4. /\ Declared(f, P) \in Nat
      /\ Len(f) <= End(P) + 1 => Declared(f, P) = 0
  <2>1. End(P) + 1 \in Nat
    BY <1>1
  <2>2. Declared(f, P) \in Nat
    BY <1>1, <2>1, GetType DEF Declared
  <2> QED
    BY <1>1, <2>2 DEF Declared, Get
<1>5. /\ (sign.tag = 0) = (Len(f) = End(P))
      /\ (IF sign.tag = 0 THEN base.offset + base.size + Header ELSE sign.offset) = Base(P)
      /\ EntryStart(sign, Base(P)) = entry
      /\ Len(f) = End(P) => fits
  BY <1>1, <1>2, <1>3, <1>4, TagAssumption DEF NoChunk, EntryStart, Header, EntryLen
<1>6. Len(f) > End(P) => Get(f, Room(f), End(P)) = SIGN
  BY <1>1 DEF Get, Tidy, SignTail
<1> HIDE DEF sign, base
<1>7. g = [i \in 1 .. last |->
             CASE fits /\ i = Header   -> Span(Header, entry + EntryLen)
               [] fits /\ i = Base(P)  -> Span(Base(P), entry + EntryLen)
               [] ~fits /\ sign.tag = 0 /\ i = Base(P) -> 0
               [] sign.tag = 0 /\ i = Base(P) - 1      -> SIGN
               [] i > entry /\ i <= Room(f) -> Entry(key, region)[i - entry]
               [] OTHER                     -> Get(f, Room(f), i - 1)]
  BY <1>5 DEF ECC_AppendSignature, sign, base
<1>8. last \in Nat /\ last >= Base(P)
  BY <1>1, <1>4 DEF EntryLen
<1>9. ASSUME NEW i \in 1 .. last PROVE g[i] = cell(i)
  <2>1. /\ g[i] = CASE fits /\ i = Header  -> Span(Header, entry + EntryLen)
                    [] fits /\ i = Base(P) -> Span(Base(P), entry + EntryLen)
                    [] ~fits /\ sign.tag = 0 /\ i = Base(P) -> 0
                    [] sign.tag = 0 /\ i = Base(P) - 1      -> SIGN
                    [] i > entry /\ i <= Room(f) -> Entry(key, region)[i - entry]
                    [] OTHER                     -> Get(f, Room(f), i - 1)
        /\ i \in Nat
    BY <1>7, <1>8
  <2>2. /\ fits => Span(Header, entry + EntryLen) = last - Header
        /\ Span(Base(P), entry + EntryLen) = Declared(f, P) + EntryLen
    BY <1>1, <1>4 DEF Span, Header, EntryLen
  <2>3. /\ ~fits => sign.tag # 0
        /\ Header # Base(P) /\ Base(P) - 1 = End(P) + 1 /\ End(P) + 1 # Base(P)
        /\ entry >= Base(P) /\ (i = End(P) + 1 => ~(i > entry) /\ i # Header /\ i - 1 = End(P))
        /\ sign.tag # 0 => Get(f, Room(f), End(P)) = SIGN
        /\ i = Header => ~(i > entry)
        /\ i = Base(P) => ~(i > entry)
    BY <1>1, <1>4, <1>5, <1>6 DEF Header
  <2> HIDE DEF g, entry, fits, last
  <2>4. CASE i = End(P) + 1
    BY <2>1, <2>3, <2>4 DEF cell
  <2>5. CASE i # End(P) + 1
    BY <2>1, <2>2, <2>3, <2>5 DEF cell
  <2> QED
    BY <2>4, <2>5
<1>10. Len(g) = last /\ g = [i \in 1 .. Len(g) |-> g[i]]
  BY <1>7, <1>8
<1> HIDE DEF g, cell
<1>11. \A i \in 1 .. Len(g) : g[i] = cell(i)
  BY <1>9, <1>10
<1> HIDE DEF entry, fits
<1>12. /\ fits => Len(g) = entry + EntryLen
       /\ ~fits => Len(g) = IF entry > Room(f) THEN entry ELSE Room(f)
  BY <1>10
<1> QED
  BY <1>4, <1>8, <1>10, <1>11, <1>12, Zenon DEF g, entry, fits, cell


\* The entry it appends stands where an entry may stand.
LEMMA EntryFits ==
  ASSUME NEW P \in File, NEW key \in Keys, NEW n \in Nat, n % EntryLen = 0,
         NEW g, NEW m \in 1 .. EntryLen,
         \A j \in 1 .. m : g[Base(P) + n + j] = Entry(key, Signable(P))[j]
  PROVE  EntryCell(g, P, Base(P) + n + m)
<1> DEFINE i == Base(P) + n + m
<1>1. Base(P) \in Nat /\ i \in Nat /\ EntryLen = 4
  BY EndFacts DEF EntryLen
<1>2. (i - Base(P) - 1) % EntryLen = m - 1
  BY SMTT(30), <1>1
<1>3. \A j \in 1 .. m :
        g[Base(P) + n + j] = CASE j = 1 -> PubLen [] j = 2 -> PubKey(key) [] j = 3 -> SigLen
                                [] j = 4 -> Signature(key, Signable(P))
  BY <1>1 DEF Entry
<1>4. CASE m = 1
  BY <1>2, <1>3, <1>4 DEF EntryCell
<1>5. CASE m = 2
  BY <1>2, <1>3, <1>5 DEF EntryCell
<1>6. CASE m = 3
  BY <1>2, <1>3, <1>6 DEF EntryCell
<1>7. CASE m = 4
  <2>1. g[i] = Signature(key, Signable(P)) /\ g[i - 2] = PubKey(key)
    <3>1. i - 2 = Base(P) + n + 2 /\ i = Base(P) + n + 4
      BY <1>1, <1>7
    <3> QED
      BY <1>3, <1>7, <3>1
  <2> QED
    BY <1>2, <1>7, <2>1 DEF EntryCell, Verifies
<1> QED
  BY <1>1, <1>4, <1>5, <1>6, <1>7

\* The last cell of an entry has the others before it.
LEMMA SlotLast ==
  ASSUME NEW b \in Nat, NEW n \in Nat, NEW i \in b + 1 .. n, (i - b - 1) % EntryLen = 3
  PROVE  i - 2 \in b + 1 .. n /\ i - 3 \in b + 1 .. n
<1> DEFINE k == i - b - 1
<1>1. k \in Nat /\ k % 4 = 3 /\ i = k + b + 1
  BY DEF EntryLen
<1>2. k # 0 /\ k # 1 /\ k # 2
  BY <1>1
<1> QED
  BY <1>1, <1>2

\* A file ECC_Sign has added a signature to is a whole bundle of the same payload,
\* with nothing but entries behind it.
LEMMA AppendTidy ==
  ASSUME NEW f \in File, NEW P \in File, Tidy(f, P), Len(f) >= End(P),
         NEW key \in Keys, Signature(key, Signable(P)) \in Nat
  PROVE  LET g == ECC_AppendSignature(f, key, Signable(P))
         IN  g \in File /\ Tidy(g, P) /\ Len(g) >= End(P)
<1> DEFINE g     == ECC_AppendSignature(f, key, Signable(P))
           n     == Declared(f, P)
           entry == Base(P) + n
           fits  == entry + EntryLen <= Room(f)
           cell(i) == IF i = Header /\ fits THEN Len(g) - Header
                      ELSE IF i = Base(P) /\ fits THEN n + EntryLen
                      ELSE IF i = End(P) + 1 THEN SIGN
                      ELSE IF i > entry /\ i <= Room(f) THEN Entry(key, Signable(P))[i - entry]
                      ELSE Get(f, Room(f), i - 1)
<1>1. /\ Len(f) \in Nat /\ Room(f) \in Nat /\ Room(f) >= Len(f) + 6
      /\ End(P) \in Nat /\ End(P) >= 4 /\ End(P) = 4 + Len(P) /\ Base(P) = End(P) + 2
      /\ EntryLen = 4 /\ Header = 2
  BY EndFacts, UnsignedFacts DEF EntryLen, Header
<1>2. /\ n \in Nat /\ (Len(f) <= End(P) + 1 => n = 0)
      /\ Len(g) \in Nat /\ Len(g) >= Base(P)
      /\ fits => Len(g) = entry + EntryLen
      /\ ~fits => Len(g) = IF entry > Room(f) THEN entry ELSE Room(f)
  BY AppendCells
<1>3. n % EntryLen = 0
  BY <1>1, <1>2 DEF Declared, Get, Tidy, SignTail
<1>13. g = [i \in 1 .. Len(g) |-> g[i]]
  BY AppendCells
<1>14. \A i \in 1 .. Len(g) : g[i] = cell(i)
  BY AppendCells
<1> HIDE DEF g, n
<1>4. ASSUME NEW i \in 1 .. Len(g), i > entry, i <= Room(f)
      PROVE  i - entry \in 1 .. EntryLen
  BY <1>1, <1>2, <1>4
<1>5. ASSUME NEW i \in 1 .. Len(g) PROVE g[i] \in Nat
  <2>1. g[i] = cell(i) /\ i \in Nat /\ i - 1 \in Nat
    BY <1>2, <1>14
  <2>2. Get(f, Room(f), i - 1) \in Nat
    BY <1>1, <2>1, GetType
  <2>3. \A j \in 1 .. EntryLen : Entry(key, Signable(P))[j] \in Nat
    BY SMTT(30), <1>1, LenAssumption DEF Entry
  <2>4. i > entry /\ i <= Room(f) => Entry(key, Signable(P))[i - entry] \in Nat
    BY <1>4, <2>3
  <2>5. SIGN \in Nat /\ n + EntryLen \in Nat /\ Len(g) - Header \in Nat
    BY <1>1, <1>2, TagAssumption
  <2> HIDE DEF entry, fits
  <2> QED
    BY <2>1, <2>2, <2>4, <2>5
<1>6. g \in File
  <2>1. g \in [1 .. Len(g) -> Nat]
    BY <1>5, <1>13
  <2>2. \A m \in Nat : \A h \in [1 .. m -> Nat] : h \in Seq(Nat)
    OBVIOUS
  <2>3. Len(g) \in Nat
    BY <1>2
  <2> QED
    BY <2>1, <2>2, <2>3 DEF File
<1>7. ASSUME NEW i \in 1 .. Len(g), i <= entry \/ i > Room(f), i # 2, i # Base(P), i # End(P) + 1
      PROVE  g[i] = IF i <= Len(f) THEN f[i] ELSE 0
  <2>1. g[i] = Get(f, Room(f), i - 1)
    <3>1. g[i] = cell(i)
      BY <1>14
    <3>2. ~(i > entry /\ i <= Room(f))
      BY <1>1, <1>2, <1>7
    <3> HIDE DEF entry, fits
    <3> QED
      BY <1>1, <1>7, <3>1, <3>2
  <2> QED
    BY <1>1, <2>1 DEF Get
<1>8. Starts(g, P)
  <2> SUFFICES ASSUME NEW i \in 1 .. Len(g), i <= End(P), i # 2
               PROVE  g[i] = Unsigned(P)[i]
    BY DEF Starts
  <2>1. i <= entry /\ i # Base(P) /\ i # End(P) + 1 /\ i <= Len(f)
    BY <1>1, <1>2
  <2>2. g[i] = f[i]
    BY <1>7, <2>1
  <2> QED
    BY <1>1, <2>1, <2>2 DEF Tidy, Starts
<1>9. g[End(P) + 1] = SIGN
  <2>1. End(P) + 1 \in 1 .. Len(g) /\ End(P) + 1 # 2 /\ End(P) + 1 # Base(P)
    BY <1>1, <1>2
  <2>2. g[End(P) + 1] = cell(End(P) + 1)
    BY <1>14, <2>1
  <2> HIDE DEF entry, fits
  <2> QED
    BY <1>1, <2>1, <2>2
<1>10. g[Base(P)] % EntryLen = 0
  <2>1. /\ Base(P) \in 1 .. Len(g) /\ Base(P) # 2 /\ Base(P) # End(P) + 1 /\ ~(Base(P) > entry)
        /\ Base(P) - 1 = End(P) + 1
    BY <1>1, <1>2
  <2>2. g[Base(P)] = IF fits THEN n + EntryLen ELSE n
    <3>1. g[Base(P)] = cell(Base(P)) /\ n = Get(f, Room(f), End(P) + 1)
      BY <1>14, <2>1 DEF n, Declared
    <3> HIDE DEF entry, fits
    <3> QED
      BY <1>1, <2>1, <3>1
  <2> QED
    BY <1>1, <1>2, <1>3, <2>2
<1>11. ASSUME NEW i \in Base(P) + 1 .. Len(g) PROVE g[i] \in {0, Torn} \/ EntryCell(g, P, i)
  <2>0. i \in 1 .. Len(g) /\ i \in Nat /\ i # 2 /\ i # Base(P) /\ i # End(P) + 1
    BY <1>1, <1>2
  <2>1. CASE i > entry /\ i <= Room(f)
    <3> DEFINE m == i - entry
    <3>1. m \in 1 .. EntryLen /\ i = Base(P) + n + m
      BY <1>1, <1>2, <1>4, <2>0, <2>1
    <3>2. \A j \in 1 .. m : Base(P) + n + j \in 1 .. Len(g) /\ Base(P) + n + j # 2
                            /\ Base(P) + n + j # Base(P) /\ Base(P) + n + j # End(P) + 1
                            /\ Base(P) + n + j > entry /\ Base(P) + n + j <= Room(f)
                            /\ (Base(P) + n + j) - entry = j
      BY <1>1, <1>2, <2>0, <2>1
    <3>3. \A j \in 1 .. m : g[Base(P) + n + j] = Entry(key, Signable(P))[j]
      <4>1. \A j \in 1 .. m : g[Base(P) + n + j] = cell(Base(P) + n + j)
        BY <1>14, <3>2
      <4> HIDE DEF entry, fits
      <4> QED
        BY <1>1, <3>2, <4>1
    <3> HIDE DEF m
    <3> QED
      BY <1>2, <1>3, <3>1, <3>3, EntryFits
  <2>2. CASE ~(i > entry /\ i <= Room(f))
    <3>1. g[i] = IF i <= Len(f) THEN f[i] ELSE 0
      BY <1>1, <1>2, <1>7, <2>0, <2>2
    <3>2. CASE i <= Len(f)
      <4>1. f[i] \in {0, Torn} \/ EntryCell(f, P, i)
        BY <2>0, <3>2 DEF Tidy, SignTail
      <4>2. (i - Base(P) - 1) % EntryLen = 3 => g[i - 2] = f[i - 2]
        <5>1. SUFFICES ASSUME (i - Base(P) - 1) % EntryLen = 3 PROVE g[i - 2] = f[i - 2]
          OBVIOUS
        <5>2. i - 2 \in Base(P) + 1 .. Len(g)
          BY <1>1, <1>2, <5>1, SlotLast
        <5>3. /\ i - 2 \in 1 .. Len(g) /\ i - 2 # 2 /\ i - 2 # Base(P) /\ i - 2 # End(P) + 1
              /\ i - 2 <= entry \/ i - 2 > Room(f)
              /\ i - 2 <= Len(f)
          BY <1>1, <1>2, <2>0, <2>2, <3>2, <5>2
        <5> QED
          BY <1>7, <5>3
      <4> QED
        BY <3>1, <3>2, <4>1, <4>2 DEF EntryCell
    <3> QED
      BY <3>1, <3>2
  <2> QED
    BY <2>1, <2>2
<1>12. Tidy(g, P)
  BY <1>1, <1>8, <1>9, <1>10, <1>11 DEF Tidy, SignTail
<1> QED
  BY <1>1, <1>2, <1>6, <1>12 DEF g

LEMMA UnsignedTidy ==
  ASSUME NEW P \in File PROVE Tidy(Unsigned(P), P)
<1>1. Unsigned(P) \in File /\ Len(Unsigned(P)) = End(P) /\ End(P) \in Nat /\ Base(P) = End(P) + 2
  BY UnsignedFacts, EndFacts
<1>2. Starts(Unsigned(P), P)
  BY DEF Starts
<1>3. Base(P) + 1 .. Len(Unsigned(P)) = {}
  BY <1>1
<1> QED
  BY <1>1, <1>2, <1>3 DEF SignTail, Tidy

\* A file that was cut off is as tidy as it was, and so it is when the cut is inside
\* a key or a signature.
LEMMA PieceTidy ==
  ASSUME NEW f \in File, NEW P \in File, Tidy(f, P), NEW g \in File, Len(g) <= Len(f),
         \A i \in 1 .. Len(g) : g[i] = f[i] \/ (i = Len(g) /\ i > Base(P) /\ g[i] = Torn)
  PROVE  Tidy(g, P)
<1>1. /\ Len(f) \in Nat /\ End(P) \in Nat /\ Base(P) = End(P) + 2
      /\ Len(g) \in Nat /\ \A i \in 1 .. Len(g) : i \in 1 .. Len(f)
  BY EndFacts DEF File
<1>2. \A i \in 1 .. Len(g) : i <= Base(P) \/ i < Len(g) => g[i] = f[i]
  BY <1>1
<1>3. Starts(g, P)
  BY <1>1, <1>2 DEF Starts, Tidy
<1>4. ASSUME NEW i \in Base(P) + 1 .. Len(g) PROVE g[i] \in {0, Torn} \/ EntryCell(g, P, i)
  <2>1. i \in 1 .. Len(g) /\ i \in Base(P) + 1 .. Len(f) /\ Base(P) \in Nat
    BY <1>1
  <2>2. f[i] \in {0, Torn} \/ EntryCell(f, P, i)
    BY <2>1 DEF Tidy, SignTail
  <2>3. g[i] = f[i] \/ g[i] = Torn
    BY <2>1
  <2>4. (i - Base(P) - 1) % EntryLen = 3 => g[i - 2] = f[i - 2]
    <3>1. SUFFICES ASSUME (i - Base(P) - 1) % EntryLen = 3 PROVE g[i - 2] = f[i - 2]
      OBVIOUS
    <3>2. i - 2 \in Base(P) + 1 .. Len(g)
      BY <1>1, <2>1, <3>1, SlotLast
    <3>3. i - 2 \in 1 .. Len(g) /\ i - 2 < Len(g)
      BY <1>1, <3>2
    <3> QED
      BY <1>2, <3>3
  <2> QED
    BY <2>2, <2>3, <2>4 DEF EntryCell
<1>5. SignTail(g, P)
  <2>1. /\ Len(g) > End(P) => g[End(P) + 1] = f[End(P) + 1] /\ Len(f) > End(P)
        /\ Len(g) > End(P) + 1 => g[End(P) + 2] = f[End(P) + 2] /\ Len(f) > End(P) + 1
    BY <1>1, <1>2
  <2> QED
    BY <1>4, <2>1 DEF SignTail, Tidy
<1> QED
  BY <1>3, <1>5 DEF Tidy

LEMMA CutTidy ==
  ASSUME NEW f \in File, NEW P \in File, Tidy(f, P), NEW n \in 0 .. Len(f)
  PROVE  SubSeq(f, 1, n) \in File /\ Tidy(SubSeq(f, 1, n), P) /\ Len(SubSeq(f, 1, n)) = n
<1> DEFINE g == SubSeq(f, 1, n)
<1>1. Len(f) \in Nat /\ f \in Seq(Nat) /\ n \in Nat
  BY DEF File
<1>2. g \in File /\ Len(g) = n /\ n <= Len(f)
  BY <1>1 DEF File
<1>3. \A i \in 1 .. n : g[i] = f[i]
  BY <1>1
<1> HIDE DEF g
<1>5. \A i \in 1 .. Len(g) : g[i] = f[i] \/ (i = Len(g) /\ i > Base(P) /\ g[i] = Torn)
  BY <1>2, <1>3
<1>4. Tidy(g, P)
  BY <1>2, <1>5, PieceTidy
<1> QED
  BY <1>2, <1>4 DEF g


\* No SIGN chunk is found in a file whose DDFB chunk is not complete.
LEMMA SignCut ==
  ASSUME NEW f \in File, NEW P \in File, Starts(f, P), Len(f) <= End(P)
  PROVE  GetChunkRef(f, Len(f), Header, SIGN) = NoChunk
<1>1. /\ Len(f) \in Nat /\ End(P) \in Nat /\ End(P) = 4 + Len(P) /\ End(P) >= 4
      /\ DDFB # 0 /\ DDFB # SIGN
  BY EndFacts, UnsignedFacts, TagAssumption
<1>2. /\ Len(f) >= 3 => f[3] = DDFB
      /\ Len(f) >= 4 => f[4] = Len(P)
  <2>1. \A i \in {3, 4} : Len(f) >= i => f[i] = Unsigned(P)[i]
    BY <1>1 DEF Starts
  <2> QED
    BY <2>1, UnsignedFacts
<1>3. CASE Len(f) <= 2
  BY <1>1, <1>3, ChunkRefStep DEF Header
<1>4. CASE Len(f) > 2
  <2>1. Get(f, Len(f), 2) = DDFB /\ Get(f, Len(f), 3) = IF Len(f) > 3 THEN Len(P) ELSE 0
    BY <1>1, <1>2, <1>4 DEF Get
  <2>2. After(f, Len(f), 2) \in Nat /\ After(f, Len(f), 2) >= Len(f)
    BY <1>1, <1>4, <2>1 DEF After, Header
  <2>3. GetChunkRef(f, Len(f), After(f, Len(f), 2), SIGN) = NoChunk
    BY <1>1, <2>2, ChunkRefStep
  <2>4. GetChunkRef(f, Len(f), 2, SIGN) = GetChunkRef(f, Len(f), After(f, Len(f), 2), SIGN)
    BY <1>1, <1>4, <2>1, ChunkRefStep
  <2> QED
    BY <2>3, <2>4 DEF Header
<1> QED
  BY <1>1, <1>3, <1>4

\* The entries of a file that is tidy are in line, and verify or lack a signature.
LEMMA TidyEntries ==
  ASSUME NEW f \in File, NEW P \in File, Tidy(f, P), NEW p \in EntryPositions(f)
  PROVE  /\ p \in Nat /\ p >= Base(P) /\ p + EntryLen <= Len(f)
         /\ (p - Base(P)) % EntryLen = 0
         /\ f[p + 1] = PubLen /\ f[p + 3] = SigLen
         /\ f[p + 4] \in {0, Torn} \/ Verifies(f[p + 4], f[p + 2], Signable(P))
<1> DEFINE c == GetChunkRef(f, Len(f), Header, SIGN)
<1>1. Len(f) \in Nat /\ End(P) \in Nat /\ Base(P) = End(P) + 2 /\ EntryLen = 4
  BY EndFacts DEF EntryLen
<1>2. /\ p \in c.offset .. c.offset + c.size - EntryLen
      /\ c.tag # 0 /\ p + EntryLen <= Len(f)
      /\ f[p + 1] = PubLen /\ f[p + 3] = SigLen
  BY DEF EntryPositions
<1>3. Len(f) > End(P)
  <2>1. NoChunk.tag = 0
    BY DEF NoChunk
  <2> QED
    BY <1>1, <1>2, <2>1, SignCut DEF Tidy
<1>4. c = [tag |-> SIGN, size |-> Get(f, Len(f), End(P) + 1),
           offset |-> IF End(P) + 1 < Len(f) THEN Base(P) ELSE End(P) + 1]
  BY <1>1, <1>3, TidySign
<1>5. Get(f, Len(f), End(P) + 1) \in Nat
  <2>1. End(P) + 1 \in Nat
    BY <1>1
  <2> QED
    BY <1>1, <2>1, GetType
<1>6. Len(f) > End(P) + 1
  <2>1. SUFFICES ASSUME Len(f) = End(P) + 1 PROVE FALSE
    BY <1>1, <1>3
  <2>2. c.size = 0 /\ c.offset = End(P) + 1
    BY <1>1, <1>4, <2>1 DEF Get
  <2> HIDE DEF c
  <2>3. c.offset .. c.offset + c.size - EntryLen = {}
    BY <1>1, <2>2
  <2> QED
    BY <1>2, <2>3
<1>7. p \in Nat /\ p >= Base(P) /\ p + 4 <= Len(f)
  BY <1>1, <1>2, <1>4, <1>5, <1>6
<1> HIDE DEF c
<1>8. /\ PubLen # 0 /\ SigLen # 0 /\ PubLen # SigLen /\ Torn # PubLen /\ Torn # SigLen
      /\ \A k \in Keys : PubKey(k) # PubLen /\ PubKey(k) # SigLen
  BY LenAssumption, CellAssumption
<1>9. \A i \in p + 1 .. p + 4 : f[i] \in {0, Torn} \/ EntryCell(f, P, i)
  <2>1. \A i \in p + 1 .. p + 4 : i \in Base(P) + 1 .. Len(f)
    BY <1>1, <1>7
  <2> QED
    BY <2>1 DEF Tidy, SignTail
<1> DEFINE k == (p - Base(P)) % 4
<1>10. k \in 0 .. 3
  BY <1>1, <1>7
<1>11. /\ (p + 1 - Base(P) - 1) % EntryLen = k
       /\ k = 0 => (p + 4 - Base(P) - 1) % EntryLen = 3
       /\ k = 3 => (p + 3 - Base(P) - 1) % EntryLen = 1
  <2> DEFINE d == p - Base(P)
  <2>1. d \in Nat /\ p + 1 - Base(P) - 1 = d /\ p + 4 - Base(P) - 1 = d + 3
        /\ p + 3 - Base(P) - 1 = d + 2
    BY SMTT(30), <1>1, <1>7
  <2>2. d % 4 = 0 => (d + 3) % 4 = 3
    BY <2>1
  <2>3. d % 4 = 3 => (d + 2) % 4 = 1
    BY <2>1
  <2> HIDE DEF d
  <2> QED
    BY <1>1, <2>1, <2>2, <2>3 DEF d
<1>12. EntryCell(f, P, p + 1) /\ EntryCell(f, P, p + 3)
  <2>1. p + 1 \in p + 1 .. p + 4 /\ p + 3 \in p + 1 .. p + 4
    BY <1>7
  <2> QED
    BY <1>2, <1>8, <1>9, <2>1
<1> HIDE DEF k
<1>13. k # 1
  <2>1. SUFFICES ASSUME k = 1 PROVE FALSE
    OBVIOUS
  <2> DEFINE i == p + 1
  <2>4. (i - Base(P) - 1) % EntryLen = 1
    BY <1>1, <1>7, <2>1 DEF k
  <2>5. EntryCell(f, P, i)
    BY <1>12
  <2>6. i \in Nat
    BY <1>7
  <2> HIDE DEF i
  <2>3. \E key \in Keys : f[i] = PubKey(key)
    BY <1>1, <2>4, <2>5, <2>6 DEF EntryCell
  <2> QED
    BY <1>2, <1>8, <2>3 DEF i
<1>17. k # 2
  <2>1. SUFFICES ASSUME k = 2 PROVE FALSE
    OBVIOUS
  <2> DEFINE i == p + 1
  <2>4. (i - Base(P) - 1) % EntryLen = 2
    BY <1>1, <1>7, <2>1 DEF k
  <2>5. EntryCell(f, P, i)
    BY <1>12
  <2>6. i \in Nat
    BY <1>7
  <2> HIDE DEF i
  <2>3. f[i] = SigLen
    BY <1>1, <2>4, <2>5, <2>6 DEF EntryCell
  <2> QED
    BY <1>2, <1>8, <2>3 DEF i
<1>14. k # 3
  <2>1. SUFFICES ASSUME k = 3 PROVE FALSE
    OBVIOUS
  <2>2. (p + 3 - Base(P) - 1) % EntryLen = 1
    BY <1>11, <2>1
  <2>3. \E key \in Keys : f[p + 3] = PubKey(key)
    BY <1>1, <1>7, <1>12, <2>2 DEF EntryCell
  <2> QED
    BY <1>2, <1>8, <2>3
<1>15. k = 0
  BY <1>10, <1>13, <1>14, <1>17
<1>16. f[p + 4] \in {0, Torn} \/ Verifies(f[p + 4], f[p + 2], Signable(P))
  <2>1. p + 4 \in p + 1 .. p + 4 /\ p + 4 - 2 = p + 2
    BY <1>7
  <2>2. f[p + 4] \in {0, Torn} \/ EntryCell(f, P, p + 4)
    BY <1>9, <2>1
  <2>3. EntryCell(f, P, p + 4) => Verifies(f[p + 4], f[p + 4 - 2], Signable(P))
    BY SMTT(30), <1>1, <1>7, <1>11, <1>15 DEF EntryCell
  <2> QED
    BY <2>1, <2>2, <2>3
<1> QED
  BY <1>1, <1>2, <1>7, <1>15, <1>16 DEF k


-----------------------------------------------------------------------------
(* Bundles that were not cut off: the entries reach to the end of the file  *)
(* and all of them are complete.                                            *)

Full(f, P) ==
  /\ Tidy(f, P)
  /\ Len(f) >= End(P)
  /\ Len(f) # End(P) => /\ Len(f) >= Base(P)
                        /\ f[Base(P)] = Len(f) - Base(P)
                        /\ \A i \in Base(P) + 1 .. Len(f) : EntryCell(f, P, i)

\* Where the entries of such a file are.
Slots(f, P) == {p \in Base(P) .. Len(f) - EntryLen : (p - Base(P)) % EntryLen = 0}

LEMMA UnsignedFull ==
  ASSUME NEW P \in File
  PROVE  Full(Unsigned(P), P) /\ Slots(Unsigned(P), P) = {}
<1>1. Unsigned(P) \in File /\ Len(Unsigned(P)) = End(P) /\ End(P) \in Nat /\ Base(P) = End(P) + 2
  BY UnsignedFacts, EndFacts
<1>2. Base(P) .. Len(Unsigned(P)) - EntryLen = {}
  BY <1>1 DEF EntryLen
<1> QED
  BY <1>1, <1>2, UnsignedTidy DEF Full, Slots

\* The cells of one entry.
LEMMA SlotCells ==
  ASSUME NEW f \in File, NEW P \in File, Full(f, P), NEW p \in Slots(f, P)
  PROVE  /\ p \in Nat /\ p >= Base(P) /\ p + 4 <= Len(f)
         /\ f[p + 1] = PubLen /\ f[p + 3] = SigLen
         /\ Verifies(f[p + 4], f[p + 2], Signable(P))
<1>1. Len(f) \in Nat /\ End(P) \in Nat /\ Base(P) = End(P) + 2 /\ EntryLen = 4
  BY EndFacts DEF EntryLen
<1>2. p \in Nat /\ p >= Base(P) /\ p + 4 <= Len(f) /\ (p - Base(P)) % 4 = 0
  BY <1>1 DEF Slots
<1>3. \A i \in Base(P) + 1 .. Len(f) : EntryCell(f, P, i)
  BY <1>1, <1>2 DEF Full
<1> DEFINE d == p - Base(P)
<1>4. d \in Nat /\ d % 4 = 0 /\ p = Base(P) + d
  BY <1>1, <1>2
<1>5. ASSUME NEW j \in 1 .. 4
      PROVE  /\ p + j \in Nat /\ ((p + j) - Base(P) - 1) % EntryLen = j - 1
             /\ EntryCell(f, P, p + j)
  <2>1. p + j \in Base(P) + 1 .. Len(f)
    BY <1>1, <1>2
  <2>2. (p + j) - Base(P) - 1 = d + (j - 1)
    BY <1>1, <1>2
  <2>3. (d + (j - 1)) % 4 = j - 1
    BY <1>4
  <2> HIDE DEF d
  <2> QED
    BY <1>1, <1>2, <1>3, <2>1, <2>2, <2>3
<1>6. ASSUME NEW i \in Nat, EntryCell(f, P, i), (i - Base(P) - 1) % EntryLen = 0
      PROVE  f[i] = PubLen
  BY <1>1, <1>6 DEF EntryCell
<1>7. ASSUME NEW i \in Nat, EntryCell(f, P, i), (i - Base(P) - 1) % EntryLen = 2
      PROVE  f[i] = SigLen
  BY <1>1, <1>7 DEF EntryCell
<1>8. ASSUME NEW i \in Nat, EntryCell(f, P, i), (i - Base(P) - 1) % EntryLen = 3
      PROVE  Verifies(f[i], f[i - 2], Signable(P))
  BY <1>1, <1>8 DEF EntryCell
<1>9. /\ p + 1 \in Nat /\ EntryCell(f, P, p + 1) /\ ((p + 1) - Base(P) - 1) % EntryLen = 0
      /\ p + 3 \in Nat /\ EntryCell(f, P, p + 3) /\ ((p + 3) - Base(P) - 1) % EntryLen = 2
      /\ p + 4 \in Nat /\ EntryCell(f, P, p + 4) /\ ((p + 4) - Base(P) - 1) % EntryLen = 3
  <2>1. 1 \in 1 .. 4 /\ 3 \in 1 .. 4 /\ 4 \in 1 .. 4 /\ 1 - 1 = 0 /\ 3 - 1 = 2 /\ 4 - 1 = 3
    OBVIOUS
  <2>2. p + 1 \in Nat /\ EntryCell(f, P, p + 1) /\ ((p + 1) - Base(P) - 1) % EntryLen = 1 - 1
    BY <1>5, <2>1
  <2>3. p + 3 \in Nat /\ EntryCell(f, P, p + 3) /\ ((p + 3) - Base(P) - 1) % EntryLen = 3 - 1
    BY <1>5, <2>1
  <2>4. p + 4 \in Nat /\ EntryCell(f, P, p + 4) /\ ((p + 4) - Base(P) - 1) % EntryLen = 4 - 1
    BY <1>5, <2>1
  <2> QED
    BY <2>1, <2>2, <2>3, <2>4
<1>10. f[p + 1] = PubLen /\ f[p + 3] = SigLen /\ Verifies(f[p + 4], f[(p + 4) - 2], Signable(P))
  <2>1. f[p + 1] = PubLen
    BY <1>6, <1>9, Zenon
  <2>2. f[p + 3] = SigLen
    BY <1>7, <1>9, Zenon
  <2>3. Verifies(f[p + 4], f[(p + 4) - 2], Signable(P))
    BY <1>8, <1>9, Zenon
  <2> QED
    BY <2>1, <2>2, <2>3
<1>11. (p + 4) - 2 = p + 2
  BY <1>2
<1> QED
  BY <1>2, <1>10, <1>11

LEMMA FullEntries ==
  ASSUME NEW f \in File, NEW P \in File, Full(f, P)
  PROVE  EntryPositions(f) = Slots(f, P)
<1>1. Len(f) \in Nat /\ End(P) \in Nat /\ Base(P) = End(P) + 2 /\ EntryLen = 4
  BY EndFacts DEF EntryLen
<1>2. ASSUME NEW p \in EntryPositions(f) PROVE p \in Slots(f, P)
  BY <1>1, TidyEntries DEF Full, Slots
<1>3. ASSUME NEW p \in Slots(f, P) PROVE p \in EntryPositions(f)
  <2>1. /\ p \in Nat /\ p >= Base(P) /\ p + 4 <= Len(f)
        /\ f[p + 1] = PubLen /\ f[p + 3] = SigLen
    BY SlotCells
  <2>2. Len(f) > Base(P) /\ f[Base(P)] = Len(f) - Base(P)
    BY <1>1, <2>1 DEF Full
  <2>3. GetChunkRef(f, Len(f), Header, SIGN) =
          [tag |-> SIGN, size |-> Get(f, Len(f), End(P) + 1), offset |-> Base(P)]
    BY <1>1, <2>2, TidySign DEF Full
  <2>4. Get(f, Len(f), End(P) + 1) = Len(f) - Base(P)
    BY <1>1, <2>2 DEF Get
  <2>5. p \in Base(P) .. Base(P) + (Len(f) - Base(P)) - EntryLen
    BY <1>1, <2>1
  <2>6. SIGN # 0
    BY TagAssumption
  <2> QED
    BY <1>1, <2>1, <2>3, <2>4, <2>5, <2>6 DEF EntryPositions
<1> QED
  BY <1>2, <1>3

\* The signers of such a file are those whose key stands in an entry.
LEMMA FullSigners ==
  ASSUME NEW f \in File, NEW P \in File, Full(f, P), NEW key \in Keys
  PROVE  key \in SignersOf(f) <=> \E p \in Slots(f, P) : f[p + 2] = PubKey(key)
<1>1. RegionOf(f) = Signable(P)
  BY WholeRegion DEF Full, Tidy, Whole
<1>2. \A p \in Slots(f, P) : Verifies(f[p + 4], f[p + 2], RegionOf(f))
  BY <1>1, SlotCells
<1> QED
  BY <1>2, FullEntries DEF SignersOf, EntriesOf

\* A signature is added behind the entries, which stay where they are.
LEMMA AppendFull ==
  ASSUME NEW f \in File, NEW P \in File, Full(f, P),
         NEW key \in Keys, Signature(key, Signable(P)) \in Nat
  PROVE  LET g == ECC_AppendSignature(f, key, Signable(P))
             e == IF Len(f) = End(P) THEN Base(P) ELSE Len(f)
         IN  /\ g \in File /\ Full(g, P)
             /\ Slots(g, P) = Slots(f, P) \cup {e} /\ e \notin Slots(f, P)
             /\ \A p \in Slots(f, P) : g[p + 2] = f[p + 2]
             /\ g[e + 2] = PubKey(key)
<1> DEFINE g     == ECC_AppendSignature(f, key, Signable(P))
           n     == Declared(f, P)
           e     == IF Len(f) = End(P) THEN Base(P) ELSE Len(f)
           entry == Base(P) + n
           fits  == entry + EntryLen <= Room(f)
           cell(i) == IF i = Header /\ fits THEN Len(g) - Header
                      ELSE IF i = Base(P) /\ fits THEN n + EntryLen
                      ELSE IF i = End(P) + 1 THEN SIGN
                      ELSE IF i > entry /\ i <= Room(f) THEN Entry(key, Signable(P))[i - entry]
                      ELSE Get(f, Room(f), i - 1)
<1>1. /\ Len(f) \in Nat /\ Room(f) \in Nat /\ Room(f) >= Len(f) + 6
      /\ End(P) \in Nat /\ End(P) >= 4 /\ Base(P) = End(P) + 2
      /\ EntryLen = 4 /\ Header = 2
  BY EndFacts, UnsignedFacts DEF EntryLen, Header
<1>2. Tidy(f, P) /\ Len(f) >= End(P) /\ (Len(f) # End(P) => Len(f) >= Base(P))
  BY DEF Full
<1>3. g \in File /\ Tidy(g, P) /\ Len(g) >= End(P)
  BY <1>2, AppendTidy
<1>8. e \in Nat /\ e >= Base(P) /\ (Len(f) # End(P) => e = Len(f)) /\ e <= Len(f) + 2
  BY <1>1, <1>2
<1>4. n \in Nat /\ n = e - Base(P) /\ n % 4 = 0
  <2>1. CASE Len(f) = End(P)
    <3>1. n = 0
      BY <1>1, <1>2, <2>1, AppendCells
    <3> QED
      BY <1>1, <2>1, <3>1
  <2>2. CASE Len(f) # End(P)
    <3>1. n = f[Base(P)] /\ f[Base(P)] = Len(f) - Base(P)
      BY <1>1, <1>2, <2>2 DEF Full, Declared, Get
    <3>2. f[Base(P)] % 4 = 0
      <4>1. f[End(P) + 2] % EntryLen = 0
        BY <1>1, <1>2, <2>2 DEF Tidy, SignTail
      <4> QED
        BY <1>1, <4>1
    <3> HIDE DEF n
    <3> QED
      BY <1>1, <1>2, <2>2, <3>1, <3>2
  <2> QED
    BY <2>1, <2>2
<1> HIDE DEF e
<1>17. entry = e
  BY <1>1, <1>4, <1>8
<1>5. fits
  BY <1>1, <1>8, <1>17
<1>6. Len(g) = e + 4
  <2>1. Len(g) = entry + EntryLen
    BY <1>2, <1>5, AppendCells
  <2> QED
    BY <1>1, <1>17, <2>1
<1>7. ASSUME NEW i \in 1 .. Len(g) PROVE g[i] = cell(i)
  BY <1>2, AppendCells
<1> HIDE DEF g, n
<1> DEFINE len == Len(g)
           b   == Base(P)
<1>18. len = e + 4
  BY <1>6
<1>19. /\ b \in Nat /\ b >= 6 /\ n \in Nat /\ e = b + n /\ e \in Nat /\ len = b + n + 4 /\ len \in Nat
       /\ End(P) = b - 2
  <2>1. b \in Nat /\ b >= 6 /\ End(P) = b - 2
    BY <1>1
  <2>2. n \in Nat /\ n = e - b /\ e \in Nat
    BY <1>4, <1>8
  <2> HIDE DEF len, b
  <2> QED
    BY <1>18, <2>1, <2>2
<1> HIDE DEF len, b
<1>9. ASSUME NEW i \in Nat, i > Base(P), i <= Len(f) PROVE g[i] = f[i]
  <2>1. i \in 1 .. len /\ e = Len(f) /\ ~(i > entry)
        /\ i # Header /\ i # Base(P) /\ i # End(P) + 1
    BY <1>1, <1>8, <1>9, <1>17, <1>18
  <2>2. g[i] = Get(f, Room(f), i - 1)
    <3>1. g[i] = cell(i)
      BY <1>7, <2>1 DEF len
    <3> HIDE DEF entry, fits
    <3> QED
      BY <2>1, <3>1
  <2> QED
    BY <1>1, <1>9, <2>2 DEF Get
<1>10. ASSUME NEW j \in 1 .. 4 PROVE g[e + j] = Entry(key, Signable(P))[j]
  <2>1. e + j \in 1 .. len /\ e + j > entry /\ e + j <= Room(f) /\ (e + j) - entry = j
        /\ e + j # Header /\ e + j # Base(P) /\ e + j # End(P) + 1
    BY <1>1, <1>5, <1>8, <1>17, <1>18
  <2>2. g[e + j] = cell(e + j)
    BY <1>7, <2>1 DEF len
  <2> HIDE DEF entry, fits
  <2> QED
    BY <2>1, <2>2
<1>11. g[Base(P)] = Len(g) - Base(P) /\ Len(g) >= Base(P) /\ Len(g) # End(P)
  <2>1. /\ b \in 1 .. len /\ b # 2 /\ n + 4 = len - b
        /\ len >= b /\ len # End(P)
    BY <1>19
  <2>2. g[Base(P)] = cell(Base(P))
    BY <1>7, <2>1 DEF len, b
  <2>3. cell(Base(P)) = n + EntryLen
    BY <1>1, <1>5, <2>1 DEF b
  <2> QED
    BY <1>1, <2>1, <2>2, <2>3 DEF len, b
<1>12. ASSUME NEW i \in Base(P) + 1 .. len PROVE EntryCell(g, P, i)
  <2>0. i \in Nat /\ i > Base(P)
    BY <1>1
  <2>1. CASE i > e
    <3> DEFINE m == i - e
    <3>1. m \in 1 .. EntryLen /\ i = Base(P) + n + m /\ n % EntryLen = 0
      BY SMTT(30), <1>1, <1>4, <1>8, <1>18, <2>1
    <3>2. \A j \in 1 .. m : j \in 1 .. 4 /\ b + n + j = e + j
      BY <1>1, <1>19, <3>1
    <3>3. \A j \in 1 .. m : g[Base(P) + n + j] = Entry(key, Signable(P))[j]
      BY <1>10, <3>2 DEF b
    <3> HIDE DEF m
    <3> QED
      BY <1>4, <3>1, <3>3, EntryFits
  <2>2. CASE ~(i > e)
    <3>1. i <= Len(f) /\ Len(f) # End(P)
      BY <1>1, <1>2, <1>8, <2>0, <2>2
    <3>2. EntryCell(f, P, i)
      BY <1>1, <2>0, <3>1 DEF Full
    <3>3. g[i] = f[i]
      BY <1>9, <2>0, <3>1
    <3>4. (i - Base(P) - 1) % EntryLen = 3 => g[i - 2] = f[i - 2]
      <4>1. SUFFICES ASSUME (i - Base(P) - 1) % EntryLen = 3 PROVE g[i - 2] = f[i - 2]
        OBVIOUS
      <4>2. i - 2 \in Base(P) + 1 .. len
        BY SMTT(30), <1>1, <1>8, <1>18, <4>1, SlotLast
      <4>3. i - 2 \in Nat /\ i - 2 > Base(P) /\ i - 2 <= Len(f)
        BY <1>1, <2>0, <3>1, <4>2
      <4> QED
        BY <1>9, <4>3
    <3> QED
      BY <3>2, <3>3, <3>4 DEF EntryCell
  <2> QED
    BY <2>1, <2>2
<1>13. Full(g, P)
  BY <1>3, <1>11, <1>12 DEF Full, len
<1>14. Slots(g, P) = Slots(f, P) \cup {e} /\ e \notin Slots(f, P)
  <2>1. Slots(g, P) = {p \in Base(P) .. e : (p - Base(P)) % 4 = 0}
    BY <1>1, <1>8, <1>18 DEF Slots, len
  <2>2. Slots(f, P) = {p \in Base(P) .. Len(f) - 4 : (p - Base(P)) % 4 = 0}
    BY <1>1 DEF Slots
  <2>3. e \in Slots(g, P) /\ e \notin Slots(f, P)
    BY <1>1, <1>4, <1>8, <2>1, <2>2
  <2>4. ASSUME NEW p \in Slots(f, P) PROVE p \in Slots(g, P)
    BY <1>1, <1>2, <1>8, <2>1, <2>2
  <2>5. ASSUME NEW p \in Slots(g, P), p # e PROVE p \in Slots(f, P)
    <3> DEFINE c == p - b
    <3>1. p \in b .. e /\ c % 4 = 0
      BY <2>1 DEF b
    <3>2. c \in Nat /\ c < n /\ p = b + c
      BY <1>19, <2>5, <3>1
    <3> HIDE DEF c
    <3>3. c + 4 <= n
      BY <1>4, <3>1, <3>2
    <3>4. e = Len(f)
      BY <1>1, <1>4, <1>8, <3>2, <3>3 DEF e
    <3>5. p \in b .. Len(f) - 4 /\ p - b = c
      <4>1. p \in Nat /\ b <= p /\ p <= e - 4 /\ e - 4 \in Int /\ p - b = c
        BY <1>19, <3>2, <3>3
      <4> QED
        BY <1>19, <3>4, <4>1
    <3> QED
      BY <2>2, <3>1, <3>5 DEF b
  <2> QED
    BY <2>3, <2>4, <2>5
<1>15. ASSUME NEW p \in Slots(f, P) PROVE g[p + 2] = f[p + 2]
  <2>1. p + 2 \in Nat /\ p + 2 > Base(P) /\ p + 2 <= Len(f)
    BY <1>1 DEF Slots
  <2> QED
    BY <1>9, <2>1
<1>16. g[e + 2] = PubKey(key)
  BY <1>10 DEF Entry
<1> QED
  BY <1>3, <1>13, <1>14, <1>15, <1>16 DEF g, e

\* Its signers are the old ones and the new one.
LEMMA AppendSigners ==
  ASSUME NEW f \in File, NEW P \in File, Full(f, P),
         NEW key \in Keys, Signature(key, Signable(P)) \in Nat
  PROVE  SignersOf(ECC_AppendSignature(f, key, Signable(P))) = SignersOf(f) \cup {key}
<1> DEFINE g == ECC_AppendSignature(f, key, Signable(P))
           e == IF Len(f) = End(P) THEN Base(P) ELSE Len(f)
<1>1. /\ g \in File /\ Full(g, P)
      /\ Slots(g, P) = Slots(f, P) \cup {e}
      /\ \A p \in Slots(f, P) : g[p + 2] = f[p + 2]
      /\ g[e + 2] = PubKey(key)
  BY AppendFull
<1> HIDE DEF g, e
<1>2. \A k \in Keys : k \in SignersOf(g) <=> k \in SignersOf(f) \/ k = key
  <2> SUFFICES ASSUME NEW k \in Keys
               PROVE  k \in SignersOf(g) <=> k \in SignersOf(f) \/ k = key
    OBVIOUS
  <2>1. k \in SignersOf(g) <=> \E p \in Slots(g, P) : g[p + 2] = PubKey(k)
    BY <1>1, FullSigners
  <2>2. k \in SignersOf(f) <=> \E p \in Slots(f, P) : f[p + 2] = PubKey(k)
    BY FullSigners
  <2>3. PubKey(key) = PubKey(k) <=> k = key
    BY LenAssumption
  <2> QED
    BY <1>1, <2>1, <2>2, <2>3
<1>3. SignersOf(g) \subseteq Keys /\ SignersOf(f) \subseteq Keys
  BY DEF SignersOf
<1> QED
  BY <1>2, <1>3 DEF g

-----------------------------------------------------------------------------
(* ECC_FindSignature: its scan is a recursive function as well.             *)

ScanStep(f, key, region, end, s, p) ==
  /\ p < end
  /\ Get(f, Len(f), p) = PubLen /\ Get(f, Len(f), p + 2) = SigLen
  /\ \/ /\ Get(f, Len(f), p + 1) = PubKey(key)
        /\ Verifies(Get(f, Len(f), p + 3), PubKey(key), region)
     \/ /\ p + EntryLen <= Len(f)
        /\ s[p + EntryLen]

IsScan(f, key, region, end, s, n) ==
  s = [p \in n .. Len(f) |-> ScanStep(f, key, region, end, s, p)]

Scan(f, key, region, end) == CHOOSE s : IsScan(f, key, region, end, s, 0)

LEMMA ScanExists ==
  ASSUME NEW f \in File, NEW key, NEW region, NEW end
  PROVE  \E s : IsScan(f, key, region, end, s, 0)
<1> DEFINE N    == Len(f)
           T    == {n \in 0 .. N + 1 : \E s : IsScan(f, key, region, end, s, n)}
           Step(s, p) == ScanStep(f, key, region, end, s, p)
<1>0. N \in Nat /\ EntryLen = 4
  BY DEF File, EntryLen
<1>1. N + 1 \in T
  <2> DEFINE v == [p \in {} |-> 0]
  <2>1. (N + 1) .. N = {}
    BY <1>0
  <2>2. v = [p \in (N + 1) .. N |-> Step(v, p)]
    BY <2>1
  <2>3. IsScan(f, key, region, end, v, N + 1)
    BY <2>2 DEF IsScan
  <2> QED
    BY <1>0, <2>3
<1>2. PICK m \in T : \A n \in T : m <= n
  <2>1. T \in SUBSET Nat /\ T # {}
    BY <1>0, <1>1
  <2> HIDE DEF T
  <2> QED
    BY <2>1, Smallest
<1>3. SUFFICES ASSUME m # 0 PROVE FALSE
  BY <1>2
<1>4. PICK w : IsScan(f, key, region, end, w, m)
  BY <1>2
<1> DEFINE k == m - 1
           v == [p \in k .. N |-> IF p = k THEN Step(w, p) ELSE w[p]]
<1>5. m \in Nat /\ k \in 0 .. N /\ k < m /\ m <= N + 1
  BY <1>0, <1>2, <1>3
<1>6. ASSUME NEW p \in k .. N
      PROVE  v[p] = Step(v, p)
  <2>1. p \in Nat /\ p + EntryLen \in Nat /\ p + EntryLen >= m
    BY <1>0, <1>5
  <2>2. p + EntryLen <= N => v[p + EntryLen] = w[p + EntryLen]
    BY <1>0, <2>1, <1>5
  <2>3. Step(v, p) = Step(w, p)
    <3> HIDE DEF v
    <3> QED
      BY <2>1, <2>2 DEF ScanStep
  <2>4. CASE p = k
    BY <2>3, <2>4
  <2>5. CASE p # k
    <3>1. p \in m .. N
      BY <1>0, <1>5, <2>5
    <3>2. w[p] = Step(w, p)
      BY <3>1, <1>4 DEF IsScan
    <3> QED
      BY <2>3, <2>5, <3>2
  <2> QED
    BY <2>4, <2>5
<1>7. IsScan(f, key, region, end, v, k)
  BY <1>6 DEF IsScan
<1>8. k \in T
  BY <1>0, <1>5, <1>7
<1> QED
  BY <1>2, <1>5, <1>8

\* Numbers a whole number of entries apart.
LEMMA Fours ==
  ASSUME NEW x \in Nat, NEW y \in Nat, x % 4 = 0, y % 4 = 0, x > y
  PROVE  x >= y + 4 /\ (x - y) % 4 = 0 /\ x - 4 \in Nat /\ (x - 4) % 4 = 0
<1>1. PICK a \in Nat : x = 4 * a
  <2>1. x \div 4 \in Nat /\ x = 4 * (x \div 4)
    OBVIOUS
  <2> QED
    BY <2>1
<1>2. PICK b \in Nat : y = 4 * b
  <2>1. y \div 4 \in Nat /\ y = 4 * (y \div 4)
    OBVIOUS
  <2> QED
    BY <2>1
<1>3. a > b
  BY <1>1, <1>2
<1> QED
  BY <1>1, <1>2, <1>3

\* In a bundle that was not cut, it finds the entry of a key if there is one.
LEMMA FindFull ==
  ASSUME NEW f \in File, NEW P \in File, Full(f, P), NEW key \in Keys
  PROVE  ECC_FindSignature(f, key, Signable(P)) <=> key \in SignersOf(f)
<1> DEFINE c   == GetChunkRef(f, Len(f), Header, SIGN)
           end == c.offset + c.size
           s   == Scan(f, key, Signable(P), end)
           Here(p) == f[p + 2] = PubKey(key)
<1>1. Len(f) \in Nat /\ End(P) \in Nat /\ Base(P) = End(P) + 2 /\ EntryLen = 4
  BY EndFacts DEF EntryLen
<1>2. s = [p \in 0 .. Len(f) |-> ScanStep(f, key, Signable(P), end, s, p)]
  BY ScanExists DEF Scan, IsScan
<1>3. ECC_FindSignature(f, key, Signable(P)) <=> c.tag # 0 /\ s[c.offset]
  BY DEF ECC_FindSignature, Scan, IsScan, ScanStep
<1>4. key \in SignersOf(f) <=> \E p \in Slots(f, P) : Here(p)
  BY FullSigners
<1> HIDE DEF s
<1>5. CASE Len(f) = End(P)
  <2>1. c = NoChunk
    BY <1>1, <1>5, TidySign DEF Full
  <2>2. Base(P) .. Len(f) - EntryLen = {}
    BY <1>1, <1>5
  <2> QED
    BY <1>3, <1>4, <2>1, <2>2 DEF NoChunk, Slots
<1>6. CASE Len(f) # End(P)
  <2>1. Len(f) >= Base(P) /\ f[Base(P)] = Len(f) - Base(P) /\ (Len(f) - Base(P)) % 4 = 0
    <3>1. f[End(P) + 2] % EntryLen = 0 /\ f[Base(P)] = Len(f) - Base(P) /\ Len(f) >= Base(P)
      BY <1>1, <1>6 DEF Full, Tidy, SignTail
    <3> QED
      BY <1>1, <3>1
  <2>2. Len(f) > End(P) + 1 /\ Get(f, Len(f), End(P) + 1) = Len(f) - Base(P)
    BY <1>1, <2>1 DEF Get
  <2>3. /\ c = [tag |-> SIGN, size |-> Len(f) - Base(P), offset |-> Base(P)]
        /\ c.tag # 0 /\ c.offset = Base(P)
    BY <1>1, <1>6, <2>2, TidySign, TagAssumption DEF Full
  <2>4. end = Len(f)
    <3>1. c.offset = Base(P) /\ c.size = Len(f) - Base(P)
      BY <2>3
    <3>2. Base(P) + (Len(f) - Base(P)) = Len(f) /\ end = c.offset + c.size
      BY <1>1
    <3> HIDE DEF c, end
    <3> QED
      BY <3>1, <3>2
  <2> HIDE DEF c, end
  <2>5. ASSUME NEW p \in Slots(f, P)
        PROVE  /\ p \in Nat /\ p + 4 <= Len(f)
               /\ s[p] <=> Here(p) \/ s[p + 4]
    <3>1. /\ p \in Nat /\ p >= Base(P) /\ p + 4 <= Len(f)
          /\ f[p + 1] = PubLen /\ f[p + 3] = SigLen
          /\ Verifies(f[p + 4], f[p + 2], Signable(P))
      BY SlotCells
    <3>2. /\ Get(f, Len(f), p) = PubLen /\ Get(f, Len(f), p + 1) = f[p + 2]
          /\ Get(f, Len(f), p + 2) = SigLen /\ Get(f, Len(f), p + 3) = f[p + 4]
      BY <1>1, <3>1 DEF Get
    <3>3. s[p] = ScanStep(f, key, Signable(P), end, s, p)
      <4>1. p \in 0 .. Len(f)
        BY <1>1, <3>1
      <4> QED
        BY <1>2, <4>1
    <3>4. p < end
      BY <1>1, <2>4, <3>1
    <3> QED
      BY <1>1, <3>1, <3>2, <3>3, <3>4 DEF ScanStep
  <2>6. ~s[Len(f)]
    BY <1>1, <1>2, <2>4 DEF ScanStep
  <2> DEFINE Found(p) == \E q \in Slots(f, P) : q >= p /\ Here(q)
             Bad(p) == ~(s[p] <=> Found(p))
             T == {n \in 0 .. Len(f) - Base(P) : n % 4 = 0 /\ Bad(Len(f) - n)}
  <2>7. T = {}
    <3> SUFFICES ASSUME T # {} PROVE FALSE
      OBVIOUS
    <3>1. PICK m \in T : \A n \in T : m <= n
      <4>1. T \in SUBSET Nat
        <5> HIDE DEF Bad
        <5> QED
          BY <1>1, <2>1
      <4> HIDE DEF T
      <4> QED
        BY <4>1, Smallest
    <3> DEFINE p == Len(f) - m
    <3>2. m \in Nat /\ m <= Len(f) - Base(P) /\ m % 4 = 0 /\ Bad(p)
      <4> HIDE DEF Bad
      <4> QED
        BY <1>1, <2>1, <3>1
    <3>3. p \in Nat /\ p >= Base(P) /\ p <= Len(f) /\ p = Len(f) - m
      BY <1>1, <2>1, <3>2
    <3>4. CASE m = 0
      <4>1. p = Len(f)
        BY <1>1, <3>4
      <4>2. ~Found(p)
        BY <1>1, <2>5, <4>1
      <4> QED
        BY <2>6, <3>2, <4>1, <4>2
    <3>5. CASE m # 0
      <4>1. m >= 4 /\ (m - 4) % 4 = 0 /\ m - 4 \in 0 .. Len(f) - Base(P)
        <5>1. m > 0 /\ 0 % 4 = 0
          BY <3>2, <3>5
        <5>2. m >= 0 + 4 /\ m - 4 \in Nat /\ (m - 4) % 4 = 0
          BY <3>2, <5>1, Fours
        <5> QED
          BY <1>1, <3>2, <5>2
      <4>2. m - 4 \notin T
        <5> HIDE DEF T
        <5> QED
          BY <1>1, <3>1, <3>2, <4>1
      <4>3. Len(f) - (m - 4) = p + 4
        BY <1>1, <3>2
      <4>4. ~Bad(p + 4)
        <5> HIDE DEF Bad, p
        <5> QED
          BY <4>1, <4>2, <4>3
      <4>5. p \in Slots(f, P)
        <5>1. p <= Len(f) - 4
          BY <1>1, <3>2, <4>1
        <5>2. (p - Base(P)) % 4 = 0
          <6> DEFINE L == Len(f) - Base(P)
          <6>1. L \in Nat /\ L % 4 = 0 /\ m <= L
            BY <1>1, <2>1, <3>2
          <6>3. p - Base(P) = L - m
            BY SMTT(30), <1>1, <2>1, <3>2
          <6> HIDE DEF L, p
          <6>2. (L - m) % 4 = 0
            <7>1. CASE L = m
              BY <3>2, <7>1
            <7>2. CASE L > m
              BY <3>2, <6>1, <7>2, Fours
            <7> QED
              BY <3>2, <6>1, <7>1, <7>2
          <6> QED
            BY <6>2, <6>3
        <5> HIDE DEF p
        <5> QED
          BY <1>1, <3>3, <5>1, <5>2 DEF Slots
      <4> HIDE DEF p
      <4>6. s[p] <=> Here(p) \/ s[p + 4]
        BY <2>5, <4>5
      <4>7. Found(p) <=> Here(p) \/ Found(p + 4)
        <5>1. ASSUME NEW q \in Slots(f, P), q >= p, q # p PROVE q >= p + 4
          <6> DEFINE x == q - Base(P)
                     y == p - Base(P)
          <6>1. /\ q \in Nat /\ q >= Base(P) /\ x % 4 = 0
                /\ p \in Nat /\ p >= Base(P) /\ y % 4 = 0
            BY <1>1, <4>5 DEF Slots
          <6>5. q \in Nat /\ q >= Base(P) /\ p \in Nat /\ p >= Base(P)
            BY <6>1
          <6>6. Base(P) \in Nat
            BY <1>1
          <6>4. q > p
            BY <5>1, <6>5
          <6>2. x \in Nat /\ y \in Nat /\ x > y
            <7>1. \A u, v, w \in Nat : v >= u /\ w > v =>
                    w - u \in Nat /\ v - u \in Nat /\ w - u > v - u
              OBVIOUS
            <7> QED
              BY <6>4, <6>5, <6>6, <7>1, Zenon
          <6>3. x >= y + 4
            <7> HIDE DEF x, y
            <7> QED
              BY <6>1, <6>2, Fours
          <6> QED
            BY <1>1, <6>1, <6>3
        <5>2. \A q \in Slots(f, P) : q \in Nat
          BY <2>5
        <5>3. p \in Nat
          BY <3>3
        <5> QED
          BY <4>5, <5>1, <5>2, <5>3
      <4> QED
        BY <3>2, <4>4, <4>6, <4>7 DEF p
    <3> QED
      BY <3>4, <3>5
  <2>8. ~Bad(Base(P))
    <3>1. Len(f) - Base(P) \in 0 .. Len(f) - Base(P) /\ Len(f) - (Len(f) - Base(P)) = Base(P)
      BY <1>1, <2>1
    <3> HIDE DEF Bad
    <3> QED
      BY <2>1, <2>7, <3>1
  <2>9. Found(Base(P)) <=> \E q \in Slots(f, P) : Here(q)
    BY <1>1 DEF Slots
  <2> QED
    BY <1>3, <1>4, <2>3, <2>8, <2>9
<1> QED
  BY <1>5, <1>6

-----------------------------------------------------------------------------
(* Types, for files of any content.                                        *)

\* What ECC_Sign hashes is a part of the file.
LEMMA RegionType ==
  ASSUME NEW f \in File, IsBundle(f)
  PROVE  RegionOf(f) \in Seq(Nat)
<1> DEFINE c == GetChunkRef(f, Room(f), Header, DDFB)
           z == [i \in 1 .. Extra |-> 0]
<1>1. Len(f) \in Nat /\ Room(f) \in Nat /\ Extra \in Nat /\ f \in Seq(Nat) /\ Header = 2
  BY RoomType, ExtraAssumption DEF File, Header
<1>2. NoChunk.tag = 0 /\ DDFB # 0
  BY TagAssumption DEF NoChunk
<1>3. Payload(f) = c /\ c # NoChunk /\ c.offset + c.size <= Len(f)
  <2> HIDE DEF c
  <2>1. Payload(f) = IF GetChunkRef(f, Room(f), 0, RIFF).tag = 0 \/ c.offset + c.size > Len(f)
                     THEN NoChunk ELSE c
    BY DEF Payload, c
  <2>2. Payload(f) # NoChunk
    BY <1>2 DEF IsBundle
  <2>3. c = NoChunk \/ (c.size \in Nat /\ c.offset \in Nat)
    BY <1>1, ChunkRefType DEF c
  <2> QED
    BY <1>1, <2>1, <2>2, <2>3
<1>4. c.size \in Nat /\ c.offset \in Nat /\ c.offset >= 3
  BY <1>1, <1>3, ChunkRefType
<1> HIDE DEF c
<1>5. z \in Seq(Nat) /\ Len(z) = Extra
  BY <1>1
<1>6. Padded(f) = f \o z
  BY DEF Padded
<1> HIDE DEF z
<1>7. f \o z \in Seq(Nat) /\ Len(f \o z) = Len(f) + Extra
  BY <1>1, <1>5, ConcatProperties
<1>8. \A s \in Seq(Nat) : \A m, n \in Nat : m >= 1 /\ n <= Len(s) => SubSeq(s, m, n) \in Seq(Nat)
  OBVIOUS
<1>9. /\ c.offset - Header + 1 \in Nat /\ c.offset - Header + 1 >= 1
      /\ c.offset + c.size \in Nat
  BY SMTT(30), <1>1, <1>4
<1>11. c.offset + c.size <= Len(f \o z)
  <2> DEFINE n == Len(f \o z)
  <2>1. n = Len(f) + Extra
    BY <1>7
  <2> HIDE DEF n
  <2> QED
    BY <1>1, <1>3, <1>9, <2>1 DEF n
<1>10. SubSeq(f \o z, c.offset - Header + 1, c.offset + c.size) \in Seq(Nat)
  BY <1>7, <1>8, <1>9, <1>11
<1> QED
  BY <1>3, <1>6, <1>10 DEF RegionOf, Region

LEMMA AppendType ==
  ASSUME NEW f \in File, NEW key \in Keys, NEW region, Signature(key, region) \in Nat
  PROVE  ECC_AppendSignature(f, key, region) \in File
<1> DEFINE sign   == GetChunkRef(f, Room(f), Header, SIGN)
           base   == GetChunkRef(f, Room(f), Header, DDFB)
           new    == sign.tag = 0
           offset == IF new THEN base.offset + base.size + Header ELSE sign.offset
           entry  == EntryStart(sign, offset)
           end    == entry + EntryLen
           fits   == end <= Room(f)
           last   == IF fits THEN end ELSE IF entry > Room(f) THEN entry ELSE Room(f)
           cell(i) == CASE fits /\ i = Header         -> Span(Header, end)
                        [] fits /\ i = offset         -> Span(offset, end)
                        [] ~fits /\ new /\ i = offset -> 0
                        [] new /\ i = offset - 1      -> SIGN
                        [] i > entry /\ i <= Room(f)  -> Entry(key, region)[i - entry]
                        [] OTHER                      -> Get(f, Room(f), i - 1)
<1>1. Room(f) \in Nat /\ Header = 2 /\ EntryLen = 4 /\ SIGN \in Nat \ {0}
  BY RoomType, TagAssumption DEF Header, EntryLen
<1>2. /\ NoChunk.tag = 0 /\ NoChunk.size = 0 /\ NoChunk.offset = 0
  BY DEF NoChunk
<1>3. ECC_AppendSignature(f, key, region) = [i \in 1 .. last |-> cell(i)]
  BY DEF ECC_AppendSignature
<1>4. sign.size \in Nat /\ sign.offset \in Nat
  BY <1>1, <1>2, ChunkRefType
<1>5. base.size \in Nat /\ base.offset \in Nat
  BY <1>1, <1>2, ChunkRefType
<1> HIDE DEF sign, base
<1>6. offset \in Nat /\ entry = offset + sign.size
  BY <1>1, <1>4, <1>5 DEF EntryStart
<1> HIDE DEF offset
<1>7. entry \in Nat /\ entry >= offset /\ end = entry + 4
  BY <1>1, <1>4, <1>6
<1> HIDE DEF entry
<1>8. last \in Nat /\ (~fits => entry + 4 > Room(f)) /\ (fits => last = entry + 4)
  BY <1>1, <1>7
<1>9. Span(Header, end) \in Nat /\ Span(offset, end) \in Nat
  BY <1>1, <1>6, <1>7 DEF Span
<1>10. \A j \in 1 .. 4 : Entry(key, region)[j] \in Nat
  BY LenAssumption DEF Entry
<1>11. ASSUME NEW i \in 1 .. last PROVE cell(i) \in Nat
  <2>1. i \in Nat /\ i - 1 \in Nat
    BY <1>8
  <2>2. Get(f, Room(f), i - 1) \in Nat
    BY <1>1, <2>1, GetType
  <2>3. i > entry /\ i <= Room(f) => Entry(key, region)[i - entry] \in Nat
    <3>1. i > entry /\ i <= Room(f) => i - entry \in 1 .. 4
      BY <1>1, <1>7, <1>8, <2>1
    <3> QED
      BY <1>10, <3>1
  <2> HIDE DEF fits, end, new
  <2> QED
    BY <1>1, <1>9, <2>2, <2>3
<1> HIDE DEF cell, last
<1>12. [i \in 1 .. last |-> cell(i)] \in [1 .. last -> Nat]
  BY <1>11
<1>13. \A m \in Nat : \A h \in [1 .. m -> Nat] : h \in Seq(Nat)
  OBVIOUS
<1> QED
  BY <1>3, <1>8, <1>12, <1>13 DEF File

=============================================================================
