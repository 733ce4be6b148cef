--------------------------- MODULE Signing_proofs ---------------------------
(***************************************************************************)
(* What the runs of "sign" and "create" never do, whatever the files, the  *)
(* number of processes and runs, the size of a block, and whether runs     *)
(* overlap, fail or are killed.                                            *)
(***************************************************************************)
EXTENDS Signing, Bundle_proofs

\* A signature is a cell like any other: 64 bytes, taken for one number.
SignatureNumbers == \A k \in Keys : \A r \in Seq(Nat) : Signature(k, r) \in Nat

LEMMA OverlayType ==
  ASSUME NEW f \in File, NEW off \in Nat, NEW cells \in File
  PROVE  Overlay(f, off, cells) \in File
<1> DEFINE end  == off + Len(cells)
           n    == IF end > Len(f) THEN end ELSE Len(f)
           c(i) == IF i \in off + 1 .. end THEN cells[i - off] ELSE Get(f, Len(f), i - 1)
<1>1. Len(f) \in Nat /\ Len(cells) \in Nat /\ n \in Nat
  BY DEF File
<1>2. ASSUME NEW i \in 1 .. n PROVE c(i) \in Nat
  <2>1. Get(f, Len(f), i - 1) \in Nat
    <3>1. i - 1 \in Nat
      BY <1>1
    <3> QED
      BY <1>1, <3>1, GetType
  <2>2. i \in off + 1 .. end => cells[i - off] \in Nat
    BY <1>1 DEF File
  <2> QED
    BY <2>1, <2>2
<1>3. Overlay(f, off, cells) = IF cells = <<>> THEN f ELSE [i \in 1 .. n |-> c(i)]
  BY DEF Overlay
<1> HIDE DEF n, c
<1>4. [i \in 1 .. n |-> c(i)] \in [1 .. n -> Nat]
  BY <1>2
<1>5. \A m \in Nat : \A h \in [1 .. m -> Nat] : h \in Seq(Nat)
  OBVIOUS
<1> QED
  BY <1>1, <1>3, <1>4, <1>5 DEF File

\* What fwrite writes at once is the beginning of the file.
LEMMA BlocksType ==
  ASSUME NEW f \in File
  PROVE  /\ Blocks(f) \in 0 .. Len(f)
         /\ Rest(f) \in File /\ Len(Rest(f)) = Len(f) - Blocks(f)
<1>1. Len(f) \in Nat /\ Block \in Nat \ {0} /\ f \in Seq(Nat)
  BY ProcAssumption DEF File
<1>2. \A n \in Nat, b \in Nat \ {0} : b * (n \div b) \in 0 .. n
  OBVIOUS
<1>3. Blocks(f) \in 0 .. Len(f)
  BY <1>1, <1>2 DEF Blocks
<1>4. Rest(f) \in Seq(Nat) /\ Len(Rest(f)) = Len(f) - Blocks(f)
  BY <1>1, <1>3 DEF Rest
<1> QED
  BY <1>3, <1>4 DEF File

\* A part of a file from its beginning.
LEMMA CutType ==
  ASSUME NEW f \in File, NEW n \in 0 .. Len(f)
  PROVE  SubSeq(f, 1, n) \in File /\ Len(SubSeq(f, 1, n)) = n
BY DEF File

\* The keys and signatures of a file are cells of it.
LEMMA FieldsIn ==
  ASSUME NEW d \in File, NEW i \in Fields(d)
  PROVE  i <= Len(d)
<1>1. PICK p \in EntryPositions(d), j \in {2, 4} : i = p + j
  BY DEF Fields
<1>2. p + 4 <= Len(d)
  BY DEF EntryPositions, EntryLen
<1> DEFINE c == GetChunkRef(d, Len(d), Header, SIGN)
<1>3. p \in c.offset .. c.offset + c.size - EntryLen /\ c.tag # 0
  BY DEF EntryPositions
<1>4. c.offset \in Nat /\ c.size \in Nat /\ Len(d) \in Nat
  <2>1. Header \in Nat /\ Len(d) \in Nat
    BY DEF Header, File
  <2>2. c = NoChunk \/ (c.offset \in Nat /\ c.size \in Nat)
    BY <2>1, ChunkRefType
  <2> QED
    BY <1>3, <2>1, <2>2 DEF NoChunk
<1> HIDE DEF c
<1>5. p \in Int
  BY <1>3, <1>4 DEF EntryLen
<1> QED
  BY <1>1, <1>2, <1>4, <1>5

\* What a write that is cut short brings on its way.
LEMMA PartsAre ==
  ASSUME NEW d \in File, NEW m \in 0 .. Len(d), NEW n \in m .. Len(d), NEW g \in Parts(d, m, n)
  PROVE  /\ g \in File /\ n <= m + Len(g) /\ m + Len(g) <= n + 1 /\ m + Len(g) <= Len(d)
         /\ \A i \in 1 .. Len(g) :
              IF m + i <= n THEN g[i] = d[m + i]
              ELSE i = Len(g) /\ m + i \in Fields(d) /\ g[i] = Torn
<1> DEFINE c == SubSeq(d, m + 1, n)
<1>1. Len(d) \in Nat /\ d \in Seq(Nat) /\ m \in Nat /\ n \in Nat /\ m <= n /\ n <= Len(d)
  BY DEF File
<1>2. c \in Seq(Nat) /\ Len(c) = n - m /\ \A i \in 1 .. n - m : c[i] = d[m + i]
  BY SMTT(30), <1>1
<1> HIDE DEF c
<1>3. CASE g = c
  BY SMTT(30), <1>1, <1>2, <1>3 DEF File
<1>4. CASE g # c
  <2>1. n + 1 \in Fields(d) /\ g = c \o <<Torn>>
    BY <1>4 DEF Parts, c
  <2>2. n + 1 <= Len(d)
    BY <2>1, FieldsIn
  <2> DEFINE t == <<Torn>>
             e == c \o t
  <2>3. t \in Seq(Nat) /\ Len(t) = 1 /\ t[1] = Torn
    BY CellAssumption
  <2> HIDE DEF t
  <2>4. /\ Len(e) = Len(c) + Len(t) /\ e \in Seq(Nat)
        /\ \A i \in 1 .. Len(c) + Len(t) : e[i] = IF i <= Len(c) THEN c[i] ELSE t[i - Len(c)]
    BY <1>2, <2>3, ConcatProperties
  <2>5. g = e
    BY <2>1 DEF t
  <2> HIDE DEF e
  <2>6. Len(e) = n - m + 1 /\ \A i \in 1 .. n - m + 1 : e[i] = IF i <= n - m THEN c[i] ELSE Torn
    <3>1. \A i \in 1 .. n - m + 1 : i <= n - m \/ i - Len(c) = 1
      BY <1>1, <1>2
    <3> QED
      BY <1>1, <1>2, <2>3, <2>4, <3>1
  <2>7. \A i \in 1 .. Len(g) : IF m + i <= n THEN g[i] = d[m + i]
                               ELSE i = Len(g) /\ m + i = n + 1 /\ g[i] = Torn
    <3>1. Len(g) = n - m + 1
      BY <2>5, <2>6
    <3> SUFFICES ASSUME NEW i \in 1 .. n - m + 1
                 PROVE  IF m + i <= n THEN g[i] = d[m + i]
                        ELSE i = n - m + 1 /\ m + i = n + 1 /\ g[i] = Torn
      BY <3>1
    <3>2. g[i] = IF i <= n - m THEN c[i] ELSE Torn
      BY <2>5, <2>6
    <3>3. CASE i <= n - m
      <4>1. i \in 1 .. n - m /\ m + i <= n
        BY <1>1, <3>3
      <4> QED
        BY <1>2, <3>2, <3>3, <4>1
    <3>4. CASE ~(i <= n - m)
      <4>1. i = n - m + 1 /\ m + i = n + 1 /\ ~(m + i <= n)
        BY <1>1, <3>4
      <4> QED
        BY <3>2, <3>4, <4>1
    <3> QED
      BY <3>3, <3>4
  <2>8. g \in File /\ Len(g) = n - m + 1
    BY <2>4, <2>5, <2>6 DEF File
  <2>9. n <= m + Len(g) /\ m + Len(g) <= n + 1 /\ m + Len(g) <= Len(d)
    BY <1>1, <2>2, <2>8
  <2>10. \A i \in 1 .. Len(g) : ~(m + i <= n) => m + i \in Fields(d)
    BY <2>1, <2>7
  <2> QED
    BY <2>7, <2>8, <2>9, <2>10
<1> QED
  BY <1>3, <1>4

LEMMA SizeType ==
  ASSUME NEW f \in File
  PROVE  /\ Size(f) \in Nat /\ Len(f) \in Nat
         /\ Size(f) = 2 * Len(f) \/ (Size(f) = 2 * Len(f) - 1 /\ Len(f) > 0 /\ f[Len(f)] = Torn)
<1>1. Len(f) \in Nat /\ (f # <<>> => Len(f) > 0)
  BY DEF File
<1> QED
  BY <1>1 DEF Size

\* What fread may take from the file.
LEMMA ReadableType ==
  ASSUME NEW p \in Procs, disk \in File, size[p] \in Nat, data[p] \in File
  PROVE  /\ Wanted(p) \in Nat /\ 2 * Wanted(p) \in {size[p], size[p] + 1}
         /\ BlockEnd(p) \in 0 .. Wanted(p)
         /\ \A i \in 1 .. BlockEnd(p) : 2 * i <= size[p] => i <= Len(disk)
         /\ Size(disk) >= size[p] /\ Len(data[p]) < Wanted(p) => Len(data[p]) < BlockEnd(p)
         /\ Size(disk) >= size[p] => \A i \in 1 .. Wanted(p) : 2 * i <= size[p] => i <= Len(disk)
<1> DEFINE s == size[p]
           z == Size(disk)
           l == Len(data[p])
<1>1. s \in Nat /\ z \in Nat /\ l \in Nat /\ Block \in Nat \ {0} /\ Len(disk) \in Nat /\ z <= 2 * Len(disk)
  BY SizeType, ProcAssumption DEF File
<1> HIDE DEF s, z, l
<1>2. (s + 1) \div 2 \in Nat /\ 2 * ((s + 1) \div 2) \in {s, s + 1}
  BY <1>1
<1>3. z \div 2 \in Nat /\ 2 * (z \div 2) \in {z, z - 1}
  BY <1>1
<1> DEFINE next == Block * (l \div Block + 1)
<1>4. next \in Nat /\ next > l
  <2>1. \A n \in Nat, b \in Nat \ {0} : b * (n \div b + 1) \in Nat /\ b * (n \div b + 1) > n
    OBVIOUS
  <2> QED
    BY <1>1, <2>1
<1> DEFINE r == IF z >= s THEN (s + 1) \div 2 ELSE z \div 2
<1>5. Wanted(p) = (s + 1) \div 2 /\ Readable(p) = r
  BY DEF Wanted, Readable, s, z
<1>6. BlockEnd(p) = IF next < r THEN next ELSE r
  BY <1>5 DEF BlockEnd, l
<1>7. r \in Nat /\ r <= (s + 1) \div 2
  BY <1>1, <1>2, <1>3
<1> HIDE DEF next
<1>8. ASSUME NEW i \in 1 .. r, 2 * i <= s PROVE i <= Len(disk)
  BY <1>1, <1>2, <1>3, <1>8
<1>9. z >= s => r = (s + 1) \div 2
  OBVIOUS
<1> HIDE DEF r
<1>10. BlockEnd(p) \in 0 .. Wanted(p) /\ BlockEnd(p) <= r
  BY <1>2, <1>4, <1>5, <1>6, <1>7
<1>11. z >= s /\ l < Wanted(p) => l < BlockEnd(p)
  BY <1>1, <1>2, <1>4, <1>5, <1>6, <1>9
<1>12. \A i \in 1 .. BlockEnd(p) : 2 * i <= s => i <= Len(disk)
  BY <1>7, <1>8, <1>10
<1>13. z >= s => \A i \in 1 .. Wanted(p) : 2 * i <= s => i <= Len(disk)
  BY <1>5, <1>8, <1>9
<1> QED
  BY <1>2, <1>5, <1>10, <1>11, <1>12, <1>13 DEF s, z, l

LEMMA ReadType ==
  ASSUME NEW p \in Procs, disk \in File, size[p] \in Nat, data[p] \in File
  PROVE  [i \in 1 .. BlockEnd(p) |->
            IF i \in DOMAIN data[p] THEN data[p][i] ELSE CellRead(p, i)] \in File
<1> DEFINE n == BlockEnd(p)
           c(i) == IF i \in DOMAIN data[p] THEN data[p][i] ELSE CellRead(p, i)
<1>1. n \in Nat /\ \A i \in 1 .. n : 2 * i <= size[p] => i <= Len(disk)
  BY ReadableType
<1> HIDE DEF n
<1>2. ASSUME NEW i \in 1 .. n PROVE c(i) \in Nat
  <2>1. i \in DOMAIN data[p] => data[p][i] \in Nat
    BY DEF File
  <2>2. CellRead(p, i) \in Nat
    BY SMTT(30), <1>1, CellAssumption DEF CellRead, File
  <2> QED
    BY <2>1, <2>2
<1> HIDE DEF c
<1>3. [i \in 1 .. n |-> c(i)] \in [1 .. n -> Nat]
  BY <1>2
<1>4. \A m \in Nat : \A h \in [1 .. m -> Nat] : h \in Seq(Nat)
  OBVIOUS
<1> QED
  BY <1>1, <1>3, <1>4 DEF File, n, c

-----------------------------------------------------------------------------
(* Types.                                                                  *)

\* Only signers read the file: the process that is at one of these steps has
\* a key.
SignersRead ==
  \A p \in Procs : pc[p] \in {"stat", "load", "read", "sign"} => p \in Signers

\* Nothing is read before the file is open.
Unread == \A p \in Procs : pc[p] \in {"idle", "stat", "load"} => data[p] = <<>>

TypeInv == TypeOK /\ SignersRead /\ Unread

LEMMA UnsignedType ==
  ASSUME NEW c \in Creators
  PROVE  PayloadOf[c] \in File /\ Unsigned(PayloadOf[c]) \in File
BY ProcAssumption, UnsignedFacts DEF File

\* The end of a run keeps the types of all that it changes.
LEMMA ExitType ==
  ASSUME TypeInv, NEW p \in Procs, NEW status \in {"ok", "fail", "killed"}, Exit(p, status)
  PROVE  /\ pc' \in [Procs -> Labels] /\ size' \in [Procs -> Nat]
         /\ data' \in [Procs -> Seq(Nat)] /\ code' \in [Procs -> {"none", "ok", "fail", "killed"}]
         /\ runs' \in [Procs -> 0 .. MaxRuns] /\ stale' \subseteq Signers
         /\ promised' \subseteq Keys /\ SignersRead' /\ Unread'
<1>1. promised' \subseteq Keys
  BY ProcAssumption DEF Exit, TypeInv, TypeOK
<1>2. data' \in [Procs -> Seq(Nat)]
  BY DEF Exit, TypeInv, TypeOK
<1> QED
  BY <1>1, <1>2 DEF Exit, Goto, TypeInv, TypeOK, Labels, SignersRead, Unread

LEMMA TypeInitial == Init => TypeInv
<1> SUFFICES ASSUME Init PROVE TypeInv
  OBVIOUS
<1>1. disk \in Seq(Nat)
  BY InitialAssumption DEF Init
<1>2. runs \in [Procs -> 0 .. MaxRuns] /\ data \in [Procs -> Seq(Nat)]
  BY ProcAssumption DEF Init
<1> QED
  BY <1>1, <1>2 DEF Init, TypeInv, TypeOK, SignersRead, Unread, Labels

LEMMA TypeStep == 
  ASSUME SignatureNumbers, TypeInv, [Next]_vars
  PROVE  TypeInv'
<1> USE DEF TypeInv, TypeOK, SignersRead, Unread
<1>1. ASSUME NEW p \in Procs, StartSign(p) PROVE TypeInv'
  BY <1>1, ProcAssumption DEF StartSign, Begin, Goto, Labels, hist
<1>2. ASSUME NEW p \in Procs, StartCreate(p) PROVE TypeInv'
  <2>1. data' \in [Procs -> Seq(Nat)]
    BY <1>2, UnsignedType DEF StartCreate, File
  <2>2. Unread'
    BY <1>2 DEF StartCreate, Begin, Goto
  <2>3. SignersRead'
    BY <1>2 DEF StartCreate, Begin, Goto
  <2> QED
    BY <1>2, <2>1, <2>2, <2>3, ProcAssumption DEF StartCreate, Begin, Goto, Labels, hist
<1>3. ASSUME NEW p \in Procs, StatBundle(p) PROVE TypeInv'
  <2>1. Size(disk) \in Nat
    BY SizeType DEF File
  <2> QED
    BY <1>3, <2>1 DEF StatBundle, Goto, Labels
<1>4. ASSUME NEW p \in Procs, OpenBundle(p) PROVE TypeInv'
  BY <1>4 DEF OpenBundle, Goto, Labels, hist
<1>5. ASSUME NEW p \in Procs, ReadBlock(p) PROVE TypeInv'
  <2>1. data' \in [Procs -> Seq(Nat)]
    BY <1>5, ReadType DEF ReadBlock, File
  <2> QED
    BY <1>5, <2>1 DEF ReadBlock, Goto, Labels, hist
<1>6. ASSUME NEW p \in Procs, LoadFails(p) PROVE TypeInv'
  <2>1. Exit(p, "fail") /\ UNCHANGED <<disk, raced, clash, mixed, fault>>
    BY <1>6 DEF LoadFails
  <2> QED
    BY <2>1, ExitType
<1>7. ASSUME NEW p \in Procs, RejectBundle(p) PROVE TypeInv'
  <2>1. Exit(p, "fail") /\ UNCHANGED <<disk, raced, clash, mixed, fault>>
    BY <1>7 DEF RejectBundle
  <2> QED
    BY <2>1, ExitType
<1>8. ASSUME NEW p \in Procs, SignaturePresent(p) PROVE TypeInv'
  <2>1. Exit(p, "ok") /\ UNCHANGED <<disk, raced, clash, mixed, fault>>
    BY <1>8 DEF SignaturePresent
  <2> QED
    BY <2>1, ExitType
<1>9. ASSUME NEW p \in Procs, AppendSignature(p) PROVE TypeInv'
  <2>1. p \in Signers /\ KeyOf[p] \in Keys /\ data[p] \in File
    BY <1>9, ProcAssumption DEF AppendSignature, File
  <2>2. Verdict(p).image \in Seq(Nat)
    <3>1. IsBundle(data[p])
      BY <1>9 DEF AppendSignature, Verdict, ECC_Sign, Outcome
    <3>2. Verdict(p).image = ECC_AppendSignature(data[p], KeyOf[p], RegionOf(data[p]))
      BY <1>9 DEF AppendSignature, Verdict, ECC_Sign, Outcome
    <3>3. Signature(KeyOf[p], RegionOf(data[p])) \in Nat
      BY <2>1, <3>1, RegionType DEF SignatureNumbers
    <3> QED
      BY <2>1, <3>2, <3>3, AppendType DEF File
  <2>3. data' \in [Procs -> Seq(Nat)]
    BY <1>9, <2>2 DEF AppendSignature
  <2> QED
    BY <1>9, <2>3 DEF AppendSignature, Goto, Labels, hist
<1>10. ASSUME NEW p \in Procs, OpenTruncates(p) PROVE TypeInv'
  BY <1>10 DEF OpenTruncates, Goto, Labels
<1>11. ASSUME NEW p \in Procs, WriteBlocks(p) PROVE TypeInv'
  <2>1. disk' \in Seq(Nat)
    <3>1. PICK part \in Parts(data[p], 0, Blocks(data[p])) : disk' = Overlay(disk, 0, part)
      BY <1>11 DEF WriteBlocks
    <3>2. data[p] \in File /\ 0 \in 0 .. Len(data[p])
      BY DEF File
    <3>3. Blocks(data[p]) \in 0 .. Len(data[p])
      BY <3>2, BlocksType
    <3>4. part \in File
      BY <3>2, <3>3, PartsAre
    <3> QED
      BY <3>1, <3>4, OverlayType DEF File
  <2> QED
    BY <1>11, <2>1 DEF WriteBlocks, Goto, Labels, hist
<1>12. ASSUME NEW p \in Procs, FlushAndExit(p) PROVE TypeInv'
  <2>1. disk' \in Seq(Nat)
    BY <1>12, OverlayType, BlocksType DEF FlushAndExit, File
  <2>2. Exit(p, "ok") /\ fault' \in BOOLEAN /\ UNCHANGED <<raced, clash, mixed>>
    BY <1>12 DEF FlushAndExit
  <2> QED
    BY <2>1, <2>2, ExitType
<1>13. ASSUME NEW p \in Procs, KeyFails(p) PROVE TypeInv'
  <2>1. Exit(p, "fail") /\ UNCHANGED <<disk, raced, clash, mixed, fault>>
    BY <1>13 DEF KeyFails
  <2> QED
    BY <2>1, ExitType
<1>14. ASSUME NEW p \in Procs, OpenFails(p) PROVE TypeInv'
  <2>1. Exit(p, WriteFailedStatus(p)) /\ fault' = TRUE /\ UNCHANGED <<disk, raced, clash, mixed>>
    BY <1>14 DEF OpenFails
  <2>2. WriteFailedStatus(p) \in {"ok", "fail", "killed"}
    BY DEF WriteFailedStatus
  <2> QED
    BY <2>1, <2>2, ExitType
<1>15. ASSUME NEW p \in Procs, WriteFails(p) PROVE TypeInv'
  <2>1. Exit(p, WriteFailedStatus(p)) /\ fault' = TRUE /\ UNCHANGED <<raced, clash, mixed>>
    BY <1>15 DEF WriteFails
  <2>2. WriteFailedStatus(p) \in {"ok", "fail", "killed"}
    BY DEF WriteFailedStatus
  <2>3. disk' \in Seq(Nat)
    <3>1. PICK n \in 0 .. Blocks(data[p]) - 1 :
            \E part \in Parts(data[p], 0, n) : disk' = Overlay(disk, 0, part)
      BY <1>15 DEF WriteFails
    <3>2. data[p] \in File /\ n \in 0 .. Len(data[p])
      <4>1. data[p] \in File /\ Blocks(data[p]) \in 0 .. Len(data[p]) /\ Len(data[p]) \in Nat
        BY BlocksType DEF File
      <4> QED
        BY <4>1
    <3>3. \A part \in Parts(data[p], 0, n) : part \in File
      <4>1. 0 \in 0 .. Len(data[p])
        BY <3>2 DEF File
      <4> QED
        BY <3>2, <4>1, PartsAre
    <3> QED
      BY <3>1, <3>3, OverlayType DEF File
  <2> QED
    BY <2>1, <2>2, <2>3, ExitType
<1>16. ASSUME NEW p \in Procs, FlushFails(p) PROVE TypeInv'
  <2>1. Exit(p, "ok") /\ fault' = TRUE /\ UNCHANGED <<raced, clash, mixed>>
    BY <1>16 DEF FlushFails
  <2>2. disk' \in Seq(Nat)
    <3> DEFINE b == Blocks(data[p])
    <3>1. PICK n \in b .. Len(data[p]) - 1 :
            \E part \in Parts(data[p], b, n) : disk' = Overlay(disk, b, part)
      BY <1>16 DEF FlushFails
    <3>2. data[p] \in File /\ b \in 0 .. Len(data[p]) /\ n \in b .. Len(data[p])
      <4>1. data[p] \in File /\ Len(data[p]) \in Nat
        BY DEF File
      <4>2. b \in 0 .. Len(data[p])
        BY <4>1, BlocksType
      <4> HIDE DEF b
      <4> QED
        BY <4>1, <4>2
    <3> HIDE DEF b
    <3>3. \A part \in Parts(data[p], b, n) : part \in File
      BY <3>2, PartsAre
    <3> QED
      BY <3>1, <3>2, <3>3, OverlayType DEF File
  <2> QED
    BY <2>1, <2>2, ExitType
<1>17. ASSUME NEW p \in Procs, Crash(p) PROVE TypeInv'
  <2>1. Exit(p, "killed") /\ fault' \in BOOLEAN /\ UNCHANGED <<disk, raced, clash, mixed>>
    BY <1>17 DEF Crash
  <2> QED
    BY <2>1, ExitType
<1>18. CASE UNCHANGED vars
  BY <1>18 DEF vars
<1> QED
  BY <1>1, <1>2, <1>3, <1>4, <1>5, <1>6, <1>7, <1>8, <1>9, <1>10, <1>11, <1>12, <1>13,
     <1>14, <1>15, <1>16, <1>17, <1>18 DEF Next, Advance, Trouble, Done

LEMMA TypeAlways == SignatureNumbers => (Spec => []TypeInv)
<1> SUFFICES ASSUME SignatureNumbers PROVE Spec => []TypeInv
  OBVIOUS
<1>1. TypeInv /\ [Next]_vars => TypeInv'
  BY TypeStep
<1> QED
  BY <1>1, TypeInitial, PTL DEF Spec

\* The variables keep their types.
THEOREM SigningTypes == SignatureNumbers => (Spec => []TypeOK)
<1>1. TypeInv => TypeOK
  BY DEF TypeInv
<1> QED
  BY <1>1, TypeAlways, PTL

-----------------------------------------------------------------------------
(* What is in the file and in the memory of the runs, as long as no two    *)
(* had the file open for writing together.                                 *)

\* The payloads a file may have.
Stored ==
  {SubSeq(f, 5, Len(f)) : f \in Initial} \cup {PayloadOf[c] : c \in Creators}

LEMMA StoredFacts ==
  ASSUME NEW P \in Stored
  PROVE  P \in File /\ Signable(P) \in Genuine /\ Signable(P) \in Seq(Nat)
<1>1. P \in File /\ RegionOf(Unsigned(P)) \in Genuine
  <2>1. CASE P \in {PayloadOf[c] : c \in Creators}
    BY <2>1, UnsignedType DEF Genuine
  <2>2. CASE P \in {SubSeq(f, 5, Len(f)) : f \in Initial}
    <3>1. PICK f \in Initial : P = SubSeq(f, 5, Len(f))
      BY <2>2
    <3>2. f \in Seq(Nat) /\ f = Unsigned(P)
      BY <3>1, InitialAssumption
    <3>3. P \in Seq(Nat)
      BY <3>1, <3>2
    <3> QED
      BY <3>2, <3>3 DEF Genuine, File
  <2> QED
    BY <2>1, <2>2 DEF Stored
<1>2. Unsigned(P) \in File /\ Whole(Unsigned(P), P)
  BY <1>1, UnsignedFacts, StartsUnsigned
<1>3. RegionOf(Unsigned(P)) = Signable(P)
  BY <1>1, <1>2, WholeRegion
<1>4. IsBundle(Unsigned(P))
  BY <1>1, <1>2, PayloadFound DEF Whole
<1> QED
  BY <1>1, <1>2, <1>3, <1>4, RegionType

OneWriter == \A p, q \in Procs : Writing(p) /\ Writing(q) => p = q

\* What the process that writes has brought into the file.
PartAt(p) ==
  /\ pc[p] = "write" => disk = <<>>
  /\ pc[p] = "flush" => disk \in Parts(data[p], 0, Blocks(data[p]))

\* The file is a bundle, cut off or not.
DiskTidy == \E P \in Stored : Tidy(disk, P)

\* What p will have read in the end, if nobody empties the file.
Target(p) == [i \in 1 .. Wanted(p) |-> CellRead(p, i)]

ReadTidy(p) ==
  /\ size[p] <= Size(disk) /\ Len(data[p]) <= Wanted(p)
  /\ \A i \in 1 .. Len(data[p]) : data[p][i] = CellRead(p, i)
  /\ \E P \in Stored : Tidy(Target(p), P)

\* What a run loaded may be cut off, what it writes is not.
HasTidy(p) ==
  /\ pc[p] = "read" => ReadTidy(p)
  /\ pc[p] = "sign" => \E P \in Stored : Tidy(data[p], P)
  /\ pc[p] \in {"open", "write", "flush"} =>
       \E P \in Stored : Tidy(data[p], P) /\ Len(data[p]) >= End(P)

FilesInv ==
  /\ TypeInv
  /\ ~clash => OneWriter /\ \A p \in Procs : PartAt(p)
  /\ ~clash /\ ~mixed => DiskTidy /\ \A p \in Procs : HasTidy(p)

\* A beginning of d, the last key or signature of which may be cut.
Piece(g, d) ==
  /\ g \in File /\ Len(g) <= Len(d)
  /\ \A i \in 1 .. Len(g) : g[i] = d[i] \/ (i = Len(g) /\ i \in Fields(d) /\ g[i] = Torn)

\* What was complete in f is in g, and g is not shorter.
Grown(f, g) ==
  Size(f) <= Size(g) /\ \A i \in 1 .. Len(f) : 2 * i <= Size(f) => g[i] = f[i]

LEMMA PieceOfTidy ==
  ASSUME NEW d \in File, NEW P \in File, Tidy(d, P), NEW g, Piece(g, d)
  PROVE  Tidy(g, P)
<1>1. ASSUME NEW i \in Fields(d) PROVE i > Base(P)
  <2>1. PICK p \in EntryPositions(d), j \in {2, 4} : i = p + j
    BY DEF Fields
  <2>2. p \in Nat /\ p >= Base(P) /\ Base(P) \in Nat
    <3>1. Base(P) \in Nat
      <4>1. End(P) \in Nat /\ Base(P) = End(P) + 2
        BY EndFacts
      <4> QED
        BY <4>1
    <3>2. p \in Nat /\ p >= Base(P)
      BY TidyEntries
    <3> QED
      BY <3>1, <3>2
  <2> QED
    BY <2>1, <2>2
<1> QED
  BY <1>1, PieceTidy DEF Piece

\* Writing a file on from where it ends.
LEMMA OverlayPiece ==
  ASSUME NEW d \in File, NEW m \in 0 .. Len(d), NEW n \in m .. Len(d),
         NEW f \in Parts(d, 0, m), NEW c \in Parts(d, m, n)
  PROVE  LET g == Overlay(f, m, c)
         IN  Piece(g, d) /\ Grown(f, g) /\ (n = Len(d) => g = d)
<1> DEFINE g == Overlay(f, m, c)
<1>1. /\ Len(d) \in Nat /\ m \in Nat /\ n \in Nat /\ m <= n /\ n <= Len(d)
      /\ m \in 0 .. Len(d) /\ 0 \in 0 .. Len(d) /\ d \in Seq(Nat)
  BY DEF File
<1>2. /\ f \in File /\ Len(f) \in Nat /\ m <= Len(f) /\ Len(f) <= m + 1 /\ Len(f) <= Len(d)
      /\ \A i \in 1 .. Len(f) : IF i <= m THEN f[i] = d[i]
                                ELSE i = Len(f) /\ i \in Fields(d) /\ f[i] = Torn
  <2>1. f \in File /\ Len(f) \in Nat
    BY <1>1, PartsAre DEF File
  <2>2. /\ m <= 0 + Len(f) /\ 0 + Len(f) <= m + 1 /\ 0 + Len(f) <= Len(d)
        /\ \A i \in 1 .. Len(f) :
             IF 0 + i <= m THEN f[i] = d[0 + i]
             ELSE i = Len(f) /\ 0 + i \in Fields(d) /\ f[i] = Torn
    BY <1>1, PartsAre
  <2>3. ASSUME NEW i \in 1 .. Len(f)
        PROVE  IF i <= m THEN f[i] = d[i] ELSE i = Len(f) /\ i \in Fields(d) /\ f[i] = Torn
    <3>1. i \in Int /\ 0 + i = i
      BY <2>1
    <3> QED
      BY <2>2, <3>1
  <2> QED
    BY <1>1, <2>1, <2>2, <2>3
<1>3. /\ c \in File /\ Len(c) \in Nat /\ n <= m + Len(c) /\ m + Len(c) <= Len(d)
      /\ \A i \in 1 .. Len(c) : IF m + i <= n THEN c[i] = d[m + i]
                                ELSE i = Len(c) /\ m + i \in Fields(d) /\ c[i] = Torn
  BY PartsAre DEF File
<1>4. CASE c = <<>>
  <2>1. g = f /\ Len(c) = 0
    BY <1>4 DEF Overlay
  <2>2. Piece(f, d)
    BY <1>2 DEF Piece
  <2>3. Grown(f, f)
    BY <1>2, SizeType DEF Grown
  <2>4. ASSUME n = Len(d) PROVE f = d
    <3>1. m = Len(d) /\ Len(f) = Len(d)
      BY <1>1, <1>2, <1>3, <2>1, <2>4
    <3>2. \A i \in 1 .. Len(f) : f[i] = d[i]
      BY <1>1, <1>2, <3>1
    <3> QED
      BY <1>1, <1>2, <3>1, <3>2, SeqEqual DEF File
  <2> QED
    BY <2>1, <2>2, <2>3, <2>4
<1>5. CASE c # <<>>
  <2> DEFINE k == m + Len(c)
             v(i) == IF i \in m + 1 .. k THEN c[i - m] ELSE Get(f, Len(f), i - 1)
  <2>1. Len(c) >= 1 /\ k \in Nat /\ k >= Len(f)
    BY <1>1, <1>2, <1>3, <1>5 DEF File
  <2>2. g = [i \in 1 .. k |-> v(i)]
    BY <1>2, <1>5, <2>1 DEF Overlay
  <2>3. \A i \in 1 .. k : i <= m => v(i) = f[i] /\ f[i] = d[i]
    BY <1>1, <1>2, <2>1 DEF Get
  <2>4. \A i \in 1 .. k : i > m => /\ v(i) = c[i - m]
                                   /\ v(i) = d[i] \/ (i = k /\ i \in Fields(d) /\ v(i) = Torn)
    <3> SUFFICES ASSUME NEW i \in 1 .. k, i > m
                 PROVE  /\ v(i) = c[i - m]
                        /\ v(i) = d[i] \/ (i = k /\ i \in Fields(d) /\ v(i) = Torn)
      OBVIOUS
    <3>1. i - m \in 1 .. Len(c) /\ m + (i - m) = i /\ i \in m + 1 .. k
      BY <1>1, <1>3, <2>1
    <3>2. v(i) = c[i - m]
      BY <3>1
    <3>3. IF i <= n THEN c[i - m] = d[i]
          ELSE i - m = Len(c) /\ i \in Fields(d) /\ c[i - m] = Torn
      BY <1>3, <3>1
    <3> HIDE DEF v
    <3> QED
      BY <1>1, <1>3, <3>1, <3>2, <3>3
  <2>5. \A i \in 1 .. k : v(i) \in Nat
    <3>1. \A i \in 1 .. k : i \in 1 .. Len(d) /\ d[i] \in Nat
      BY <1>1, <1>3, <2>1
    <3> HIDE DEF v, k
    <3> SUFFICES ASSUME NEW i \in 1 .. k PROVE v(i) \in Nat
      OBVIOUS
    <3>2. d[i] \in Nat /\ Torn \in Nat
      BY <3>1, CellAssumption
    <3>3. v(i) = d[i] \/ v(i) = Torn
      <4>1. CASE i <= m
        BY <2>3, <4>1
      <4>2. CASE i > m
        BY <2>4, <4>2
      <4>3. i <= m \/ i > m
        BY <1>1
      <4> QED
        BY <4>1, <4>2, <4>3
    <3> QED
      BY <3>2, <3>3
  <2> HIDE DEF v, k
  <2>6. g \in File /\ Len(g) = k /\ \A i \in 1 .. k : g[i] = v(i)
    <3>1. [i \in 1 .. k |-> v(i)] \in [1 .. k -> Nat]
      BY <2>5
    <3>2. \A x \in Nat : \A h \in [1 .. x -> Nat] : h \in Seq(Nat) /\ Len(h) = x
      OBVIOUS
    <3> HIDE DEF g
    <3> QED
      BY <2>1, <2>2, <3>1, <3>2 DEF File
  <2> HIDE DEF g
  <2>7. \A i \in 1 .. k : g[i] = d[i] \/ (i = k /\ i \in Fields(d) /\ g[i] = Torn)
    <3> SUFFICES ASSUME NEW i \in 1 .. k
                 PROVE  g[i] = d[i] \/ (i = k /\ i \in Fields(d) /\ g[i] = Torn)
      OBVIOUS
    <3>1. g[i] = v(i) /\ (i <= m \/ i > m)
      BY <1>1, <2>1, <2>6
    <3>2. CASE i <= m
      BY <2>3, <3>1, <3>2
    <3>3. CASE i > m
      BY <2>4, <3>1, <3>3
    <3> QED
      BY <3>1, <3>2, <3>3
  <2>8. Piece(g, d)
    BY <1>3, <2>6, <2>7 DEF Piece, k
  <2>9. Grown(f, g)
    <3>1. /\ Size(f) \in Nat /\ Size(g) \in Nat
          /\ Size(f) = 2 * Len(f) \/ (Size(f) = 2 * Len(f) - 1 /\ f[Len(f)] = Torn)
          /\ Size(g) = 2 * k \/ Size(g) = 2 * k - 1
      BY <1>2, <2>6, SizeType
    <3>2. \A i \in 1 .. Len(f) : i <= m => g[i] = f[i]
      BY <1>2, <2>1, <2>3, <2>6
    <3>3. CASE Len(f) = m
      <4>1. k >= Len(f) + 1
        BY <1>1, <1>3, <2>1, <3>3 DEF k
      <4> QED
        BY <1>2, <2>1, <3>1, <3>2, <3>3, <4>1 DEF Grown
    <3>4. CASE Len(f) = m + 1
      <4>1. f[Len(f)] = Torn
        BY <1>1, <1>2, <3>4
      <4>2. Size(f) = 2 * Len(f) - 1
        BY <1>1, <1>2, <3>4, <4>1 DEF Size
      <4>3. \A i \in 1 .. Len(f) : 2 * i <= Size(f) => i <= m
        BY <1>1, <1>2, <3>4, <4>2
      <4> QED
        BY <1>2, <2>1, <3>1, <3>2, <4>2, <4>3 DEF Grown
    <3> QED
      BY <1>1, <1>2, <3>3, <3>4
  <2>10. ASSUME n = Len(d) PROVE g = d
    <3>1. k = Len(d)
      BY <1>1, <1>3, <2>10 DEF k
    <3>2. \A i \in 1 .. k : g[i] = d[i]
      <4> SUFFICES ASSUME NEW i \in 1 .. k, i > m PROVE g[i] = d[i]
        BY SMTT(30), <1>1, <2>1, <2>3, <2>6
      <4>1. i - m \in 1 .. Len(c) /\ m + (i - m) = i /\ i <= n
        BY <1>1, <1>3, <2>1, <2>10, <3>1 DEF k
      <4> QED
        BY <1>3, <2>4, <2>6, <4>1
    <3> QED
      BY <1>1, <2>6, <3>1, <3>2, SeqEqual DEF File
  <2> QED
    BY <2>8, <2>9, <2>10 DEF g
<1> QED
  BY <1>4, <1>5

LEMMA EmptyTidy ==
  ASSUME NEW P \in File PROVE Tidy(<<>>, P)
<1>1. SubSeq(Unsigned(P), 1, 0) = <<>> /\ 0 \in 0 .. Len(Unsigned(P)) /\ Unsigned(P) \in File
  BY UnsignedFacts DEF File
<1> QED
  BY <1>1, UnsignedTidy, CutTidy

\* What ECC_Sign makes of a bundle of a stored payload is one.
LEMMA SignedTidy ==
  ASSUME SignatureNumbers, NEW f \in File, NEW key \in Keys, NEW P \in Stored, Tidy(f, P),
         ECC_Sign(f, key).res = "append"
  PROVE  LET g == ECC_Sign(f, key).image
         IN  /\ Len(f) >= End(P) /\ g = ECC_AppendSignature(f, key, Signable(P))
             /\ g \in File /\ Tidy(g, P) /\ Len(g) >= End(P)
<1>1. P \in File /\ Signature(key, Signable(P)) \in Nat
  BY StoredFacts DEF SignatureNumbers
<1>2. /\ IsBundle(f)
      /\ ECC_Sign(f, key).image = ECC_AppendSignature(f, key, RegionOf(f))
  BY DEF ECC_Sign, Outcome
<1>3. Len(f) >= End(P)
  BY <1>1, <1>2, PayloadFound DEF Tidy
<1>4. RegionOf(f) = Signable(P)
  BY <1>1, <1>3, WholeRegion DEF Whole, Tidy
<1> QED
  BY <1>1, <1>2, <1>3, <1>4, AppendTidy

LEMMA FilesInitial == Init => FilesInv
<1> SUFFICES ASSUME Init PROVE FilesInv
  OBVIOUS
<1>1. TypeInv
  BY TypeInitial
<1>2. DiskTidy
  <2> DEFINE P == SubSeq(disk, 5, Len(disk))
  <2>1. disk \in Initial /\ P \in Stored
    BY DEF Init, Stored
  <2>2. disk = Unsigned(P)
    BY <2>1, InitialAssumption
  <2>3. Tidy(Unsigned(P), P)
    BY <2>1, StoredFacts, UnsignedTidy
  <2> QED
    BY <2>1, <2>2, <2>3 DEF DiskTidy
<1> QED
  BY <1>1, <1>2 DEF Init, FilesInv, OneWriter, PartAt, HasTidy, Writing

\* What writers do brings the file further along.
LEMMA WritesPiece ==
  ASSUME TypeInv, NEW p \in Procs, PartAt(p),
         WriteBlocks(p) \/ FlushAndExit(p) \/ WriteFails(p) \/ FlushFails(p)
  PROVE  /\ Piece(disk', data[p]) /\ Grown(disk, disk')
         /\ WriteBlocks(p) => disk' \in Parts(data[p], 0, Blocks(data[p]))
         /\ FlushAndExit(p) => disk' = data[p]
<1> DEFINE d == data[p]
           b == Blocks(d)
<1>1. d \in File /\ Len(d) \in Nat /\ b \in 0 .. Len(d) /\ 0 \in 0 .. Len(d) /\ Len(d) \in b .. Len(d)
  <2>1. d \in File /\ Len(d) \in Nat
    BY DEF TypeInv, TypeOK, File
  <2>2. b \in 0 .. Len(d)
    BY <2>1, BlocksType
  <2> HIDE DEF b, d
  <2> QED
    BY <2>1, <2>2
<1>2. <<>> \in Parts(d, 0, 0)
  BY <1>1 DEF Parts, File
<1> HIDE DEF d, b
<1>3. CASE WriteBlocks(p)
  <2>1. PICK c \in Parts(d, 0, b) : disk' = Overlay(disk, 0, c)
    BY <1>3 DEF WriteBlocks, d, b
  <2>2. disk = <<>>
    BY <1>3 DEF WriteBlocks, PartAt
  <2>3. Piece(disk', d) /\ Grown(disk, disk')
    BY <1>1, <1>2, <2>1, <2>2, OverlayPiece
  <2>4. c \in File
    BY <1>1, <2>1, PartsAre
  <2>5. Overlay(<<>>, 0, c) = c
    <3>1. Len(c) \in Nat /\ Len(<<>>) = 0 /\ c = [i \in 1 .. Len(c) |-> c[i]]
      BY <2>4 DEF File
    <3>2. CASE c = <<>>
      BY <3>2 DEF Overlay
    <3>3. CASE c # <<>>
      <4>1. Overlay(<<>>, 0, c) = [i \in 1 .. Len(c) |-> c[i]]
        BY <3>1, <3>3 DEF Overlay
      <4> QED
        BY <3>1, <4>1
    <3> QED
      BY <3>2, <3>3
  <2>6. ~FlushAndExit(p)
    BY <1>3 DEF WriteBlocks, FlushAndExit
  <2> QED
    BY <2>1, <2>2, <2>3, <2>5, <2>6 DEF d, b
<1>4. CASE FlushAndExit(p)
  <2>1. disk' = Overlay(disk, b, Rest(d)) /\ disk \in Parts(d, 0, b)
    BY <1>4 DEF FlushAndExit, PartAt, d, b
  <2>2. Rest(d) \in Parts(d, b, Len(d))
    BY DEF Rest, Parts, b
  <2>3. Piece(disk', d) /\ Grown(disk, disk') /\ disk' = d
    BY <1>1, <2>1, <2>2, OverlayPiece
  <2>4. ~WriteBlocks(p)
    BY <1>4 DEF WriteBlocks, FlushAndExit
  <2> QED
    BY <2>3, <2>4 DEF d
<1>5. CASE WriteFails(p)
  <2>1. PICK n \in 0 .. b - 1 : \E c \in Parts(d, 0, n) : disk' = Overlay(disk, 0, c)
    BY <1>5 DEF WriteFails, d, b
  <2>2. PICK c \in Parts(d, 0, n) : disk' = Overlay(disk, 0, c)
    BY <2>1
  <2>3. disk = <<>>
    BY <1>5 DEF WriteFails, PartAt
  <2>4. n \in 0 .. Len(d)
    BY <1>1
  <2>5. Piece(disk', d) /\ Grown(disk, disk')
    BY <1>1, <1>2, <2>2, <2>3, <2>4, OverlayPiece
  <2>6. ~WriteBlocks(p) /\ ~FlushAndExit(p)
    BY <1>5 DEF WriteFails, WriteBlocks, FlushAndExit, Exit, Goto, TypeInv, TypeOK
  <2> QED
    BY <2>5, <2>6 DEF d
<1>6. CASE FlushFails(p)
  <2>1. PICK n \in b .. Len(d) - 1 : \E c \in Parts(d, b, n) : disk' = Overlay(disk, b, c)
    BY <1>6 DEF FlushFails, d, b
  <2>2. PICK c \in Parts(d, b, n) : disk' = Overlay(disk, b, c)
    BY <2>1
  <2>3. disk \in Parts(d, 0, b)
    BY <1>6 DEF FlushFails, PartAt, d, b
  <2>4. n \in b .. Len(d)
    BY <1>1
  <2>5. Piece(disk', d) /\ Grown(disk, disk')
    BY <1>1, <2>2, <2>3, <2>4, OverlayPiece
  <2>6. ~WriteBlocks(p)
    BY <1>6 DEF FlushFails, WriteBlocks
  <2>7. FlushAndExit(p) => disk' = d
    <3> SUFFICES ASSUME FlushAndExit(p) PROVE disk' = d
      OBVIOUS
    <3>1. disk' = Overlay(disk, b, Rest(d))
      BY DEF FlushAndExit, d, b
    <3>2. Rest(d) \in Parts(d, b, Len(d))
      BY DEF Rest, Parts, b
    <3> QED
      BY <1>1, <2>3, <3>1, <3>2, OverlayPiece
  <2> QED
    BY <2>5, <2>6, <2>7 DEF d
<1> QED
  BY <1>3, <1>4, <1>5, <1>6

\* A reader goes on as before when the file only grows.
LEMMA ReadStays ==
  ASSUME TypeInv, NEW p \in Procs, ReadTidy(p), Grown(disk, disk'), Size(disk') \in Nat,
         size'[p] = size[p], data'[p] = data[p]
  PROVE  ReadTidy(p)'
<1>1. disk \in File /\ size[p] \in Nat /\ data[p] \in File
  BY DEF TypeInv, TypeOK, File
<1>2. Size(disk) \in Nat /\ Len(disk) \in Nat /\ Len(data[p]) \in Nat /\ size[p] <= Size(disk)
  BY <1>1, SizeType DEF ReadTidy, File
<1>3. Wanted(p) \in Nat /\ \A i \in 1 .. Wanted(p) : 2 * i <= size[p] => i <= Len(disk)
  BY <1>1, <1>2, ReadableType
<1>4. Wanted(p)' = Wanted(p)
  BY DEF Wanted
<1>5. ASSUME NEW i \in 1 .. Wanted(p) PROVE CellRead(p, i)' = CellRead(p, i)
  <2>1. 2 * i <= size[p] => i \in 1 .. Len(disk) /\ 2 * i <= Size(disk)
    BY <1>1, <1>2, <1>3
  <2>2. 2 * i <= size[p] => disk'[i] = disk[i]
    BY <2>1 DEF Grown
  <2> QED
    BY <1>1, <2>2 DEF CellRead
<1>6. Target(p)' = Target(p)
  BY <1>4, <1>5 DEF Target
<1>7. size[p] <= Size(disk')
  BY <1>1, <1>2 DEF Grown
<1>8. \A i \in 1 .. Len(data[p]) : i \in 1 .. Wanted(p)
  BY <1>2, <1>3 DEF ReadTidy
<1> QED
  BY <1>4, <1>5, <1>6, <1>7, <1>8 DEF ReadTidy

\* What a step of p has to do with the file and its own memory.
LEMMA FilesOther ==
  ASSUME FilesInv, TypeInv', NEW p \in Procs,
         \A q \in Procs : q # p => pc'[q] = pc[q] /\ data'[q] = data[q] /\ size'[q] = size[q],
         clash' = clash, mixed' = mixed, ~clash => Grown(disk, disk'),
         disk' = disk \/ Writing(p), Writing(p)' => Writing(p),
         ~clash => PartAt(p)', ~clash /\ ~mixed => DiskTidy' /\ HasTidy(p)'
  PROVE  FilesInv'
<1>1. TypeInv
  BY DEF FilesInv
<1>2. ASSUME ~clash PROVE (OneWriter /\ \A q \in Procs : PartAt(q))'
  <2>1. OneWriter /\ \A q \in Procs : PartAt(q)
    BY <1>2 DEF FilesInv
  <2>2. OneWriter'
    BY <2>1 DEF OneWriter, Writing
  <2>3. ASSUME NEW q \in Procs, q # p PROVE PartAt(q)'
    <3>1. Writing(q) => disk' = disk
      BY <2>1, <2>3 DEF OneWriter
    <3> QED
      BY <2>1, <2>3, <3>1 DEF PartAt, Writing
  <2> QED
    BY <1>2, <2>2, <2>3
<1>3. ASSUME ~clash, ~mixed PROVE (DiskTidy /\ \A q \in Procs : HasTidy(q))'
  <2>1. \A q \in Procs : HasTidy(q)
    BY <1>3 DEF FilesInv
  <2>2. Size(disk') \in Nat
    BY SizeType DEF TypeInv, TypeOK, File
  <2>3. ASSUME NEW q \in Procs, q # p PROVE HasTidy(q)'
    <3>1. pc'[q] = pc[q] /\ data'[q] = data[q] /\ size'[q] = size[q]
      BY <2>3
    <3>2. pc[q] = "read" => ReadTidy(q)'
      BY <1>1, <1>3, <2>1, <2>2, <3>1, ReadStays DEF HasTidy
    <3> QED
      BY <2>1, <3>1, <3>2 DEF HasTidy
  <2> QED
    BY <1>3, <2>3
<1> QED
  BY <1>2, <1>3 DEF FilesInv

LEMMA StaysGrown ==
  ASSUME TypeInv PROVE Grown(disk, disk)
<1>1. Size(disk) \in Nat
  BY SizeType DEF TypeInv, TypeOK, File
<1> QED
  BY <1>1 DEF Grown

\* A run that ends leaves a bundle of a stored payload, cut off or not, and has
\* changed the file only if it was writing it.
LEMMA FilesExit ==
  ASSUME FilesInv, TypeInv', NEW p \in Procs, NEW status, Exit(p, status),
         clash' = clash, mixed' = mixed, disk' = disk \/ Writing(p),
         ~clash => Grown(disk, disk'), ~clash /\ ~mixed => DiskTidy'
  PROVE  FilesInv'
<1>1. /\ pc'[p] = "idle"
      /\ \A q \in Procs : q # p => pc'[q] = pc[q] /\ data'[q] = data[q] /\ size'[q] = size[q]
  BY DEF FilesInv, Exit, Goto, TypeInv, TypeOK
<1>2. PartAt(p)' /\ HasTidy(p)' /\ ~Writing(p)'
  BY <1>1 DEF PartAt, HasTidy, Writing
<1> QED
  BY <1>1, <1>2, FilesOther

\* The file as it is when it is opened for reading is what p wants of it.
LEMMA TargetIs ==
  ASSUME TypeInv, NEW p \in Procs, size[p] = Size(disk)
  PROVE  Target(p) = disk /\ Wanted(p) = Len(disk)
<1>1. /\ disk \in File /\ Len(disk) \in Nat /\ Size(disk) \in Nat
      /\ \/ Size(disk) = 2 * Len(disk)
         \/ Size(disk) = 2 * Len(disk) - 1 /\ Len(disk) > 0 /\ disk[Len(disk)] = Torn
  BY SizeType DEF TypeInv, TypeOK, File
<1>2. Wanted(p) = Len(disk)
  BY <1>1 DEF Wanted
<1>3. ASSUME NEW i \in 1 .. Len(disk) PROVE CellRead(p, i) = disk[i]
  <2>1. 2 * i > Size(disk) => i = Len(disk) /\ disk[i] = Torn
    BY <1>1
  <2> QED
    BY <1>1, <2>1 DEF CellRead
<1>4. disk = [i \in 1 .. Len(disk) |-> disk[i]]
  BY <1>1 DEF File
<1> QED
  BY <1>2, <1>3, <1>4 DEF Target

\* One block more.
LEMMA ReadOn ==
  ASSUME TypeInv, NEW p \in Procs, ReadTidy(p), ReadBlock(p)
  PROVE  /\ pc'[p] = "read" => ReadTidy(p)'
         /\ pc'[p] = "sign" => data'[p] = Target(p)
<1>1. /\ disk \in File /\ size[p] \in Nat /\ data[p] \in File /\ Len(data[p]) \in Nat
      /\ DOMAIN data[p] = 1 .. Len(data[p])
  BY DEF TypeInv, TypeOK, File
<1>2. Wanted(p) \in Nat /\ BlockEnd(p) \in 0 .. Wanted(p)
  BY <1>1, ReadableType
<1>3. /\ data'[p] = [i \in 1 .. BlockEnd(p) |->
                       IF i \in DOMAIN data[p] THEN data[p][i] ELSE CellRead(p, i)]
      /\ pc'[p] = IF BlockEnd(p) = Wanted(p) THEN "sign" ELSE "read"
      /\ size' = size /\ disk' = disk
  BY DEF ReadBlock, Goto, TypeInv, TypeOK
<1>4. data'[p] = [i \in 1 .. BlockEnd(p) |-> CellRead(p, i)]
  BY <1>1, <1>3 DEF ReadTidy
<1>5. Wanted(p)' = Wanted(p) /\ Target(p)' = Target(p) /\ \A i : CellRead(p, i)' = CellRead(p, i)
  BY <1>3 DEF Wanted, Target, CellRead
<1>6. Len(data'[p]) = BlockEnd(p)
  <2>1. DOMAIN data'[p] = 1 .. BlockEnd(p)
    BY <1>4
  <2>2. data'[p] \in File
    BY <1>1, <1>3, ReadType
  <2> QED
    BY <1>2, <2>1, <2>2 DEF File
<1>7. CASE BlockEnd(p) = Wanted(p)
  BY <1>3, <1>4, <1>7 DEF Target
<1>8. CASE BlockEnd(p) # Wanted(p)
  <2>1. ReadTidy(p)'
    BY <1>2, <1>3, <1>4, <1>5, <1>6 DEF ReadTidy
  <2> QED
    BY <1>3, <1>8, <2>1
<1> QED
  BY <1>7, <1>8

LEMMA FilesStep ==
  ASSUME SignatureNumbers, FilesInv, [Next]_vars
  PROVE  FilesInv'
<1>1. TypeInv /\ TypeInv' /\ Grown(disk, disk)
  BY TypeStep, StaysGrown DEF FilesInv
<1>2. \A p \in Procs : data[p] \in File
  BY <1>1 DEF TypeInv, TypeOK, File
<1>3. DiskTidy' = DiskTidy \/ disk' # disk
  BY DEF DiskTidy
<1>4. ASSUME NEW p \in Procs, StartSign(p) PROVE FilesInv'
  <2>1. /\ pc'[p] = "stat" /\ data' = data /\ size' = size /\ disk' = disk
        /\ clash' = clash /\ mixed' = mixed
        /\ \A q \in Procs : q # p => pc'[q] = pc[q]
    BY <1>1, <1>4 DEF StartSign, Begin, Goto, hist, TypeInv, TypeOK
  <2>2. PartAt(p)' /\ HasTidy(p)' /\ ~Writing(p)'
    BY <2>1 DEF PartAt, HasTidy, Writing
  <2>3. ~clash /\ ~mixed => DiskTidy'
    BY <1>3, <2>1 DEF FilesInv
  <2> QED
    BY <1>1, <2>1, <2>2, <2>3, FilesOther
<1>5. ASSUME NEW p \in Procs, StartCreate(p) PROVE FilesInv'
  <2> DEFINE P == PayloadOf[p]
  <2>1. P \in Stored /\ P \in File
    BY <1>5, UnsignedType DEF StartCreate, Stored
  <2>2. Tidy(Unsigned(P), P) /\ Len(Unsigned(P)) >= End(P)
    <3>1. Len(Unsigned(P)) = End(P) /\ End(P) \in Nat
      BY <2>1, UnsignedFacts
    <3> QED
      BY <2>1, <3>1, UnsignedTidy
  <2>3. /\ pc'[p] = "open" /\ data'[p] = Unsigned(P)
        /\ \A q \in Procs : q # p => pc'[q] = pc[q] /\ data'[q] = data[q]
        /\ disk' = disk /\ clash' = clash /\ mixed' = mixed /\ size' = size
    BY <1>1, <1>5 DEF StartCreate, Begin, Goto, hist, TypeInv, TypeOK
  <2> HIDE DEF P
  <2>4. PartAt(p)' /\ HasTidy(p)' /\ ~Writing(p)'
    BY <2>1, <2>2, <2>3 DEF PartAt, HasTidy, Writing
  <2>5. ~clash /\ ~mixed => DiskTidy'
    BY <1>3, <2>3 DEF FilesInv
  <2> QED
    BY <1>1, <2>3, <2>4, <2>5, FilesOther
<1>6. ASSUME NEW p \in Procs, StatBundle(p) PROVE FilesInv'
  <2>1. /\ pc'[p] = "load" /\ data' = data /\ disk' = disk /\ clash' = clash /\ mixed' = mixed
        /\ \A q \in Procs : q # p => pc'[q] = pc[q] /\ size'[q] = size[q]
    BY <1>1, <1>6 DEF StatBundle, Goto, TypeInv, TypeOK
  <2>2. PartAt(p)' /\ HasTidy(p)' /\ ~Writing(p)'
    BY <2>1 DEF PartAt, HasTidy, Writing
  <2>3. ~clash /\ ~mixed => DiskTidy'
    BY <1>3, <2>1 DEF FilesInv
  <2> QED
    BY <1>1, <2>1, <2>2, <2>3, FilesOther
<1>7. ASSUME NEW p \in Procs, OpenBundle(p) PROVE FilesInv'
  <2>1. /\ pc[p] = "load" /\ pc'[p] = "read" /\ size[p] = Size(disk)
        /\ data' = data /\ disk' = disk /\ clash' = clash /\ mixed' = mixed /\ size' = size
        /\ \A q \in Procs : q # p => pc'[q] = pc[q]
    BY <1>1, <1>7 DEF OpenBundle, Goto, hist, TypeInv, TypeOK
  <2>2. ~clash /\ ~mixed => DiskTidy'
    BY <1>3, <2>1 DEF FilesInv
  <2>3. data[p] = <<>> /\ Target(p) = disk /\ Wanted(p) = Len(disk) /\ Len(disk) \in Nat
        /\ size[p] \in Nat
    BY <1>1, <2>1, TargetIs DEF TypeInv, TypeOK, Unread
  <2>4. Target(p)' = Target(p) /\ Wanted(p)' = Wanted(p)
    BY <2>1 DEF Target, Wanted, CellRead
  <2>5. DiskTidy => ReadTidy(p)'
    BY <2>1, <2>3, <2>4 DEF ReadTidy, DiskTidy
  <2>6. PartAt(p)' /\ ~Writing(p)' /\ (~clash /\ ~mixed => HasTidy(p)')
    BY <2>1, <2>5 DEF PartAt, HasTidy, Writing, FilesInv
  <2> QED
    BY <1>1, <2>1, <2>2, <2>6, FilesOther
<1>8. ASSUME NEW p \in Procs, ReadBlock(p) PROVE FilesInv'
  <2>1. /\ pc[p] = "read" /\ pc'[p] \in {"read", "sign"}
        /\ \A q \in Procs : q # p => pc'[q] = pc[q] /\ data'[q] = data[q]
        /\ disk' = disk /\ clash' = clash /\ mixed' = mixed /\ size' = size
    BY <1>1, <1>8 DEF ReadBlock, Goto, hist, TypeInv, TypeOK
  <2>2. ~clash /\ ~mixed => DiskTidy'
    BY <1>3, <2>1 DEF FilesInv
  <2>3. ASSUME ~clash, ~mixed PROVE HasTidy(p)'
    <3>1. ReadTidy(p)
      BY <2>1, <2>3 DEF FilesInv, HasTidy
    <3>2. PICK P \in Stored : Tidy(Target(p), P)
      BY <3>1 DEF ReadTidy
    <3>3. pc'[p] = "sign" => Tidy(data'[p], P)
      BY <1>1, <1>8, <3>1, <3>2, ReadOn
    <3> QED
      BY <1>1, <1>8, <2>1, <3>1, <3>3, ReadOn DEF HasTidy
  <2>4. PartAt(p)' /\ ~Writing(p)'
    BY <2>1 DEF PartAt, Writing
  <2> QED
    BY <1>1, <2>1, <2>2, <2>3, <2>4, FilesOther
<1>9. ASSUME NEW p \in Procs,
             LoadFails(p) \/ RejectBundle(p) \/ KeyFails(p) \/ SignaturePresent(p) \/ OpenFails(p) \/ Crash(p)
      PROVE  FilesInv'
  <2>1. (\E status : Exit(p, status)) /\ UNCHANGED <<disk, clash, mixed>>
    BY <1>9 DEF LoadFails, RejectBundle, KeyFails, SignaturePresent, OpenFails, Crash
  <2>2. ~clash /\ ~mixed => DiskTidy'
    BY <1>3, <2>1 DEF FilesInv
  <2> QED
    BY <1>1, <2>1, <2>2, FilesExit
<1>10. ASSUME NEW p \in Procs, AppendSignature(p) PROVE FilesInv'
  <2>1. /\ pc[p] = "sign" /\ pc'[p] = "open" /\ data'[p] = Verdict(p).image
        /\ \A q \in Procs : q # p => pc'[q] = pc[q] /\ data'[q] = data[q]
        /\ disk' = disk /\ clash' = clash /\ mixed' = mixed /\ size' = size
    BY <1>1, <1>10 DEF AppendSignature, Goto, hist, TypeInv, TypeOK
  <2>2. ~clash /\ ~mixed => DiskTidy'
    BY <1>3, <2>1 DEF FilesInv
  <2>3. ASSUME ~clash, ~mixed PROVE HasTidy(p)'
    <3>1. PICK P \in Stored : Tidy(data[p], P)
      BY <2>1, <2>3 DEF FilesInv, HasTidy
    <3>2. KeyOf[p] \in Keys
      BY <1>1, <2>1, ProcAssumption DEF TypeInv, SignersRead
    <3>3. Tidy(data'[p], P) /\ Len(data'[p]) >= End(P)
      BY <1>2, <1>10, <2>1, <3>1, <3>2, SignedTidy DEF AppendSignature, Verdict
    <3> QED
      BY <2>1, <3>3 DEF HasTidy
  <2>4. PartAt(p)' /\ ~Writing(p)'
    BY <2>1 DEF PartAt, Writing
  <2> QED
    BY <1>1, <2>1, <2>2, <2>3, <2>4, FilesOther
<1>11. ASSUME NEW p \in Procs, OpenTruncates(p) PROVE FilesInv'
  <2>1. /\ pc[p] = "open" /\ pc'[p] = "write" /\ data' = data /\ disk' = <<>> /\ size' = size
        /\ \A q \in Procs : q # p => pc'[q] = pc[q]
        /\ clash' = (clash \/ \E q \in Procs : Writing(q))
        /\ mixed' = (mixed \/ \E q \in Procs : pc[q] = "read")
    BY <1>1, <1>11 DEF OpenTruncates, Goto, TypeInv, TypeOK
  <2>2. ASSUME ~clash' PROVE (OneWriter /\ \A q \in Procs : PartAt(q))'
    <3>1. ~clash /\ \A q \in Procs : ~Writing(q)
      BY <2>1, <2>2
    <3>2. OneWriter'
      BY <2>1, <3>1 DEF OneWriter, Writing
    <3>3. \A q \in Procs : PartAt(q)'
      BY <2>1, <3>1 DEF PartAt, Writing
    <3> QED
      BY <3>2, <3>3
  <2>3. ASSUME ~clash', ~mixed' PROVE (DiskTidy /\ \A q \in Procs : HasTidy(q))'
    <3>1. (\A q \in Procs : HasTidy(q)) /\ \A q \in Procs : pc[q] # "read"
      BY <2>1, <2>3 DEF FilesInv
    <3>2. PICK P \in Stored : Tidy(data[p], P)
      BY <2>1, <3>1 DEF HasTidy
    <3>3. Tidy(disk', P)
      BY <2>1, StoredFacts, EmptyTidy
    <3>4. \A q \in Procs : HasTidy(q)'
      BY <2>1, <3>1 DEF HasTidy
    <3> QED
      BY <3>3, <3>4 DEF DiskTidy
  <2> QED
    BY <1>1, <2>2, <2>3 DEF FilesInv
<1>12. ASSUME NEW p \in Procs,
              WriteBlocks(p) \/ FlushAndExit(p) \/ WriteFails(p) \/ FlushFails(p)
       PROVE  /\ ~clash => Piece(disk', data[p]) /\ Grown(disk, disk')
              /\ ~clash /\ WriteBlocks(p) => disk' \in Parts(data[p], 0, Blocks(data[p]))
              /\ ~clash /\ ~mixed => DiskTidy'
              /\ Writing(p) /\ clash' = clash /\ mixed' = mixed
  <2>1. Writing(p) /\ clash' = clash /\ mixed' = mixed
    BY <1>12 DEF WriteBlocks, FlushAndExit, WriteFails, FlushFails, Writing, hist
  <2>2. ASSUME ~clash
        PROVE  /\ Piece(disk', data[p]) /\ Grown(disk, disk')
               /\ WriteBlocks(p) => disk' \in Parts(data[p], 0, Blocks(data[p]))
    BY <1>1, <1>12, <2>2, WritesPiece DEF FilesInv
  <2>3. ASSUME ~clash, ~mixed PROVE DiskTidy'
    <3>1. PICK P \in Stored : Tidy(data[p], P)
      BY <2>1, <2>3 DEF FilesInv, HasTidy, Writing
    <3>2. Tidy(disk', P)
      BY <1>2, <2>2, <2>3, <3>1, StoredFacts, PieceOfTidy
    <3> QED
      BY <3>2 DEF DiskTidy
  <2> QED
    BY <2>1, <2>2, <2>3
<1>13. ASSUME NEW p \in Procs, WriteBlocks(p) PROVE FilesInv'
  <2>1. /\ pc[p] = "write" /\ pc'[p] = "flush" /\ data' = data /\ size' = size
        /\ \A q \in Procs : q # p => pc'[q] = pc[q]
    BY <1>1, <1>13 DEF WriteBlocks, Goto, hist, TypeInv, TypeOK
  <2>2. ~clash => PartAt(p)'
    BY <1>12, <1>13, <2>1 DEF PartAt
  <2>3. ~clash /\ ~mixed => HasTidy(p)'
    BY <2>1 DEF FilesInv, HasTidy
  <2> QED
    BY <1>1, <1>12, <1>13, <2>1, <2>2, <2>3, FilesOther
<1>14. ASSUME NEW p \in Procs, FlushAndExit(p) \/ WriteFails(p) \/ FlushFails(p) PROVE FilesInv'
  <2>1. \E status : Exit(p, status)
    BY <1>14 DEF FlushAndExit, WriteFails, FlushFails
  <2> QED
    BY <1>1, <1>12, <1>14, <2>1, FilesExit
<1>15. CASE UNCHANGED vars
  <2>1. \A p \in Procs : Writing(p)' = Writing(p) /\ PartAt(p)' = PartAt(p) /\ HasTidy(p)' = HasTidy(p)
    BY <1>15 DEF vars, Writing, PartAt, HasTidy, ReadTidy, Target, Wanted, CellRead
  <2> QED
    BY <1>1, <1>15, <2>1 DEF vars, FilesInv, OneWriter, DiskTidy
<1> QED
  BY <1>4, <1>5, <1>6, <1>7, <1>8, <1>9, <1>10, <1>11, <1>13, <1>14, <1>15
     DEF Next, Advance, Trouble, Done

LEMMA FilesAlways == SignatureNumbers => (Spec => []FilesInv)
<1> SUFFICES ASSUME SignatureNumbers PROVE Spec => []FilesInv
  OBVIOUS
<1>1. FilesInv /\ [Next]_vars => FilesInv'
  BY FilesStep
<1> QED
  BY <1>1, FilesInitial, PTL DEF Spec

\* No run signs a DDFB chunk that was cut or is still being written: what is in the
\* memory of a signer that is about to write is the whole payload of some "create",
\* although it was read block by block, as long as no two runs had the file open for
\* writing together and none emptied it while another one was reading it.
THEOREM SigningGenuine == SignatureNumbers => (Spec => []OnlyGenuineSigned)
<1>1. ASSUME FilesInv PROVE OnlyGenuineSigned
  <2> SUFFICES ASSUME NEW p \in Signers, ~clash, ~mixed, pc[p] \in {"open", "write", "flush"}
               PROVE  RegionOf(data[p]) \in Genuine
    BY DEF OnlyGenuineSigned, SignsBundles
  <2>1. p \in Procs /\ data[p] \in File
    BY <1>1 DEF FilesInv, TypeInv, TypeOK, Procs, File
  <2>2. PICK P \in Stored : Tidy(data[p], P) /\ Len(data[p]) >= End(P)
    BY <1>1, <2>1 DEF FilesInv, HasTidy
  <2> QED
    BY <2>1, <2>2, StoredFacts, WholeRegion DEF Whole, Tidy
<1> QED
  BY <1>1, FilesAlways, PTL

\* Every entry of the file verifies for the bundle it is in, or its signature is
\* missing or cut, at every moment, as long as no two runs had the file open for
\* writing together and none emptied it while another one was reading it.
THEOREM SigningEntries == SignatureNumbers => (Spec => []EntriesVerify)
<1>1. ASSUME FilesInv PROVE EntriesVerify
  <2> SUFFICES ASSUME ~clash, ~mixed, NEW p \in EntryPositions(disk)
               PROVE  \/ disk[p + 4] \in {0, Torn}
                      \/ Verifies(disk[p + 4], disk[p + 2], RegionOf(disk))
    BY DEF EntriesVerify
  <2>1. disk \in File
    BY <1>1 DEF FilesInv, TypeInv, TypeOK, File
  <2>2. PICK P \in Stored : Tidy(disk, P)
    BY <1>1 DEF FilesInv, DiskTidy
  <2>3. P \in File /\ Len(disk) \in Nat /\ End(P) \in Nat /\ Base(P) = End(P) + 2
    BY <2>1, <2>2, StoredFacts, EndFacts
  <2>4. /\ p \in Nat /\ p >= Base(P) /\ p + EntryLen <= Len(disk)
        /\ disk[p + 4] \in {0, Torn} \/ Verifies(disk[p + 4], disk[p + 2], Signable(P))
    BY <2>1, <2>2, <2>3, TidyEntries
  <2>5. Len(disk) >= End(P)
    BY <2>3, <2>4 DEF EntryLen
  <2>6. RegionOf(disk) = Signable(P)
    BY <2>1, <2>2, <2>3, <2>5, WholeRegion DEF Whole, Tidy
  <2> QED
    BY <2>4, <2>6
<1> QED
  BY <1>1, FilesAlways, PTL

-----------------------------------------------------------------------------
(* What a run that nobody has overtaken sees is what the file holds.       *)

Fresh(p) == p \in Signers /\ p \notin stale /\ pc[p] \in {"load", "read", "sign", "open"}

Looks ==
  \A p \in Procs :
    Fresh(p) =>
      /\ Settled
      /\ pc[p] \in {"load", "read"} => size[p] = Size(disk)
      /\ pc[p] = "read" => \A i \in 1 .. Len(data[p]) : i <= Len(disk) /\ data[p][i] = disk[i]
      /\ pc[p] = "sign" => data[p] = disk
      /\ pc[p] = "open" => /\ ECC_Sign(disk, KeyOf[p]).res = "append"
                           /\ data[p] = ECC_Sign(disk, KeyOf[p]).image

\* A creator has the bundle in memory before it opens the file.
Creates ==
  \A p \in Creators :
    pc[p] \in {"open", "write", "flush"} => data[p] = Unsigned(PayloadOf[p])

LooksInv == TypeInv /\ Looks /\ Creates

\* The end of a run changes the file only if the run was writing it.
LEMMA LooksExit ==
  ASSUME LooksInv, TypeInv', NEW p \in Procs, NEW status, Exit(p, status),
         disk' = disk \/ Writing(p)
  PROVE  LooksInv'
<1>1. TypeInv /\ Looks /\ Creates
  BY DEF LooksInv
<1>2. /\ pc'[p] = "idle" /\ stale' = stale \ {p}
      /\ \A q \in Procs : q # p => pc'[q] = pc[q] /\ data'[q] = data[q] /\ size'[q] = size[q]
  BY <1>1 DEF Exit, Goto, TypeInv, TypeOK
<1>3. Creates'
  BY <1>1, <1>2 DEF Creates, Procs
<1>4. Looks'
  <2> SUFFICES ASSUME NEW q \in Procs, Fresh(q)'
               PROVE  (/\ Settled
                       /\ pc[q] \in {"load", "read"} => size[q] = Size(disk)
                       /\ pc[q] = "read" =>
                            \A i \in 1 .. Len(data[q]) : i <= Len(disk) /\ data[q][i] = disk[i]
                       /\ pc[q] = "sign" => data[q] = disk
                       /\ pc[q] = "open" => /\ ECC_Sign(disk, KeyOf[q]).res = "append"
                                            /\ data[q] = ECC_Sign(disk, KeyOf[q]).image)'
    BY DEF Looks
  <2>1. q # p
    BY <1>2 DEF Fresh
  <2>2. Fresh(q) /\ pc'[q] = pc[q] /\ data'[q] = data[q] /\ size'[q] = size[q]
    BY <1>2, <2>1 DEF Fresh
  <2>3. Settled
    BY <1>1, <2>2 DEF Looks
  <2>4. Settled' /\ disk' = disk
    BY <1>2, <2>3 DEF Settled, Writing
  <2> QED
    BY <1>1, <2>2, <2>4 DEF Looks
<1> QED
  BY <1>3, <1>4 DEF LooksInv

\* A step of another run leaves what p sees as it is, unless it opens the file.
LEMMA LooksOther ==
  ASSUME TypeInv, Looks, NEW p \in Procs, NEW q \in Procs, q # p, Fresh(p)', Fresh(p),
         Settled => Settled', disk' = disk \/ Writing(q),
         pc'[p] = pc[p], data'[p] = data[p], size'[p] = size[p]
  PROVE  (/\ Settled
          /\ pc[p] \in {"load", "read"} => size[p] = Size(disk)
          /\ pc[p] = "read" => \A i \in 1 .. Len(data[p]) : i <= Len(disk) /\ data[p][i] = disk[i]
          /\ pc[p] = "sign" => data[p] = disk
          /\ pc[p] = "open" => /\ ECC_Sign(disk, KeyOf[p]).res = "append"
                               /\ data[p] = ECC_Sign(disk, KeyOf[p]).image)'
<1>1. Settled
  BY DEF Looks
<1>2. disk' = disk
  BY <1>1 DEF Settled
<1> QED
  BY <1>1, <1>2 DEF Looks

\* Reading a file that stays as it is.
LEMMA ReadLooks ==
  ASSUME TypeInv, NEW p \in Procs, ReadBlock(p), size[p] = Size(disk),
         \A i \in 1 .. Len(data[p]) : i <= Len(disk) /\ data[p][i] = disk[i]
  PROVE  /\ pc'[p] = "read" => \A i \in 1 .. Len(data'[p]) : i <= Len(disk) /\ data'[p][i] = disk[i]
         /\ pc'[p] = "sign" => data'[p] = disk
<1>1. /\ disk \in File /\ size[p] \in Nat /\ data[p] \in File /\ Len(disk) \in Nat
      /\ DOMAIN data[p] = 1 .. Len(data[p])
  BY DEF TypeInv, TypeOK, File
<1>2. Wanted(p) = Len(disk) /\ BlockEnd(p) \in 0 .. Len(disk)
  BY <1>1, TargetIs, ReadableType
<1>3. \A i \in 1 .. Len(disk) : CellRead(p, i) = disk[i]
  <2>1. Target(p) = [i \in 1 .. Len(disk) |-> CellRead(p, i)] /\ Target(p) = disk
    BY <1>2, TargetIs DEF Target
  <2> QED
    BY <2>1
<1>4. /\ data'[p] = [i \in 1 .. BlockEnd(p) |->
                       IF i \in DOMAIN data[p] THEN data[p][i] ELSE CellRead(p, i)]
      /\ pc'[p] = IF BlockEnd(p) = Wanted(p) THEN "sign" ELSE "read"
  BY DEF ReadBlock, Goto, TypeInv, TypeOK
<1>5. data'[p] = [i \in 1 .. BlockEnd(p) |-> disk[i]]
  BY <1>1, <1>2, <1>3, <1>4
<1>6. Len(data'[p]) = BlockEnd(p)
  <2>1. DOMAIN data'[p] = 1 .. BlockEnd(p)
    BY <1>5
  <2>2. data'[p] \in File
    BY <1>1, <1>4, ReadType
  <2> QED
    BY <1>2, <2>1, <2>2 DEF File
<1>7. disk = [i \in 1 .. Len(disk) |-> disk[i]]
  BY <1>1 DEF File
<1> QED
  BY <1>2, <1>4, <1>5, <1>6, <1>7

LEMMA LooksStep ==
  ASSUME SignatureNumbers, LooksInv, [Next]_vars
  PROVE  LooksInv'
<1>1. TypeInv /\ TypeInv' /\ Looks /\ Creates
  BY TypeStep DEF LooksInv
<1> DEFINE Sees(p) == /\ Settled
                      /\ pc[p] \in {"load", "read"} => size[p] = Size(disk)
                      /\ pc[p] = "read" =>
                           \A i \in 1 .. Len(data[p]) : i <= Len(disk) /\ data[p][i] = disk[i]
                      /\ pc[p] = "sign" => data[p] = disk
                      /\ pc[p] = "open" => /\ ECC_Sign(disk, KeyOf[p]).res = "append"
                                           /\ data[p] = ECC_Sign(disk, KeyOf[p]).image
<1>0. Signers \cap Creators = {}
  BY ProcAssumption
<1>2. ASSUME NEW q \in Procs,
             \A p \in Procs : p # q => pc'[p] = pc[p] /\ data'[p] = data[p] /\ size'[p] = size[p],
             stale' = stale, Settled => Settled', disk' = disk \/ Writing(q),
             NEW p \in Procs, p # q, Fresh(p)'
      PROVE  Sees(p)'
  <2>1. Fresh(p)
    BY <1>2 DEF Fresh
  <2> QED
    BY <1>1, <1>2, <2>1, LooksOther
<1>3. ASSUME NEW p \in Procs, StartSign(p) PROVE LooksInv'
  <2>1. /\ pc'[p] = "stat" /\ stale' = stale /\ disk' = disk /\ data' = data /\ size' = size
        /\ \A q \in Procs : q # p => pc'[q] = pc[q]
    BY <1>1, <1>3 DEF StartSign, Begin, Goto, hist, TypeInv, TypeOK
  <2>2. Settled => Settled'
    BY <2>1 DEF Settled, Writing
  <2>3. Looks'
    BY <1>2, <2>1, <2>2 DEF Looks, Fresh
  <2> QED
    BY <1>1, <2>1, <2>3 DEF LooksInv, Creates, Procs
<1>4. ASSUME NEW p \in Procs, StartCreate(p) PROVE LooksInv'
  <2>1. /\ p \in Creators /\ pc'[p] = "open" /\ data'[p] = Unsigned(PayloadOf[p])
        /\ stale' = stale /\ disk' = disk /\ size' = size
        /\ \A q \in Procs : q # p => pc'[q] = pc[q] /\ data'[q] = data[q]
    BY <1>1, <1>4 DEF StartCreate, Begin, Goto, hist, TypeInv, TypeOK
  <2>2. Settled => Settled'
    BY <2>1 DEF Settled, Writing
  <2>3. ~Fresh(p)'
    BY <1>0, <2>1 DEF Fresh
  <2>4. Looks'
    BY <1>2, <2>1, <2>2, <2>3 DEF Looks
  <2> QED
    BY <1>1, <2>1, <2>4 DEF LooksInv, Creates, Procs
<1>5. ASSUME NEW p \in Procs, StatBundle(p) PROVE LooksInv'
  <2>1. /\ pc[p] = "stat" /\ pc'[p] = "load" /\ size'[p] = Size(disk) /\ disk' = disk /\ data' = data
        /\ \A q \in Procs : q # p => pc'[q] = pc[q] /\ size'[q] = size[q]
        /\ stale' = IF Settled THEN stale ELSE stale \cup {p}
    BY <1>1, <1>5 DEF StatBundle, Goto, TypeInv, TypeOK, Settled
  <2>2. Settled => Settled'
    BY <2>1 DEF Settled, Writing
  <2>3. Fresh(p)' => Sees(p)'
    BY <2>1, <2>2 DEF Fresh
  <2>4. ASSUME NEW q \in Procs, q # p, Fresh(q)' PROVE Sees(q)'
    <3>1. Fresh(q)
      BY <2>1, <2>4 DEF Fresh
    <3> QED
      BY <1>1, <2>1, <2>2, <2>4, <3>1, LooksOther
  <2>5. Looks'
    BY <2>3, <2>4 DEF Looks
  <2>6. p \in Signers
    BY <1>1, <2>1 DEF TypeInv, SignersRead
  <2> QED
    BY <1>0, <1>1, <2>1, <2>5, <2>6 DEF LooksInv, Creates, Procs
<1>6. ASSUME NEW p \in Procs, OpenBundle(p) PROVE LooksInv'
  <2>1. /\ pc[p] = "load" /\ pc'[p] = "read" /\ size' = size /\ disk' = disk /\ data' = data
        /\ \A q \in Procs : q # p => pc'[q] = pc[q]
        /\ stale' = stale
    BY <1>1, <1>6 DEF OpenBundle, Goto, TypeInv, TypeOK, hist
  <2>2. Settled => Settled'
    BY <2>1 DEF Settled, Writing
  <2>5. data[p] = <<>>
    BY <1>1, <2>1 DEF TypeInv, Unread
  <2>3. Fresh(p)' => Sees(p)'
    BY <1>1, <2>1, <2>2, <2>5 DEF Fresh, Looks
  <2>4. Looks'
    BY <1>2, <2>1, <2>2, <2>3 DEF Looks
  <2> QED
    BY <1>1, <2>1, <2>4 DEF LooksInv, Creates, Procs
<1>7. ASSUME NEW p \in Procs, ReadBlock(p) PROVE LooksInv'
  <2>1. /\ pc[p] = "read" /\ pc'[p] \in {"read", "sign"} /\ size' = size /\ disk' = disk
        /\ \A q \in Procs : q # p => pc'[q] = pc[q] /\ data'[q] = data[q]
        /\ stale' = stale
    BY <1>1, <1>7 DEF ReadBlock, Goto, TypeInv, TypeOK, hist
  <2>2. Settled => Settled'
    BY <2>1 DEF Settled, Writing
  <2>3. ASSUME Fresh(p)
        PROVE  /\ pc'[p] = "read" => \A i \in 1 .. Len(data'[p]) : i <= Len(disk) /\ data'[p][i] = disk[i]
               /\ pc'[p] = "sign" => data'[p] = disk
    BY <1>1, <1>7, <2>1, <2>3, ReadLooks DEF Looks
  <2>4. Fresh(p)' => Sees(p)'
    BY <1>1, <2>1, <2>2, <2>3 DEF Fresh, Looks
  <2>5. Looks'
    BY <1>2, <2>1, <2>2, <2>4 DEF Looks
  <2>6. p \in Signers
    BY <1>1, <2>1 DEF TypeInv, SignersRead
  <2> QED
    BY <1>0, <1>1, <2>1, <2>5, <2>6 DEF LooksInv, Creates, Procs
<1>8. ASSUME NEW p \in Procs, AppendSignature(p) PROVE LooksInv'
  <2>1. /\ pc[p] = "sign" /\ pc'[p] = "open" /\ size' = size /\ disk' = disk
        /\ Verdict(p).res = "append" /\ data'[p] = Verdict(p).image
        /\ \A q \in Procs : q # p => pc'[q] = pc[q] /\ data'[q] = data[q]
        /\ stale' = stale
    BY <1>1, <1>8 DEF AppendSignature, Goto, TypeInv, TypeOK, hist
  <2>2. Settled => Settled'
    BY <2>1 DEF Settled, Writing
  <2>3. Fresh(p)' => Sees(p)'
    BY <1>1, <2>1, <2>2 DEF Fresh, Looks, Verdict
  <2>4. Looks'
    BY <1>2, <2>1, <2>2, <2>3 DEF Looks
  <2>5. p \in Signers
    BY <1>1, <2>1 DEF TypeInv, SignersRead
  <2> QED
    BY <1>0, <1>1, <2>1, <2>4, <2>5 DEF LooksInv, Creates, Procs
<1>9. ASSUME NEW p \in Procs, OpenTruncates(p) PROVE LooksInv'
  <2>1. /\ pc[p] = "open" /\ pc'[p] = "write" /\ data' = data /\ size' = size
        /\ \A q \in Procs : q # p => pc'[q] = pc[q]
        /\ stale' = stale \cup {q \in Signers \ {p} : pc[q] \notin {"idle", "stat"}}
    BY <1>1, <1>9 DEF OpenTruncates, Goto, TypeInv, TypeOK
  <2>2. \A q \in Procs : ~Fresh(q)'
    BY <2>1 DEF Fresh
  <2> QED
    BY <1>1, <2>1, <2>2 DEF LooksInv, Looks, Creates, Procs
<1>10. ASSUME NEW p \in Procs, WriteBlocks(p) PROVE LooksInv'
  <2>1. /\ Writing(p) /\ pc'[p] = "flush" /\ pc[p] = "write" /\ data' = data /\ size' = size
        /\ \A q \in Procs : q # p => pc'[q] = pc[q]
        /\ stale' = stale
    BY <1>1, <1>10 DEF WriteBlocks, Goto, TypeInv, TypeOK, hist, Writing
  <2>2. Settled => Settled'
    BY <2>1 DEF Settled
  <2>3. Looks'
    BY <1>2, <2>1, <2>2 DEF Looks, Fresh
  <2> QED
    BY <1>1, <2>1, <2>3 DEF LooksInv, Creates, Procs
<1>11. ASSUME NEW p \in Procs,
              \/ LoadFails(p) \/ RejectBundle(p) \/ KeyFails(p) \/ SignaturePresent(p)
              \/ OpenFails(p) \/ Crash(p) \/ FlushAndExit(p) \/ WriteFails(p) \/ FlushFails(p)
       PROVE  LooksInv'
  <2>1. (\E status : Exit(p, status)) /\ (disk' = disk \/ Writing(p))
    BY <1>11 DEF LoadFails, RejectBundle, KeyFails, SignaturePresent, OpenFails, Crash,
       FlushAndExit, WriteFails, FlushFails, Writing
  <2> QED
    BY <1>1, <2>1, LooksExit
<1>12. CASE UNCHANGED vars
  <2>1. Settled' = Settled
    BY <1>12 DEF vars, Settled, Writing
  <2> QED
    BY <1>1, <1>12, <2>1 DEF vars, LooksInv, Looks, Creates, Fresh
<1> QED
  BY <1>3, <1>4, <1>5, <1>6, <1>7, <1>8, <1>9, <1>10, <1>11, <1>12
     DEF Next, Advance, Trouble, Done

LEMMA LooksInitial == Init => LooksInv
BY TypeInitial DEF Init, LooksInv, Looks, Creates, Fresh, Procs

LEMMA LooksAlways == SignatureNumbers => (Spec => []LooksInv)
<1> SUFFICES ASSUME SignatureNumbers PROVE Spec => []LooksInv
  OBVIOUS
<1>1. LooksInv /\ [Next]_vars => LooksInv'
  BY LooksStep
<1> QED
  BY <1>1, LooksInitial, PTL DEF Spec

-----------------------------------------------------------------------------
(* No signature is lost.                                                   *)

\* ECC_Sign on a file that holds a bundle and all its entries: it adds the
\* signature when it is not there, and keeps the others.
LEMMA FullSign ==
  ASSUME SignatureNumbers, NEW f \in File, NEW key \in Keys, NEW P \in Stored, Full(f, P)
  PROVE  LET v == ECC_Sign(f, key)
         IN  /\ v.res # "invalid"
             /\ v.res = "present" => key \in SignersOf(f)
             /\ v.res = "append" =>
                  /\ key \notin SignersOf(f)
                  /\ v.image = ECC_AppendSignature(f, key, Signable(P))
                  /\ Full(v.image, P)
                  /\ SignersOf(v.image) = SignersOf(f) \cup {key}
<1> DEFINE g == ECC_AppendSignature(f, key, Signable(P))
<1>1. P \in File /\ Signature(key, Signable(P)) \in Nat
  BY StoredFacts DEF SignatureNumbers
<1>2. Tidy(f, P) /\ Len(f) >= End(P)
  BY DEF Full
<1>3. IsBundle(f)
  BY <1>1, <1>2, PayloadFound DEF Tidy
<1>4. RegionOf(f) = Signable(P)
  BY <1>1, <1>2, WholeRegion DEF Whole, Tidy
<1>5. ECC_FindSignature(f, key, Signable(P)) <=> key \in SignersOf(f)
  BY <1>1, FindFull
<1>6. Full(g, P)
  BY <1>1, AppendFull
<1>7. SignersOf(g) = SignersOf(f) \cup {key}
  BY <1>1, AppendSigners
<1> HIDE DEF g
<1>8. ECC_Sign(f, key) = IF ECC_FindSignature(f, key, Signable(P))
                         THEN [res |-> "present", image |-> <<>>]
                         ELSE [res |-> "append", image |-> g]
  BY <1>3, <1>4 DEF ECC_Sign, Outcome, g
<1> QED
  BY <1>5, <1>6, <1>7, <1>8 DEF g

\* The file holds what was promised.
Holds(f) == \E P \in Stored : Full(f, P) /\ promised \subseteq SignersOf(f)

\* What was promised is in the file, or in the memory of the run that is writing it.
\* What a creator writes is whole even if the file it replaces was not.
KeepsPromises ==
  /\ ~fault /\ Settled => Holds(disk)
  /\ \A p \in Procs :
       Writing(p) /\ (p \in Creators \/ ~fault) =>
         Holds(data[p]) /\ (p \in Signers => KeyOf[p] \in SignersOf(data[p]))

LossInv == FilesInv /\ LooksInv /\ (~raced /\ ~clash => KeepsPromises)

LEMMA LossInitial == Init => LossInv
<1> SUFFICES ASSUME Init PROVE LossInv
  OBVIOUS
<1>1. FilesInv /\ LooksInv
  BY FilesInitial, LooksInitial
<1>2. Holds(disk)
  <2> DEFINE P == SubSeq(disk, 5, Len(disk))
  <2>1. disk \in Initial /\ P \in Stored
    BY DEF Init, Stored
  <2>2. disk = Unsigned(P)
    BY <2>1, InitialAssumption
  <2>3. Full(Unsigned(P), P)
    BY <2>1, StoredFacts, UnsignedFull
  <2> HIDE DEF P
  <2>4. promised = {}
    BY DEF Init
  <2> QED
    BY <2>1, <2>2, <2>3, <2>4 DEF Holds
<1>3. \A p \in Procs : ~Writing(p)
  BY DEF Init, Writing
<1> QED
  BY <1>1, <1>2, <1>3 DEF LossInv, KeepsPromises

\* The end of a run that was not writing: only what it reports can matter.
LEMMA LossExit ==
  ASSUME TypeInv, KeepsPromises, NEW p \in Procs, NEW status, Exit(p, status), ~Writing(p),
         disk' = disk, fault' = fault,
         promised' # promised => Settled /\ (~fault => Holds(disk)')
  PROVE  KeepsPromises'
<1>1. /\ pc'[p] = "idle"
      /\ \A q \in Procs : q # p => pc'[q] = pc[q] /\ data'[q] = data[q]
  BY DEF Exit, Goto, TypeInv, TypeOK
<1>2. \A q \in Procs : Writing(q)' => q # p /\ Writing(q) /\ data'[q] = data[q]
  BY <1>1 DEF Writing
<1>3. Settled' = Settled
  BY <1>1 DEF Settled, Writing
<1>4. CASE promised' = promised
  BY <1>2, <1>3, <1>4 DEF KeepsPromises, Holds
<1>5. CASE promised' # promised
  <2>1. p \in Signers /\ p \notin stale /\ status = "ok"
    BY <1>5 DEF Exit
  <2> QED
    BY <1>2, <1>3, <1>5 DEF KeepsPromises, Holds, Settled
<1> QED
  BY <1>4, <1>5

\* A run starts, looks at the file or signs it in memory: the file, the writers and
\* the promises stay.
LEMMA LossQuiet ==
  ASSUME TypeInv, KeepsPromises, NEW p \in Procs, ~Writing(p), ~Writing(p)',
         \A q \in Procs : q # p => pc'[q] = pc[q] /\ data'[q] = data[q],
         disk' = disk, fault' = fault, promised' = promised
  PROVE  KeepsPromises'
<1>1. \A q \in Procs : Writing(q)' => Writing(q) /\ data'[q] = data[q]
  BY DEF Writing
<1>2. Settled' = Settled
  BY DEF Settled, Writing
<1> QED
  BY <1>1, <1>2 DEF KeepsPromises, Holds

\* A run opens the file for writing: its new contents are in memory.
LEMMA LossOpen ==
  ASSUME SignatureNumbers, LossInv, TypeInv', NEW p \in Procs, OpenTruncates(p), ~raced', ~clash'
  PROVE  KeepsPromises'
<1>1. /\ TypeInv /\ Settled /\ p \notin stale /\ ~raced /\ ~clash /\ pc[p] = "open"
      /\ data' = data /\ fault' = fault
      /\ promised' = IF p \in Creators THEN {} ELSE promised
      /\ \A q \in Procs : Writing(q)' => q = p
      /\ Writing(p)'
  <2>1. TypeInv
    BY DEF LossInv, FilesInv
  <2> QED
    BY <2>1 DEF OpenTruncates, Goto, TypeInv, TypeOK, Settled, Writing
<1>2. KeepsPromises /\ LooksInv /\ Signers \cap Creators = {}
  BY <1>1, ProcAssumption DEF LossInv
<1>3. CASE p \in Creators
  <2> DEFINE P == PayloadOf[p]
  <2>1. P \in Stored /\ data[p] = Unsigned(P)
    BY <1>1, <1>2, <1>3 DEF LooksInv, Creates, Stored
  <2> HIDE DEF P
  <2>2. Full(data[p], P)
    BY <2>1, StoredFacts, UnsignedFull
  <2>3. Holds(data[p])'
    BY <1>1, <1>3, <2>1, <2>2 DEF Holds
  <2> QED
    BY <1>1, <1>2, <1>3, <2>3 DEF KeepsPromises, Settled
<1>4. CASE p \in Signers
  <2> SUFFICES ASSUME ~fault
               PROVE  Holds(data[p])' /\ KeyOf[p] \in SignersOf(data[p])
    BY <1>1, <1>2, <1>4 DEF KeepsPromises, Settled
  <2>1. PICK P \in Stored : Full(disk, P) /\ promised \subseteq SignersOf(disk)
    BY <1>1, <1>2 DEF KeepsPromises, Holds
  <2>2. ECC_Sign(disk, KeyOf[p]).res = "append" /\ data[p] = ECC_Sign(disk, KeyOf[p]).image
    BY <1>1, <1>2, <1>4 DEF LooksInv, Looks, Fresh
  <2>3. disk \in File /\ KeyOf[p] \in Keys
    BY <1>1, <1>4, ProcAssumption DEF TypeInv, TypeOK, File
  <2>4. Full(data[p], P) /\ SignersOf(data[p]) = SignersOf(disk) \cup {KeyOf[p]}
    BY <2>1, <2>2, <2>3, FullSign
  <2>5. promised' = promised
    BY <1>1, <1>2, <1>4
  <2> QED
    BY <1>1, <2>1, <2>4, <2>5 DEF Holds
<1> QED
  BY <1>3, <1>4 DEF Procs

\* fclose writes what fwrite had kept back: the file is what the run had in memory.
LEMMA FlushWhole ==
  ASSUME TypeInv, NEW p \in Procs, PartAt(p), FlushAndExit(p)
  PROVE  disk' = data[p]
BY WritesPiece

\* The last cells reach the file.
LEMMA LossFlush ==
  ASSUME LossInv, TypeInv', NEW p \in Procs, FlushAndExit(p), ~raced', ~clash'
  PROVE  KeepsPromises'
<1>1. /\ TypeInv /\ ~raced /\ ~clash /\ Writing(p) /\ pc[p] = "flush"
      /\ fault' = (fault /\ p \in Signers)
      /\ promised' \subseteq promised \cup {k \in {KeyOf[p]} : p \in Signers}
  BY DEF LossInv, FilesInv, FlushAndExit, Exit, Writing
<1>2. KeepsPromises /\ OneWriter /\ PartAt(p) /\ Signers \cap Creators = {}
  BY <1>1, ProcAssumption DEF LossInv, FilesInv
<1>3. Settled'
  BY <1>1, <1>2 DEF FlushAndExit, Exit, Goto, TypeInv, TypeOK, OneWriter, Settled, Writing
<1> SUFFICES ASSUME ~fault' PROVE Holds(disk)'
  BY <1>3 DEF KeepsPromises, Settled
<1>4. p \in Creators \/ ~fault
  BY <1>1 DEF Procs
<1>5. PICK P \in Stored : Full(data[p], P) /\ promised \subseteq SignersOf(data[p])
  BY <1>1, <1>2, <1>4 DEF KeepsPromises, Holds
<1>6. p \in Signers => KeyOf[p] \in SignersOf(data[p])
  BY <1>1, <1>2, <1>4 DEF KeepsPromises
<1>7. disk' = data[p]
  BY <1>1, <1>2, FlushWhole
<1> QED
  BY <1>1, <1>5, <1>6, <1>7 DEF Holds

LEMMA LossStep ==
  ASSUME SignatureNumbers, LossInv, [Next]_vars
  PROVE  LossInv'
<1>1. FilesInv' /\ LooksInv' /\ TypeInv /\ TypeInv' /\ FilesInv /\ LooksInv
  BY FilesStep, LooksStep DEF LossInv, FilesInv
<1> SUFFICES ASSUME ~raced', ~clash' PROVE KeepsPromises'
  BY <1>1 DEF LossInv
<1>2. ASSUME NEW p \in Procs, OpenTruncates(p) PROVE KeepsPromises'
  BY <1>1, <1>2, LossOpen
<1>3. ASSUME NEW p \in Procs, FlushAndExit(p) PROVE KeepsPromises'
  BY <1>1, <1>3, LossFlush
<1>4. ASSUME raced' = raced, clash' = clash PROVE KeepsPromises
  BY <1>4 DEF LossInv
<1>5. ASSUME NEW p \in Procs,
             \/ StartSign(p) \/ StartCreate(p) \/ StatBundle(p) \/ OpenBundle(p) \/ ReadBlock(p)
             \/ AppendSignature(p)
      PROVE  KeepsPromises'
  <2>1. /\ ~Writing(p) /\ ~Writing(p)' /\ UNCHANGED <<disk, fault, promised, raced, clash>>
        /\ \A q \in Procs : q # p => pc'[q] = pc[q] /\ data'[q] = data[q]
    BY <1>1, <1>5 DEF StartSign, StartCreate, Begin, StatBundle, OpenBundle, ReadBlock,
       AppendSignature, Goto, hist, TypeInv, TypeOK, Writing
  <2> QED
    BY <1>1, <1>4, <2>1, LossQuiet
<1>6. ASSUME NEW p \in Procs, LoadFails(p) \/ RejectBundle(p) \/ KeyFails(p) PROVE KeepsPromises'
  <2>1. Exit(p, "fail") /\ ~Writing(p) /\ UNCHANGED <<disk, fault, raced, clash>>
    BY <1>6 DEF LoadFails, RejectBundle, KeyFails, Writing
  <2>2. promised' = promised
    BY <2>1 DEF Exit
  <2> QED
    BY <1>1, <1>4, <2>1, <2>2, LossExit
<1>7. ASSUME NEW p \in Procs, SignaturePresent(p) PROVE KeepsPromises'
  <2>1. /\ Exit(p, "ok") /\ ~Writing(p) /\ UNCHANGED <<disk, fault, raced, clash>>
        /\ pc[p] = "sign" /\ Verdict(p).res = "present"
    BY <1>7 DEF SignaturePresent, Writing
  <2>2. ASSUME promised' # promised PROVE Settled /\ (~fault => Holds(disk)')
    <3>1. p \in Signers /\ p \notin stale /\ promised' = promised \cup {KeyOf[p]}
      BY <2>1, <2>2 DEF Exit
    <3>2. Settled /\ data[p] = disk
      BY <1>1, <2>1, <3>1 DEF LooksInv, Looks, Fresh
    <3> SUFFICES ASSUME ~fault PROVE Holds(disk)'
      BY <3>2
    <3>3. PICK P \in Stored : Full(disk, P) /\ promised \subseteq SignersOf(disk)
      BY <1>4, <2>1, <3>2 DEF KeepsPromises, Holds
    <3>4. disk \in File /\ KeyOf[p] \in Keys
      BY <1>1, <3>1, ProcAssumption DEF TypeInv, TypeOK, File
    <3>5. KeyOf[p] \in SignersOf(disk)
      BY <2>1, <3>2, <3>3, <3>4, FullSign DEF Verdict
    <3> QED
      BY <2>1, <3>1, <3>2, <3>3, <3>5 DEF Holds
  <2> QED
    BY <1>1, <1>4, <2>1, <2>2, LossExit
<1>8. ASSUME NEW p \in Procs, Crash(p), ~Writing(p) PROVE KeepsPromises'
  <2>1. Exit(p, "killed") /\ UNCHANGED <<disk, fault, raced, clash>>
    BY <1>8 DEF Crash, FilesInv, LossInv, TypeInv, TypeOK
  <2>2. promised' = promised
    BY <2>1 DEF Exit
  <2> QED
    BY <1>1, <1>4, <1>8, <2>1, <2>2, LossExit
<1>9. ASSUME NEW p \in Procs, WriteBlocks(p) PROVE KeepsPromises'
  <2>1. /\ Writing(p) /\ Writing(p)' /\ UNCHANGED <<fault, promised, raced, clash, data>>
        /\ \A q \in Procs : Writing(q)' = Writing(q)
    BY <1>1, <1>9 DEF WriteBlocks, Goto, hist, TypeInv, TypeOK, Writing
  <2> QED
    BY <1>4, <2>1 DEF KeepsPromises, Holds, Settled
<1>10. ASSUME NEW p \in Procs, NEW status, Exit(p, status), fault' = TRUE, raced' = raced,
              clash' = clash, Writing(p) \/ Settled \/ promised' = promised
       PROVE  KeepsPromises'
  <2>1. pc'[p] = "idle" /\ \A q \in Procs : q # p => pc'[q] = pc[q] /\ data'[q] = data[q]
    BY <1>1, <1>10 DEF Exit, Goto, TypeInv, TypeOK
  <2>2. \A q \in Procs : Writing(q)' => q # p /\ Writing(q) /\ data'[q] = data[q]
    BY <2>1 DEF Writing
  <2>3. OneWriter
    BY <1>1, <1>10 DEF FilesInv
  <2>4. (\A q \in Procs : ~Writing(q)') \/ promised' = promised
    BY <1>10, <2>2, <2>3 DEF OneWriter, Settled
  <2> QED
    BY <1>4, <1>10, <2>2, <2>4 DEF KeepsPromises, Holds
<1>11. ASSUME NEW p \in Procs, OpenFails(p) PROVE KeepsPromises'
  <2>1. /\ Exit(p, WriteFailedStatus(p)) /\ fault' = TRUE /\ raced' = raced /\ clash' = clash
        /\ pc[p] = "open"
    BY <1>11 DEF OpenFails
  <2>2. promised' # promised => p \in Signers /\ p \notin stale
    BY <2>1 DEF Exit
  <2>3. promised' # promised => Settled
    BY <1>1, <2>1, <2>2 DEF LooksInv, Looks, Fresh
  <2> QED
    BY <1>10, <2>1, <2>3
<1>12. ASSUME NEW p \in Procs,
              WriteFails(p) \/ FlushFails(p) \/ (Crash(p) /\ Writing(p))
       PROVE  KeepsPromises'
  <2>1. /\ \E status : Exit(p, status)
        /\ fault' = TRUE /\ raced' = raced /\ clash' = clash /\ Writing(p)
    BY <1>12 DEF WriteFails, FlushFails, Crash, Writing
  <2> QED
    BY <1>10, <2>1
<1>13. CASE UNCHANGED vars
  BY <1>4, <1>13 DEF vars, KeepsPromises, Holds, Settled, Writing
<1>14. ASSUME NEW p \in Procs, Advance(p) PROVE KeepsPromises'
  BY <1>2, <1>3, <1>5, <1>6, <1>7, <1>9, <1>14 DEF Advance
<1>15. ASSUME NEW p \in Procs, Trouble(p) PROVE KeepsPromises'
  <2>1. CASE Crash(p)
    BY <1>8, <1>12, <2>1
  <2>2. CASE KeyFails(p) \/ OpenFails(p) \/ WriteFails(p) \/ FlushFails(p)
    BY <1>6, <1>11, <1>12, <2>2
  <2> QED
    BY <1>15, <2>1, <2>2 DEF Trouble
<1> QED
  BY <1>5, <1>13, <1>14, <1>15 DEF Next, Done

LEMMA LossAlways == SignatureNumbers => (Spec => []LossInv)
<1> SUFFICES ASSUME SignatureNumbers PROVE Spec => []LossInv
  OBVIOUS
<1>1. LossInv /\ [Next]_vars => LossInv'
  BY LossStep
<1> QED
  BY <1>1, LossInitial, PTL DEF Spec

\* A signature that a run reported with exit status 0 is in the file whenever nobody
\* is writing it, however the runs interleave, fail and are killed, as long as no run
\* wrote over a file it had not seen, no two wrote at once, and no write was cut short
\* since the last "create".
THEOREM SigningNothingLost == SignatureNumbers => (Spec => []NothingLost)
<1>1. LossInv => NothingLost
  BY DEF LossInv, KeepsPromises, Holds, NothingLost
<1> QED
  BY <1>1, LossAlways, PTL

-----------------------------------------------------------------------------
(* Runs that follow one another, without I/O errors and kills.             *)

Sequential == Exclusive /\ ~CanFail /\ ~CanCrash

\* One run at a time, and nothing has gone wrong.
OneRun ==
  /\ \A p, q \in Procs : pc[p] # "idle" /\ pc[q] # "idle" => p = q
  /\ stale = {} /\ ~raced /\ ~clash /\ ~mixed /\ ~fault

RunInv == TypeInv /\ OneRun

LEMMA RunInitial == Init => RunInv
BY TypeInitial DEF Init, RunInv, OneRun

LEMMA RunStep ==
  ASSUME SignatureNumbers, Sequential, RunInv, [Next]_vars
  PROVE  RunInv'
<1>1. TypeInv /\ TypeInv' /\ OneRun
  BY TypeStep DEF RunInv
<1>2. ASSUME NEW p \in Procs, StartSign(p) \/ StartCreate(p) PROVE OneRun'
  BY <1>1, <1>2 DEF Sequential, StartSign, StartCreate, Begin, Goto, hist, TypeInv, TypeOK, OneRun
<1>3. ASSUME NEW p \in Procs, pc[p] # "idle",
             \A q \in Procs : q # p => pc'[q] = pc[q],
             stale' = {}, UNCHANGED <<raced, clash, mixed, fault>>
      PROVE  OneRun'
  BY <1>1, <1>3 DEF OneRun
<1>4. ASSUME NEW p \in Procs, NEW status, Exit(p, status), pc[p] # "idle",
             UNCHANGED <<raced, clash, mixed>>, ~fault'
      PROVE  OneRun'
  BY <1>1, <1>4 DEF Exit, Goto, TypeInv, TypeOK, OneRun
<1>5. ASSUME NEW p \in Procs, StatBundle(p) PROVE OneRun'
  <2>1. \A q \in Procs : ~Writing(q)
    BY <1>1, <1>5 DEF StatBundle, OneRun, Writing
  <2> QED
    BY <1>1, <1>3, <1>5, <2>1 DEF StatBundle, Goto, TypeInv, TypeOK, OneRun
<1>6. ASSUME NEW p \in Procs,
             OpenBundle(p) \/ ReadBlock(p) \/ AppendSignature(p) \/ WriteBlocks(p)
      PROVE  OneRun'
  <2>1. /\ pc[p] # "idle" /\ \A q \in Procs : q # p => pc'[q] = pc[q]
        /\ stale' = {} /\ UNCHANGED <<raced, clash, mixed, fault>>
    BY <1>1, <1>6 DEF OpenBundle, ReadBlock, AppendSignature, WriteBlocks, Goto, hist,
       TypeInv, TypeOK, OneRun
  <2> QED
    BY <1>3, <2>1
<1>7. ASSUME NEW p \in Procs, OpenTruncates(p) PROVE OneRun'
  <2>1. /\ pc[p] # "idle" /\ ~Writing(p) /\ \A q \in Procs : q # p => pc[q] = "idle"
    BY <1>1, <1>7 DEF OpenTruncates, OneRun, Writing
  <2>2. stale' = {} /\ UNCHANGED <<raced, clash, mixed, fault>>
    BY ZenonT(30), <1>1, <1>7, <2>1 DEF OpenTruncates, OneRun, Writing, Procs, TypeInv, TypeOK
  <2> QED
    BY <1>1, <1>3, <1>7, <2>1, <2>2 DEF OpenTruncates, Goto, TypeInv, TypeOK
<1>8. ASSUME NEW p \in Procs,
             \/ LoadFails(p) \/ RejectBundle(p) \/ SignaturePresent(p) \/ FlushAndExit(p)
             \/ KeyFails(p)
      PROVE  OneRun'
  <2>1. /\ \E status : Exit(p, status)
        /\ pc[p] # "idle" /\ UNCHANGED <<raced, clash, mixed>>
    BY <1>8 DEF LoadFails, RejectBundle, SignaturePresent, FlushAndExit, KeyFails
  <2>2. fault' = fault \/ fault' = (fault /\ p \in Signers)
    BY <1>8 DEF LoadFails, RejectBundle, SignaturePresent, FlushAndExit, KeyFails
  <2>3. ~fault'
    BY <1>1, <2>2 DEF OneRun
  <2> QED
    BY <1>4, <2>1, <2>3
<1>9. ASSUME NEW p \in Procs, Advance(p) PROVE OneRun'
  BY <1>5, <1>6, <1>7, <1>8, <1>9 DEF Advance
<1>10. ASSUME NEW p \in Procs, Trouble(p) PROVE OneRun'
  BY <1>8, <1>10 DEF Trouble, Sequential, OpenFails, WriteFails, FlushFails, Crash
<1>11. CASE UNCHANGED vars
  BY <1>1, <1>11 DEF vars, OneRun, RunInv
<1> QED
  BY <1>1, <1>2, <1>9, <1>10, <1>11 DEF Next, Done, RunInv

\* No key has two entries.
Distinct(f, P) == \A p, q \in Slots(f, P) : f[p + 2] = f[q + 2] => p = q

LEMMA AppendDistinct ==
  ASSUME SignatureNumbers, NEW f \in File, NEW key \in Keys, NEW P \in Stored,
         Full(f, P), Distinct(f, P), ECC_Sign(f, key).res = "append"
  PROVE  Distinct(ECC_Sign(f, key).image, P)
<1> DEFINE g == ECC_AppendSignature(f, key, Signable(P))
           e == IF Len(f) = End(P) THEN Base(P) ELSE Len(f)
<1>1. P \in File /\ Signature(key, Signable(P)) \in Nat
  BY StoredFacts DEF SignatureNumbers
<1>2. key \notin SignersOf(f) /\ ECC_Sign(f, key).image = g
  BY FullSign
<1>3. /\ Slots(g, P) = Slots(f, P) \cup {e}
      /\ \A p \in Slots(f, P) : g[p + 2] = f[p + 2]
      /\ g[e + 2] = PubKey(key)
  BY <1>1, AppendFull
<1> HIDE DEF g, e
<1>4. \A p \in Slots(f, P) : f[p + 2] # PubKey(key)
  BY <1>1, <1>2, FullSigners
<1>5. Distinct(g, P)
  BY <1>3, <1>4 DEF Distinct
<1> QED
  BY <1>2, <1>5

\* The bundle, on disk or in the memory of the run that is writing it.
Good(f) == \E P \in Stored : Full(f, P) /\ Distinct(f, P)

LedgerInv ==
  /\ RunInv /\ FilesInv /\ LooksInv
  /\ Settled => Good(disk)
  /\ \A p \in Procs :
       Writing(p) => /\ Good(data[p])
                     /\ p \in Signers => KeyOf[p] \in SignersOf(data[p])
  /\ \A p \in Procs : pc[p] # "idle" => code[p] = "none"

LEMMA LedgerInitial == Init => LedgerInv
<1> SUFFICES ASSUME Init PROVE LedgerInv
  OBVIOUS
<1>1. RunInv /\ FilesInv /\ LooksInv
  BY RunInitial, FilesInitial, LooksInitial
<1>2. Good(disk)
  <2> DEFINE P == SubSeq(disk, 5, Len(disk))
  <2>1. disk \in Initial /\ P \in Stored
    BY DEF Init, Stored
  <2>2. disk = Unsigned(P)
    BY <2>1, InitialAssumption
  <2>3. Full(Unsigned(P), P) /\ Slots(Unsigned(P), P) = {}
    BY <2>1, StoredFacts, UnsignedFull
  <2> HIDE DEF P
  <2> QED
    BY <2>1, <2>2, <2>3 DEF Good, Distinct
<1> QED
  BY <1>1, <1>2 DEF Init, LedgerInv, Writing

\* What a run that opens the file has in memory is the new entry in the ledger.
LEMMA LedgerOpen ==
  ASSUME SignatureNumbers, LedgerInv, NEW p \in Procs, OpenTruncates(p)
  PROVE  /\ Settled /\ Good(data[p])
         /\ p \in Creators => /\ data[p] = Unsigned(PayloadOf[p])
                              /\ SignersOf(data[p]) = {}
         /\ p \in Signers => /\ SignersOf(data[p]) = SignersOf(disk) \cup {KeyOf[p]}
                             /\ RegionOf(data[p]) = RegionOf(disk)
<1>1. /\ TypeInv /\ pc[p] = "open" /\ Settled /\ stale = {} /\ LooksInv
      /\ Signers \cap Creators = {}
  <2>1. RunInv /\ LooksInv /\ pc[p] = "open"
    BY DEF LedgerInv, OpenTruncates
  <2> QED
    BY <2>1, ProcAssumption DEF RunInv, OneRun, Settled, Writing
<1>2. CASE p \in Creators
  <2> DEFINE P == PayloadOf[p]
  <2>1. P \in Stored /\ data[p] = Unsigned(P)
    BY <1>1, <1>2 DEF LooksInv, Creates, Stored
  <2>2. P \in File /\ Unsigned(P) \in File
    BY <1>2, UnsignedType
  <2> HIDE DEF P
  <2>3. Full(data[p], P) /\ Slots(data[p], P) = {}
    BY <2>1, <2>2, UnsignedFull
  <2>4. \A k \in Keys : k \notin SignersOf(data[p])
    BY <2>1, <2>2, <2>3, FullSigners
  <2>5. SignersOf(data[p]) = {}
    BY <2>4 DEF SignersOf
  <2> QED
    BY <1>1, <1>2, <2>1, <2>3, <2>5 DEF Good, Distinct, P
<1>3. CASE p \in Signers
  <2>1. PICK P \in Stored : Full(disk, P) /\ Distinct(disk, P)
    BY <1>1 DEF LedgerInv, Good
  <2>2. ECC_Sign(disk, KeyOf[p]).res = "append" /\ data[p] = ECC_Sign(disk, KeyOf[p]).image
    BY <1>1, <1>3 DEF LooksInv, Looks, Fresh
  <2>3. disk \in File /\ KeyOf[p] \in Keys /\ data[p] \in File /\ P \in File
    BY <1>1, <1>3, ProcAssumption, StoredFacts DEF TypeInv, TypeOK, File
  <2>4. Full(data[p], P) /\ SignersOf(data[p]) = SignersOf(disk) \cup {KeyOf[p]}
    BY <2>1, <2>2, <2>3, FullSign
  <2>5. Distinct(data[p], P)
    BY <2>1, <2>2, <2>3, AppendDistinct
  <2>6. RegionOf(data[p]) = Signable(P)
    BY <2>3, <2>4, WholeRegion DEF Full, Tidy, Whole
  <2>7. RegionOf(disk) = Signable(P)
    BY <2>1, <2>3, WholeRegion DEF Full, Tidy, Whole
  <2> QED
    BY <1>1, <1>3, <2>4, <2>5, <2>6, <2>7 DEF Good
<1> QED
  BY <1>2, <1>3 DEF Procs

\* A run that finds its signature in the file has signed it.
LEMMA LedgerPresent ==
  ASSUME SignatureNumbers, LedgerInv, NEW p \in Procs, SignaturePresent(p)
  PROVE  p \in Signers /\ KeyOf[p] \in SignersOf(disk)
<1>1. RunInv /\ LooksInv /\ pc[p] = "sign" /\ Verdict(p).res = "present"
  BY DEF LedgerInv, SignaturePresent
<1>2. TypeInv /\ Settled /\ p \in Signers /\ stale = {}
  BY <1>1 DEF RunInv, OneRun, Settled, Writing, TypeInv, SignersRead
<1>3. PICK P \in Stored : Full(disk, P)
  BY <1>2 DEF LedgerInv, Good
<1>4. data[p] = disk /\ disk \in File /\ KeyOf[p] \in Keys
  BY <1>1, <1>2, ProcAssumption DEF LooksInv, Looks, Fresh, TypeInv, TypeOK, File
<1> QED
  BY <1>1, <1>2, <1>3, <1>4, FullSign DEF Verdict

LEMMA LedgerStep ==
  ASSUME SignatureNumbers, Sequential, LedgerInv, [Next]_vars
  PROVE  LedgerInv'
<1>1. /\ RunInv /\ RunInv' /\ FilesInv' /\ LooksInv' /\ TypeInv /\ TypeInv' /\ OneRun /\ OneRun'
      /\ FilesInv
  BY RunStep, FilesStep, LooksStep DEF LedgerInv, RunInv
<1> DEFINE Kept == /\ Settled => Good(disk)
                   /\ \A p \in Procs :
                        Writing(p) => /\ Good(data[p])
                                      /\ p \in Signers => KeyOf[p] \in SignersOf(data[p])
           Open == \A p \in Procs : pc[p] # "idle" => code[p] = "none"
<1>2. Kept /\ Open
  BY DEF LedgerInv
<1> SUFFICES Kept' /\ Open'
  BY <1>1 DEF LedgerInv
<1>3. ASSUME NEW p \in Procs, StartSign(p) \/ StartCreate(p) PROVE Kept' /\ Open'
  <2>1. /\ \A q \in Procs : q # p => pc'[q] = pc[q] /\ code'[q] = code[q]
        /\ disk' = disk /\ pc'[p] \in {"stat", "open"} /\ code'[p] = "none"
        /\ \A q \in Procs : pc[q] = "idle"
    BY <1>1, <1>3 DEF Sequential, StartSign, StartCreate, Begin, Goto, hist, TypeInv, TypeOK
  <2> QED
    BY <1>2, <2>1 DEF Settled, Writing, Good
<1>4. ASSUME NEW p \in Procs,
             StatBundle(p) \/ OpenBundle(p) \/ ReadBlock(p) \/ AppendSignature(p)
      PROVE  Kept' /\ Open'
  <2>1. /\ pc[p] \in {"stat", "load", "read", "sign"}
        /\ \A q \in Procs : q # p => pc'[q] = pc[q]
        /\ disk' = disk /\ pc'[p] \in {"load", "read", "sign", "open"} /\ code' = code
    BY <1>1, <1>4 DEF StatBundle, OpenBundle, ReadBlock, AppendSignature, Goto, hist, TypeInv,
       TypeOK
  <2>2. \A q \in Procs : ~Writing(q) /\ ~Writing(q)'
    BY <1>1, <2>1 DEF OneRun, Writing
  <2> QED
    BY <1>2, <2>1, <2>2 DEF Settled, Good
<1>5. ASSUME NEW p \in Procs, WriteBlocks(p) PROVE Kept' /\ Open'
  <2>1. /\ pc[p] = "write" /\ pc'[p] = "flush" /\ data' = data /\ code' = code
        /\ \A q \in Procs : q # p => pc'[q] = pc[q]
    BY <1>1, <1>5 DEF WriteBlocks, Goto, hist, TypeInv, TypeOK
  <2> QED
    BY <1>2, <2>1 DEF Settled, Writing, Good
<1>6. ASSUME NEW p \in Procs, OpenTruncates(p) PROVE Kept' /\ Open'
  <2>1. /\ pc[p] = "open" /\ pc'[p] = "write" /\ data' = data /\ code' = code
        /\ \A q \in Procs : q # p => pc'[q] = pc[q]
    BY <1>1, <1>6 DEF OpenTruncates, Goto, hist, TypeInv, TypeOK
  <2>2. Good(data[p]) /\ (p \in Signers => KeyOf[p] \in SignersOf(data[p])) /\ Settled
    BY <1>6, LedgerOpen
  <2>3. \A q \in Procs : Writing(q)' => q = p
    BY <2>1, <2>2 DEF Settled, Writing
  <2>4. Writing(p)'
    BY <2>1 DEF Writing
  <2> QED
    BY <1>2, <2>1, <2>2, <2>3, <2>4 DEF Settled, Good
<1>7. ASSUME NEW p \in Procs, NEW status, Exit(p, status), Good(disk)' PROVE Kept' /\ Open'
  <2>1. /\ pc'[p] = "idle"
        /\ \A q \in Procs : q # p => pc'[q] = pc[q] /\ code'[q] = code[q] /\ data'[q] = data[q]
    BY <1>1, <1>7 DEF Exit, Goto, TypeInv, TypeOK
  <2> QED
    BY <1>2, <1>7, <2>1 DEF Settled, Writing, Good
<1>8. ASSUME NEW p \in Procs,
             LoadFails(p) \/ RejectBundle(p) \/ SignaturePresent(p) \/ KeyFails(p)
      PROVE  Kept' /\ Open'
  <2>1. /\ \E status : Exit(p, status)
        /\ disk' = disk /\ pc[p] \in {"stat", "load", "read", "sign"}
    BY <1>8 DEF LoadFails, RejectBundle, SignaturePresent, KeyFails
  <2>2. Settled
    BY <1>1, <2>1 DEF OneRun, Settled, Writing
  <2>3. Good(disk)'
    BY <1>2, <2>1, <2>2 DEF Good
  <2> QED
    BY <1>7, <2>1, <2>3
<1>9. ASSUME NEW p \in Procs, FlushAndExit(p) PROVE Kept' /\ Open'
  <2>1. Exit(p, "ok") /\ Writing(p)
    BY <1>9 DEF FlushAndExit, Writing
  <2>2. disk' = data[p]
    BY <1>1, <1>9, FlushWhole DEF FilesInv, OneRun
  <2>3. Good(disk)'
    BY <1>2, <2>1, <2>2 DEF Good
  <2> QED
    BY <1>7, <2>1, <2>3
<1>10. ASSUME NEW p \in Procs, Trouble(p) PROVE Kept' /\ Open'
  BY <1>8, <1>10 DEF Trouble, Sequential, OpenFails, WriteFails, FlushFails, Crash
<1>11. ASSUME NEW p \in Procs, Advance(p) PROVE Kept' /\ Open'
  BY <1>4, <1>5, <1>6, <1>8, <1>9, <1>11 DEF Advance
<1>12. CASE UNCHANGED vars
  BY <1>2, <1>12 DEF vars, Good, Settled, Writing
<1> QED
  BY <1>3, <1>10, <1>11, <1>12 DEF Next, Done

LEMMA LedgerAlways == SignatureNumbers /\ Sequential => (Spec => []LedgerInv)
<1> SUFFICES ASSUME SignatureNumbers, Sequential PROVE Spec => []LedgerInv
  OBVIOUS
<1>1. LedgerInv /\ [Next]_vars => LedgerInv'
  BY LedgerStep
<1> QED
  BY <1>1, LedgerInitial, PTL DEF Spec

\* Runs that follow one another never leave two entries of one key in the file.
THEOREM SigningNoDuplicates == SignatureNumbers /\ Sequential => (Spec => []NoDuplicates)
<1>1. ASSUME LedgerInv PROVE NoDuplicates
  <2> SUFFICES ASSUME Settled, NEW p \in EntryPositions(disk), NEW q \in EntryPositions(disk),
                      disk[p + 2] = disk[q + 2]
               PROVE  p = q
    BY DEF NoDuplicates
  <2>1. PICK P \in Stored : Full(disk, P) /\ Distinct(disk, P)
    BY <1>1 DEF LedgerInv, Good
  <2>2. disk \in File /\ P \in File
    BY <1>1, StoredFacts DEF LedgerInv, RunInv, TypeInv, TypeOK, File
  <2>3. EntryPositions(disk) = Slots(disk, P)
    BY <2>1, <2>2, FullEntries
  <2> QED
    BY <2>1, <2>3 DEF Distinct
<1> QED
  BY <1>1, LedgerAlways, PTL

-----------------------------------------------------------------------------
(* Runs that follow one another keep the ledger: every step of theirs is a *)
(* step of SignLedger, or changes nothing that it speaks of.               *)

LEMMA CurrentIs ==
  ASSUME OneRun
  PROVE  /\ Settled => Current = disk
         /\ \A p \in Procs : Writing(p) => Current = data[p]
<1>1. ASSUME NEW p \in Procs, Writing(p) PROVE Current = data[p]
  <2>1. \A q \in Procs : Writing(q) => q = p
    BY <1>1 DEF OneRun, Writing
  <2>2. (CHOOSE q \in Procs : Writing(q)) = p
    BY <1>1, <2>1
  <2> QED
    BY <1>1, <2>2 DEF Current, Settled
<1> QED
  BY <1>1 DEF Current

LEMMA CurrentNext ==
  ASSUME OneRun'
  PROVE  /\ Settled' => Current' = disk'
         /\ \A p \in Procs : Writing(p)' => Current' = data'[p]
<1>1. ASSUME NEW p \in Procs, Writing(p)' PROVE Current' = data'[p]
  <2>1. \A q \in Procs : Writing(q)' => q = p
    BY <1>1 DEF OneRun, Writing
  <2>2. (CHOOSE q \in Procs : Writing(q)') = p
    BY <1>1, <2>1
  <2> QED
    BY <1>1, <2>2 DEF Current, Settled
<1> QED
  BY <1>1 DEF Current

LEMMA LedgerStarts ==
  ASSUME Init PROVE Ledger!Init
<1>1. LedgerInv
  BY LedgerInitial
<1>2. Settled /\ OneRun
  BY <1>1 DEF Init, Settled, Writing, LedgerInv, RunInv
<1>3. Current = disk
  BY <1>2, CurrentIs
<1>4. PICK P \in Stored : Full(disk, P)
  BY <1>1, <1>2 DEF LedgerInv, Good
<1>5. RegionOf(disk) = Signable(P) /\ Signable(P) \in Genuine
  BY <1>1, <1>4, StoredFacts, WholeRegion DEF LedgerInv, RunInv, TypeInv, TypeOK, File, Full, Tidy, Whole
<1>6. SignersOf(disk) \subseteq Keys
  BY DEF SignersOf
<1> QED
  BY <1>3, <1>5, <1>6 DEF Init, Ledger!Init, Ledger!Procs, Procs

LEMMA LedgerMoves ==
  ASSUME SignatureNumbers, Sequential, LedgerInv, LedgerInv', [Next]_vars
  PROVE  [Ledger!Next]_Ledger!vars
<1>1. TypeInv /\ TypeInv' /\ OneRun /\ OneRun' /\ FilesInv /\ LooksInv
  BY DEF LedgerInv, RunInv
<1>2. /\ Settled => Current = disk
      /\ \A p \in Procs : Writing(p) => Current = data[p]
  BY <1>1, CurrentIs
<1>3. /\ Settled' => Current' = disk'
      /\ \A p \in Procs : Writing(p)' => Current' = data'[p]
  BY <1>1, CurrentNext
<1>4. \A p \in Procs : pc[p] # "idle" => code[p] = "none"
  BY DEF LedgerInv
<1>5. ASSUME NEW p \in Procs,
             \/ StartSign(p) \/ StartCreate(p) \/ StatBundle(p) \/ OpenBundle(p) \/ ReadBlock(p)
             \/ AppendSignature(p)
      PROVE  Current' = Current
  <2>1. /\ pc[p] \in {"idle", "stat", "load", "read", "sign"}
        /\ pc[p] = "idle" => \A q \in Procs : pc[q] = "idle"
        /\ pc'[p] \in {"stat", "load", "read", "sign", "open"}
        /\ \A q \in Procs : q # p => pc'[q] = pc[q]
        /\ disk' = disk
    BY <1>1, <1>5 DEF Sequential, StartSign, StartCreate, Begin, StatBundle, OpenBundle, ReadBlock,
       AppendSignature, Goto, hist, TypeInv, TypeOK
  <2>2. Settled /\ Settled'
    BY <1>1, <2>1 DEF OneRun, Settled, Writing
  <2> QED
    BY <1>2, <1>3, <2>1, <2>2
<1>6. ASSUME NEW p \in Procs, StartSign(p) \/ StartCreate(p) PROVE Ledger!Start(p)
  <2>1. code' = [code EXCEPT ![p] = "none"]
    BY <1>6 DEF StartSign, StartCreate, Begin
  <2> QED
    BY <1>5, <1>6, <2>1 DEF Ledger!Start
<1>7. ASSUME NEW p \in Procs,
             StatBundle(p) \/ OpenBundle(p) \/ ReadBlock(p) \/ AppendSignature(p)
      PROVE  UNCHANGED Ledger!vars
  <2>1. code' = code
    BY <1>7 DEF StatBundle, OpenBundle, ReadBlock, AppendSignature
  <2>2. Current' = Current
    BY <1>5, <1>7
  <2> QED
    BY <2>1, <2>2 DEF Ledger!vars
<1>8. ASSUME NEW p \in Procs, WriteBlocks(p) PROVE UNCHANGED Ledger!vars
  <2>1. Writing(p) /\ Writing(p)' /\ data' = data /\ code' = code
    BY <1>1, <1>8 DEF WriteBlocks, Goto, hist, TypeInv, TypeOK, Writing
  <2>2. Current' = Current
    BY <1>2, <1>3, <2>1
  <2> QED
    BY <2>1, <2>2 DEF Ledger!vars
<1>9. ASSUME NEW p \in Procs, NEW status, Exit(p, status), disk' = disk,
             pc[p] \in {"stat", "load", "read", "sign"}
      PROVE  /\ Current' = Current /\ Current = disk /\ code[p] = "none"
             /\ code' = [code EXCEPT ![p] = status]
  <2>1. pc'[p] = "idle" /\ \A q \in Procs : q # p => pc'[q] = pc[q]
    BY <1>1, <1>9 DEF Exit, Goto, TypeInv, TypeOK
  <2>2. Settled /\ Settled'
    BY <1>1, <1>9, <2>1 DEF OneRun, Settled, Writing
  <2> QED
    BY <1>2, <1>3, <1>4, <1>9, <2>2 DEF Exit
<1>10. ASSUME NEW p \in Procs, LoadFails(p) \/ RejectBundle(p) \/ KeyFails(p)
       PROVE  Ledger!Fail(p)
  <2>1. Exit(p, "fail") /\ disk' = disk /\ pc[p] \in {"stat", "load", "read", "sign"}
    BY <1>10 DEF LoadFails, RejectBundle, KeyFails
  <2> QED
    BY <1>9, <2>1 DEF Ledger!Fail
<1>11. ASSUME NEW p \in Procs, SignaturePresent(p) PROVE Ledger!Succeed(p)
  <2>1. Exit(p, "ok") /\ disk' = disk /\ pc[p] \in {"stat", "load", "read", "sign"}
    BY <1>11 DEF SignaturePresent
  <2>2. p \in Signers /\ p \notin Creators /\ KeyOf[p] \in SignersOf(disk)
    BY <1>11, LedgerPresent, ProcAssumption
  <2> QED
    BY <1>9, <2>1, <2>2 DEF Ledger!Succeed
<1>12. ASSUME NEW p \in Procs, FlushAndExit(p) PROVE Ledger!Succeed(p)
  <2>1. Exit(p, "ok") /\ Writing(p) /\ pc[p] = "flush"
    BY <1>12 DEF FlushAndExit, Writing
  <2>2. disk' = data[p]
    BY <1>1, <1>12, FlushWhole DEF FilesInv, OneRun
  <2>3. pc'[p] = "idle" /\ \A q \in Procs : q # p => pc'[q] = pc[q] /\ pc[q] = "idle"
    BY <1>1, <2>1 DEF Exit, Goto, TypeInv, TypeOK, OneRun
  <2>4. Settled'
    BY <2>3 DEF Settled, Writing
  <2>5. Current = data[p] /\ Current' = data[p]
    BY <1>2, <1>3, <2>1, <2>2, <2>4
  <2>6. code[p] = "none" /\ code' = [code EXCEPT ![p] = "ok"]
    BY <1>4, <2>1 DEF Exit
  <2>7. p \in Signers => KeyOf[p] \in SignersOf(Current)
    BY <2>1, <2>5 DEF LedgerInv
  <2>8. p \in Creators => RegionOf(Current) = RegionOf(Unsigned(PayloadOf[p]))
    BY <1>1, <2>1, <2>5 DEF LooksInv, Creates
  <2> QED
    BY <2>5, <2>6, <2>7, <2>8 DEF Ledger!Succeed
<1>13. ASSUME NEW p \in Procs, OpenTruncates(p) PROVE Ledger!Sign(p) \/ Ledger!Create(p)
  <2>1. /\ pc[p] = "open" /\ Writing(p)' /\ data' = data /\ code' = code
    BY <1>1, <1>13 DEF OpenTruncates, Goto, TypeInv, TypeOK, Writing
  <2>2. Settled
    BY <1>13, LedgerOpen
  <2>3. Current = disk /\ Current' = data[p] /\ code[p] = "none"
    BY <1>2, <1>3, <1>4, <2>1, <2>2
  <2>4. CASE p \in Creators
    <3>1. data[p] = Unsigned(PayloadOf[p]) /\ SignersOf(data[p]) = {}
      BY <1>13, <2>4, LedgerOpen
    <3> QED
      BY <2>1, <2>3, <2>4, <3>1 DEF Ledger!Create
  <2>5. CASE p \in Signers
    <3>1. /\ SignersOf(data[p]) = SignersOf(disk) \cup {KeyOf[p]}
          /\ RegionOf(data[p]) = RegionOf(disk)
      BY <1>13, <2>5, LedgerOpen
    <3> QED
      BY <2>1, <2>3, <2>5, <3>1 DEF Ledger!Sign
  <2> QED
    BY <2>4, <2>5 DEF Procs
<1>14. ASSUME NEW p \in Procs,
              \/ Ledger!Start(p) \/ Ledger!Sign(p) \/ Ledger!Create(p) \/ Ledger!Succeed(p)
              \/ Ledger!Fail(p)
       PROVE  Ledger!Next
  BY <1>14 DEF Ledger!Next, Ledger!Procs, Procs
<1>15. ASSUME NEW p \in Procs, Advance(p) PROVE [Ledger!Next]_Ledger!vars
  <2>1. CASE StatBundle(p) \/ OpenBundle(p) \/ ReadBlock(p) \/ AppendSignature(p) \/ WriteBlocks(p)
    BY <1>7, <1>8, <2>1
  <2>2. CASE LoadFails(p) \/ RejectBundle(p)
    BY <1>10, <1>14, <2>2
  <2>3. CASE SignaturePresent(p) \/ FlushAndExit(p)
    BY <1>11, <1>12, <1>14, <2>3
  <2>4. CASE OpenTruncates(p)
    BY <1>13, <1>14, <2>4
  <2> QED
    BY <1>15, <2>1, <2>2, <2>3, <2>4 DEF Advance
<1>16. ASSUME NEW p \in Procs, Trouble(p) PROVE [Ledger!Next]_Ledger!vars
  <2>1. KeyFails(p)
    BY <1>16 DEF Trouble, Sequential, OpenFails, WriteFails, FlushFails, Crash
  <2> QED
    BY <1>10, <1>14, <2>1
<1>17. ASSUME NEW p \in Procs, StartSign(p) \/ StartCreate(p) PROVE [Ledger!Next]_Ledger!vars
  BY <1>6, <1>14, <1>17
<1>18. CASE UNCHANGED vars
  <2>1. Current' = Current
    BY <1>18 DEF vars, Current, Settled, Writing
  <2> QED
    BY <1>18, <2>1 DEF vars, Ledger!vars
<1> QED
  BY <1>15, <1>16, <1>17, <1>18 DEF Next, Done

\* Runs that follow one another are the ledger of SignLedger: "create" replaces the
\* payload and drops the signatures, "sign" adds its key and nothing else, and a run
\* exits with 0 only when the bundle is what the command says.
THEOREM SigningKeepsLedger == SignatureNumbers /\ Sequential => (Spec => KeepsLedger)
<1> SUFFICES ASSUME SignatureNumbers, Sequential PROVE Spec => KeepsLedger
  OBVIOUS
<1>1. Init => Ledger!Init
  BY LedgerStarts
<1>2. LedgerInv /\ LedgerInv' /\ [Next]_vars => [Ledger!Next]_Ledger!vars
  BY LedgerMoves
<1>3. Spec => []LedgerInv
  BY LedgerAlways
<1> QED
  BY <1>1, <1>2, <1>3, PTL DEF Spec, Ledger!Spec, KeepsLedger

=============================================================================
