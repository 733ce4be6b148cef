---------------------------- MODULE KeyGen_proofs ----------------------------
(***************************************************************************)
(* What runs of "keygen" and the signers that load the key never do, for   *)
(* any number of processes and runs, any key length, and whatever fails or *)
(* is killed.                                                              *)
(***************************************************************************)
EXTENDS KeyGen, TLAPS

\* The keys there can be, and the cells of their files.
AllKeys == OldKeys \cup (Keygens \X (1 .. MaxRuns))

Cells == {<<c, k>> : c \in {"private", "public"}, k \in AllKeys}

-----------------------------------------------------------------------------
(* Files.                                                                  *)

LEMMA FileTypes ==
  ASSUME NEW k \in AllKeys
  PROVE  /\ PrivateFile(k) \in Seq(Cells) /\ Len(PrivateFile(k)) = KeyLen
         /\ PublicFile(k) \in Seq(Cells) /\ Len(PublicFile(k)) = KeyLen + 1
<1>1. KeyLen \in Nat /\ KeyLen + 1 \in Nat
  BY KeyGenAssumption
<1>2. <<"private", k>> \in Cells /\ <<"public", k>> \in Cells
  BY DEF Cells
<1>3. \A n \in Nat : \A c \in Cells :
        [i \in 1 .. n |-> c] \in Seq(Cells) /\ Len([i \in 1 .. n |-> c]) = n
  OBVIOUS
<1> QED
  BY <1>1, <1>2, <1>3 DEF PrivateFile, PublicFile

\* What is written over a file that is not longer replaces it.
LEMMA OverShort ==
  ASSUME NEW f \in Seq(Cells), NEW c \in Seq(Cells), Len(f) <= Len(c)
  PROVE  Over(f, c) = c
<1>1. SubSeq(f, Len(c) + 1, Len(f)) = <<>>
  OBVIOUS
<1>2. c \o <<>> = c
  OBVIOUS
<1> QED
  BY <1>1, <1>2 DEF Over

LEMMA WholeOver ==
  ASSUME NEW k \in AllKeys
  PROVE  /\ Over(<<>>, PrivateFile(k)) = PrivateFile(k)
         /\ Over(<<>>, PublicFile(k)) = PublicFile(k)
<1>1. <<>> \in Seq(Cells) /\ Len(<<>>) = 0
  OBVIOUS
<1>2. /\ Len(<<>>) <= Len(PrivateFile(k))
      /\ Len(<<>>) <= Len(PublicFile(k))
  BY <1>1, FileTypes, KeyGenAssumption
<1> QED
  BY <1>1, <1>2, FileTypes, OverShort

LEMMA OverType ==
  ASSUME NEW f \in Seq(Cells), NEW c \in Seq(Cells)
  PROVE  Over(f, c) \in Seq(Cells)
<1>1. Len(c) \in Nat /\ Len(f) \in Nat
  OBVIOUS
<1>2. SubSeq(f, Len(c) + 1, Len(f)) \in Seq(Cells)
  BY <1>1
<1> HIDE DEF Cells
<1>3. \A s \in Seq(Cells) : c \o s \in Seq(Cells)
  OBVIOUS
<1> QED
  BY <1>2, <1>3 DEF Over

LEMMA CutTypes ==
  ASSUME NEW c \in Seq(Cells), NEW n \in 0 .. Len(c)
  PROVE  SubSeq(c, 1, n) \in Seq(Cells) /\ Len(SubSeq(c, 1, n)) = n
OBVIOUS

-----------------------------------------------------------------------------
(* Types.                                                                  *)

KeygenSteps ==
  {"source", "draw", "scan", "open_private", "close_private", "open_public", "close_public"}

SignerSteps == {"stat", "load", "read", "sign"}

Places == {"private", "public", "elsewhere"}

\* Types of the variables; who is at which step; a key bears the number of a run.
KeyTypes ==
  /\ pathLength \in PathLengths
  /\ files \in [Places -> Seq(Cells)]
  /\ pc \in [Procs -> {"idle"} \cup KeygenSteps \cup SignerSteps]
  /\ \A p \in Procs : pc[p] \in KeygenSteps => p \in Keygens
  /\ \A p \in Procs : pc[p] \in SignerSteps => p \in Signers
  /\ random \in [Procs -> {"zero", "good"}]
  /\ result \in [Procs -> {0, 1}]
  /\ key \in [Procs -> Seq(Cells)]
  /\ code \in [Procs -> {"none", "ok", "fail", "killed"}]
  /\ runs \in [Procs -> 0 .. MaxRuns]
  /\ \A p \in Procs : pc[p] # "idle" => runs[p] > 0
  /\ alone \subseteq Keygens /\ cut \subseteq Keygens /\ last \subseteq Keygens
  /\ spoilt \in BOOLEAN

LEMMA KeyType ==
  ASSUME KeyTypes, NEW p \in Keygens, pc[p] # "idle"
  PROVE  Key(p) \in AllKeys
<1>1. runs[p] \in 1 .. MaxRuns
  BY KeyGenAssumption DEF KeyTypes, Procs
<1> QED
  BY <1>1 DEF Key, AllKeys

LEMMA PathTypes == PrivatePath \in Places /\ PublicPath \in Places
BY DEF PrivatePath, PublicPath, Places

LEMMA KeyTypesInitial == Init => KeyTypes
<1> SUFFICES ASSUME Init PROVE KeyTypes
  OBVIOUS
<1>1. \A k \in OldKeys : PrivateFile(k) \in Seq(Cells) /\ PublicFile(k) \in Seq(Cells)
  BY FileTypes DEF AllKeys
<1>2. files \in [Places -> Seq(Cells)]
  <2>1. <<>> \in Seq(Cells)
    OBVIOUS
  <2>2. files \in InitialFiles
    BY DEF Init
  <2> HIDE DEF Cells
  <2>3. /\ files.private \in Seq(Cells) /\ files.public \in Seq(Cells)
        /\ files.elsewhere \in Seq(Cells)
        /\ files = [x \in Places |-> files[x]]
    BY <1>1, <2>1, <2>2 DEF InitialFiles, Places
  <2> QED
    BY <2>3 DEF Places
<1>3. key \in [Procs -> Seq(Cells)]
  <2>1. <<>> \in Seq(Cells)
    OBVIOUS
  <2> QED
    BY <2>1 DEF Init
<1>4. runs \in [Procs -> 0 .. MaxRuns] /\ result \in [Procs -> {0, 1}]
  BY KeyGenAssumption DEF Init
<1>5. /\ pc = [p \in Procs |-> "idle"] /\ random \in [Procs -> {"zero", "good"}]
      /\ code \in [Procs -> {"none", "ok", "fail", "killed"}]
      /\ pathLength \in PathLengths /\ spoilt \in BOOLEAN
      /\ alone = {} /\ cut = {} /\ last = {}
  BY DEF Init
<1> QED
  BY <1>2, <1>3, <1>4, <1>5 DEF KeyTypes, KeygenSteps, SignerSteps

\* The end of a run keeps the types.
LEMMA ExitTypes ==
  ASSUME KeyTypes, NEW p \in Procs, NEW status \in {"ok", "fail", "killed"}, Exit(p, status),
         files' \in [Places -> Seq(Cells)], cut' \subseteq Keygens, spoilt' \in BOOLEAN
  PROVE  KeyTypes'
<1>1. <<>> \in Seq(Cells)
  OBVIOUS
<1>2. key' \in [Procs -> Seq(Cells)]
  BY <1>1 DEF Exit, KeyTypes
<1> QED
  BY <1>2 DEF Exit, Goto, KeyTypes, KeygenSteps, SignerSteps

LEMMA StatusType == \A n : Status(n) \in {"ok", "fail", "killed"}
BY DEF Status

\* A step from one place in the program to another.
LEMMA GotoTypes ==
  ASSUME KeyTypes, NEW p \in Procs, NEW l, Goto(p, l), pc[p] # "idle",
         \/ p \in Keygens /\ l \in KeygenSteps
         \/ p \in Signers /\ l \in SignerSteps,
         files' \in [Places -> Seq(Cells)], random' \in [Procs -> {"zero", "good"}],
         result' \in [Procs -> {0, 1}], key' \in [Procs -> Seq(Cells)],
         cut' \subseteq Keygens, spoilt' \in BOOLEAN,
         UNCHANGED <<pathLength, code, runs, alone, last>>
  PROVE  KeyTypes'
<1>1. Keygens \cap Signers = {} /\ KeygenSteps \cap SignerSteps = {}
  BY KeyGenAssumption DEF KeygenSteps, SignerSteps
<1>2. /\ pc' \in [Procs -> {"idle"} \cup KeygenSteps \cup SignerSteps]
      /\ pc'[p] = l /\ \A q \in Procs : q # p => pc'[q] = pc[q]
  BY DEF Goto, KeyTypes
<1>3. /\ \A q \in Procs : pc'[q] \in KeygenSteps => q \in Keygens
      /\ \A q \in Procs : pc'[q] \in SignerSteps => q \in Signers
      /\ \A q \in Procs : pc'[q] # "idle" => runs[q] > 0
  BY <1>1, <1>2 DEF KeyTypes
<1> QED
  BY <1>2, <1>3 DEF KeyTypes

LEMMA KeyTypesStep ==
  ASSUME KeyTypes, [Next]_vars
  PROVE  KeyTypes'
<1>1. ASSUME NEW p \in Procs, Start(p) PROVE KeyTypes'
  <2>1. /\ pc' \in [Procs -> {"idle"} \cup KeygenSteps \cup SignerSteps]
        /\ runs' \in [Procs -> 0 .. MaxRuns] /\ runs'[p] > 0
        /\ p \in Keygens => pc'[p] = "source"
        /\ p \notin Keygens => pc'[p] = "stat"
        /\ \A q \in Procs : q # p => pc'[q] = pc[q] /\ runs'[q] = runs[q]
    BY <1>1, KeyGenAssumption DEF Start, Goto, KeyTypes, KeygenSteps, SignerSteps
  <2>2. /\ \A q \in Procs : pc'[q] \in KeygenSteps => q \in Keygens
        /\ \A q \in Procs : pc'[q] \in SignerSteps => q \in Signers
        /\ \A q \in Procs : pc'[q] # "idle" => runs'[q] > 0
    BY <2>1 DEF KeyTypes, KeygenSteps, SignerSteps, Procs
  <2>3. /\ code' \in [Procs -> {"none", "ok", "fail", "killed"}]
        /\ alone' \subseteq Keygens /\ cut' \subseteq Keygens
    BY <1>1 DEF Start, KeyTypes
  <2> QED
    BY <1>1, <2>1, <2>2, <2>3 DEF Start, KeyTypes
<1>2. ASSUME NEW p \in Procs, OpenSource(p) \/ DrawAgain(p) \/ MakeKey(p) \/ DrawZero(p) \/ DrawGood(p)
      PROVE  KeyTypes'
  <2>1. p \in Keygens /\ pc[p] # "idle" /\ \E l \in KeygenSteps : Goto(p, l)
    BY <1>2 DEF OpenSource, DrawAgain, MakeKey, DrawZero, DrawGood, KeyTypes, KeygenSteps
  <2>2. /\ random' \in [Procs -> {"zero", "good"}]
        /\ UNCHANGED <<pathLength, files, result, key, code, runs, hist>>
    BY <1>2 DEF OpenSource, DrawAgain, MakeKey, DrawZero, DrawGood, KeyTypes
  <2> QED
    BY <2>1, <2>2, GotoTypes DEF hist, KeyTypes
<1>3. ASSUME NEW p \in Procs, OpenPrivate(p) \/ OpenPublic(p) \/ ClosePrivate(p) \/ PrivateFails(p)
      PROVE  KeyTypes'
  <2>1. p \in Keygens /\ pc[p] # "idle" /\ \E l \in KeygenSteps : Goto(p, l)
    BY <1>3 DEF OpenPrivate, OpenPublic, OpenFile, ClosePrivate, PrivateFails, KeyTypes, KeygenSteps
  <2>2. files' \in [Places -> Seq(Cells)]
    <3>1. ASSUME NEW path \in Places, NEW c \in Seq(Cells), files' = [files EXCEPT ![path] = c]
          PROVE  files' \in [Places -> Seq(Cells)]
      BY <3>1 DEF KeyTypes
    <3>2. <<>> \in Seq(Cells)
      OBVIOUS
    <3>3. CASE OpenPrivate(p) \/ OpenPublic(p)
      BY <3>1, <3>2, <3>3, PathTypes DEF OpenPrivate, OpenPublic, OpenFile
    <3>4. CASE ClosePrivate(p)
      <4>1. PrivateFile(Key(p)) \in Seq(Cells) /\ files[PrivatePath] \in Seq(Cells)
        BY <2>1, KeyType, FileTypes, PathTypes DEF KeyTypes
      <4>2. files' = [files EXCEPT ![PrivatePath] = Over(files[PrivatePath], PrivateFile(Key(p)))]
        BY <3>4 DEF ClosePrivate
      <4> QED
        BY <3>1, <4>1, <4>2, OverType, PathTypes
    <3>5. CASE PrivateFails(p)
      BY <3>5 DEF PrivateFails, KeyTypes
    <3> QED
      BY <1>3, <3>3, <3>4, <3>5
  <2>3. /\ result' \in [Procs -> {0, 1}]
        /\ UNCHANGED <<pathLength, random, key, code, runs, hist>>
    BY <1>3 DEF OpenPrivate, OpenPublic, OpenFile, ClosePrivate, PrivateFails, KeyTypes
  <2> QED
    BY <2>1, <2>2, <2>3, GotoTypes DEF hist, KeyTypes
<1>4. ASSUME NEW p \in Procs, ClosePrivateFails(p) PROVE KeyTypes'
  <2>1. p \in Keygens /\ pc[p] # "idle" /\ Goto(p, "open_public") /\ "open_public" \in KeygenSteps
    BY <1>4 DEF ClosePrivateFails, KeyTypes, KeygenSteps
  <2>2. PICK n \in 0 .. KeyLen - 1 :
          files' = [files EXCEPT ![PrivatePath] =
                      Over(files[PrivatePath], SubSeq(PrivateFile(Key(p)), 1, n))]
    BY <1>4 DEF ClosePrivateFails
  <2>3. SubSeq(PrivateFile(Key(p)), 1, n) \in Seq(Cells) /\ files[PrivatePath] \in Seq(Cells)
    <3>1. n \in 0 .. Len(PrivateFile(Key(p))) /\ PrivateFile(Key(p)) \in Seq(Cells)
      BY <2>1, KeyType, FileTypes, KeyGenAssumption
    <3> QED
      BY <3>1, CutTypes, PathTypes DEF KeyTypes
  <2>4. files' \in [Places -> Seq(Cells)]
    BY <2>2, <2>3, OverType, PathTypes DEF KeyTypes
  <2>5. /\ result' \in [Procs -> {0, 1}] /\ cut' \subseteq Keygens /\ spoilt' \in BOOLEAN
        /\ UNCHANGED <<pathLength, random, key, code, runs, alone, last>>
    BY <1>4, <2>1 DEF ClosePrivateFails, Cut, KeyTypes
  <2> QED
    BY <2>1, <2>4, <2>5, GotoTypes DEF KeyTypes
<1>5. ASSUME NEW p \in Procs, NEW status \in {"ok", "fail", "killed"}, Exit(p, status),
             UNCHANGED <<files, cut, spoilt>>
      PROVE  KeyTypes'
  BY <1>5, ExitTypes DEF KeyTypes
<1>6. ASSUME NEW p \in Procs,
             NoSource(p) \/ PublicFails(p) \/ KeyFails(p) \/ UseKey(p) \/ Crash(p)
      PROVE  KeyTypes'
  BY <1>5, <1>6, StatusType DEF NoSource, PublicFails, KeyFails, UseKey, Crash
<1>7. ASSUME NEW p \in Procs, ClosePublic(p) \/ ClosePublicFails(p) PROVE KeyTypes'
  <2>1. p \in Keygens /\ pc[p] # "idle"
    BY <1>7 DEF ClosePublic, ClosePublicFails, KeyTypes, KeygenSteps
  <2>2. /\ PublicFile(Key(p)) \in Seq(Cells) /\ Len(PublicFile(Key(p))) = KeyLen + 1
        /\ files[PublicPath] \in Seq(Cells)
    BY <2>1, KeyType, FileTypes, PathTypes DEF KeyTypes
  <2>3. PICK c \in Seq(Cells) : files' = [files EXCEPT ![PublicPath] = Over(files[PublicPath], c)]
    <3>1. CASE ClosePublic(p)
      BY <2>2, <3>1 DEF ClosePublic
    <3>2. CASE ClosePublicFails(p)
      <4>1. PICK n \in 0 .. KeyLen :
              files' = [files EXCEPT ![PublicPath] =
                          Over(files[PublicPath], SubSeq(PublicFile(Key(p)), 1, n))]
        BY <3>2 DEF ClosePublicFails
      <4>2. n \in 0 .. Len(PublicFile(Key(p)))
        BY <2>2, KeyGenAssumption
      <4> QED
        BY <2>2, <4>1, <4>2, CutTypes
    <3> QED
      BY <1>7, <3>1, <3>2
  <2>4. files' \in [Places -> Seq(Cells)]
    BY <2>2, <2>3, OverType, PathTypes DEF KeyTypes
  <2>5. Exit(p, Status(result[p] + 1)) /\ cut' \subseteq Keygens /\ spoilt' \in BOOLEAN
    BY <1>7, <2>1 DEF ClosePublic, ClosePublicFails, Cut, KeyTypes
  <2> QED
    BY <2>4, <2>5, ExitTypes, StatusType
<1>8. ASSUME NEW p \in Procs, StatKey(p) \/ OpenKey(p) \/ ReadKey(p) PROVE KeyTypes'
  <2>1. p \in Signers /\ pc[p] # "idle" /\ \E l \in SignerSteps : Goto(p, l)
    BY <1>8 DEF StatKey, OpenKey, ReadKey, KeyTypes, SignerSteps
  <2>2. KeyFile \in Seq(Cells)
    BY DEF KeyFile, KeyTypes, Places
  <2>3. key' \in [Procs -> Seq(Cells)]
    <3>1. CASE StatKey(p) \/ OpenKey(p)
      BY <3>1 DEF StatKey, OpenKey, KeyTypes
    <3>2. CASE ReadKey(p)
      <4>1. KeyLen \in 0 .. Len(KeyFile)
        BY <2>2, <3>2, KeyGenAssumption DEF ReadKey
      <4>2. SubSeq(KeyFile, 1, KeyLen) \in Seq(Cells)
        BY <2>2, <4>1, CutTypes
      <4> QED
        BY <3>2, <4>2 DEF ReadKey, KeyTypes
    <3> QED
      BY <1>8, <3>1, <3>2
  <2>4. UNCHANGED <<pathLength, files, random, result, code, runs, hist>>
    BY <1>8 DEF StatKey, OpenKey, ReadKey
  <2> QED
    BY <2>1, <2>3, <2>4, GotoTypes DEF hist, KeyTypes
<1>9. CASE UNCHANGED vars
  BY <1>9 DEF vars, KeyTypes
<1>10. ASSUME NEW p \in Procs, Advance(p) PROVE KeyTypes'
  BY <1>2, <1>3, <1>6, <1>7, <1>8, <1>10 DEF Advance
<1>11. ASSUME NEW p \in Procs, Trouble(p) PROVE KeyTypes'
  BY <1>4, <1>6, <1>7, <1>11 DEF Trouble
<1> QED
  BY <1>1, <1>2, <1>9, <1>10, <1>11 DEF Next, Done

LEMMA KeyTypesAlways == Spec => []KeyTypes
<1>1. KeyTypes /\ [Next]_vars => KeyTypes'
  BY KeyTypesStep
<1> QED
  BY <1>1, KeyTypesInitial, PTL DEF Spec

-----------------------------------------------------------------------------
(* A signer has a whole key.                                               *)

\* A private key from its beginning, or nothing.
Part(f) == f = <<>> \/ \E k \in AllKeys, n \in 0 .. KeyLen : f = SubSeq(PrivateFile(k), 1, n)

WholeKey(f) == \E k \in AllKeys : f = PrivateFile(k)

\* What is at the path of the private key is never a mixture of two, and what a signer
\* has read of it is all of one.
WholeInv ==
  /\ KeyTypes
  /\ ~spoilt /\ pathLength # "long" =>
       /\ Part(files["private"])
       /\ \A s \in Signers : pc[s] = "sign" => WholeKey(key[s])

LEMMA PartType ==
  ASSUME NEW f, Part(f)
  PROVE  f \in Seq(Cells) /\ Len(f) <= KeyLen /\ (Len(f) = KeyLen => WholeKey(f))
<1>1. CASE f = <<>>
  BY <1>1, KeyGenAssumption
<1>2. CASE \E k \in AllKeys, n \in 0 .. KeyLen : f = SubSeq(PrivateFile(k), 1, n)
  <2>1. PICK k \in AllKeys, n \in 0 .. KeyLen : f = SubSeq(PrivateFile(k), 1, n)
    BY <1>2
  <2>2. PrivateFile(k) \in Seq(Cells) /\ Len(PrivateFile(k)) = KeyLen
    BY FileTypes
  <2>3. f \in Seq(Cells) /\ Len(f) = n
    BY <2>1, <2>2, CutTypes
  <2>4. n = KeyLen => f = PrivateFile(k)
    BY <2>1, <2>2
  <2> QED
    BY <2>3, <2>4, KeyGenAssumption DEF WholeKey
<1> QED
  BY <1>1, <1>2 DEF Part

\* Whoever writes the private key, and however much, leaves a part of it.
LEMMA WrittenParts ==
  ASSUME NEW f, Part(f), NEW k \in AllKeys
  PROVE  /\ Part(Over(f, PrivateFile(k)))
         /\ f = <<>> => \A n \in 0 .. KeyLen : Part(Over(f, SubSeq(PrivateFile(k), 1, n)))
<1>1. PrivateFile(k) \in Seq(Cells) /\ Len(PrivateFile(k)) = KeyLen
  BY FileTypes
<1>2. Over(f, PrivateFile(k)) = PrivateFile(k)
  BY <1>1, PartType, OverShort
<1>3. KeyLen \in 0 .. KeyLen /\ SubSeq(PrivateFile(k), 1, KeyLen) = PrivateFile(k)
  BY <1>1, KeyGenAssumption
<1>4. ASSUME f = <<>>, NEW n \in 0 .. KeyLen PROVE Part(Over(f, SubSeq(PrivateFile(k), 1, n)))
  <2> DEFINE c == SubSeq(PrivateFile(k), 1, n)
  <2>1. c \in Seq(Cells) /\ Len(c) = n
    BY <1>1, CutTypes
  <2>2. f \in Seq(Cells) /\ Len(f) = 0
    BY <1>4
  <2> HIDE DEF c
  <2>3. Len(f) <= Len(c)
    BY <2>1, <2>2, KeyGenAssumption
  <2>4. Over(f, c) = c
    BY <2>1, <2>2, <2>3, OverShort
  <2> QED
    BY <2>4 DEF Part, c
<1>5. Part(PrivateFile(k))
  BY <1>3 DEF Part
<1> QED
  BY <1>2, <1>4, <1>5

LEMMA WholeInitial == Init => WholeInv
<1> SUFFICES ASSUME Init PROVE WholeInv
  OBVIOUS
<1>1. KeyTypes
  BY KeyTypesInitial
<1>2. Part(files["private"])
  <2>1. files["private"] = <<>> \/ \E k \in OldKeys : files["private"] = PrivateFile(k)
    BY DEF Init, InitialFiles
  <2>2. ASSUME NEW k \in OldKeys PROVE Part(PrivateFile(k))
    <3>1. k \in AllKeys /\ KeyLen \in 0 .. KeyLen
      BY KeyGenAssumption DEF AllKeys
    <3>2. PrivateFile(k) = SubSeq(PrivateFile(k), 1, KeyLen)
      BY <3>1, FileTypes
    <3> QED
      BY <3>1, <3>2 DEF Part
  <2> QED
    BY <2>1, <2>2 DEF Part
<1> QED
  BY <1>1, <1>2 DEF Init, WholeInv, Procs

LEMMA WholeStep ==
  ASSUME WholeInv, [Next]_vars
  PROVE  WholeInv'
<1>1. KeyTypes /\ KeyTypes'
  BY KeyTypesStep DEF WholeInv
<1> DEFINE Files == Part(files["private"])
           Keys == \A s \in Signers : pc[s] = "sign" => WholeKey(key[s])
<1> SUFFICES ASSUME ~spoilt', pathLength' # "long" PROVE Files' /\ Keys'
  BY <1>1 DEF WholeInv
<1>2. pathLength' = pathLength /\ pathLength # "long"
  <2>1. \A p : \A l : Exit(p, l) => pathLength' = pathLength
    BY DEF Exit
  <2>2. ASSUME NEW p \in Procs, Advance(p) PROVE pathLength' = pathLength
    BY <2>1, <2>2 DEF Advance, OpenSource, DrawAgain, MakeKey, OpenPrivate, OpenPublic, OpenFile,
       PrivateFails, ClosePrivate, PublicFails, ClosePublic, StatKey, OpenKey, ReadKey, KeyFails,
       UseKey
  <2>3. ASSUME NEW p \in Procs, Trouble(p) PROVE pathLength' = pathLength
    BY <2>1, <2>3 DEF Trouble, NoSource, ClosePrivateFails, ClosePublicFails, Crash
  <2> QED
    BY <2>2, <2>3 DEF Next, Done, vars, Start, DrawZero, DrawGood
<1>3. PublicPath # "private"
  BY <1>2 DEF PublicPath
<1>4. ASSUME spoilt' = spoilt PROVE Files /\ Keys
  BY <1>2, <1>4 DEF WholeInv
<1>5. ASSUME Keys, NEW p \in Procs, NEW l, Goto(p, l), l # "sign",
             \A q \in Procs : q # p => key'[q] = key[q]
      PROVE  Keys'
  BY <1>1, <1>5 DEF Goto, KeyTypes, Procs
<1>6. ASSUME NEW p \in Procs, NEW status, Exit(p, status), Files', Keys PROVE Files' /\ Keys'
  BY <1>1, <1>5, <1>6 DEF Exit, KeyTypes
<1>7. ASSUME NEW p \in Procs,
             \/ Start(p) \/ OpenSource(p) \/ DrawAgain(p) \/ MakeKey(p) \/ DrawZero(p)
             \/ DrawGood(p) \/ PrivateFails(p) \/ StatKey(p) \/ OpenKey(p)
      PROVE  Files' /\ Keys'
  <2>1. (\E l : Goto(p, l) /\ l # "sign") /\ UNCHANGED <<files, key, spoilt>>
    BY <1>7 DEF Start, OpenSource, DrawAgain, MakeKey, DrawZero, DrawGood, PrivateFails, StatKey,
       OpenKey, hist
  <2> QED
    BY <1>4, <1>5, <2>1
<1>8. ASSUME NEW p \in Procs, OpenPrivate(p) \/ OpenPublic(p) PROVE Files' /\ Keys'
  <2>1. /\ \E l : Goto(p, l) /\ l # "sign"
        /\ \E path : files' = [files EXCEPT ![path] = <<>>]
        /\ UNCHANGED <<key, spoilt>>
    BY <1>8 DEF OpenPrivate, OpenPublic, OpenFile, hist
  <2>2. files'["private"] = files["private"] \/ files'["private"] = <<>>
    BY <1>1, <2>1 DEF KeyTypes, Places
  <2>3. Files'
    BY <1>4, <2>1, <2>2 DEF Part
  <2> QED
    BY <1>4, <1>5, <2>1, <2>3
<1>9. ASSUME NEW p \in Procs, ClosePrivate(p) \/ ClosePrivateFails(p) PROVE Files' /\ Keys'
  <2>1. /\ \E l : Goto(p, l) /\ l # "sign"
        /\ key' = key
    BY <1>9 DEF ClosePrivate, ClosePrivateFails, hist
  <2>2. p \in Keygens /\ pc[p] # "idle"
    BY <1>1, <1>9 DEF ClosePrivate, ClosePrivateFails, KeyTypes, KeygenSteps
  <2>3. Key(p) \in AllKeys
    BY <1>1, <2>2, KeyType
  <2>4. ~spoilt /\ (ClosePrivateFails(p) => files[PrivatePath] = <<>>)
    <3>1. CASE ClosePrivate(p)
      BY <1>1, <3>1 DEF ClosePrivate, ClosePrivateFails, Cut, KeyTypes, hist
    <3>2. CASE ClosePrivateFails(p)
      BY <1>1, <3>2 DEF ClosePrivateFails, Cut, KeyTypes
    <3> QED
      BY <1>9, <3>1, <3>2
  <2>5. Files /\ Keys
    BY <1>2, <2>4 DEF WholeInv
  <2>6. Keys'
    BY <1>5, <2>1, <2>5
  <2>7. CASE PrivatePath # "private"
    <3>1. files'["private"] = files["private"]
      BY <1>1, <1>9, <2>7 DEF ClosePrivate, ClosePrivateFails, KeyTypes, Places
    <3> QED
      BY <2>5, <2>6, <3>1
  <2>8. CASE PrivatePath = "private" /\ ClosePrivate(p)
    <3>1. files'["private"] = Over(files["private"], PrivateFile(Key(p)))
      BY <1>1, <2>8 DEF ClosePrivate, KeyTypes, Places
    <3>2. Part(Over(files["private"], PrivateFile(Key(p))))
      BY <2>3, <2>5, WrittenParts
    <3> QED
      BY <2>6, <3>1, <3>2
  <2>9. CASE PrivatePath = "private" /\ ClosePrivateFails(p)
    <3>1. PICK n \in 0 .. KeyLen - 1 :
            files'["private"] = Over(files["private"], SubSeq(PrivateFile(Key(p)), 1, n))
      BY <1>1, <2>9 DEF ClosePrivateFails, KeyTypes, Places
    <3>2. n \in 0 .. KeyLen
      BY KeyGenAssumption
    <3>3. Part(Over(files["private"], SubSeq(PrivateFile(Key(p)), 1, n)))
      BY <2>3, <2>4, <2>5, <2>9, <3>2, WrittenParts
    <3> QED
      BY <2>6, <3>1, <3>3
  <2> QED
    BY <1>9, <2>7, <2>8, <2>9
<1>10. ASSUME NEW p \in Procs, ClosePublic(p) \/ ClosePublicFails(p) PROVE Files' /\ Keys'
  <2>1. (\E status : Exit(p, status)) /\ ~spoilt
    BY <1>1, <1>10 DEF ClosePublic, ClosePublicFails, Cut, KeyTypes
  <2>2. files'["private"] = files["private"]
    BY <1>1, <1>3, <1>10 DEF ClosePublic, ClosePublicFails, KeyTypes, Places
  <2>3. Files /\ Keys
    BY <1>2, <2>1 DEF WholeInv
  <2> QED
    BY <1>6, <2>1, <2>2, <2>3
<1>11. ASSUME NEW p \in Procs,
              NoSource(p) \/ PublicFails(p) \/ KeyFails(p) \/ UseKey(p) \/ Crash(p)
       PROVE  Files' /\ Keys'
  <2>1. (\E status : Exit(p, status)) /\ files' = files /\ spoilt' = spoilt
    BY <1>11 DEF NoSource, PublicFails, KeyFails, UseKey, Crash
  <2> QED
    BY <1>4, <1>6, <2>1
<1>12. ASSUME NEW p \in Procs, ReadKey(p) PROVE Files' /\ Keys'
  <2>1. /\ files' = files /\ spoilt' = spoilt
        /\ \A q \in Procs : q # p => pc'[q] = pc[q] /\ key'[q] = key[q]
        /\ key'[p] = SubSeq(KeyFile, 1, KeyLen) /\ Len(KeyFile) >= KeyLen
    BY <1>1, <1>12 DEF ReadKey, Goto, KeyTypes, hist
  <2>2. Files /\ Keys
    BY <1>4, <2>1
  <2>3. KeyFile = files["private"]
    BY <2>1, KeyGenAssumption DEF KeyFile
  <2>4. KeyFile \in Seq(Cells) /\ Len(KeyFile) = KeyLen /\ WholeKey(KeyFile)
    <3>1. /\ KeyFile \in Seq(Cells) /\ Len(KeyFile) <= KeyLen
          /\ Len(KeyFile) = KeyLen => WholeKey(KeyFile)
      BY <2>2, <2>3, PartType
    <3>2. Len(KeyFile) = KeyLen
      BY <2>1, <3>1, KeyGenAssumption
    <3> QED
      BY <3>1, <3>2
  <2>5. SubSeq(KeyFile, 1, KeyLen) = KeyFile
    BY <2>4
  <2>6. Keys'
    BY <2>1, <2>2, <2>4, <2>5 DEF Procs
  <2> QED
    BY <2>1, <2>2, <2>6
<1>13. CASE UNCHANGED vars
  BY <1>4, <1>13 DEF vars
<1>14. ASSUME NEW p \in Procs, Advance(p) PROVE Files' /\ Keys'
  BY <1>7, <1>8, <1>9, <1>10, <1>11, <1>12, <1>14 DEF Advance
<1>15. ASSUME NEW p \in Procs, Trouble(p) PROVE Files' /\ Keys'
  BY <1>9, <1>10, <1>11, <1>15 DEF Trouble
<1> QED
  BY <1>7, <1>13, <1>14, <1>15 DEF Next, Done

\* A signer uses only a whole private key that some run made, however many keygen
\* processes empty and write the file meanwhile, overlap, fail and are killed; but
\* for what a failed fclose left over another run's key, and a path without room
\* for ".pub".
THEOREM KeyGenWholeKeys == Spec => []WholeKeysUsed
<1>1. WholeInv /\ [Next]_vars => WholeInv'
  BY WholeStep
<1>2. WholeInv => WholeKeysUsed
  BY DEF WholeInv, WholeKeysUsed, WholeKey, AllKeys
<1> QED
  BY <1>1, <1>2, WholeInitial, PTL DEF Spec

-----------------------------------------------------------------------------
(* A keygen that reports success has left a pair.                          *)

\* What a keygen has done with the files so far, when no other one has overlapped
\* it and it lost nothing: it counts a file in result only when it has written it.
Progress(p) ==
  /\ pc[p] \in {"source", "draw", "scan", "open_private", "close_private"} => result[p] = 0
  /\ pc[p] = "close_private" => files["private"] = <<>>
  /\ pc[p] \in {"open_public", "close_public"} /\ result[p] = 1 =>
       files["private"] = PrivateFile(Key(p))
  /\ pc[p] = "close_public" => files["public"] = <<>>
  /\ pc[p] = "idle" /\ code[p] = "ok" => IsPairOf(p)

Solo(p) == p \in alone /\ p \notin cut /\ pathLength = "short"

PairInv ==
  /\ KeyTypes
  /\ \A p \in Keygens : pc[p] = "idle" => result[p] = 0
  /\ \A p \in alone : Running \subseteq {p}
  /\ \A p \in Keygens : Solo(p) => Progress(p)

LEMMA PairInitial == Init => PairInv
BY KeyTypesInitial DEF Init, PairInv, Running, Solo, Procs

\* Steps of a signer change nothing that is told of a keygen.
LEMMA PairOther ==
  ASSUME PairInv, KeyTypes', files' = files, UNCHANGED <<pathLength, alone>>,
         \A p \in Keygens : /\ pc'[p] = pc[p] /\ code'[p] = code[p] /\ runs'[p] = runs[p]
                            /\ result'[p] = result[p] /\ (p \in cut' <=> p \in cut)
  PROVE  PairInv'
<1>1. Running' = Running
  BY DEF Running
<1>2. ASSUME NEW p \in Keygens, Solo(p)' PROVE Progress(p)'
  <2>1. Solo(p)
    BY <1>2 DEF Solo
  <2>2. Progress(p) /\ Key(p)' = Key(p)
    BY <2>1 DEF PairInv, Key
  <2> QED
    BY <2>2 DEF Progress, IsPairOf
<1> QED
  BY <1>1, <1>2 DEF PairInv

\* A step of a keygen that has begun: it runs alone, or nothing is told of it.
LEMMA PairOwn ==
  ASSUME PairInv, KeyTypes', NEW q \in Keygens, pc[q] # "idle",
         \A p \in Procs : p # q => pc'[p] = pc[p] /\ result'[p] = result[p],
         UNCHANGED <<pathLength, alone, runs>>, cut \subseteq cut',
         pc'[q] = "idle" => result'[q] = 0,
         Solo(q) /\ Solo(q)' /\ Progress(q) => Progress(q)'
  PROVE  PairInv'
<1>1. Running' \subseteq Running
  BY DEF Running, Procs
<1>2. \A p \in alone' : Running' \subseteq {p}
  BY <1>1 DEF PairInv
<1>3. ASSUME NEW p \in Keygens, Solo(p)' PROVE Progress(p)'
  <2>1. Solo(p)
    BY <1>3 DEF Solo
  <2>2. q \in Running
    BY DEF Running
  <2>3. p = q
    BY <2>1, <2>2 DEF PairInv, Solo
  <2> QED
    BY <1>3, <2>1, <2>3 DEF PairInv
<1> QED
  BY <1>2, <1>3 DEF PairInv, Procs

LEMMA PairStep ==
  ASSUME PairInv, [Next]_vars
  PROVE  PairInv'
<1>1. KeyTypes /\ KeyTypes' /\ Keygens \cap Signers = {}
  BY KeyTypesStep, KeyGenAssumption DEF PairInv
<1>2. ASSUME NEW p \in Keygens, Start(p) PROVE PairInv'
  <2>1. /\ pc[p] = "idle" /\ pc'[p] = "source" /\ result' = result /\ pathLength' = pathLength
        /\ \A q \in Procs : q # p => pc'[q] = pc[q]
        /\ alone' = IF Running = {} THEN {p} ELSE {}
    BY <1>1, <1>2 DEF Start, Goto, KeyTypes
  <2>2. ASSUME NEW q \in alone' PROVE q = p /\ Running' \subseteq {p}
    BY <2>1, <2>2 DEF Running, Procs
  <2>3. ASSUME NEW q \in Keygens, Solo(q)' PROVE Progress(q)'
    <3>1. q = p
      BY <2>2, <2>3 DEF Solo
    <3>2. result'[p] = 0
      BY <2>1 DEF PairInv
    <3> QED
      BY <2>1, <3>1, <3>2 DEF Progress
  <2> QED
    BY <1>1, <2>1, <2>2, <2>3 DEF PairInv, Procs
<1>3. ASSUME NEW p \in Signers, p \notin Keygens, Start(p) PROVE PairInv'
  <2>1. /\ files' = files /\ UNCHANGED <<pathLength, alone, result>>
        /\ cut' = cut \ {p}
        /\ \A q \in Procs : q # p => pc'[q] = pc[q] /\ code'[q] = code[q] /\ runs'[q] = runs[q]
    BY <1>1, <1>3 DEF Start, Goto, KeyTypes
  <2>2. p \in Procs /\ \A q \in Keygens : q # p /\ q \in Procs
    BY <1>3 DEF Procs
  <2> QED
    BY <1>1, <2>1, <2>2, PairOther
<1>4. ASSUME NEW p \in Procs, OpenSource(p) \/ DrawAgain(p) \/ MakeKey(p) \/ DrawZero(p) \/ DrawGood(p)
      PROVE  PairInv'
  <2>1. /\ p \in Keygens /\ pc[p] \in {"source", "draw", "scan"}
        /\ pc'[p] \in {"source", "draw", "scan", "open_private"}
        /\ UNCHANGED <<pathLength, alone, runs, cut, files, result, code>>
        /\ \A q \in Procs : q # p => pc'[q] = pc[q]
    BY <1>1, <1>4 DEF OpenSource, DrawAgain, MakeKey, DrawZero, DrawGood, Goto, hist, KeyTypes,
       KeygenSteps
  <2>2. Progress(p) => Progress(p)'
    BY <2>1 DEF Progress
  <2> QED
    BY <1>1, <2>1, <2>2, PairOwn
<1>5. ASSUME NEW p \in Procs, OpenPrivate(p) PROVE PairInv'
  <2>1. /\ p \in Keygens /\ pc[p] = "open_private" /\ pc'[p] = "close_private"
        /\ UNCHANGED <<pathLength, alone, runs, cut, result, code>>
        /\ files' = [files EXCEPT ![PrivatePath] = <<>>]
        /\ \A q \in Procs : q # p => pc'[q] = pc[q]
    BY <1>1, <1>5 DEF OpenPrivate, OpenFile, Goto, hist, KeyTypes, KeygenSteps
  <2>2. pathLength = "short" => files'["private"] = <<>>
    BY <1>1, <2>1 DEF PrivatePath, KeyTypes, Places
  <2>3. Solo(p) /\ Progress(p) => Progress(p)'
    BY <2>1, <2>2 DEF Progress, Solo
  <2> QED
    BY <1>1, <2>1, <2>3, PairOwn
<1>6. ASSUME NEW p \in Procs, PrivateFails(p) PROVE PairInv'
  <2>1. /\ p \in Keygens /\ pc[p] = "open_private" /\ pc'[p] = "open_public"
        /\ UNCHANGED <<pathLength, alone, runs, cut, result, code, files>>
        /\ \A q \in Procs : q # p => pc'[q] = pc[q]
    BY <1>1, <1>6 DEF PrivateFails, Goto, hist, KeyTypes, KeygenSteps
  <2>2. Progress(p) => Progress(p)'
    BY <2>1 DEF Progress
  <2> QED
    BY <1>1, <2>1, <2>2, PairOwn
<1>7. ASSUME NEW p \in Procs, ClosePrivate(p) PROVE PairInv'
  <2>1. /\ p \in Keygens /\ pc[p] = "close_private" /\ pc'[p] = "open_public"
        /\ UNCHANGED <<pathLength, alone, runs, cut, code>>
        /\ files' = [files EXCEPT ![PrivatePath] = Over(files[PrivatePath], PrivateFile(Key(p)))]
        /\ \A q \in Procs : q # p => pc'[q] = pc[q] /\ result'[q] = result[q]
        /\ Key(p)' = Key(p)
    BY <1>1, <1>7 DEF ClosePrivate, Goto, hist, KeyTypes, KeygenSteps, Key
  <2>2. ASSUME Solo(p), Progress(p) PROVE files'["private"] = PrivateFile(Key(p))
    <3>1. files["private"] = <<>> /\ PrivatePath = "private"
      BY <2>1, <2>2 DEF Progress, Solo, PrivatePath
    <3>2. Over(<<>>, PrivateFile(Key(p))) = PrivateFile(Key(p))
      <4>1. Key(p) \in AllKeys
        BY <1>1, <2>1, KeyType
      <4> QED
        BY <4>1, WholeOver
    <3> QED
      BY <1>1, <2>1, <3>1, <3>2 DEF KeyTypes, Places
  <2>3. Solo(p) /\ Progress(p) => Progress(p)'
    BY <2>1, <2>2 DEF Progress
  <2> QED
    BY <1>1, <2>1, <2>3, PairOwn
<1>8. ASSUME NEW p \in Procs, ClosePrivateFails(p) PROVE PairInv'
  <2>1. /\ p \in Keygens /\ pc[p] = "close_private" /\ pc'[p] = "open_public"
        /\ UNCHANGED <<pathLength, alone, runs>> /\ cut' = cut \cup {p}
        /\ \A q \in Procs : q # p => pc'[q] = pc[q] /\ result'[q] = result[q]
    BY <1>1, <1>8 DEF ClosePrivateFails, Cut, Goto, KeyTypes, KeygenSteps
  <2> QED
    BY <1>1, <2>1, PairOwn DEF Solo
<1>9. ASSUME NEW p \in Procs, OpenPublic(p) PROVE PairInv'
  <2>1. /\ p \in Keygens /\ pc[p] = "open_public" /\ pc'[p] = "close_public"
        /\ UNCHANGED <<pathLength, alone, runs, cut, result, code>>
        /\ files' = [files EXCEPT ![PublicPath] = <<>>]
        /\ \A q \in Procs : q # p => pc'[q] = pc[q]
        /\ Key(p)' = Key(p)
    BY <1>1, <1>9 DEF OpenPublic, OpenFile, Goto, hist, KeyTypes, KeygenSteps, Key
  <2>2. pathLength = "short" => files'["public"] = <<>> /\ files'["private"] = files["private"]
    BY <1>1, <2>1 DEF PublicPath, KeyTypes, Places
  <2>3. Solo(p) /\ Progress(p) => Progress(p)'
    BY <2>1, <2>2 DEF Progress, Solo
  <2> QED
    BY <1>1, <2>1, <2>3, PairOwn
<1>10. ASSUME NEW p \in Procs, NEW status, Exit(p, status), p \in Keygens, pc[p] # "idle",
              cut \subseteq cut', Solo(p) /\ Solo(p)' /\ Progress(p) => (status = "ok" => IsPairOf(p)')
       PROVE  PairInv'
  <2>1. /\ pc'[p] = "idle" /\ result'[p] = 0 /\ code'[p] = status
        /\ UNCHANGED <<pathLength, alone, runs>>
        /\ \A q \in Procs : q # p => pc'[q] = pc[q] /\ result'[q] = result[q]
    BY <1>1, <1>10 DEF Exit, Goto, KeyTypes
  <2>2. Solo(p) /\ Solo(p)' /\ Progress(p) => Progress(p)'
    BY <1>10, <2>1 DEF Progress
  <2> QED
    BY <1>1, <1>10, <2>1, <2>2, PairOwn
<1>11. ASSUME NEW p \in Procs, PublicFails(p) PROVE PairInv'
  <2>1. /\ p \in Keygens /\ pc[p] = "open_public" /\ Exit(p, Status(result[p])) /\ cut' = cut
        /\ result[p] \in {0, 1}
    BY <1>1, <1>11 DEF PublicFails, KeyTypes, KeygenSteps
  <2>2. Status(result[p]) # "ok"
    BY <2>1 DEF Status
  <2> QED
    BY <1>10, <2>1, <2>2
<1>12. ASSUME NEW p \in Procs, ClosePublic(p) PROVE PairInv'
  <2>1. /\ p \in Keygens /\ pc[p] = "close_public" /\ Exit(p, Status(result[p] + 1)) /\ cut' = cut
        /\ result[p] \in {0, 1} /\ Key(p)' = Key(p)
        /\ files' = [files EXCEPT ![PublicPath] = Over(files[PublicPath], PublicFile(Key(p)))]
    BY <1>1, <1>12 DEF ClosePublic, Exit, KeyTypes, KeygenSteps, Key
  <2>2. ASSUME Solo(p), Progress(p), Status(result[p] + 1) = "ok" PROVE IsPairOf(p)'
    <3>1. result[p] = 1
      BY <2>1, <2>2 DEF Status
    <3>2. files["private"] = PrivateFile(Key(p)) /\ files["public"] = <<>> /\ PublicPath = "public"
      BY <2>1, <2>2, <3>1 DEF Progress, Solo, PublicPath
    <3>3. Over(<<>>, PublicFile(Key(p))) = PublicFile(Key(p))
      <4>1. Key(p) \in AllKeys
        BY <1>1, <2>1, KeyType
      <4> QED
        BY <4>1, WholeOver
    <3> QED
      BY <1>1, <2>1, <3>2, <3>3 DEF IsPairOf, KeyTypes, Places
  <2> QED
    BY <1>10, <2>1, <2>2
<1>13. ASSUME NEW p \in Procs, ClosePublicFails(p) PROVE PairInv'
  <2>1. /\ p \in Keygens /\ pc[p] = "close_public" /\ Exit(p, Status(result[p] + 1))
        /\ cut' = cut \cup {p}
    BY <1>1, <1>13 DEF ClosePublicFails, Cut, KeyTypes, KeygenSteps
  <2> QED
    BY <1>10, <2>1 DEF Solo
<1>14. ASSUME NEW p \in Procs, NoSource(p) PROVE PairInv'
  <2>1. p \in Keygens /\ pc[p] = "source" /\ Exit(p, "fail") /\ cut' = cut
    BY <1>1, <1>14 DEF NoSource, KeyTypes, KeygenSteps
  <2> QED
    BY <1>10, <2>1
<1>15. ASSUME NEW p \in Keygens, Crash(p) PROVE PairInv'
  <2>1. p \in Procs /\ pc[p] # "idle" /\ Exit(p, "killed") /\ cut' = cut
    BY <1>15 DEF Crash, Procs
  <2> QED
    BY <1>10, <2>1
<1>16. ASSUME NEW p \in Signers, NEW l, Goto(p, l), files' = files, cut' = cut,
              UNCHANGED <<pathLength, alone, runs>>,
              \A q \in Keygens : result'[q] = result[q] /\ code'[q] = code[q]
       PROVE  PairInv'
  <2>1. \A q \in Keygens : pc'[q] = pc[q]
    BY <1>1, <1>16 DEF Goto, KeyTypes, Procs
  <2> QED
    BY <1>1, <1>16, <2>1, PairOther
<1>17. ASSUME NEW p \in Procs, StatKey(p) \/ OpenKey(p) \/ ReadKey(p) PROVE PairInv'
  <2>1. /\ p \in Signers /\ \E l : Goto(p, l)
        /\ UNCHANGED <<files, cut, pathLength, alone, runs, result, code>>
    BY <1>1, <1>17 DEF StatKey, OpenKey, ReadKey, hist, KeyTypes, SignerSteps
  <2> QED
    BY <1>16, <2>1
<1>18. ASSUME NEW p \in Signers, NEW status, Exit(p, status), files' = files, cut' = cut
       PROVE  PairInv'
  <2>1. /\ Goto(p, "idle") /\ UNCHANGED <<pathLength, alone, runs>>
        /\ \A q \in Keygens : result'[q] = result[q] /\ code'[q] = code[q]
    BY <1>1, <1>18 DEF Exit, KeyTypes, Procs
  <2> QED
    BY <1>16, <1>18, <2>1
<1>19. ASSUME NEW p \in Procs, KeyFails(p) \/ UseKey(p) PROVE PairInv'
  <2>1. p \in Signers /\ (\E status : Exit(p, status)) /\ files' = files /\ cut' = cut
    BY <1>1, <1>19 DEF KeyFails, UseKey, KeyTypes, SignerSteps
  <2> QED
    BY <1>18, <2>1
<1>20. ASSUME NEW p \in Procs, Crash(p) PROVE PairInv'
  <2>1. CASE p \in Keygens
    BY <1>15, <1>20, <2>1
  <2>2. CASE p \in Signers
    BY <1>18, <1>20, <2>2 DEF Crash
  <2> QED
    BY <2>1, <2>2 DEF Procs
<1>21. ASSUME NEW p \in Procs, Start(p) PROVE PairInv'
  BY <1>2, <1>3, <1>21 DEF Procs
<1>22. CASE UNCHANGED vars
  BY <1>1, <1>22 DEF vars, PairInv, Running, Solo, Progress, IsPairOf, Key
<1>23. ASSUME NEW p \in Procs, Advance(p) PROVE PairInv'
  <2>1. CASE OpenSource(p) \/ DrawAgain(p) \/ MakeKey(p)
    BY <1>4, <2>1
  <2>2. CASE OpenPrivate(p) \/ PrivateFails(p) \/ ClosePrivate(p) \/ OpenPublic(p)
    BY <1>5, <1>6, <1>7, <1>9, <2>2
  <2>3. CASE PublicFails(p) \/ ClosePublic(p)
    BY <1>11, <1>12, <2>3
  <2>4. CASE StatKey(p) \/ OpenKey(p) \/ ReadKey(p) \/ KeyFails(p) \/ UseKey(p)
    BY <1>17, <1>19, <2>4
  <2> QED
    BY <1>23, <2>1, <2>2, <2>3, <2>4 DEF Advance
<1>24. ASSUME NEW p \in Procs, Trouble(p) PROVE PairInv'
  BY <1>8, <1>13, <1>14, <1>20, <1>24 DEF Trouble
<1> QED
  BY <1>4, <1>21, <1>22, <1>23, <1>24 DEF Next, Done

\* A keygen that ended with exit status 0 has left the two files of its key, whatever
\* was there before and whatever earlier runs and signers did; provided that no other
\* keygen overlapped it, no fclose of it failed, and the path is short enough.
THEOREM KeyGenPair == Spec => []PairReported
<1>1. PairInv /\ [Next]_vars => PairInv'
  BY PairStep
<1>2. ASSUME PairInv PROVE PairReported
  <2> SUFFICES ASSUME NEW p \in last, Running = {}, p \in alone, p \notin cut,
                      pathLength = "short", code[p] = "ok"
               PROVE  IsPairOf(p)
    BY DEF PairReported
  <2>1. p \in Keygens /\ pc[p] = "idle"
    BY <1>2 DEF PairInv, KeyTypes, Running
  <2> QED
    BY <1>2, <2>1 DEF PairInv, Solo, Progress
<1> QED
  BY <1>1, <1>2, PairInitial, PTL DEF Spec

=============================================================================
