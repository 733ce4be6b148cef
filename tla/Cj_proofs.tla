------------------------------ MODULE Cj_proofs ------------------------------
(***************************************************************************)
(* How brackets nest in a document of any length: the depth at a position, *)
(* the brackets open there, the bracket that encloses a symbol, and what a *)
(* lookup in the tokens of a document finds.                               *)
(***************************************************************************)
EXTENDS Cj, TLAPS, FiniteSetTheorems, WellFoundedInduction

Document == Seq(Symbols \cup {"i"})

\* A set of numbers that is not empty has a smallest one.
LEMMA SmallestNumber ==
  ASSUME NEW S \in SUBSET Nat, S # {}
  PROVE  \E m \in S : \A n \in S : m <= n
<1>1. IsWellFoundedOn(OpToRel(<, Nat), Nat)
  BY NatLessThanWellFounded
<1>2. PICK m \in S : \A n \in S : ~(<<n, m>> \in OpToRel(<, Nat))
  BY <1>1, WFMin
<1>3. \A n \in S : ~(n < m)
  BY <1>2 DEF OpToRel
<1> QED
  BY <1>3

\* One with an upper bound has a largest one.
LEMMA LargestNumber ==
  ASSUME NEW S \in SUBSET Nat, S # {}, NEW b \in Nat, \A n \in S : n <= b
  PROVE  \E m \in S : \A n \in S : n <= m
<1> DEFINE R == {b - n : n \in S}
<1>1. R \in SUBSET Nat /\ R # {}
  <2>1. \A n \in S : n \in Nat /\ n <= b
    OBVIOUS
  <2>2. \A n \in S : b - n \in Nat
    BY <2>1
  <2>3. R \in SUBSET Nat
    BY <2>2
  <2>4. PICK n \in S : TRUE
    OBVIOUS
  <2>5. b - n \in R
    BY <2>4
  <2> QED
    BY <2>3, <2>5
<1>2. PICK r \in R : \A q \in R : r <= q
  <2> HIDE DEF R
  <2> QED
    BY <1>1, SmallestNumber
<1>3. PICK m \in S : r = b - m
  BY <1>2
<1>4. ASSUME NEW n \in S PROVE n <= m
  <2>1. b - n \in R
    OBVIOUS
  <2>2. b - m <= b - n
    BY <1>2, <1>3, <2>1
  <2>3. n \in Nat /\ m \in Nat
    OBVIOUS
  <2> QED
    BY <2>2, <2>3
<1> QED
  BY <1>4

-----------------------------------------------------------------------------
(* Depth.                                                                  *)

\* How many positions before i hold a symbol of syms.
Before(doc, i, syms) == Cardinality({j \in 1 .. i - 1 : doc[j] \in syms})

LEMMA BeforeFirst ==
  ASSUME NEW doc, NEW syms
  PROVE  Before(doc, 1, syms) = 0
<1>1. {j \in 1 .. 1 - 1 : doc[j] \in syms} = {}
  OBVIOUS
<1> QED
  BY <1>1, FS_EmptySet DEF Before

LEMMA BeforeStep ==
  ASSUME NEW doc, NEW syms, NEW i \in Nat \ {0}
  PROVE  /\ Before(doc, i, syms) \in Nat
         /\ Before(doc, i + 1, syms) =
              Before(doc, i, syms) + (IF doc[i] \in syms THEN 1 ELSE 0)
<1> DEFINE S(n) == {j \in 1 .. n : doc[j] \in syms}
<1>1. IsFiniteSet(S(i - 1)) /\ Cardinality(S(i - 1)) \in Nat
  <2>1. IsFiniteSet(1 .. i - 1)
    BY FS_Interval
  <2>2. S(i - 1) \in SUBSET (1 .. i - 1)
    OBVIOUS
  <2>3. IsFiniteSet(S(i - 1))
    BY <2>1, <2>2, FS_Subset
  <2> QED
    BY <2>3, FS_CardinalityType
<1>2. i \notin S(i - 1)
  OBVIOUS
<1>3. /\ Before(doc, i, syms) = Cardinality(S(i - 1))
      /\ Before(doc, i + 1, syms) = Cardinality(S(i))
  <2>1. (i + 1) - 1 = i
    OBVIOUS
  <2> QED
    BY <2>1 DEF Before
<1>4. CASE doc[i] \in syms
  <2>1. S(i) = S(i - 1) \cup {i}
    BY <1>4
  <2>2. Cardinality(S(i)) = Cardinality(S(i - 1)) + 1
    <3> HIDE DEF S
    <3> QED
      BY <1>1, <1>2, <2>1, FS_AddElement
  <2> QED
    BY <1>1, <1>3, <1>4, <2>2
<1>5. CASE doc[i] \notin syms
  <2>1. S(i) = S(i - 1)
    BY <1>5
  <2> HIDE DEF S
  <2> QED
    BY <1>1, <1>3, <1>5, <2>1
<1> QED
  BY <1>4, <1>5

LEMMA DepthFirst == ASSUME NEW doc PROVE Depth(doc, 1) = 0
<1>1. Before(doc, 1, Begins) = 0 /\ Before(doc, 1, Ends) = 0
  BY BeforeFirst
<1> QED
  BY <1>1 DEF Depth, Before

\* A bracket changes the depth behind it, and nothing else does.
LEMMA DepthStep ==
  ASSUME NEW doc, NEW i \in Nat \ {0}
  PROVE  /\ Depth(doc, i) \in Int
         /\ doc[i] \in Begins => Depth(doc, i + 1) = Depth(doc, i) + 1
         /\ doc[i] \in Ends => Depth(doc, i + 1) = Depth(doc, i) - 1
         /\ doc[i] \notin Begins \cup Ends => Depth(doc, i + 1) = Depth(doc, i)
<1>1. \A k \in Nat \ {0} : Depth(doc, k) = Before(doc, k, Begins) - Before(doc, k, Ends)
  BY DEF Depth, Before
<1>2. /\ Before(doc, i, Begins) \in Nat /\ Before(doc, i, Ends) \in Nat
      /\ Before(doc, i + 1, Begins) =
           Before(doc, i, Begins) + (IF doc[i] \in Begins THEN 1 ELSE 0)
      /\ Before(doc, i + 1, Ends) =
           Before(doc, i, Ends) + (IF doc[i] \in Ends THEN 1 ELSE 0)
  BY BeforeStep
<1>3. ~(doc[i] \in Begins /\ doc[i] \in Ends)
  BY DEF Begins, Ends
<1>4. i + 1 \in Nat \ {0}
  OBVIOUS
<1>5. /\ Depth(doc, i) = Before(doc, i, Begins) - Before(doc, i, Ends)
      /\ Depth(doc, i + 1) = Before(doc, i + 1, Begins) - Before(doc, i + 1, Ends)
  BY <1>1, <1>4
<1> QED
  BY <1>2, <1>3, <1>5

-----------------------------------------------------------------------------
(* Open brackets.                                                          *)

\* s holds the brackets open behind the first n symbols, the outermost first.
Opened(doc, n, s) ==
  /\ s \in Seq(Nat) /\ Len(s) = Depth(doc, n + 1)
  /\ \A k \in 1 .. Len(s) :
       /\ s[k] \in 1 .. n /\ doc[s[k]] \in Begins /\ Depth(doc, s[k]) = k - 1
       /\ \A j \in s[k] + 1 .. n + 1 : Depth(doc, j) >= k
  /\ \A j \in 1 .. n + 1 : Depth(doc, j) >= 0

LEMMA NoneOpened == ASSUME NEW doc PROVE Opened(doc, 0, <<>>)
<1>1. Depth(doc, 1) = 0
  BY DepthFirst
<1>2. Len(<<>>) = 0 /\ <<>> \in Seq(Nat)
  OBVIOUS
<1>3. 0 + 1 = 1 /\ \A j \in 1 .. 1 : j = 1
  OBVIOUS
<1> QED
  BY <1>1, <1>2, <1>3 DEF Opened

\* What the depths say of the innermost open bracket, or of none.
LEMMA Innermost ==
  ASSUME NEW doc, NEW n \in Nat, NEW s, Opened(doc, n, s)
  PROVE  /\ Len(s) \in Nat /\ Depth(doc, n + 1) = Len(s)
         /\ \A k \in 1 .. Len(s) : s[k] \in Nat
  BY DEF Opened

LEMMA OpenedMore ==
  ASSUME NEW doc, NEW n \in Nat, NEW s, Opened(doc, n, s), doc[n + 1] \in Begins
  PROVE  Opened(doc, n + 1, Append(s, n + 1))
<1> DEFINE t == Append(s, n + 1)
<1>1. /\ s \in Seq(Nat) /\ Len(s) \in Nat /\ Len(s) = Depth(doc, n + 1)
      /\ t \in Seq(Nat) /\ Len(t) = Len(s) + 1
      /\ \A k \in 1 .. Len(s) : t[k] = s[k]
      /\ t[Len(s) + 1] = n + 1
  BY DEF Opened
<1>2. Depth(doc, (n + 1) + 1) = Len(s) + 1
  BY <1>1, DepthStep
<1>3. ASSUME NEW k \in 1 .. Len(t)
      PROVE  /\ t[k] \in 1 .. n + 1 /\ doc[t[k]] \in Begins /\ Depth(doc, t[k]) = k - 1
             /\ \A j \in t[k] + 1 .. (n + 1) + 1 : Depth(doc, j) >= k
  <2>1. CASE k \in 1 .. Len(s)
    <3>1. /\ t[k] = s[k] /\ t[k] \in 1 .. n /\ doc[t[k]] \in Begins
          /\ Depth(doc, t[k]) = k - 1
          /\ \A j \in t[k] + 1 .. n + 1 : Depth(doc, j) >= k
      BY <1>1, <2>1 DEF Opened
    <3>2. ASSUME NEW j \in t[k] + 1 .. (n + 1) + 1 PROVE Depth(doc, j) >= k
      <4>1. CASE j = (n + 1) + 1
        BY <1>1, <1>2, <2>1, <4>1
      <4>2. CASE j # (n + 1) + 1
        <5>1. j \in t[k] + 1 .. n + 1
          BY <3>1, <4>2
        <5> QED
          BY <3>1, <5>1
      <4> QED
        BY <4>1, <4>2
    <3> QED
      BY <3>1, <3>2
  <2>2. CASE k = Len(s) + 1
    <3>1. t[k] = n + 1 /\ Depth(doc, n + 1) = k - 1
      BY <1>1, <2>2
    <3>2. \A j \in (n + 1) + 1 .. (n + 1) + 1 : Depth(doc, j) >= k
      BY <1>1, <1>2, <2>2
    <3> QED
      BY <3>1, <3>2
  <2> QED
    BY <1>1, <2>1, <2>2
<1>4. ASSUME NEW j \in 1 .. (n + 1) + 1 PROVE Depth(doc, j) >= 0
  <2>1. CASE j = (n + 1) + 1
    BY <1>1, <1>2, <2>1
  <2>2. CASE j \in 1 .. n + 1
    BY <2>2 DEF Opened
  <2> QED
    BY <2>1, <2>2
<1> HIDE DEF t
<1>5. Opened(doc, n + 1, t)
  BY <1>1, <1>2, <1>3, <1>4 DEF Opened
<1> QED
  BY <1>5 DEF t

LEMMA OpenedSame ==
  ASSUME NEW doc, NEW n \in Nat, NEW s, Opened(doc, n, s), doc[n + 1] \notin Begins \cup Ends
  PROVE  Opened(doc, n + 1, s)
<1>1. s \in Seq(Nat) /\ Len(s) \in Nat /\ Len(s) = Depth(doc, n + 1)
  BY DEF Opened
<1>2. Depth(doc, (n + 1) + 1) = Len(s)
  BY <1>1, DepthStep
<1>3. ASSUME NEW k \in 1 .. Len(s)
      PROVE  /\ s[k] \in 1 .. n + 1 /\ doc[s[k]] \in Begins /\ Depth(doc, s[k]) = k - 1
             /\ \A j \in s[k] + 1 .. (n + 1) + 1 : Depth(doc, j) >= k
  <2>1. /\ s[k] \in 1 .. n /\ doc[s[k]] \in Begins /\ Depth(doc, s[k]) = k - 1
        /\ \A j \in s[k] + 1 .. n + 1 : Depth(doc, j) >= k
    BY DEF Opened
  <2>2. ASSUME NEW j \in s[k] + 1 .. (n + 1) + 1 PROVE Depth(doc, j) >= k
    <3>1. CASE j = (n + 1) + 1
      BY <1>1, <1>2, <3>1
    <3>2. CASE j # (n + 1) + 1
      <4>1. j \in s[k] + 1 .. n + 1
        BY <2>1, <3>2
      <4> QED
        BY <2>1, <4>1
    <3> QED
      BY <3>1, <3>2
  <2> QED
    BY <2>1, <2>2
<1>4. ASSUME NEW j \in 1 .. (n + 1) + 1 PROVE Depth(doc, j) >= 0
  <2>1. CASE j = (n + 1) + 1
    BY <1>1, <1>2, <2>1
  <2>2. CASE j \in 1 .. n + 1
    BY <2>2 DEF Opened
  <2> QED
    BY <2>1, <2>2
<1> QED
  BY <1>1, <1>2, <1>3, <1>4 DEF Opened

LEMMA OpenedLess ==
  ASSUME NEW doc, NEW n \in Nat, NEW s, Opened(doc, n, s), doc[n + 1] \in Ends, Len(s) # 0,
         NEW t \in Seq(Nat), Len(t) = Len(s) - 1, \A k \in 1 .. Len(t) : t[k] = s[k]
  PROVE  Opened(doc, n + 1, t)
<1>1. /\ s \in Seq(Nat) /\ Len(s) \in Nat /\ Len(s) = Depth(doc, n + 1)
      /\ Len(t) \in Nat
  BY DEF Opened
<1>2. Depth(doc, (n + 1) + 1) = Len(t)
  BY <1>1, DepthStep
<1>3. ASSUME NEW k \in 1 .. Len(t)
      PROVE  /\ t[k] \in 1 .. n + 1 /\ doc[t[k]] \in Begins /\ Depth(doc, t[k]) = k - 1
             /\ \A j \in t[k] + 1 .. (n + 1) + 1 : Depth(doc, j) >= k
  <2>1. /\ t[k] \in 1 .. n /\ doc[t[k]] \in Begins /\ Depth(doc, t[k]) = k - 1
        /\ \A j \in t[k] + 1 .. n + 1 : Depth(doc, j) >= k
    <3>1. t[k] = s[k] /\ k \in 1 .. Len(s)
      BY <1>1
    <3> QED
      BY <3>1 DEF Opened
  <2>2. ASSUME NEW j \in t[k] + 1 .. (n + 1) + 1 PROVE Depth(doc, j) >= k
    <3>1. CASE j = (n + 1) + 1
      BY <1>1, <1>2, <3>1
    <3>2. CASE j # (n + 1) + 1
      <4>1. j \in t[k] + 1 .. n + 1
        BY <2>1, <3>2
      <4> QED
        BY <2>1, <4>1
    <3> QED
      BY <3>1, <3>2
  <2> QED
    BY <2>1, <2>2
<1>4. ASSUME NEW j \in 1 .. (n + 1) + 1 PROVE Depth(doc, j) >= 0
  <2>1. CASE j = (n + 1) + 1
    BY <1>1, <1>2, <2>1
  <2>2. CASE j \in 1 .. n + 1
    BY <2>2 DEF Opened
  <2> QED
    BY <2>1, <2>2
<1> QED
  BY <1>1, <1>2, <1>3, <1>4 DEF Opened

-----------------------------------------------------------------------------
(* Enclosing brackets.                                                     *)

\* The last bracket of a depth before i.
LEMMA EnclosingIs ==
  ASSUME NEW doc, NEW i \in Nat \ {0}, NEW b \in 1 .. i - 1, doc[b] \in Begins,
         Depth(doc, b) = Depth(doc, i) - (IF doc[i] \in Ends THEN 2 ELSE 1),
         \A j \in b + 1 .. i - 1 : Depth(doc, j) > Depth(doc, b)
  PROVE  Enclosing(doc, i) = b
<1> DEFINE level == IF doc[i] \in Ends THEN Depth(doc, i) - 1 ELSE Depth(doc, i)
           begs == {j \in 1 .. i - 1 : doc[j] \in Begins /\ Depth(doc, j) = level - 1}
<1>1. Depth(doc, i) \in Int /\ Depth(doc, b) \in Int
  BY DepthStep
<1>2. Depth(doc, b) = level - 1
  BY <1>1
<1>3. b \in begs
  BY <1>2
<1>4. ASSUME NEW k \in begs PROVE k <= b
  <2>1. k \in 1 .. i - 1 /\ Depth(doc, k) = Depth(doc, b)
    BY <1>2
  <2>2. k \notin b + 1 .. i - 1
    BY <1>1, <2>1
  <2> QED
    BY <2>1, <2>2
<1>5. begs # {} /\ (CHOOSE j \in begs : \A k \in begs : k <= j) = b
  <2>1. \A j \in begs : (\A k \in begs : k <= j) => j = b
    <3>1. \A j \in begs : j \in Nat
      OBVIOUS
    <3> HIDE DEF begs
    <3> QED
      BY <1>3, <1>4, <3>1
  <2> HIDE DEF begs
  <2> QED
    BY <1>3, <1>4, <2>1
<1>6. Enclosing(doc, i) = IF begs = {} THEN Invalid ELSE CHOOSE j \in begs : \A k \in begs : k <= j
  BY DEF Enclosing
<1> HIDE DEF begs
<1> QED
  BY <1>5, <1>6

\* Without one there is none.
LEMMA EnclosingNone ==
  ASSUME NEW doc, NEW i \in Nat \ {0}, \A j \in 1 .. i - 1 : Depth(doc, j) >= 0,
         Depth(doc, i) = IF doc[i] \in Ends THEN 1 ELSE 0
  PROVE  Enclosing(doc, i) = Invalid
<1> DEFINE level == IF doc[i] \in Ends THEN Depth(doc, i) - 1 ELSE Depth(doc, i)
           begs == {j \in 1 .. i - 1 : doc[j] \in Begins /\ Depth(doc, j) = level - 1}
<1>1. level = 0
  OBVIOUS
<1>2. begs = {}
  BY <1>1
<1> QED
  BY <1>2 DEF Enclosing

\* A symbol that opens or separates belongs to the innermost open bracket, one
\* that closes to the bracket around that.
LEMMA EnclosedHere ==
  ASSUME NEW doc, NEW n \in Nat, NEW s, Opened(doc, n, s), doc[n + 1] \notin Ends
  PROVE  Enclosing(doc, n + 1) = IF Len(s) = 0 THEN Invalid ELSE s[Len(s)]
<1>1. /\ Len(s) \in Nat /\ Depth(doc, n + 1) = Len(s)
      /\ n + 1 \in Nat \ {0} /\ (n + 1) - 1 = n
  BY DEF Opened
<1>2. CASE Len(s) = 0
  <2>1. \A j \in 1 .. n : Depth(doc, j) >= 0
    BY DEF Opened
  <2> QED
    BY <1>1, <1>2, <2>1, EnclosingNone
<1>3. CASE Len(s) # 0
  <2> DEFINE b == s[Len(s)]
  <2>1. /\ b \in 1 .. n /\ doc[b] \in Begins /\ Depth(doc, b) = Len(s) - 1
        /\ \A j \in b + 1 .. n + 1 : Depth(doc, j) >= Len(s)
    <3>1. Len(s) \in 1 .. Len(s)
      BY <1>1, <1>3
    <3> QED
      BY <3>1 DEF Opened
  <2>2. \A j \in b + 1 .. n : Depth(doc, j) > Depth(doc, b)
    <3> TAKE j \in b + 1 .. n
    <3>1. Depth(doc, j) >= Len(s)
      BY <2>1
    <3>2. Depth(doc, j) \in Int
      BY <2>1, DepthStep
    <3> QED
      BY <1>1, <2>1, <3>1, <3>2
  <2> HIDE DEF b
  <2>3. Enclosing(doc, n + 1) = b
    BY <1>1, <2>1, <2>2, EnclosingIs
  <2> QED
    BY <1>3, <2>3 DEF b
<1> QED
  BY <1>2, <1>3

LEMMA EnclosedOutside ==
  ASSUME NEW doc, NEW n \in Nat, NEW s, Opened(doc, n, s), doc[n + 1] \in Ends, Len(s) # 0
  PROVE  Enclosing(doc, n + 1) = IF Len(s) = 1 THEN Invalid ELSE s[Len(s) - 1]
<1>1. /\ Len(s) \in Nat /\ Depth(doc, n + 1) = Len(s)
      /\ n + 1 \in Nat \ {0} /\ (n + 1) - 1 = n
  BY DEF Opened
<1>2. CASE Len(s) = 1
  <2>1. \A j \in 1 .. n : Depth(doc, j) >= 0
    BY DEF Opened
  <2> QED
    BY <1>1, <1>2, <2>1, EnclosingNone
<1>3. CASE Len(s) # 1
  <2> DEFINE b == s[Len(s) - 1]
  <2>1. /\ b \in 1 .. n /\ doc[b] \in Begins /\ Depth(doc, b) = Len(s) - 2
        /\ \A j \in b + 1 .. n + 1 : Depth(doc, j) >= Len(s) - 1
    <3>1. Len(s) - 1 \in 1 .. Len(s) /\ (Len(s) - 1) - 1 = Len(s) - 2
      BY <1>1, <1>3
    <3> QED
      BY <3>1 DEF Opened
  <2>2. \A j \in b + 1 .. n : Depth(doc, j) > Depth(doc, b)
    <3> TAKE j \in b + 1 .. n
    <3>1. Depth(doc, j) >= Len(s) - 1
      BY <2>1
    <3>2. Depth(doc, j) \in Int
      BY <2>1, DepthStep
    <3> QED
      BY <1>1, <2>1, <3>1, <3>2
  <2> HIDE DEF b
  <2>3. Enclosing(doc, n + 1) = b
    BY <1>1, <2>1, <2>2, EnclosingIs
  <2> QED
    BY <1>3, <2>3 DEF b
<1> QED
  BY <1>2, <1>3

\* The bracket around an open one is the one opened before it.
LEMMA EnclosingOpened ==
  ASSUME NEW doc, NEW n \in Nat, NEW s, Opened(doc, n, s), NEW k \in 1 .. Len(s)
  PROVE  Enclosing(doc, s[k]) = IF k = 1 THEN Invalid ELSE s[k - 1]
<1>1. /\ Len(s) \in Nat /\ s[k] \in 1 .. n /\ s[k] \in Nat \ {0} /\ doc[s[k]] \in Begins
      /\ Depth(doc, s[k]) = k - 1 /\ doc[s[k]] \notin Ends
  <2>1. /\ Len(s) \in Nat /\ s[k] \in 1 .. n /\ doc[s[k]] \in Begins
        /\ Depth(doc, s[k]) = k - 1
    BY DEF Opened
  <2>2. \A sym \in Begins : sym \notin Ends
    BY DEF Begins, Ends
  <2> QED
    BY <2>1, <2>2
<1>2. CASE k = 1
  <2>1. \A j \in 1 .. s[k] - 1 : Depth(doc, j) >= 0
    BY <1>1 DEF Opened
  <2> QED
    BY <1>1, <1>2, <2>1, EnclosingNone
<1>3. CASE k # 1
  <2> DEFINE b == s[k - 1]
  <2>1. /\ b \in 1 .. n /\ doc[b] \in Begins /\ Depth(doc, b) = k - 2
        /\ \A j \in b + 1 .. n + 1 : Depth(doc, j) >= k - 1
    <3>1. k - 1 \in 1 .. Len(s) /\ (k - 1) - 1 = k - 2
      BY <1>1, <1>3
    <3> QED
      BY <3>1 DEF Opened
  <2>2. \A j \in b + 1 .. s[k] - 1 : Depth(doc, j) > Depth(doc, b)
    <3> TAKE j \in b + 1 .. s[k] - 1
    <3>1. Depth(doc, j) >= k - 1
      BY <1>1, <2>1
    <3>2. Depth(doc, j) \in Int
      BY <2>1, DepthStep
    <3> QED
      BY <1>1, <2>1, <3>1, <3>2
  <2>3. b \in 1 .. s[k] - 1
    <3>1. b # s[k]
      BY <1>1, <2>1
    <3>2. ~(s[k] < b)
      <4>1. \A j \in s[k] + 1 .. n + 1 : Depth(doc, j) >= k
        BY DEF Opened
      <4>2. ~(k - 2 >= k)
        OBVIOUS
      <4>3. b \notin s[k] + 1 .. n + 1
        BY <2>1, <4>1, <4>2
      <4> QED
        BY <1>1, <2>1, <4>3
    <3> QED
      BY <1>1, <2>1, <3>1, <3>2
  <2> HIDE DEF b
  <2>4. Enclosing(doc, s[k]) = b
    BY <1>1, <2>1, <2>2, <2>3, EnclosingIs
  <2> QED
    BY <1>3, <2>4 DEF b
<1> QED
  BY <1>2, <1>3

-----------------------------------------------------------------------------
(* Lookups.                                                                *)

\* The bracket that encloses a symbol which closes nothing is open from its own
\* place to that of the symbol.
LEMMA EnclosingOpen ==
  ASSUME NEW doc, NEW i \in Nat \ {0}, doc[i] \notin Ends, Enclosing(doc, i) # Invalid,
         NEW b, b = Enclosing(doc, i)
  PROVE  /\ b \in 1 .. i - 1 /\ doc[b] \in Begins /\ Depth(doc, i) = Depth(doc, b) + 1
         /\ \A j \in b + 1 .. i : Depth(doc, j) > Depth(doc, b)
<1> DEFINE begs == {j \in 1 .. i - 1 : doc[j] \in Begins /\ Depth(doc, j) = Depth(doc, i) - 1}
<1>1. /\ Enclosing(doc, i) = IF begs = {} THEN Invalid
                                          ELSE CHOOSE j \in begs : \A k \in begs : k <= j
  BY DEF Enclosing
<1>2. begs # {} /\ b = CHOOSE j \in begs : \A k \in begs : k <= j
  BY <1>1
<1>3. \E j \in begs : \A k \in begs : k <= j
  <2>1. begs \in SUBSET Nat /\ \A n \in begs : n <= i
    OBVIOUS
  <2> HIDE DEF begs
  <2> QED
    BY <1>2, <2>1, LargestNumber
<1>4. b \in begs /\ \A k \in begs : k <= b
  <2> HIDE DEF begs
  <2> QED
    BY <1>2, <1>3
<1>5. /\ b \in 1 .. i - 1 /\ doc[b] \in Begins /\ Depth(doc, b) = Depth(doc, i) - 1
      /\ \A k \in 1 .. i - 1 : doc[k] \in Begins /\ Depth(doc, k) = Depth(doc, b) => k <= b
  BY <1>4
<1>6. \A k \in Nat \ {0} : Depth(doc, k) \in Int
  BY DepthStep
<1>7. ASSUME NEW j \in b + 1 .. i, ~(Depth(doc, j) > Depth(doc, b)) PROVE FALSE
  <2> DEFINE low == {k \in b + 1 .. i : ~(Depth(doc, k) > Depth(doc, b))}
  <2>1. low \in SUBSET Nat /\ low # {} /\ \A k \in low : k <= i
    BY <1>5, <1>7
  <2>2. PICK m \in low : \A k \in low : k <= m
    <3> HIDE DEF low
    <3> QED
      BY <2>1, LargestNumber
  <2>3. /\ m \in b + 1 .. i /\ m \in Nat \ {0} /\ Depth(doc, m) <= Depth(doc, b)
    <3>1. m \in b + 1 .. i /\ m \in Nat \ {0} /\ ~(Depth(doc, m) > Depth(doc, b))
      BY <1>5, <2>2
    <3>2. Depth(doc, m) \in Int /\ Depth(doc, b) \in Int
      BY <1>5, <1>6, <3>1
    <3> QED
      BY <3>1, <3>2
  <2>4. m # i
    BY <1>5, <1>6, <2>3
  <2>5. m + 1 \in b + 1 .. i /\ m \in 1 .. i - 1 /\ m > b
    BY <1>5, <2>3, <2>4
  <2>6. Depth(doc, m + 1) > Depth(doc, b)
    <3>1. m + 1 \notin low
      BY <2>2, <2>3
    <3> QED
      BY <2>5, <3>1
  <2>7. Depth(doc, m) \in Int /\ Depth(doc, b) \in Int /\ Depth(doc, m + 1) \in Int
    BY <1>5, <1>6, <2>3
  <2>8. doc[m] \in Begins
    <3>1. /\ doc[m] \in Ends => Depth(doc, m + 1) = Depth(doc, m) - 1
          /\ doc[m] \notin Begins \cup Ends => Depth(doc, m + 1) = Depth(doc, m)
      BY <2>3, DepthStep
    <3> QED
      BY <2>3, <2>6, <2>7, <3>1
  <2>9. Depth(doc, m + 1) = Depth(doc, m) + 1
    BY <2>3, <2>8, DepthStep
  <2>10. Depth(doc, m) = Depth(doc, b)
    BY <2>3, <2>6, <2>7, <2>9
  <2>11. m <= b
    BY <1>5, <2>5, <2>8, <2>10
  <2> QED
    BY <1>5, <2>3, <2>5, <2>11
<1>8. Depth(doc, i) \in Int /\ Depth(doc, b) \in Int
  BY <1>5, <1>6
<1> QED
  BY <1>5, <1>7, <1>8

LEMMA DocumentLength ==
  ASSUME NEW doc \in Document
  PROVE  Len(doc) \in Nat /\ DOMAIN doc = 1 .. Len(doc)
  BY DEF Document

LEMMA PositionNumbers ==
  ASSUME NEW n \in Nat, NEW obj \in 1 .. n, NEW i \in obj + 1 .. n
  PROVE  /\ obj \in Nat \ {0} /\ i \in Nat \ {0} /\ i > obj /\ i \in 1 .. n
         /\ i - 1 # obj => /\ i - 1 \in Nat \ {0} /\ (i - 1) + 1 = i /\ i + 1 >= obj + 3
                           /\ obj \in 1 .. (i - 1) - 1
         /\ \A j \in obj + 1 .. i + 1 : j \in obj + 1 .. i - 1 \/ j = i \/ j = i + 1
         /\ \A j \in obj + 1 .. (i - 1) - 1 : j \in obj + 1 .. i + 1
  OBVIOUS

LEMMA TextsApart ==
  ASSUME NEW sym \in Texts
  PROVE  sym \notin Begins \cup Ends \cup {":", ",", "P", "S", "i"}
  BY TextAssumption

\* What a position of a document, or a token, holds.
ObjectAt(doc, i) == doc[i] = "{"

SeparatorAt(doc, i) == doc[i] = ":"

SeparatorToken(token) == Type(token.sym) = ":"

\* What a lookup finds is behind a separator, the key of which is a child of the
\* object, and no earlier one has such a key.
LEMMA LookupIs ==
  ASSUME NEW ts, Len(ts) \in Nat, NEW obj \in Nat, NEW key, NEW ref, ref = cj_value_ref(ts, obj, key)
  PROVE  /\ ref \in 0 .. Len(ts) + 1
         /\ ref # Invalid =>
              /\ ref \in obj + 2 .. Len(ts) + 1
              /\ SeparatorToken(ts[ref - 1]) /\ ts[ref - 2].parent = obj /\ ts[ref - 2].sym = key
<1> DEFINE seps == {i \in obj + 1 .. Len(ts) : /\ SeparatorToken(ts[i])
                                               /\ ts[i - 1].parent = obj
                                               /\ ts[i - 1].sym = key}
<1>1. ref = IF seps = {} THEN Invalid ELSE 1 + CHOOSE i \in seps : \A j \in seps : i <= j
  BY DEF cj_value_ref, SeparatorToken
<1>2. \A i \in seps : i \in obj + 1 .. Len(ts) /\ SeparatorToken(ts[i]) /\ ts[i - 1].parent = obj
                      /\ ts[i - 1].sym = key
  OBVIOUS
<1>3. CASE seps = {}
  BY <1>1, <1>3 DEF Invalid
<1>4. CASE seps # {}
  <2>1. seps \in SUBSET Nat
    OBVIOUS
  <2> HIDE DEF seps
  <2>2. PICK m : m \in seps /\ ref = 1 + m
    BY <1>1, <1>4, <2>1, SmallestNumber
  <2>3. m \in obj + 1 .. Len(ts) /\ ref - 1 = m /\ ref - 2 = m - 1
    BY <1>2, <2>2
  <2> QED
    BY <1>2, <2>2, <2>3 DEF Invalid
<1> QED
  BY <1>3, <1>4

\* A key before a name separator is a child of an object exactly if its value is
\* a value of that object.
LEMMA MemberHere ==
  ASSUME NEW doc \in Document, NEW obj \in 1 .. Len(doc), doc[obj] \in Begins, NEW key \in Texts,
         NEW i \in obj + 1 .. Len(doc), SeparatorAt(doc, i), doc[i - 1] = key
  PROVE  Enclosing(doc, i - 1) = obj <=>
           /\ i + 1 >= obj + 3
           /\ \A j \in obj + 1 .. i + 1 : Depth(doc, j) > Depth(doc, obj)
           /\ Depth(doc, i - 1) = Depth(doc, obj) + 1
<1>1. /\ Len(doc) \in Nat /\ obj \in Nat \ {0} /\ i \in Nat \ {0}
      /\ key \notin Begins \cup Ends /\ doc[i] \notin Begins \cup Ends /\ doc[obj] \in Begins
  <2>1. Len(doc) \in Nat
    BY DocumentLength
  <2>2. obj \in Nat \ {0} /\ i \in Nat \ {0}
    BY <2>1, PositionNumbers
  <2>3. doc[i] \notin Begins \cup Ends
    BY DEF Begins, Ends, SeparatorAt
  <2> QED
    BY <2>1, <2>2, <2>3, TextsApart
<1>2. i - 1 # obj
  BY <1>1
<1>3. /\ i - 1 \in Nat \ {0} /\ (i - 1) + 1 = i /\ i + 1 >= obj + 3
      /\ obj \in 1 .. (i - 1) - 1
      /\ \A j \in obj + 1 .. i + 1 : j \in obj + 1 .. i - 1 \/ j = i \/ j = i + 1
      /\ \A j \in obj + 1 .. (i - 1) - 1 : j \in obj + 1 .. i + 1
  BY <1>1, <1>2, PositionNumbers
<1>4. Depth(doc, i) = Depth(doc, i - 1) /\ Depth(doc, i + 1) = Depth(doc, i)
  BY <1>1, <1>3, DepthStep
<1>5. Depth(doc, i - 1) \in Int /\ Depth(doc, obj) \in Int
  BY <1>1, <1>3, DepthStep
<1>6. ASSUME Enclosing(doc, i - 1) = obj
      PROVE  /\ \A j \in obj + 1 .. i + 1 : Depth(doc, j) > Depth(doc, obj)
             /\ Depth(doc, i - 1) = Depth(doc, obj) + 1
  <2>1. /\ Depth(doc, i - 1) = Depth(doc, obj) + 1
        /\ \A j \in obj + 1 .. i - 1 : Depth(doc, j) > Depth(doc, obj)
    BY <1>1, <1>3, <1>6, EnclosingOpen DEF Invalid
  <2>2. ASSUME NEW j \in obj + 1 .. i + 1 PROVE Depth(doc, j) > Depth(doc, obj)
    <3>1. j \in obj + 1 .. i - 1 \/ j = i \/ j = i + 1
      BY <1>3
    <3>2. CASE j \in obj + 1 .. i - 1
      BY <2>1, <3>2
    <3>3. CASE j = i \/ j = i + 1
      BY <1>4, <1>5, <2>1, <3>3
    <3> QED
      BY <3>1, <3>2, <3>3
  <2> QED
    BY <2>1, <2>2
<1>7. ASSUME \A j \in obj + 1 .. i + 1 : Depth(doc, j) > Depth(doc, obj),
             Depth(doc, i - 1) = Depth(doc, obj) + 1
      PROVE  Enclosing(doc, i - 1) = obj
  <2>1. \A j \in obj + 1 .. (i - 1) - 1 : Depth(doc, j) > Depth(doc, obj)
    BY <1>3, <1>7
  <2>2. Depth(doc, obj) = Depth(doc, i - 1) - 1
    BY <1>5, <1>7
  <2> QED
    BY <1>1, <1>3, <2>1, <2>2, EnclosingIs
<1> QED
  BY <1>3, <1>6, <1>7

\* In the tokens of a document in which no name separator is the last symbol, a
\* lookup finds the value of the first member of that name.
LEMMA LookupFinds ==
  ASSUME NEW doc \in Document, NEW obj \in 1 .. Len(doc), doc[obj] \in Begins, NEW key \in Texts,
         ~SeparatorAt(doc, Len(doc))
  PROVE  cj_value_ref(TokensOf(doc), obj, key) = MemberValue(doc, obj, key)
<1> DEFINE ts == TokensOf(doc)
           seps == {i \in obj + 1 .. Len(ts) : /\ SeparatorToken(ts[i])
                                               /\ ts[i - 1].parent = obj
                                               /\ ts[i - 1].sym = key}
           inside(i) == \A j \in obj + 1 .. i : Depth(doc, j) > Depth(doc, obj)
           values == {i \in obj + 3 .. Len(doc) :
                        /\ doc[i - 2] = key /\ SeparatorAt(doc, i - 1)
                        /\ inside(i) /\ Depth(doc, i - 2) = Depth(doc, obj) + 1}
<1>1. /\ Len(doc) \in Nat /\ Len(ts) = Len(doc)
      /\ \A i \in 1 .. Len(doc) : ts[i].sym = doc[i] /\ ts[i].parent = Enclosing(doc, i)
  <2>1. Len(doc) \in Nat /\ DOMAIN doc = 1 .. Len(doc)
    BY DocumentLength
  <2>2. ts = [i \in 1 .. Len(doc) |-> Token(doc[i], Enclosing(doc, i))]
    BY <2>1 DEF TokensOf
  <2> QED
    BY <2>1, <2>2 DEF Token
<1>2. \A i \in 1 .. Len(doc) : SeparatorToken(ts[i]) <=> SeparatorAt(doc, i)
  <2>1. \A sym : Type(sym) = ":" <=> sym = ":"
    BY TextAssumption DEF Type
  <2> HIDE DEF ts
  <2> QED
    BY <1>1, <2>1 DEF SeparatorAt, SeparatorToken
<1>3. ASSUME NEW i \in Nat PROVE i \in seps <=> i + 1 \in values
  <2>1. ASSUME i \in seps PROVE i + 1 \in values
    <3>1. /\ i \in obj + 1 .. Len(doc) /\ SeparatorAt(doc, i)
          /\ i \in 1 .. Len(doc) /\ i - 1 \in 1 .. Len(doc)
      BY <1>1, <1>2, <2>1
    <3>2. doc[i - 1] = key /\ Enclosing(doc, i - 1) = obj
      BY <1>1, <2>1, <3>1
    <3>3. /\ i + 1 >= obj + 3 /\ inside(i + 1) /\ Depth(doc, i - 1) = Depth(doc, obj) + 1
      BY <3>1, <3>2, MemberHere
    <3>4. i # Len(doc) /\ (i + 1) - 1 = i /\ (i + 1) - 2 = i - 1
      BY <3>1
    <3>5. i + 1 \in obj + 3 .. Len(doc)
      BY <1>1, <3>1, <3>3, <3>4
    <3> QED
      BY <3>1, <3>2, <3>3, <3>4, <3>5
  <2>2. ASSUME i + 1 \in values PROVE i \in seps
    <3>1. /\ i + 1 \in obj + 3 .. Len(doc)
          /\ SeparatorAt(doc, i) /\ doc[i - 1] = key /\ inside(i + 1)
          /\ Depth(doc, i - 1) = Depth(doc, obj) + 1
      <4>1. (i + 1) - 1 = i /\ (i + 1) - 2 = i - 1
        OBVIOUS
      <4> QED
        BY <2>2, <4>1
    <3>2. i \in obj + 1 .. Len(doc) /\ i - 1 \in 1 .. Len(doc) /\ i \in 1 .. Len(doc)
      BY <1>1, <3>1
    <3>3. Enclosing(doc, i - 1) = obj
      BY <3>1, <3>2, MemberHere
    <3> QED
      BY <1>1, <1>2, <3>1, <3>2, <3>3
  <2> QED
    BY <2>1, <2>2
<1>4. /\ cj_value_ref(ts, obj, key) =
           IF seps = {} THEN Invalid ELSE 1 + CHOOSE i \in seps : \A j \in seps : i <= j
      /\ MemberValue(doc, obj, key) =
           IF values = {} THEN Invalid ELSE CHOOSE i \in values : \A j \in values : i <= j
  BY DEF cj_value_ref, MemberValue, SeparatorToken, SeparatorAt
<1>5. seps \in SUBSET Nat /\ values \in SUBSET (Nat \ {0})
  BY <1>1
<1> HIDE DEF seps, values, ts, inside
<1>6. CASE seps = {}
  <2>1. values = {}
    <3>1. ASSUME NEW v \in values PROVE FALSE
      <4>1. v - 1 \in Nat /\ (v - 1) + 1 = v
        BY <1>5
      <4>2. v - 1 \in seps
        BY <1>3, <4>1
      <4> QED
        BY <1>6, <4>2
    <3> QED
      BY <3>1
  <2> QED
    BY <1>4, <1>6, <2>1 DEF ts
<1>7. CASE seps # {}
  <2>1. PICK m \in seps : \A n \in seps : m <= n
    BY <1>5, <1>7, SmallestNumber
  <2>2. (CHOOSE i \in seps : \A j \in seps : i <= j) = m
    <3>1. \A i \in seps : (\A j \in seps : i <= j) => i = m
      BY <1>5, <2>1
    <3> QED
      BY <2>1, <3>1
  <2>3. m + 1 \in values /\ \A v \in values : m + 1 <= v
    <3>1. m + 1 \in values
      BY <1>3, <1>5, <2>1
    <3>2. ASSUME NEW v \in values PROVE m + 1 <= v
      <4>1. v - 1 \in Nat /\ (v - 1) + 1 = v /\ m \in Nat /\ v \in Nat
        BY <1>5
      <4>2. v - 1 \in seps
        BY <1>3, <4>1
      <4>3. m <= v - 1
        BY <2>1, <4>2
      <4> QED
        BY <4>1, <4>3
    <3> QED
      BY <3>1, <3>2
  <2>4. (CHOOSE i \in values : \A j \in values : i <= j) = m + 1
    <3>1. \A i \in values : (\A j \in values : i <= j) => i = m + 1
      BY <1>5, <2>1, <2>3
    <3> QED
      BY <2>3, <3>1
  <2>5. m \in Nat /\ 1 + m = m + 1
    BY <1>5, <2>1
  <2> QED
    BY <1>4, <1>7, <2>2, <2>3, <2>4, <2>5 DEF ts
<1> QED
  BY <1>6, <1>7

\* The value of a member is behind a key one level below the object.
LEMMA MemberIs ==
  ASSUME NEW doc \in Document, NEW obj \in Nat, NEW key, NEW ref, ref = MemberValue(doc, obj, key),
         ref # Invalid
  PROVE  /\ ref \in obj + 3 .. Len(doc) /\ doc[ref - 2] = key /\ SeparatorAt(doc, ref - 1)
         /\ Depth(doc, ref - 2) = Depth(doc, obj) + 1
<1> DEFINE inside(i) == \A j \in obj + 1 .. i : Depth(doc, j) > Depth(doc, obj)
           values == {i \in obj + 3 .. Len(doc) :
                        /\ doc[i - 2] = key /\ SeparatorAt(doc, i - 1)
                        /\ inside(i) /\ Depth(doc, i - 2) = Depth(doc, obj) + 1}
<1>1. ref = IF values = {} THEN Invalid ELSE CHOOSE i \in values : \A j \in values : i <= j
  BY DEF MemberValue, SeparatorAt
<1>2. /\ values \in SUBSET Nat
      /\ \A i \in values : /\ i \in obj + 3 .. Len(doc) /\ doc[i - 2] = key
                           /\ SeparatorAt(doc, i - 1)
                           /\ Depth(doc, i - 2) = Depth(doc, obj) + 1
  BY DocumentLength
<1> HIDE DEF values
<1>3. ref \in values
  BY <1>1, <1>2, SmallestNumber
<1> QED
  BY <1>2, <1>3

\* The bracket around a structure is two levels above its end.
LEMMA EnclosingClosed ==
  ASSUME NEW doc, NEW i \in Nat \ {0}, doc[i] \in Ends, Enclosing(doc, i) # Invalid,
         NEW b, b = Enclosing(doc, i)
  PROVE  b \in 1 .. i - 1 /\ Depth(doc, i) = Depth(doc, b) + 2
<1> DEFINE level == Depth(doc, i) - 1
           begs == {j \in 1 .. i - 1 : doc[j] \in Begins /\ Depth(doc, j) = level - 1}
<1>1. /\ Enclosing(doc, i) = IF begs = {} THEN Invalid
                                          ELSE CHOOSE j \in begs : \A k \in begs : k <= j
  BY DEF Enclosing
<1>2. begs \in SUBSET Nat /\ (\A n \in begs : n <= i)
      /\ \A n \in begs : n \in 1 .. i - 1 /\ Depth(doc, n) = level - 1
  OBVIOUS
<1> HIDE DEF begs
<1>3. b \in begs
  BY <1>1, <1>2, LargestNumber
<1>4. Depth(doc, i) \in Int
  BY DepthStep
<1> QED
  BY <1>2, <1>3, <1>4

\* Behind the end of a later member no structure belongs to the list any more.
LEMMA ListOver ==
  ASSUME NEW doc \in Document, NEW obj \in Nat \ {0}, NEW key \in Texts,
         NEW list, list = MemberValue(doc, obj, key), list # Invalid,
         NEW j \in Nat, j > list, doc[j] \in Ends, Enclosing(doc, j) = obj,
         NEW i \in Nat, i > j, doc[i] \notin Ends, Enclosing(doc, i) = list
  PROVE  FALSE
<1>1. /\ list \in obj + 3 .. Len(doc) /\ doc[list - 2] \in Texts /\ SeparatorAt(doc, list - 1)
      /\ Depth(doc, list - 2) = Depth(doc, obj) + 1
  BY MemberIs
<1> DEFINE a == list - 2
           c == list - 1
<1>2. /\ list \in Nat \ {0} /\ a \in Nat \ {0} /\ c \in Nat \ {0} /\ a + 1 = c /\ c + 1 = list
      /\ j \in Nat \ {0} /\ i \in Nat \ {0} /\ j \in list + 1 .. i /\ j + 1 \in list + 1 .. i
  <2>1. list \in obj + 3 .. Len(doc) /\ Len(doc) \in Nat
    BY <1>1, DocumentLength
  <2>2. list \in Nat /\ list >= 4
    BY <2>1
  <2> QED
    BY <2>2
<1>3. doc[a] \notin Begins \cup Ends /\ doc[c] \notin Begins \cup Ends
  <2>1. doc[c] \notin Begins \cup Ends
    BY <1>1 DEF Begins, Ends, SeparatorAt
  <2> QED
    BY <1>1, <2>1, TextsApart
<1>4. Depth(doc, list) = Depth(doc, obj) + 1
  <2> HIDE DEF a, c
  <2>1. Depth(doc, a + 1) = Depth(doc, a) /\ Depth(doc, c + 1) = Depth(doc, c)
    BY <1>2, <1>3, DepthStep
  <2>2. Depth(doc, a) = Depth(doc, obj) + 1
    BY <1>1 DEF a
  <2> QED
    BY <1>2, <2>1, <2>2
<1>5. Depth(doc, j) = Depth(doc, obj) + 2
  <2>1. obj # Invalid
    BY DEF Invalid
  <2> QED
    BY <1>2, <2>1, EnclosingClosed
<1>6. Depth(doc, j + 1) = Depth(doc, j) - 1
  BY <1>2, DepthStep
<1>7. Depth(doc, j + 1) > Depth(doc, list)
  BY <1>2, EnclosingOpen
<1>8. Depth(doc, obj) \in Int
  BY DepthStep
<1> QED
  BY <1>4, <1>5, <1>6, <1>7, <1>8
=============================================================================
