---------------------------- MODULE Create_proofs ----------------------------
(***************************************************************************)
(* What create stores, for every DDF, disk and editor.                     *)
(***************************************************************************)
EXTENDS Create, Cj_proofs

AnySym == Symbols \cup {"i"}

-----------------------------------------------------------------------------
(* Streams and allocations.                                                *)

LEMMA AppendIs ==
  ASSUME NEW S, NEW s \in Seq(S), NEW e
  PROVE  /\ Len(Append(s, e)) = Len(s) + 1 /\ Len(s) \in Nat
         /\ \A i \in 1 .. Len(s) : Append(s, e)[i] = s[i]
         /\ Append(s, e)[Len(s) + 1] = e
  OBVIOUS

\* s is a stream.
IsStream(s) == s = [pos |-> s.pos, ok |-> s.ok, fields |-> s.fields] /\ s.pos \in Nat

LEMMA NewStream ==
  ASSUME NEW ok
  PROVE  /\ IsStream(Stream(ok)) /\ Stream(ok).pos = 0 /\ Stream(ok).ok = ok
         /\ Stream(ok).fields = <<>>
  BY DEF Stream, IsStream

\* A put that fits moves the position by its length, any other one changes nothing
\* but the status.
LEMMA PutIs ==
  ASSUME NEW s, IsStream(s), NEW f, f.len \in Nat, NEW size \in Nat
  PROVE  /\ IsStream(Put(s, f, size))
         /\ s.pos <= size => Put(s, f, size).pos <= size
         /\ s.ok /\ s.pos + f.len <= size =>
              /\ Put(s, f, size).ok = s.ok
              /\ Put(s, f, size).pos = s.pos + f.len
              /\ Put(s, f, size).fields = Append(s.fields, [f EXCEPT !.at = s.pos])
         /\ ~(s.ok /\ s.pos + f.len <= size) =>
              /\ Put(s, f, size).ok = FALSE
              /\ Put(s, f, size).pos = s.pos
              /\ Put(s, f, size).fields = s.fields
<1> DEFINE fits == s.ok /\ s.pos + f.len <= size
<1>1. CASE fits
  <2>1. Put(s, f, size) = [s EXCEPT !.pos = @ + f.len, !.fields = Append(@, [f EXCEPT !.at = s.pos])]
    BY <1>1 DEF Put, IsStream
  <2>2. Put(s, f, size) = [pos |-> s.pos + f.len, ok |-> s.ok,
                           fields |-> Append(s.fields, [f EXCEPT !.at = s.pos])]
    BY <2>1 DEF IsStream
  <2> QED
    BY <1>1, <2>2 DEF IsStream
<1>2. CASE ~fits
  <2>1. Put(s, f, size) = [s EXCEPT !.ok = FALSE]
    BY <1>2 DEF Put, IsStream
  <2>2. Put(s, f, size) = [pos |-> s.pos, ok |-> FALSE, fields |-> s.fields]
    BY <2>1 DEF IsStream
  <2>3. /\ Put(s, f, size).pos = s.pos /\ Put(s, f, size).ok = FALSE
        /\ Put(s, f, size).fields = s.fields
    BY <2>2
  <2>4. IsStream(Put(s, f, size))
    BY <2>2, <2>3 DEF IsStream
  <2> QED
    BY <1>2, <2>3, <2>4
<1> QED
  BY <1>1, <1>2

LEMMA PutFitted ==
  ASSUME NEW s, IsStream(s), NEW f, f.len \in Nat, NEW size \in Nat, Put(s, f, size).ok
  PROVE  s.ok /\ s.pos + f.len <= size
<1> SUFFICES ASSUME ~(s.ok /\ s.pos + f.len <= size) PROVE FALSE
  OBVIOUS
<1>1. Put(s, f, size) = [s EXCEPT !.ok = FALSE]
  BY DEF Put, IsStream
<1>2. Put(s, f, size) = [pos |-> s.pos, ok |-> FALSE, fields |-> s.fields]
  BY <1>1 DEF IsStream
<1>3. Put(s, f, size).ok = FALSE
  BY <1>2
<1> QED
  BY <1>3

\* after holds the stream after each of the first n fields.
PutsOf(s, fields, size, n, after) ==
  after = [i \in 0 .. n |-> IF i = 0 THEN s ELSE Put(after[i - 1], fields[i], size)]

LEMMA PutsExist ==
  ASSUME NEW s, NEW fields, NEW size, NEW N \in Nat
  PROVE  \E after : PutsOf(s, fields, size, N, after)
<1> DEFINE M == {n \in 0 .. N : ~\E after : PutsOf(s, fields, size, n, after)}
<1>1. SUFFICES ASSUME N \in M PROVE FALSE
  OBVIOUS
<1>2. PICK m \in M : \A n \in M : m <= n
  <2>1. M \in SUBSET Nat /\ M # {}
    BY <1>1
  <2> HIDE DEF M
  <2> QED
    BY <2>1, SmallestNumber
<1>3. CASE m = 0
  <2> DEFINE after == [i \in 0 .. 0 |-> s]
  <2>1. after = [i \in 0 .. 0 |-> IF i = 0 THEN s ELSE Put(after[i - 1], fields[i], size)]
    OBVIOUS
  <2>2. PutsOf(s, fields, size, 0, after)
    BY <2>1 DEF PutsOf
  <2> QED
    BY <1>2, <1>3, <2>2
<1>4. CASE m # 0
  <2>1. m - 1 \in 0 .. N /\ ~(m <= m - 1) /\ m \in Nat
    BY <1>4
  <2>2. m - 1 \notin M
    BY <1>2, <2>1
  <2>3. PICK g : PutsOf(s, fields, size, m - 1, g)
    BY <2>1, <2>2
  <2> DEFINE h == [i \in 0 .. m |-> IF i = m THEN Put(g[m - 1], fields[m], size) ELSE g[i]]
  <2>4. ASSUME NEW i \in 0 .. m
        PROVE  h[i] = IF i = 0 THEN s ELSE Put(h[i - 1], fields[i], size)
    <3>1. CASE i = m
      <4>1. h[m - 1] = g[m - 1] /\ h[m] = Put(g[m - 1], fields[m], size)
        BY <2>1
      <4> QED
        BY <1>4, <3>1, <4>1
    <3>2. CASE i # m
      <4>1. i \in 0 .. m - 1 /\ h[i] = g[i]
        BY <2>1, <3>2
      <4>2. g[i] = IF i = 0 THEN s ELSE Put(g[i - 1], fields[i], size)
        BY <2>3, <4>1 DEF PutsOf
      <4>3. i # 0 => h[i - 1] = g[i - 1]
        BY <2>1, <4>1
      <4> QED
        BY <4>1, <4>2, <4>3
    <3> QED
      BY <3>1, <3>2
  <2>5. h = [i \in 0 .. m |-> h[i]]
    OBVIOUS
  <2> HIDE DEF h
  <2>6. h = [i \in 0 .. m |-> IF i = 0 THEN s ELSE Put(h[i - 1], fields[i], size)]
    BY <2>4, <2>5
  <2>7. PutsOf(s, fields, size, m, h)
    BY <2>6 DEF PutsOf
  <2> QED
    BY <1>2, <2>7
<1> QED
  BY <1>3, <1>4

\* The stream after each of the fields.
LEMMA PutAllSteps ==
  ASSUME NEW s, NEW fields, NEW size, Len(fields) \in Nat
  PROVE  \E after : /\ after[0] = s
                    /\ \A n \in 1 .. Len(fields) : after[n] = Put(after[n - 1], fields[n], size)
                    /\ PutAll(s, fields, size) = after[Len(fields)]
<1> DEFINE after == CHOOSE after : PutsOf(s, fields, size, Len(fields), after)
<1>1. PutsOf(s, fields, size, Len(fields), after)
  BY PutsExist
<1>2. PutAll(s, fields, size) = after[Len(fields)]
  BY DEF PutAll, PutsOf
<1> HIDE DEF after
<1>3. after[0] = s /\ \A n \in 1 .. Len(fields) : after[n] = Put(after[n - 1], fields[n], size)
  BY <1>1 DEF PutsOf
<1> QED
  BY <1>2, <1>3

\* However many fields are put, the position stays within the size.
LEMMA PutAllFits ==
  ASSUME NEW s, IsStream(s), NEW fields, NEW size \in Nat, Len(fields) \in Nat,
         \A n \in 1 .. Len(fields) : fields[n].len \in Nat, s.pos <= size
  PROVE  IsStream(PutAll(s, fields, size)) /\ PutAll(s, fields, size).pos <= size
<1>1. PICK after : /\ after[0] = s
                   /\ \A n \in 1 .. Len(fields) : after[n] = Put(after[n - 1], fields[n], size)
                   /\ PutAll(s, fields, size) = after[Len(fields)]
  BY PutAllSteps
<1> DEFINE Good(t) == IsStream(t) /\ t.pos <= size
           M == {n \in 0 .. Len(fields) : ~Good(after[n])}
<1>2. CASE M = {}
  BY <1>1, <1>2
<1>3. CASE M # {}
  <2>1. PICK m \in M : \A n \in M : m <= n
    <3>1. M \in SUBSET Nat
      OBVIOUS
    <3> HIDE DEF M
    <3> QED
      BY <1>3, <3>1, SmallestNumber
  <2>2. m # 0
    BY <1>1, <2>1
  <2>3. m \in 1 .. Len(fields) /\ m - 1 \in 0 .. Len(fields) /\ ~(m <= m - 1)
    BY <2>1, <2>2
  <2>4. Good(after[m - 1])
    BY <2>1, <2>3
  <2>5. Good(after[m])
    <3>1. after[m] = Put(after[m - 1], fields[m], size) /\ fields[m].len \in Nat
      BY <1>1, <2>3
    <3>2. IsStream(Put(after[m - 1], fields[m], size))
      BY <2>4, <3>1, PutIs
    <3>3. Put(after[m - 1], fields[m], size).pos <= size
      BY <2>4, <3>1, PutIs
    <3> QED
      BY <3>1, <3>2, <3>3
  <2> QED
    BY <2>1, <2>5
<1> QED
  BY <1>2, <1>3

LEMMA SizesAre ==
  /\ ScratchSize \in Nat /\ BundleSize \in Nat /\ DescSize - 1 \in Nat /\ ConstSize - 1 \in Nat
  /\ DescSize \in Nat /\ DescSize - 1 <= DescSize
  /\ PathMax \in Nat /\ ValBuf \in Nat /\ FileMax \in Nat /\ ConstSize \in Nat
  /\ CacheBytes \in Nat /\ TokenBytes \in Nat /\ TimeLen \in Nat
  BY SMT DEF ScratchSize, BundleSize, DescSize, ConstSize, PathMax, ValBuf, FileMax,
             CacheBytes, TokenBytes, TimeLen

LEMMA NoPosition == Exhausted \in Int /\ Exhausted < 0
  BY SMT DEF Exhausted

\* An allocation ends behind its beginning and inside the arena, or nowhere.
LEMMA AllocIs ==
  ASSUME NEW pos \in Int, NEW size \in Nat
  PROVE  /\ pos = Exhausted => Alloc(pos, size) = Exhausted
         /\ pos \in 0 .. ScratchSize =>
              Alloc(pos, size) = Exhausted \/ Alloc(pos, size) \in pos .. ScratchSize
<1> DEFINE q == (pos + 7) \div 8
           p == q * 8
<1>1. p \in Int /\ p >= pos
  <2>1. q \in Int /\ q * 8 >= pos
    BY SMT
  <2> HIDE DEF q
  <2> QED
    BY <2>1
<1> HIDE DEF p, q
<1>2. Alloc(pos, size) = IF pos # Exhausted /\ ScratchSize - p > size THEN p + size ELSE Exhausted
  BY SMT DEF Alloc, p, q
<1>3. ScratchSize \in Nat
  BY SizesAre
<1> QED
  BY <1>1, <1>2, <1>3, NoPosition

\* after holds the position after each of the first n allocations.
AllocsOf(pos, sizes, n, after) ==
  after = [i \in 0 .. n |-> IF i = 0 THEN pos ELSE Alloc(after[i - 1], sizes[i])]

LEMMA AllocsExist ==
  ASSUME NEW pos, NEW sizes, NEW N \in Nat
  PROVE  \E after : AllocsOf(pos, sizes, N, after)
<1> DEFINE M == {n \in 0 .. N : ~\E after : AllocsOf(pos, sizes, n, after)}
<1>1. SUFFICES ASSUME N \in M PROVE FALSE
  OBVIOUS
<1>2. PICK m \in M : \A n \in M : m <= n
  <2>1. M \in SUBSET Nat /\ M # {}
    BY <1>1
  <2> HIDE DEF M
  <2> QED
    BY <2>1, SmallestNumber
<1>3. CASE m = 0
  <2> DEFINE after == [i \in 0 .. 0 |-> pos]
  <2>1. after = [i \in 0 .. 0 |-> IF i = 0 THEN pos ELSE Alloc(after[i - 1], sizes[i])]
    OBVIOUS
  <2>2. AllocsOf(pos, sizes, 0, after)
    BY <2>1 DEF AllocsOf
  <2> QED
    BY <1>2, <1>3, <2>2
<1>4. CASE m # 0
  <2>1. m - 1 \in 0 .. N /\ ~(m <= m - 1) /\ m \in Nat
    BY <1>4
  <2>2. m - 1 \notin M
    BY <1>2, <2>1
  <2>3. PICK g : AllocsOf(pos, sizes, m - 1, g)
    BY <2>1, <2>2
  <2> DEFINE h == [i \in 0 .. m |-> IF i = m THEN Alloc(g[m - 1], sizes[m]) ELSE g[i]]
  <2>4. ASSUME NEW i \in 0 .. m
        PROVE  h[i] = IF i = 0 THEN pos ELSE Alloc(h[i - 1], sizes[i])
    <3>1. CASE i = m
      <4>1. h[m - 1] = g[m - 1] /\ h[m] = Alloc(g[m - 1], sizes[m])
        BY <2>1
      <4> QED
        BY <1>4, <3>1, <4>1
    <3>2. CASE i # m
      <4>1. i \in 0 .. m - 1 /\ h[i] = g[i]
        BY <2>1, <3>2
      <4>2. g[i] = IF i = 0 THEN pos ELSE Alloc(g[i - 1], sizes[i])
        BY <2>3, <4>1 DEF AllocsOf
      <4>3. i # 0 => h[i - 1] = g[i - 1]
        BY <2>1, <4>1
      <4> QED
        BY <4>1, <4>2, <4>3
    <3> QED
      BY <3>1, <3>2
  <2>5. h = [i \in 0 .. m |-> h[i]]
    OBVIOUS
  <2> HIDE DEF h
  <2>6. h = [i \in 0 .. m |-> IF i = 0 THEN pos ELSE Alloc(h[i - 1], sizes[i])]
    BY <2>4, <2>5
  <2>7. AllocsOf(pos, sizes, m, h)
    BY <2>6 DEF AllocsOf
  <2> QED
    BY <1>2, <2>7
<1> QED
  BY <1>3, <1>4

\* after[n] is the position after n of the allocations.
Stepped(pos, sizes, after) ==
  /\ after[0] = pos
  /\ \A n \in 1 .. Len(sizes) : after[n] = Alloc(after[n - 1], sizes[n])
  /\ Allocs(pos, sizes) = after[Len(sizes)]

LEMMA AllocsSteps ==
  ASSUME NEW pos, NEW sizes, Len(sizes) \in Nat
  PROVE  \E after : Stepped(pos, sizes, after)
<1> DEFINE after == CHOOSE after : AllocsOf(pos, sizes, Len(sizes), after)
<1>1. AllocsOf(pos, sizes, Len(sizes), after)
  BY AllocsExist
<1>2. Allocs(pos, sizes) = after[Len(sizes)]
  BY DEF Allocs, AllocsOf
<1> HIDE DEF after
<1>3. after[0] = pos /\ \A n \in 1 .. Len(sizes) : after[n] = Alloc(after[n - 1], sizes[n])
  BY <1>1 DEF AllocsOf
<1>4. Stepped(pos, sizes, after)
  BY <1>2, <1>3 DEF Stepped
<1> QED
  BY <1>4

\* Allocations never go back: what a part of them is beyond, all are.
LEMMA AllocsReach ==
  ASSUME NEW pos \in 0 .. ScratchSize, NEW sizes \in Seq(Nat)
  PROVE  Allocs(pos, sizes) = Exhausted \/ Allocs(pos, sizes) \in pos .. ScratchSize
<1>1. Len(sizes) \in Nat /\ \A n \in 1 .. Len(sizes) : sizes[n] \in Nat
  OBVIOUS
<1>6. PICK after : Stepped(pos, sizes, after)
  BY <1>1, AllocsSteps
<1>2. /\ after[0] = pos
      /\ \A n \in 1 .. Len(sizes) : after[n] = Alloc(after[n - 1], sizes[n])
      /\ Allocs(pos, sizes) = after[Len(sizes)]
  BY <1>6 DEF Stepped
<1> DEFINE Good(p) == p = Exhausted \/ p \in pos .. ScratchSize
           M == {n \in 0 .. Len(sizes) : ~Good(after[n])}
<1>3. CASE M = {}
  BY <1>1, <1>2, <1>3
<1>4. CASE M # {}
  <2>1. PICK m \in M : \A n \in M : m <= n
    <3>1. M \in SUBSET Nat
      OBVIOUS
    <3> HIDE DEF M
    <3> QED
      BY <1>4, <3>1, SmallestNumber
  <2>2. m # 0
    BY <1>2, <2>1
  <2>3. m \in 1 .. Len(sizes) /\ m - 1 \in 0 .. Len(sizes) /\ ~(m <= m - 1)
    BY <1>1, <2>1, <2>2
  <2>4. Good(after[m - 1])
    BY <2>1, <2>3
  <2>5. Good(after[m])
    <3> DEFINE p == after[m - 1]
    <3>1. after[m] = Alloc(p, sizes[m]) /\ sizes[m] \in Nat
      BY <1>1, <1>2, <2>3
    <3>2. p = Exhausted \/ p \in pos .. ScratchSize
      BY <2>4
    <3> HIDE DEF p
    <3>3. ScratchSize \in Nat /\ pos \in Nat
      BY SizesAre
    <3>4. CASE p = Exhausted
      <4>1. p \in Int
        BY <3>4, NoPosition
      <4> QED
        BY <3>1, <3>4, <4>1, AllocIs
    <3>5. CASE p \in pos .. ScratchSize
      <4>1. p \in Int /\ p \in 0 .. ScratchSize
        BY <3>3, <3>5
      <4>2. Alloc(p, sizes[m]) = Exhausted \/ Alloc(p, sizes[m]) \in p .. ScratchSize
        BY <3>1, <4>1, AllocIs
      <4> QED
        BY <3>1, <3>3, <3>5, <4>2
    <3> QED
      BY <3>2, <3>4, <3>5
  <2> QED
    BY <2>1, <2>5
<1> QED
  BY <1>3, <1>4

-----------------------------------------------------------------------------
(* Texts.                                                                  *)

\* after holds the first sequences put together.
FlatOf(seqs, n, after) ==
  after = [i \in 1 .. n |-> IF i = 1 THEN seqs[i] ELSE after[i - 1] \o seqs[i]]

LEMMA FlatExists ==
  ASSUME NEW seqs, NEW N \in Nat
  PROVE  \E after : FlatOf(seqs, N, after)
<1> DEFINE M == {n \in 0 .. N : ~\E after : FlatOf(seqs, n, after)}
<1>1. SUFFICES ASSUME N \in M PROVE FALSE
  OBVIOUS
<1>2. PICK m \in M : \A n \in M : m <= n
  <2>1. M \in SUBSET Nat /\ M # {}
    BY <1>1
  <2> HIDE DEF M
  <2> QED
    BY <2>1, SmallestNumber
<1>3. CASE m = 0
  <2> DEFINE after == [i \in 1 .. 0 |-> seqs[i]]
  <2>1. after = [i \in 1 .. 0 |-> IF i = 1 THEN seqs[i] ELSE after[i - 1] \o seqs[i]]
    OBVIOUS
  <2>2. FlatOf(seqs, 0, after)
    BY <2>1 DEF FlatOf
  <2> QED
    BY <1>2, <1>3, <2>2
<1>4. CASE m # 0
  <2>1. m - 1 \in 0 .. N /\ ~(m <= m - 1) /\ m \in Nat
    BY <1>4
  <2>2. m - 1 \notin M
    BY <1>2, <2>1
  <2>3. PICK g : FlatOf(seqs, m - 1, g)
    BY <2>1, <2>2
  <2> DEFINE h == [i \in 1 .. m |-> IF i = m
                                    THEN IF i = 1 THEN seqs[i] ELSE g[i - 1] \o seqs[i]
                                    ELSE g[i]]
  <2>4. ASSUME NEW i \in 1 .. m
        PROVE  h[i] = IF i = 1 THEN seqs[i] ELSE h[i - 1] \o seqs[i]
    <3>1. i # 1 => h[i - 1] = g[i - 1]
      BY <2>1
    <3>2. CASE i = m
      BY <3>1, <3>2
    <3>3. CASE i # m
      <4>1. i \in 1 .. m - 1 /\ h[i] = g[i]
        BY <2>1, <3>3
      <4>2. g[i] = IF i = 1 THEN seqs[i] ELSE g[i - 1] \o seqs[i]
        BY <2>3, <4>1 DEF FlatOf
      <4> QED
        BY <3>1, <4>1, <4>2
    <3> QED
      BY <3>2, <3>3
  <2>5. h = [i \in 1 .. m |-> h[i]]
    OBVIOUS
  <2> HIDE DEF h
  <2>6. h = [i \in 1 .. m |-> IF i = 1 THEN seqs[i] ELSE h[i - 1] \o seqs[i]]
    BY <2>4, <2>5
  <2>7. FlatOf(seqs, m, h)
    BY <2>6 DEF FlatOf
  <2> QED
    BY <1>2, <2>7
<1> QED
  BY <1>3, <1>4

LEMMA FlattenType ==
  ASSUME NEW S, NEW seqs \in Seq(Seq(S))
  PROVE  FlattenSeq(seqs) \in Seq(S)
<1> DEFINE N == Len(seqs)
           after == CHOOSE after : FlatOf(seqs, N, after)
<1>1. N \in Nat /\ \A n \in 1 .. N : seqs[n] \in Seq(S)
  OBVIOUS
<1>2. CASE N = 0
  <2>1. FlattenSeq(seqs) = seqs
    BY <1>2 DEF FlattenSeq
  <2>2. seqs = <<>>
    BY <1>2
  <2> QED
    BY <2>1, <2>2
<1>3. CASE N # 0
  <2>1. FlatOf(seqs, N, after)
    BY <1>1, FlatExists
  <2>2. FlattenSeq(seqs) = after[N]
    BY <1>3 DEF FlattenSeq, FlatOf
  <2> HIDE DEF after
  <2>3. \A n \in 1 .. N : after[n] = IF n = 1 THEN seqs[n] ELSE after[n - 1] \o seqs[n]
    BY <2>1 DEF FlatOf
  <2> DEFINE M == {n \in 1 .. N : after[n] \notin Seq(S)}
  <2>4. CASE M = {}
    BY <1>1, <1>3, <2>2, <2>4
  <2>5. CASE M # {}
    <3>1. PICK m \in M : \A n \in M : m <= n
      <4>1. M \in SUBSET Nat
        OBVIOUS
      <4> HIDE DEF M
      <4> QED
        BY <2>5, <4>1, SmallestNumber
    <3>2. CASE m = 1
      BY <1>1, <2>3, <3>1, <3>2
    <3>3. CASE m # 1
      <4>1. m - 1 \in 1 .. N /\ ~(m <= m - 1)
        BY <1>1, <3>1, <3>3
      <4>2. after[m - 1] \in Seq(S)
        BY <3>1, <4>1
      <4>3. after[m] = after[m - 1] \o seqs[m] /\ seqs[m] \in Seq(S)
        BY <1>1, <2>3, <3>1, <3>3
      <4>4. \A s, u \in Seq(S) : s \o u \in Seq(S)
        OBVIOUS
      <4>5. after[m] \in Seq(S)
        BY <4>2, <4>3, <4>4
      <4> QED
        BY <3>1, <4>5
    <3> QED
      BY <3>2, <3>3
  <2> QED
    BY <2>4, <2>5
<1> QED
  BY <1>2, <1>3

\* Fields of a text with values of W, and times of D.
Fields(W, D) == [is : {"text", "punctuation"}, len : Nat, val : W, at : {0}]
                  \cup [is : {"time"}, len : Nat, val : D, at : {0}]

LEMMA TextFields ==
  ASSUME NEW W, {} \in W, NEW D, NEW sym \in W, NEW len \in Nat
  PROVE  /\ Mark(len) \in Fields(W, D) /\ Text(sym) \in Fields(W, D)
         /\ Quoted(sym) \in Seq(Fields(W, D)) /\ << Mark(len) >> \in Seq(Fields(W, D))
<1>1. LenOf(sym) \in Nat
  BY CreateAssumption DEF LenOf
<1>3. \A n \in Nat : Mark(n) \in Fields(W, D)
  BY DEF Mark, Field, Fields
<1>4. Text(sym) \in Fields(W, D)
  BY <1>1 DEF Text, Field, Fields
<1>5. Quoted(sym) \in Seq(Fields(W, D))
  BY <1>3, <1>4 DEF Quoted
<1> QED
  BY <1>3, <1>4, <1>5

LEMMA FieldLengths ==
  ASSUME NEW W, NEW D, NEW fields \in Seq(Fields(W, D))
  PROVE  Len(fields) \in Nat /\ \A n \in 1 .. Len(fields) : fields[n].len \in Nat
<1>1. Len(fields) \in Nat /\ \A n \in 1 .. Len(fields) : fields[n] \in Fields(W, D)
  OBVIOUS
<1> QED
  BY <1>1 DEF Fields

\* The only time in the head is the one given.
LEMMA HeadFields ==
  ASSUME NEW time
  PROVE  \E W : DescHead(time) \in Seq(Fields(W, {time}))
<1> DEFINE v1 == Value("version", "0.0.0")
           v2 == Value("version_deconz", ">2.19.3")
           v3 == Value("product", NotFound)
           W == {{}, v1, v2, v3}
           D == {time}
           S == Fields(W, D)
<1>1. /\ << Mark(11) >> \in Seq(S) /\ << Mark(18) >> \in Seq(S) /\ << Mark(1) >> \in Seq(S)
      /\ Mark(18) \in S /\ Mark(2) \in S /\ Mark(10) \in S
      /\ Quoted(v1) \in Seq(S) /\ Quoted(v2) \in Seq(S) /\ Quoted(v3) \in Seq(S)
  <2>1. {} \in W /\ v1 \in W /\ v2 \in W /\ v3 \in W
    OBVIOUS
  <2> HIDE DEF v1, v2, v3, W, D
  <2> QED
    BY <2>1, TextFields
<1>4. Time(time) \in S
  <2>1. TimeLen \in Nat
    BY SizesAre
  <2>2. Time(time) \in [is : {"time"}, len : Nat, val : D, at : {0}]
    BY <2>1 DEF Time, Field
  <2> HIDE DEF W, D
  <2> QED
    BY <2>2 DEF Fields
<1>2. << Mark(18), Time(time), Mark(2), Mark(10) >> \in Seq(S)
  <2> HIDE DEF S
  <2> QED
    BY <1>1, <1>4
<1>3. DescHead(time) =
        << Mark(11) >> \o Quoted(v1) \o << Mark(18) >> \o Quoted(v2)
          \o << Mark(18), Time(time), Mark(2), Mark(10) >> \o Quoted(v3) \o << Mark(1) >>
  BY DEF DescHead
<1> HIDE DEF S, v1, v2, v3
<1>5. DescHead(time) \in Seq(S)
  BY <1>1, <1>2, <1>3
<1> QED
  BY <1>5 DEF S

\* Numbers put in order are as many as there are.
LEMMA OrderLength ==
  ASSUME NEW S, IsFiniteSet(S)
  PROVE  /\ Cardinality(S) \in Nat /\ DOMAIN InOrder(S) = 1 .. Cardinality(S)
         /\ Len(InOrder(S)) = Cardinality(S)
<1>1. Cardinality(S) \in Nat
  BY FS_CardinalityType
<1>2. InOrder(S) = [k \in 1 .. Cardinality(S) |->
                      CHOOSE i \in S : Cardinality({j \in S : j <= i}) = k]
  BY DEF InOrder
<1> QED
  BY <1>1, <1>2

LEMMA PartOfInterval ==
  ASSUME NEW a \in Int, NEW b \in Int, NEW S, S \subseteq a .. b
  PROVE  IsFiniteSet(S)
<1>1. IsFiniteSet(a .. b)
  BY FS_Interval
<1> QED
  BY <1>1, FS_Subset

\* The identifiers are pairs in a row.
Pairs(ids) == \E n \in Nat : DOMAIN ids = 1 .. n

LEMMA IdentifierFields ==
  ASSUME NEW ids, NEW n \in Nat, DOMAIN ids = 1 .. n
  PROVE  \E W : DescIdentifiers(ids) \in Seq(Fields(W, {}))
<1> DEFINE W == {{}} \cup {ids[k][1] : k \in 1 .. n} \cup {ids[k][2] : k \in 1 .. n}
           S == Fields(W, {})
           part(k) == << Mark(IF k = 1 THEN 1 ELSE 2) >> \o Quoted(ids[k][1])
                        \o << Mark(1) >> \o Quoted(ids[k][2]) \o << Mark(1) >>
           parts == [k \in DOMAIN ids |-> part(k)]
<1>1. {} \in W /\ \A k \in 1 .. n : ids[k][1] \in W /\ ids[k][2] \in W
  OBVIOUS
<1> HIDE DEF W
<1>2. \A len \in Nat : << Mark(len) >> \in Seq(S)
  BY <1>1, TextFields
<1>3. \A sym \in W : Quoted(sym) \in Seq(S)
  BY <1>1, TextFields
<1> HIDE DEF S
<1>4. ASSUME NEW k \in 1 .. n PROVE part(k) \in Seq(S)
  <2>1. (IF k = 1 THEN 1 ELSE 2) \in Nat
    OBVIOUS
  <2>2. << Mark(IF k = 1 THEN 1 ELSE 2) >> \in Seq(S) /\ << Mark(1) >> \in Seq(S)
    BY <1>2, <2>1
  <2>3. Quoted(ids[k][1]) \in Seq(S) /\ Quoted(ids[k][2]) \in Seq(S)
    BY <1>1, <1>3
  <2> QED
    BY <2>2, <2>3
<1> HIDE DEF part
<1>5. parts \in Seq(Seq(S))
  BY <1>4
<1>6. FlattenSeq(parts) \in Seq(S)
  BY <1>5, FlattenType
<1>7. DescIdentifiers(ids) = << Mark(22) >> \o FlattenSeq(parts) \o << Mark(2) >>
  BY DEF DescIdentifiers, part
<1> HIDE DEF parts
<1>8. DescIdentifiers(ids) \in Seq(S)
  BY <1>2, <1>6, <1>7
<1> QED
  BY <1>8 DEF S

\* The tokens are those of the document.
Tokenized == tokens = [ddf |-> TokensOf(input.ddf), consts |-> TokensOf(input.consts)]

LEMMA DocTokens ==
  ASSUME input \in Inputs, Tokenized
  PROVE  /\ Doc \in Document /\ Len(Doc) \in Nat /\ DOMAIN Doc = 1 .. Len(Doc)
         /\ T = TokensOf(Doc) /\ Len(T) = Len(Doc) /\ DOMAIN T = 1 .. Len(Doc)
         /\ \A i \in 1 .. Len(Doc) : T[i].sym = Doc[i] /\ T[i].parent = Enclosing(Doc, i)
<1>1. Doc \in Document
  BY InputAssumption DEF Doc, Document
<1>2. Len(Doc) \in Nat /\ DOMAIN Doc = 1 .. Len(Doc)
  BY <1>1, DocumentLength
<1>3. T = TokensOf(Doc)
  BY DEF T, Tokenized, Doc
<1>4. T = [i \in 1 .. Len(Doc) |-> Token(Doc[i], Enclosing(Doc, i))]
  BY <1>2, <1>3 DEF TokensOf
<1> QED
  BY <1>1, <1>2, <1>3, <1>4 DEF Token

LEMMA IdentifierPairs ==
  ASSUME input \in Inputs, Tokenized
  PROVE  Pairs(Identifiers)
<1> DEFINE models == ModelId
           names == MfName
           ends == {k \in 1 .. Len(T) - Max({models, names}) :
                      T[models + k].sym = "]" /\ T[names + k].sym = "]"}
           S == {k \in 1 .. ArraysEnd(models, names) - 1 : T[models + k].sym \in Texts}
<1>1. Len(T) \in Nat /\ models \in Nat /\ names \in Nat
  BY DocTokens, LookupIs DEF ModelId, MfName
<1>2. ArraysEnd(models, names) \in Nat
  <2>1. ends \subseteq Nat
    BY <1>1
  <2>2. ends # {} => Min(ends) \in Nat
    <3> HIDE DEF ends
    <3> QED
      BY <2>1, SmallestNumber DEF Min
  <2>3. ArraysEnd(models, names) \in {Min(ends), 0} /\ (ends = {} => ArraysEnd(models, names) = 0)
    BY DEF ArraysEnd
  <2> HIDE DEF ends
  <2> QED
    BY <2>2, <2>3
<1>3. IsFiniteSet(S)
  <2>1. ArraysEnd(models, names) - 1 \in Int /\ 1 \in Int /\ S \subseteq 1 .. ArraysEnd(models, names) - 1
    BY <1>2
  <2> HIDE DEF S
  <2> QED
    BY <2>1, PartOfInterval
<1>4. Pairs(InArrays(models, names))
  <2>1. DOMAIN InArrays(models, names) = DOMAIN InOrder(S)
    BY DEF InArrays
  <2> HIDE DEF S
  <2> QED
    BY <1>3, <2>1, OrderLength DEF Pairs
<1>5. Pairs(<< << T[names].sym, T[models].sym >> >>) /\ Pairs(<<>>)
  <2>1. DOMAIN << << T[names].sym, T[models].sym >> >> = 1 .. 1 /\ DOMAIN <<>> = 1 .. 0
    OBVIOUS
  <2> QED
    BY <2>1 DEF Pairs
<1> HIDE DEF models, names
<1>6. \/ Identifiers = InArrays(models, names)
      \/ Identifiers = << << T[names].sym, T[models].sym >> >>
      \/ Identifiers = <<>>
  BY DEF Identifiers, models, names
<1> QED
  BY <1>4, <1>5, <1>6

LEMMA ConstantFields ==
  ASSUME input \in Inputs, Tokenized
  PROVE  IsStream(ConstantsText) /\ ConstantsText.pos <= ConstSize - 1
<1> DEFINE F == {i \in DOMAIN T : T[i].sym \in Upper /\ \A j \in 1 .. i - 1 : T[j].sym # T[i].sym}
           used == UsedConstants
           n == Cardinality(F)
           W == {{}} \cup {used[k] : k \in 1 .. n} \cup {ResolveConstant(used[k]) : k \in 1 .. n}
           S == Fields(W, {})
           part(k) == (IF k = 1 THEN <<>> ELSE << Mark(1) >>)
                        \o Quoted(used[k]) \o << Mark(1) >> \o Quoted(ResolveConstant(used[k]))
           parts == [k \in DOMAIN used |-> part(k)]
           fields == << Mark(1) >> \o FlattenSeq(parts) \o << Mark(1) >>
<1>1. n \in Nat /\ DOMAIN used = 1 .. n
  <2>1. IsFiniteSet(F)
    <3>1. F \subseteq 1 .. Len(Doc) /\ Len(Doc) \in Int /\ 1 \in Int
      BY DocTokens
    <3> HIDE DEF F
    <3> QED
      BY <3>1, PartOfInterval
  <2>2. DOMAIN used = DOMAIN InOrder(F)
    BY DEF UsedConstants
  <2> HIDE DEF F, used
  <2> QED
    BY <2>1, <2>2, OrderLength
<1> HIDE DEF n
<1>2. {} \in W /\ \A k \in 1 .. n : used[k] \in W /\ ResolveConstant(used[k]) \in W
  OBVIOUS
<1> HIDE DEF W
<1>3. \A sym \in W : Quoted(sym) \in Seq(S)
  BY <1>2, TextFields
<1>4. << Mark(1) >> \in Seq(S)
  BY <1>2, TextFields
<1>5. ASSUME NEW k \in 1 .. n PROVE part(k) \in Seq(S)
  <2> HIDE DEF S, used
  <2>1. Quoted(used[k]) \in Seq(S) /\ Quoted(ResolveConstant(used[k])) \in Seq(S)
    BY <1>2, <1>3
  <2>2. (IF k = 1 THEN <<>> ELSE << Mark(1) >>) \in Seq(S)
    BY <1>4
  <2> QED
    BY <1>4, <2>1, <2>2
<1>6. parts \in Seq(Seq(S))
  <2> HIDE DEF part, S, used
  <2> QED
    BY <1>1, <1>5
<1>7. FlattenSeq(parts) \in Seq(S)
  <2> HIDE DEF parts, S
  <2> QED
    BY <1>6, FlattenType
<1>8. fields \in Seq(S)
  <2> HIDE DEF parts, S
  <2> QED
    BY <1>4, <1>7
<1>9. ConstantsText = PutAll(Stream(TRUE), fields, ConstSize - 1)
  BY DEF ConstantsText
<1> HIDE DEF fields
<1>10. Len(fields) \in Nat /\ \A k \in 1 .. Len(fields) : fields[k].len \in Nat
  <2> HIDE DEF W
  <2> QED
    BY <1>8, FieldLengths
<1>11. IsStream(Stream(TRUE)) /\ Stream(TRUE).pos <= ConstSize - 1 /\ ConstSize - 1 \in Nat
  <2>1. ConstSize - 1 \in Nat
    BY SizesAre
  <2>2. IsStream(Stream(TRUE)) /\ \A k \in Nat : Stream(TRUE).pos <= k
    BY DEF Stream, IsStream
  <2> QED
    BY <2>1, <2>2
<1> QED
  BY <1>9, <1>10, <1>11, PutAllFits
-----------------------------------------------------------------------------
(* Types.                                                                  *)

Labels ==
  {"start", "stat_constants", "read_constants", "load_ddf", "describe", "identify", "scan",
   "stamp_script", "start_items", "subdevices", "items", "read_item", "constants", "store",
   "stored", "failed", "trap", "not_written"}

\* A position is noted while identifiers are put and in the loops over items; that
\* of an item is not before that of the loops.
MarksNoted ==
  /\ Len(marks) <= 2
  /\ pc \in {"identify", "subdevices", "items"} => Len(marks) = 1
  /\ pc = "read_item" => Len(marks) = 2 /\ marks[1] <= marks[2]

DiskTyped ==
  /\ input \in Inputs /\ Tokenized /\ edits \in 0 .. MaxEdits
  /\ fs \in [Files -> [size : Nat, time : Nat]]

MemoryTyped == scratch \in 0 .. ScratchSize /\ marks \in Seq(0 .. scratch) /\ MarksNoted

StreamsTyped ==
  /\ IsStream(ss) /\ ss.pos <= DescSize - 1
  /\ IsStream(bs) /\ bs.pos <= BundleSize

OpenedTyped == opened \in [open : BOOLEAN, size : Nat, time : Nat]

PlacesTyped ==
  /\ seen.size \in Nat /\ ddf.size \in Nat
  /\ at \in 1 .. Len(Doc) + 1 /\ subdev \in 0 .. Len(Doc)
  /\ cache \subseteq Files

Typed ==
  pc \in Labels /\ DiskTyped /\ MemoryTyped /\ StreamsTyped /\ PlacesTyped /\ OpenedTyped

LEMMA TypesFollow == ASSUME Typed PROVE TypeOK
<1>1. Len(T) = Len(Doc) /\ DescSize - 1 <= DescSize /\ DescSize - 1 \in Nat /\ DescSize \in Nat
  BY DocTokens, SizesAre DEF Typed, DiskTyped
<1>2. ss.pos \in 0 .. DescSize /\ bs.pos \in 0 .. BundleSize
  <2>1. ss.pos \in Nat /\ bs.pos \in Nat /\ ss.pos <= DescSize - 1 /\ bs.pos <= BundleSize
    BY DEF Typed, StreamsTyped, IsStream
  <2>2. BundleSize \in Nat
    BY SizesAre
  <2> HIDE DEF DescSize, BundleSize
  <2> QED
    BY <1>1, <2>1, <2>2
<1>3. \A k \in DOMAIN marks : marks[k] \in 0 .. scratch
  BY DEF Typed, MemoryTyped
<1> QED
  BY <1>1, <1>2, <1>3
  DEF Typed, DiskTyped, MemoryTyped, PlacesTyped, OpenedTyped, TypeOK, MarksNoted

\* A disk never has the file that never exists, and times are numbers.
LEMMA AtFirst == Init => Typed
<1> SUFFICES ASSUME Init PROVE Typed
  OBVIOUS
<1>1. /\ input \in Inputs /\ Tokenized /\ edits \in 0 .. MaxEdits
      /\ fs \in [Files -> [size : Nat, time : Nat]]
  BY CreateAssumption DEF Init, Tokenized
<1>2. pc \in Labels /\ MarksNoted /\ marks \in Seq(0 .. scratch)
  BY DEF Init, Labels, MarksNoted
<1>3. scratch \in 0 .. ScratchSize
  BY SizesAre DEF Init
<1>4. /\ IsStream(ss) /\ ss.pos <= DescSize - 1
      /\ IsStream(bs) /\ bs.pos <= BundleSize
  <2>1. DescSize - 1 \in Nat /\ BundleSize \in Nat
    BY SizesAre
  <2>2. IsStream(Stream(TRUE)) /\ \A k \in Nat : Stream(TRUE).pos <= k
    BY DEF Stream, IsStream
  <2>3. ss = Stream(TRUE) /\ bs = Stream(TRUE)
    BY DEF Init
  <2> HIDE DEF DescSize, BundleSize
  <2> QED
    BY <2>1, <2>2, <2>3
<1>5. seen.size \in Nat /\ ddf.size \in Nat
  BY DEF Init, NoContent, Content
<1>6. at \in 1 .. Len(Doc) + 1 /\ subdev \in 0 .. Len(Doc) /\ cache \subseteq Files
  BY <1>1, DocTokens DEF Init, Invalid
<1>7. OpenedTyped
  BY DEF Init, Closed, OpenedTyped
<1> QED
  BY <1>1, <1>2, <1>3, <1>4, <1>5, <1>6, <1>7
  DEF Typed, DiskTyped, MemoryTyped, StreamsTyped, PlacesTyped

LEMMA DemandType == ASSUME Typed PROVE Demand \in Seq(Nat)
<1>1. seen.size \in Nat /\ \A a \in Nat, b \in Nat : a + b \in Nat
  BY DEF Typed, PlacesTyped
<1>2. /\ PathMax \in Nat /\ ValBuf \in Nat /\ FileMax \in Nat /\ ConstSize \in Nat
      /\ CacheBytes \in Nat /\ TokenBytes \in Nat /\ BundleSize \in Nat /\ DescSize \in Nat
  BY SizesAre
<1> DEFINE scripts == IF PathFits
                      THEN << TextLen[T[ScriptPath].sym] + 1, PathMax, FileMax >> ELSE <<>>
           consts == << ConstSize, ValBuf, ValBuf, CacheBytes, TokenBytes >>
                       \o (IF UsedConstants = <<>> THEN <<>> ELSE << TokenBytes >>)
<1>3. scripts \in Seq(Nat)
  <2> DEFINE len == TextLen[T[ScriptPath].sym]
  <2>1. ScriptMax - 1 \in Nat
    BY SMT DEF ScriptMax
  <2>2. PathFits => len \in 1 .. ScriptMax - 1
    BY DEF PathFits
  <2> HIDE DEF len
  <2>3. PathFits => len + 1 \in Nat
    BY <2>1, <2>2
  <2>4. scripts = IF PathFits THEN << len + 1, PathMax, FileMax >> ELSE <<>>
    BY DEF len
  <2> HIDE DEF scripts
  <2> QED
    BY <1>2, <2>3, <2>4
<1>4. consts \in Seq(Nat)
  BY <1>2
<1>5. \/ Demand = << 2048, PathMax >> \/ Demand = << PathMax >> \/ Demand = << seen.size + 1 >>
      \/ Demand = << FileMax >> \/ Demand = << BundleSize, DescSize, ValBuf, ValBuf, TokenBytes >>
      \/ Demand = << TokenBytes >> \/ Demand = <<>> \/ Demand = scripts
      \/ Demand = << ValBuf, PathMax, TokenBytes >> \/ Demand = << seen.size + 16 >>
      \/ Demand = consts
  <2> DEFINE result == Demand
  <2>1. CASE pc = "start" BY <2>1 DEF Demand
  <2>2. CASE pc = "stat_constants" BY <2>2 DEF Demand
  <2>3. CASE pc = "read_constants" BY <2>3 DEF Demand
  <2>4. CASE pc = "load_ddf" BY <2>4 DEF Demand
  <2>5. CASE pc = "describe" BY <2>5 DEF Demand
  <2>6. CASE pc = "identify" BY <2>6 DEF Demand
  <2>7. CASE pc = "scan" BY <2>7 DEF Demand
  <2>8. CASE pc = "start_items" BY <2>8 DEF Demand
  <2>9. CASE pc = "items" BY <2>9 DEF Demand
  <2>10. CASE pc = "read_item" BY <2>10 DEF Demand
  <2>11. CASE pc = "constants" BY <2>11 DEF Demand
  <2>12. CASE pc \notin {"start", "stat_constants", "read_constants", "load_ddf", "describe",
                         "identify", "scan", "start_items", "items", "read_item", "constants"}
    <3> HIDE DEF consts, scripts
    <3>1. Demand = <<>>
      BY SMTT(30), <2>12 DEF Demand
    <3> QED
      BY <3>1
  <2> QED
    BY <2>1, <2>2, <2>3, <2>4, <2>5, <2>6, <2>7, <2>8, <2>9, <2>10, <2>11, <2>12
<1> HIDE DEF scripts, consts
<1>6. << 2048, PathMax >> \in Seq(Nat)
  BY <1>2
<1>7. << BundleSize, DescSize, ValBuf, ValBuf, TokenBytes >> \in Seq(Nat)
  BY <1>2
<1>8. << ValBuf, PathMax, TokenBytes >> \in Seq(Nat)
  BY <1>2
<1>9. << seen.size + 1 >> \in Seq(Nat) /\ << seen.size + 16 >> \in Seq(Nat)
  BY <1>1
<1> QED
  <2>1. CASE Demand = << 2048, PathMax >>
    BY <1>6, <2>1
  <2>2. CASE Demand # << 2048, PathMax >>
    <3> DEFINE some == << seen.size + 16 >>
               more == << seen.size + 1 >>
    <3> HIDE DEF some, more
    <3>1. \/ Demand = << PathMax >> \/ Demand = more \/ Demand = << FileMax >>
          \/ Demand = << BundleSize, DescSize, ValBuf, ValBuf, TokenBytes >>
          \/ Demand = << TokenBytes >> \/ Demand = <<>> \/ Demand = scripts
          \/ Demand = << ValBuf, PathMax, TokenBytes >> \/ Demand = some \/ Demand = consts
      BY <1>5, <2>2 DEF some, more
    <3>2. some \in Seq(Nat) /\ more \in Seq(Nat)
      BY <1>9 DEF some, more
    <3>3. CASE Demand \in {more, some, scripts, consts}
      BY <1>3, <1>4, <3>2, <3>3
    <3>4. CASE Demand = << PathMax >>
      BY <1>2, <3>4
    <3>8. CASE Demand = << FileMax >>
      BY <1>2, <3>8
    <3>9. CASE Demand = << TokenBytes >>
      BY <1>2, <3>9
    <3>7. CASE Demand = <<>>
      BY <3>7
    <3>5. CASE Demand = << BundleSize, DescSize, ValBuf, ValBuf, TokenBytes >>
      BY <1>7, <3>5
    <3>6. CASE Demand = << ValBuf, PathMax, TokenBytes >>
      BY <1>8, <3>6
    <3> QED
      BY <3>1, <3>3, <3>4, <3>5, <3>6, <3>7, <3>8, <3>9
  <2> QED
    BY <2>1, <2>2

LEMMA TakenFits ==
  ASSUME Typed, Taken # Exhausted
  PROVE  Taken \in scratch .. ScratchSize /\ Taken \in 0 .. ScratchSize
<1>1. scratch \in 0 .. ScratchSize
  BY DEF Typed, MemoryTyped
<1>2. Taken \in scratch .. ScratchSize
  BY <1>1, DemandType, AllocsReach DEF Taken
<1> QED
  BY <1>1, <1>2, SizesAre

\* What changes which variables.
LEMMA StepFrame ==
  ASSUME Step
  PROVE  /\ UNCHANGED disk
         /\ \/ UNCHANGED <<ss, bs>>
            \/ Describe \/ Identify \/ StampScript \/ ReadItem \/ AddConstants
         /\ \/ UNCHANGED <<at, subdev, cache, seen, ddf>>
            \/ StatConstants \/ LoadDdf \/ LoadScript \/ SkipScript \/ StartItems
            \/ EnterSubdevice \/ LeaveSubdevice \/ KnownItem \/ StatItem
BY DEF Step, ScratchExhausted, GiveUp, Start, StatConstants, ReadConstants, LoadDdf, Describe,
       Identify, LoadScript, SkipScript, StampScript, ScriptWithoutPath, NoMoreScripts,
       StartItems, EnterSubdevice, LeaveSubdevice, KnownItem, StatItem, ReadItem,
       NoMoreSubdevices, AddConstants, StoreBundle, StoreFails, Do, Unchanged, place, loaded

\* A step keeps the file open or closes it.
LEMMA StepCloses == ASSUME Step PROVE opened' = opened \/ opened' = Closed
BY DEF Step, ScratchExhausted, GiveUp, Start, StatConstants, ReadConstants, LoadDdf, Describe,
       Identify, LoadScript, SkipScript, StampScript, ScriptWithoutPath, NoMoreScripts,
       StartItems, EnterSubdevice, LeaveSubdevice, KnownItem, StatItem, ReadItem,
       NoMoreSubdevices, AddConstants, StoreBundle, StoreFails, Do, Unchanged

\* When a file is opened, and when nothing happens.
Still == UNCHANGED <<disk, pc, scratch, marks, ss, bs, loaded, place, out>>

LEMMA NextIs == ASSUME [Next]_vars PROVE Step \/ Edit \/ Still
BY DEF Next, OpenFile, Finished, vars, Still

LEMMA LabelsKept == ASSUME pc \in Labels, Step PROVE pc' \in Labels
BY DEF Step, ScratchExhausted, GiveUp, Start, StatConstants, ReadConstants, LoadDdf, Describe,
       Identify, LoadScript, SkipScript, StampScript, ScriptWithoutPath, NoMoreScripts,
       StartItems, EnterSubdevice, LeaveSubdevice, KnownItem, StatItem, ReadItem,
       NoMoreSubdevices, AddConstants, StoreBundle, StoreFails, Go, Labels

\* A chunk fits, or the bundle ends before it.
LEMMA PutExtfFits ==
  ASSUME NEW s, IsStream(s), s.pos <= BundleSize, NEW type, NEW path, path.len \in Nat,
         NEW time, NEW data, data.len \in Nat
  PROVE  /\ IsStream(PutExtf(s, type, path, time, data))
         /\ PutExtf(s, type, path, time, data).pos <= BundleSize
<1> DEFINE fields == << Tag("EXTF"), Size(4, 0), Field("type", 4, type),
                        Size(2, path.len), path, Size(2, TimeLen), Time(time),
                        Size(4, data.len), data >>
           r == PutAll(s, fields, BundleSize)
<1>1. Len(fields) = 9 /\ \A n \in 1 .. 9 : fields[n].len \in Nat
  <2>1. TimeLen \in Nat
    BY SizesAre
  <2>2. /\ Tag("EXTF").len \in Nat /\ Size(4, 0).len \in Nat /\ Field("type", 4, type).len \in Nat
        /\ Size(2, path.len).len \in Nat /\ Size(2, TimeLen).len \in Nat
        /\ Time(time).len \in Nat /\ Size(4, data.len).len \in Nat
    BY <2>1 DEF Tag, Size, Time, Field
  <2> QED
    BY <2>2
<1>2. PutExtf(s, type, path, time, data) = Patch(r, s.pos + 4)
  BY DEF PutExtf
<1> HIDE DEF fields
<1>3. IsStream(r) /\ r.pos <= BundleSize
  <2>1. BundleSize \in Nat
    BY SizesAre
  <2>2. Len(fields) \in Nat /\ \A n \in 1 .. Len(fields) : fields[n].len \in Nat
    BY <1>1
  <2> QED
    BY <2>1, <2>2, PutAllFits
<1> HIDE DEF r
<1>4. ASSUME NEW pos PROVE IsStream(Patch(r, pos)) /\ Patch(r, pos).pos = r.pos
  BY <1>3 DEF IsStream, Patch
<1> QED
  BY <1>2, <1>3, <1>4

LEMMA Lengths ==
  ASSUME NEW sym
  PROVE  LenOf(sym) \in Nat /\ Text(sym).len \in Nat
<1>1. LenOf(sym) \in Nat
  BY CreateAssumption DEF LenOf
<1> QED
  BY <1>1 DEF Text, Field

\* No put passes the end of the text or of the bundle.
LEMMA StreamsKept == ASSUME Typed, Step PROVE StreamsTyped'
<1>1. /\ IsStream(ss) /\ ss.pos <= DescSize - 1 /\ ss.pos \in Nat
      /\ IsStream(bs) /\ bs.pos <= BundleSize
      /\ DescSize - 1 \in Nat /\ BundleSize \in Nat
  BY SizesAre DEF Typed, StreamsTyped, IsStream
<1>2. input \in Inputs /\ Tokenized /\ ddf.size \in Nat /\ seen.size \in Nat
  BY DEF Typed, DiskTyped, PlacesTyped
<1>3. CASE Describe
  <2>1. PICK ok \in BOOLEAN : ss' = PutAll(Stream(ok), DescHead(fs["ddf"].time), DescSize - 1)
    BY <1>3 DEF Describe
  <2> DEFINE fields == << Tag("RIFF"), Size(4, 0), Tag("DDFB"), Size(4, 0), Tag("DESC") >>
  <2>2. bs' = PutAll(Stream(TRUE), fields, BundleSize)
    BY <1>3 DEF Describe
  <2>3. Len(fields) = 5 /\ \A n \in 1 .. 5 : fields[n].len \in Nat
    BY DEF Tag, Size, Field
  <2> HIDE DEF fields
  <2>4. /\ IsStream(Stream(ok)) /\ Stream(ok).pos = 0
        /\ IsStream(Stream(TRUE)) /\ \A k \in Nat : Stream(TRUE).pos <= k
    BY DEF Stream, IsStream
  <2>5. IsStream(bs') /\ bs'.pos <= BundleSize
    <3>1. Len(fields) \in Nat /\ \A n \in 1 .. Len(fields) : fields[n].len \in Nat
      BY <2>3
    <3>2. Stream(TRUE).pos <= BundleSize
      BY <1>1, <2>4
    <3> QED
      BY <1>1, <2>2, <2>4, <3>1, <3>2, PutAllFits
  <2>6. IsStream(ss') /\ ss'.pos <= DescSize - 1
    <3> DEFINE head == DescHead(fs["ddf"].time)
    <3>1. Len(head) \in Nat /\ \A n \in 1 .. Len(head) : head[n].len \in Nat
      <4>1. PICK W : head \in Seq(Fields(W, {fs["ddf"].time}))
        BY HeadFields
      <4> HIDE DEF head
      <4> QED
        BY <4>1, FieldLengths
    <3>2. Stream(ok).pos <= DescSize - 1
      BY <1>1, <2>4
    <3> HIDE DEF head
    <3>3. ss' = PutAll(Stream(ok), head, DescSize - 1)
      BY <2>1 DEF head
    <3> QED
      BY <1>1, <2>4, <3>1, <3>2, <3>3, PutAllFits
  <2> QED
    BY <2>5, <2>6 DEF StreamsTyped
<1>4. CASE Identify
  <2> DEFINE ids == DescIdentifiers(Identifiers)
             text == PutAll(ss, ids, DescSize - 1)
             fields == << Size(4, text.pos), Data(text.pos, text.fields),
                          Tag("DDFC"), Size(4, ddf.size), Data(ddf.size, ddf) >>
  <2>1. ss' = text /\ bs' = PutAll(bs, fields, BundleSize)
    BY <1>4 DEF Identify
  <2>2. IsStream(text) /\ text.pos <= DescSize - 1
    <3>1. Len(ids) \in Nat /\ \A n \in 1 .. Len(ids) : ids[n].len \in Nat
      <4>1. PICK n \in Nat : DOMAIN Identifiers = 1 .. n
        BY <1>2, IdentifierPairs DEF Pairs
      <4>2. PICK W : ids \in Seq(Fields(W, {}))
        BY <4>1, IdentifierFields
      <4> HIDE DEF ids
      <4> QED
        BY <4>2, FieldLengths
    <3> HIDE DEF ids
    <3> QED
      BY <1>1, <3>1, PutAllFits
  <2> HIDE DEF text
  <2>3. Len(fields) = 5 /\ \A n \in 1 .. 5 : fields[n].len \in Nat
    <3>1. text.pos \in Nat
      BY <2>2 DEF IsStream
    <3> QED
      BY <1>2, <3>1 DEF Tag, Size, Data, Field
  <2> HIDE DEF fields
  <2>4. IsStream(bs') /\ bs'.pos <= BundleSize
    <3>1. Len(fields) \in Nat /\ \A n \in 1 .. Len(fields) : fields[n].len \in Nat
      BY <2>3
    <3> QED
      BY <1>1, <2>1, <3>1, PutAllFits
  <2> QED
    BY <2>1, <2>2, <2>4 DEF StreamsTyped
<1>5. ASSUME NEW type, NEW path, path.len \in Nat, NEW time, NEW data, data.len \in Nat,
             bs' = PutExtf(bs, type, path, time, data), ss' = ss
      PROVE  StreamsTyped'
  BY <1>1, <1>5, PutExtfFits DEF StreamsTyped
<1>6. CASE StampScript
  <2>1. Text(name).len \in Nat /\ Data(seen.size, seen).len \in Nat
    BY <1>2, Lengths DEF Data, Field
  <2> QED
    BY <1>5, <1>6, <2>1 DEF StampScript
<1>7. CASE ReadItem
  <2> DEFINE file == FileNamed(name)
             path == Field("text", LenOf(name) + 24, file)
             data == Data(seen.size, IF seen.size = 0 THEN seen ELSE Loaded(file))
  <2>1. path.len \in Nat /\ data.len \in Nat
    BY <1>2, Lengths DEF Data, Field
  <2>2. bs' = PutExtf(bs, "JSON", path, seen.time, data) /\ ss' = ss
    BY <1>7 DEF ReadItem
  <2> HIDE DEF path, data
  <2> QED
    BY <1>5, <2>1, <2>2
<1>8. CASE AddConstants
  <2> DEFINE text == ConstantsText
             path == Field("text", 26, "generic/constants_min.json")
             data == Data(text.pos, text.fields)
  <2>1. path.len \in Nat /\ data.len \in Nat
    <3>1. text.pos \in Nat
      BY <1>2, ConstantFields DEF IsStream
    <3> QED
      BY <3>1 DEF Data, Field
  <2>2. bs' = PutExtf(bs, "JSON", path, constants.time, data) /\ ss' = ss
    BY <1>8 DEF AddConstants
  <2> HIDE DEF path, data
  <2> QED
    BY <1>5, <2>1, <2>2
<1>9. CASE UNCHANGED <<ss, bs>>
  BY <1>1, <1>9 DEF StreamsTyped
<1> QED
  BY <1>3, <1>4, <1>6, <1>7, <1>8, <1>9, StepFrame

-----------------------------------------------------------------------------
(* What the loops come to next.                                            *)

LEMMA FirstIs ==
  ASSUME NEW n \in Nat, NEW from \in Nat \ {0}, NEW S, S \subseteq from .. n,
         NEW m, m = IF S = {} THEN 0 ELSE Min(S)
  PROVE  \/ m = 0 /\ S = {}
         \/ m # 0 /\ m \in S /\ m \in from .. n /\ \A i \in S : m <= i
<1>1. CASE S = {}
  BY <1>1
<1>2. CASE S # {}
  <2>1. S \in SUBSET Nat
    OBVIOUS
  <2>2. \E k \in S : \A i \in S : k <= i
    BY <1>2, <2>1, SmallestNumber
  <2>3. m = CHOOSE k \in S : \A i \in S : k <= i
    BY <1>2 DEF Min
  <2>4. m \in S /\ \A i \in S : m <= i
    BY <2>2, <2>3
  <2> QED
    BY <2>4
<1> QED
  BY <1>1, <1>2

LEMMA ScriptIs ==
  ASSUME Typed
  PROVE  \/ /\ NextScript = 0
            /\ \A i \in at .. Len(Doc) : T[i].sym # "script"
         \/ /\ NextScript \in at .. Len(Doc) /\ NextScript # 0 /\ T[NextScript].sym = "script"
            /\ \A i \in at .. Len(Doc) : T[i].sym = "script" => NextScript <= i
<1> DEFINE found == {i \in at .. Len(T) : T[i].sym = "script"}
<1>1. Len(T) = Len(Doc) /\ Len(Doc) \in Nat /\ at \in Nat \ {0}
  BY DocTokens DEF Typed, DiskTyped, PlacesTyped
<1>2. NextScript = IF found = {} THEN 0 ELSE Min(found)
  BY DEF NextScript
<1>3. found \subseteq at .. Len(Doc)
  BY <1>1
<1>4. \A i \in at .. Len(Doc) : T[i].sym = "script" <=> i \in found
  BY <1>1
<1>5. \A i \in found : T[i].sym = "script"
  OBVIOUS
<1> HIDE DEF found
<1>6. \/ NextScript = 0 /\ found = {}
      \/ /\ NextScript # 0 /\ NextScript \in found /\ NextScript \in at .. Len(Doc)
         /\ \A i \in found : NextScript <= i
  BY <1>1, <1>2, <1>3, FirstIs
<1> QED
  BY <1>4, <1>5, <1>6

\* A path is a text behind the word, and the first one.
LEMMA PathIs ==
  ASSUME Typed, ScriptPath # 0
  PROVE  /\ NextScript # 0 /\ ScriptPath \in NextScript + 1 .. Len(Doc)
         /\ ScriptPath \in at + 1 .. Len(Doc) /\ T[ScriptPath].sym \in Texts
         /\ \A i \in NextScript + 1 .. Len(Doc) : T[i].sym \in Texts => ScriptPath <= i
<1> DEFINE strings == {i \in NextScript + 1 .. Len(T) : T[i].sym \in Texts}
<1>1. Len(T) = Len(Doc) /\ Len(Doc) \in Nat /\ at \in Nat \ {0}
  BY DocTokens DEF Typed, DiskTyped, PlacesTyped
<1>2. NextScript # 0 /\ NextScript \in at .. Len(Doc)
  BY ScriptIs DEF ScriptPath
<1>3. ScriptPath = IF strings = {} THEN 0 ELSE Min(strings)
  BY <1>2 DEF ScriptPath
<1>4. strings \subseteq NextScript + 1 .. Len(Doc) /\ NextScript + 1 \in Nat \ {0}
  BY <1>1, <1>2
<1>5. \A i \in NextScript + 1 .. Len(Doc) : T[i].sym \in Texts <=> i \in strings
  BY <1>1
<1> HIDE DEF strings
<1>6. /\ ScriptPath \in strings /\ ScriptPath \in NextScript + 1 .. Len(Doc)
      /\ \A i \in strings : ScriptPath <= i
  BY <1>1, <1>3, <1>4, FirstIs
<1> QED
  BY <1>1, <1>2, <1>5, <1>6

LEMMA SubdeviceIs ==
  ASSUME Typed
  PROVE  \/ /\ NextSubdevice = 0
            /\ \A i \in at .. Len(Doc) : ~(T[i].parent = Subdevices /\ ObjectAt(Doc, i))
         \/ /\ NextSubdevice \in at .. Len(Doc) /\ NextSubdevice # 0
            /\ T[NextSubdevice].parent = Subdevices /\ ObjectAt(Doc, NextSubdevice)
            /\ \A i \in at .. Len(Doc) :
                 T[i].parent = Subdevices /\ ObjectAt(Doc, i) => NextSubdevice <= i
<1> DEFINE found == {i \in at .. Len(T) : T[i].parent = Subdevices /\ T[i].sym = "{"}
<1>1. Len(T) = Len(Doc) /\ Len(Doc) \in Nat /\ at \in Nat \ {0}
  BY DocTokens DEF Typed, DiskTyped, PlacesTyped
<1>2. NextSubdevice = IF found = {} THEN 0 ELSE Min(found)
  BY DEF NextSubdevice
<1>3. \A i \in at .. Len(Doc) : T[i].sym = Doc[i]
  BY <1>1, DocTokens DEF Typed, DiskTyped
<1>4. found = {i \in at .. Len(Doc) : T[i].parent = Subdevices /\ ObjectAt(Doc, i)}
  <2>1. \A i \in at .. Len(Doc) : T[i].sym = "{" <=> ObjectAt(Doc, i)
    BY <1>3 DEF ObjectAt
  <2> QED
    BY <1>1, <2>1
<1> HIDE DEF found
<1>5. found \subseteq at .. Len(Doc)
  BY <1>4
<1>6. \/ NextSubdevice = 0 /\ found = {}
      \/ /\ NextSubdevice # 0 /\ NextSubdevice \in found /\ NextSubdevice \in at .. Len(Doc)
         /\ \A i \in found : NextSubdevice <= i
  BY <1>1, <1>2, <1>5, FirstIs
<1> QED
  BY <1>4, <1>6

\* The end of a member of object sub.
MemberEnd(sub, i) == T[i].parent = sub /\ Doc[i] = "}"

LEMMA ItemIs ==
  ASSUME Typed
  PROVE  \/ /\ NextItem = 0 /\ EndsItems
            /\ \A i \in at .. Len(Doc) :
                 ~MemberEnd(subdev, i) /\ ~(T[i].parent = Items /\ ObjectAt(Doc, i))
         \/ /\ NextItem \in at .. Len(Doc) /\ NextItem # 0
            /\ \/ EndsItems /\ MemberEnd(subdev, NextItem)
               \/ ~EndsItems /\ T[NextItem].parent = Items /\ ObjectAt(Doc, NextItem)
            /\ \A i \in at .. Len(Doc) :
                 MemberEnd(subdev, i) \/ (T[i].parent = Items /\ ObjectAt(Doc, i))
                   => NextItem <= i
<1> DEFINE found == {i \in at .. Len(T) : \/ T[i].parent = subdev /\ T[i].sym = "}"
                                          \/ T[i].parent = Items /\ T[i].sym = "{"}
<1>1. Len(T) = Len(Doc) /\ Len(Doc) \in Nat /\ at \in Nat \ {0}
  BY DocTokens DEF Typed, DiskTyped, PlacesTyped
<1>2. NextItem = IF found = {} THEN 0 ELSE Min(found)
  BY DEF NextItem
<1>3. \A i \in at .. Len(Doc) : T[i].sym = Doc[i]
  BY <1>1, DocTokens DEF Typed, DiskTyped
<1>4. found = {i \in at .. Len(Doc) : \/ MemberEnd(subdev, i)
                                      \/ T[i].parent = Items /\ ObjectAt(Doc, i)}
  <2>1. \A i \in at .. Len(Doc) : T[i].sym = "{" <=> ObjectAt(Doc, i)
    BY <1>3 DEF ObjectAt
  <2>2. \A i \in at .. Len(Doc) : (T[i].parent = subdev /\ T[i].sym = "}") <=> MemberEnd(subdev, i)
    BY <1>3 DEF MemberEnd
  <2> QED
    BY <1>1, <2>1, <2>2
<1>5. found \subseteq at .. Len(Doc)
  BY <1>4
<1>6. \A i \in at .. Len(Doc) : ~(ObjectAt(Doc, i) /\ T[i].sym = "}")
  BY <1>3 DEF ObjectAt
<1>7. \A i \in at .. Len(Doc) : MemberEnd(subdev, i) => T[i].sym = "}"
  BY <1>3 DEF MemberEnd
<1>8. EndsItems <=> (NextItem # 0 => T[NextItem].sym = "}")
  BY DEF EndsItems
<1> HIDE DEF found
<1>9. \/ NextItem = 0 /\ found = {}
      \/ /\ NextItem # 0 /\ NextItem \in found /\ NextItem \in at .. Len(Doc)
         /\ \A i \in found : NextItem <= i
  BY <1>1, <1>2, <1>5, FirstIs
<1>10. CASE NextItem = 0 /\ found = {}
  <2>1. EndsItems
    BY <1>8, <1>10
  <2>2. \A i \in at .. Len(Doc) :
          ~MemberEnd(subdev, i) /\ ~(T[i].parent = Items /\ ObjectAt(Doc, i))
    BY <1>4, <1>10
  <2> QED
    BY <1>10, <2>1, <2>2
<1>11. CASE NextItem # 0
  <2>1. NextItem \in found /\ NextItem \in at .. Len(Doc) /\ \A i \in found : NextItem <= i
    BY <1>9, <1>11
  <2>2. MemberEnd(subdev, NextItem) \/ (T[NextItem].parent = Items /\ ObjectAt(Doc, NextItem))
    BY <1>4, <2>1
  <2>3. MemberEnd(subdev, NextItem) => EndsItems
    BY <1>7, <1>8, <2>1
  <2>4. ObjectAt(Doc, NextItem) => ~EndsItems
    BY <1>6, <1>8, <1>11, <2>1
  <2> QED
    BY <1>4, <1>11, <2>1, <2>2, <2>3, <2>4
<1> QED
  BY <1>9, <1>10, <1>11

-----------------------------------------------------------------------------
(* Every step keeps the types.                                             *)

LEMMA FileTyped ==
  ASSUME Typed, NEW file \in Files
  PROVE  /\ fs[file].size \in Nat /\ fs[file].time \in Nat
         /\ Content(file, fs[file]).size = fs[file].size
         /\ Content(file, fs[file]).time = fs[file].time
BY DEF Typed, DiskTyped, Content

LEMMA LoadedTyped ==
  ASSUME Typed, NEW file
  PROVE  /\ Loaded(file).size = opened.size /\ Loaded(file).size \in Nat
         /\ Loaded(file).time = opened.time /\ Loaded(file).time \in Nat
         /\ Loaded(file).last = fs[file].time
BY DEF Typed, OpenedTyped, Loaded

LEMMA NamedFile == ASSUME NEW sym PROVE FileNamed(sym) \in Files
  BY CreateAssumption DEF FileNamed

LEMMA LoadsFile == ASSUME Typed, Loading PROVE Loads[1] \in Files
<1>1. \/ Loads[1] \in {"constants", "ddf", FileNamed(name)}
      \/ PathFits /\ Loads[1] = ScriptFile[T[ScriptPath].sym]
  <2>1. CASE pc = "read_constants" BY <2>1 DEF Loads
  <2>2. CASE pc = "load_ddf" BY <2>2 DEF Loads
  <2>3. CASE pc = "scan" /\ PathFits BY <2>3 DEF Loads
  <2>4. CASE pc = "read_item" BY <2>4 DEF Loads
  <2>5. \/ pc \in {"read_constants", "load_ddf", "read_item"}
        \/ pc = "scan" /\ PathFits
    BY DEF Loading, Loads
  <2> QED
    BY <2>1, <2>2, <2>3, <2>4, <2>5
<1>2. PathFits => T[ScriptPath].sym \in Texts
  BY PathIs DEF PathFits
<1> QED
  BY <1>1, <1>2, NamedFile, CreateAssumption

LEMMA PlacesKept == ASSUME Typed, Step PROVE PlacesTyped'
<1>1. /\ seen.size \in Nat /\ ddf.size \in Nat /\ cache \subseteq Files
      /\ at \in 1 .. Len(Doc) + 1 /\ subdev \in 0 .. Len(Doc) /\ Len(Doc) \in Nat
      /\ Len(T) = Len(Doc) /\ Doc' = Doc
  <2>1. input' = input
    BY StepFrame DEF disk
  <2>2. Len(Doc) \in Nat /\ Len(T) = Len(Doc)
    BY DocTokens DEF Typed, DiskTyped
  <2> QED
    BY <2>1, <2>2 DEF Typed, PlacesTyped, Doc
<1> DEFINE Others == /\ subdev' = subdev /\ cache' = cache /\ seen' = seen /\ ddf' = ddf
<1>2. ASSUME Others, at' \in 1 .. Len(Doc) + 1 PROVE PlacesTyped'
  BY <1>1, <1>2 DEF PlacesTyped
<1>3. \A m \in 1 .. Len(Doc) : m + 1 \in 1 .. Len(Doc) + 1
  BY <1>1
<1>4. CASE StatConstants
  <2>1. seen' = Content("constants", fs["constants"]) /\ "constants" \in Files
    BY <1>4, CreateAssumption DEF StatConstants
  <2>2. seen'.size \in Nat
    BY <2>1, FileTyped
  <2>3. at' = at /\ subdev' = subdev /\ cache' = cache /\ ddf' = ddf
    BY <1>4 DEF StatConstants, place
  <2> QED
    BY <1>1, <2>2, <2>3 DEF PlacesTyped
<1>5. CASE LoadDdf
  <2>1. ddf' = Loaded("ddf")
    BY <1>5 DEF LoadDdf
  <2>2. ddf'.size \in Nat
    BY <2>1, LoadedTyped
  <2>3. at' = at /\ subdev' = subdev /\ cache' = cache /\ seen' = seen
    BY <1>5 DEF LoadDdf, place
  <2> QED
    BY <1>1, <2>2, <2>3 DEF PlacesTyped
<1>6. CASE LoadScript
  <2> DEFINE file == ScriptFile[T[ScriptPath].sym]
  <2>1. ScriptPath # 0 /\ at' = ScriptPath + 1
        /\ subdev' = subdev /\ cache' = cache /\ ddf' = ddf
    BY <1>6 DEF LoadScript, PathFits
  <2>2. seen' = NoContent \/ seen' = Loaded(file)
    BY <1>6 DEF LoadScript
  <2>3. ScriptPath \in at + 1 .. Len(Doc)
    BY <2>1, PathIs
  <2>4. seen'.size \in Nat
    BY <2>2, LoadedTyped DEF NoContent, Content
  <2>5. ScriptPath + 1 \in 1 .. Len(Doc) + 1
    BY <1>1, <2>3
  <2> QED
    BY <1>1, <2>1, <2>4, <2>5 DEF PlacesTyped
<1>7. CASE SkipScript
  <2>1. ScriptPath # 0 /\ at' = ScriptPath + 1 /\ Others
    BY <1>7 DEF SkipScript, loaded
  <2>2. ScriptPath + 1 \in 1 .. Len(Doc) + 1
    <3>1. ScriptPath \in at + 1 .. Len(Doc)
      BY <2>1, PathIs
    <3> QED
      BY <1>1, <3>1
  <2> QED
    BY <1>2, <2>1, <2>2
<1>8. CASE StartItems
  <2>1. Subdevices # Invalid /\ at' = Subdevices /\ Others
    BY <1>8 DEF StartItems, Do, Succeeds, loaded
  <2>2. Subdevices \in 0 .. Len(T) + 1
    <3>1. Len(T) \in Nat /\ 1 \in Nat
      BY <1>1
    <3> QED
      BY <3>1, LookupIs DEF Subdevices
  <2>3. Subdevices \in 1 .. Len(Doc) + 1
    BY <1>1, <2>1, <2>2 DEF Invalid
  <2> QED
    BY <1>2, <2>1, <2>3
<1>9. CASE EnterSubdevice
  <2> DEFINE ref == cj_value_ref(T, NextSubdevice, "items")
  <2>1. /\ NextSubdevice # 0 /\ subdev' = NextSubdevice /\ at' = ref
        /\ cache' = cache /\ seen' = seen /\ ddf' = ddf /\ ref # Invalid
    BY <1>9 DEF EnterSubdevice, Do, Succeeds, loaded
  <2>2. NextSubdevice \in at .. Len(Doc)
    BY <2>1, SubdeviceIs
  <2>3. NextSubdevice \in Nat
    BY <1>1, <2>2
  <2>4. ref \in 0 .. Len(T) + 1
    BY <1>1, <2>3, LookupIs
  <2> HIDE DEF ref
  <2>5. ref \in 1 .. Len(Doc) + 1 /\ NextSubdevice \in 0 .. Len(Doc)
    BY <1>1, <2>1, <2>2, <2>4 DEF Invalid
  <2> QED
    BY <1>1, <2>1, <2>5 DEF PlacesTyped
<1>10. NextItem # 0 => NextItem + 1 \in 1 .. Len(Doc) + 1
  <2>1. NextItem # 0 => NextItem \in at .. Len(Doc)
    BY ItemIs
  <2> QED
    BY <1>1, <2>1
<1>11. CASE LeaveSubdevice
  <2>1. at' = (IF NextItem = 0 THEN Len(T) + 1 ELSE NextItem + 1) /\ Others
    BY <1>11 DEF LeaveSubdevice, loaded
  <2>2. at' \in 1 .. Len(Doc) + 1
    BY <1>1, <1>10, <2>1
  <2> QED
    BY <1>2, <2>1, <2>2
<1>12. ~EndsItems => NextItem # 0
  BY DEF EndsItems
<1>13. CASE KnownItem
  BY <1>2, <1>10, <1>12, <1>13 DEF KnownItem, loaded
<1>14. CASE StatItem
  <2> DEFINE file == FileNamed(T[ItemName].sym)
  <2>1. /\ at' = NextItem + 1 /\ ~EndsItems /\ seen' = Content(file, fs[file])
        /\ cache' = cache \cup {file} /\ ddf' = ddf /\ subdev' = subdev
    BY <1>14 DEF StatItem
  <2>2. file \in Files
    BY NamedFile
  <2>3. seen'.size \in Nat
    BY <2>1, <2>2, FileTyped
  <2> HIDE DEF file
  <2> QED
    BY <1>1, <1>10, <1>12, <2>1, <2>2, <2>3 DEF PlacesTyped
<1>15. CASE UNCHANGED <<at, subdev, cache, seen, ddf>>
  BY <1>1, <1>15 DEF PlacesTyped
<1> QED
  BY <1>4, <1>5, <1>6, <1>7, <1>8, <1>9, <1>11, <1>13, <1>14, <1>15, StepFrame

\* What is noted stays below the top, whether more is taken or it goes back.
LEMMA MarksBelow ==
  ASSUME NEW a \in Nat, NEW b \in Nat, a <= b, NEW m \in Seq(0 .. a)
  PROVE  m \in Seq(0 .. b)
<1>1. 0 .. a \subseteq 0 .. b
  OBVIOUS
<1> QED
  BY <1>1

\* The position between two allocations.
LEMMA TakenBetween ==
  ASSUME Typed, pc = "describe", Taken # Exhausted
  PROVE  Allocs(scratch, << BundleSize, DescSize >>) \in 0 .. Taken
<1> DEFINE few == << BundleSize, DescSize >>
           all == << BundleSize, DescSize, ValBuf, ValBuf, TokenBytes >>
<1>1. /\ BundleSize \in Nat /\ DescSize \in Nat /\ ValBuf \in Nat /\ TokenBytes \in Nat
      /\ ScratchSize \in Nat /\ scratch \in 0 .. ScratchSize
  BY SizesAre DEF Typed, MemoryTyped
<1>2. Taken = Allocs(scratch, all)
  BY DEF Taken, Demand
<1>18. /\ Len(few) = 2 /\ few[1] = BundleSize /\ few[2] = DescSize
       /\ Len(all) = 5 /\ all[1] = BundleSize /\ all[2] = DescSize
       /\ all[3] = ValBuf /\ all[4] = ValBuf /\ all[5] = TokenBytes
       /\ Allocs(scratch, << BundleSize, DescSize >>) = Allocs(scratch, few)
  OBVIOUS
<1> HIDE DEF few, all
<1>19. Len(few) \in Nat /\ Len(all) \in Nat
  BY <1>18
<1>3. PICK p : Stepped(scratch, few, p)
  BY <1>19, AllocsSteps
<1>4. PICK q : Stepped(scratch, all, q)
  BY <1>19, AllocsSteps
<1>5. /\ Allocs(scratch, few) = p[2]
      /\ p[1] = Alloc(scratch, BundleSize) /\ p[2] = Alloc(p[1], DescSize)
  BY <1>3, <1>18 DEF Stepped
<1>6. /\ Taken = q[5] /\ q[1] = Alloc(scratch, BundleSize) /\ q[2] = Alloc(q[1], DescSize)
      /\ q[3] = Alloc(q[2], ValBuf) /\ q[4] = Alloc(q[3], ValBuf) /\ q[5] = Alloc(q[4], TokenBytes)
  BY <1>2, <1>4, <1>18 DEF Stepped
<1> DEFINE Good(a, b) == b = Exhausted \/ (a # Exhausted /\ b \in a .. ScratchSize)
           Place(a) == a = Exhausted \/ a \in 0 .. ScratchSize
<1>7. ASSUME NEW a, Place(a), NEW n \in Nat PROVE Good(a, Alloc(a, n)) /\ Place(Alloc(a, n))
  <2>1. a \in Int
    BY <1>1, <1>7, NoPosition
  <2>2. CASE a = Exhausted
    BY <1>7, <2>1, <2>2, AllocIs
  <2>3. CASE a \in 0 .. ScratchSize /\ a # Exhausted
    <3>1. Alloc(a, n) = Exhausted \/ Alloc(a, n) \in a .. ScratchSize
      BY <1>7, <2>1, <2>3, AllocIs
    <3> QED
      BY <1>1, <2>3, <3>1
  <2> QED
    BY <1>7, <2>2, <2>3
<1>8. Place(scratch)
  BY <1>1
<1>9. Good(scratch, q[1]) /\ Place(q[1])
  BY <1>1, <1>6, <1>7, <1>8
<1>10. Good(q[1], q[2]) /\ Place(q[2])
  BY <1>1, <1>6, <1>7, <1>9
<1>11. Good(q[2], q[3]) /\ Place(q[3])
  BY <1>1, <1>6, <1>7, <1>10
<1>12. Good(q[3], q[4]) /\ Place(q[4])
  BY <1>1, <1>6, <1>7, <1>11
<1>13. Good(q[4], q[5]) /\ Place(q[5])
  BY <1>1, <1>6, <1>7, <1>12
<1>14. p[2] = q[2] /\ Allocs(scratch, << BundleSize, DescSize >>) = q[2]
  BY <1>5, <1>6, <1>18
<1>15. q[5] # Exhausted
  BY <1>6
<1>16. q[2] \in 0 .. ScratchSize /\ q[3] \in q[2] .. ScratchSize /\ q[4] \in q[3] .. ScratchSize
       /\ q[5] \in q[4] .. ScratchSize
  BY <1>10, <1>11, <1>12, <1>13, <1>15
<1> HIDE DEF Good, Place
<1>17. q[2] \in 0 .. q[5]
  BY <1>1, <1>16
<1> QED
  BY <1>6, <1>14, <1>17

\* What is put back was noted before, and nothing noted is above the top.
LEMMA MemoryKept == ASSUME Typed, Step PROVE MemoryTyped'
<1>1. /\ scratch \in 0 .. ScratchSize /\ scratch \in Nat /\ ScratchSize \in Nat
      /\ marks \in Seq(0 .. scratch) /\ MarksNoted
  BY SizesAre DEF Typed, MemoryTyped
<1>2. \A k \in 1 .. Len(marks) : marks[k] \in 0 .. scratch
  BY <1>1
<1> DEFINE Special == {"identify", "subdevices", "items", "read_item"}
<1>3. ASSUME Taken # Exhausted
      PROVE  Taken \in scratch .. ScratchSize /\ Taken \in 0 .. ScratchSize /\ Taken \in Nat
  BY <1>1, <1>3, TakenFits
<1>4. CASE UNCHANGED <<scratch, marks>> /\ pc' \notin Special
  BY <1>1, <1>4 DEF MemoryTyped, MarksNoted
<1>5. CASE Taken # Exhausted /\ scratch' = Taken /\ marks' = marks /\ pc' \notin Special
  <2>1. marks \in Seq(0 .. Taken)
    BY <1>1, <1>3, <1>5, MarksBelow
  <2> QED
    BY <1>1, <1>3, <1>5, <2>1 DEF MemoryTyped, MarksNoted
<1>6. CASE Describe
  <2> DEFINE m == Allocs(scratch, << BundleSize, DescSize >>)
  <2>1. pc = "describe" /\ Taken # Exhausted /\ scratch' = Taken /\ pc' = "identify"
    BY <1>6 DEF Describe, Do, Go
  <2>2. m \in 0 .. Taken
    BY <2>1, TakenBetween
  <2>3. marks' = << m >>
    BY <1>6 DEF Describe
  <2> HIDE DEF m
  <2>4. marks' \in Seq(0 .. scratch') /\ Len(marks') = 1
    BY <2>1, <2>2, <2>3
  <2> QED
    BY <1>3, <2>1, <2>4 DEF MemoryTyped, MarksNoted
<1>7. CASE Identify \/ NoMoreSubdevices
  <2>1. /\ pc \in {"identify", "subdevices"} /\ scratch' = marks[1] /\ marks' = <<>>
        /\ pc' \in {"scan", "constants"}
    BY <1>7 DEF Identify, NoMoreSubdevices, Do, Go
  <2>2. Len(marks) = 1
    BY <1>1, <2>1 DEF MarksNoted
  <2>3. scratch' \in 0 .. ScratchSize
    BY <1>1, <1>2, <2>1, <2>2
  <2> QED
    BY <2>1, <2>3 DEF MemoryTyped, MarksNoted
<1>8. CASE StartItems
  <2>1. Taken # Exhausted /\ scratch' = Taken /\ marks' = << scratch >> /\ pc' = "subdevices"
    BY <1>8 DEF StartItems, Do, Go
  <2>2. scratch \in 0 .. Taken
    BY <1>1, <1>3, <2>1
  <2>3. marks' \in Seq(0 .. scratch') /\ Len(marks') = 1
    BY <2>1, <2>2
  <2> QED
    BY <1>3, <2>1, <2>3 DEF MemoryTyped, MarksNoted
<1>9. CASE EnterSubdevice \/ LeaveSubdevice \/ KnownItem
  <2>1. /\ pc \in {"subdevices", "items"} /\ UNCHANGED <<scratch, marks>>
        /\ pc' \in {"subdevices", "items"}
    BY <1>9 DEF EnterSubdevice, LeaveSubdevice, KnownItem, Do, Go
  <2> QED
    BY <1>1, <2>1 DEF MemoryTyped, MarksNoted
<1>10. CASE StatItem
  <2>1. /\ pc = "items" /\ Taken # Exhausted /\ scratch' = Taken
        /\ marks' = Append(marks, scratch) /\ pc' = "read_item"
    BY <1>10 DEF StatItem, Do, Go
  <2>2. Len(marks) = 1
    BY <1>1, <2>1 DEF MarksNoted
  <2>3. marks \in Seq(0 .. Taken) /\ scratch \in 0 .. Taken /\ marks[1] <= scratch
    BY <1>1, <1>2, <1>3, <2>1, <2>2, MarksBelow
  <2>4. marks' \in Seq(0 .. Taken) /\ Len(marks') = 2
    BY <2>1, <2>2, <2>3
  <2>5. marks'[1] = marks[1] /\ marks'[2] = scratch
    <3> DEFINE S == 0 .. Taken
    <3>1. marks \in Seq(S) /\ scratch \in S
      BY <2>3
    <3> HIDE DEF S
    <3>2. /\ \A i \in 1 .. Len(marks) : Append(marks, scratch)[i] = marks[i]
          /\ Append(marks, scratch)[Len(marks) + 1] = scratch
      BY <3>1, AppendIs
    <3> QED
      BY <2>1, <2>2, <3>2
  <2> QED
    BY <1>3, <2>1, <2>3, <2>4, <2>5 DEF MemoryTyped, MarksNoted
<1>11. CASE ReadItem
  <2>1. /\ pc = "read_item" /\ scratch' = marks[2] /\ marks' = << marks[1] >> /\ pc' = "items"
    BY <1>11 DEF ReadItem, Do, Go
  <2>2. Len(marks) = 2 /\ marks[1] <= marks[2]
    BY <1>1, <2>1 DEF MarksNoted
  <2>3. marks[1] \in Nat /\ marks[2] \in 0 .. ScratchSize /\ marks[1] \in 0 .. marks[2]
    BY <1>1, <1>2, <2>2
  <2>4. marks' \in Seq(0 .. scratch') /\ Len(marks') = 1
    BY <2>1, <2>3
  <2> QED
    BY <2>1, <2>3, <2>4 DEF MemoryTyped, MarksNoted
<1>12. CASE Start \/ StatConstants \/ ReadConstants \/ LoadDdf \/ LoadScript
  BY <1>5, <1>12 DEF Start, StatConstants, ReadConstants, LoadDdf, LoadScript, Do, Go
<1>13. CASE \/ ScratchExhausted \/ GiveUp \/ SkipScript \/ StampScript \/ ScriptWithoutPath
            \/ NoMoreScripts \/ AddConstants \/ StoreBundle \/ StoreFails
  BY <1>4, <1>13
  DEF ScratchExhausted, GiveUp, SkipScript, StampScript, ScriptWithoutPath, NoMoreScripts,
      AddConstants, StoreBundle, StoreFails, Unchanged, Go
<1> QED
  BY <1>6, <1>7, <1>8, <1>9, <1>10, <1>11, <1>12, <1>13 DEF Step

\* A step closes the file or stops; only opening one brings new values.
LEMMA OpenedKept == ASSUME Typed, [Next]_vars PROVE OpenedTyped'
<1>1. OpenedTyped
  BY DEF Typed
<1>2. CASE opened' = opened
  BY <1>1, <1>2 DEF OpenedTyped
<1>3. CASE opened' = Closed
  BY <1>3 DEF OpenedTyped, Closed
<1>4. CASE OpenFile
  <2> DEFINE of == fs[Loads[1]]
  <2>1. opened' = IF of.time > 0 /\ of.size < Loads[2]
                  THEN [open |-> TRUE, size |-> of.size, time |-> of.time]
                  ELSE [open |-> TRUE, size |-> 0, time |-> 0]
    BY <1>4 DEF OpenFile
  <2>2. of.size \in Nat /\ of.time \in Nat
    BY <1>4, LoadsFile, FileTyped DEF OpenFile
  <2> HIDE DEF of
  <2> QED
    BY <2>1, <2>2 DEF OpenedTyped
<1>5. Step => opened' = opened \/ opened' = Closed
  BY StepCloses
<1>6. Edit \/ UNCHANGED vars => opened' = opened
  BY DEF Edit, vars
<1> QED
  BY <1>2, <1>3, <1>4, <1>5, <1>6 DEF Next, Finished

LEMMA TypedKept == ASSUME Typed, [Next]_vars PROVE Typed'
<1>4. OpenedTyped'
  BY OpenedKept
<1>1. CASE Step
  <2>1. DiskTyped'
    BY <1>1, StepFrame DEF Typed, DiskTyped, disk, Tokenized
  <2>2. pc' \in Labels
    BY <1>1, LabelsKept DEF Typed
  <2> QED
    BY <1>1, <1>4, <2>1, <2>2, MemoryKept, StreamsKept, PlacesKept DEF Typed
<1>2. CASE Edit
  <2>1. /\ edits \in Nat /\ edits + 1 \in 0 .. MaxEdits /\ edits' = edits + 1
    BY <1>2, CreateAssumption DEF Typed, DiskTyped, Edit
  <2>2. fs' \in [Files -> [size : Nat, time : Nat]]
    <3>1. PICK file \in Files \ {NoFile} :
            \/ \E size \in Sizes : fs' = [fs EXCEPT ![file] = [size |-> size, time |-> edits + 2]]
            \/ fs' = [fs EXCEPT ![file] = [size |-> 0, time |-> 0]]
      BY <1>2 DEF Edit
    <3>2. fs \in [Files -> [size : Nat, time : Nat]]
      BY DEF Typed, DiskTyped
    <3>3. CASE fs' = [fs EXCEPT ![file] = [size |-> 0, time |-> 0]]
      BY <3>2, <3>3
    <3>4. ASSUME NEW size \in Sizes,
                 fs' = [fs EXCEPT ![file] = [size |-> size, time |-> edits + 2]]
          PROVE  fs' \in [Files -> [size : Nat, time : Nat]]
      <4>1. size \in Nat /\ edits + 2 \in Nat
        BY <2>1, CreateAssumption
      <4> QED
        BY <3>2, <3>4, <4>1
    <3> QED
      BY <3>1, <3>3, <3>4
  <2>3. /\ UNCHANGED <<input, tokens, pc, scratch, marks, ss, bs, loaded, place>>
    BY <1>2 DEF Edit
  <2>4. DiskTyped'
    BY <2>1, <2>2, <2>3 DEF Typed, DiskTyped, Tokenized
  <2> QED
    BY <1>4, <2>3, <2>4
    DEF Typed, MemoryTyped, MarksNoted, StreamsTyped, PlacesTyped, loaded, place, Doc
<1>3. CASE Still
  BY <1>3, <1>4 DEF Still, disk, loaded, place, Typed, DiskTyped, Tokenized, MemoryTyped,
              MarksNoted, StreamsTyped, PlacesTyped, Doc
<1> QED
  BY <1>1, <1>2, <1>3, NextIs

LEMMA AlwaysTyped == Spec => []Typed
<1> QED
  BY AtFirst, TypedKept, PTL DEF Spec

\* Neither the arena nor the bundle is ever passed, no text passes its buffer, and
\* every position that is restored was noted before, below the top.
THEOREM CreateTypes == Spec => []TypeOK
<1> QED
  BY AlwaysTyped, TypesFollow, PTL

-----------------------------------------------------------------------------
(* Every step leads on.                                                    *)

\* Where the DDF has been accepted.
Behind == {"identify", "scan", "stamp_script", "start_items", "subdevices", "items", "read_item",
           "constants", "store", "stored", "not_written"}

\* The DDF has been accepted, and the loop over items stands before its end.
Reading ==
  /\ pc \in Behind => Parses(Doc)
  /\ pc \in {"items", "read_item"} => at <= Len(Doc)

\* Behind a bracket or a separator there is a closing bracket.
LEMMA ClosedBehind ==
  ASSUME Typed, Parses(Doc), NEW i \in 1 .. Len(Doc), Doc[i] \in Begins \/ SeparatorAt(Doc, i)
  PROVE  i < Len(Doc) /\ ~SeparatorAt(Doc, Len(Doc))
<1>1. /\ input \in Inputs /\ Len(Doc) \in Nat /\ DOMAIN Doc = 1 .. Len(Doc)
  BY DocTokens DEF Typed, DiskTyped
<1>2. Doc[i] \in Begins \cup {":"}
  BY DEF SeparatorAt
<1>3. Doc[Len(Doc)] \in Ends
  <2>1. /\ Parses(input.ddf) /\ (\E k \in DOMAIN input.ddf : input.ddf[k] \in Begins \cup {":"}) =>
             input.ddf[Len(input.ddf)] \in Ends
    BY <1>1, InputAssumption
  <2> QED
    BY <1>1, <1>2, <2>1 DEF Doc
<1>4. Doc[Len(Doc)] \notin Begins /\ ~SeparatorAt(Doc, Len(Doc))
  BY <1>3 DEF Begins, Ends, SeparatorAt
<1>5. i # Len(Doc)
  BY <1>4
<1>6. \A n \in Nat : i \in 1 .. n /\ i # n => i < n
  OBVIOUS
<1>7. i < Len(Doc)
  BY <1>1, <1>5, <1>6
<1> QED
  BY <1>4, <1>7

\* What a lookup finds is a token of the DDF.
LEMMA LookupInside ==
  ASSUME Typed, Parses(Doc), NEW obj \in Nat, NEW key,
         NEW ref, ref = cj_value_ref(T, obj, key), ref # Invalid
  PROVE  ref \in obj + 2 .. Len(Doc)
<1>1. Len(T) = Len(Doc) /\ Len(Doc) \in Nat /\ \A i \in 1 .. Len(Doc) : T[i].sym = Doc[i]
  BY DocTokens DEF Typed, DiskTyped
<1>2. ref \in obj + 2 .. Len(Doc) + 1 /\ SeparatorToken(T[ref - 1])
  BY <1>1, LookupIs
<1>3. ref - 1 \in 1 .. Len(Doc)
  BY <1>1, <1>2
<1>4. SeparatorAt(Doc, ref - 1)
  <2>1. Type(Doc[ref - 1]) = ":"
    BY <1>1, <1>2, <1>3 DEF SeparatorToken
  <2> QED
    BY <2>1 DEF Type, SeparatorAt
<1>5. ref - 1 < Len(Doc)
  BY <1>3, <1>4, ClosedBehind
<1> QED
  BY <1>1, <1>2, <1>5

LEMMA Stages ==
  /\ Stage("start") = 1 /\ Stage("stat_constants") = 2 /\ Stage("read_constants") = 3
  /\ Stage("load_ddf") = 4 /\ Stage("describe") = 5 /\ Stage("identify") = 6
  /\ Stage("scan") = 7 /\ Stage("stamp_script") = 7 /\ Stage("start_items") = 8
  /\ Stage("subdevices") = 9 /\ Stage("items") = 9 /\ Stage("read_item") = 9
  /\ Stage("constants") = 10 /\ Stage("store") = 11 /\ Stage("stored") = 12
  /\ Stage("not_written") = 12 /\ Stage("failed") = 12 /\ Stage("trap") = 12
BY DEF Stage

LEMMA ReadingKept == ASSUME Typed, Reading, [Next]_vars PROVE Reading'
<1>1. /\ Len(Doc) \in Nat /\ at \in Nat \ {0} /\ Doc' = Doc
  <2>1. input' = input
    BY StepFrame, NextIs DEF Edit, Still, disk
  <2>2. Len(Doc) \in Nat /\ at \in Nat \ {0}
    BY DocTokens DEF Typed, DiskTyped, PlacesTyped
  <2> QED
    BY <2>1, <2>2 DEF Doc
<1>2. Parses(Doc)' <=> Parses(Doc)
  BY <1>1 DEF Parses
<1>3. ASSUME UNCHANGED <<pc, at>> PROVE Reading'
  BY <1>1, <1>2, <1>3 DEF Reading
<1>4. CASE Step
  <2>1. pc' \in Behind => Parses(Doc)
    <3>1. CASE Describe
      <4>1. Parses(input.ddf)
        BY <3>1 DEF Describe, Do, Succeeds
      <4> QED
        BY <4>1 DEF Doc
    <3>2. CASE Start \/ StatConstants \/ ReadConstants \/ LoadDdf \/ ScratchExhausted \/ GiveUp
      BY <3>2 DEF Start, StatConstants, ReadConstants, LoadDdf, ScratchExhausted, GiveUp, Go, Behind
    <3>3. CASE \/ Identify \/ LoadScript \/ SkipScript \/ StampScript \/ ScriptWithoutPath
               \/ NoMoreScripts \/ StartItems \/ EnterSubdevice \/ LeaveSubdevice \/ KnownItem
               \/ StatItem \/ ReadItem \/ NoMoreSubdevices \/ AddConstants \/ StoreBundle
               \/ StoreFails
      <4>1. pc \in Behind
        BY <3>3 DEF Identify, LoadScript, SkipScript, StampScript, ScriptWithoutPath,
               NoMoreScripts, StartItems, EnterSubdevice, LeaveSubdevice, KnownItem, StatItem,
               ReadItem, NoMoreSubdevices, AddConstants, StoreBundle, StoreFails, Do, Behind
      <4> QED
        BY <4>1 DEF Reading
    <3> QED
      BY <1>4, <3>1, <3>2, <3>3 DEF Step
  <2>2. pc' \in {"items", "read_item"} => at' <= Len(Doc)
    <3>1. CASE EnterSubdevice
      <4> DEFINE ref == cj_value_ref(T, NextSubdevice, "items")
      <4>1. pc = "subdevices" /\ NextSubdevice # 0 /\ at' = ref /\ ref # Invalid
        BY <3>1 DEF EnterSubdevice, Do, Succeeds
      <4>2. Parses(Doc)
        BY <4>1 DEF Reading, Behind
      <4>3. NextSubdevice \in Nat
        BY <1>1, <4>1, SubdeviceIs
      <4>4. ref \in NextSubdevice + 2 .. Len(Doc)
        BY <4>1, <4>2, <4>3, LookupInside
      <4> HIDE DEF ref
      <4> QED
        BY <1>1, <4>1, <4>3, <4>4
    <3>2. CASE KnownItem \/ StatItem
      <4>1. pc = "items" /\ ~EndsItems /\ at' = NextItem + 1
        BY <3>2 DEF KnownItem, StatItem, Do
      <4>2. Parses(Doc)
        BY <4>1 DEF Reading, Behind
      <4>3. NextItem \in at .. Len(Doc) /\ ObjectAt(Doc, NextItem)
        BY <4>1, ItemIs
      <4>4. NextItem \in 1 .. Len(Doc) /\ Doc[NextItem] \in Begins
        <5>1. NextItem \in 1 .. Len(Doc)
          BY <1>1, <4>3
        <5> QED
          BY <4>3, <5>1 DEF ObjectAt, Begins
      <4>5. NextItem < Len(Doc)
        BY <4>2, <4>4, ClosedBehind
      <4> QED
        BY <1>1, <4>1, <4>4, <4>5
    <3>3. CASE ReadItem
      <4>1. pc = "read_item" /\ at' = at
        BY <3>3 DEF ReadItem, Do, place
      <4> QED
        BY <4>1 DEF Reading
    <3>4. CASE \/ ScratchExhausted \/ GiveUp \/ Start \/ StatConstants \/ ReadConstants
               \/ LoadDdf \/ Describe \/ Identify \/ LoadScript \/ SkipScript \/ StampScript
               \/ ScriptWithoutPath \/ NoMoreScripts \/ StartItems \/ LeaveSubdevice
               \/ NoMoreSubdevices \/ AddConstants \/ StoreBundle \/ StoreFails
      BY <3>4 DEF ScratchExhausted, GiveUp, Start, StatConstants, ReadConstants, LoadDdf, Describe,
            Identify, LoadScript, SkipScript, StampScript, ScriptWithoutPath, NoMoreScripts,
            StartItems, LeaveSubdevice, NoMoreSubdevices, AddConstants, StoreBundle, StoreFails, Go
    <3> QED
      BY <1>4, <3>1, <3>2, <3>3, <3>4 DEF Step
  <2> QED
    BY <1>1, <1>2, <2>1, <2>2 DEF Reading
<1>5. CASE Edit
  BY <1>3, <1>5 DEF Edit, place
<1>6. CASE Still
  BY <1>3, <1>6 DEF Still, place
<1> QED
  BY <1>4, <1>5, <1>6, NextIs

LEMMA AlwaysReading == Spec => []Reading
<1>1. Init => Reading
  BY DEF Init, Reading, Behind
<1> QED
  BY <1>1, AlwaysTyped, ReadingKept, PTL DEF Spec

\* At an end there is nothing to allocate and nothing to fail.
LEMMA EndsRest ==
  ASSUME Typed, pc \in {"stored", "failed", "trap", "not_written"}
  PROVE  Taken # Exhausted /\ Succeeds /\ ~Loading
<1>1. Demand = <<>> /\ ~Loading
  BY DEF Demand, Loading, Loads
<1>2. Taken = scratch
  <2>1. Len(<<>>) = 0
    OBVIOUS
  <2>2. Allocs(scratch, <<>>) = scratch
    BY <2>1, AllocsSteps DEF Stepped
  <2> QED
    BY <1>1, <2>2 DEF Taken
<1>3. Taken # Exhausted
  <2>1. scratch \in 0 .. ScratchSize /\ ScratchSize \in Nat
    BY SizesAre DEF Typed, MemoryTyped
  <2> QED
    BY <1>2, <2>1, NoPosition
<1>4. Succeeds
  BY DEF Succeeds
<1> QED
  BY <1>1, <1>3, <1>4

Later ==
  \/ edits' = edits + 1
  \/ Stage(pc') > Stage(pc)
  \/ Stage(pc') = Stage(pc) /\ at' > at
  \/ Stage(pc') = Stage(pc) /\ at' = at /\ pc \in {"stamp_script", "read_item"}
  \/ pc' = pc /\ at' = at /\ ~opened.open /\ opened'.open

LEMMA StepsLater == ASSUME Typed, Reading, Step PROVE Later
<1>1. Len(Doc) \in Nat /\ at \in Nat \ {0} /\ Len(T) = Len(Doc)
  BY DocTokens DEF Typed, DiskTyped, PlacesTyped
<1>2. CASE ScratchExhausted \/ GiveUp
  <2>1. pc' \in {"trap", "failed"} /\ ~(Taken # Exhausted /\ Succeeds /\ ~Loading)
    BY <1>2 DEF ScratchExhausted, GiveUp, Shortened
  <2>2. pc \in Labels \ {"stored", "failed", "trap", "not_written"}
    BY <2>1, EndsRest DEF Typed
  <2>3. Stage(pc) < 12 /\ Stage(pc') = 12
    BY <2>1, <2>2, Stages DEF Labels
  <2> QED
    BY <2>3, Stages DEF Later
<1>3. CASE Start \/ StatConstants \/ ReadConstants \/ LoadDdf \/ Describe \/ Identify
  <2>1. \/ pc = "start" /\ pc' = "stat_constants"
        \/ pc = "stat_constants" /\ pc' = "read_constants"
        \/ pc = "read_constants" /\ pc' = "load_ddf"
        \/ pc = "load_ddf" /\ pc' = "describe"
        \/ pc = "describe" /\ pc' = "identify"
        \/ pc = "identify" /\ pc' = "scan"
    BY <1>3 DEF Start, StatConstants, ReadConstants, LoadDdf, Describe, Identify, Do, Go
  <2>2. Stage(pc') > Stage(pc)
    BY <2>1, Stages
  <2> QED
    BY <2>2 DEF Later
<1>8. CASE \/ ScriptWithoutPath \/ NoMoreScripts \/ StartItems \/ NoMoreSubdevices
           \/ AddConstants \/ StoreBundle \/ StoreFails
  <2>1. \/ pc = "scan" /\ pc' \in {"start_items", "trap"}
        \/ pc = "start_items" /\ pc' = "subdevices"
        \/ pc = "subdevices" /\ pc' = "constants"
        \/ pc = "constants" /\ pc' = "store"
        \/ pc = "store" /\ pc' \in {"stored", "not_written"}
    BY <1>8 DEF ScriptWithoutPath, NoMoreScripts, StartItems, NoMoreSubdevices, AddConstants,
          StoreBundle, StoreFails, Do, Go
  <2>2. Stage(pc') > Stage(pc)
    BY <2>1, Stages
  <2> QED
    BY <2>2 DEF Later
<1>4. CASE LoadScript \/ SkipScript
  <2>1. /\ pc = "scan" /\ pc' \in {"scan", "stamp_script"} /\ at' = ScriptPath + 1
        /\ ScriptPath # 0
    BY <1>4 DEF LoadScript, SkipScript, PathFits, Do, Go
  <2>2. ScriptPath \in at + 1 .. Len(Doc)
    BY <2>1, PathIs
  <2>3. Stage(pc') = Stage(pc) /\ at' > at
    BY <1>1, <2>1, <2>2, Stages
  <2> QED
    BY <2>3 DEF Later
<1>5. CASE StampScript \/ ReadItem
  <2>1. /\ \/ pc = "stamp_script" /\ pc' = "scan"
           \/ pc = "read_item" /\ pc' = "items"
        /\ at' = at
    BY <1>5 DEF StampScript, ReadItem, Do, Go, place
  <2>2. Stage(pc') = Stage(pc)
    BY <2>1, Stages
  <2> QED
    BY <2>1, <2>2 DEF Later
<1>6. CASE EnterSubdevice
  <2> DEFINE ref == cj_value_ref(T, NextSubdevice, "items")
  <2>1. /\ pc = "subdevices" /\ pc' = "items" /\ NextSubdevice # 0 /\ at' = ref
        /\ ref # Invalid
    BY <1>6 DEF EnterSubdevice, Do, Succeeds, Go
  <2>2. NextSubdevice \in at .. Len(Doc)
    BY <2>1, SubdeviceIs
  <2>3. ref \in NextSubdevice + 2 .. Len(T) + 1
    BY <1>1, <2>1, <2>2, LookupIs
  <2> HIDE DEF ref
  <2>4. Stage(pc') = Stage(pc) /\ at' > at
    BY <1>1, <2>1, <2>2, <2>3, Stages
  <2> QED
    BY <2>4 DEF Later
<1>7. CASE LeaveSubdevice \/ KnownItem \/ StatItem
  <2>1. /\ pc = "items" /\ pc' \in {"items", "subdevices", "read_item"}
        /\ \/ NextItem = 0 /\ at' = Len(T) + 1
           \/ NextItem # 0 /\ at' = NextItem + 1
    BY <1>7 DEF LeaveSubdevice, KnownItem, StatItem, Do, Go, EndsItems
  <2>2. NextItem # 0 => NextItem \in at .. Len(Doc)
    BY ItemIs
  <2>3. at <= Len(Doc)
    BY <2>1 DEF Reading
  <2>4. Stage(pc') = Stage(pc) /\ at' > at
    BY <1>1, <2>1, <2>2, <2>3, Stages
  <2> QED
    BY <2>4 DEF Later
<1> QED
  BY <1>2, <1>3, <1>4, <1>5, <1>6, <1>7, <1>8 DEF Step

\* No step of a run, whatever the DDF refers to and however the files change, leads
\* back: create cannot go round in its loops.
THEOREM CreateAdvances == Spec => Advances
<1>1. ASSUME Typed, Reading, [Next]_vars PROVE [Later]_vars
  <2>1. Edit => Later
    BY DEF Edit, Later
  <2>2. OpenFile => Later
    BY DEF OpenFile, Later, place
  <2> QED
    BY <1>1, <2>1, <2>2, StepsLater DEF Next, Finished
<1>2. [Later]_vars <=> [\/ edits' = edits + 1
                        \/ Stage(pc') > Stage(pc)
                        \/ Stage(pc') = Stage(pc) /\ at' > at
                        \/ /\ Stage(pc') = Stage(pc) /\ at' = at
                           /\ pc \in {"stamp_script", "read_item"}
                        \/ pc' = pc /\ at' = at /\ ~opened.open /\ opened'.open]_vars
  BY DEF Later
<1> QED
  BY <1>1, <1>2, AlwaysTyped, AlwaysReading, PTL DEF Spec, Advances

-----------------------------------------------------------------------------
(* The fields of the bundle.                                               *)

IsRow(f) == \E S : f \in Seq(S)

LEMMA RowAppends ==
  ASSUME NEW f, IsRow(f), NEW e
  PROVE  /\ IsRow(Append(f, e)) /\ Len(f) \in Nat /\ Len(Append(f, e)) = Len(f) + 1
         /\ \A i \in 1 .. Len(f) : Append(f, e)[i] = f[i]
         /\ Append(f, e)[Len(f) + 1] = e
<1>1. PICK S : f \in Seq(S)
  BY DEF IsRow
<1>2. f \in Seq(S \cup {e}) /\ e \in S \cup {e}
  BY <1>1
<1>3. Append(f, e) \in Seq(S \cup {e})
  BY <1>2
<1> QED
  BY <1>1, <1>3, AppendIs DEF IsRow

IsField(f) == f = [is |-> f.is, len |-> f.len, val |-> f.val, at |-> f.at]

Placed(f, pos) == [f EXCEPT !.at = pos]

LEMMA FieldIs ==
  ASSUME NEW is, NEW len, NEW val
  PROVE  /\ IsField(Field(is, len, val)) /\ Field(is, len, val).is = is
         /\ Field(is, len, val).len = len /\ Field(is, len, val).val = val
  BY DEF IsField, Field

LEMMA PlacedIs ==
  ASSUME NEW f, IsField(f), NEW pos
  PROVE  /\ IsField(Placed(f, pos)) /\ Placed(f, pos).is = f.is /\ Placed(f, pos).len = f.len
         /\ Placed(f, pos).val = f.val /\ Placed(f, pos).at = pos
<1>1. Placed(f, pos) = [is |-> f.is, len |-> f.len, val |-> f.val, at |-> pos]
  BY DEF IsField, Placed
<1> QED
  BY <1>1 DEF IsField

\* When all puts have fitted, the new fields stand one behind the other.
Follows(s, fields, r, p) ==
  /\ Len(r.fields) = Len(s.fields) + Len(fields)
  /\ \A i \in 1 .. Len(s.fields) : r.fields[i] = s.fields[i]
  /\ p[0] = s.pos /\ p[Len(fields)] = r.pos
  /\ \A j \in 1 .. Len(fields) :
       /\ p[j - 1] \in Nat /\ p[j] = p[j - 1] + fields[j].len
       /\ r.fields[Len(s.fields) + j] = Placed(fields[j], p[j - 1])

LEMMA PutAllPuts ==
  ASSUME NEW s, IsStream(s), IsRow(s.fields), NEW fields, NEW size \in Nat, Len(fields) \in Nat,
         \A n \in 1 .. Len(fields) : fields[n].len \in Nat,
         NEW r, r = PutAll(s, fields, size), r.ok
  PROVE  s.ok /\ IsRow(r.fields) /\ \E p : Follows(s, fields, r, p)
<1>1. PICK after : /\ after[0] = s
                   /\ \A n \in 1 .. Len(fields) : after[n] = Put(after[n - 1], fields[n], size)
                   /\ PutAll(s, fields, size) = after[Len(fields)]
  BY PutAllSteps
<1> DEFINE L == Len(s.fields)
           All(n) == /\ s.ok /\ IsRow(after[n].fields) /\ Len(after[n].fields) = L + n
                     /\ \A i \in 1 .. L : after[n].fields[i] = s.fields[i]
                     /\ \A j \in 1 .. n :
                          /\ after[j - 1].pos \in Nat
                          /\ after[j].pos = after[j - 1].pos + fields[j].len
                          /\ after[n].fields[L + j] = [fields[j] EXCEPT !.at = after[j - 1].pos]
           Good(n) == IsStream(after[n]) /\ (after[n].ok => All(n))
           M == {n \in 0 .. Len(fields) : ~Good(n)}
<1>2. L \in Nat
  BY RowAppends
<1>3. Good(0)
  BY <1>1, <1>2
<1>4. ASSUME NEW m \in 1 .. Len(fields), Good(m - 1) PROVE Good(m)
  <2> DEFINE t == after[m - 1]
             u == after[m]
  <2>1. u = Put(t, fields[m], size) /\ fields[m].len \in Nat /\ IsStream(t)
    BY <1>1, <1>4
  <2>2. IsStream(u)
    <3> HIDE DEF t, u
    <3> QED
      BY <2>1, PutIs
  <2>3. SUFFICES ASSUME u.ok PROVE All(m)
    BY <2>2
  <2>4. t.ok /\ t.pos + fields[m].len <= size
    <3> DEFINE f == fields[m]
    <3>1. f.len \in Nat /\ IsStream(t) /\ u = Put(t, f, size)
      BY <2>1
    <3> HIDE DEF t, u, f
    <3>2. t.ok /\ t.pos + f.len <= size
      BY <2>3, <3>1, PutFitted
    <3> QED
      BY <3>2 DEF f
  <2>5. /\ u.pos = t.pos + fields[m].len
        /\ u.fields = Append(t.fields, [fields[m] EXCEPT !.at = t.pos])
    <3> HIDE DEF t, u
    <3> QED
      BY <2>1, <2>4, PutIs
  <2>6. All(m - 1)
    BY <1>4, <2>4
  <2>7. m - 1 \in Nat /\ m \in Nat /\ t.pos \in Nat
    BY <2>1 DEF IsStream
  <2>8. IsRow(t.fields) /\ Len(t.fields) = L + (m - 1)
    BY <2>6
  <2>9. /\ IsRow(u.fields) /\ Len(u.fields) = L + m
        /\ \A i \in 1 .. L + (m - 1) : u.fields[i] = t.fields[i]
        /\ u.fields[L + m] = [fields[m] EXCEPT !.at = t.pos]
    <3> DEFINE e == [fields[m] EXCEPT !.at = t.pos]
               f == t.fields
               g == u.fields
    <3>1. IsRow(f) /\ g = Append(f, e) /\ Len(f) = L + (m - 1)
      BY <2>5, <2>8
    <3> HIDE DEF e, f, g, t, u, L
    <3>2. /\ IsRow(g) /\ Len(g) = Len(f) + 1 /\ \A i \in 1 .. Len(f) : g[i] = f[i]
          /\ g[Len(f) + 1] = e
      BY <3>1, RowAppends
    <3>3. Len(f) + 1 = L + m
      BY <1>2, <2>7, <3>1
    <3>4. /\ IsRow(g) /\ Len(g) = L + m /\ \A i \in 1 .. L + (m - 1) : g[i] = f[i]
          /\ g[L + m] = e
      BY <3>1, <3>2, <3>3
    <3> QED
      BY <3>4 DEF e, f, g
  <2>10. \A i \in 1 .. L : u.fields[i] = s.fields[i]
    <3>1. \A i \in 1 .. L : i \in 1 .. L + (m - 1) /\ t.fields[i] = s.fields[i]
      BY <1>2, <2>6, <2>7
    <3> HIDE DEF t, u, L
    <3> QED
      BY <2>9, <3>1
  <2>11. ASSUME NEW j \in 1 .. m
         PROVE  /\ after[j - 1].pos \in Nat
                /\ after[j].pos = after[j - 1].pos + fields[j].len
                /\ after[m].fields[L + j] = [fields[j] EXCEPT !.at = after[j - 1].pos]
    <3>1. CASE j = m
      BY <2>5, <2>7, <2>9, <3>1
    <3>2. CASE j # m
      <4>1. j \in 1 .. m - 1 /\ L + j \in 1 .. L + (m - 1)
        BY <1>2, <2>7, <3>2
      <4>2. /\ after[j - 1].pos \in Nat
            /\ after[j].pos = after[j - 1].pos + fields[j].len
            /\ t.fields[L + j] = [fields[j] EXCEPT !.at = after[j - 1].pos]
        BY <2>6, <4>1
      <4>3. u.fields[L + j] = t.fields[L + j]
        <5> HIDE DEF t, u, L
        <5> QED
          BY <2>9, <4>1
      <4> QED
        BY <4>2, <4>3
    <3> QED
      BY <3>1, <3>2
  <2>12. s.ok
    BY <2>6
  <2> QED
    BY <2>9, <2>10, <2>11, <2>12
<1> HIDE DEF Good
<1>5. M = {}
  <2>1. SUFFICES ASSUME M # {} PROVE FALSE
    OBVIOUS
  <2>2. PICK m \in M : \A n \in M : m <= n
    <3>1. M \in SUBSET Nat
      OBVIOUS
    <3> HIDE DEF M
    <3> QED
      BY <2>1, <3>1, SmallestNumber
  <2>3. m # 0
    BY <1>3, <2>2
  <2>4. m \in 1 .. Len(fields) /\ m - 1 \in 0 .. Len(fields) /\ ~(m <= m - 1)
    BY <2>2, <2>3
  <2>5. Good(m - 1)
    BY <2>2, <2>4
  <2> QED
    BY <1>4, <2>2, <2>4, <2>5
<1>6. Good(Len(fields))
  BY <1>5
<1>7. All(Len(fields)) /\ r = after[Len(fields)]
  BY <1>1, <1>6 DEF Good
<1> DEFINE p == [n \in 0 .. Len(fields) |-> after[n].pos]
<1>8. Follows(s, fields, r, p)
  <2>1. \A n \in 0 .. Len(fields) : p[n] = after[n].pos
    OBVIOUS
  <2>2. \A j \in 1 .. Len(fields) : j \in 0 .. Len(fields) /\ j - 1 \in 0 .. Len(fields)
    OBVIOUS
  <2>3. 0 \in 0 .. Len(fields) /\ Len(fields) \in 0 .. Len(fields)
    OBVIOUS
  <2> HIDE DEF p
  <2>4. p[0] = s.pos /\ p[Len(fields)] = r.pos
    BY <1>1, <1>7, <2>1, <2>3
  <2>5. /\ Len(r.fields) = L + Len(fields)
        /\ \A i \in 1 .. L : r.fields[i] = s.fields[i]
    BY <1>7
  <2>6. \A j \in 1 .. Len(fields) :
          /\ after[j - 1].pos \in Nat
          /\ after[j].pos = after[j - 1].pos + fields[j].len
          /\ r.fields[L + j] = [fields[j] EXCEPT !.at = after[j - 1].pos]
    BY <1>7
  <2>7. \A j \in 1 .. Len(fields) : p[j] = after[j].pos /\ p[j - 1] = after[j - 1].pos
    BY <2>1, <2>2
  <2> QED
    BY <2>4, <2>5, <2>6, <2>7 DEF Follows, Placed
<1> QED
  BY <1>7, <1>8

\* The fields stand one behind the other, up to position end; the first four are
\* those before DESC.
Chain(f, end) ==
  /\ f[1].at = 0
  /\ \A j \in 1 .. Len(f) :
       /\ IsField(f[j]) /\ f[j].at \in Nat /\ f[j].len \in Nat
       /\ f[j].at + f[j].len = IF j = Len(f) THEN end ELSE f[j + 1].at
       /\ f[j].at + f[j].len <= end /\ (j > 4 => f[j].at >= 16)

LEMMA ChainFollows ==
  ASSUME NEW s, IsStream(s), IsRow(s.fields), Len(s.fields) >= 4, Chain(s.fields, s.pos),
         s.pos >= 16, NEW fields, Len(fields) \in Nat \ {0},
         \A j \in 1 .. Len(fields) : IsField(fields[j]) /\ fields[j].len \in Nat,
         NEW r, NEW p, Follows(s, fields, r, p),
         \A j \in 0 .. Len(fields) : p[j] <= r.pos /\ p[j] >= s.pos
  PROVE  Chain(r.fields, r.pos)
<1> DEFINE L == Len(s.fields)
           n == Len(fields)
           f == s.fields
           g == r.fields
<1>1. /\ L \in Nat /\ L >= 4 /\ n \in Nat /\ n >= 1 /\ s.pos \in Nat
  BY RowAppends DEF IsStream
<1>2. /\ Len(g) = L + n /\ \A i \in 1 .. L : g[i] = f[i]
      /\ p[0] = s.pos /\ p[n] = r.pos
      /\ \A j \in 1 .. n : p[j - 1] \in Nat /\ p[j] = p[j - 1] + fields[j].len
  BY DEF Follows
<1>3. ASSUME NEW j \in 1 .. n
      PROVE  IsField(g[L + j]) /\ g[L + j].at = p[j - 1] /\ g[L + j].len = fields[j].len
  <2>1. g[L + j] = Placed(fields[j], p[j - 1])
    BY DEF Follows
  <2> QED
    BY <2>1, PlacedIs
<1>4. /\ f[1].at = 0
      /\ \A j \in 1 .. L :
           /\ IsField(f[j]) /\ f[j].at \in Nat /\ f[j].len \in Nat
           /\ f[j].at + f[j].len = IF j = L THEN s.pos ELSE f[j + 1].at
           /\ f[j].at + f[j].len <= s.pos /\ (j > 4 => f[j].at >= 16)
  BY DEF Chain
<1>5. s.pos <= r.pos /\ p[n] \in Nat /\ \A j \in 1 .. n : p[j - 1] <= r.pos /\ p[j - 1] >= s.pos
  <2>1. 0 \in 0 .. n /\ n \in 1 .. n /\ \A j \in 1 .. n : j - 1 \in 0 .. n
    BY <1>1
  <2>2. p[n] = p[n - 1] + fields[n].len /\ p[n - 1] \in Nat /\ fields[n].len \in Nat
    BY <1>2, <2>1
  <2> QED
    BY <1>2, <2>1, <2>2
<1> HIDE DEF L, n, f, g
<1>6. g[1].at = 0
  BY <1>1, <1>2, <1>4
<1>7. ASSUME NEW i \in 1 .. L + n
      PROVE  /\ IsField(g[i]) /\ g[i].at \in Nat /\ g[i].len \in Nat
             /\ g[i].at + g[i].len = IF i = L + n THEN r.pos ELSE g[i + 1].at
             /\ g[i].at + g[i].len <= r.pos /\ (i > 4 => g[i].at >= 16)
  <2>1. CASE i \in 1 .. L
    <3>1. g[i] = f[i]
      BY <1>2, <2>1
    <3>2. /\ IsField(f[i]) /\ f[i].at \in Nat /\ f[i].len \in Nat
          /\ f[i].at + f[i].len = IF i = L THEN s.pos ELSE f[i + 1].at
          /\ f[i].at + f[i].len <= s.pos /\ (i > 4 => f[i].at >= 16)
      BY <1>4, <2>1
    <3>3. i # L + n
      BY <1>1, <2>1
    <3>4. CASE i = L
      <4>1. 1 \in 1 .. n /\ 1 - 1 = 0
        BY <1>1
      <4>2. g[L + 1].at = p[0]
        BY <1>3, <4>1
      <4> QED
        BY <1>1, <1>2, <1>5, <3>1, <3>2, <3>3, <3>4, <4>2
    <3>5. CASE i # L
      <4>1. i + 1 \in 1 .. L
        BY <1>1, <2>1, <3>5
      <4>2. g[i + 1] = f[i + 1]
        BY <1>2, <4>1
      <4>3. g[i].at + g[i].len = g[i + 1].at
        BY <3>1, <3>2, <3>5, <4>2
      <4>4. g[i].at \in Nat /\ g[i].len \in Nat /\ g[i].at + g[i].len <= s.pos /\ r.pos \in Nat
        BY <1>2, <1>5, <3>1, <3>2
      <4>5. g[i].at + g[i].len <= r.pos
        <5>1. s.pos <= r.pos /\ s.pos \in Nat
          BY <1>1, <1>5
        <5> QED
          BY <4>4, <5>1
      <4> QED
        BY <3>1, <3>2, <3>3, <4>3, <4>5
    <3> QED
      BY <3>4, <3>5
  <2>2. CASE i \notin 1 .. L
    <3>1. PICK j \in 1 .. n : i = L + j
      <4>1. i - L \in 1 .. n /\ i = L + (i - L)
        BY <1>1, <2>2
      <4> QED
        BY <4>1
    <3>2. /\ IsField(g[i]) /\ g[i].at = p[j - 1] /\ g[i].len = fields[j].len
      BY <1>3, <3>1
    <3>3. /\ p[j - 1] \in Nat /\ p[j] = p[j - 1] + fields[j].len /\ fields[j].len \in Nat
          /\ p[j] <= r.pos /\ p[j - 1] >= s.pos
      <4>1. j \in 0 .. n
        BY <1>1, <3>1
      <4> QED
        BY <1>2, <1>5, <4>1 DEF n
    <3>4. CASE j = n
      BY <1>1, <1>2, <3>1, <3>2, <3>3, <3>4
    <3>5. CASE j # n
      <4>1. j + 1 \in 1 .. n /\ (j + 1) - 1 = j /\ L + (j + 1) = i + 1 /\ i # L + n
        BY <1>1, <3>1, <3>5
      <4>2. g[i + 1].at = p[j]
        BY <1>3, <4>1
      <4> QED
        BY <1>1, <3>2, <3>3, <4>1, <4>2
    <3> QED
      BY <3>4, <3>5
  <2> QED
    BY <2>1, <2>2
<1> QED
  BY <1>2, <1>6, <1>7 DEF Chain, g

\* Going back to a size field changes its value and nothing else.
LEMMA PatchIs ==
  ASSUME NEW s, IsStream(s), IsRow(s.fields), NEW pos, s.ok,
         \A i \in 1 .. Len(s.fields) : IsField(s.fields[i]),
         NEW r, r = Patch(s, pos)
  PROVE  /\ IsStream(r) /\ IsRow(r.fields) /\ r.pos = s.pos /\ r.ok
         /\ Len(r.fields) = Len(s.fields)
         /\ \A i \in 1 .. Len(s.fields) :
              LET f == s.fields[i]
                  g == r.fields[i]
              IN  /\ IsField(g) /\ g.is = f.is /\ g.len = f.len /\ g.at = f.at
                  /\ f.is = "size" /\ f.at = pos => g.val = s.pos - (pos + 4)
                  /\ ~(f.is = "size" /\ f.at = pos) => g = f
<1> DEFINE F == s.fields
           new(i) == IF F[i].is = "size" /\ F[i].at = pos
                     THEN [F[i] EXCEPT !.val = s.pos - (pos + 4)] ELSE F[i]
           G == [i \in DOMAIN F |-> new(i)]
<1>1. DOMAIN F = 1 .. Len(F) /\ Len(F) \in Nat
  BY DEF IsRow
<1>2. r = [pos |-> s.pos, ok |-> s.ok, fields |-> G]
  <2>1. r = [s EXCEPT !.fields = G]
    BY DEF Patch
  <2> HIDE DEF G
  <2> QED
    BY <2>1 DEF IsStream
<1>3. IsRow(G) /\ Len(G) = Len(F) /\ \A i \in 1 .. Len(F) : G[i] = new(i)
  <2> DEFINE S == {new(i) : i \in 1 .. Len(F)}
  <2> HIDE DEF new
  <2>1. G = [i \in 1 .. Len(F) |-> new(i)] /\ \A i \in 1 .. Len(F) : new(i) \in S
    BY <1>1
  <2> HIDE DEF G, S, F
  <2>2. G \in Seq(S) /\ Len(G) = Len(F) /\ \A i \in 1 .. Len(F) : G[i] = new(i)
    BY <1>1, <2>1
  <2> QED
    BY <2>2 DEF IsRow
<1>4. ASSUME NEW i \in 1 .. Len(F)
      PROVE  /\ IsField(new(i)) /\ new(i).is = F[i].is /\ new(i).len = F[i].len
             /\ new(i).at = F[i].at
             /\ F[i].is = "size" /\ F[i].at = pos => new(i).val = s.pos - (pos + 4)
             /\ ~(F[i].is = "size" /\ F[i].at = pos) => new(i) = F[i]
  <2> DEFINE f == F[i]
             v == s.pos - (pos + 4)
  <2>1. f = [is |-> f.is, len |-> f.len, val |-> f.val, at |-> f.at]
    BY <1>4 DEF IsField
  <2>2. new(i) = IF f.is = "size" /\ f.at = pos THEN [f EXCEPT !.val = v] ELSE f
    OBVIOUS
  <2> HIDE DEF f, v, new
  <2>3. CASE f.is = "size" /\ f.at = pos
    <3>1. new(i) = [is |-> f.is, len |-> f.len, val |-> v, at |-> f.at]
      BY <2>1, <2>2, <2>3
    <3> QED
      BY <2>3, <3>1 DEF IsField, f, v
  <2>4. CASE ~(f.is = "size" /\ f.at = pos)
    BY <2>1, <2>2, <2>4 DEF IsField, f, v
  <2> QED
    BY <2>3, <2>4
<1> HIDE DEF new, G
<1>5. r.pos = s.pos /\ r.ok = s.ok /\ r.fields = G
  BY <1>2
<1>6. IsStream(r)
  BY <1>2, <1>5 DEF IsStream
<1> QED
  BY <1>3, <1>4, <1>5, <1>6

\* The chunk in the fields from i on: each length is that of the field behind it,
\* and the size that of all that follows it.
Chunk(f, i) ==
  /\ f[i].is = "tag" /\ f[i].val = "EXTF" /\ f[i].len = 4
  /\ f[i + 1].is = "size" /\ f[i + 1].len = 4
  /\ f[i + 2].is = "type"
  /\ f[i + 3].is = "size" /\ f[i + 3].val = f[i + 4].len /\ f[i + 4].is = "text"
  /\ f[i + 5].is = "size" /\ f[i + 5].val = f[i + 6].len /\ f[i + 6].is = "time"
  /\ f[i + 7].is = "size" /\ f[i + 7].val = f[i + 8].len /\ f[i + 8].is = "data"
  /\ f[i + 1].val = f[i + 8].at + f[i + 8].len - (f[i].at + 8)

\* r is s with one more chunk.
Added(s, r, type, name_, time, len, content) ==
  LET n == Len(s.fields)
      f == r.fields
  IN  /\ s.ok /\ IsRow(f) /\ Len(f) = n + 9 /\ \A i \in 1 .. n : f[i] = s.fields[i]
      /\ Chunk(f, n + 1) /\ Chain(f, r.pos)
      /\ f[n + 3].val = type /\ f[n + 5].val = name_ /\ f[n + 7].val = time
      /\ f[n + 9].len = len /\ f[n + 9].val = content

LEMMA ExtfAdds ==
  ASSUME NEW s, IsStream(s), s.pos <= BundleSize, IsRow(s.fields), Len(s.fields) >= 10,
         Chain(s.fields, s.pos), NEW type, NEW plen \in Nat, NEW name_, NEW time, NEW len \in Nat, NEW content,
         NEW r, r = PutExtf(s, type, Field("text", plen, name_), time, Data(len, content)), r.ok
  PROVE  Added(s, r, type, name_, time, len, content)
<1> DEFINE fields == << Tag("EXTF"), Size(4, 0), Field("type", 4, type),
                        Size(2, plen), Field("text", plen, name_), Size(2, TimeLen), Time(time),
                        Size(4, len), Data(len, content) >>
           q == PutAll(s, fields, BundleSize)
           n == Len(s.fields)
<1>1. r = Patch(q, s.pos + 4)
  <2>1. Field("text", plen, name_).len = plen /\ Data(len, content).len = len
    BY DEF Field, Data
  <2> QED
    BY <2>1 DEF PutExtf
<1>2. /\ Len(fields) = 9
      /\ fields[1] = Field("tag", 4, "EXTF") /\ fields[2] = Field("size", 4, 0)
      /\ fields[3] = Field("type", 4, type) /\ fields[4] = Field("size", 2, plen)
      /\ fields[5] = Field("text", plen, name_) /\ fields[6] = Field("size", 2, TimeLen)
      /\ fields[7] = Field("time", TimeLen, time) /\ fields[8] = Field("size", 4, len)
      /\ fields[9] = Field("data", len, content)
  BY DEF Tag, Size, Time, Data
<1> HIDE DEF fields
<1>3. TimeLen \in Nat /\ BundleSize \in Nat /\ n \in Nat /\ s.pos \in Nat
  BY SizesAre, RowAppends DEF IsStream
<1>4. \A j \in 1 .. 9 : IsField(fields[j]) /\ fields[j].len \in Nat
  <2>1. \A is, val, k : IsField(Field(is, k, val)) /\ Field(is, k, val).len = k
    BY FieldIs
  <2>2. \A j \in 1 .. 9 : j \in {1, 2, 3, 4, 5, 6, 7, 8, 9}
    OBVIOUS
  <2> QED
    BY SMTT(30), <1>2, <1>3, <2>1, <2>2
<1>5. IsStream(q) /\ q.ok
  <2>1. /\ IsStream(q)
    <3>1. Len(fields) \in Nat /\ \A j \in 1 .. Len(fields) : fields[j].len \in Nat
      BY <1>2, <1>4
    <3>2. s.pos <= BundleSize
      OBVIOUS
    <3> QED
      BY <1>3, <3>1, <3>2, PutAllFits
  <2>2. ~q.ok => Patch(q, s.pos + 4) = q
    BY DEF Patch
  <2> HIDE DEF q
  <2> QED
    BY <1>1, <2>1, <2>2
<1>6. s.ok /\ IsRow(q.fields) /\ \E p : Follows(s, fields, q, p)
  <2>1. Len(fields) \in Nat /\ \A j \in 1 .. Len(fields) : fields[j].len \in Nat
    BY <1>2, <1>4
  <2> QED
    BY <1>3, <1>5, <2>1, PutAllPuts
<1> HIDE DEF q, n
<1>7. PICK p : Follows(s, fields, q, p)
  BY <1>6
<1>8. /\ Len(q.fields) = n + 9 /\ \A i \in 1 .. n : q.fields[i] = s.fields[i]
      /\ p[0] = s.pos /\ p[9] = q.pos
      /\ \A j \in 1 .. 9 : /\ p[j - 1] \in Nat /\ p[j] = p[j - 1] + fields[j].len
                           /\ q.fields[n + j] = Placed(fields[j], p[j - 1])
  BY <1>2, <1>7 DEF Follows, n
<1>9. \A is, val, k, pos : /\ Field(is, k, val).len = k
                           /\ Placed(Field(is, k, val), pos).is = is
                           /\ Placed(Field(is, k, val), pos).len = k
                           /\ Placed(Field(is, k, val), pos).val = val
                           /\ Placed(Field(is, k, val), pos).at = pos
  BY FieldIs, PlacedIs
<1>10. /\ p[1] = s.pos + 4 /\ p[2] = s.pos + 8 /\ p[3] = s.pos + 12 /\ p[4] = s.pos + 14
       /\ p[5] = s.pos + 14 + plen /\ p[6] = s.pos + 16 + plen
       /\ p[7] = s.pos + 16 + plen + TimeLen /\ p[8] = s.pos + 20 + plen + TimeLen
       /\ p[9] = s.pos + 20 + plen + TimeLen + len
  <2>1. /\ fields[1].len = 4 /\ fields[2].len = 4 /\ fields[3].len = 4 /\ fields[4].len = 2
        /\ fields[5].len = plen /\ fields[6].len = 2 /\ fields[7].len = TimeLen
        /\ fields[8].len = 4 /\ fields[9].len = len
    BY <1>2, <1>9
  <2>2. /\ p[1] = p[0] + fields[1].len /\ p[2] = p[1] + fields[2].len
        /\ p[3] = p[2] + fields[3].len /\ p[4] = p[3] + fields[4].len
        /\ p[5] = p[4] + fields[5].len /\ p[6] = p[5] + fields[6].len
        /\ p[7] = p[6] + fields[7].len /\ p[8] = p[7] + fields[8].len
        /\ p[9] = p[8] + fields[9].len
    BY <1>8
  <2> DEFINE a == s.pos
  <2>3. a \in Nat /\ p[0] = a
    BY <1>3, <1>8
  <2> HIDE DEF a
  <2>4. p[1] = a + 4 /\ p[2] = a + 8 /\ p[3] = a + 12 /\ p[4] = a + 14
    <3>1. p[1] = a + 4
      BY <2>1, <2>2, <2>3
    <3>2. p[2] = a + 8
      BY <2>1, <2>2, <2>3, <3>1
    <3>3. p[3] = a + 12
      BY <2>1, <2>2, <2>3, <3>2
    <3> QED
      BY <2>1, <2>2, <2>3, <3>1, <3>2, <3>3
  <2>5. p[5] = a + 14 + plen /\ p[6] = a + 16 + plen
    <3>1. p[5] = a + 14 + plen
      BY <2>1, <2>2, <2>3, <2>4
    <3> QED
      BY <2>1, <2>2, <2>3, <3>1
  <2>6. p[7] = a + 16 + plen + TimeLen /\ p[8] = a + 20 + plen + TimeLen
    <3>1. p[7] = a + 16 + plen + TimeLen
      BY <1>3, <2>1, <2>2, <2>3, <2>5
    <3> QED
      BY <1>3, <2>1, <2>2, <2>3, <3>1
  <2>7. p[9] = a + 20 + plen + TimeLen + len
    BY <1>3, <2>1, <2>2, <2>3, <2>6
  <2> QED
    BY <2>4, <2>5, <2>6, <2>7 DEF a
<1>11. /\ q.fields[n + 1] = Placed(fields[1], p[0]) /\ q.fields[n + 2] = Placed(fields[2], p[1])
       /\ q.fields[n + 3] = Placed(fields[3], p[2]) /\ q.fields[n + 4] = Placed(fields[4], p[3])
       /\ q.fields[n + 5] = Placed(fields[5], p[4]) /\ q.fields[n + 6] = Placed(fields[6], p[5])
       /\ q.fields[n + 7] = Placed(fields[7], p[6]) /\ q.fields[n + 8] = Placed(fields[8], p[7])
       /\ q.fields[n + 9] = Placed(fields[9], p[8])
  BY <1>8
<1> DEFINE h(j) == q.fields[n + j]
<1>12. /\ h(1).is = "tag" /\ h(1).val = "EXTF" /\ h(1).len = 4 /\ h(1).at = s.pos
       /\ h(2).is = "size" /\ h(2).len = 4 /\ h(2).at = s.pos + 4
       /\ h(3).is = "type" /\ h(3).val = type /\ h(3).at = s.pos + 8
  <2>1. h(1) = Placed(Field("tag", 4, "EXTF"), s.pos)
    BY <1>2, <1>8, <1>11
  <2>2. h(2) = Placed(Field("size", 4, 0), s.pos + 4)
    BY <1>2, <1>10, <1>11
  <2>3. h(3) = Placed(Field("type", 4, type), s.pos + 8)
    BY <1>2, <1>10, <1>11
  <2> QED
    BY <1>9, <2>1, <2>2, <2>3
<1>13. /\ h(4).is = "size" /\ h(4).val = plen /\ h(4).at = s.pos + 12
       /\ h(5).is = "text" /\ h(5).len = plen /\ h(5).val = name_ /\ h(5).at = s.pos + 14
       /\ h(6).is = "size" /\ h(6).val = TimeLen /\ h(6).at = s.pos + 14 + plen
       /\ h(7).is = "time" /\ h(7).len = TimeLen /\ h(7).val = time
       /\ h(7).at = s.pos + 16 + plen
  <2>1. h(4) = Placed(Field("size", 2, plen), s.pos + 12)
    BY <1>2, <1>10, <1>11
  <2>2. h(5) = Placed(Field("text", plen, name_), s.pos + 14)
    BY <1>2, <1>10, <1>11
  <2>3. h(6) = Placed(Field("size", 2, TimeLen), s.pos + 14 + plen)
    BY <1>2, <1>10, <1>11
  <2>4. h(7) = Placed(Field("time", TimeLen, time), s.pos + 16 + plen)
    BY <1>2, <1>10, <1>11
  <2> QED
    BY <1>9, <2>1, <2>2, <2>3, <2>4
<1>14. /\ h(8).is = "size" /\ h(8).val = len /\ h(8).at = s.pos + 16 + plen + TimeLen
       /\ h(9).is = "data" /\ h(9).len = len /\ h(9).val = content
       /\ h(9).at = s.pos + 20 + plen + TimeLen
  <2>1. h(8) = Placed(Field("size", 4, len), s.pos + 16 + plen + TimeLen)
    BY <1>2, <1>10, <1>11
  <2>2. h(9) = Placed(Field("data", len, content), s.pos + 20 + plen + TimeLen)
    BY <1>2, <1>10, <1>11
  <2> QED
    BY <1>9, <2>1, <2>2
<1>15. s.pos >= 16
  <2>1. n \in 1 .. n /\ n > 4
    BY <1>3 DEF n
  <2>2. s.fields[n].at \in Nat /\ s.fields[n].len \in Nat /\ s.fields[n].at >= 16
        /\ s.fields[n].at + s.fields[n].len <= s.pos
    BY <2>1 DEF Chain, n
  <2>3. \A x, y, z \in Nat : x >= 16 /\ x + y <= z => z >= 16
    OBVIOUS
  <2> QED
    BY <1>3, <2>2, <2>3
<1>16. Chain(q.fields, q.pos)
  <2>1. \A j \in 0 .. Len(fields) : p[j] <= q.pos /\ p[j] >= s.pos
    <3>1. \A j \in 0 .. 9 : j \in {0, 1, 2, 3, 4, 5, 6, 7, 8, 9}
      OBVIOUS
    <3>2. q.pos = s.pos + 20 + plen + TimeLen + len
      BY <1>8, <1>10
    <3> DEFINE a == s.pos
               b == q.pos
    <3>3. a \in Nat /\ b = a + 20 + plen + TimeLen + len /\ b \in Nat
      BY <1>3, <3>2
    <3>4. /\ p[0] = a /\ p[1] = a + 4 /\ p[2] = a + 8 /\ p[3] = a + 12 /\ p[4] = a + 14
          /\ p[5] = a + 14 + plen /\ p[6] = a + 16 + plen
          /\ p[7] = a + 16 + plen + TimeLen /\ p[8] = a + 20 + plen + TimeLen /\ p[9] = b
      BY <1>8, <1>10
    <3> HIDE DEF a, b
    <3>5. /\ a <= b /\ a + 4 \in a .. b /\ a + 8 \in a .. b /\ a + 12 \in a .. b
          /\ a + 14 \in a .. b
      BY <1>3, <3>3
    <3>6. /\ a + 14 + plen \in a .. b /\ a + 16 + plen \in a .. b
          /\ a + 16 + plen + TimeLen \in a .. b /\ a + 20 + plen + TimeLen \in a .. b
      BY <1>3, <3>3
    <3>8. /\ p[0] \in a .. b /\ p[1] \in a .. b /\ p[2] \in a .. b /\ p[3] \in a .. b
          /\ p[4] \in a .. b /\ p[5] \in a .. b /\ p[6] \in a .. b /\ p[7] \in a .. b
          /\ p[8] \in a .. b /\ p[9] \in a .. b
      BY <3>3, <3>4, <3>5, <3>6
    <3>9. \A j \in {0, 1, 2, 3, 4, 5, 6, 7, 8, 9} : p[j] \in a .. b
      BY <3>8
    <3>10. \A j \in 0 .. 9 : p[j] \in a .. b
      BY <3>1, <3>9
    <3>11. \A x \in a .. b : x <= b /\ x >= a
      BY <3>3
    <3>7. \A j \in 0 .. 9 : p[j] <= b /\ p[j] >= a
      BY <3>10, <3>11
    <3> QED
      BY <1>2, <3>7 DEF a, b
  <2>2. Len(fields) \in Nat \ {0} /\ Len(s.fields) >= 4
    BY <1>2, <1>3 DEF n
  <2>3. \A j \in 1 .. Len(fields) : IsField(fields[j]) /\ fields[j].len \in Nat
    BY <1>2, <1>4
  <2> QED
    BY <1>7, <1>15, <2>1, <2>2, <2>3, ChainFollows
<1> DEFINE g == r.fields
<1>17. \A i \in 1 .. n + 9 : IsField(q.fields[i]) /\ q.fields[i].at \in Nat /\ q.fields[i].len \in Nat
  BY <1>8, <1>16 DEF Chain
<1>18. /\ IsRow(g) /\ r.pos = q.pos /\ Len(g) = n + 9
       /\ \A i \in 1 .. n + 9 :
            /\ IsField(g[i]) /\ g[i].is = q.fields[i].is /\ g[i].len = q.fields[i].len
            /\ g[i].at = q.fields[i].at
            /\ q.fields[i].is = "size" /\ q.fields[i].at = s.pos + 4 =>
                 g[i].val = q.pos - ((s.pos + 4) + 4)
            /\ ~(q.fields[i].is = "size" /\ q.fields[i].at = s.pos + 4) => g[i] = q.fields[i]
  <2>1. \A i \in 1 .. Len(q.fields) : IsField(q.fields[i])
    BY <1>8, <1>17
  <2> DEFINE pos == s.pos + 4
  <2>2. r = Patch(q, pos)
    BY <1>1
  <2> HIDE DEF pos
  <2>3. /\ IsRow(r.fields) /\ r.pos = q.pos /\ Len(r.fields) = Len(q.fields)
        /\ \A i \in 1 .. Len(q.fields) :
             LET e == q.fields[i]
                 k == r.fields[i]
             IN  /\ IsField(k) /\ k.is = e.is /\ k.len = e.len /\ k.at = e.at
                 /\ e.is = "size" /\ e.at = pos => k.val = q.pos - (pos + 4)
                 /\ ~(e.is = "size" /\ e.at = pos) => k = e
    BY <1>5, <1>6, <2>1, <2>2, PatchIs
  <2> QED
    BY <1>8, <2>3 DEF pos
<1>19. \A i \in 1 .. n : g[i] = s.fields[i]
  <2>1. ASSUME NEW i \in 1 .. n PROVE g[i] = s.fields[i]
    <3>4. \A k \in Nat : \A x \in 1 .. k : x \in 1 .. k + 9
      OBVIOUS
    <3>5. n \in Nat
      BY <1>3
    <3> HIDE DEF n
    <3>1. i \in 1 .. n + 9 /\ q.fields[i] = s.fields[i]
      BY <1>8, <3>4, <3>5
    <3>2. s.fields[i].at \in Nat /\ s.fields[i].len \in Nat /\ s.fields[i].at + s.fields[i].len <= s.pos
      BY DEF Chain, n
    <3> DEFINE a == s.fields[i].at
               k == s.fields[i].len
               b == s.pos
    <3>6. a \in Nat /\ k \in Nat /\ b \in Nat /\ a + k <= b
      BY <1>3, <3>2
    <3> HIDE DEF a, k, b
    <3>7. a # b + 4
      BY <3>6
    <3>3. s.fields[i].at # s.pos + 4
      BY <3>7 DEF a, b
    <3> QED
      BY <1>18, <3>1, <3>3
  <2> QED
    BY <2>1
<1>20. /\ \A j \in {1, 3, 4, 5, 6, 7, 8, 9} : g[n + j] = h(j)
       /\ g[n + 2].is = "size" /\ g[n + 2].len = 4 /\ g[n + 2].val = q.pos - ((s.pos + 4) + 4)
  <2>1. \A j \in {1, 2, 3, 4, 5, 6, 7, 8, 9} : n + j \in 1 .. n + 9
    BY <1>3
  <2>2. \A j \in {4, 6, 8} : h(j).at # s.pos + 4
    <3> DEFINE a == s.pos
    <3>1. /\ a \in Nat /\ h(4).at = a + 12 /\ h(6).at = a + 14 + plen
          /\ h(8).at = a + 16 + plen + TimeLen
      BY <1>3, <1>13, <1>14
    <3> HIDE DEF a, h
    <3>2. \A j \in {4, 6, 8} : h(j).at # a + 4
      BY <1>3, <3>1
    <3> QED
      BY <3>2 DEF a
  <2>3. \A j \in {1, 3, 5, 7, 9} : h(j).is # "size"
    BY <1>12, <1>13, <1>14
  <2>4. \A j \in {1, 3, 4, 5, 6, 7, 8, 9} : ~(h(j).is = "size" /\ h(j).at = s.pos + 4)
    BY <2>2, <2>3
  <2>5. ASSUME NEW j \in {1, 3, 4, 5, 6, 7, 8, 9} PROVE g[n + j] = h(j)
    <3>1. n + j \in 1 .. n + 9
      BY <2>1
    <3>2. ~(h(j).is = "size" /\ h(j).at = s.pos + 4)
      BY <2>4
    <3> DEFINE i == n + j
    <3>3. i \in 1 .. n + 9 /\ ~(q.fields[i].is = "size" /\ q.fields[i].at = s.pos + 4)
      BY <3>1, <3>2
    <3> HIDE DEF i
    <3>4. g[i] = q.fields[i]
      BY Zenon, <1>18, <3>3
    <3> QED
      BY <3>4 DEF i
  <2>6. n + 2 \in 1 .. n + 9
    BY <2>1
  <2> QED
    BY <1>12, <1>18, <2>5, <2>6
<1>21. Chain(g, r.pos)
  <2>1. /\ q.fields[1].at = 0
        /\ \A i \in 1 .. n + 9 :
             /\ q.fields[i].at \in Nat /\ q.fields[i].len \in Nat
             /\ q.fields[i].at + q.fields[i].len = IF i = n + 9 THEN q.pos ELSE q.fields[i + 1].at
             /\ q.fields[i].at + q.fields[i].len <= q.pos /\ (i > 4 => q.fields[i].at >= 16)
    BY <1>8, <1>16 DEF Chain
  <2>2. 1 \in 1 .. n + 9 /\ \A i \in 1 .. n + 9 : i # n + 9 => i + 1 \in 1 .. n + 9
    BY <1>3
  <2>3. \A i \in 1 .. n + 9 : IsField(g[i]) /\ g[i].at = q.fields[i].at /\ g[i].len = q.fields[i].len
    BY <1>18
  <2>4. \A i \in 1 .. n + 9 : i # n + 9 => g[i + 1].at = q.fields[i + 1].at
    BY <2>2, <2>3
  <2>5. Len(g) = n + 9 /\ r.pos = q.pos
    BY <1>18
  <2> HIDE DEF g, h
  <2>6. g[1].at = 0
    BY <2>1, <2>2, <2>3
  <2>7. ASSUME NEW i \in 1 .. n + 9
        PROVE  /\ IsField(g[i]) /\ g[i].at \in Nat /\ g[i].len \in Nat
               /\ g[i].at + g[i].len = IF i = n + 9 THEN q.pos ELSE g[i + 1].at
               /\ g[i].at + g[i].len <= q.pos /\ (i > 4 => g[i].at >= 16)
    BY <2>1, <2>3, <2>4
  <2> QED
    BY <2>5, <2>6, <2>7 DEF Chain
<1>22. /\ g[n + 1] = h(1) /\ g[n + 3] = h(3) /\ g[n + 4] = h(4) /\ g[n + 5] = h(5)
       /\ g[n + 6] = h(6) /\ g[n + 7] = h(7) /\ g[n + 8] = h(8) /\ g[n + 9] = h(9)
  BY <1>20
<1> HIDE DEF g, h
<1>23. Chunk(g, n + 1)
  <2>1. /\ (n + 1) + 1 = n + 2 /\ (n + 1) + 2 = n + 3 /\ (n + 1) + 3 = n + 4
        /\ (n + 1) + 4 = n + 5 /\ (n + 1) + 5 = n + 6 /\ (n + 1) + 6 = n + 7
        /\ (n + 1) + 7 = n + 8 /\ (n + 1) + 8 = n + 9
    BY <1>3
  <2>2. q.pos - ((s.pos + 4) + 4) = g[n + 9].at + g[n + 9].len - (g[n + 1].at + 8)
    <3> DEFINE a == s.pos
               b == q.pos
    <3>1. /\ a \in Nat /\ b = a + 20 + plen + TimeLen + len /\ g[n + 9].at = a + 20 + plen + TimeLen
          /\ g[n + 9].len = len /\ g[n + 1].at = a
      BY <1>3, <1>8, <1>10, <1>12, <1>14, <1>22
    <3> HIDE DEF a, b
    <3>2. b - ((a + 4) + 4) = g[n + 9].at + g[n + 9].len - (g[n + 1].at + 8)
      BY <1>3, <3>1
    <3> QED
      BY <3>2 DEF a, b
  <2> QED
    BY SMTT(30), <1>12, <1>13, <1>14, <1>20, <1>22, <2>1, <2>2 DEF Chunk
<1>24. /\ g[n + 3].val = type /\ g[n + 5].val = name_ /\ g[n + 7].val = time
       /\ g[n + 9].len = len /\ g[n + 9].val = content
  BY <1>12, <1>13, <1>14, <1>22
<1>25. s.ok /\ IsRow(g) /\ Len(g) = n + 9
  BY <1>6, <1>18
<1> QED
  BY <1>19, <1>21, <1>23, <1>24, <1>25 DEF Added, g, n

\* The headers: RIFF and DDFB with their sizes, and DESC.
Headers(f, end) ==
  /\ Len(f) = 5 /\ end = 20 /\ \A i \in 1 .. 5 : IsField(f[i]) /\ f[i].len = 4
  /\ f[1].is = "tag" /\ f[1].val = "RIFF" /\ f[1].at = 0
  /\ f[2].is = "size" /\ f[2].at = 4
  /\ f[3].is = "tag" /\ f[3].val = "DDFB" /\ f[3].at = 8
  /\ f[4].is = "size" /\ f[4].at = 12
  /\ f[5].is = "tag" /\ f[5].val = "DESC" /\ f[5].at = 16

\* The headers with DESC and DDFC.
Headed(f) ==
  /\ f[1].is = "tag" /\ f[1].val = "RIFF" /\ f[2].is = "size" /\ f[2].at = 4
  /\ f[3].is = "tag" /\ f[3].val = "DDFB" /\ f[4].is = "size" /\ f[4].at = 12
  /\ f[5].is = "tag" /\ f[5].val = "DESC" /\ f[5].len = 4
  /\ f[6].is = "size" /\ f[6].len = 4 /\ f[6].val = f[7].len /\ f[7].is = "data"
  /\ f[8].is = "tag" /\ f[8].val = "DDFC" /\ f[8].len = 4
  /\ f[9].is = "size" /\ f[9].len = 4 /\ f[9].val = f[10].len /\ f[10].is = "data"

\* Chunk k is in the fields from 9 * k + 2 on.
Bundled(f, n) ==
  n \in Nat /\ Len(f) = 10 + 9 * n /\ Headed(f) /\ \A k \in 1 .. n : Chunk(f, 9 * k + 2)

Shaped ==
  bs.ok => /\ pc \in Behind => IsRow(bs.fields)
           /\ pc = "identify" => Headers(bs.fields, bs.pos)
           /\ pc \in Behind \ {"identify"} =>
                Chain(bs.fields, bs.pos) /\ \E n \in Nat : Bundled(bs.fields, n)

LEMMA HeadersAre ==
  ASSUME NEW s, IsStream(s), s.pos = 0, IsRow(s.fields), Len(s.fields) = 0, NEW r, r.ok,
         r = PutAll(s, << Tag("RIFF"), Size(4, 0), Tag("DDFB"), Size(4, 0), Tag("DESC") >>,
                    BundleSize)
  PROVE  IsRow(r.fields) /\ Headers(r.fields, r.pos)
<1> DEFINE fields == << Tag("RIFF"), Size(4, 0), Tag("DDFB"), Size(4, 0), Tag("DESC") >>
<1>1. /\ Len(fields) = 5
      /\ fields[1] = Field("tag", 4, "RIFF") /\ fields[2] = Field("size", 4, 0)
      /\ fields[3] = Field("tag", 4, "DDFB") /\ fields[4] = Field("size", 4, 0)
      /\ fields[5] = Field("tag", 4, "DESC")
  BY DEF Tag, Size
<1>2. r = PutAll(s, fields, BundleSize) /\ BundleSize \in Nat
  BY SizesAre
<1> HIDE DEF fields
<1>3. \A is, val, k : IsField(Field(is, k, val)) /\ Field(is, k, val).len = k
  BY FieldIs
<1>4. \A j \in 1 .. 5 : IsField(fields[j]) /\ fields[j].len = 4
  <2>1. \A j \in 1 .. 5 : j \in {1, 2, 3, 4, 5}
    OBVIOUS
  <2> QED
    BY <1>1, <1>3, <2>1
<1>5. IsRow(r.fields) /\ \E p : Follows(s, fields, r, p)
  <2>1. Len(fields) \in Nat /\ \A j \in 1 .. Len(fields) : fields[j].len \in Nat
    BY <1>1, <1>4
  <2> QED
    BY <1>2, <2>1, PutAllPuts
<1>6. PICK p : Follows(s, fields, r, p)
  BY <1>5
<1>7. /\ Len(r.fields) = 5 /\ p[0] = 0 /\ p[5] = r.pos
      /\ \A j \in 1 .. 5 : p[j] = p[j - 1] + fields[j].len
      /\ \A j \in 1 .. 5 : r.fields[0 + j] = Placed(fields[j], p[j - 1])
  <2> DEFINE g == r.fields
             e == s.fields
  <2>1. /\ Len(g) = Len(e) + Len(fields) /\ p[0] = s.pos /\ p[Len(fields)] = r.pos
        /\ \A j \in 1 .. Len(fields) : p[j] = p[j - 1] + fields[j].len
        /\ \A j \in 1 .. Len(fields) : g[Len(e) + j] = Placed(fields[j], p[j - 1])
    BY <1>6 DEF Follows
  <2>2. Len(e) = 0 /\ s.pos = 0
    OBVIOUS
  <2> HIDE DEF g, e
  <2>3. /\ Len(g) = 5 /\ p[0] = 0 /\ p[5] = r.pos
        /\ \A j \in 1 .. 5 : p[j] = p[j - 1] + fields[j].len
        /\ \A j \in 1 .. 5 : g[0 + j] = Placed(fields[j], p[j - 1])
    BY <1>1, <2>1, <2>2
  <2> QED
    BY <2>3 DEF g
<1>8. p[1] = 4 /\ p[2] = 8 /\ p[3] = 12 /\ p[4] = 16 /\ p[5] = 20
  <2>1. /\ fields[1].len = 4 /\ fields[2].len = 4 /\ fields[3].len = 4
        /\ fields[4].len = 4 /\ fields[5].len = 4
    BY <1>4
  <2>2. /\ p[1] = p[0] + fields[1].len /\ p[2] = p[1] + fields[2].len
        /\ p[3] = p[2] + fields[3].len /\ p[4] = p[3] + fields[4].len
        /\ p[5] = p[4] + fields[5].len
    BY <1>7
  <2>3. p[1] = 4
    BY <1>7, <2>1, <2>2
  <2>4. p[2] = 8
    BY <2>1, <2>2, <2>3
  <2>5. p[3] = 12
    BY <2>1, <2>2, <2>4
  <2>6. p[4] = 16
    BY <2>1, <2>2, <2>5
  <2> QED
    BY <2>1, <2>2, <2>3, <2>4, <2>5, <2>6
<1>9. \A is, val, k, pos : /\ IsField(Placed(Field(is, k, val), pos))
                            /\ Placed(Field(is, k, val), pos).is = is
                            /\ Placed(Field(is, k, val), pos).len = k
                            /\ Placed(Field(is, k, val), pos).val = val
                            /\ Placed(Field(is, k, val), pos).at = pos
  BY FieldIs, PlacedIs
<1>10. /\ r.fields[1] = Placed(Field("tag", 4, "RIFF"), p[0])
       /\ r.fields[2] = Placed(Field("size", 4, 0), p[1])
       /\ r.fields[3] = Placed(Field("tag", 4, "DDFB"), p[2])
       /\ r.fields[4] = Placed(Field("size", 4, 0), p[3])
       /\ r.fields[5] = Placed(Field("tag", 4, "DESC"), p[4])
  <2>1. /\ r.fields[0 + 1] = Placed(fields[1], p[0]) /\ r.fields[0 + 2] = Placed(fields[2], p[1])
        /\ r.fields[0 + 3] = Placed(fields[3], p[2]) /\ r.fields[0 + 4] = Placed(fields[4], p[3])
        /\ r.fields[0 + 5] = Placed(fields[5], p[4])
    BY <1>7
  <2> QED
    BY <1>1, <2>1
<1>11. \A j \in 1 .. 5 : IsField(r.fields[j]) /\ r.fields[j].len = 4
  <2>1. \A j \in 1 .. 5 : j \in {1, 2, 3, 4, 5}
    OBVIOUS
  <2>2. /\ IsField(r.fields[1]) /\ r.fields[1].len = 4 /\ IsField(r.fields[2]) /\ r.fields[2].len = 4
        /\ IsField(r.fields[3]) /\ r.fields[3].len = 4 /\ IsField(r.fields[4]) /\ r.fields[4].len = 4
        /\ IsField(r.fields[5]) /\ r.fields[5].len = 4
    BY <1>9, <1>10
  <2> QED
    BY <2>1, <2>2
<1>12. /\ r.fields[1].is = "tag" /\ r.fields[1].val = "RIFF" /\ r.fields[1].at = 0
       /\ r.fields[2].is = "size" /\ r.fields[2].at = 4
       /\ r.fields[3].is = "tag" /\ r.fields[3].val = "DDFB" /\ r.fields[3].at = 8
       /\ r.fields[4].is = "size" /\ r.fields[4].at = 12
       /\ r.fields[5].is = "tag" /\ r.fields[5].val = "DESC" /\ r.fields[5].at = 16
  <2>1. /\ r.fields[1].is = "tag" /\ r.fields[1].val = "RIFF" /\ r.fields[1].at = p[0]
        /\ r.fields[2].is = "size" /\ r.fields[2].at = p[1]
        /\ r.fields[3].is = "tag" /\ r.fields[3].val = "DDFB" /\ r.fields[3].at = p[2]
    BY <1>9, <1>10
  <2>2. /\ r.fields[4].is = "size" /\ r.fields[4].at = p[3]
        /\ r.fields[5].is = "tag" /\ r.fields[5].val = "DESC" /\ r.fields[5].at = p[4]
    BY <1>9, <1>10
  <2> QED
    BY <1>7, <1>8, <2>1, <2>2
<1>13. Headers(r.fields, r.pos)
  <2> DEFINE g == r.fields
             e == r.pos
  <2>1. Len(g) = 5 /\ e = 20 /\ \A j \in 1 .. 5 : IsField(g[j]) /\ g[j].len = 4
    BY <1>7, <1>8, <1>11
  <2> HIDE DEF g, e
  <2> QED
    BY <1>12, <2>1 DEF Headers, g, e
<1> QED
  BY <1>5, <1>13

\* The first four fields before DESC are chained as well.
LEMMA HeadersChain ==
  ASSUME NEW f, NEW end, Headers(f, end)
  PROVE  Chain(f, end)
<1>1. /\ f[1].at = 0 /\ f[2].at = 4 /\ f[3].at = 8 /\ f[4].at = 12 /\ f[5].at = 16
      /\ Len(f) = 5 /\ end = 20 /\ \A i \in 1 .. 5 : IsField(f[i]) /\ f[i].len = 4
  BY DEF Headers
<1>2. \A j \in 1 .. 5 : j \in {1, 2, 3, 4, 5}
  OBVIOUS
<1>3. ASSUME NEW j \in 1 .. 5
      PROVE  /\ IsField(f[j]) /\ f[j].at \in Nat /\ f[j].len \in Nat
             /\ f[j].at + f[j].len = IF j = 5 THEN end ELSE f[j + 1].at
             /\ f[j].at + f[j].len <= end /\ (j > 4 => f[j].at >= 16)
  <2>1. IsField(f[j]) /\ f[j].len = 4
    BY <1>1
  <2>2. CASE j = 1 BY <1>1, <2>1, <2>2
  <2>3. CASE j = 2 BY <1>1, <2>1, <2>3
  <2>4. CASE j = 3 BY <1>1, <2>1, <2>4
  <2>5. CASE j = 4 BY <1>1, <2>1, <2>5
  <2>6. CASE j = 5 BY <1>1, <2>1, <2>6
  <2> QED
    BY <1>2, <2>2, <2>3, <2>4, <2>5, <2>6
<1> QED
  BY <1>1, <1>3 DEF Chain

LEMMA HeadIs ==
  ASSUME NEW s, IsStream(s), IsRow(s.fields), Headers(s.fields, s.pos),
         NEW len \in Nat, NEW text, NEW size \in Nat, NEW content,
         NEW r, r = PutAll(s, << Size(4, len), Data(len, text),
                                 Tag("DDFC"), Size(4, size), Data(size, content) >>, BundleSize),
         r.ok
  PROVE  /\ IsRow(r.fields) /\ Chain(r.fields, r.pos) /\ Bundled(r.fields, 0)
         /\ r.fields[7].val = text /\ r.fields[10].val = content /\ r.fields[10].len = size
<1> DEFINE fields == << Size(4, len), Data(len, text),
                        Tag("DDFC"), Size(4, size), Data(size, content) >>
<1>1. /\ Len(fields) = 5
      /\ fields[1] = Field("size", 4, len) /\ fields[2] = Field("data", len, text)
      /\ fields[3] = Field("tag", 4, "DDFC") /\ fields[4] = Field("size", 4, size)
      /\ fields[5] = Field("data", size, content)
  BY DEF Tag, Size, Data
<1>2. r = PutAll(s, fields, BundleSize) /\ BundleSize \in Nat
  BY SizesAre
<1> HIDE DEF fields
<1>3. \A is, val, k : IsField(Field(is, k, val)) /\ Field(is, k, val).len = k
  BY FieldIs
<1>4. \A j \in 1 .. 5 : IsField(fields[j]) /\ fields[j].len \in Nat
  <2>1. \A j \in 1 .. 5 : j \in {1, 2, 3, 4, 5}
    OBVIOUS
  <2> QED
    BY <1>1, <1>3, <2>1
<1>5. IsRow(r.fields) /\ \E p : Follows(s, fields, r, p)
  <2>1. Len(fields) \in Nat /\ \A j \in 1 .. Len(fields) : fields[j].len \in Nat
    BY <1>1, <1>4
  <2> QED
    BY <1>2, <2>1, PutAllPuts
<1>6. PICK p : Follows(s, fields, r, p)
  BY <1>5
<1>7. /\ Len(s.fields) = 5 /\ s.pos = 20
  BY DEF Headers
<1>8. /\ Len(r.fields) = 10 /\ p[0] = 20 /\ p[5] = r.pos
      /\ \A j \in 1 .. 5 : r.fields[j] = s.fields[j]
      /\ \A j \in 1 .. 5 : /\ p[j - 1] \in Nat /\ p[j] = p[j - 1] + fields[j].len
                           /\ r.fields[5 + j] = Placed(fields[j], p[j - 1])
  BY <1>1, <1>6, <1>7 DEF Follows
<1>9. /\ p[1] = 24 /\ p[2] = 24 + len /\ p[3] = 28 + len /\ p[4] = 32 + len
      /\ p[5] = 32 + len + size
  <2>1. /\ fields[1].len = 4 /\ fields[2].len = len /\ fields[3].len = 4
        /\ fields[4].len = 4 /\ fields[5].len = size
    BY <1>1, <1>3
  <2>2. /\ p[1] = p[0] + fields[1].len /\ p[2] = p[1] + fields[2].len
        /\ p[3] = p[2] + fields[3].len /\ p[4] = p[3] + fields[4].len
        /\ p[5] = p[4] + fields[5].len
    BY <1>8
  <2>3. p[1] = 24
    BY <1>8, <2>1, <2>2
  <2>4. p[2] = 24 + len
    BY <2>1, <2>2, <2>3
  <2>5. p[3] = 28 + len
    BY <2>1, <2>2, <2>4
  <2>6. p[4] = 32 + len
    BY <2>1, <2>2, <2>5
  <2> QED
    BY <2>1, <2>2, <2>3, <2>4, <2>5, <2>6
<1>10. Chain(r.fields, r.pos)
  <2>1. \A j \in 0 .. Len(fields) : p[j] <= r.pos /\ p[j] >= s.pos
    <3> DEFINE b == r.pos
    <3>1. b = 32 + len + size
      BY <1>8, <1>9
    <3> HIDE DEF b
    <3>2. /\ p[0] \in 20 .. b /\ p[1] \in 20 .. b /\ p[2] \in 20 .. b
          /\ p[3] \in 20 .. b /\ p[4] \in 20 .. b /\ p[5] \in 20 .. b
      BY <1>8, <1>9, <3>1
    <3>3. \A j \in 0 .. 5 : j \in {0, 1, 2, 3, 4, 5}
      OBVIOUS
    <3>4. \A j \in 0 .. 5 : p[j] \in 20 .. b
      BY <3>2, <3>3
    <3>5. \A x \in 20 .. b : x <= b /\ x >= 20
      BY <3>1
    <3>6. \A j \in 0 .. 5 : p[j] <= b /\ p[j] >= 20
      BY <3>4, <3>5
    <3> QED
      BY <1>1, <1>7, <3>6 DEF b
  <2>2. Len(fields) \in Nat \ {0} /\ Len(s.fields) >= 4 /\ s.pos >= 16
    BY <1>1, <1>7
  <2>3. \A j \in 1 .. Len(fields) : IsField(fields[j]) /\ fields[j].len \in Nat
    BY <1>1, <1>4
  <2>4. Chain(s.fields, s.pos)
    BY HeadersChain
  <2> QED
    BY <1>6, <2>1, <2>2, <2>3, <2>4, ChainFollows
<1>11. \A is, val, k, pos : /\ Placed(Field(is, k, val), pos).is = is
                            /\ Placed(Field(is, k, val), pos).len = k
                            /\ Placed(Field(is, k, val), pos).val = val
  BY FieldIs, PlacedIs
<1>12. /\ r.fields[6] = Placed(Field("size", 4, len), p[0])
       /\ r.fields[7] = Placed(Field("data", len, text), p[1])
       /\ r.fields[8] = Placed(Field("tag", 4, "DDFC"), p[2])
       /\ r.fields[9] = Placed(Field("size", 4, size), p[3])
       /\ r.fields[10] = Placed(Field("data", size, content), p[4])
  <2>1. /\ r.fields[5 + 1] = Placed(fields[1], p[0]) /\ r.fields[5 + 2] = Placed(fields[2], p[1])
        /\ r.fields[5 + 3] = Placed(fields[3], p[2]) /\ r.fields[5 + 4] = Placed(fields[4], p[3])
        /\ r.fields[5 + 5] = Placed(fields[5], p[4])
    BY <1>8
  <2> QED
    BY <1>1, <2>1
<1>13. /\ r.fields[6].is = "size" /\ r.fields[6].len = 4 /\ r.fields[6].val = len
       /\ r.fields[7].is = "data" /\ r.fields[7].len = len
       /\ r.fields[8].is = "tag" /\ r.fields[8].val = "DDFC" /\ r.fields[8].len = 4
       /\ r.fields[9].is = "size" /\ r.fields[9].len = 4 /\ r.fields[9].val = size
       /\ r.fields[10].is = "data" /\ r.fields[10].len = size
       /\ r.fields[7].val = text /\ r.fields[10].val = content
  BY <1>11, <1>12
<1>14. /\ r.fields[1] = s.fields[1] /\ r.fields[2] = s.fields[2] /\ r.fields[3] = s.fields[3]
       /\ r.fields[4] = s.fields[4] /\ r.fields[5] = s.fields[5]
  BY <1>8
<1>15. Headed(r.fields)
  <2>1. s.fields[5].len = 4
    BY DEF Headers
  <2> QED
    BY <1>13, <1>14, <2>1 DEF Headed, Headers
<1> QED
  BY <1>5, <1>8, <1>10, <1>13, <1>15 DEF Bundled

\* A put leaves the status OK only if it was.
LEMMA PutAllOk ==
  ASSUME NEW s, IsStream(s), NEW fields, NEW size \in Nat, Len(fields) \in Nat,
         \A n \in 1 .. Len(fields) : fields[n].len \in Nat, PutAll(s, fields, size).ok
  PROVE  s.ok
<1>1. PICK after : /\ after[0] = s
                   /\ \A n \in 1 .. Len(fields) : after[n] = Put(after[n - 1], fields[n], size)
                   /\ PutAll(s, fields, size) = after[Len(fields)]
  BY PutAllSteps
<1> DEFINE Good(t) == IsStream(t) /\ (t.ok => s.ok)
           M == {n \in 0 .. Len(fields) : ~Good(after[n])}
<1>2. CASE M = {}
  BY <1>1, <1>2
<1>3. CASE M # {}
  <2>1. PICK m \in M : \A n \in M : m <= n
    <3>1. M \in SUBSET Nat
      OBVIOUS
    <3> HIDE DEF M
    <3> QED
      BY <1>3, <3>1, SmallestNumber
  <2>2. m # 0
    BY <1>1, <2>1
  <2>3. m \in 1 .. Len(fields) /\ m - 1 \in 0 .. Len(fields) /\ ~(m <= m - 1)
    BY <2>1, <2>2
  <2>4. Good(after[m - 1])
    BY <2>1, <2>3
  <2>5. Good(after[m])
    <3>1. after[m] = Put(after[m - 1], fields[m], size) /\ fields[m].len \in Nat
      BY <1>1, <2>3
    <3>2. IsStream(Put(after[m - 1], fields[m], size))
      BY <2>4, <3>1, PutIs
    <3>3. after[m].ok => after[m - 1].ok
      BY <2>4, <3>1, PutFitted
    <3> QED
      BY <2>4, <3>1, <3>2, <3>3
  <2> QED
    BY <2>1, <2>5
<1> QED
  BY <1>2, <1>3

LEMMA ExtfOk ==
  ASSUME NEW s, IsStream(s), NEW type, NEW path, path.len \in Nat,
         NEW time, NEW data, data.len \in Nat, PutExtf(s, type, path, time, data).ok
  PROVE  s.ok
<1> DEFINE fields == << Tag("EXTF"), Size(4, 0), Field("type", 4, type),
                        Size(2, path.len), path, Size(2, TimeLen), Time(time),
                        Size(4, data.len), data >>
           r == PutAll(s, fields, BundleSize)
<1>1. Len(fields) = 9 /\ \A n \in 1 .. 9 : fields[n].len \in Nat
  <2>1. TimeLen \in Nat
    BY SizesAre
  <2>2. /\ Tag("EXTF").len \in Nat /\ Size(4, 0).len \in Nat /\ Field("type", 4, type).len \in Nat
        /\ Size(2, path.len).len \in Nat /\ Size(2, TimeLen).len \in Nat
        /\ Time(time).len \in Nat /\ Size(4, data.len).len \in Nat
    BY <2>1 DEF Tag, Size, Time, Field
  <2> QED
    BY <2>2
<1>2. PutExtf(s, type, path, time, data) = Patch(r, s.pos + 4)
  BY DEF PutExtf
<1> HIDE DEF fields
<1>3. Len(fields) \in Nat /\ (\A n \in 1 .. Len(fields) : fields[n].len \in Nat) /\ BundleSize \in Nat
  BY <1>1, SizesAre
<1>4. r.ok
  <2>1. ~r.ok => Patch(r, s.pos + 4) = r
    BY DEF Patch
  <2> HIDE DEF r
  <2> QED
    BY <1>2, <2>1
<1> QED
  BY <1>3, <1>4, PutAllOk

\* The chunk that a step puts into the bundle, when it fits.
LEMMA ExtfPut ==
  ASSUME NEW s, IsStream(s), s.pos <= BundleSize,
         s.ok => IsRow(s.fields) /\ Chain(s.fields, s.pos) /\ \E n \in Nat : Bundled(s.fields, n),
         NEW type, NEW plen \in Nat, NEW name_, NEW time, NEW len \in Nat, NEW content,
         NEW r, r = PutExtf(s, type, Field("text", plen, name_), time, Data(len, content)), r.ok
  PROVE  s.ok /\ Added(s, r, type, name_, time, len, content)
<1>1. s.ok
  <2> DEFINE path == Field("text", plen, name_)
             data == Data(len, content)
  <2>1. path.len \in Nat /\ data.len \in Nat
    BY DEF Data, Field
  <2>2. r = PutExtf(s, type, path, time, data)
    OBVIOUS
  <2> HIDE DEF path, data
  <2> QED
    BY <2>1, <2>2, ExtfOk
<1>2. PICK n \in Nat : Bundled(s.fields, n)
  BY <1>1
<1>3. Len(s.fields) >= 10
  BY <1>2 DEF Bundled
<1> QED
  BY <1>1, <1>3, ExtfAdds

-----------------------------------------------------------------------------
(* The chunks of the bundle.                                               *)

\* What is in chunk k: type, path, time and contents.
TypeAt(f, k)  == f[9 * k + 4].val
PathAt(f, k)  == f[9 * k + 6].val
StampAt(f, k) == f[9 * k + 8].val
DataAt(f, k)  == f[9 * k + 10]

SameChunk(f, g, k) ==
  /\ TypeAt(g, k) = TypeAt(f, k) /\ PathAt(g, k) = PathAt(f, k)
  /\ StampAt(g, k) = StampAt(f, k) /\ DataAt(g, k) = DataAt(f, k)

NewChunk(f, k, type, name_, time, len, content) ==
  /\ TypeAt(f, k) = type /\ PathAt(f, k) = name_ /\ StampAt(f, k) = time
  /\ DataAt(f, k).len = len /\ DataAt(f, k).val = content

LEMMA ChunkKept ==
  ASSUME NEW f, NEW g, NEW i \in Nat, \A j \in i .. i + 8 : g[j] = f[j], Chunk(f, i)
  PROVE  Chunk(g, i)
<1>1. /\ i \in i .. i + 8 /\ i + 1 \in i .. i + 8 /\ i + 2 \in i .. i + 8 /\ i + 3 \in i .. i + 8
      /\ i + 4 \in i .. i + 8 /\ i + 5 \in i .. i + 8 /\ i + 6 \in i .. i + 8
      /\ i + 7 \in i .. i + 8 /\ i + 8 \in i .. i + 8
  OBVIOUS
<1>2. /\ g[i] = f[i] /\ g[i + 1] = f[i + 1] /\ g[i + 2] = f[i + 2] /\ g[i + 3] = f[i + 3]
      /\ g[i + 4] = f[i + 4] /\ g[i + 5] = f[i + 5] /\ g[i + 6] = f[i + 6]
      /\ g[i + 7] = f[i + 7] /\ g[i + 8] = f[i + 8]
  BY <1>1
<1> QED
  BY <1>2 DEF Chunk

\* One more chunk leaves the others as they are.
LEMMA ChunkMore ==
  ASSUME NEW s, NEW n, Bundled(s.fields, n), NEW r, NEW type, NEW name_, NEW time, NEW len,
         NEW content, Added(s, r, type, name_, time, len, content)
  PROVE  /\ Bundled(r.fields, n + 1) /\ Chain(r.fields, r.pos)
         /\ \A k \in 1 .. n : SameChunk(s.fields, r.fields, k)
         /\ NewChunk(r.fields, n + 1, type, name_, time, len, content)
<1> DEFINE f == s.fields
           g == r.fields
           L == 10 + 9 * n
<1>1. /\ n \in Nat /\ Len(f) = L /\ Headed(f) /\ \A k \in 1 .. n : Chunk(f, 9 * k + 2)
  BY DEF Bundled
<1>2. /\ Len(g) = L + 9 /\ (\A i \in 1 .. L : g[i] = f[i]) /\ Chunk(g, L + 1)
      /\ g[L + 3].val = type /\ g[L + 5].val = name_ /\ g[L + 7].val = time
      /\ g[L + 9].len = len /\ g[L + 9].val = content
  BY <1>1 DEF Added
<1> HIDE DEF f, g
<1>3. Headed(g)
  <2>1. \A i \in {1, 2, 3, 4, 5, 6, 7, 8, 9, 10} : i \in 1 .. L
    BY <1>1
  <2>2. \A i \in {1, 2, 3, 4, 5, 6, 7, 8, 9, 10} : g[i] = f[i]
    BY <1>2, <2>1
  <2>3. /\ g[1] = f[1] /\ g[2] = f[2] /\ g[3] = f[3] /\ g[4] = f[4] /\ g[5] = f[5]
        /\ g[6] = f[6] /\ g[7] = f[7] /\ g[8] = f[8] /\ g[9] = f[9] /\ g[10] = f[10]
    BY <2>2
  <2> QED
    BY <1>1, <2>3 DEF Headed
<1>4. ASSUME NEW k \in 1 .. n
      PROVE  Chunk(g, 9 * k + 2) /\ SameChunk(f, g, k)
  <2>1. /\ 9 * k + 2 \in Nat /\ \A j \in 9 * k + 2 .. (9 * k + 2) + 8 : j \in 1 .. L
        /\ 9 * k + 4 \in 1 .. L /\ 9 * k + 6 \in 1 .. L /\ 9 * k + 8 \in 1 .. L
        /\ 9 * k + 10 \in 1 .. L
    BY <1>1
  <2>2. Chunk(g, 9 * k + 2)
    <3>1. \A j \in 9 * k + 2 .. (9 * k + 2) + 8 : g[j] = f[j]
      BY <1>2, <2>1
    <3>2. Chunk(f, 9 * k + 2)
      BY <1>1
    <3> DEFINE i == 9 * k + 2
    <3>3. i \in Nat /\ Chunk(f, i) /\ \A j \in i .. i + 8 : g[j] = f[j]
      BY <2>1, <3>1, <3>2
    <3> HIDE DEF i
    <3>4. Chunk(g, i)
      BY <3>3, ChunkKept
    <3> QED
      BY <3>4 DEF i
  <2>3. SameChunk(f, g, k)
    BY <1>2, <2>1 DEF SameChunk, TypeAt, PathAt, StampAt, DataAt
  <2> QED
    BY <2>2, <2>3
<1>5. /\ L + 1 = 9 * (n + 1) + 2 /\ L + 3 = 9 * (n + 1) + 4 /\ L + 5 = 9 * (n + 1) + 6
      /\ L + 7 = 9 * (n + 1) + 8 /\ L + 9 = 9 * (n + 1) + 10 /\ L + 9 = 10 + 9 * (n + 1)
      /\ n + 1 \in Nat
  BY <1>1
<1>6. NewChunk(g, n + 1, type, name_, time, len, content)
  BY <1>2, <1>5 DEF NewChunk, TypeAt, PathAt, StampAt, DataAt
<1>7. Bundled(g, n + 1)
  <2>1. \A k \in 1 .. n + 1 : k \in 1 .. n \/ k = n + 1
    BY <1>1
  <2>2. Chunk(g, 9 * (n + 1) + 2)
    BY <1>2, <1>5
  <2>3. \A k \in 1 .. n + 1 : Chunk(g, 9 * k + 2)
    BY <1>4, <2>1, <2>2
  <2>4. Len(g) = 10 + 9 * (n + 1)
    BY <1>2, <1>5
  <2> QED
    BY <1>3, <1>5, <2>3, <2>4 DEF Bundled
<1>8. Chain(g, r.pos)
  BY DEF Added, g
<1> QED
  BY <1>1, <1>4, <1>6, <1>7, <1>8 DEF f, g

\* What the steps that put a chunk add to the bundle.
LEMMA ChunkSteps ==
  ASSUME Typed, Shaped, Step, bs'.ok
  PROVE  /\ StampScript =>
              /\ bs.ok
              /\ Added(bs, bs', "SCJS", name, fs[ScriptFile[name]].time, seen.size, seen)
         /\ ReadItem =>
              /\ bs.ok
              /\ Added(bs, bs', "JSON", FileNamed(name), seen.time, seen.size,
                       IF seen.size = 0 THEN seen
                       ELSE Loaded(FileNamed(name)))
         /\ AddConstants =>
              /\ bs.ok
              /\ Added(bs, bs', "JSON", "generic/constants_min.json", constants.time,
                       ConstantsText.pos, ConstantsText.fields)
<1>1. IsStream(bs) /\ bs.pos <= BundleSize /\ seen.size \in Nat /\ input \in Inputs /\ Tokenized
  BY DEF Typed, StreamsTyped, PlacesTyped, DiskTyped
<1>2. ASSUME StampScript \/ ReadItem \/ AddConstants
      PROVE  bs.ok => IsRow(bs.fields) /\ Chain(bs.fields, bs.pos)
                      /\ \E n \in Nat : Bundled(bs.fields, n)
  <2>1. pc \in Behind \ {"identify"}
    BY <1>2 DEF StampScript, ReadItem, AddConstants, Do, Behind
  <2> QED
    BY <2>1 DEF Shaped
<1>3. CASE StampScript
  <2> DEFINE time == fs[ScriptFile[name]].time
             type == "SCJS"
             len == seen.size
             plen == LenOf(name)
  <2>1. bs' = PutExtf(bs, type, Field("text", plen, name), time, Data(len, seen))
    BY <1>3 DEF StampScript, Text
  <2>2. len \in Nat /\ plen \in Nat
    BY <1>1, Lengths
  <2> HIDE DEF time, type, len, plen
  <2>3. bs.ok /\ Added(bs, bs', type, name, time, len, seen)
    BY <1>1, <1>2, <1>3, <2>1, <2>2, ExtfPut
  <2>4. bs.ok /\ Added(bs, bs', "SCJS", name, fs[ScriptFile[name]].time, seen.size, seen)
    BY <2>3 DEF time, type, len
  <2>5. ~ReadItem /\ ~AddConstants
    BY <1>3 DEF StampScript, ReadItem, AddConstants, Do
  <2> QED
    BY <2>4, <2>5
<1>4. CASE ReadItem
  <2> DEFINE file == FileNamed(name)
             type == "JSON"
             time == seen.time
             len == seen.size
             plen == LenOf(name) + 24
             data == IF seen.size = 0 THEN seen ELSE Loaded(FileNamed(name))
  <2>1. bs' = PutExtf(bs, type, Field("text", plen, file), time, Data(len, data))
    BY <1>4 DEF ReadItem
  <2>2. len \in Nat /\ plen \in Nat
    BY <1>1, Lengths
  <2> HIDE DEF file, time, type, len, plen, data
  <2>3. bs.ok /\ Added(bs, bs', type, file, time, len, data)
    BY <1>1, <1>2, <1>4, <2>1, <2>2, ExtfPut
  <2>4. bs.ok /\ Added(bs, bs', "JSON", FileNamed(name), seen.time, seen.size,
                       IF seen.size = 0 THEN seen
                       ELSE Loaded(FileNamed(name)))
    BY <2>3 DEF file, time, type, len, data
  <2>5. ~StampScript /\ ~AddConstants
    BY <1>4 DEF StampScript, ReadItem, AddConstants, Do
  <2> QED
    BY <2>4, <2>5
<1>5. CASE AddConstants
  <2> DEFINE text == ConstantsText
             file == "generic/constants_min.json"
             type == "JSON"
             time == constants.time
             len == text.pos
             data == text.fields
             plen == 26
  <2>1. bs' = PutExtf(bs, type, Field("text", plen, file), time, Data(len, data))
    BY <1>5 DEF AddConstants
  <2>2. len \in Nat /\ plen \in Nat
    BY <1>1, ConstantFields DEF IsStream
  <2> HIDE DEF file, time, type, len, plen, data
  <2>3. bs.ok /\ Added(bs, bs', type, file, time, len, data)
    BY <1>1, <1>2, <1>5, <2>1, <2>2, ExtfPut
  <2>4. bs.ok /\ Added(bs, bs', "JSON", "generic/constants_min.json", constants.time,
                       ConstantsText.pos, ConstantsText.fields)
    BY <2>3 DEF file, time, type, len, data
  <2>5. ~StampScript /\ ~ReadItem
    BY <1>5 DEF StampScript, ReadItem, AddConstants, Do
  <2> QED
    BY <2>4, <2>5
<1> QED
  BY <1>3, <1>4, <1>5

\* DESC and the DDF come behind the headers.
LEMMA IdentifyPuts ==
  ASSUME Typed, Shaped, Identify, bs'.ok
  PROVE  /\ pc' = "scan" /\ IsRow(bs'.fields) /\ Chain(bs'.fields, bs'.pos)
         /\ Bundled(bs'.fields, 0) /\ bs'.fields[7].val = ss'.fields
         /\ bs'.fields[10].val = ddf /\ bs'.fields[10].len = ddf.size
<1>1. IsStream(bs) /\ bs.pos <= BundleSize /\ BundleSize \in Nat /\ ddf.size \in Nat
  BY SizesAre DEF Typed, StreamsTyped, PlacesTyped
<1> DEFINE text == ss'
           fields == << Size(4, text.pos), Data(text.pos, text.fields),
                        Tag("DDFC"), Size(4, ddf.size), Data(ddf.size, ddf) >>
<1>2. bs' = PutAll(bs, fields, BundleSize) /\ pc = "identify" /\ pc' = "scan"
  BY DEF Identify, Do, Go
<1>3. text.pos \in Nat
  <2>1. Step
    BY DEF Step
  <2> QED
    BY <2>1, StreamsKept DEF StreamsTyped, IsStream
<1>4. Len(fields) \in Nat /\ \A n \in 1 .. Len(fields) : fields[n].len \in Nat
  BY <1>1, <1>3 DEF Tag, Size, Data, Field
<1>5. bs.ok
  <2> HIDE DEF fields
  <2> QED
    BY <1>1, <1>2, <1>4, PutAllOk
<1>6. IsRow(bs.fields) /\ Headers(bs.fields, bs.pos)
  BY <1>2, <1>5 DEF Shaped, Behind
<1>7. /\ IsRow(bs'.fields) /\ Chain(bs'.fields, bs'.pos) /\ Bundled(bs'.fields, 0)
      /\ bs'.fields[7].val = ss'.fields
      /\ bs'.fields[10].val = ddf /\ bs'.fields[10].len = ddf.size
  <2> DEFINE tpos == text.pos
             tfields == text.fields
             size == ddf.size
  <2>1. tpos \in Nat /\ size \in Nat
    BY <1>1, <1>3
  <2>2. bs' = PutAll(bs, << Size(4, tpos), Data(tpos, tfields),
                            Tag("DDFC"), Size(4, size), Data(size, ddf) >>, BundleSize)
    BY <1>2
  <2> HIDE DEF tpos, tfields, size
  <2>3. /\ IsRow(bs'.fields) /\ Chain(bs'.fields, bs'.pos) /\ Bundled(bs'.fields, 0)
        /\ bs'.fields[7].val = tfields
        /\ bs'.fields[10].val = ddf /\ bs'.fields[10].len = size
    BY <1>1, <1>6, <2>1, <2>2, HeadIs
  <2> QED
    BY <2>3 DEF tfields, size
<1> QED
  BY <1>2, <1>7

LEMMA ShapedKept == ASSUME Typed, Shaped, [Next]_vars PROVE Shaped'
<1>2. CASE Describe /\ bs'.ok
  <2> DEFINE s == Stream(TRUE)
  <2>1. bs' = PutAll(s, << Tag("RIFF"), Size(4, 0), Tag("DDFB"), Size(4, 0), Tag("DESC") >>,
                     BundleSize)
    BY <1>2 DEF Describe
  <2>2. pc' = "identify"
    BY <1>2 DEF Describe, Go
  <2>3. IsStream(s) /\ s.pos = 0 /\ IsRow(s.fields) /\ Len(s.fields) = 0
    <3>1. <<>> \in Seq({}) /\ Len(<<>>) = 0
      OBVIOUS
    <3>2. IsStream(s) /\ s.pos = 0 /\ s.fields = <<>>
      BY DEF Stream, IsStream
    <3> QED
      BY <3>1, <3>2 DEF IsRow
  <2> HIDE DEF s
  <2>4. IsRow(bs'.fields) /\ Headers(bs'.fields, bs'.pos)
    BY <1>2, <2>1, <2>3, HeadersAre
  <2> QED
    BY <2>2, <2>4 DEF Shaped
<1>3. CASE Identify /\ bs'.ok
  <2>1. 0 \in Nat
    OBVIOUS
  <2> QED
    BY <1>3, <2>1, IdentifyPuts DEF Shaped
<1>4. ASSUME NEW type, NEW name_, NEW time, NEW len, NEW content, bs'.ok, bs.ok,
             Added(bs, bs', type, name_, time, len, content), pc \in Behind \ {"identify"},
             pc' # "identify"
      PROVE  Shaped'
  <2>1. PICK n \in Nat : Bundled(bs.fields, n)
    BY <1>4 DEF Shaped
  <2>2. Bundled(bs'.fields, n + 1) /\ Chain(bs'.fields, bs'.pos)
    BY <1>4, <2>1, ChunkMore
  <2>3. IsRow(bs'.fields) /\ n + 1 \in Nat
    BY <1>4, <2>1 DEF Added
  <2> QED
    BY <1>4, <2>2, <2>3 DEF Shaped
<1>5. CASE (StampScript \/ ReadItem \/ AddConstants) /\ Step /\ bs'.ok
  <2>1. pc \in Behind \ {"identify"} /\ pc' # "identify"
    BY <1>5 DEF StampScript, ReadItem, AddConstants, Do, Go, Behind
  <2> QED
    BY <1>4, <1>5, <2>1, ChunkSteps
<1>6. ASSUME UNCHANGED bs, pc' \in Behind => pc \in Behind /\ pc # "identify" /\ pc' # "identify"
      PROVE  Shaped'
  <2>1. SUFFICES ASSUME bs.ok, pc' \in Behind PROVE Shaped'
    BY <1>6 DEF Shaped, Behind
  <2>2. pc \in Behind \ {"identify"} /\ pc' \in Behind \ {"identify"}
    BY <1>6, <2>1
  <2>3. IsRow(bs.fields) /\ Chain(bs.fields, bs.pos) /\ \E n \in Nat : Bundled(bs.fields, n)
    BY <2>1, <2>2 DEF Shaped
  <2> QED
    BY <1>6, <2>2, <2>3 DEF Shaped
<1>7. CASE ~bs'.ok
  BY <1>7 DEF Shaped
<1>8. CASE Edit \/ Still
  BY <1>8 DEF Edit, Still, Shaped
<1>9. CASE \/ ScratchExhausted \/ GiveUp \/ Start \/ StatConstants \/ ReadConstants \/ LoadDdf
           \/ LoadScript \/ SkipScript \/ ScriptWithoutPath \/ NoMoreScripts
  <2>1. UNCHANGED bs
    BY <1>9 DEF ScratchExhausted, GiveUp, Start, StatConstants, ReadConstants, LoadDdf,
          LoadScript, SkipScript, ScriptWithoutPath, NoMoreScripts, Unchanged
  <2>2. pc' \in Behind => pc \in Behind /\ pc # "identify" /\ pc' # "identify"
    BY <1>9 DEF ScratchExhausted, GiveUp, Start, StatConstants, ReadConstants, LoadDdf,
          LoadScript, SkipScript, ScriptWithoutPath, NoMoreScripts, Do, Go, Behind
  <2> QED
    BY <1>6, <2>1, <2>2
<1>10. CASE \/ StartItems \/ EnterSubdevice \/ LeaveSubdevice \/ KnownItem \/ StatItem
            \/ NoMoreSubdevices \/ StoreBundle \/ StoreFails
  <2>1. UNCHANGED bs
    BY <1>10 DEF StartItems, EnterSubdevice, LeaveSubdevice, KnownItem, StatItem,
          NoMoreSubdevices, StoreBundle, StoreFails
  <2>2. pc' \in Behind => pc \in Behind /\ pc # "identify" /\ pc' # "identify"
    BY <1>10 DEF StartItems, EnterSubdevice, LeaveSubdevice, KnownItem, StatItem,
          NoMoreSubdevices, StoreBundle, StoreFails, Do, Go, Behind
  <2> QED
    BY <1>6, <2>1, <2>2
<1> QED
  BY <1>2, <1>3, <1>5, <1>7, <1>8, <1>9, <1>10, NextIs DEF Step

LEMMA AlwaysShaped == Spec => []Shaped
<1>1. Init => Shaped
  BY DEF Init, Shaped, Behind
<1> QED
  BY <1>1, AlwaysTyped, ShapedKept, PTL DEF Spec

\* The stored bundle is the one that was put, with both sizes of the whole.
Written == pc = "stored" => bs.ok /\ out = Patch(Patch(bs, 12), 4).fields

LEMMA WrittenKept == ASSUME Written, [Next]_vars PROVE Written'
<1>1. CASE Step /\ pc' = "stored"
  <2>1. StoreBundle
    BY <1>1 DEF Step, ScratchExhausted, GiveUp, Start, StatConstants, ReadConstants, LoadDdf,
       Describe, Identify, LoadScript, SkipScript, StampScript, ScriptWithoutPath,
       NoMoreScripts, StartItems, EnterSubdevice, LeaveSubdevice, KnownItem, StatItem,
       ReadItem, NoMoreSubdevices, AddConstants, StoreFails, Go
  <2>2. bs.ok /\ UNCHANGED bs /\ out' = Patch(Patch(bs, 12), 4).fields
    BY <2>1 DEF StoreBundle, Do, Succeeds
  <2> QED
    BY <2>2 DEF Written
<1>2. CASE pc' # "stored"
  BY <1>2 DEF Written
<1>3. CASE Edit
  <2>1. pc # "stored" /\ pc' = pc
    BY <1>3 DEF Edit, Ended
  <2> QED
    BY <2>1 DEF Written
<1>4. CASE Still
  BY <1>4 DEF Still, Written
<1> QED
  BY <1>1, <1>2, <1>3, <1>4, NextIs

LEMMA AlwaysWritten == Spec => []Written
<1>1. Init => Written
  BY DEF Init, Written
<1> QED
  BY <1>1, WrittenKept, PTL DEF Spec

Whole(n) ==
  /\ IsRow(out) /\ Bundled(out, n) /\ Chain(out, bs.pos)
  /\ out[2].val = bs.pos - 8 /\ out[4].val = bs.pos - 16
  /\ \A k \in 1 .. n : SameChunk(bs.fields, out, k)
  /\ out[7] = bs.fields[7] /\ out[10] = bs.fields[10]

LEMMA StoredWhole ==
  ASSUME Typed, Shaped, Written, pc = "stored", NEW n, Bundled(bs.fields, n)
  PROVE  Whole(n)
<1> DEFINE q == Patch(bs, 12)
           r == Patch(q, 4)
           f == bs.fields
           g == q.fields
           h == r.fields
           L == 10 + 9 * n
<1>1. /\ bs.ok /\ IsStream(bs) /\ IsRow(f) /\ Chain(f, bs.pos) /\ out = h
      /\ bs.pos \in Nat
  BY DEF Shaped, Behind, Typed, StreamsTyped, Written, IsStream
<1>2. /\ n \in Nat /\ Len(f) = L /\ Headed(f) /\ \A k \in 1 .. n : Chunk(f, 9 * k + 2)
  BY DEF Bundled
<1>3. /\ f[1].at = 0
      /\ \A j \in 1 .. L :
           /\ IsField(f[j]) /\ f[j].at \in Nat /\ f[j].len \in Nat
           /\ f[j].at + f[j].len = IF j = L THEN bs.pos ELSE f[j + 1].at
           /\ f[j].at + f[j].len <= bs.pos /\ (j > 4 => f[j].at >= 16)
  BY <1>1, <1>2 DEF Chain
<1>4. /\ IsStream(q) /\ IsRow(g) /\ q.pos = bs.pos /\ q.ok /\ Len(g) = L
      /\ \A i \in 1 .. L :
           /\ IsField(g[i]) /\ g[i].is = f[i].is /\ g[i].len = f[i].len /\ g[i].at = f[i].at
           /\ f[i].is = "size" /\ f[i].at = 12 => g[i].val = bs.pos - (12 + 4)
           /\ ~(f[i].is = "size" /\ f[i].at = 12) => g[i] = f[i]
  <2>1. \A i \in 1 .. Len(f) : IsField(f[i])
    BY <1>2, <1>3
  <2> DEFINE pos == 12
  <2>2. q = Patch(bs, pos)
    OBVIOUS
  <2> HIDE DEF q, pos
  <2>3. /\ IsStream(q) /\ IsRow(q.fields) /\ q.pos = bs.pos /\ q.ok
        /\ Len(q.fields) = Len(bs.fields)
        /\ \A i \in 1 .. Len(bs.fields) :
             LET a == bs.fields[i]
                 b == q.fields[i]
             IN  /\ IsField(b) /\ b.is = a.is /\ b.len = a.len /\ b.at = a.at
                 /\ a.is = "size" /\ a.at = pos => b.val = bs.pos - (pos + 4)
                 /\ ~(a.is = "size" /\ a.at = pos) => b = a
    <3>1. bs.ok /\ IsStream(bs) /\ IsRow(bs.fields)
      BY <1>1
    <3>2. \A i \in 1 .. Len(bs.fields) : IsField(bs.fields[i])
      BY <2>1
    <3> HIDE DEF f, g
    <3> QED
      BY <2>2, <3>1, <3>2, PatchIs
  <2> QED
    BY <1>1, <1>2, <2>3 DEF pos
<1>5. /\ IsRow(h) /\ Len(h) = L
      /\ \A i \in 1 .. L :
           /\ IsField(h[i]) /\ h[i].is = g[i].is /\ h[i].len = g[i].len /\ h[i].at = g[i].at
           /\ g[i].is = "size" /\ g[i].at = 4 => h[i].val = bs.pos - (4 + 4)
           /\ ~(g[i].is = "size" /\ g[i].at = 4) => h[i] = g[i]
  <2>1. \A i \in 1 .. Len(g) : IsField(g[i])
    BY <1>4
  <2> DEFINE pos == 4
  <2>2. r = Patch(q, pos)
    OBVIOUS
  <2> HIDE DEF q, r, pos
  <2>3. /\ IsRow(r.fields)
        /\ Len(r.fields) = Len(q.fields)
        /\ \A i \in 1 .. Len(q.fields) :
             LET a == q.fields[i]
                 b == r.fields[i]
             IN  /\ IsField(b) /\ b.is = a.is /\ b.len = a.len /\ b.at = a.at
                 /\ a.is = "size" /\ a.at = pos => b.val = q.pos - (pos + 4)
                 /\ ~(a.is = "size" /\ a.at = pos) => b = a
    BY <1>4, <2>1, <2>2, PatchIs
  <2> QED
    BY <1>4, <2>3 DEF pos
<1> HIDE DEF q, r, f, g, h
<1>6. /\ f[1].is = "tag" /\ f[2].is = "size" /\ f[2].at = 4 /\ f[3].is = "tag"
      /\ f[4].is = "size" /\ f[4].at = 12
  BY <1>2 DEF Headed
<1>7. /\ 1 \in 1 .. L /\ 2 \in 1 .. L /\ 3 \in 1 .. L /\ 4 \in 1 .. L
      /\ \A i \in 1 .. L : i \in {1, 2, 3, 4} \/ i > 4
  BY <1>2
<1>8. \A i \in 1 .. L : i \notin {2, 4} => h[i] = f[i]
  <2> SUFFICES ASSUME NEW i \in 1 .. L, i \notin {2, 4} PROVE h[i] = f[i]
    OBVIOUS
  <2>1. ~(f[i].is = "size" /\ f[i].at = 12) /\ ~(f[i].is = "size" /\ f[i].at = 4)
    <3>1. CASE i \in {1, 3}
      BY <1>6, <3>1
    <3>2. CASE i > 4
      <4>1. f[i].at >= 16 /\ f[i].at \in Nat
        BY <1>3, <3>2
      <4> QED
        BY <4>1
    <3> QED
      BY <1>7, <3>1, <3>2
  <2>2. g[i] = f[i]
    BY <1>4, <2>1
  <2> QED
    BY <1>5, <2>1, <2>2
<1>9. h[2].val = bs.pos - 8
  <2>1. g[2].is = "size" /\ g[2].at = 4
    BY <1>4, <1>6, <1>7
  <2>2. h[2].val = bs.pos - (4 + 4)
    BY <1>5, <1>7, <2>1
  <2> QED
    BY <1>1, <2>2
<1>10. h[4].val = bs.pos - 16
  <2>1. g[4].is = "size" /\ g[4].at = 12 /\ g[4].val = bs.pos - (12 + 4)
    BY <1>4, <1>6, <1>7
  <2>2. h[4] = g[4]
    BY <1>5, <1>7, <2>1
  <2> QED
    BY <1>1, <2>1, <2>2
<1>11. Headed(h) /\ h[7] = f[7] /\ h[10] = f[10]
  <2>1. \A i \in {1, 3, 5, 6, 7, 8, 9, 10} : i \in 1 .. L /\ i \notin {2, 4}
    BY <1>2
  <2>2. /\ h[1] = f[1] /\ h[3] = f[3] /\ h[5] = f[5] /\ h[6] = f[6] /\ h[7] = f[7]
        /\ h[8] = f[8] /\ h[9] = f[9] /\ h[10] = f[10]
    BY <1>8, <2>1
  <2>3. h[2].is = "size" /\ h[2].at = 4 /\ h[4].is = "size" /\ h[4].at = 12
    BY SMTT(30), <1>4, <1>5, <1>6, <1>7
  <2> QED
    BY <1>2, <2>2, <2>3 DEF Headed
<1>12. ASSUME NEW k \in 1 .. n
       PROVE  Chunk(h, 9 * k + 2) /\ SameChunk(f, h, k)
  <2> DEFINE i == 9 * k + 2
  <2>1. /\ i \in Nat /\ \A j \in i .. i + 8 : j \in 1 .. L /\ j \notin {2, 4}
        /\ 9 * k + 4 \in i .. i + 8 /\ 9 * k + 6 \in i .. i + 8 /\ 9 * k + 8 \in i .. i + 8
        /\ 9 * k + 10 \in i .. i + 8
    BY <1>2
  <2>2. Chunk(f, i)
    BY <1>2
  <2> HIDE DEF i
  <2>3. \A j \in i .. i + 8 : h[j] = f[j]
    BY <1>8, <2>1
  <2>4. Chunk(h, i)
    BY <2>1, <2>2, <2>3, ChunkKept
  <2>5. SameChunk(f, h, k)
    BY <2>1, <2>3 DEF SameChunk, TypeAt, PathAt, StampAt, DataAt
  <2> QED
    BY <2>4, <2>5 DEF i
<1>13. Bundled(h, n)
  BY <1>2, <1>5, <1>11, <1>12 DEF Bundled
<1>14. Chain(h, bs.pos)
  <2>1. \A i \in 1 .. L : IsField(h[i]) /\ h[i].at = f[i].at /\ h[i].len = f[i].len
    BY <1>4, <1>5
  <2>2. \A i \in 1 .. L : i # L => h[i + 1].at = f[i + 1].at
    <3>1. \A i \in 1 .. L : i # L => i + 1 \in 1 .. L
      BY <1>2
    <3> QED
      BY <2>1, <3>1
  <2>3. h[1].at = 0
    BY <1>3, <1>7, <2>1
  <2>4. ASSUME NEW i \in 1 .. L
        PROVE  /\ IsField(h[i]) /\ h[i].at \in Nat /\ h[i].len \in Nat
               /\ h[i].at + h[i].len = IF i = L THEN bs.pos ELSE h[i + 1].at
               /\ h[i].at + h[i].len <= bs.pos /\ (i > 4 => h[i].at >= 16)
    BY <1>3, <2>1, <2>2
  <2> QED
    BY <1>5, <2>3, <2>4 DEF Chain
<1> QED
  BY <1>1, <1>5, <1>9, <1>10, <1>11, <1>12, <1>13, <1>14 DEF Whole, f

\* A field is one of the headers, of DESC and DDFC or of a chunk.
LEMMA FieldCases ==
  ASSUME NEW n \in Nat, NEW j \in 1 .. 10 + 9 * n
  PROVE  \/ j \in {1, 2, 3, 4, 5, 6, 7, 8, 9, 10}
         \/ \E k \in 1 .. n : \E m \in 0 .. 8 : j = 9 * k + 2 + m
<1>1. CASE j <= 10
  BY <1>1
<1>2. CASE j > 10
  <2> DEFINE k == (j - 2) \div 9
             m == (j - 2) % 9
  <2>1. k \in Int /\ m \in 0 .. 8 /\ j - 2 = 9 * k + m
    BY <1>2
  <2> HIDE DEF k, m
  <2>2. k >= 1 /\ k <= n
    BY <1>2, <2>1
  <2>3. k \in 1 .. n /\ j = 9 * k + 2 + m
    BY <2>1, <2>2
  <2> QED
    BY <2>1, <2>3
<1> QED
  BY <1>1, <1>2

LEMMA TagsAre ==
  ASSUME NEW f, NEW n, Bundled(f, n), IsRow(f)
  PROVE  Kind(f, "tag") = {1, 3, 5, 8} \cup {9 * k + 2 : k \in 1 .. n}
<1>1. /\ n \in Nat /\ Len(f) = 10 + 9 * n /\ Headed(f) /\ \A k \in 1 .. n : Chunk(f, 9 * k + 2)
      /\ DOMAIN f = 1 .. 10 + 9 * n
  BY DEF Bundled, IsRow
<1>2. ASSUME NEW j \in 1 .. 10 + 9 * n, f[j].is = "tag"
      PROVE  j \in {1, 3, 5, 8} \cup {9 * k + 2 : k \in 1 .. n}
  <2>1. CASE j \in {1, 2, 3, 4, 5, 6, 7, 8, 9, 10}
    <3>1. j \notin {2, 4, 6, 7, 9, 10}
      BY <1>1, <1>2 DEF Headed
    <3> QED
      BY <2>1, <3>1
  <2>2. ASSUME NEW k \in 1 .. n, NEW m \in 0 .. 8, j = 9 * k + 2 + m
        PROVE  j = 9 * k + 2
    <3> DEFINE i == 9 * k + 2
    <3>1. j = i + m /\ i \in Nat /\ Chunk(f, i)
      BY <1>1, <2>2
    <3> HIDE DEF i
    <3>2. m \in {0, 1, 2, 3, 4, 5, 6, 7, 8}
      OBVIOUS
    <3>3. m \notin {1, 2, 3, 4, 5, 6, 7, 8}
      BY <1>2, <3>1 DEF Chunk
    <3>4. m = 0
      BY <3>2, <3>3
    <3>5. j = i
      BY <3>1, <3>4
    <3> QED
      BY <3>5 DEF i
  <2>3. CASE j \notin {1, 2, 3, 4, 5, 6, 7, 8, 9, 10}
    <3>1. PICK k \in 1 .. n : \E m \in 0 .. 8 : j = 9 * k + 2 + m
      BY <1>1, <2>3, FieldCases
    <3>2. j = 9 * k + 2
      BY <2>2, <3>1
    <3>3. j \in {9 * c + 2 : c \in 1 .. n}
      BY <3>2
    <3> QED
      BY <3>3
  <2> QED
    BY <2>1, <2>3
<1>3. /\ f[1].is = "tag" /\ f[3].is = "tag" /\ f[5].is = "tag" /\ f[8].is = "tag"
      /\ 1 \in 1 .. 10 + 9 * n /\ 3 \in 1 .. 10 + 9 * n
      /\ 5 \in 1 .. 10 + 9 * n /\ 8 \in 1 .. 10 + 9 * n
  BY <1>1 DEF Headed
<1>4. \A k \in 1 .. n : f[9 * k + 2].is = "tag" /\ 9 * k + 2 \in 1 .. 10 + 9 * n
  BY <1>1 DEF Chunk
<1>5. Kind(f, "tag") = {i \in 1 .. 10 + 9 * n : f[i].is = "tag"}
  BY <1>1 DEF Kind
<1>6. \A i \in Kind(f, "tag") : i \in {1, 3, 5, 8} \cup {9 * k + 2 : k \in 1 .. n}
  BY <1>2, <1>5
<1>7. \A i \in {1, 3, 5, 8} \cup {9 * k + 2 : k \in 1 .. n} : i \in Kind(f, "tag")
  BY <1>3, <1>4, <1>5
<1> QED
  BY <1>6, <1>7

LEMMA TypesAre ==
  ASSUME NEW f, NEW n, Bundled(f, n), IsRow(f)
  PROVE  Kind(f, "type") = {9 * k + 4 : k \in 1 .. n}
<1>1. /\ n \in Nat /\ Len(f) = 10 + 9 * n /\ Headed(f) /\ \A k \in 1 .. n : Chunk(f, 9 * k + 2)
      /\ DOMAIN f = 1 .. 10 + 9 * n
  BY DEF Bundled, IsRow
<1>2. ASSUME NEW j \in 1 .. 10 + 9 * n, f[j].is = "type"
      PROVE  j \in {9 * k + 4 : k \in 1 .. n}
  <2>1. j \notin {1, 2, 3, 4, 5, 6, 7, 8, 9, 10}
    BY <1>1, <1>2 DEF Headed
  <2>2. ASSUME NEW k \in 1 .. n, NEW m \in 0 .. 8, j = 9 * k + 2 + m
        PROVE  j = 9 * k + 4
    <3> DEFINE i == 9 * k + 2
    <3>1. j = i + m /\ i \in Nat /\ Chunk(f, i)
      BY <1>1, <2>2
    <3> HIDE DEF i
    <3>2. m \in {0, 1, 2, 3, 4, 5, 6, 7, 8}
      OBVIOUS
    <3>3. m \notin {1, 3, 4, 5, 6, 7, 8}
      BY <1>2, <3>1 DEF Chunk
    <3>4. m # 0
      BY <1>2, <3>1 DEF Chunk
    <3>5. m = 2
      BY <3>2, <3>3, <3>4
    <3>6. j = i + 2
      BY <3>1, <3>5
    <3> QED
      BY <3>6 DEF i
  <2>3. CASE j \in {1, 2, 3, 4, 5, 6, 7, 8, 9, 10}
    BY <2>1, <2>3
  <2>4. CASE \E k \in 1 .. n : \E m \in 0 .. 8 : j = 9 * k + 2 + m
    <3>1. PICK k \in 1 .. n, m \in 0 .. 8 : j = 9 * k + 2 + m
      BY <2>4
    <3>2. j = 9 * k + 4
      BY <2>2, <3>1
    <3> QED
      BY <3>2
  <2> QED
    BY <1>1, <2>3, <2>4, FieldCases
<1>3. ASSUME NEW k \in 1 .. n
      PROVE  f[9 * k + 4].is = "type" /\ 9 * k + 4 \in 1 .. 10 + 9 * n
  <2> DEFINE i == 9 * k + 2
  <2>1. Chunk(f, i) /\ i + 2 = 9 * k + 4
    BY <1>1
  <2> HIDE DEF i
  <2>2. f[i + 2].is = "type"
    BY <2>1 DEF Chunk
  <2> QED
    BY <1>1, <2>1, <2>2
<1>4. Kind(f, "type") = {i \in 1 .. 10 + 9 * n : f[i].is = "type"}
  BY <1>1 DEF Kind
<1>5. \A i \in Kind(f, "type") : i \in {9 * k + 4 : k \in 1 .. n}
  BY <1>2, <1>4
<1>6. \A i \in {9 * k + 4 : k \in 1 .. n} : i \in Kind(f, "type")
  BY <1>3, <1>4
<1> QED
  BY <1>5, <1>6

\* The tag that comes next.
LEMMA NextTag ==
  ASSUME NEW n \in Nat, NEW tags, tags = {1, 3, 5, 8} \cup {9 * k + 2 : k \in 1 .. n},
         NEW i \in Nat, NEW next \in tags, next > i, \A j \in tags : j > i => next <= j
  PROVE  Min({j \in tags : j > i}) = next
<1> DEFINE S == {j \in tags : j > i}
<1>1. next \in S /\ (\A j \in S : next <= j) /\ \A j \in S : j \in Nat
  OBVIOUS
<1> HIDE DEF S
<1>2. Min(S) = CHOOSE k \in S : \A j \in S : k <= j
  BY DEF Min
<1>3. \A k \in S : (\A j \in S : k <= j) => k = next
  BY <1>1
<1>4. Min(S) = next
  BY <1>1, <1>2, <1>3
<1> QED
  BY <1>4 DEF S

LEMMA WholeAgrees ==
  ASSUME Typed, NEW n, Whole(n)
  PROVE  ChunksAgree
<1> DEFINE L == 10 + 9 * n
           tags == Kind(out, "tag")
           next(i) == IF \E j \in tags : j > i THEN out[Min({j \in tags : j > i})].at ELSE End
<1>1. /\ n \in Nat /\ Len(out) = L /\ Headed(out) /\ \A k \in 1 .. n : Chunk(out, 9 * k + 2)
      /\ IsRow(out) /\ out[2].val = bs.pos - 8 /\ out[4].val = bs.pos - 16
  BY DEF Whole, Bundled
<1>2. \A j \in 1 .. L :
        /\ out[j].at \in Nat /\ out[j].len \in Nat
        /\ out[j].at + out[j].len = IF j = L THEN bs.pos ELSE out[j + 1].at
  BY <1>1 DEF Whole, Chain
<1>3. tags = {1, 3, 5, 8} \cup {9 * k + 2 : k \in 1 .. n}
  BY <1>1, TagsAre DEF Whole
<1>4. End = bs.pos
  <2>1. L \in 1 .. L
    BY <1>1
  <2> QED
    BY <1>1, <1>2, <2>1 DEF End
<1> HIDE DEF tags
<1>5. ASSUME NEW i \in Nat, NEW m \in tags, m > i, \A j \in tags : j > i => m <= j
      PROVE  next(i) = out[m].at
  BY <1>1, <1>3, <1>5, NextTag
<1>6. ASSUME NEW i \in Nat, \A j \in tags : j <= i
      PROVE  next(i) = bs.pos
  <2>1. \A j \in tags : j \in Nat
    BY <1>1, <1>3
  <2>2. ~\E j \in tags : j > i
    BY <1>6, <2>1
  <2> QED
    BY <1>4, <2>2
<1> HIDE DEF next
<1>7. out[5].at + 8 + out[6].val = next(5)
  <2>1. next(5) = out[8].at
    <3>1. 8 \in tags /\ \A j \in tags : j > 5 => 8 <= j
      BY <1>1, <1>3
    <3> QED
      BY <1>5, <3>1
  <2>2. 5 \in 1 .. L /\ 6 \in 1 .. L /\ 7 \in 1 .. L /\ 5 # L /\ 6 # L /\ 7 # L
    BY <1>1
  <2>3. /\ out[5].at + out[5].len = out[6].at /\ out[6].at + out[6].len = out[7].at
        /\ out[7].at + out[7].len = out[8].at
        /\ out[5].at \in Nat /\ out[6].at \in Nat /\ out[7].at \in Nat /\ out[7].len \in Nat
    BY <1>2, <2>2
  <2>4. out[5].len = 4 /\ out[6].len = 4 /\ out[6].val = out[7].len
    BY <1>1 DEF Headed
  <2> QED
    BY <2>1, <2>3, <2>4
<1>8. out[8].at + 8 + out[9].val = next(8)
  <2>1. 8 \in 1 .. L /\ 9 \in 1 .. L /\ 10 \in 1 .. L /\ 8 # L /\ 9 # L
    BY <1>1
  <2>2. /\ out[8].at + out[8].len = out[9].at /\ out[9].at + out[9].len = out[10].at
        /\ out[10].at + out[10].len = IF 10 = L THEN bs.pos ELSE out[11].at
        /\ out[8].at \in Nat /\ out[9].at \in Nat /\ out[10].at \in Nat /\ out[10].len \in Nat
    BY <1>2, <2>1
  <2>3. out[8].len = 4 /\ out[9].len = 4 /\ out[9].val = out[10].len
    BY <1>1 DEF Headed
  <2>4. out[8].at + 8 + out[9].val = out[10].at + out[10].len
    BY <2>2, <2>3
  <2>5. CASE n = 0
    <3>1. \A j \in tags : j <= 8
      BY <1>3, <2>5
    <3>2. next(8) = bs.pos /\ 10 = L
      BY <1>6, <2>5, <3>1
    <3> QED
      BY <2>2, <2>4, <3>2
  <2>6. CASE n # 0
    <3>1. 11 \in tags /\ \A j \in tags : j > 8 => 11 <= j
      <4>1. 1 \in 1 .. n /\ 11 = 9 * 1 + 2 /\ \A k \in 1 .. n : 11 <= 9 * k + 2
        BY <1>1, <2>6
      <4>2. 11 \in {9 * k + 2 : k \in 1 .. n}
        BY <4>1
      <4> QED
        BY <1>3, <4>1, <4>2
    <3>2. next(8) = out[11].at /\ 10 # L
      BY <1>1, <1>5, <2>6, <3>1
    <3> QED
      BY <2>2, <2>4, <3>2
  <2> QED
    BY <2>5, <2>6
<1>9. ASSUME NEW k \in 1 .. n
      PROVE  out[9 * k + 2].at + 8 + out[9 * k + 2 + 1].val = next(9 * k + 2)
  <2> DEFINE i == 9 * k + 2
  <2>1. i \in 1 .. L /\ i + 8 \in 1 .. L /\ i \in Nat /\ Chunk(out, i)
    BY <1>1
  <2>2. /\ out[i].at \in Nat /\ out[i + 8].at \in Nat /\ out[i + 8].len \in Nat
        /\ out[i + 8].at + out[i + 8].len = IF i + 8 = L THEN bs.pos ELSE out[(i + 8) + 1].at
    BY <1>2, <2>1
  <2>3. out[i + 1].val = out[i + 8].at + out[i + 8].len - (out[i].at + 8)
    BY <2>1 DEF Chunk
  <2>4. out[i].at + 8 + out[i + 1].val = out[i + 8].at + out[i + 8].len
    <3> HIDE DEF i
    <3> QED
      BY <2>2, <2>3
  <2>5. CASE k = n
    <3>1. i + 8 = L /\ \A j \in tags : j <= i
      BY <1>1, <1>3, <2>5
    <3>2. next(i) = bs.pos
      BY <1>6, <2>1, <3>1
    <3> QED
      BY <2>2, <2>4, <3>1, <3>2
  <2>6. CASE k # n
    <3>1. k + 1 \in 1 .. n /\ i + 9 = 9 * (k + 1) + 2 /\ i + 8 # L /\ (i + 8) + 1 = i + 9
      BY <1>1, <2>6
    <3>2. i + 9 \in tags
      BY <1>3, <3>1
    <3>3. \A j \in tags : j > i => i + 9 <= j
      BY <1>1, <1>3
    <3>4. next(i) = out[i + 9].at
      BY <1>5, <2>1, <3>2, <3>3
    <3> QED
      BY <2>2, <2>4, <3>1, <3>4
  <2> QED
    BY <2>5, <2>6
<1>10. ASSUME NEW i \in tags, i > 4 PROVE out[i].at + 8 + out[i + 1].val = next(i)
  <2>1. i \in {5, 8} \/ i \in {9 * k + 2 : k \in 1 .. n}
    BY <1>3, <1>10
  <2>2. CASE i = 5
    BY <1>7, <2>2
  <2>3. CASE i = 8
    BY <1>8, <2>3
  <2>4. CASE i \in {9 * k + 2 : k \in 1 .. n}
    BY <1>9, <2>4
  <2> QED
    BY <2>1, <2>2, <2>3, <2>4
<1>11. ASSUME NEW i \in tags, out[i].val = "EXTF", NEW k \in {i + 3, i + 5, i + 7}
       PROVE  out[k].val = out[k + 1].len
  <2>1. i \notin {1, 3, 5, 8}
    BY <1>1, <1>11 DEF Headed
  <2>2. PICK c \in 1 .. n : i = 9 * c + 2
    BY <1>3, <2>1
  <2>3. Chunk(out, i) /\ i \in Nat
    BY <1>1, <2>2
  <2>4. /\ out[i + 3].val = out[i + 4].len /\ out[i + 5].val = out[i + 6].len
        /\ out[i + 7].val = out[i + 8].len
    BY <2>3 DEF Chunk
  <2>5. (i + 3) + 1 = i + 4 /\ (i + 5) + 1 = i + 6 /\ (i + 7) + 1 = i + 8
    BY <2>3
  <2> QED
    BY <2>4, <2>5
<1>12. out[2].val = End - 8 /\ out[4].val = End - 16
  BY <1>1, <1>4
<1> QED
  BY <1>10, <1>11, <1>12 DEF ChunksAgree, tags, next

LEMMA Agree == ASSUME Typed, Shaped, Written PROVE ChunksAgree
<1>1. CASE pc = "stored"
  <2>1. PICK n \in Nat : Bundled(bs.fields, n)
    <3>1. bs.ok
      BY <1>1 DEF Written
    <3> QED
      BY <1>1, <3>1 DEF Shaped, Behind
  <2> QED
    BY <1>1, <2>1, StoredWhole, WholeAgrees
<1>2. CASE pc # "stored"
  BY <1>2 DEF ChunksAgree, Stored
<1> QED
  BY <1>1, <1>2

\* A reader who follows the sizes of a stored bundle comes from chunk to chunk and to
\* its end, whatever was put and patched into it.
THEOREM CreateChunks == Spec => []ChunksAgree
<1> QED
  BY AlwaysTyped, AlwaysShaped, AlwaysWritten, Agree, PTL

-----------------------------------------------------------------------------
(* What the chunks hold.                                                   *)

Filling  == Behind \ {"identify"}
Complete == {"store", "stored", "not_written"}

\* The chunks of scripts and items are all but the last one of a complete bundle,
\* which holds the constants.
Filed(n) == 1 .. (IF pc \in Complete THEN n - 1 ELSE n)

LEMMA OneLength == ASSUME NEW f, NEW n, NEW m, Bundled(f, n), Bundled(f, m) PROVE n = m
<1>1. n \in Nat /\ m \in Nat /\ 10 + 9 * n = 10 + 9 * m
  BY DEF Bundled
<1> QED
  BY <1>1

\* A step starts the bundle, leaves it or adds a chunk.
Adds(n, type, name_, time, len, content) ==
  /\ bs.ok /\ pc \in Filling \ Complete /\ n \in Nat \ {0} /\ Bundled(bs.fields, n - 1)
  /\ \A k \in 1 .. n - 1 : SameChunk(bs.fields, bs'.fields, k)
  /\ NewChunk(bs'.fields, n, type, name_, time, len, content)
  /\ \A i \in 1 .. 10 : bs'.fields[i] = bs.fields[i]

LEMMA AddsIs ==
  ASSUME Typed, Shaped, bs'.ok, NEW n, Bundled(bs'.fields, n), bs.ok, pc \in Filling \ Complete,
         NEW type, NEW name_, NEW time, NEW len, NEW content,
         Added(bs, bs', type, name_, time, len, content)
  PROVE  Adds(n, type, name_, time, len, content)
<1>1. PICK m \in Nat : Bundled(bs.fields, m)
  BY DEF Shaped, Filling
<1>2. /\ Bundled(bs'.fields, m + 1)
      /\ \A k \in 1 .. m : SameChunk(bs.fields, bs'.fields, k)
      /\ NewChunk(bs'.fields, m + 1, type, name_, time, len, content)
  BY <1>1, ChunkMore
<1>3. n = m + 1
  BY <1>2, OneLength
<1>4. n \in Nat \ {0} /\ n - 1 = m
  BY <1>1, <1>3
<1>5. \A i \in 1 .. 10 : bs'.fields[i] = bs.fields[i]
  <2>1. Len(bs.fields) = 10 + 9 * m
    BY <1>1 DEF Bundled
  <2>2. \A i \in 1 .. 10 : i \in 1 .. Len(bs.fields)
    BY <1>1, <2>1
  <2>3. \A i \in 1 .. Len(bs.fields) : bs'.fields[i] = bs.fields[i]
    BY DEF Added
  <2> QED
    BY <2>2, <2>3
<1> QED
  BY <1>1, <1>2, <1>3, <1>4, <1>5 DEF Adds

LEMMA BundleChanges ==
  ASSUME Typed, Shaped, Step, bs'.ok, pc' \in Filling, NEW n, Bundled(bs'.fields, n)
  PROVE  \/ Identify /\ n = 0
         \/ /\ UNCHANGED bs /\ pc \in Filling /\ (pc' \in Complete <=> pc \in Complete)
            /\ ~StampScript /\ ~ReadItem
         \/ /\ StampScript
            /\ Adds(n, "SCJS", name, fs[ScriptFile[name]].time, seen.size, seen)
         \/ /\ ReadItem
            /\ Adds(n, "JSON", FileNamed(name), seen.time, seen.size,
                    IF seen.size = 0 THEN seen
                    ELSE Loaded(FileNamed(name)))
         \/ /\ AddConstants
            /\ Adds(n, "JSON", "generic/constants_min.json", constants.time,
                    ConstantsText.pos, ConstantsText.fields)
<1>1. CASE Identify
  <2>1. Bundled(bs'.fields, 0)
    BY <1>1, IdentifyPuts
  <2> QED
    BY <1>1, <2>1, OneLength
<1>2. ASSUME StampScript \/ ReadItem \/ AddConstants PROVE pc \in Filling \ Complete
  BY <1>2 DEF StampScript, ReadItem, AddConstants, Do, Filling, Behind, Complete
<1>3. CASE StampScript
  BY <1>2, <1>3, ChunkSteps, AddsIs
<1>4. CASE ReadItem
  BY <1>2, <1>4, ChunkSteps, AddsIs
<1>5. CASE AddConstants
  BY <1>2, <1>5, ChunkSteps, AddsIs
<1>6. CASE \/ ScratchExhausted \/ GiveUp \/ Start \/ StatConstants \/ ReadConstants \/ LoadDdf
           \/ Describe
  BY <1>6 DEF ScratchExhausted, GiveUp, Start, StatConstants, ReadConstants, LoadDdf, Describe, Go,
        Filling, Behind
<1>7. CASE \/ LoadScript \/ SkipScript \/ ScriptWithoutPath \/ NoMoreScripts \/ StartItems
           \/ EnterSubdevice \/ LeaveSubdevice \/ KnownItem \/ StatItem \/ NoMoreSubdevices
           \/ StoreBundle \/ StoreFails
  <2>1. UNCHANGED bs
    BY <1>7 DEF LoadScript, SkipScript, ScriptWithoutPath, NoMoreScripts, StartItems,
          EnterSubdevice, LeaveSubdevice, KnownItem, StatItem, NoMoreSubdevices, StoreBundle,
          StoreFails
  <2>2. /\ pc \in Filling /\ (pc' \in Complete <=> pc \in Complete)
        /\ pc # "stamp_script" /\ pc # "read_item"
    BY <1>7 DEF LoadScript, SkipScript, ScriptWithoutPath, NoMoreScripts, StartItems,
          EnterSubdevice, LeaveSubdevice, KnownItem, StatItem, NoMoreSubdevices, StoreBundle,
          StoreFails, Do, Go, Filling, Behind, Complete
  <2>3. ~StampScript /\ ~ReadItem
    BY <2>2 DEF StampScript, ReadItem, Do
  <2> QED
    BY <2>1, <2>2, <2>3
<1> QED
  BY <1>1, <1>3, <1>4, <1>5, <1>6, <1>7 DEF Step

\* The file has not gone back behind a time it had.
Since(file, time) == fs[file].time = 0 \/ fs[file].time >= time

\* The file whose size and time are known while it is opened and read.
Measured == IF pc = "read_constants" THEN "constants" ELSE FileNamed(name)

\* The editor's time goes on: what a file has of it when it is opened, read or
\* asked for its time is not behind what it had before.
TimesNoted ==
  /\ \A file \in Files : fs[file].time <= edits + 1
  /\ seen.time \in Nat /\ seen.time <= edits + 1
  /\ seen.last \in Nat /\ seen.last <= edits + 1
  /\ opened.time <= edits + 1
  /\ pc = "stamp_script" => ScriptFile[name] \in Files /\ Since(ScriptFile[name], seen.last)
  /\ pc \in {"read_constants", "read_item"} =>
       /\ Since(Measured, seen.time)
       /\ opened.open /\ opened.size > 0 => opened.time >= seen.time
  /\ pc = "read_constants" => seen.size >= 8

LEMMA NothingSeen == NoContent.time = 0 /\ NoContent.size = 0 /\ NoContent.last = 0
  BY DEF NoContent, Content

LEMMA TimesAtFirst == Init => TimesNoted
<1> SUFFICES ASSUME Init PROVE TimesNoted
  OBVIOUS
<1>1. \A file \in Files : fs[file].time <= 1 /\ edits = 0
  <2>1. \A file \in Files : fs[file].time \in 0 .. 1
    BY CreateAssumption DEF Init
  <2> QED
    BY <2>1 DEF Init
<1>2. seen.time = 0 /\ seen.last = 0 /\ pc = "start"
  BY NothingSeen DEF Init
<1>3. edits = 0 /\ opened.time = 0
  BY DEF Init, Closed
<1> QED
  BY <1>1, <1>2, <1>3 DEF TimesNoted

LEMMA MeasuredFile == Measured \in Files
  BY NamedFile, CreateAssumption DEF Measured

\* What a step asks for, or reads, is of now.
LEMMA StepTimes == ASSUME Typed, TimesNoted, Step PROVE TimesNoted'
<1>1. /\ edits \in Nat /\ \A file \in Files : fs[file].time \in Nat /\ fs[file].time <= edits + 1
  BY FileTyped DEF Typed, DiskTyped, TimesNoted
<1>2. UNCHANGED <<fs, edits>>
  BY StepFrame DEF disk
<1>8. opened'.time <= edits + 1
  <2>1. CASE opened' = opened
    BY <2>1 DEF TimesNoted
  <2>2. CASE opened' = Closed
    BY <1>1, <2>2 DEF Closed
  <2> QED
    BY <2>1, <2>2, StepCloses
<1>3. CASE StatConstants
  <2>1. /\ seen' = Content("constants", fs["constants"]) /\ pc' = "read_constants"
        /\ opened' = Closed /\ fs["constants"].size >= 8
    BY <1>3 DEF StatConstants, Do, Go, Succeeds
  <2>2. "constants" \in Files
    BY CreateAssumption
  <2>3. /\ seen'.time = fs["constants"].time /\ seen'.last = fs["constants"].time
        /\ seen'.size >= 8
    BY <2>1 DEF Content
  <2>4. ~opened'.open
    BY <2>1 DEF Closed
  <2>5. Measured' = "constants"
    BY <2>1 DEF Measured
  <2> QED
    BY <1>1, <1>2, <1>8, <2>1, <2>2, <2>3, <2>4, <2>5 DEF TimesNoted, Since
<1>4. CASE LoadScript
  <2> DEFINE file == ScriptFile[name']
  <2>1. /\ pc' = "stamp_script" /\ seen' \in {NoContent, Loaded(file)}
        /\ name' = T[ScriptPath].sym /\ ScriptPath # 0
    BY <1>4 DEF LoadScript, Go, PathFits
  <2>2. file \in Files
    <3>1. name' \in Texts
      BY <2>1, PathIs
    <3> QED
      BY <3>1, CreateAssumption
  <2>3. opened.time <= edits + 1
    BY DEF TimesNoted
  <2> HIDE DEF file
  <2>4. /\ seen'.time \in Nat /\ seen'.time <= edits + 1
        /\ seen'.last \in Nat /\ seen'.last <= edits + 1 /\ fs[file].time >= seen'.last
    BY <1>1, <2>1, <2>2, <2>3, LoadedTyped, NothingSeen
  <2> QED
    BY <1>1, <1>2, <1>8, <2>1, <2>2, <2>4 DEF TimesNoted, Since, file
<1>5. CASE StatItem
  <2> DEFINE file == FileNamed(name')
  <2>1. pc' = "read_item" /\ seen' = Content(file, fs[file]) /\ opened' = Closed
    BY <1>5 DEF StatItem, Do, Go
  <2>2. file \in Files
    BY NamedFile
  <2> HIDE DEF file
  <2>3. seen'.time = fs[file].time /\ seen'.last = fs[file].time
    BY <2>1 DEF Content
  <2>4. Measured' = file
    BY <2>1 DEF file, FileNamed, Measured
  <2>5. ~opened'.open
    BY <2>1 DEF Closed
  <2> QED
    BY <1>1, <1>2, <1>8, <2>1, <2>2, <2>3, <2>4, <2>5 DEF TimesNoted, Since
<1>6. CASE \/ ScratchExhausted \/ GiveUp \/ Start \/ ReadConstants \/ LoadDdf \/ Describe
           \/ Identify \/ SkipScript \/ StampScript \/ ScriptWithoutPath \/ NoMoreScripts
  <2>1. UNCHANGED seen
    BY <1>6 DEF ScratchExhausted, GiveUp, Start, ReadConstants, LoadDdf, Describe, Identify,
          SkipScript, StampScript, ScriptWithoutPath, NoMoreScripts, Unchanged, loaded
  <2>2. pc' # "stamp_script" /\ pc' # "read_item" /\ pc' # "read_constants"
    BY <1>6 DEF ScratchExhausted, GiveUp, Start, ReadConstants, LoadDdf, Describe, Identify,
          SkipScript, StampScript, ScriptWithoutPath, NoMoreScripts, Go
  <2> QED
    BY <1>2, <1>8, <2>1, <2>2 DEF TimesNoted
<1>7. CASE \/ StartItems \/ EnterSubdevice \/ LeaveSubdevice \/ KnownItem \/ ReadItem
           \/ NoMoreSubdevices \/ AddConstants \/ StoreBundle \/ StoreFails
  <2>1. UNCHANGED seen
    BY <1>7 DEF StartItems, EnterSubdevice, LeaveSubdevice, KnownItem, ReadItem,
          NoMoreSubdevices, AddConstants, StoreBundle, StoreFails, loaded
  <2>2. pc' # "stamp_script" /\ pc' # "read_item" /\ pc' # "read_constants"
    BY <1>7 DEF StartItems, EnterSubdevice, LeaveSubdevice, KnownItem, ReadItem,
          NoMoreSubdevices, AddConstants, StoreBundle, StoreFails, Go
  <2> QED
    BY <1>2, <1>8, <2>1, <2>2 DEF TimesNoted
<1> QED
  BY <1>3, <1>4, <1>5, <1>6, <1>7 DEF Step

LEMMA OpenTimes == ASSUME Typed, TimesNoted, OpenFile PROVE TimesNoted'
<1> DEFINE of == fs[Loads[1]]
<1>1. /\ opened' = IF of.time > 0 /\ of.size < Loads[2]
                   THEN [open |-> TRUE, size |-> of.size, time |-> of.time]
                   ELSE [open |-> TRUE, size |-> 0, time |-> 0]
      /\ UNCHANGED <<fs, edits, pc, name, seen>>
  BY DEF OpenFile, disk, loaded
<1>2. /\ edits \in Nat /\ of.time \in Nat /\ of.time <= edits + 1
  BY LoadsFile, FileTyped DEF OpenFile, Typed, DiskTyped, TimesNoted
<1>3. pc \in {"read_constants", "read_item"} => Loads[1] = Measured
  BY DEF Loads, Measured
<1>4. pc \in {"read_constants", "read_item"} => of.time = 0 \/ of.time >= seen.time
  BY <1>3 DEF TimesNoted, Since
<1> HIDE DEF of
<1>5. /\ opened'.time <= edits + 1
      /\ pc \in {"read_constants", "read_item"} =>
           (opened'.open /\ opened'.size > 0 => opened'.time >= seen.time)
  BY <1>1, <1>2, <1>4
<1>6. Measured' = Measured /\ FileNamed(name)' = FileNamed(name)
  BY <1>1 DEF Measured, FileNamed
<1> QED
  BY <1>1, <1>5, <1>6 DEF TimesNoted, Since

LEMMA TimesKept == ASSUME Typed, TimesNoted, [Next]_vars PROVE TimesNoted'
<1>1. /\ edits \in Nat /\ \A file \in Files : fs[file].time \in Nat /\ fs[file].time <= edits + 1
  BY FileTyped DEF Typed, DiskTyped, TimesNoted
<1>3. CASE Edit
  <2>1. PICK file \in Files \ {NoFile} :
          \/ \E size \in Sizes : fs' = [fs EXCEPT ![file] = [size |-> size, time |-> edits + 2]]
          \/ fs' = [fs EXCEPT ![file] = [size |-> 0, time |-> 0]]
    BY <1>3 DEF Edit
  <2>2. DOMAIN fs = Files /\ edits' = edits + 1 /\ UNCHANGED <<pc, name, seen, opened>>
    BY <1>3 DEF Typed, DiskTyped, Edit, loaded
  <2>3. \/ fs'[file].time = edits + 2
        \/ fs'[file].time = 0
    BY <2>1, <2>2
  <2>4. \A other \in Files \ {file} : fs'[other] = fs[other]
    BY <2>1, <2>2
  <2>5. \A other \in Files : fs'[other].time <= edits' + 1
    BY <1>1, <2>2, <2>3, <2>4
  <2>6. ASSUME NEW other \in Files, NEW time \in Nat, time <= edits + 1, Since(other, time)
        PROVE  fs'[other].time = 0 \/ fs'[other].time >= time
    <3>1. CASE other = file
      BY <1>1, <2>3, <2>6, <3>1
    <3>2. CASE other # file
      BY <2>4, <2>6, <3>2 DEF Since
    <3> QED
      BY <3>1, <3>2
  <2>7. /\ seen.time \in Nat /\ seen.time <= edits + 1 /\ seen.last \in Nat
        /\ seen.last <= edits + 1 /\ opened.time <= edits + 1 /\ opened.time \in Nat
    BY DEF TimesNoted, Typed, OpenedTyped
  <2>8. Measured' = Measured /\ Measured \in Files
    BY <2>2, MeasuredFile DEF Measured, FileNamed
  <2>9. pc = "stamp_script" =>
          /\ ScriptFile[name] \in Files
          /\ fs'[ScriptFile[name]].time = 0 \/ fs'[ScriptFile[name]].time >= seen.last
    BY <2>6, <2>7 DEF TimesNoted
  <2>10. pc \in {"read_constants", "read_item"} =>
           fs'[Measured].time = 0 \/ fs'[Measured].time >= seen.time
    BY <2>6, <2>7, <2>8 DEF TimesNoted
  <2>11. pc = "read_constants" => seen.size >= 8
    BY DEF TimesNoted
  <2>12. pc \in {"read_constants", "read_item"} =>
           (opened.open /\ opened.size > 0 => opened.time >= seen.time)
    BY DEF TimesNoted
  <2>13. edits' + 1 >= edits + 1
    BY <1>1, <2>2
  <2>14. seen.time <= edits' + 1 /\ seen.last <= edits' + 1 /\ opened.time <= edits' + 1
    BY <1>1, <2>2, <2>7
  <2> QED
    BY <2>2, <2>5, <2>7, <2>8, <2>9, <2>10, <2>11, <2>12, <2>14 DEF TimesNoted, Since
<1>4. CASE UNCHANGED vars
  BY <1>4 DEF vars, disk, loaded, TimesNoted, Since, Measured, FileNamed
<1> QED
  BY <1>3, <1>4, StepTimes, OpenTimes DEF Next, Finished

LEMMA AlwaysTimed == Spec => []TimesNoted
<1> QED
  BY TimesAtFirst, AlwaysTyped, TimesKept, PTL DEF Spec

-----------------------------------------------------------------------------
(* The times in DESC and with the constants.                               *)

LEMMA StepLoads ==
  ASSUME Step
  PROVE  /\ UNCHANGED constants \/ ReadConstants
         /\ UNCHANGED ddf \/ LoadDdf
         /\ UNCHANGED ss \/ Describe \/ Identify
BY DEF Step, ScratchExhausted, GiveUp, Start, StatConstants, ReadConstants, LoadDdf, Describe,
       Identify, LoadScript, SkipScript, StampScript, ScriptWithoutPath, NoMoreScripts,
       StartItems, EnterSubdevice, LeaveSubdevice, KnownItem, StatItem, ReadItem,
       NoMoreSubdevices, AddConstants, StoreBundle, StoreFails, Do, Unchanged, loaded

\* The constants are not older than the time they are stored with.
ConstantsDated == constants.time <= constants.read.time

LEMMA ConstantsKept ==
  ASSUME Typed, TimesNoted, ConstantsDated, [Next]_vars PROVE ConstantsDated'
<1>1. CASE ReadConstants
  <2>1. /\ pc = "read_constants" /\ opened.open /\ opened.size = seen.size
        /\ constants' = [read |-> Loaded("constants"), time |-> seen.time]
    <3>1. pc = "read_constants" /\ (Loading => opened.open) /\ Succeeds
      BY <1>1 DEF ReadConstants, Do
    <3>2. Loading
      <4>1. Loads = << "constants", seen.size + 1 >>
        BY <3>1 DEF Loads
      <4> QED
        BY <4>1 DEF Loading
    <3>3. opened.size = seen.size
      BY <3>1 DEF Succeeds
    <3> QED
      BY <1>1, <3>1, <3>2, <3>3 DEF ReadConstants
  <2>2. seen.size >= 8 /\ seen.size \in Nat
    BY <2>1 DEF TimesNoted, Typed, PlacesTyped
  <2>3. opened.time >= seen.time
    BY <2>1, <2>2 DEF TimesNoted
  <2>4. constants'.time = seen.time /\ constants'.read.time = opened.time
    BY <2>1, LoadedTyped
  <2>5. seen.time \in Nat /\ opened.time \in Nat
    BY DEF TimesNoted, Typed, OpenedTyped
  <2> QED
    BY <2>3, <2>4, <2>5 DEF ConstantsDated
<1>2. CASE UNCHANGED constants
  BY <1>2 DEF ConstantsDated
<1>3. Edit \/ Still => UNCHANGED constants
  BY DEF Edit, Still, loaded
<1> QED
  BY <1>1, <1>2, <1>3, NextIs, StepLoads

LEMMA AlwaysDated == Spec => []ConstantsDated
<1>1. Init => ConstantsDated
  <2>1. Init => constants = [read |-> NoContent, time |-> 0]
    BY DEF Init
  <2> QED
    BY <2>1, NothingSeen DEF ConstantsDated
<1> QED
  BY <1>1, AlwaysTyped, AlwaysTimed, ConstantsKept, PTL DEF Spec

IsRecord(s) == s = [pos |-> s.pos, ok |-> s.ok, fields |-> s.fields]

\* All times in a row of fields are of D.
Dated(f, D) == IsRow(f) /\ \A i \in 1 .. Len(f) : f[i].is = "time" => f[i].val \in D

LEMMA WiderFields ==
  ASSUME NEW A, NEW B, A \subseteq B, NEW fields \in Seq(A) PROVE fields \in Seq(B)
  OBVIOUS

LEMMA MoreTimes ==
  ASSUME NEW W, NEW C, NEW D, C \subseteq D, NEW fields \in Seq(Fields(W, C))
  PROVE  Len(fields) \in Nat /\ \A n \in 1 .. Len(fields) : fields[n] \in Fields(W, D)
<1>1. Fields(W, C) \subseteq Fields(W, D)
  BY DEF Fields
<1> QED
  BY <1>1, WiderFields

LEMMA PutAllDates ==
  ASSUME NEW W, NEW D, NEW fields, Len(fields) \in Nat,
         \A n \in 1 .. Len(fields) : fields[n] \in Fields(W, D),
         NEW size, NEW s, IsStream(s), Dated(s.fields, D)
  PROVE  Dated(PutAll(s, fields, size).fields, D)
<1>1. Len(fields) \in Nat /\ \A n \in 1 .. Len(fields) : fields[n] \in Fields(W, D)
  OBVIOUS
<1>2. PICK after : /\ after[0] = s
                   /\ \A n \in 1 .. Len(fields) : after[n] = Put(after[n - 1], fields[n], size)
                   /\ PutAll(s, fields, size) = after[Len(fields)]
  BY PutAllSteps
<1> DEFINE Good(n) == IsRecord(after[n]) /\ Dated(after[n].fields, D)
           M == {n \in 0 .. Len(fields) : ~Good(n)}
<1>3. Good(0)
  BY <1>2 DEF IsStream, IsRecord
<1>4. ASSUME NEW m \in 1 .. Len(fields), Good(m - 1) PROVE Good(m)
  <2> DEFINE t == after[m - 1]
             u == after[m]
             f == fields[m]
  <2>1. u = Put(t, f, size) /\ f \in Fields(W, D) /\ IsRecord(t) /\ Dated(t.fields, D)
    BY <1>1, <1>2, <1>4
  <2> HIDE DEF t, u, f
  <2>2. CASE u = [t EXCEPT !.ok = FALSE]
    <3>1. IsRecord(u) /\ u.fields = t.fields
      BY <2>1, <2>2 DEF IsRecord
    <3> QED
      BY <2>1, <3>1 DEF u
  <2>3. CASE u = [t EXCEPT !.pos = @ + f.len, !.fields = Append(@, [f EXCEPT !.at = t.pos])]
    <3> DEFINE e == [f EXCEPT !.at = t.pos]
    <3>1. e.is = f.is /\ e.val = f.val
      BY <2>1 DEF Fields
    <3>2. f.is = "time" => f.val \in D
      BY <2>1 DEF Fields
    <3> HIDE DEF e
    <3>3. IsRecord(u) /\ u.fields = Append(t.fields, e)
      BY <2>1, <2>3 DEF IsRecord, e
    <3>4. Dated(Append(t.fields, e), D)
      <4>1. /\ IsRow(Append(t.fields, e)) /\ Len(t.fields) \in Nat
            /\ Len(Append(t.fields, e)) = Len(t.fields) + 1
            /\ \A i \in 1 .. Len(t.fields) : Append(t.fields, e)[i] = t.fields[i]
            /\ Append(t.fields, e)[Len(t.fields) + 1] = e
        BY <2>1, RowAppends DEF Dated
      <4>2. \A i \in 1 .. Len(t.fields) + 1 : i \in 1 .. Len(t.fields) \/ i = Len(t.fields) + 1
        BY <4>1
      <4> QED
        BY <2>1, <3>1, <3>2, <4>1, <4>2 DEF Dated
    <3> QED
      BY <3>3, <3>4 DEF u
  <2> QED
    BY <2>1, <2>2, <2>3 DEF Put
<1> HIDE DEF Good
<1>5. M = {}
  <2> SUFFICES ASSUME M # {} PROVE FALSE
    OBVIOUS
  <2>1. PICK m \in M : \A n \in M : m <= n
    <3>1. M \in SUBSET Nat
      OBVIOUS
    <3> HIDE DEF M
    <3> QED
      BY <3>1, SmallestNumber
  <2>2. m \in 1 .. Len(fields)
    BY <1>1, <1>3, <2>1
  <2>3. m - 1 \in 0 .. Len(fields) /\ ~(m <= m - 1)
    BY <1>1, <2>2
  <2>4. Good(m - 1)
    BY <2>1, <2>3
  <2> QED
    BY <1>4, <2>1, <2>2, <2>4
<1>6. Good(Len(fields))
  BY <1>1, <1>5
<1> QED
  BY <1>2, <1>6 DEF Good

\* The times not before last, and none.
Dates(last) == {time \in Nat : time >= last} \cup {0}

\* DESC and the DDF in the bundle.
DescAt(f) ==
  /\ Dated(f[7].val, Dates(ddf.last)) /\ f[10].val = ddf /\ f[10].len = ddf.size

\* The time in DESC is not before that of the DDF when it was read.
DescDated ==
  /\ pc = "describe" => ddf.last \in Nat /\ ddf.last <= edits + 1 /\ Since("ddf", ddf.last)
  /\ pc = "identify" => Dated(ss.fields, Dates(ddf.last))
  /\ bs.ok /\ pc \in Filling => DescAt(bs.fields)

LEMMA StreamRow == ASSUME NEW ok, NEW D PROVE IsStream(Stream(ok)) /\ Dated(Stream(ok).fields, D)
<1>1. <<>> \in Seq({}) /\ Len(<<>>) = 0
  OBVIOUS
<1>2. IsStream(Stream(ok)) /\ Stream(ok).fields = <<>>
  BY DEF Stream, IsStream
<1>3. IsRow(<<>>)
  BY <1>1 DEF IsRow
<1> QED
  BY <1>1, <1>2, <1>3 DEF Dated

LEMMA DescStep ==
  ASSUME Typed, Shaped, TimesNoted, DescDated, Step PROVE DescDated'
<1>1. UNCHANGED <<fs, edits>>
  BY StepFrame DEF disk
<1>2. CASE LoadDdf
  <2>1. pc' = "describe" /\ ddf' = Loaded("ddf") /\ "ddf" \in Files
    BY <1>2, CreateAssumption DEF LoadDdf, Go
  <2>2. ddf'.last = fs["ddf"].time /\ fs["ddf"].time \in Nat
    BY <2>1, LoadedTyped, FileTyped
  <2>3. fs["ddf"].time <= edits + 1
    BY <2>1 DEF TimesNoted
  <2> QED
    BY <1>1, <2>1, <2>2, <2>3 DEF DescDated, Since, Filling, Behind
<1>3. CASE Describe
  <2> DEFINE time == fs["ddf"].time
             D == Dates(ddf.last)
  <2>1. /\ pc = "describe" /\ pc' = "identify" /\ UNCHANGED ddf
        /\ \E ok \in BOOLEAN : ss' = PutAll(Stream(ok), DescHead(time), DescSize - 1)
    BY <1>3 DEF Describe, Do, Go, loaded
  <2>2. "ddf" \in Files /\ time \in Nat /\ (time = 0 \/ time >= ddf.last)
    BY <2>1, CreateAssumption, FileTyped DEF DescDated, Since
  <2>3. time \in D
    BY <2>2 DEF Dates
  <2> HIDE DEF time, D
  <2>4. PICK W : DescHead(time) \in Seq(Fields(W, {time}))
    BY HeadFields
  <2> DEFINE fields == DescHead(time)
  <2>5. Len(fields) \in Nat /\ \A n \in 1 .. Len(fields) : fields[n] \in Fields(W, D)
    <3>1. {time} \subseteq D
      BY <2>3
    <3> QED
      BY <2>4, <3>1, MoreTimes
  <2>6. Dated(ss'.fields, D)
    BY <2>1, <2>5, StreamRow, PutAllDates
  <2> QED
    BY <2>1, <2>6 DEF DescDated, Filling, D
<1>4. CASE Identify
  <2> DEFINE ids == DescIdentifiers(Identifiers)
             D == Dates(ddf.last)
  <2>1. /\ pc = "identify" /\ pc' = "scan" /\ UNCHANGED ddf
        /\ ss' = PutAll(ss, ids, DescSize - 1)
    BY <1>4 DEF Identify, Do, Go, loaded
  <2>2. IsStream(ss) /\ Dated(ss.fields, D)
    BY <2>1 DEF DescDated, Typed, StreamsTyped
  <2>3. PICK W : ids \in Seq(Fields(W, {}))
    <3>1. PICK n \in Nat : DOMAIN Identifiers = 1 .. n
      BY IdentifierPairs DEF Pairs, Typed, DiskTyped
    <3> QED
      BY <3>1, IdentifierFields
  <2> HIDE DEF ids, D
  <2>4. Len(ids) \in Nat /\ \A n \in 1 .. Len(ids) : ids[n] \in Fields(W, D)
    <3>1. {} \subseteq D
      OBVIOUS
    <3> QED
      BY <2>3, <3>1, MoreTimes
  <2>5. Dated(ss'.fields, D)
    BY <2>1, <2>2, <2>4, PutAllDates
  <2>6. bs'.ok => DescAt(bs.fields)'
    BY <1>4, <2>1, <2>5, IdentifyPuts DEF DescAt, D
  <2> QED
    BY <2>1, <2>6 DEF DescDated
<1>5. CASE ~LoadDdf /\ ~Describe /\ ~Identify
  <2>1. UNCHANGED <<ddf, ss>>
    BY <1>5, StepLoads
  <2>2. pc' # "describe" /\ pc' # "identify"
    BY <1>5 DEF Step, ScratchExhausted, GiveUp, Start, StatConstants, ReadConstants,
       LoadScript, SkipScript, StampScript, ScriptWithoutPath, NoMoreScripts,
       StartItems, EnterSubdevice, LeaveSubdevice, KnownItem, StatItem, ReadItem,
       NoMoreSubdevices, AddConstants, StoreBundle, StoreFails, Go
  <2>3. ASSUME bs'.ok, pc' \in Filling PROVE DescAt(bs.fields)'
    <3>1. PICK n : Bundled(bs'.fields, n)
      <4>1. Shaped'
        BY ShapedKept DEF Next
      <4> QED
        BY <2>3, <4>1 DEF Shaped, Filling
    <3>2. /\ bs.ok /\ pc \in Filling
          /\ bs'.fields[7] = bs.fields[7] /\ bs'.fields[10] = bs.fields[10]
      <4>1. CASE UNCHANGED bs /\ pc \in Filling
        BY <2>3, <4>1
      <4>2. ASSUME NEW type, NEW name_, NEW time, NEW len, NEW content,
                   Adds(n, type, name_, time, len, content)
            PROVE  /\ bs.ok /\ pc \in Filling
                   /\ bs'.fields[7] = bs.fields[7] /\ bs'.fields[10] = bs.fields[10]
        <5>1. 7 \in 1 .. 10 /\ 10 \in 1 .. 10
          OBVIOUS
        <5> QED
          BY <4>2, <5>1 DEF Adds
      <4> QED
        BY <1>5, <2>3, <3>1, <4>1, <4>2, BundleChanges
    <3> QED
      BY <2>1, <3>2 DEF DescDated, DescAt
  <2> QED
    BY <2>2, <2>3 DEF DescDated
<1> QED
  BY <1>2, <1>3, <1>4, <1>5

LEMMA DescKept ==
  ASSUME Typed, Shaped, TimesNoted, DescDated, [Next]_vars PROVE DescDated'
<1>1. CASE Edit
  <2>1. /\ UNCHANGED <<pc, ss, bs, ddf>> /\ edits' = edits + 1 /\ edits \in Nat
    BY <1>1 DEF Edit, loaded, Typed, DiskTyped
  <2>2. ASSUME pc = "describe"
        PROVE  ddf.last \in Nat /\ ddf.last <= edits' + 1 /\ Since("ddf", ddf.last)'
    <3>1. ddf.last \in Nat /\ ddf.last <= edits + 1 /\ Since("ddf", ddf.last)
      BY <2>2 DEF DescDated
    <3>2. PICK file \in Files \ {NoFile} :
            \/ \E size \in Sizes : fs' = [fs EXCEPT ![file] = [size |-> size, time |-> edits + 2]]
            \/ fs' = [fs EXCEPT ![file] = [size |-> 0, time |-> 0]]
      BY <1>1 DEF Edit
    <3>3. DOMAIN fs = Files /\ "ddf" \in Files
      BY CreateAssumption DEF Typed, DiskTyped
    <3>4. \/ fs'["ddf"] = fs["ddf"] \/ fs'["ddf"].time = edits + 2 \/ fs'["ddf"].time = 0
      BY <3>2, <3>3
    <3>5. fs'["ddf"].time = 0 \/ fs'["ddf"].time >= ddf.last
      BY <2>1, <3>1, <3>4 DEF Since
    <3> QED
      BY <2>1, <3>1, <3>5 DEF Since
  <2> QED
    BY <2>1, <2>2 DEF DescDated, DescAt
<1>2. CASE Still
  BY <1>2 DEF Still, disk, loaded, DescDated, DescAt, Since
<1> QED
  BY <1>1, <1>2, DescStep, NextIs

LEMMA AlwaysDescDated == Spec => []DescDated
<1>1. Init => DescDated
  BY DEF Init, DescDated, Filling, Behind
<1> QED
  BY <1>1, AlwaysTyped, AlwaysShaped, AlwaysTimed, DescKept, PTL DEF Spec

-----------------------------------------------------------------------------
(* The times of the files.                                                 *)

\* The time of a script is not before that of its file when it was read, that of
\* an item not behind that of its file when it was opened.
Stamped(f, k) ==
  LET content == DataAt(f, k).val
  IN  /\ TypeAt(f, k) \in {"SCJS", "JSON"} /\ DataAt(f, k).len = content.size
      /\ TypeAt(f, k) = "JSON" => StampAt(f, k) <= content.time
      /\ TypeAt(f, k) = "SCJS" => StampAt(f, k) >= content.last \/ StampAt(f, k) = 0

ChunksStamped ==
  bs.ok /\ pc \in Filling =>
    \A n \in Nat : Bundled(bs.fields, n) =>
      /\ \A k \in Filed(n) : Stamped(bs.fields, k)
      /\ pc \in Complete => /\ n >= 1 /\ TypeAt(bs.fields, n) = "JSON"
                            /\ StampAt(bs.fields, n) = constants.time

LEMMA StampedStays ==
  ASSUME NEW f, NEW g, NEW k, SameChunk(f, g, k), Stamped(f, k)
  PROVE  Stamped(g, k)
  BY DEF SameChunk, Stamped

LEMMA StampedKept ==
  ASSUME Typed, Shaped, TimesNoted, ChunksStamped, [Next]_vars PROVE ChunksStamped'
<1>1. CASE Step
  <2> SUFFICES ASSUME bs'.ok, pc' \in Filling, NEW n \in Nat, Bundled(bs'.fields, n)
               PROVE  /\ \A k \in 1 .. (IF pc' \in Complete THEN n - 1 ELSE n) : Stamped(bs'.fields, k)
                      /\ pc' \in Complete => /\ n >= 1 /\ TypeAt(bs'.fields, n) = "JSON"
                                             /\ StampAt(bs'.fields, n) = constants'.time
    BY DEF ChunksStamped, Filed, Filling, Complete
  <2>1. CASE Identify /\ n = 0
    <3>1. pc' \notin Complete
      BY <2>1 DEF Identify, Go, Complete
    <3> QED
      BY <2>1, <3>1
  <2>8. ASSUME pc \in Filling PROVE UNCHANGED constants
    <3>1. ~ReadConstants
      BY <2>8 DEF ReadConstants, Do, Filling, Behind
    <3> QED
      BY <1>1, <3>1, StepLoads
  <2>2. CASE UNCHANGED bs /\ pc \in Filling /\ (pc' \in Complete <=> pc \in Complete)
    BY <2>2, <2>8 DEF ChunksStamped, Filed
  <2>3. ASSUME NEW type, NEW name_, NEW time, NEW len, NEW content,
               Adds(n, type, name_, time, len, content)
        PROVE  /\ \A k \in 1 .. n - 1 : Stamped(bs'.fields, k)
               /\ TypeAt(bs'.fields, n) = type /\ StampAt(bs'.fields, n) = time
               /\ DataAt(bs'.fields, n).len = len /\ DataAt(bs'.fields, n).val = content
    <3>1. /\ bs.ok /\ pc \in Filling \ Complete /\ n - 1 \in Nat /\ Bundled(bs.fields, n - 1)
          /\ \A k \in 1 .. n - 1 : SameChunk(bs.fields, bs'.fields, k)
      BY <2>3 DEF Adds
    <3>2. \A k \in 1 .. n - 1 : Stamped(bs.fields, k)
      BY <3>1 DEF ChunksStamped, Filed
    <3> QED
      BY <2>3, <3>1, <3>2, StampedStays DEF Adds, NewChunk
  <2>4. ASSUME \A k \in 1 .. n - 1 : Stamped(bs'.fields, k), Stamped(bs'.fields, n)
        PROVE  \A k \in 1 .. n : Stamped(bs'.fields, k)
    <3>1. \A k \in 1 .. n : k \in 1 .. n - 1 \/ k = n
      OBVIOUS
    <3> QED
      BY <2>4, <3>1
  <2>5. CASE StampScript /\ Adds(n, "SCJS", name, fs[ScriptFile[name]].time, seen.size, seen)
    <3> DEFINE time == fs[ScriptFile[name]].time
    <3>1. pc = "stamp_script" /\ pc' \notin Complete
      BY <2>5 DEF StampScript, Do, Go, Complete
    <3>2. time = 0 \/ time >= seen.last
      BY <3>1 DEF TimesNoted, Since
    <3>3. /\ \A k \in 1 .. n - 1 : Stamped(bs'.fields, k)
          /\ TypeAt(bs'.fields, n) = "SCJS" /\ StampAt(bs'.fields, n) = time
          /\ DataAt(bs'.fields, n).len = seen.size /\ DataAt(bs'.fields, n).val = seen
      BY <2>3, <2>5
    <3> HIDE DEF time
    <3>4. Stamped(bs'.fields, n)
      BY <3>2, <3>3 DEF Stamped
    <3> QED
      BY <2>4, <3>1, <3>3, <3>4
  <2>6. CASE /\ ReadItem
             /\ Adds(n, "JSON", FileNamed(name), seen.time, seen.size,
                     IF seen.size = 0 THEN seen
                     ELSE Loaded(FileNamed(name)))
    <3> DEFINE file == FileNamed(name)
               content == IF seen.size = 0 THEN seen ELSE Loaded(file)
    <3>1. /\ pc = "read_item" /\ pc' \notin Complete /\ opened.open /\ opened.size = seen.size
      <4>1. pc = "read_item" /\ (Loading => opened.open) /\ Succeeds /\ pc' = "items"
        BY <2>6 DEF ReadItem, Do, Go
      <4>2. Loading
        <5>1. Loads = << FileNamed(name), seen.size + 16 >>
          BY <4>1 DEF Loads
        <5> QED
          BY <5>1 DEF Loading
      <4>3. opened.size = seen.size
        BY <4>1 DEF Succeeds
      <4> QED
        BY <4>1, <4>2, <4>3 DEF Complete
    <3>2. seen.time \in Nat /\ seen.size \in Nat
      BY DEF TimesNoted, Typed, PlacesTyped
    <3>3. /\ \A k \in 1 .. n - 1 : Stamped(bs'.fields, k)
          /\ TypeAt(bs'.fields, n) = "JSON" /\ StampAt(bs'.fields, n) = seen.time
          /\ DataAt(bs'.fields, n).len = seen.size /\ DataAt(bs'.fields, n).val = content
      <4> HIDE DEF content
      <4>1. Adds(n, "JSON", file, seen.time, seen.size, content)
        BY <2>6 DEF content
      <4> QED
        BY <2>3, <4>1
    <3>4. content.size = seen.size /\ seen.time <= content.time
      <4>1. CASE seen.size = 0
        BY <3>2, <4>1
      <4>2. CASE seen.size # 0
        <5>1. content = Loaded(file)
          BY <4>2
        <5>2. content.size = opened.size /\ content.time = opened.time
          BY <5>1, LoadedTyped
        <5>3. opened.size > 0
          BY <3>1, <3>2, <4>2
        <5>4. opened.time >= seen.time
          BY <3>1, <5>3 DEF TimesNoted
        <5>5. opened.time \in Nat
          BY DEF Typed, OpenedTyped
        <5> QED
          BY <3>1, <3>2, <5>2, <5>4, <5>5
      <4> QED
        BY <4>1, <4>2
    <3> HIDE DEF content, file
    <3>5. Stamped(bs'.fields, n)
      BY <3>3, <3>4 DEF Stamped
    <3> QED
      BY <2>4, <3>1, <3>3, <3>5
  <2>7. CASE /\ AddConstants
             /\ Adds(n, "JSON", "generic/constants_min.json", constants.time,
                     ConstantsText.pos, ConstantsText.fields)
    <3>1. pc' \in Complete /\ n >= 1 /\ UNCHANGED constants
      BY <2>7 DEF AddConstants, Go, Complete, Adds, loaded
    <3>2. /\ \A k \in 1 .. n - 1 : Stamped(bs'.fields, k)
          /\ TypeAt(bs'.fields, n) = "JSON" /\ StampAt(bs'.fields, n) = constants.time
      BY <2>3, <2>7
    <3> QED
      BY <3>1, <3>2
  <2> QED
    BY <1>1, <2>1, <2>2, <2>5, <2>6, <2>7, BundleChanges
<1>2. CASE Edit \/ Still
  BY <1>2 DEF Edit, Still, loaded, ChunksStamped, Filed
<1> QED
  BY <1>1, <1>2, NextIs

LEMMA AlwaysStamped == Spec => []ChunksStamped
<1>1. Init => ChunksStamped
  BY DEF Init, ChunksStamped, Filling, Behind
<1> QED
  BY <1>1, AlwaysTyped, AlwaysShaped, AlwaysTimed, StampedKept, PTL DEF Spec

\* The fields of a chunk, from its type on.
LEMMA ChunkParts ==
  ASSUME NEW k \in Nat
  PROVE  /\ Path(9 * k + 4) = PathAt(out, k) /\ TimeOf(9 * k + 4) = StampAt(out, k)
         /\ Contents(9 * k + 4) = DataAt(out, k) /\ out[9 * k + 4].val = TypeAt(out, k)
<1>1. /\ (9 * k + 4) + 2 = 9 * k + 6 /\ (9 * k + 4) + 4 = 9 * k + 8
      /\ (9 * k + 4) + 6 = 9 * k + 10
  OBVIOUS
<1> QED
  BY <1>1 DEF Path, TimeOf, Contents, PathAt, StampAt, DataAt, TypeAt

\* Which chunks are those of a type, of the constants and of items.
LEMMA ChunkSets ==
  ASSUME NEW n \in Nat \ {0}, Bundled(out, n), IsRow(out), TypeAt(out, n) = "JSON"
  PROVE  /\ ConstantsChunk = 9 * n + 4
         /\ ItemChunks = {9 * k + 4 : k \in {c \in 1 .. n - 1 : TypeAt(out, c) = "JSON"}}
         /\ ScriptChunks = {9 * k + 4 : k \in {c \in 1 .. n - 1 : TypeAt(out, c) = "SCJS"}}
<1>1. Kind(out, "type") = {9 * k + 4 : k \in 1 .. n}
  BY TypesAre
<1>2. ASSUME NEW type
      PROVE  Extfs(type) = {9 * k + 4 : k \in {c \in 1 .. n : TypeAt(out, c) = type}}
  BY <1>1 DEF Extfs, TypeAt
<1> DEFINE J == Extfs("JSON")
           last == 9 * n + 4
<1>3. last \in J /\ \A i \in J : i \in Nat /\ last >= i
  BY <1>2
<1>4. ConstantsChunk = last
  <2>1. Max(J) = CHOOSE x \in J : \A y \in J : x >= y
    BY DEF Max
  <2>2. \A x \in J : (\A y \in J : x >= y) => x = last
    <3> HIDE DEF J
    <3>1. last \in Nat
      OBVIOUS
    <3> HIDE DEF last
    <3> QED
      BY <1>3, <3>1
  <2> HIDE DEF J
  <2>3. Max(J) = last
    BY <1>3, <2>1, <2>2
  <2> QED
    BY <2>3 DEF ConstantsChunk, J
<1>5. ItemChunks = {9 * k + 4 : k \in {c \in 1 .. n - 1 : TypeAt(out, c) = "JSON"}}
  <2>1. ItemChunks = Extfs("JSON") \ {last}
    BY <1>4 DEF ItemChunks
  <2>2. \A c \in 1 .. n : 9 * c + 4 = last <=> c \notin 1 .. n - 1
    OBVIOUS
  <2>3. \A c \in 1 .. n - 1 : c \in 1 .. n
    OBVIOUS
  <2> HIDE DEF last
  <2> QED
    BY <1>2, <2>1, <2>2, <2>3
<1>6. ScriptChunks = {9 * k + 4 : k \in {c \in 1 .. n - 1 : TypeAt(out, c) = "SCJS"}}
  <2>1. \A c \in 1 .. n : TypeAt(out, c) = "SCJS" => c # n
    OBVIOUS
  <2>2. \A c \in 1 .. n : c # n <=> c \in 1 .. n - 1
    OBVIOUS
  <2>3. \A c \in 1 .. n - 1 : c \in 1 .. n
    OBVIOUS
  <2>4. {c \in 1 .. n : TypeAt(out, c) = "SCJS"} = {c \in 1 .. n - 1 : TypeAt(out, c) = "SCJS"}
    BY <2>1, <2>2, <2>3
  <2> QED
    BY <1>2, <2>4 DEF ScriptChunks
<1> QED
  BY <1>4, <1>5, <1>6

\* A stored bundle: the chunks as they were put, that of the constants at the end.
StoredAs(n) ==
  /\ n \in Nat \ {0} /\ Whole(n) /\ Bundled(bs.fields, n) /\ TypeAt(out, n) = "JSON"
  /\ StampAt(out, n) = constants.time
  /\ \A k \in 1 .. n - 1 : Stamped(out, k)

LEMMA StoredIs ==
  ASSUME Typed, Shaped, Written, ChunksStamped, pc = "stored"
  PROVE  \E n : StoredAs(n)
<1>1. bs.ok
  BY DEF Written
<1>2. PICK n \in Nat : Bundled(bs.fields, n)
  BY <1>1 DEF Shaped, Behind
<1>3. Whole(n)
  BY <1>2, StoredWhole
<1>4. pc \in Filling /\ pc \in Complete
  BY DEF Filling, Behind, Complete
<1>5. /\ n >= 1 /\ TypeAt(bs.fields, n) = "JSON" /\ StampAt(bs.fields, n) = constants.time
      /\ \A k \in 1 .. n - 1 : Stamped(bs.fields, k)
  BY <1>1, <1>2, <1>4 DEF ChunksStamped, Filed
<1>6. \A k \in 1 .. n : SameChunk(bs.fields, out, k)
  BY <1>3 DEF Whole
<1>7. n \in 1 .. n /\ \A k \in 1 .. n - 1 : k \in 1 .. n
  BY <1>5
<1>8. /\ TypeAt(out, n) = "JSON" /\ StampAt(out, n) = constants.time
      /\ \A k \in 1 .. n - 1 : Stamped(out, k)
  BY <1>5, <1>6, <1>7, StampedStays DEF SameChunk
<1>9. n \in Nat \ {0}
  BY <1>5
<1> QED
  BY <1>2, <1>3, <1>8, <1>9 DEF StoredAs

LEMMA StampsHold ==
  ASSUME Typed, Shaped, Written, ChunksStamped, ConstantsDated, DescDated
  PROVE  ContentsStamped
<1> SUFFICES ASSUME pc = "stored"
             PROVE  /\ out[10].len = out[10].val.size
                    /\ \A i \in ItemChunks \cup ScriptChunks : Contents(i).len = Contents(i).val.size
                    /\ \A i \in ItemChunks : TimeOf(i) <= Contents(i).val.time
                    /\ TimeOf(ConstantsChunk) <= constants.read.time
                    /\ \A i \in ScriptChunks :
                         TimeOf(i) >= Contents(i).val.last \/ TimeOf(i) = 0
                    /\ \A i \in Kind(out[7].val, "time") :
                         \/ out[7].val[i].val >= out[10].val.last
                         \/ out[7].val[i].val = 0
  BY DEF ContentsStamped, Stored
<1>1. PICK n : StoredAs(n)
  BY StoredIs
<1>2. n \in Nat \ {0} /\ Bundled(out, n) /\ IsRow(out) /\ TypeAt(out, n) = "JSON"
  BY <1>1 DEF StoredAs, Whole
<1>3. \A k \in 1 .. n - 1 : k \in Nat /\ Stamped(out, k)
  BY <1>1 DEF StoredAs
<1>4. ASSUME NEW i \in ItemChunks
      PROVE  Contents(i).len = Contents(i).val.size /\ TimeOf(i) <= Contents(i).val.time
  <2>1. PICK k \in 1 .. n - 1 : TypeAt(out, k) = "JSON" /\ i = 9 * k + 4
    BY <1>2, ChunkSets
  <2>2. TimeOf(i) = StampAt(out, k) /\ Contents(i) = DataAt(out, k)
    BY <1>3, <2>1, ChunkParts
  <2> QED
    BY <1>3, <2>1, <2>2 DEF Stamped
<1>5. ASSUME NEW i \in ScriptChunks
      PROVE  /\ Contents(i).len = Contents(i).val.size
             /\ TimeOf(i) >= Contents(i).val.last \/ TimeOf(i) = 0
  <2>1. PICK k \in 1 .. n - 1 : TypeAt(out, k) = "SCJS" /\ i = 9 * k + 4
    BY <1>2, ChunkSets
  <2>2. TimeOf(i) = StampAt(out, k) /\ Contents(i) = DataAt(out, k)
    BY <1>3, <2>1, ChunkParts
  <2> QED
    BY <1>3, <2>1, <2>2 DEF Stamped
<1>6. TimeOf(ConstantsChunk) <= constants.read.time
  <2>1. ConstantsChunk = 9 * n + 4
    BY <1>2, ChunkSets
  <2>2. TimeOf(ConstantsChunk) = constants.time
    BY <1>1, <1>2, <2>1, ChunkParts DEF StoredAs
  <2> QED
    BY <2>2 DEF ConstantsDated
<1>7. Dated(out[7].val, Dates(ddf.last)) /\ out[10].val = ddf /\ out[10].len = ddf.size
  <2>1. bs.ok /\ pc \in Filling
    BY DEF Written, Filling, Behind
  <2>2. DescAt(bs.fields)
    BY <2>1 DEF DescDated
  <2>3. out[7] = bs.fields[7] /\ out[10] = bs.fields[10]
    BY <1>1 DEF StoredAs, Whole
  <2> QED
    BY <2>2, <2>3 DEF DescAt
<1>8. ASSUME NEW i \in Kind(out[7].val, "time")
      PROVE  out[7].val[i].val >= out[10].val.last \/ out[7].val[i].val = 0
  <2> DEFINE f == out[7].val
  <2>1. IsRow(f) /\ \A j \in 1 .. Len(f) : f[j].is = "time" => f[j].val \in Dates(ddf.last)
    BY <1>7 DEF Dated
  <2>2. DOMAIN f = 1 .. Len(f)
    BY <2>1 DEF IsRow
  <2>3. i \in DOMAIN f /\ f[i].is = "time"
    BY DEF Kind
  <2>4. f[i].val \in Dates(ddf.last)
    BY <2>1, <2>2, <2>3
  <2> HIDE DEF f
  <2>5. f[i].val >= ddf.last \/ f[i].val = 0
    BY <2>4 DEF Dates
  <2> QED
    BY <1>7, <2>5 DEF f
<1>9. out[10].len = out[10].val.size
  BY <1>7
<1> QED
  BY <1>4, <1>5, <1>6, <1>8, <1>9

\* Whatever the editor does between the steps, what is stored of a file is as long as
\* was announced; an item, or the constants, never have a time later than that of the
\* file when it was opened, and a script, or DESC, never an earlier one than the file
\* had when it was read, but none.
THEOREM CreateStamps == Spec => []ContentsStamped
<1> QED
  BY AlwaysTyped, AlwaysShaped, AlwaysWritten, AlwaysStamped, AlwaysDated, AlwaysDescDated,
     StampsHold, PTL

-----------------------------------------------------------------------------
(* Which scripts are bundled.                                              *)

\* f lists the numbers of S in their order.
Lists(f, m, S) ==
  /\ m \in Nat /\ \A k \in 1 .. m : f[k] \in S
  /\ \A i \in S : \E k \in 1 .. m : f[k] = i
  /\ \A j \in 1 .. m : \A k \in 1 .. m : j < k => f[j] < f[k]

LEMMA ListedOnce ==
  ASSUME NEW f, NEW m, NEW S \in SUBSET Nat, Lists(f, m, S), NEW j \in 1 .. m, NEW k \in 1 .. m
  PROVE  /\ f[j] \in Nat /\ f[k] \in Nat
         /\ f[j] = f[k] => j = k
         /\ f[j] <= f[k] <=> j <= k
<1>1. f[j] \in Nat /\ f[k] \in Nat /\ m \in Nat
  BY DEF Lists
<1>2. (j < k => f[j] < f[k]) /\ (k < j => f[k] < f[j])
  BY DEF Lists
<1> QED
  BY <1>1, <1>2

LEMMA CountIs ==
  ASSUME NEW f, NEW k \in Nat, NEW S, \A j \in 1 .. k : f[j] \in S,
         \A i \in S : \E j \in 1 .. k : f[j] = i,
         \A i \in 1 .. k : \A j \in 1 .. k : f[i] = f[j] => i = j
  PROVE  IsFiniteSet(S) /\ Cardinality(S) = k
<1> DEFINE g == [j \in 1 .. k |-> f[j]]
<1>1. g \in Bijection(1 .. k, S)
  BY DEF Bijection, Injection, IsInjective, Surjection
<1>2. ExistsBijection(1 .. k, S)
  BY <1>1 DEF ExistsBijection
<1> QED
  BY <1>2, FS_CountingElements, FS_NatBijection

LEMMA RankIs ==
  ASSUME NEW f, NEW m, NEW S \in SUBSET Nat, Lists(f, m, S), NEW k \in 1 .. m
  PROVE  Cardinality({i \in S : i <= f[k]}) = k
<1> DEFINE R == {i \in S : i <= f[k]}
<1>1. m \in Nat /\ k \in Nat /\ \A j \in 1 .. k : j \in 1 .. m /\ j <= k
  BY DEF Lists
<1>2. ASSUME NEW j \in 1 .. k PROVE f[j] \in R
  <2>1. j \in 1 .. m /\ j <= k
    BY <1>1
  <2>2. f[j] <= f[k]
    BY <2>1, ListedOnce
  <2>3. f[j] \in S
    BY <2>1 DEF Lists
  <2> QED
    BY <2>2, <2>3
<1>3. ASSUME NEW i \in R PROVE \E j \in 1 .. k : f[j] = i
  <2>1. PICK j \in 1 .. m : f[j] = i
    BY DEF Lists
  <2>2. j <= k
    BY <2>1, ListedOnce
  <2>3. j \in 1 .. k
    BY <1>1, <2>2
  <2> QED
    BY <2>1, <2>3
<1>4. \A i \in 1 .. k : \A j \in 1 .. k : f[i] = f[j] => i = j
  BY <1>1, ListedOnce
<1> HIDE DEF R
<1>5. Cardinality(R) = k
  BY <1>1, <1>2, <1>3, <1>4, CountIs
<1> QED
  BY <1>5 DEF R

\* The order of numbers is the one that lists them.
LEMMA OrderIs ==
  ASSUME NEW f, NEW m, NEW S \in SUBSET Nat, Lists(f, m, S)
  PROVE  InOrder(S) = [k \in 1 .. m |-> f[k]]
<1>1. m \in Nat /\ Cardinality(S) = m
  <2>1. \A i \in 1 .. m : \A j \in 1 .. m : f[i] = f[j] => i = j
    BY ListedOnce
  <2> QED
    BY <2>1, CountIs DEF Lists
<1>2. ASSUME NEW k \in 1 .. m
      PROVE  (CHOOSE i \in S : Cardinality({j \in S : j <= i}) = k) = f[k]
  <2> DEFINE rank(i) == Cardinality({j \in S : j <= i})
  <2>1. \A j \in 1 .. m : f[j] \in S /\ rank(f[j]) = j
    BY RankIs DEF Lists
  <2>2. \A i \in S : \E j \in 1 .. m : f[j] = i
    BY DEF Lists
  <2> HIDE DEF rank
  <2>3. f[k] \in S /\ rank(f[k]) = k /\ \A i \in S : rank(i) = k => i = f[k]
    BY <2>1, <2>2
  <2>4. (CHOOSE i \in S : rank(i) = k) = f[k]
    BY <2>3
  <2> QED
    BY <2>4 DEF rank
<1>3. InOrder(S) = [k \in 1 .. m |-> CHOOSE i \in S : Cardinality({j \in S : j <= i}) = k]
  BY <1>1 DEF InOrder
<1> QED
  BY <1>2, <1>3

LEMMA NoneListed == ASSUME NEW f PROVE Lists(f, 0, {})
  BY DEF Lists

\* g lists i behind the m numbers that f lists.
Lengthened(g, f, m, i, S) ==
  Lists(g, m + 1, S \cup {i}) /\ g[m + 1] = i /\ \A k \in 1 .. m : g[k] = f[k]

LEMMA MoreListed ==
  ASSUME NEW f, NEW m, NEW S \in SUBSET Nat, Lists(f, m, S), NEW i \in Nat, \A j \in S : j < i
  PROVE  \E g : Lengthened(g, f, m, i, S)
<1> DEFINE g == [k \in 1 .. m + 1 |-> IF k = m + 1 THEN i ELSE f[k]]
<1>1. /\ m \in Nat /\ m + 1 \in 1 .. m + 1
      /\ \A k \in 1 .. m : k \in 1 .. m + 1 /\ k # m + 1
      /\ \A k \in 1 .. m + 1 : k \in 1 .. m \/ k = m + 1
  BY DEF Lists
<1>2. g[m + 1] = i /\ \A k \in 1 .. m : g[k] = f[k]
  BY <1>1
<1> HIDE DEF g
<1>3. \A k \in 1 .. m + 1 : g[k] \in S \cup {i}
  BY <1>1, <1>2 DEF Lists
<1>4. \A x \in S \cup {i} : \E k \in 1 .. m + 1 : g[k] = x
  BY <1>1, <1>2 DEF Lists
<1>5. ASSUME NEW j \in 1 .. m + 1, NEW k \in 1 .. m + 1, j < k PROVE g[j] < g[k]
  <2>1. j \in 1 .. m
    BY <1>1, <1>5
  <2>2. CASE k \in 1 .. m
    BY <1>2, <1>5, <2>1, <2>2 DEF Lists
  <2>3. CASE k = m + 1
    BY <1>2, <2>1, <2>3 DEF Lists
  <2> QED
    BY <1>1, <2>2, <2>3
<1>6. Lists(g, m + 1, S \cup {i})
  BY <1>1, <1>3, <1>4, <1>5 DEF Lists
<1> QED
  BY <1>2, <1>6 DEF Lengthened

\* The bundle, the loops over items and their cache are empty at first.
Early == {"start", "stat_constants", "read_constants", "load_ddf", "describe", "identify"}

EarlyPlaces == pc \in Early => at = 1 /\ cache = {}

LEMMA EarlyKept == ASSUME Typed, EarlyPlaces, [Next]_vars PROVE EarlyPlaces'
<1>1. CASE Step /\ pc' \in Early
  <2>1. pc \in Early /\ UNCHANGED <<at, cache>>
    BY <1>1 DEF Step, ScratchExhausted, GiveUp, Start, StatConstants, ReadConstants, LoadDdf,
         Describe, Identify, LoadScript, SkipScript, StampScript, ScriptWithoutPath,
         NoMoreScripts, StartItems, EnterSubdevice, LeaveSubdevice, KnownItem, StatItem,
         ReadItem, NoMoreSubdevices, AddConstants, StoreBundle, StoreFails, Do, Go, place,
         Early
  <2> QED
    BY <2>1 DEF EarlyPlaces
<1>2. CASE Edit \/ Still
  BY <1>2 DEF Edit, Still, place, EarlyPlaces
<1> QED
  BY <1>1, <1>2, NextIs DEF EarlyPlaces

LEMMA AlwaysEarly == Spec => []EarlyPlaces
<1>1. Init => EarlyPlaces
  BY DEF Init, EarlyPlaces
<1> QED
  BY <1>1, AlwaysTyped, EarlyKept, PTL DEF Spec

LEMMA WordApart == ASSUME NEW doc, NEW i, SeparatorAt(doc, i) PROVE doc[i] # "script"
  BY DEF SeparatorAt

LEMMA SeparatorNoText == ASSUME NEW doc, NEW i, SeparatorAt(doc, i) PROVE doc[i] \notin Texts
  BY TextsApart DEF SeparatorAt

\* Where every "script" is a key, the path is its value.
LEMMA KeyPath ==
  ASSUME Typed, ScriptsAreKeys, ScriptPath # 0
  PROVE  /\ NextScript \in at .. Len(Doc) /\ NextScript \in ScriptKeys
         /\ ScriptPath = NextScript + 2 /\ T[ScriptPath].sym = Doc[ScriptPath]
         /\ PathFits <=> NextScript \in PathKeys
         /\ \A i \in PathKeys : i >= at => i >= NextScript
         /\ \A i \in PathKeys : i >= NextScript => i = NextScript \/ i > ScriptPath
<1>1. /\ Len(Doc) \in Nat /\ DOMAIN Doc = 1 .. Len(Doc) /\ at \in Nat \ {0}
      /\ \A i \in 1 .. Len(Doc) : T[i].sym = Doc[i]
  BY DocTokens DEF Typed, DiskTyped, PlacesTyped
<1>2. /\ NextScript \in at .. Len(Doc) /\ T[NextScript].sym = "script"
      /\ \A i \in at .. Len(Doc) : T[i].sym = "script" => NextScript <= i
  BY PathIs, ScriptIs
<1>3. /\ ScriptPath \in NextScript + 1 .. Len(Doc) /\ T[ScriptPath].sym \in Texts
      /\ \A i \in NextScript + 1 .. Len(Doc) : T[i].sym \in Texts => ScriptPath <= i
  BY PathIs
<1>4. NextScript \in 1 .. Len(Doc) /\ ScriptPath \in 1 .. Len(Doc)
  BY <1>1, <1>2, <1>3
<1>5. NextScript \in ScriptKeys
  BY <1>1, <1>2, <1>4 DEF ScriptKeys
<1>6. /\ SeparatorAt(Doc, NextScript + 1)
      /\ Doc[NextScript + 2] \in Texts /\ Doc[NextScript + 2] # "script"
  BY <1>5 DEF ScriptsAreKeys, SeparatorAt
<1>7. Doc[NextScript + 1] \notin Texts /\ Doc[NextScript + 1] # "script"
  BY <1>6, WordApart, SeparatorNoText
<1>8. ScriptPath # NextScript + 1
  <2>1. Doc[ScriptPath] \in Texts
    BY <1>1, <1>3, <1>4
  <2> QED
    BY <1>7, <2>1
<1>9. NextScript + 2 \in 1 .. Len(Doc) /\ NextScript + 2 \in NextScript + 1 .. Len(Doc)
      /\ ScriptPath >= NextScript + 2
  BY <1>1, <1>3, <1>4, <1>8
<1>10. ScriptPath = NextScript + 2
  <2>1. T[NextScript + 2].sym \in Texts
    BY <1>1, <1>6, <1>9
  <2>2. ScriptPath <= NextScript + 2
    BY <1>3, <1>9, <2>1
  <2> QED
    BY <1>4, <1>9, <2>2
<1>11. T[ScriptPath].sym = Doc[NextScript + 2] /\ T[ScriptPath].sym = Doc[ScriptPath]
  BY <1>1, <1>4, <1>10
<1>12. PathFits <=> NextScript \in PathKeys
  BY <1>5, <1>11 DEF PathFits, PathKeys
<1>13. ASSUME NEW i \in PathKeys
       PROVE  /\ i >= at => i >= NextScript
              /\ i >= NextScript => i = NextScript \/ i > ScriptPath
  <2>1. i \in 1 .. Len(Doc) /\ Doc[i] = "script"
    BY <1>1 DEF PathKeys, ScriptKeys
  <2>2. T[i].sym = "script"
    BY <1>1, <2>1
  <2>3. i >= at => i \in at .. Len(Doc)
    BY <1>1, <2>1
  <2>4. i # NextScript + 1 /\ i # NextScript + 2
    BY <1>6, <1>7, <2>1
  <2> QED
    BY <1>2, <1>4, <1>10, <2>1, <2>2, <2>3, <2>4
<1> QED
  BY <1>2, <1>5, <1>10, <1>11, <1>12, <1>13

\* Keys of scripts that are in the bundle.
KeysDone ==
  {i \in PathKeys : (pc = "scan" => i < at) /\ (pc = "stamp_script" => i < at - 3)}

\* The script that was loaded is that of the next key.
ScriptNamed ==
  pc = "stamp_script" /\ ScriptsAreKeys =>
    at - 3 \in PathKeys /\ name = Doc[at - 1]

\* The steps of the loop over scripts; all others leave the keys as they are.
LEMMA KeysAre ==
  ASSUME Typed, ScriptNamed, ScriptsAreKeys, Step, pc \in Filling, pc' \in Filling
  PROVE  \/ ~StampScript /\ KeysDone' = KeysDone
         \/ /\ StampScript /\ at - 3 \in PathKeys /\ name = Doc[at - 1]
            /\ KeysDone' = KeysDone \cup {at - 3} /\ \A i \in KeysDone : i < at - 3
<1>1. input' = input /\ PathKeys' = PathKeys
  BY StepFrame DEF disk, PathKeys, ScriptKeys, Doc
<1>2. Len(Doc) \in Nat /\ at \in Nat \ {0} /\ \A i \in PathKeys : i \in Nat
  <2>1. \A i \in PathKeys : i \in 1 .. Len(Doc)
    BY DocTokens DEF Typed, DiskTyped, PathKeys, ScriptKeys
  <2>2. Len(Doc) \in Nat
    BY DocTokens DEF Typed, DiskTyped
  <2> QED
    BY <2>1, <2>2 DEF Typed, PlacesTyped
<1>3. KeysDone' = {i \in PathKeys : (pc' = "scan" => i < at') /\ (pc' = "stamp_script" => i < at' - 3)}
  BY <1>1 DEF KeysDone
<1>4. CASE LoadScript
  <2>1. pc = "scan" /\ pc' = "stamp_script" /\ PathFits /\ at' = ScriptPath + 1
    BY <1>4 DEF LoadScript, Do, Go
  <2>2. NextScript \in at .. Len(Doc) /\ at' = NextScript + 3
        /\ \A i \in PathKeys : i >= at => i >= NextScript
    <3>1. ScriptPath # 0
      BY <2>1 DEF PathFits
    <3>2. NextScript \in at .. Len(Doc) /\ ScriptPath = NextScript + 2
          /\ \A i \in PathKeys : i >= at => i >= NextScript
      BY <3>1, KeyPath
    <3> QED
      BY <1>2, <2>1, <3>2
  <2>3. \A i \in PathKeys : i < at <=> i < at' - 3
    BY <1>2, <2>2
  <2>4. ~StampScript
    BY <2>1 DEF StampScript, Do
  <2> QED
    BY <1>3, <2>1, <2>3, <2>4 DEF KeysDone
<1>5. CASE SkipScript
  <2>1. pc = "scan" /\ pc' = "scan" /\ ScriptPath # 0 /\ ~PathFits /\ at' = ScriptPath + 1
    BY <1>5 DEF SkipScript, Do, Go
  <2>2. /\ NextScript \in at .. Len(Doc) /\ ScriptPath = NextScript + 2 /\ NextScript \notin PathKeys
        /\ \A i \in PathKeys : i >= at => i >= NextScript
        /\ \A i \in PathKeys : i >= NextScript => i = NextScript \/ i > ScriptPath
    BY <2>1, KeyPath
  <2>3. \A i \in PathKeys : i < at <=> i < at'
    BY <1>2, <2>1, <2>2
  <2>4. ~StampScript
    BY <2>1 DEF StampScript, Do
  <2> QED
    BY <1>3, <2>1, <2>3, <2>4 DEF KeysDone
<1>6. CASE NoMoreScripts
  <2>1. pc = "scan" /\ pc' = "start_items" /\ NextScript = 0
    BY <1>6 DEF NoMoreScripts, Do, Go
  <2>2. \A i \in PathKeys : i < at
    <3>1. \A i \in PathKeys : i \in 1 .. Len(Doc) /\ T[i].sym = "script"
      BY DocTokens DEF Typed, DiskTyped, PathKeys, ScriptKeys
    <3>2. \A i \in at .. Len(Doc) : T[i].sym # "script"
      BY <2>1, ScriptIs
    <3> QED
      BY <1>2, <3>1, <3>2
  <2>3. ~StampScript
    BY <2>1 DEF StampScript, Do
  <2> QED
    BY <1>3, <2>1, <2>2, <2>3 DEF KeysDone
<1>7. CASE StampScript
  <2>1. pc = "stamp_script" /\ pc' = "scan" /\ at' = at
    BY <1>7 DEF StampScript, Do, Go, place
  <2>2. at - 3 \in PathKeys /\ name = Doc[at - 1]
    BY <2>1 DEF ScriptNamed
  <2>3. \A i \in PathKeys : i < at <=> i < at - 3 \/ i = at - 3
    <3>1. Doc[at - 3 + 1] = Doc[at - 2] /\ Doc[at - 3 + 2] = Doc[at - 1]
      <4>1. at - 3 + 1 = at - 2 /\ at - 3 + 2 = at - 1
        BY <1>2
      <4> QED
        BY <4>1
    <3>2. SeparatorAt(Doc, at - 2) /\ Doc[at - 1] # "script"
      BY <2>2, <3>1 DEF ScriptsAreKeys, PathKeys, SeparatorAt
    <3>3. Doc[at - 2] # "script"
      BY <3>2, WordApart
    <3>4. \A i \in PathKeys : Doc[i] = "script"
      BY DEF PathKeys, ScriptKeys
    <3>5. \A i \in PathKeys : i # at - 2 /\ i # at - 1
      BY <3>2, <3>3, <3>4
    <3> QED
      BY <1>2, <3>5
  <2>4. KeysDone' = {i \in PathKeys : i < at} /\ KeysDone = {i \in PathKeys : i < at - 3}
    BY <1>3, <2>1 DEF KeysDone
  <2> QED
    BY <1>7, <2>2, <2>3, <2>4
<1>8. CASE ~(LoadScript \/ SkipScript \/ NoMoreScripts \/ StampScript)
  <2>1. pc \notin {"scan", "stamp_script"} /\ pc' \notin {"scan", "stamp_script"}
    BY <1>8 DEF Step, ScratchExhausted, GiveUp, Start, StatConstants, ReadConstants, LoadDdf,
         Describe, Identify, ScriptWithoutPath, StartItems, EnterSubdevice, LeaveSubdevice,
         KnownItem, StatItem, ReadItem, NoMoreSubdevices, AddConstants, StoreBundle, StoreFails,
         Do, Go, Filling, Behind
  <2> QED
    BY <1>3, <1>8, <2>1 DEF KeysDone
<1> QED
  BY <1>4, <1>5, <1>6, <1>7, <1>8

LEMMA NamedKept == ASSUME Typed, ScriptNamed, [Next]_vars PROVE ScriptNamed'
<1>1. CASE Step /\ ScriptsAreKeys /\ pc' = "stamp_script"
  <2>1. LoadScript
    BY <1>1 DEF Step, ScratchExhausted, GiveUp, Start, StatConstants, ReadConstants, LoadDdf,
         Describe, Identify, SkipScript, StampScript, NoMoreScripts, ScriptWithoutPath, StartItems,
         EnterSubdevice, LeaveSubdevice, KnownItem, StatItem, ReadItem, NoMoreSubdevices,
         AddConstants, StoreBundle, StoreFails, Go
  <2>2. ScriptPath # 0 /\ PathFits /\ at' = ScriptPath + 1 /\ name' = T[ScriptPath].sym
    BY <2>1 DEF LoadScript, PathFits
  <2>3. /\ NextScript \in PathKeys /\ ScriptPath = NextScript + 2 /\ NextScript \in at .. Len(Doc)
        /\ T[ScriptPath].sym = Doc[ScriptPath]
    BY <1>1, <2>2, KeyPath
  <2>4. at' - 3 = NextScript /\ at' - 1 = ScriptPath
    <3>1. Len(Doc) \in Nat /\ at \in Nat
      BY DocTokens DEF Typed, DiskTyped, PlacesTyped
    <3> QED
      BY <2>2, <2>3, <3>1
  <2>5. input' = input /\ PathKeys' = PathKeys
    BY <1>1, StepFrame DEF disk, PathKeys, ScriptKeys, Doc
  <2> QED
    BY <2>2, <2>3, <2>4, <2>5 DEF ScriptNamed, Doc
<1>2. CASE Edit \/ Still
  BY <1>2 DEF Edit, Still, disk, loaded, place, ScriptNamed, ScriptsAreKeys, PathKeys, ScriptKeys,
       Doc
<1>3. CASE Step /\ ~(ScriptsAreKeys /\ pc' = "stamp_script")
  <2>1. ScriptsAreKeys' => ScriptsAreKeys
    BY <1>3, StepFrame DEF disk, ScriptsAreKeys, ScriptKeys, Doc
  <2> QED
    BY <1>3, <2>1 DEF ScriptNamed
<1> QED
  BY <1>1, <1>2, <1>3, NextIs

LEMMA AlwaysNamed == Spec => []ScriptNamed
<1>1. Init => ScriptNamed
  BY DEF Init, ScriptNamed
<1> QED
  BY <1>1, AlwaysTyped, NamedKept, PTL DEF Spec

\* The first m of n chunks are the scripts of S, in their order; the others are none.
Scripts(g, n, m, f, S) ==
  /\ m \in 0 .. n /\ Lists(f, m, S)
  /\ \A k \in 1 .. m : TypeAt(g, k) = "SCJS" /\ PathAt(g, k) = Doc[f[k] + 2]
  /\ \A k \in m + 1 .. n : TypeAt(g, k) = "JSON"

ScriptsPut ==
  bs.ok /\ pc \in Filling /\ ScriptsAreKeys =>
    \A n \in Nat : Bundled(bs.fields, n) =>
      \E m : \E f : /\ Scripts(bs.fields, n, m, f, KeysDone)
                    /\ pc \in {"scan", "stamp_script"} => m = n

LEMMA ScriptsStay ==
  ASSUME NEW g, NEW h, NEW n \in Nat, NEW m, NEW f, NEW S, Scripts(g, n, m, f, S),
         \A k \in 1 .. n : SameChunk(g, h, k)
  PROVE  Scripts(h, n, m, f, S)
<1>1. m \in 0 .. n /\ (\A k \in 1 .. m : k \in 1 .. n) /\ \A k \in m + 1 .. n : k \in 1 .. n
  BY DEF Scripts
<1> QED
  BY <1>1 DEF Scripts, SameChunk

LEMMA OtherMore ==
  ASSUME NEW g, NEW n \in Nat \ {0}, NEW m, NEW f, NEW S, Scripts(g, n - 1, m, f, S),
         TypeAt(g, n) = "JSON"
  PROVE  Scripts(g, n, m, f, S)
<1>1. m \in 0 .. n - 1 /\ m \in 0 .. n /\ \A k \in m + 1 .. n : k \in m + 1 .. n - 1 \/ k = n
  BY DEF Scripts
<1> QED
  BY <1>1 DEF Scripts

LEMMA ScriptMore ==
  ASSUME NEW g, NEW n \in Nat \ {0}, NEW f, NEW S \in SUBSET Nat, Scripts(g, n - 1, n - 1, f, S),
         NEW i \in Nat, \A j \in S : j < i, TypeAt(g, n) = "SCJS", PathAt(g, n) = Doc[i + 2]
  PROVE  \E h : Scripts(g, n, n, h, S \cup {i})
<1> DEFINE p == n - 1
<1>1. Lists(f, p, S) /\ p + 1 = n
  BY DEF Scripts
<1> HIDE DEF p
<1>2. PICK h : Lengthened(h, f, p, i, S)
  BY <1>1, MoreListed
<1>3. Lists(h, n, S \cup {i}) /\ h[n] = i /\ \A k \in 1 .. n - 1 : h[k] = f[k]
  BY <1>1, <1>2 DEF Lengthened, p
<1>4. \A k \in 1 .. n : k \in 1 .. n - 1 \/ k = n
  OBVIOUS
<1>5. \A k \in 1 .. n : TypeAt(g, k) = "SCJS" /\ PathAt(g, k) = Doc[h[k] + 2]
  BY <1>3, <1>4 DEF Scripts
<1>6. n \in 0 .. n /\ \A k \in n + 1 .. n : FALSE
  OBVIOUS
<1> QED
  BY <1>3, <1>5, <1>6 DEF Scripts

LEMMA KeyNumbers == ASSUME Typed PROVE PathKeys \in SUBSET Nat /\ KeysDone \in SUBSET Nat
<1>1. \A i \in PathKeys : i \in 1 .. Len(Doc)
  BY DocTokens DEF Typed, DiskTyped, PathKeys, ScriptKeys
<1> QED
  BY <1>1 DEF KeysDone

LEMMA ScriptsKept ==
  ASSUME Typed, Shaped, EarlyPlaces, ScriptNamed, ScriptsPut, [Next]_vars PROVE ScriptsPut'
<1>1. CASE Step
  <2>1. input' = input /\ (ScriptsAreKeys' => ScriptsAreKeys)
    BY <1>1, StepFrame DEF disk, ScriptsAreKeys, ScriptKeys, Doc
  <2>2. \A g, n, m, f, S : Scripts(g, n, m, f, S) => Scripts(g, n, m, f, S)'
    BY <2>1 DEF Scripts, Doc, Lists, TypeAt, PathAt
  <2> DEFINE looping == pc' \in {"scan", "stamp_script"}
             g == bs'.fields
             K == KeysDone'
  <2>3. ASSUME bs'.ok, pc' \in Filling, ScriptsAreKeys, NEW n \in Nat, Bundled(g, n)
        PROVE  \E m, f : Scripts(g, n, m, f, K) /\ (looping => m = n)
    <3>1. CASE Identify /\ n = 0
      <4>1. at = 1 /\ pc' = "scan" /\ at' = at
        BY <3>1 DEF Identify, Do, Go, place, EarlyPlaces, Early
      <4>2. PathKeys' = PathKeys
        BY <2>1 DEF PathKeys, ScriptKeys, Doc
      <4>3. \A i \in PathKeys : i \in 1 .. Len(Doc)
        BY DocTokens DEF Typed, DiskTyped, PathKeys, ScriptKeys
      <4>4. K = {}
        BY <4>1, <4>2, <4>3 DEF KeysDone
      <4>5. Scripts(g, 0, 0, <<>>, {})
        BY NoneListed DEF Scripts
      <4> QED
        BY <3>1, <4>4, <4>5
    <3>2. CASE UNCHANGED bs /\ pc \in Filling /\ ~StampScript
      <4>1. PICK m, f : /\ Scripts(bs.fields, n, m, f, KeysDone)
                        /\ pc \in {"scan", "stamp_script"} => m = n
        BY <2>3, <3>2 DEF ScriptsPut
      <4>2. K = KeysDone
        BY <1>1, <2>3, <3>2, KeysAre
      <4>3. looping => pc \in {"scan", "stamp_script"}
        BY <1>1, <3>2 DEF Step, ScratchExhausted, GiveUp, Start, StatConstants, ReadConstants,
             LoadDdf, Describe, Identify, LoadScript, SkipScript, StampScript, NoMoreScripts,
             ScriptWithoutPath, StartItems, EnterSubdevice, LeaveSubdevice, KnownItem, StatItem,
             ReadItem, NoMoreSubdevices, AddConstants, StoreBundle, StoreFails, Do, Go, Filling,
             Behind
      <4> QED
        BY <3>2, <4>1, <4>2, <4>3
    <3>3. ASSUME NEW type, NEW name_, NEW time, NEW len, NEW content,
                 Adds(n, type, name_, time, len, content), pc # "stamp_script" => pc # "scan"
          PROVE  /\ n \in Nat \ {0} /\ TypeAt(g, n) = type /\ PathAt(g, n) = name_
                 /\ \E m, f : /\ Scripts(g, n - 1, m, f, KeysDone)
                              /\ pc \in {"scan", "stamp_script"} => m = n - 1
      <4>1. /\ bs.ok /\ pc \in Filling /\ n \in Nat \ {0} /\ Bundled(bs.fields, n - 1)
            /\ \A k \in 1 .. n - 1 : SameChunk(bs.fields, g, k)
            /\ TypeAt(g, n) = type /\ PathAt(g, n) = name_
        BY <3>3 DEF Adds, NewChunk
      <4>2. n - 1 \in Nat
        BY <4>1
      <4>3. PICK m, f : /\ Scripts(bs.fields, n - 1, m, f, KeysDone)
                        /\ pc \in {"scan", "stamp_script"} => m = n - 1
        BY <2>3, <4>1, <4>2 DEF ScriptsPut
      <4>4. Scripts(g, n - 1, m, f, KeysDone)
        BY <4>1, <4>2, <4>3, ScriptsStay
      <4> QED
        BY <4>1, <4>3, <4>4
    <3>4. CASE StampScript /\ Adds(n, "SCJS", name, fs[ScriptFile[name]].time, seen.size, seen)
      <4> DEFINE i == at - 3
      <4>1. pc = "stamp_script" /\ pc \in Filling
        BY <3>4 DEF StampScript, Do, Filling, Behind
      <4>2. /\ n \in Nat \ {0} /\ TypeAt(g, n) = "SCJS" /\ PathAt(g, n) = name
            /\ \E m, f : /\ Scripts(g, n - 1, m, f, KeysDone)
                         /\ pc \in {"scan", "stamp_script"} => m = n - 1
        BY <3>3, <3>4, <4>1
      <4>3. PICK f : Scripts(g, n - 1, n - 1, f, KeysDone)
        BY <4>1, <4>2
      <4>4. /\ i \in PathKeys /\ name = Doc[at - 1] /\ K = KeysDone \cup {i}
            /\ \A j \in KeysDone : j < i
        BY <1>1, <2>3, <3>4, <4>1, KeysAre
      <4>5. i \in Nat /\ i + 2 = at - 1
        <5>1. i \in Nat
          BY <4>4, KeyNumbers
        <5> QED
          BY <5>1 DEF Typed, PlacesTyped
      <4>6. PathAt(g, n) = Doc[i + 2]
        BY <4>2, <4>4, <4>5
      <4> HIDE DEF i
      <4>7. \E h : Scripts(g, n, n, h, KeysDone \cup {i})
        BY <4>2, <4>3, <4>4, <4>5, <4>6, KeyNumbers, ScriptMore
      <4> QED
        BY <4>4, <4>7
    <3>5. ASSUME ~StampScript, NEW type, NEW name_, NEW time, NEW len, NEW content,
                 Adds(n, type, name_, time, len, content), type = "JSON",
                 pc \notin {"scan", "stamp_script"}, ~looping
          PROVE  \E m, f : Scripts(g, n, m, f, K) /\ (looping => m = n)
      <4>1. /\ n \in Nat \ {0} /\ TypeAt(g, n) = "JSON"
            /\ \E m, f : Scripts(g, n - 1, m, f, KeysDone)
        BY <3>3, <3>5
      <4>2. PICK m, f : Scripts(g, n - 1, m, f, KeysDone)
        BY <4>1
      <4>3. Scripts(g, n, m, f, KeysDone)
        BY <4>1, <4>2, OtherMore
      <4>4. K = KeysDone
        BY <1>1, <2>3, <3>5, KeysAre DEF Adds
      <4> QED
        BY <3>5, <4>3, <4>4
    <3>6. CASE /\ ReadItem
               /\ Adds(n, "JSON", FileNamed(name), seen.time, seen.size,
                       IF seen.size = 0 THEN seen
                       ELSE Loaded(FileNamed(name)))
      <4>1. pc = "read_item" /\ pc' = "items"
        BY <3>6 DEF ReadItem, Do, Go
      <4>2. ~StampScript /\ pc \notin {"scan", "stamp_script"} /\ ~looping
        BY <4>1 DEF StampScript, Do
      <4> QED
        BY <3>5, <3>6, <4>2
    <3>7. CASE /\ AddConstants
               /\ Adds(n, "JSON", "generic/constants_min.json", constants.time,
                       ConstantsText.pos, ConstantsText.fields)
      <4>1. pc = "constants" /\ pc' = "store"
        BY <3>7 DEF AddConstants, Do, Go
      <4>2. ~StampScript /\ pc \notin {"scan", "stamp_script"} /\ ~looping
        BY <4>1 DEF StampScript, Do
      <4> QED
        BY <3>5, <3>7, <4>2
    <3> QED
      BY <1>1, <2>3, <3>1, <3>2, <3>4, <3>6, <3>7, BundleChanges
  <2> QED
    BY <2>1, <2>2, <2>3 DEF ScriptsPut, Filling
<1>2. CASE Edit \/ Still
  <2>1. UNCHANGED <<input, pc, bs, at>>
    BY <1>2 DEF Edit, Still, disk, place
  <2>2. Doc' = Doc /\ ScriptKeys' = ScriptKeys /\ PathKeys' = PathKeys
    BY <2>1 DEF Doc, PathKeys, ScriptKeys
  <2>3. KeysDone' = KeysDone /\ (ScriptsAreKeys' => ScriptsAreKeys)
    BY <2>1, <2>2 DEF KeysDone, ScriptsAreKeys
  <2>4. \A g, n, m, f, S : Scripts(g, n, m, f, S) => Scripts(g, n, m, f, S)'
    BY <2>2 DEF Scripts, Lists, TypeAt, PathAt
  <2> QED
    BY <2>1, <2>3, <2>4 DEF ScriptsPut, Filling
<1> QED
  BY <1>1, <1>2, NextIs

LEMMA AlwaysScripts == Spec => []ScriptsPut
<1>1. Init => ScriptsPut
  BY DEF Init, ScriptsPut, Filling, Behind
<1> QED
  BY <1>1, AlwaysTyped, AlwaysShaped, AlwaysEarly, AlwaysNamed, ScriptsKept, PTL DEF Spec

LEMMA ScriptsHold ==
  ASSUME Typed, Shaped, Written, ChunksStamped, ScriptsPut PROVE ScriptsBundled
<1> SUFFICES ASSUME pc = "stored", ScriptsAreKeys
             PROVE  [k \in DOMAIN InOrder(ScriptChunks) |-> Path(InOrder(ScriptChunks)[k])]
                      = [k \in DOMAIN InOrder(PathKeys) |-> Doc[InOrder(PathKeys)[k] + 2]]
  BY DEF ScriptsBundled, Stored
<1>1. PICK n : StoredAs(n)
  BY StoredIs
<1>2. /\ n \in Nat \ {0} /\ Bundled(out, n) /\ IsRow(out) /\ TypeAt(out, n) = "JSON"
      /\ Bundled(bs.fields, n) /\ \A k \in 1 .. n : SameChunk(bs.fields, out, k)
  BY <1>1 DEF StoredAs, Whole
<1>3. PICK m, f : Scripts(bs.fields, n, m, f, KeysDone)
  <2>1. bs.ok /\ pc \in Filling
    BY DEF Written, Filling, Behind
  <2> QED
    BY <1>2, <2>1 DEF ScriptsPut
<1>4. KeysDone = PathKeys
  BY DEF KeysDone
<1>5. Scripts(out, n, m, f, PathKeys)
  BY <1>2, <1>3, <1>4, ScriptsStay
<1>6. m \in Nat /\ m <= n - 1
  <2>1. m \in 0 .. n /\ \A k \in 1 .. m : TypeAt(out, k) = "SCJS"
    BY <1>5 DEF Scripts
  <2>2. m # n
    <3>1. n \in 1 .. n
      BY <1>2
    <3> QED
      BY <1>2, <2>1, <3>1
  <2> QED
    BY <1>2, <2>1, <2>2
<1> DEFINE place_ == [k \in 1 .. m |-> 9 * k + 4]
<1>7. \A c \in 1 .. n - 1 : TypeAt(out, c) = "SCJS" <=> c \in 1 .. m
  <2>1. \A c \in 1 .. n - 1 : c \in 1 .. m \/ c \in m + 1 .. n
    BY <1>2, <1>6
  <2> QED
    BY <1>5, <2>1 DEF Scripts
<1>8. ScriptChunks = {9 * k + 4 : k \in 1 .. m}
  <2>1. {c \in 1 .. n - 1 : TypeAt(out, c) = "SCJS"} = 1 .. m
    <3>1. \A c \in 1 .. m : c \in 1 .. n - 1
      BY <1>2, <1>6
    <3> QED
      BY <1>7, <3>1
  <2> QED
    BY <1>2, <2>1, ChunkSets
<1>9. Lists(place_, m, ScriptChunks) /\ ScriptChunks \in SUBSET Nat
  BY <1>6, <1>8 DEF Lists
<1>10. \A k \in 1 .. m : place_[k] = 9 * k + 4 /\ k \in Nat
  OBVIOUS
<1> HIDE DEF place_
<1>11. InOrder(ScriptChunks) = [k \in 1 .. m |-> place_[k]]
  BY <1>9, OrderIs
<1>12. InOrder(PathKeys) = [k \in 1 .. m |-> f[k]]
  BY <1>5, KeyNumbers, OrderIs DEF Scripts
<1>13. \A k \in 1 .. m : Path(place_[k]) = Doc[f[k] + 2]
  BY <1>5, <1>10, ChunkParts DEF Scripts
<1> QED
  BY <1>11, <1>12, <1>13

\* If "script" is a key wherever it stands, a stored bundle has the script of each such key
\* whose path is not too long, in their order, and no other; nothing is skipped or taken
\* twice, although the search goes by the text and not by the structure.
THEOREM CreateScripts == Spec => []ScriptsBundled
<1> QED
  BY AlwaysTyped, AlwaysShaped, AlwaysWritten, AlwaysStamped, AlwaysScripts, ScriptsHold, PTL

-----------------------------------------------------------------------------
(* Which items are bundled.                                                *)

\* In an accepted DDF a lookup finds the value of the first member of that name.
LEMMA LookupSees ==
  ASSUME Typed, Parses(Doc), NEW obj \in Nat \ {0}, NEW key \in Texts,
         NEW ref, ref = cj_value_ref(T, obj, key), ref # Invalid
  PROVE  /\ ref = MemberValue(Doc, obj, key) /\ ref \in obj + 2 .. Len(Doc)
         /\ T[ref].sym = Doc[ref]
<1>1. /\ Doc \in Document /\ T = TokensOf(Doc) /\ Len(T) = Len(Doc) /\ Len(Doc) \in Nat
      /\ \A i \in 1 .. Len(Doc) : T[i].sym = Doc[i] /\ T[i].parent = Enclosing(Doc, i)
  BY DocTokens DEF Typed, DiskTyped
<1>2. ref \in obj + 2 .. Len(Doc)
  BY LookupInside
<1>3. SeparatorToken(T[ref - 1]) /\ T[ref - 2].parent = obj /\ T[ref - 2].sym = key
  BY <1>1, LookupIs
<1> DEFINE a == ref - 2
           b == ref - 1
<1>4. a \in 1 .. Len(Doc) /\ a \in Nat \ {0} /\ b \in 1 .. Len(Doc) /\ obj \in 1 .. Len(Doc)
      /\ ref \in 1 .. Len(Doc)
  BY <1>1, <1>2
<1>5. Enclosing(Doc, a) = obj /\ Doc[a] = key
  BY <1>1, <1>3, <1>4
<1>6. SeparatorAt(Doc, b)
  <2>1. Type(Doc[b]) = ":"
    BY <1>1, <1>3, <1>4 DEF SeparatorToken
  <2> QED
    BY <2>1 DEF Type, SeparatorAt
<1> HIDE DEF a, b
<1>7. Doc[obj] \in Begins
  <2>1. Doc[a] \notin Ends
    BY <1>5, TextsApart
  <2>2. obj # Invalid
    BY DEF Invalid
  <2> QED
    BY <1>4, <1>5, <2>1, <2>2, EnclosingOpen
<1>8. ~SeparatorAt(Doc, Len(Doc))
  BY <1>4, <1>6, ClosedBehind
<1>9. cj_value_ref(TokensOf(Doc), obj, key) = MemberValue(Doc, obj, key)
  BY <1>1, <1>4, <1>7, <1>8, LookupFinds
<1> QED
  BY <1>1, <1>2, <1>4, <1>9

LEMMA KeysAreTexts == "subdevices" \in Texts /\ "items" \in Texts /\ "name" \in Texts
  BY CreateAssumption

LEMMA ObjectOpens == ASSUME NEW doc, NEW i, ObjectAt(doc, i) PROVE doc[i] \notin Ends
  BY DEF ObjectAt, Ends

\* The objects of a list are behind its beginning.
LEMMA ObjectsOf ==
  ASSUME Typed, NEW list \in Nat \ {0}
  PROVE  /\ \A i : i \in Objects(list) <=>
                i \in 1 .. Len(Doc) /\ ObjectAt(Doc, i) /\ T[i].parent = list
         /\ \A i \in Objects(list) :
              /\ i \in 1 .. Len(Doc) /\ i \in Nat \ {0} /\ i > list /\ Enclosing(Doc, i) = list
              /\ Doc[i] \notin Ends
<1>1. /\ Len(Doc) \in Nat /\ DOMAIN Doc = 1 .. Len(Doc)
      /\ \A i \in 1 .. Len(Doc) : T[i].parent = Enclosing(Doc, i)
  BY DocTokens DEF Typed, DiskTyped
<1>2. \A i : i \in Objects(list) <=>
               i \in 1 .. Len(Doc) /\ ObjectAt(Doc, i) /\ T[i].parent = list
  BY <1>1 DEF Objects, ObjectAt
<1>3. ASSUME NEW i \in Objects(list)
      PROVE  /\ i \in 1 .. Len(Doc) /\ i \in Nat \ {0} /\ i > list /\ Enclosing(Doc, i) = list
             /\ Doc[i] \notin Ends
  <2>1. i \in 1 .. Len(Doc) /\ ObjectAt(Doc, i) /\ Enclosing(Doc, i) = list
    BY <1>1, <1>2
  <2>2. i \in Nat \ {0} /\ list # Invalid
    BY <1>1, <2>1 DEF Invalid
  <2>3. Doc[i] \notin Ends
    BY <2>1, ObjectOpens
  <2>4. list \in 1 .. i - 1
    BY <2>1, <2>2, <2>3, EnclosingOpen
  <2> QED
    BY <2>1, <2>2, <2>3, <2>4
<1> QED
  BY <1>2, <1>3

LEMMA SubdevicesAre ==
  ASSUME Typed, Parses(Doc), Subdevices # Invalid
  PROVE  Subdevices \in Nat \ {0} /\ SubdeviceObjects = Objects(Subdevices)
<1>1. Subdevices = MemberValue(Doc, 1, "subdevices") /\ Subdevices \in 1 + 2 .. Len(Doc)
  BY KeysAreTexts, LookupSees DEF Subdevices
<1> QED
  BY <1>1 DEF SubdeviceObjects

LEMMA ItemsAre ==
  ASSUME Typed, Parses(Doc), NEW sub \in Nat \ {0},
         NEW list, list = cj_value_ref(T, sub, "items"), list # Invalid
  PROVE  /\ list \in Nat \ {0} /\ list = MemberValue(Doc, sub, "items")
         /\ ItemObjects(sub) = Objects(list)
<1>1. list = MemberValue(Doc, sub, "items") /\ list \in sub + 2 .. Len(Doc)
  BY KeysAreTexts, LookupSees
<1> QED
  BY <1>1 DEF ItemObjects

\* The file of an item.
FileAt(i) == FileNamed(Doc[MemberValue(Doc, i, "name")])

LEMMA NameIs ==
  ASSUME Typed, Parses(Doc), ~EndsItems, ItemName # Invalid, subdev # 0, Items # Invalid
  PROVE  /\ NextItem \in ItemObjects(subdev) /\ NextItem \in at .. Len(Doc)
         /\ FileNamed(T[ItemName].sym) = FileAt(NextItem)
         /\ \A i \in ItemObjects(subdev) : i >= at => i >= NextItem
<1>1. /\ subdev \in Nat \ {0} /\ at \in Nat \ {0} /\ Len(Doc) \in Nat
  BY DocTokens DEF Typed, DiskTyped, PlacesTyped
<1>2. Items \in Nat \ {0} /\ ItemObjects(subdev) = Objects(Items)
  BY <1>1, ItemsAre DEF Items
<1>3. /\ NextItem \in at .. Len(Doc) /\ T[NextItem].parent = Items /\ ObjectAt(Doc, NextItem)
      /\ \A i \in at .. Len(Doc) : T[i].parent = Items /\ ObjectAt(Doc, i) => NextItem <= i
  BY ItemIs
<1>4. NextItem \in 1 .. Len(Doc) /\ NextItem \in Nat \ {0}
  BY <1>1, <1>3
<1>5. NextItem \in ItemObjects(subdev)
  BY <1>2, <1>3, <1>4, ObjectsOf
<1>6. ItemName = MemberValue(Doc, NextItem, "name") /\ T[ItemName].sym = Doc[ItemName]
  BY <1>4, KeysAreTexts, LookupSees DEF ItemName
<1>7. ASSUME NEW i \in ItemObjects(subdev), i >= at PROVE i >= NextItem
  <2>1. i \in 1 .. Len(Doc) /\ ObjectAt(Doc, i) /\ T[i].parent = Items
    BY <1>2, ObjectsOf
  <2>2. i \in at .. Len(Doc)
    BY <1>1, <1>7, <2>1
  <2> QED
    BY <1>3, <1>4, <2>1, <2>2
<1> QED
  BY <1>3, <1>5, <1>6, <1>7 DEF FileAt

LEMMA MemberEnds == ASSUME NEW sub, NEW i, MemberEnd(sub, i) PROVE Doc[i] \in Ends
  BY DEF MemberEnd, Ends

LEMMA BeginsNoEnd == ASSUME NEW sym \in Begins PROVE sym \notin Ends
  BY DEF Begins, Ends

\* Where the loop over items is left, all items of the subdevice are behind it: the
\* end of a member that stops it is not followed by items of the list.
LEMMA ItemsOver ==
  ASSUME Typed, Parses(Doc), EndsItems, subdev # 0, Items # Invalid, at >= Items,
         NEW i \in ItemObjects(subdev)
  PROVE  i < at
<1>1. /\ subdev \in Nat \ {0} /\ at \in Nat \ {0} /\ Len(Doc) \in Nat /\ Doc \in Document
      /\ \A j \in 1 .. Len(Doc) : T[j].parent = Enclosing(Doc, j)
  BY DocTokens DEF Typed, DiskTyped, PlacesTyped
<1>2. /\ Items \in Nat \ {0} /\ Items = MemberValue(Doc, subdev, "items")
      /\ ItemObjects(subdev) = Objects(Items)
  BY <1>1, ItemsAre DEF Items
<1>3. /\ i \in 1 .. Len(Doc) /\ ObjectAt(Doc, i) /\ T[i].parent = Items
      /\ i \in Nat \ {0} /\ Enclosing(Doc, i) = Items /\ Doc[i] \notin Ends
  BY <1>2, ObjectsOf
<1> SUFFICES ASSUME i >= at PROVE FALSE
  BY <1>1, <1>3
<1>4. i \in at .. Len(Doc)
  BY <1>1, <1>3
<1>5. /\ NextItem \in at .. Len(Doc) /\ NextItem # 0 /\ NextItem <= i
      /\ ~EndsItems \/ MemberEnd(subdev, NextItem)
  BY <1>3, <1>4, ItemIs
<1>6. Doc[NextItem] \in Ends /\ Enclosing(Doc, NextItem) = subdev
  <2>1. NextItem \in 1 .. Len(Doc)
    BY <1>1, <1>5
  <2> QED
    BY <1>1, <1>5, <2>1, MemberEnds DEF MemberEnd
<1>7. Doc[Items] \notin Ends
  <2>1. Items # Invalid
    BY <1>2 DEF Invalid
  <2>2. Doc[Items] \in Begins
    BY <1>3, <2>1, EnclosingOpen
  <2> QED
    BY <2>2, BeginsNoEnd
<1>8. NextItem # Items /\ NextItem # i
  BY <1>3, <1>6, <1>7
<1>9. NextItem \in Nat /\ NextItem > Items /\ i > NextItem
  BY <1>1, <1>2, <1>3, <1>5, <1>8
<1> QED
  BY <1>1, <1>2, <1>3, <1>6, <1>9, KeysAreTexts, ListOver

First == Min(SubdeviceObjects)

\* Every item of the first subdevice has been added.
FirstDone == \A i \in ItemObjects(First) : FileAt(i) \in cache

Looping  == {"subdevices", "items", "read_item"}
Emptied  == {"constants"} \cup Complete

\* Only items of subdevices are added, and all of the first one before the others.
ItemsMet ==
  /\ \A file \in cache : \E sub \in SubdeviceObjects : file \in ItemFiles(sub)
  /\ pc \in Looping => Subdevices # Invalid
  /\ pc = "subdevices" => FirstDone \/ \A s \in SubdeviceObjects : s >= at
  /\ pc \in {"items", "read_item"} =>
       /\ subdev \in SubdeviceObjects /\ Items # Invalid /\ at >= Items
       /\ \/ FirstDone
          \/ subdev = First /\ \A i \in ItemObjects(subdev) : i < at => FileAt(i) \in cache
  /\ pc \in Emptied => FirstDone \/ SubdeviceObjects = {}

\* What the text means does not change.
LEMMA TextStays ==
  ASSUME UNCHANGED <<input, tokens>>
  PROVE  /\ Doc' = Doc /\ SubdeviceObjects' = SubdeviceObjects /\ First' = First
         /\ Subdevices' = Subdevices
         /\ (subdev' = subdev => Items' = Items)
         /\ \A sub : ItemObjects(sub)' = ItemObjects(sub) /\ ItemFiles(sub)' = ItemFiles(sub)
         /\ \A i : FileAt(i)' = FileAt(i)
<1>1. Doc' = Doc /\ T' = T
  BY DEF Doc, T
<1>2. /\ SubdeviceObjects' = SubdeviceObjects
      /\ \A sub : ItemObjects(sub)' = ItemObjects(sub)
  BY <1>1 DEF SubdeviceObjects, ItemObjects, Objects
<1>3. \A i : FileAt(i)' = FileAt(i)
  BY <1>1 DEF FileAt, FileNamed
<1>4. \A sub : ItemFiles(sub)' = ItemFiles(sub)
  BY <1>1, <1>2 DEF ItemFiles, FileNamed
<1> QED
  BY <1>1, <1>2, <1>3, <1>4 DEF First, Subdevices, Items

LEMMA LeastIs ==
  ASSUME NEW S \in SUBSET Nat, NEW m \in S, \A i \in S : m <= i
  PROVE  Min(S) = m
<1>1. \A i \in S : (\A j \in S : i <= j) => i = m
  OBVIOUS
<1> QED
  BY <1>1 DEF Min

LEMMA SomeFiles ==
  ASSUME NEW sub, NEW i \in ItemObjects(sub) PROVE FileAt(i) \in ItemFiles(sub)
  BY DEF ItemFiles, FileAt

\* A step that adds nothing and does not lead into the loops.
LEMMA MetElsewhere ==
  ASSUME ItemsMet, UNCHANGED <<input, tokens, cache>>, pc' \notin Looping,
         pc' \in Emptied => pc \in Emptied
  PROVE  ItemsMet'
<1>1. /\ SubdeviceObjects' = SubdeviceObjects /\ (FirstDone' <=> FirstDone)
      /\ \A sub : ItemFiles(sub)' = ItemFiles(sub)
  <2>1. First' = First /\ \A sub : ItemObjects(sub)' = ItemObjects(sub)
    BY TextStays
  <2>2. \A i : FileAt(i)' = FileAt(i)
    BY TextStays
  <2>3. ItemObjects(First)' = ItemObjects(First)
    BY TextStays DEF First, ItemObjects, Objects
  <2> QED
    BY <2>2, <2>3, TextStays DEF FirstDone
<1>2. pc' \notin {"subdevices", "items", "read_item"}
  BY DEF Looping
<1> QED
  BY <1>1, <1>2 DEF ItemsMet, Looping

LEMMA MetKept == ASSUME Typed, Reading, ItemsMet, Step PROVE ItemsMet'
<1>1. /\ UNCHANGED <<input, tokens>> /\ Len(Doc) \in Nat /\ at \in Nat \ {0}
  <2>1. UNCHANGED <<input, tokens>>
    BY StepFrame DEF disk
  <2> QED
    BY <2>1, DocTokens DEF Typed, DiskTyped, PlacesTyped
<1>2. /\ SubdeviceObjects' = SubdeviceObjects /\ First' = First /\ Subdevices' = Subdevices
      /\ subdev' = subdev => Items' = Items
  BY <1>1, TextStays
<1>3. /\ \A sub : ItemObjects(sub)' = ItemObjects(sub) /\ ItemFiles(sub)' = ItemFiles(sub)
      /\ \A i : FileAt(i)' = FileAt(i)
  BY <1>1, TextStays
<1>4. ItemObjects(First)' = ItemObjects(First) /\ ItemObjects(subdev)' = ItemObjects(subdev')
  <2>1. Doc' = Doc /\ T' = T
    BY <1>1 DEF Doc, T
  <2> QED
    BY <1>2, <2>1 DEF ItemObjects, Objects
<1>5. (cache \subseteq cache' /\ FirstDone) => FirstDone'
  BY <1>3, <1>4 DEF FirstDone
<1>6. cache' = cache => (\A file \in cache' : \E sub \in SubdeviceObjects : file \in ItemFiles(sub)')
  BY <1>3 DEF ItemsMet
<1>7. pc \in Looping => /\ Parses(Doc) /\ Subdevices # Invalid /\ Subdevices \in Nat \ {0}
                        /\ SubdeviceObjects = Objects(Subdevices)
                        /\ SubdeviceObjects \in SUBSET (Nat \ {0})
  <2> SUFFICES ASSUME pc \in Looping
               PROVE  /\ Parses(Doc) /\ Subdevices # Invalid /\ Subdevices \in Nat \ {0}
                      /\ SubdeviceObjects = Objects(Subdevices)
                      /\ SubdeviceObjects \in SUBSET (Nat \ {0})
    OBVIOUS
  <2>1. Parses(Doc) /\ Subdevices # Invalid
    BY DEF Reading, Behind, Looping, ItemsMet
  <2>2. Subdevices \in Nat \ {0} /\ SubdeviceObjects = Objects(Subdevices)
    BY <2>1, SubdevicesAre
  <2>3. SubdeviceObjects \in SUBSET (Nat \ {0})
    BY <2>2, ObjectsOf
  <2> QED
    BY <2>1, <2>2, <2>3
<1>8. CASE StartItems
  <2>1. /\ pc = "start_items" /\ pc' = "subdevices" /\ at' = Subdevices /\ cache' = cache
        /\ Subdevices # Invalid
    BY <1>8 DEF StartItems, Do, Go, Succeeds
  <2>2. Parses(Doc)
    BY <2>1 DEF Reading, Behind
  <2>3. Subdevices \in Nat \ {0} /\ SubdeviceObjects = Objects(Subdevices)
    BY <2>1, <2>2, SubdevicesAre
  <2>4. \A s \in SubdeviceObjects : s >= at'
    BY <2>1, <2>3, ObjectsOf
  <2> QED
    BY <1>2, <1>3, <1>6, <2>1, <2>4 DEF ItemsMet, Looping, Emptied, Complete
<1>9. CASE EnterSubdevice
  <2> DEFINE sub == NextSubdevice
             list == cj_value_ref(T, sub, "items")
  <2>1. /\ pc = "subdevices" /\ pc' = "items" /\ sub # 0 /\ subdev' = sub /\ at' = list
        /\ cache' = cache /\ list # Invalid
    BY <1>9 DEF EnterSubdevice, Do, Go, Succeeds
  <2>2. /\ Parses(Doc) /\ Subdevices # Invalid /\ Subdevices \in Nat \ {0}
        /\ SubdeviceObjects = Objects(Subdevices) /\ SubdeviceObjects \in SUBSET (Nat \ {0})
    BY <1>7, <2>1 DEF Looping
  <2>3. /\ sub \in at .. Len(Doc) /\ T[sub].parent = Subdevices /\ ObjectAt(Doc, sub)
        /\ \A i \in at .. Len(Doc) :
             T[i].parent = Subdevices /\ ObjectAt(Doc, i) => sub <= i
    BY <2>1, SubdeviceIs
  <2>4. sub \in SubdeviceObjects /\ sub \in Nat \ {0}
    <3>1. sub \in 1 .. Len(Doc)
      BY <1>1, <2>3
    <3> QED
      BY <2>2, <2>3, <3>1, ObjectsOf
  <2>5. Items' = list
    BY <1>1, <2>1 DEF Items, T
  <2>6. \A i \in ItemObjects(sub) : i > list /\ i \in Nat /\ list \in Nat
    BY <2>1, <2>2, <2>4, ItemsAre, ObjectsOf
  <2>7. FirstDone \/ sub = First
    <3> SUFFICES ASSUME \A s \in SubdeviceObjects : s >= at PROVE sub = First
      BY <2>1 DEF ItemsMet
    <3>1. ASSUME NEW s \in SubdeviceObjects PROVE sub <= s
      <4>1. s \in 1 .. Len(Doc) /\ T[s].parent = Subdevices /\ ObjectAt(Doc, s)
        BY <2>2, ObjectsOf
      <4>2. s \in at .. Len(Doc)
        BY <1>1, <4>1
      <4> QED
        BY <2>3, <4>1, <4>2
    <3> HIDE DEF sub
    <3> QED
      BY <2>2, <2>4, <3>1, LeastIs DEF First
  <2> HIDE DEF sub, list
  <2>8. list \in Int
    BY <1>1, <2>1, <2>4, PlacesKept DEF PlacesTyped, Doc
  <2>9. at' >= Items'
    BY <2>1, <2>5, <2>8
  <2>10. \A i \in ItemObjects(sub) : ~(i < at')
    BY <2>1, <2>6
  <2>11. ItemObjects(subdev)' = ItemObjects(sub)
    BY <1>4, <2>1
  <2>12. FirstDone' \/ (subdev' = First' /\ \A i \in ItemObjects(subdev)' : i < at' => FileAt(i)' \in cache')
    BY <1>2, <1>5, <2>1, <2>7, <2>10, <2>11
  <2>13. Subdevices' # Invalid /\ subdev' \in SubdeviceObjects' /\ Items' # Invalid
    BY <1>2, <2>1, <2>2, <2>4, <2>5
  <2>14. pc' \notin Emptied /\ pc' # "subdevices"
    BY <2>1 DEF Emptied, Complete
  <2> QED
    BY <1>2, <1>6, <2>1, <2>9, <2>12, <2>13, <2>14 DEF ItemsMet
<1>10. ASSUME pc \in {"items", "read_item"}
       PROVE  /\ subdev \in SubdeviceObjects /\ Items # Invalid /\ at >= Items /\ subdev # 0
              /\ Parses(Doc)
              /\ \/ FirstDone
                 \/ subdev = First /\ \A i \in ItemObjects(subdev) : i < at => FileAt(i) \in cache
              /\ subdev \in Nat \ {0} /\ Items \in Nat \ {0}
              /\ \A i \in ItemObjects(subdev) : i \in Nat
  <2>1. /\ subdev \in SubdeviceObjects /\ Items # Invalid /\ at >= Items
        /\ \/ FirstDone
           \/ subdev = First /\ \A i \in ItemObjects(subdev) : i < at => FileAt(i) \in cache
    BY <1>10 DEF ItemsMet
  <2>2. Parses(Doc) /\ subdev \in Nat \ {0}
    BY <1>7, <1>10, <2>1 DEF Looping
  <2>3. Items \in Nat \ {0} /\ ItemObjects(subdev) = Objects(Items)
    BY <2>1, <2>2, ItemsAre DEF Items
  <2>4. \A i \in ItemObjects(subdev) : i \in Nat
    BY <2>3, ObjectsOf
  <2> QED
    BY <2>1, <2>2, <2>3, <2>4
<1>11. ASSUME pc = "items", pc' \in {"items", "read_item"}, ~EndsItems, ItemName # Invalid,
              subdev' = subdev, at' = NextItem + 1,
              cache' = cache \cup {FileNamed(T[ItemName].sym)}
       PROVE  ItemsMet'
  <2>1. /\ subdev \in SubdeviceObjects /\ Items # Invalid /\ at >= Items /\ subdev # 0
        /\ Parses(Doc) /\ Items \in Nat \ {0} /\ (\A i \in ItemObjects(subdev) : i \in Nat)
        /\ \/ FirstDone
           \/ subdev = First /\ \A i \in ItemObjects(subdev) : i < at => FileAt(i) \in cache
    BY <1>10, <1>11
  <2>2. /\ NextItem \in ItemObjects(subdev) /\ NextItem \in at .. Len(Doc)
        /\ FileNamed(T[ItemName].sym) = FileAt(NextItem)
        /\ \A i \in ItemObjects(subdev) : i >= at => i >= NextItem
    BY <1>11, <2>1, NameIs
  <2>3. cache' = cache \cup {FileAt(NextItem)} /\ FileAt(NextItem) \in ItemFiles(subdev)
    BY <1>11, <2>2, SomeFiles
  <2>4. \A file \in cache' : \E sub \in SubdeviceObjects' : file \in ItemFiles(sub)'
    <3>1. \A file \in cache : \E sub \in SubdeviceObjects : file \in ItemFiles(sub)
      BY DEF ItemsMet
    <3> QED
      BY <1>2, <1>3, <2>1, <2>3, <3>1
  <2>5. at' >= Items'
    BY <1>1, <1>2, <1>11, <2>1, <2>2
  <2>6. \A i \in ItemObjects(subdev) : i < at' => i < at \/ i = NextItem
    BY <1>1, <1>11, <2>1, <2>2
  <2>7. \/ FirstDone'
        \/ subdev' = First' /\ \A i \in ItemObjects(subdev)' : i < at' => FileAt(i)' \in cache'
    <3>1. CASE FirstDone
      BY <1>5, <2>3, <3>1
    <3>2. CASE subdev = First /\ \A i \in ItemObjects(subdev) : i < at => FileAt(i) \in cache
      <4>1. \A i \in ItemObjects(subdev) : i < at' => FileAt(i) \in cache'
        BY <2>3, <2>6, <3>2
      <4> QED
        BY <1>2, <1>3, <1>4, <1>11, <3>2, <4>1
    <3> QED
      BY <2>1, <3>1, <3>2
  <2>8. pc' \notin Emptied /\ pc' # "subdevices" /\ pc \in Looping
    BY <1>11 DEF Emptied, Complete, Looping
  <2> QED
    BY <1>2, <1>7, <1>11, <2>1, <2>4, <2>5, <2>7, <2>8 DEF ItemsMet
<1>12. CASE KnownItem
  <2>1. /\ pc = "items" /\ pc' = "items" /\ ~EndsItems /\ ItemName # Invalid
        /\ FileNamed(T[ItemName].sym) \in cache /\ at' = NextItem + 1
        /\ subdev' = subdev /\ cache' = cache
    BY <1>12 DEF KnownItem, Do, Go, Succeeds
  <2> QED
    BY <1>11, <2>1
<1>13. CASE StatItem
  <2>1. /\ pc = "items" /\ pc' = "read_item" /\ ~EndsItems /\ ItemName # Invalid
        /\ at' = NextItem + 1 /\ subdev' = subdev
        /\ cache' = cache \cup {FileNamed(T[ItemName].sym)}
    BY <1>13 DEF StatItem, Do, Go, Succeeds
  <2> QED
    BY <1>11, <2>1
<1>14. CASE ReadItem
  <2>1. pc = "read_item" /\ pc' = "items" /\ UNCHANGED <<at, subdev, cache>>
    BY <1>14 DEF ReadItem, Do, Go, place
  <2>2. /\ subdev \in SubdeviceObjects /\ Items # Invalid /\ at >= Items
        /\ \/ FirstDone
           \/ subdev = First /\ \A i \in ItemObjects(subdev) : i < at => FileAt(i) \in cache
    BY <1>10, <2>1
  <2>3. pc' \notin Emptied /\ pc' # "subdevices" /\ pc \in Looping
    BY <2>1 DEF Emptied, Complete, Looping
  <2>4. \/ FirstDone'
        \/ subdev' = First' /\ \A i \in ItemObjects(subdev)' : i < at' => FileAt(i)' \in cache'
    BY <1>2, <1>3, <1>4, <1>5, <2>1, <2>2
  <2> QED
    BY <1>2, <1>6, <1>7, <2>1, <2>2, <2>3, <2>4 DEF ItemsMet
<1>15. CASE LeaveSubdevice
  <2>1. pc = "items" /\ pc' = "subdevices" /\ EndsItems /\ UNCHANGED <<subdev, cache>>
    BY <1>15 DEF LeaveSubdevice, Do, Go
  <2>2. /\ Items # Invalid /\ at >= Items /\ subdev # 0 /\ Parses(Doc)
        /\ \/ FirstDone
           \/ subdev = First /\ \A i \in ItemObjects(subdev) : i < at => FileAt(i) \in cache
    BY <1>10, <2>1
  <2>3. \A i \in ItemObjects(subdev) : i < at
    BY <2>1, <2>2, ItemsOver
  <2>4. FirstDone
    BY <2>2, <2>3 DEF FirstDone
  <2>5. pc' \notin Emptied /\ pc' \notin {"items", "read_item"} /\ pc \in Looping
    BY <2>1 DEF Emptied, Complete, Looping
  <2>6. FirstDone'
    BY <1>5, <2>1, <2>4
  <2> QED
    BY <1>2, <1>6, <1>7, <2>1, <2>5, <2>6 DEF ItemsMet
<1>16. CASE NoMoreSubdevices
  <2>1. pc = "subdevices" /\ pc' = "constants" /\ NextSubdevice = 0 /\ UNCHANGED cache
    BY <1>16 DEF NoMoreSubdevices, Do, Go, place
  <2>2. /\ Parses(Doc) /\ Subdevices \in Nat \ {0} /\ SubdeviceObjects = Objects(Subdevices)
    BY <1>7, <2>1 DEF Looping
  <2>3. FirstDone \/ SubdeviceObjects = {}
    <3> SUFFICES ASSUME \A s \in SubdeviceObjects : s >= at, NEW s \in SubdeviceObjects PROVE FALSE
      BY <2>1 DEF ItemsMet
    <3>1. s \in 1 .. Len(Doc) /\ ObjectAt(Doc, s) /\ T[s].parent = Subdevices
      BY <2>2, ObjectsOf
    <3>2. s \in at .. Len(Doc)
      BY <1>1, <3>1
    <3> QED
      BY <2>1, <3>1, <3>2, SubdeviceIs
  <2>4. FirstDone' \/ SubdeviceObjects' = {}
    BY <1>2, <1>5, <2>1, <2>3
  <2> QED
    BY <1>2, <1>6, <2>1, <2>4 DEF ItemsMet, Looping, Emptied
<1>17. CASE \/ ScratchExhausted \/ GiveUp \/ Start \/ StatConstants \/ ReadConstants \/ LoadDdf
            \/ Describe \/ Identify \/ LoadScript \/ SkipScript \/ StampScript
            \/ ScriptWithoutPath \/ NoMoreScripts
  <2>1. UNCHANGED cache /\ pc' \notin Looping /\ pc' \notin Emptied
    BY <1>17 DEF ScratchExhausted, GiveUp, Start, StatConstants, ReadConstants, LoadDdf, Describe,
         Identify, LoadScript, SkipScript, StampScript, ScriptWithoutPath, NoMoreScripts, Go,
         Unchanged, place, Looping, Emptied, Complete
  <2> QED
    BY <1>1, <2>1, MetElsewhere
<1>18. CASE AddConstants \/ StoreBundle \/ StoreFails
  <2>1. UNCHANGED cache /\ pc' \notin Looping /\ pc \in Emptied
    BY <1>18 DEF AddConstants, StoreBundle, StoreFails, Do, Go, place, Looping, Emptied, Complete
  <2> QED
    BY <1>1, <2>1, MetElsewhere
<1> QED
  BY <1>8, <1>9, <1>12, <1>13, <1>14, <1>15, <1>16, <1>17, <1>18 DEF Step

LEMMA AlwaysMet == Spec => []ItemsMet
<1>1. Init => ItemsMet
  BY DEF Init, ItemsMet, Looping, Emptied, Complete
<1>2. ASSUME ItemsMet, Edit \/ Still PROVE ItemsMet'
  <2>1. UNCHANGED <<input, tokens, pc, at, subdev, cache>>
    BY <1>2 DEF Edit, Still, disk, place
  <2>2. /\ SubdeviceObjects' = SubdeviceObjects /\ First' = First /\ Subdevices' = Subdevices
        /\ Items' = Items
        /\ \A sub : ItemObjects(sub)' = ItemObjects(sub) /\ ItemFiles(sub)' = ItemFiles(sub)
        /\ \A i : FileAt(i)' = FileAt(i)
    BY <2>1, TextStays
  <2>3. ItemObjects(First)' = ItemObjects(First) /\ ItemObjects(subdev)' = ItemObjects(subdev)
    <3>1. Doc' = Doc /\ T' = T
      BY <2>1 DEF Doc, T
    <3> QED
      BY <2>1, <2>2, <3>1 DEF ItemObjects, Objects
  <2>4. FirstDone' <=> FirstDone
    BY <2>1, <2>2, <2>3 DEF FirstDone
  <2> QED
    BY <1>2, <2>1, <2>2, <2>3, <2>4 DEF ItemsMet
<1>3. Typed /\ Reading /\ ItemsMet /\ [Next]_vars => ItemsMet'
  BY <1>2, MetKept, NextIs
<1> QED
  BY <1>1, <1>3, AlwaysTyped, AlwaysReading, PTL DEF Spec

\* The file of an item that is being read is remembered but not yet put.
Pending == IF pc = "read_item" THEN {FileNamed(name)} ELSE {}

\* The first n chunks have the items of F, each once.
ItemsIn(g, n, F) ==
  /\ \A j \in 1 .. n : \A k \in 1 .. n :
       TypeAt(g, j) = "JSON" /\ TypeAt(g, k) = "JSON" /\ PathAt(g, j) = PathAt(g, k) => j = k
  /\ \A k \in 1 .. n : TypeAt(g, k) = "JSON" => PathAt(g, k) \in F
  /\ \A file \in F : \E k \in 1 .. n : TypeAt(g, k) = "JSON" /\ PathAt(g, k) = file

FiledTo(n) == IF pc \in Complete THEN n - 1 ELSE n

ItemsPut ==
  /\ pc = "read_item" => FileNamed(name) \in cache
  /\ bs.ok /\ pc \in Filling =>
       \A n \in Nat : Bundled(bs.fields, n) => ItemsIn(bs.fields, FiledTo(n), cache \ Pending)

LEMMA ItemsStay ==
  ASSUME NEW g, NEW h, NEW n, NEW F, ItemsIn(g, n, F), \A k \in 1 .. n : SameChunk(g, h, k)
  PROVE  ItemsIn(h, n, F)
  BY DEF ItemsIn, SameChunk

LEMMA NoItemMore ==
  ASSUME NEW g, NEW n \in Nat \ {0}, NEW F, ItemsIn(g, n - 1, F), TypeAt(g, n) = "SCJS"
  PROVE  ItemsIn(g, n, F)
<1>1. /\ \A k \in 1 .. n : TypeAt(g, k) = "JSON" => k \in 1 .. n - 1
      /\ \A k \in 1 .. n - 1 : k \in 1 .. n
  <2>1. \A k \in 1 .. n : k \in 1 .. n - 1 \/ k = n
    OBVIOUS
  <2> QED
    BY <2>1
<1> QED
  BY <1>1 DEF ItemsIn

LEMMA ItemMore ==
  ASSUME NEW g, NEW n \in Nat \ {0}, NEW F, ItemsIn(g, n - 1, F), NEW file, file \notin F,
         TypeAt(g, n) = "JSON", PathAt(g, n) = file
  PROVE  ItemsIn(g, n, F \cup {file})
<1>1. /\ \A k \in 1 .. n : k \in 1 .. n - 1 \/ k = n
      /\ \A k \in 1 .. n - 1 : k \in 1 .. n /\ k # n
      /\ n \in 1 .. n
  OBVIOUS
<1>2. ASSUME NEW j \in 1 .. n, NEW k \in 1 .. n, TypeAt(g, j) = "JSON", TypeAt(g, k) = "JSON",
             PathAt(g, j) = PathAt(g, k)
      PROVE  j = k
  <2>1. ASSUME NEW i \in 1 .. n - 1, TypeAt(g, i) = "JSON" PROVE PathAt(g, i) # file
    BY <2>1 DEF ItemsIn
  <2>2. CASE j = n
    BY <1>1, <1>2, <2>1, <2>2
  <2>3. CASE k = n
    BY <1>1, <1>2, <2>1, <2>3
  <2>4. CASE j \in 1 .. n - 1 /\ k \in 1 .. n - 1
    BY <1>2, <2>4 DEF ItemsIn
  <2> QED
    BY <1>1, <2>2, <2>3, <2>4
<1>3. \A k \in 1 .. n : TypeAt(g, k) = "JSON" => PathAt(g, k) \in F \cup {file}
  BY <1>1 DEF ItemsIn
<1>4. \A x \in F \cup {file} : \E k \in 1 .. n : TypeAt(g, k) = "JSON" /\ PathAt(g, k) = x
  BY <1>1 DEF ItemsIn
<1> QED
  BY <1>2, <1>3, <1>4 DEF ItemsIn

\* What the steps do to the files that have been added.
LEMMA CacheChanges ==
  ASSUME Typed, EarlyPlaces, ItemsPut, Step
  PROVE  /\ pc' = "read_item" => FileNamed(name)' \in cache'
         /\ pc \in Filling /\ pc' \in Filling /\ ~ReadItem =>
              cache' \ Pending' = cache \ Pending
         /\ ReadItem => /\ FileNamed(name) \in cache /\ Pending = {FileNamed(name)}
                        /\ cache' \ Pending' = cache
<1>1. CASE StatItem
  <2> DEFINE file == FileNamed(T[ItemName].sym)
  <2>1. /\ pc = "items" /\ pc' = "read_item" /\ file \notin cache /\ cache' = cache \cup {file}
        /\ name' = T[ItemName].sym
    BY <1>1 DEF StatItem, Do, Go
  <2>2. FileNamed(name)' = file
    BY <2>1 DEF FileNamed
  <2>3. Pending' = {file} /\ Pending = {}
    BY <2>1, <2>2 DEF Pending
  <2>4. ~ReadItem
    BY <2>1 DEF ReadItem, Do
  <2> HIDE DEF file
  <2> QED
    BY <2>1, <2>2, <2>3, <2>4
<1>2. CASE ReadItem
  <2>1. pc = "read_item" /\ pc' = "items" /\ cache' = cache
    BY <1>2 DEF ReadItem, Do, Go, place
  <2>2. Pending = {FileNamed(name)}
    BY <2>1 DEF Pending
  <2>3. FileNamed(name) \in cache
    BY <2>1 DEF ItemsPut
  <2>4. Pending' = {}
    BY <2>1 DEF Pending
  <2>5. cache' \ Pending' = cache
    BY <2>1, <2>4
  <2> QED
    BY <1>2, <2>1, <2>2, <2>3, <2>5
<1>3. CASE ~StatItem /\ ~ReadItem
  <2>1. /\ cache' = cache /\ pc' # "read_item"
        /\ pc' \in Filling => pc # "read_item"
    BY <1>3 DEF Step, ScratchExhausted, GiveUp, Start, StatConstants, ReadConstants, LoadDdf,
         Describe, Identify, LoadScript, SkipScript, StampScript, ScriptWithoutPath,
         NoMoreScripts, StartItems, EnterSubdevice, LeaveSubdevice, KnownItem,
         NoMoreSubdevices, AddConstants, StoreBundle, StoreFails, Do, Go, Unchanged, place,
         Filling, Behind
  <2> QED
    BY <1>3, <2>1 DEF Pending
<1> QED
  BY <1>1, <1>2, <1>3

LEMMA ItemsKept ==
  ASSUME Typed, Shaped, EarlyPlaces, ItemsPut, [Next]_vars PROVE ItemsPut'
<1>1. CASE Step
  <2> DEFINE g == bs'.fields
             F == cache' \ Pending'
             last(n) == IF pc' \in Complete THEN n - 1 ELSE n
  <2>1. ASSUME bs'.ok, pc' \in Filling, NEW n \in Nat, Bundled(g, n)
        PROVE  ItemsIn(g, last(n), F)
    <3>1. CASE Identify /\ n = 0
      <4>1. pc' = "scan" /\ cache' = {}
        BY <3>1 DEF Identify, Do, Go, place, EarlyPlaces, Early
      <4>2. last(n) = 0 /\ F = {} /\ \A k \in 1 .. 0 : FALSE
        BY <3>1, <4>1 DEF Complete
      <4> HIDE DEF last, F
      <4>3. ItemsIn(g, 0, {})
        BY <4>2 DEF ItemsIn
      <4> QED
        BY <4>2, <4>3
    <3>2. CASE /\ UNCHANGED bs /\ pc \in Filling /\ (pc' \in Complete <=> pc \in Complete)
               /\ ~ReadItem
      <4>1. ItemsIn(bs.fields, FiledTo(n), cache \ Pending)
        BY <2>1, <3>2 DEF ItemsPut
      <4>2. F = cache \ Pending
        BY <1>1, <2>1, <3>2, CacheChanges
      <4>3. last(n) = FiledTo(n)
        BY <3>2 DEF FiledTo
      <4> HIDE DEF last, F
      <4> QED
        BY <3>2, <4>1, <4>2, <4>3
    <3>3. ASSUME NEW type, NEW name_, NEW time, NEW len, NEW content,
                 Adds(n, type, name_, time, len, content)
          PROVE  /\ n \in Nat \ {0} /\ TypeAt(g, n) = type /\ PathAt(g, n) = name_
                 /\ ItemsIn(g, n - 1, cache \ Pending) /\ pc \in Filling
      <4>1. /\ bs.ok /\ pc \in Filling \ Complete /\ n \in Nat \ {0} /\ Bundled(bs.fields, n - 1)
            /\ \A k \in 1 .. n - 1 : SameChunk(bs.fields, g, k)
            /\ TypeAt(g, n) = type /\ PathAt(g, n) = name_
        BY <3>3 DEF Adds, NewChunk
      <4>2. n - 1 \in Nat
        BY <4>1
      <4>3. FiledTo(n - 1) = n - 1
        BY <4>1 DEF FiledTo
      <4>4. ItemsIn(bs.fields, n - 1, cache \ Pending)
        BY <4>1, <4>2, <4>3 DEF ItemsPut
      <4>5. ItemsIn(g, n - 1, cache \ Pending)
        BY <4>1, <4>4, ItemsStay
      <4> QED
        BY <4>1, <4>5
    <3>4. CASE StampScript /\ Adds(n, "SCJS", name, fs[ScriptFile[name]].time, seen.size, seen)
      <4>1. pc = "stamp_script" /\ pc' = "scan"
        BY <3>4 DEF StampScript, Do, Go
      <4>2. ~ReadItem /\ last(n) = n
        BY <4>1 DEF ReadItem, Do, Complete
      <4>3. /\ n \in Nat \ {0} /\ TypeAt(g, n) = "SCJS"
            /\ ItemsIn(g, n - 1, cache \ Pending) /\ pc \in Filling
        BY <3>3, <3>4
      <4>4. ItemsIn(g, n, cache \ Pending)
        BY <4>3, NoItemMore
      <4>5. F = cache \ Pending
        BY <1>1, <2>1, <4>2, <4>3, CacheChanges
      <4> HIDE DEF last, F
      <4> QED
        BY <4>2, <4>4, <4>5
    <3>5. CASE /\ ReadItem
               /\ Adds(n, "JSON", FileNamed(name), seen.time, seen.size,
                       IF seen.size = 0 THEN seen
                       ELSE Loaded(FileNamed(name)))
      <4> DEFINE file == FileNamed(name)
      <4>1. pc = "read_item" /\ pc' = "items"
        BY <3>5 DEF ReadItem, Do, Go
      <4>2. last(n) = n
        BY <4>1 DEF Complete
      <4>3. /\ n \in Nat \ {0} /\ TypeAt(g, n) = "JSON" /\ PathAt(g, n) = file
            /\ ItemsIn(g, n - 1, cache \ Pending)
        BY <3>3, <3>5
      <4>4. file \in cache /\ Pending = {file} /\ F = cache
        BY <1>1, <3>5, CacheChanges
      <4> HIDE DEF last, F, file
      <4>5. file \notin cache \ Pending /\ F = (cache \ Pending) \cup {file}
        BY <4>4
      <4>6. ItemsIn(g, n, (cache \ Pending) \cup {file})
        BY <4>3, <4>5, ItemMore
      <4> QED
        BY <4>2, <4>5, <4>6
    <3>6. CASE /\ AddConstants
               /\ Adds(n, "JSON", "generic/constants_min.json", constants.time,
                       ConstantsText.pos, ConstantsText.fields)
      <4>1. pc = "constants" /\ pc' = "store"
        BY <3>6 DEF AddConstants, Do, Go
      <4>2. ~ReadItem /\ last(n) = n - 1
        BY <4>1 DEF ReadItem, Do, Complete
      <4>3. ItemsIn(g, n - 1, cache \ Pending) /\ pc \in Filling
        BY <3>3, <3>6
      <4>4. F = cache \ Pending
        BY <1>1, <2>1, <4>2, <4>3, CacheChanges
      <4> HIDE DEF last, F
      <4> QED
        BY <4>2, <4>3, <4>4
    <3> QED
      BY <1>1, <2>1, <3>1, <3>2, <3>4, <3>5, <3>6, BundleChanges
  <2>2. pc' = "read_item" => FileNamed(name)' \in cache'
    BY <1>1, CacheChanges
  <2> QED
    BY <2>1, <2>2 DEF ItemsPut, FiledTo, Filling, Complete
<1>2. CASE Edit \/ Still
  <2>1. UNCHANGED <<pc, bs, name, cache>>
    BY <1>2 DEF Edit, Still, disk, loaded, place
  <2>2. FileNamed(name)' = FileNamed(name) /\ Pending' = Pending
    BY <2>1 DEF FileNamed, Pending
  <2>3. \A n : FiledTo(n)' = FiledTo(n)
    BY <2>1 DEF FiledTo
  <2> QED
    BY <2>1, <2>2, <2>3 DEF ItemsPut, Filling
<1> QED
  BY <1>1, <1>2, NextIs

LEMMA AlwaysItems == Spec => []ItemsPut
<1>1. Init => ItemsPut
  BY DEF Init, ItemsPut, Filling, Behind
<1> QED
  BY <1>1, AlwaysTyped, AlwaysShaped, AlwaysEarly, ItemsKept, PTL DEF Spec

LEMMA ItemsHold ==
  ASSUME Typed, Shaped, Written, ChunksStamped, ItemsMet, ItemsPut PROVE ItemsOnce
<1> DEFINE files == {Path(i) : i \in ItemChunks}
<1> SUFFICES ASSUME pc = "stored"
             PROVE  /\ \A i, j \in ItemChunks : Path(i) = Path(j) => i = j
                    /\ files \subseteq UNION {ItemFiles(sub) : sub \in SubdeviceObjects}
                    /\ SubdeviceObjects # {} => ItemFiles(First) \subseteq files
  BY DEF ItemsOnce, Stored, First
<1>1. PICK n : StoredAs(n)
  BY StoredIs
<1>2. /\ n \in Nat \ {0} /\ Bundled(out, n) /\ IsRow(out) /\ TypeAt(out, n) = "JSON"
      /\ Bundled(bs.fields, n) /\ \A k \in 1 .. n : SameChunk(bs.fields, out, k)
  BY <1>1 DEF StoredAs, Whole
<1> DEFINE chunks == {c \in 1 .. n - 1 : TypeAt(out, c) = "JSON"}
<1>3. ItemsIn(out, n - 1, cache)
  <2>1. bs.ok /\ pc \in Filling /\ FiledTo(n) = n - 1 /\ Pending = {}
    BY DEF Written, Filling, Behind, FiledTo, Complete, Pending
  <2>2. cache \ Pending = cache
    BY <2>1
  <2>3. ItemsIn(bs.fields, n - 1, cache)
    BY <1>2, <2>1, <2>2 DEF ItemsPut
  <2>4. \A k \in 1 .. n - 1 : k \in 1 .. n
    BY <1>2
  <2> QED
    BY <1>2, <2>3, <2>4, ItemsStay
<1>4. ItemChunks = {9 * k + 4 : k \in chunks}
  BY <1>2, ChunkSets
<1>5. \A k \in chunks : Path(9 * k + 4) = PathAt(out, k)
  BY ChunkParts
<1>6. ASSUME NEW i \in ItemChunks, NEW j \in ItemChunks, Path(i) = Path(j)
      PROVE  i = j
  <2>1. PICK c \in chunks : i = 9 * c + 4
    BY <1>4
  <2>2. PICK d \in chunks : j = 9 * d + 4
    BY <1>4
  <2>3. PathAt(out, c) = PathAt(out, d)
    BY <1>5, <1>6, <2>1, <2>2
  <2>4. c = d
    BY <1>3, <2>3 DEF ItemsIn
  <2> QED
    BY <2>1, <2>2, <2>4
<1>7. files = {PathAt(out, k) : k \in chunks}
  BY <1>4, <1>5
<1>8. files = cache
  <2>1. /\ \A k \in chunks : PathAt(out, k) \in cache
        /\ \A file \in cache : \E k \in chunks : PathAt(out, k) = file
    BY <1>3 DEF ItemsIn
  <2> HIDE DEF chunks
  <2> QED
    BY <1>7, <2>1
<1> HIDE DEF files
<1>9. files \subseteq UNION {ItemFiles(sub) : sub \in SubdeviceObjects}
  BY <1>8 DEF ItemsMet
<1>10. ASSUME SubdeviceObjects # {} PROVE ItemFiles(First) \subseteq files
  <2>1. FirstDone
    BY <1>10 DEF ItemsMet, Emptied, Complete
  <2>2. ItemFiles(First) = {FileAt(i) : i \in ItemObjects(First)}
    BY DEF ItemFiles, FileAt
  <2> QED
    BY <1>8, <2>1, <2>2 DEF FirstDone
<1> QED
  BY <1>6, <1>9, <1>10 DEF files

\* A stored bundle has no item twice, none that no subdevice has, and every item of the first
\* subdevice, though the loop over the items of one leaves that over the subdevices where it
\* has come to.
THEOREM CreateItems == Spec => []ItemsOnce
<1> QED
  BY AlwaysTyped, AlwaysShaped, AlwaysWritten, AlwaysStamped, AlwaysMet, AlwaysItems, ItemsHold,
     PTL
=============================================================================
