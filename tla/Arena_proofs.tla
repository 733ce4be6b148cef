---------------------------- MODULE Arena_proofs ----------------------------
(***************************************************************************)
(* What the calls of u_memory.c do to sound lists, and what tracked memory *)
(* and its owners never do, for any number of blocks, buffers, arenas,     *)
(* tracks and nested functions, and any sizes.  The sum of the sizes of    *)
(* blocks is a recursive function; it does not depend on the order in      *)
(* which the blocks are added.                                             *)
(***************************************************************************)
EXTENDS Arena, TLAPS, FiniteSetTheorems, SequenceTheorems

-----------------------------------------------------------------------------
(* Sums.                                                                   *)

\* Of sets of subsets of a finite set one has no strict subset among them.
LEMMA SmallestSubset ==
  ASSUME NEW S, IsFiniteSet(S), NEW D \in SUBSET SUBSET S, D # {}
  PROVE  \E T \in D : \A U \in D : U \subseteq T => U = T
<1>1. IsWellFoundedOn(StrictSubsetOrdering(S), FiniteSubsetsOf(S))
  BY FS_StrictSubsetOrderingWellFounded
<1>2. FiniteSubsetsOf(S) = SUBSET S
  BY FS_FiniteSubsetsOfFinite
<1>3. PICK T \in D : \A U \in D : ~(<<U, T>> \in StrictSubsetOrdering(S))
  BY <1>1, <1>2, WFMin
<1>4. \A U \in D : U \subseteq T => U = T
  BY <1>3 DEF StrictSubsetOrdering
<1> QED
  BY <1>4

\* What holds of no block and, with some blocks, of these and one more, holds of all.
LEMMA BlockByBlock ==
  ASSUME NEW S, IsFiniteSet(S), NEW C \in SUBSET SUBSET S, {} \in C,
         \A T \in C : \A x \in S \ T : T \cup {x} \in C
  PROVE  S \in C
<1> DEFINE D == {T \in SUBSET S : S \ T \in C}
<1>1. S \in D
  <2>1. S \ S = {}
    OBVIOUS
  <2> QED
    BY <2>1
<1>2. PICK T \in D : \A U \in D : U \subseteq T => U = T
  <2>1. D \in SUBSET SUBSET S /\ D # {}
    BY <1>1
  <2> HIDE DEF D
  <2> QED
    BY <2>1, SmallestSubset
<1>3. CASE T = {}
  <2>1. S \ {} = S
    OBVIOUS
  <2> QED
    BY <1>3, <2>1
<1>4. CASE T # {}
  <2>1. PICK x \in T : TRUE
    BY <1>4
  <2>2. S \ (T \ {x}) = (S \ T) \cup {x} /\ S \ T \in C /\ x \in S \ (S \ T)
    BY <2>1
  <2>3. T \ {x} \in D
    BY <2>2
  <2> QED
    BY <1>2, <2>1, <2>3
<1> QED
  BY <1>3, <1>4

\* Sums of sizes over the subsets of S.
Sums(size, S) ==
  {g \in [SUBSET S -> Nat] :
     /\ g[{}] = 0
     /\ \A U \in SUBSET S : \A x \in U : g[U] = size[x] + g[U \ {x}]}

LEMMA SumsExist ==
  ASSUME NEW size \in [Blocks -> Nat]
  PROVE  Sums(size, Blocks) # {}
<1> DEFINE C == {T \in SUBSET Blocks : Sums(size, T) # {}}
<1>1. {} \in C
  <2> DEFINE g == [U \in SUBSET {} |-> 0]
  <2>1. g \in [SUBSET {} -> Nat] /\ g[{}] = 0
    OBVIOUS
  <2>2. \A U \in SUBSET {} : \A x \in U : FALSE
    OBVIOUS
  <2>3. g \in Sums(size, {})
    BY <2>1, <2>2 DEF Sums
  <2> QED
    BY <2>3
<1>2. ASSUME NEW T \in C, NEW y \in Blocks \ T PROVE T \cup {y} \in C
  <2>1. PICK g : g \in Sums(size, T)
    OBVIOUS
  <2> DEFINE h == [U \in SUBSET (T \cup {y}) |->
                     IF y \in U THEN size[y] + g[U \ {y}] ELSE g[U]]
  <2>2. /\ g \in [SUBSET T -> Nat] /\ g[{}] = 0
        /\ \A U \in SUBSET T : \A x \in U : g[U] = size[x] + g[U \ {x}]
    BY <2>1 DEF Sums
  <2>3. \A U \in SUBSET (T \cup {y}) : U \ {y} \in SUBSET T /\ (y \notin U => U \in SUBSET T)
    OBVIOUS
  <2>4. size[y] \in Nat /\ \A x \in T : size[x] \in Nat
    OBVIOUS
  <2>5. h \in [SUBSET (T \cup {y}) -> Nat]
    BY <2>2, <2>3, <2>4
  <2>6. h[{}] = 0
    BY <2>2
  <2>7. ASSUME NEW U \in SUBSET (T \cup {y}), NEW x \in U PROVE h[U] = size[x] + h[U \ {x}]
    <3>1. U \ {x} \in SUBSET (T \cup {y}) /\ U \ {y} \in SUBSET T
      OBVIOUS
    <3>2. CASE x = y
      <4>1. h[U] = size[y] + g[U \ {y}] /\ h[U \ {y}] = g[U \ {y}]
        BY <3>1, <3>2
      <4> QED
        BY <3>2, <4>1
    <3>3. CASE x # y /\ y \in U
      <4>1. h[U] = size[y] + g[U \ {y}] /\ h[U \ {x}] = size[y] + g[(U \ {x}) \ {y}]
        BY <3>1, <3>3
      <4>2. (U \ {x}) \ {y} = (U \ {y}) \ {x} /\ x \in U \ {y}
        BY <3>3
      <4>3. g[U \ {y}] = size[x] + g[(U \ {y}) \ {x}]
        BY <2>2, <3>1, <4>2
      <4>4. g[(U \ {y}) \ {x}] \in Nat /\ size[x] \in Nat /\ size[y] \in Nat
        BY <2>2, <2>4, <3>1, <3>3, (U \ {y}) \ {x} \in SUBSET T
      <4> HIDE DEF h
      <4> QED
        BY <4>1, <4>2, <4>3, <4>4
    <3>4. CASE x # y /\ y \notin U
      <4>1. h[U] = g[U] /\ h[U \ {x}] = g[U \ {x}] /\ U \in SUBSET T
        BY <2>3, <3>1, <3>4
      <4> QED
        BY <2>2, <4>1
    <3> QED
      BY <3>2, <3>3, <3>4
  <2> HIDE DEF h
  <2>8. h \in Sums(size, T \cup {y})
    BY <2>5, <2>6, <2>7 DEF Sums
  <2>9. T \cup {y} \in SUBSET Blocks
    OBVIOUS
  <2> QED
    BY <2>8, <2>9
<1>3. C \in SUBSET SUBSET Blocks /\ IsFiniteSet(Blocks)
  BY MemoryAssumption
<1> HIDE DEF C
<1>4. Blocks \in C
  BY <1>1, <1>2, <1>3, BlockByBlock
<1> QED
  BY <1>4 DEF C

\* The recursive function is a sum, in whatever order it takes the blocks.
LEMMA BytesAreSums ==
  ASSUME NEW m, m.size \in [Blocks -> Nat], NEW g \in Sums(m.size, Blocks),
         NEW S \in SUBSET Blocks
  PROVE  BytesOf(m, S) = g[S]
<1> DEFINE Is(f) == f = [s \in SUBSET S |-> IF s = {} THEN 0
                                            ELSE LET x == CHOOSE x \in s : TRUE
                                                 IN  m.size[x] + f[s \ {x}]]
           it == CHOOSE f : Is(f)
           cut == [s \in SUBSET S |-> g[s]]
<1>1. BytesOf(m, S) = it[S]
  BY DEF BytesOf, MapThenSumSet, MapThenFoldSet
<1>2. /\ g[{}] = 0 /\ \A U \in SUBSET Blocks : \A x \in U : g[U] = m.size[x] + g[U \ {x}]
  BY DEF Sums
<1>3. \A s \in SUBSET S : s # {} => g[s] = m.size[CHOOSE x \in s : TRUE] + g[s \ {CHOOSE x \in s : TRUE}]
  BY <1>2
<1>4. Is(cut)
  <2>1. \A s \in SUBSET S : s \ {CHOOSE x \in s : TRUE} \in SUBSET S
    OBVIOUS
  <2>2. \A s \in SUBSET S : cut[s] = IF s = {} THEN 0
                                     ELSE LET x == CHOOSE x \in s : TRUE
                                          IN  m.size[x] + cut[s \ {x}]
    BY <1>2, <1>3, <2>1
  <2> QED
    BY <2>2
<1>5. Is(it)
  <2> HIDE DEF Is
  <2> QED
    BY <1>4
<1>6. \A s \in SUBSET S : it[s] = IF s = {} THEN 0
                                  ELSE LET x == CHOOSE x \in s : TRUE
                                       IN  m.size[x] + it[s \ {x}]
  BY <1>5
<1> HIDE DEF it
<1> DEFINE D == {s \in SUBSET S : it[s] # g[s]}
<1>7. D = {}
  <2>1. SUFFICES ASSUME D # {} PROVE FALSE
    OBVIOUS
  <2>2. IsFiniteSet(S)
    BY MemoryAssumption, FS_Subset
  <2>3. D \in SUBSET SUBSET S
    OBVIOUS
  <2>4. PICK s \in D : \A u \in D : u \subseteq s => u = s
    <3> HIDE DEF D
    <3> QED
      BY <2>1, <2>2, <2>3, SmallestSubset
  <2>5. s # {}
    BY <1>2, <1>6, <2>4
  <2> DEFINE x == CHOOSE x \in s : TRUE
  <2>6. x \in s
    BY <2>5
  <2>7. it[s] = m.size[x] + it[s \ {x}] /\ g[s] = m.size[x] + g[s \ {x}]
    BY <1>3, <1>6, <2>5
  <2> HIDE DEF x
  <2>8. s \ {x} \in SUBSET S /\ s \ {x} \notin D
    BY <2>4, <2>6
  <2>9. it[s \ {x}] = g[s \ {x}]
    BY <2>8
  <2> QED
    BY <2>4, <2>7, <2>9
<1> QED
  BY <1>1, <1>7

LEMMA BytesFacts ==
  ASSUME NEW m, m.size \in [Blocks -> Nat], NEW S \in SUBSET Blocks
  PROVE  /\ BytesOf(m, S) \in Nat
         /\ BytesOf(m, {}) = 0
         /\ \A x \in S : BytesOf(m, S) = m.size[x] + BytesOf(m, S \ {x})
         /\ \A x \in Blocks \ S : BytesOf(m, S \cup {x}) = m.size[x] + BytesOf(m, S)
<1>1. PICK g : g \in Sums(m.size, Blocks)
  BY SumsExist
<1>2. \A T \in SUBSET Blocks : BytesOf(m, T) = g[T]
  BY <1>1, BytesAreSums
<1>3. /\ g \in [SUBSET Blocks -> Nat] /\ g[{}] = 0
      /\ \A U \in SUBSET Blocks : \A x \in U : g[U] = m.size[x] + g[U \ {x}]
  BY <1>1 DEF Sums
<1>4. BytesOf(m, S) \in Nat /\ BytesOf(m, {}) = 0
  BY <1>2, <1>3
<1>5. \A x \in S : S \ {x} \in SUBSET Blocks
  OBVIOUS
<1>6. \A x \in S : BytesOf(m, S) = m.size[x] + BytesOf(m, S \ {x})
  BY <1>2, <1>3, <1>5
<1>7. ASSUME NEW x \in Blocks \ S PROVE BytesOf(m, S \cup {x}) = m.size[x] + BytesOf(m, S)
  <2>1. S \cup {x} \in SUBSET Blocks /\ x \in S \cup {x} /\ (S \cup {x}) \ {x} = S
    OBVIOUS
  <2>2. g[S \cup {x}] = m.size[x] + g[(S \cup {x}) \ {x}]
    BY <1>3, <2>1
  <2> QED
    BY <1>2, <2>1, <2>2
<1> QED
  BY <1>4, <1>6, <1>7

\* The sum depends on the sizes of the blocks in it only.
LEMMA SameBytes ==
  ASSUME NEW m, m.size \in [Blocks -> Nat], NEW k, k.size \in [Blocks -> Nat],
         NEW S \in SUBSET Blocks, \A b \in S : k.size[b] = m.size[b]
  PROVE  BytesOf(k, S) = BytesOf(m, S)
<1> DEFINE C == {T \in SUBSET S : BytesOf(k, T) = BytesOf(m, T)}
<1>1. {} \in C
  BY BytesFacts
<1>2. ASSUME NEW T \in C, NEW x \in S \ T PROVE T \cup {x} \in C
  <2>1. T \in SUBSET Blocks /\ x \in Blocks \ T /\ BytesOf(k, T) = BytesOf(m, T)
        /\ T \cup {x} \in SUBSET S
    OBVIOUS
  <2>2. BytesOf(m, T \cup {x}) = m.size[x] + BytesOf(m, T)
    BY <2>1, BytesFacts
  <2>3. BytesOf(k, T \cup {x}) = k.size[x] + BytesOf(k, T)
    BY <2>1, BytesFacts
  <2> QED
    BY <2>1, <2>2, <2>3
<1>3. C \in SUBSET SUBSET S /\ IsFiniteSet(S)
  BY MemoryAssumption, FS_Subset
<1>4. S \in C
  <2> HIDE DEF C
  <2> QED
    BY <1>1, <1>2, <1>3, BlockByBlock
<1> QED
  BY <1>4

-----------------------------------------------------------------------------
(* The size of a block and its track.                                      *)

LEMMA PowerFacts ==
  ASSUME NEW k \in Nat
  PROVE  2^k \in Nat \ {0}
<1>1. IsFiniteSet(1 .. k) /\ Cardinality(1 .. k) = k
  BY FS_Interval
<1>2. IsFiniteSet(SUBSET (1 .. k)) /\ Cardinality(SUBSET (1 .. k)) = 2^k
  BY <1>1, FS_SUBSET
<1>3. SUBSET (1 .. k) # {}
  OBVIOUS
<1>4. Cardinality(SUBSET (1 .. k)) # 0 /\ Cardinality(SUBSET (1 .. k)) \in Nat
  BY <1>2, <1>3, FS_EmptySet, FS_CardinalityType
<1> QED
  BY <1>2, <1>4

LEMMA SmallestNumber ==
  ASSUME NEW T \in SUBSET Nat, T # {}
  PROVE  \E k \in T : \A n \in T : k <= n
<1>1. IsWellFoundedOn(OpToRel(<, Nat), Nat)
  BY NatLessThanWellFounded
<1>2. PICK k \in T : \A n \in T : ~(<<n, k>> \in OpToRel(<, Nat))
  BY <1>1, WFMin
<1>3. \A n \in T : ~(n < k)
  BY <1>2 DEF OpToRel
<1> QED
  BY <1>3

\* A request that is served gets at least what it asks for, and never nothing.
LEMMA RoundUpFacts ==
  ASSUME NEW n \in Nat, ~Hangs(n)
  PROVE  RoundUp(n) \in Nat \ {0} /\ RoundUp(n) >= n
<1>1. \A k \in Nat : Doubled(k) \in Nat
  <2>1. 2^Bits \in Nat \ {0} /\ \A k \in Nat : 2^k \in Nat
    BY PowerFacts, MemoryAssumption
  <2>2. \A k \in Nat : MinSize * 2^k \in Nat
    BY <2>1, MemoryAssumption
  <2>3. \A x \in Nat, y \in Nat \ {0} : x % y \in Nat
    OBVIOUS
  <2> QED
    BY <2>1, <2>2, <2>3 DEF Doubled
<1>2. Rounds(n) \in SUBSET Nat /\ Rounds(n) # {}
  BY MemoryAssumption DEF Rounds, Hangs
<1>3. PICK k \in Rounds(n) : \A j \in Rounds(n) : k <= j
  BY <1>2, SmallestNumber
<1> DEFINE c == CHOOSE r \in Rounds(n) : \A j \in Rounds(n) : r <= j
<1>4. c \in Rounds(n) /\ \A j \in Rounds(n) : c <= j
  BY <1>3
<1>5. RoundUp(n) = Doubled(c)
  BY DEF RoundUp
<1> HIDE DEF c
<1>6. Doubled(c) >= n /\ c \in Nat
  BY <1>2, <1>4 DEF Rounds
<1>7. Doubled(0) = MinSize
  <2>1. 2^0 = 1
    OBVIOUS
  <2>2. 2^Bits \in Nat
    BY PowerFacts, MemoryAssumption
  <2>3. \A x, y \in Nat : x < y => (x * 1) % y = x
    OBVIOUS
  <2> QED
    BY <2>1, <2>2, <2>3, MemoryAssumption DEF Doubled
<1>8. CASE n = 0
  <2>1. 0 \in Rounds(n)
    BY <1>7, <1>8, MemoryAssumption DEF Rounds
  <2>2. c = 0
    BY <1>4, <1>6, <2>1
  <2> QED
    BY <1>5, <1>7, <1>8, <2>2, MemoryAssumption
<1>9. CASE n # 0
  BY <1>1, <1>5, <1>6, <1>9
<1> QED
  BY <1>8, <1>9

LEMMA TrackFacts ==
  ASSUME NEW sz \in Nat, Large(sz) # {}
  PROVE  TrackOf(sz) \in TrackSizes /\ TrackOf(sz) >= sz
<1>1. Large(sz) \in SUBSET Nat
  BY MemoryAssumption DEF Large
<1>2. PICK t \in Large(sz) : \A u \in Large(sz) : t <= u
  BY <1>1, SmallestNumber
<1>3. TrackOf(sz) \in Large(sz)
  BY <1>2 DEF TrackOf
<1> QED
  BY <1>3 DEF Large

-----------------------------------------------------------------------------
(* What the lists hold.                                                    *)

InTrack(m, b, t) == t \in TrackSizes /\ (b \in m.alloc_list[t] \/ b \in m.free_list[t])

\* Every block that malloc gave is in one list, that of its track, on _u_mem or lost.
ListsHold(m, out) ==
  /\ m \in MemoryStates /\ out \in SUBSET Blocks
  /\ \A b \in m.u_mem \cup out : m.size[b] > 0
  /\ \A b \in Blocks :
       m.size[b] > 0 =>
         b \in m.u_mem \/ b \in out \/ InTrack(m, b, TrackOf(m.size[b]))
  /\ \A t \in TrackSizes :
       /\ m.alloc_list[t] \cap m.free_list[t] = {}
       /\ \A b \in m.alloc_list[t] \cup m.free_list[t] :
            m.size[b] > 0 /\ TrackOf(m.size[b]) = t /\ b \notin m.u_mem /\ b \notin out

BytesHold(m) ==
  \A t \in TrackSizes : m.size_allocated[t] = BytesOf(m, m.alloc_list[t] \cup m.free_list[t])

Allocated(m) == UNION {m.alloc_list[t] : t \in TrackSizes}

LEMMA MemoryFields ==
  ASSUME NEW m \in MemoryStates
  PROVE  /\ m.size \in [Blocks -> Nat] /\ m.free_time \in [Blocks -> Nat]
         /\ m.data \in [Blocks -> Data \cup {Zeros}]
         /\ m.alloc_list \in [TrackSizes -> SUBSET Blocks]
         /\ m.free_list \in [TrackSizes -> SUBSET Blocks]
         /\ m.size_allocated \in [TrackSizes -> Nat] /\ m.u_mem \in SUBSET Blocks
BY DEF MemoryStates

\* What a served request changes.
LEMMA TakenFields ==
  ASSUME NEW m \in MemoryStates, NEW n \in Nat, Servable(n), NEW b \in Blocks
  PROVE  LET k == Taken(m, n, b)
             t == TrackOf(RoundUp(n))
         IN  /\ k \in MemoryStates
             /\ k.free_time = m.free_time /\ k.u_mem = m.u_mem
             /\ k.data = [m.data EXCEPT ![b] = Zeros]
             /\ k.alloc_list = [m.alloc_list EXCEPT ![t] = @ \cup {b}]
             /\ b \in Unused(m) =>
                  /\ k.size = [m.size EXCEPT ![b] = RoundUp(n)]
                  /\ k.size_allocated = [m.size_allocated EXCEPT ![t] = @ + RoundUp(n)]
                  /\ k.free_list = m.free_list
             /\ b \notin Unused(m) =>
                  /\ k.size = m.size /\ k.size_allocated = m.size_allocated
                  /\ k.free_list = [m.free_list EXCEPT ![t] = @ \ {b}]
<1> DEFINE k == Taken(m, n, b)
           t == TrackOf(RoundUp(n))
           sz == RoundUp(n)
<1>1. sz \in Nat /\ t \in TrackSizes
  BY RoundUpFacts, TrackFacts DEF Servable, TooMuch
<1>2. k = [Obtained(m, n, b) EXCEPT !.alloc_list[t] = @ \cup {b}, !.data[b] = Zeros]
  BY DEF Taken
<1>3. Obtained(m, n, b) = IF b \in Unused(m)
                          THEN [m EXCEPT !.size[b] = sz, !.size_allocated[t] = @ + sz]
                          ELSE [m EXCEPT !.free_list[t] = @ \ {b}]
  BY DEF Obtained
<1> HIDE DEF k, t, sz
<1>4. CASE b \in Unused(m)
  <2>1. k = [[m EXCEPT !.size[b] = sz, !.size_allocated[t] = @ + sz]
               EXCEPT !.alloc_list[t] = @ \cup {b}, !.data[b] = Zeros]
    BY <1>2, <1>3, <1>4
  <2>2. /\ k.free_time = m.free_time /\ k.u_mem = m.u_mem
        /\ k.data = [m.data EXCEPT ![b] = Zeros]
        /\ k.alloc_list = [m.alloc_list EXCEPT ![t] = @ \cup {b}]
        /\ k.size = [m.size EXCEPT ![b] = sz]
        /\ k.size_allocated = [m.size_allocated EXCEPT ![t] = @ + sz]
        /\ k.free_list = m.free_list
    BY <1>1, <2>1 DEF MemoryStates
  <2>3. k \in MemoryStates
    <3> DEFINE o == [m EXCEPT !.size[b] = sz, !.size_allocated[t] = @ + sz]
    <3>1. o \in MemoryStates
      <4> DEFINE si == [m.size EXCEPT ![b] = sz]
                 sa == [m.size_allocated EXCEPT ![t] = @ + sz]
      <4>1. o = [m EXCEPT !.size = si, !.size_allocated = sa]
        BY DEF MemoryStates
      <4>2. si \in [Blocks -> Nat] /\ sa \in [TrackSizes -> Nat]
        BY <1>1, MemoryFields
      <4> HIDE DEF si, sa
      <4> QED
        BY <4>1, <4>2 DEF MemoryStates
    <3>2. k = [o EXCEPT !.alloc_list[t] = @ \cup {b}, !.data[b] = Zeros]
      BY <2>1
    <3> HIDE DEF o
    <3> QED
      BY ZenonT(30), <1>1, <3>1, <3>2 DEF MemoryStates
  <2> QED
    BY <1>4, <2>2, <2>3 DEF k, t, sz
<1>5. CASE b \notin Unused(m)
  <2>1. k = [[m EXCEPT !.free_list[t] = @ \ {b}]
               EXCEPT !.alloc_list[t] = @ \cup {b}, !.data[b] = Zeros]
    BY <1>2, <1>3, <1>5
  <2>2. /\ k \in MemoryStates
        /\ k.free_time = m.free_time /\ k.u_mem = m.u_mem
        /\ k.data = [m.data EXCEPT ![b] = Zeros]
        /\ k.alloc_list = [m.alloc_list EXCEPT ![t] = @ \cup {b}]
        /\ k.size = m.size /\ k.size_allocated = m.size_allocated
        /\ k.free_list = [m.free_list EXCEPT ![t] = @ \ {b}]
    BY ZenonT(30), <1>1, <2>1 DEF MemoryStates
  <2> QED
    BY <1>5, <2>2 DEF k, t, sz
<1> QED
  BY <1>4, <1>5

LEMMA CandidateFacts ==
  ASSUME NEW m, NEW out, ListsHold(m, out), NEW n \in Nat, Servable(n), NEW b \in Candidates(m, n)
  PROVE  LET t == TrackOf(RoundUp(n))
         IN  /\ t \in TrackSizes /\ b \in Blocks
             /\ b \in Unused(m) \/ (b \in m.free_list[t] /\ m.size[b] >= n /\ b \notin Unused(m))
<1>1. TrackOf(RoundUp(n)) \in TrackSizes
  BY RoundUpFacts, TrackFacts DEF Servable, TooMuch
<1>2. b \in Unused(m) \/ b \in Reusable(m, n)
  BY DEF Candidates
<1>3. CASE b \in Unused(m)
  BY <1>1, <1>3 DEF Unused
<1>4. CASE b \in Reusable(m, n)
  <2>1. b \in m.free_list[TrackOf(RoundUp(n))] /\ m.size[b] >= n
    BY <1>4 DEF Reusable
  <2>2. m.size[b] > 0 /\ b \in Blocks
    BY <1>1, <2>1, MemoryFields DEF ListsHold
  <2> QED
    BY <1>1, <2>1, <2>2 DEF Unused
<1> QED
  BY <1>2, <1>3, <1>4

\* A served request takes a block that nobody has, large enough, and clears it.
LEMMA TakenFacts ==
  ASSUME NEW m, NEW out, ListsHold(m, out), NEW n \in Nat, Servable(n), NEW b \in Candidates(m, n)
  PROVE  LET k == Taken(m, n, b)
         IN  /\ ListsHold(k, out)
             /\ b \in Blocks /\ b \notin Allocated(m) /\ Allocated(k) = Allocated(m) \cup {b}
             /\ k.size[b] >= n /\ k.data[b] = Zeros
             /\ \A c \in Blocks \ {b} : k.size[c] = m.size[c] /\ k.data[c] = m.data[c]
             /\ BytesHold(m) => BytesHold(k)
<1> DEFINE k == Taken(m, n, b)
           t == TrackOf(RoundUp(n))
           sz == RoundUp(n)
<1>1. /\ t \in TrackSizes /\ b \in Blocks
      /\ b \in Unused(m) \/ (b \in m.free_list[t] /\ m.size[b] >= n /\ b \notin Unused(m))
  BY CandidateFacts
<1>2. m \in MemoryStates /\ out \in SUBSET Blocks
  BY DEF ListsHold
<1>3. /\ k \in MemoryStates
      /\ k.free_time = m.free_time /\ k.u_mem = m.u_mem
      /\ k.data = [m.data EXCEPT ![b] = Zeros]
      /\ k.alloc_list = [m.alloc_list EXCEPT ![t] = @ \cup {b}]
      /\ b \in Unused(m) =>
           /\ k.size = [m.size EXCEPT ![b] = sz]
           /\ k.size_allocated = [m.size_allocated EXCEPT ![t] = @ + sz]
           /\ k.free_list = m.free_list
      /\ b \notin Unused(m) =>
           /\ k.size = m.size /\ k.size_allocated = m.size_allocated
           /\ k.free_list = [m.free_list EXCEPT ![t] = @ \ {b}]
  BY SMTT(30), <1>1, <1>2, TakenFields
<1>4. sz \in Nat \ {0} /\ sz >= n
  BY RoundUpFacts DEF Servable
<1>5. TrackOf(sz) = t
  OBVIOUS
<1> HIDE DEF k, t, sz
<1>6. /\ m.size \in [Blocks -> Nat] /\ m.data \in [Blocks -> Data \cup {Zeros}]
      /\ m.alloc_list \in [TrackSizes -> SUBSET Blocks]
      /\ m.free_list \in [TrackSizes -> SUBSET Blocks]
      /\ m.size_allocated \in [TrackSizes -> Nat] /\ m.u_mem \in SUBSET Blocks
  BY <1>2, MemoryFields
<1>7. /\ \A c \in m.u_mem \cup out : m.size[c] > 0
      /\ \A c \in Blocks :
           m.size[c] > 0 =>
             c \in m.u_mem \/ c \in out \/ InTrack(m, c, TrackOf(m.size[c]))
      /\ \A u \in TrackSizes :
           /\ m.alloc_list[u] \cap m.free_list[u] = {}
           /\ \A c \in m.alloc_list[u] \cup m.free_list[u] :
                m.size[c] > 0 /\ TrackOf(m.size[c]) = u /\ c \notin m.u_mem /\ c \notin out
  BY DEF ListsHold
<1>8. k.data[b] = Zeros /\ \A c \in Blocks \ {b} : k.data[c] = m.data[c]
  BY <1>1, <1>3, <1>6
<1>9. b \notin Allocated(m) /\ Allocated(k) = Allocated(m) \cup {b}
  <2>1. \A u \in TrackSizes : b \notin m.alloc_list[u]
    BY <1>1, <1>7 DEF Unused
  <2>2. \A u \in TrackSizes : k.alloc_list[u] = IF u = t THEN m.alloc_list[u] \cup {b}
                                                 ELSE m.alloc_list[u]
    BY <1>1, <1>3, <1>6
  <2> QED
    BY <1>1, <2>1, <2>2 DEF Allocated
<1>10. CASE b \in Unused(m)
  <2>1. m.size[b] = 0 /\ k.size[b] = sz
        /\ \A c \in Blocks \ {b} : k.size[c] = m.size[c]
    BY <1>1, <1>3, <1>6, <1>10 DEF Unused
  <2>2. \A u \in TrackSizes : /\ k.free_list[u] = m.free_list[u]
                              /\ u = t => k.alloc_list[u] = m.alloc_list[u] \cup {b}
                              /\ u # t => k.alloc_list[u] = m.alloc_list[u]
                              /\ b \notin m.alloc_list[u] /\ b \notin m.free_list[u]
    <3>1. \A u \in TrackSizes : b \notin m.alloc_list[u] /\ b \notin m.free_list[u]
      BY <1>7, <2>1
    <3>2. \A u \in TrackSizes : /\ u = t => k.alloc_list[u] = m.alloc_list[u] \cup {b}
                                /\ u # t => k.alloc_list[u] = m.alloc_list[u]
      BY <1>1, <1>3, <1>6
    <3> QED
      BY <1>3, <1>10, <3>1, <3>2
  <2>3. b \notin m.u_mem /\ b \notin out
    BY <1>7, <2>1
  <2>4. \A c \in k.u_mem \cup out : k.size[c] > 0
    BY <1>2, <1>3, <1>6, <1>7, <2>1, <2>3
  <2>5. ASSUME NEW c \in Blocks, k.size[c] > 0
        PROVE  c \in k.u_mem \/ c \in out \/ InTrack(k, c, TrackOf(k.size[c]))
    <3>1. CASE c = b
      BY <1>1, <1>5, <2>1, <2>2, <3>1 DEF InTrack
    <3>2. CASE c # b
      <4>1. k.size[c] = m.size[c]
        BY <2>1, <3>2
      <4>2. \A u \in TrackSizes : c \in m.alloc_list[u] => c \in k.alloc_list[u]
        BY <2>2
      <4>3. \A u : InTrack(m, c, u) => InTrack(k, c, u)
        BY <2>2, <4>2 DEF InTrack
      <4> QED
        BY <1>3, <1>7, <2>5, <4>1, <4>3
    <3> QED
      BY <3>1, <3>2
  <2>6. ASSUME NEW u \in TrackSizes
        PROVE  /\ k.alloc_list[u] \cap k.free_list[u] = {}
               /\ \A c \in k.alloc_list[u] \cup k.free_list[u] :
                    k.size[c] > 0 /\ TrackOf(k.size[c]) = u /\ c \notin k.u_mem /\ c \notin out
    <3>1. k.alloc_list[u] \cap k.free_list[u] = {}
      BY <1>7, <2>2
    <3>2. ASSUME NEW c \in k.alloc_list[u] \cup k.free_list[u], c = b
          PROVE  k.size[c] > 0 /\ TrackOf(k.size[c]) = u /\ c \notin k.u_mem /\ c \notin out
      BY <1>3, <1>4, <1>5, <2>1, <2>2, <2>3, <3>2
    <3>3. ASSUME NEW c \in k.alloc_list[u] \cup k.free_list[u], c # b
          PROVE  k.size[c] > 0 /\ TrackOf(k.size[c]) = u /\ c \notin k.u_mem /\ c \notin out
      <4>1. c \in m.alloc_list[u] \cup m.free_list[u]
        BY <2>2, <3>3
      <4>2. c \in Blocks /\ k.size[c] = m.size[c]
        BY <1>6, <2>1, <3>3, <4>1
      <4> QED
        BY <1>3, <1>7, <4>1, <4>2
    <3> QED
      BY <3>1, <3>2, <3>3
  <2>7. ListsHold(k, out)
    BY <1>2, <1>3, <2>4, <2>5, <2>6 DEF ListsHold
  <2>8. ASSUME BytesHold(m), NEW u \in TrackSizes
        PROVE  k.size_allocated[u] = BytesOf(k, k.alloc_list[u] \cup k.free_list[u])
    <3> DEFINE S == m.alloc_list[u] \cup m.free_list[u]
    <3>1. S \in SUBSET Blocks /\ b \notin S /\ m.size_allocated[u] = BytesOf(m, S)
      BY <1>6, <2>2, <2>8 DEF BytesHold
    <3>2. k.size \in [Blocks -> Nat]
      BY <1>3, MemoryFields
    <3> HIDE DEF S
    <3>3. BytesOf(k, S) = BytesOf(m, S)
      <4>1. \A c \in S : k.size[c] = m.size[c]
        BY <2>1, <3>1
      <4> QED
        BY <1>6, <3>1, <3>2, <4>1, SameBytes
    <3>4. CASE u = t
      <4>1. k.alloc_list[u] \cup k.free_list[u] = S \cup {b}
        BY <2>2, <3>4 DEF S
      <4>2. BytesOf(k, S \cup {b}) = sz + BytesOf(k, S) /\ BytesOf(k, S) \in Nat
        BY <1>1, <2>1, <3>1, <3>2, BytesFacts
      <4>3. k.size_allocated[u] = m.size_allocated[u] + sz
        BY <1>1, <1>3, <1>6, <1>10, <3>4
      <4> QED
        BY SMTT(30), <1>4, <3>1, <3>3, <4>1, <4>2, <4>3
    <3>5. CASE u # t
      <4>1. k.alloc_list[u] \cup k.free_list[u] = S
        BY <2>2, <3>5 DEF S
      <4>2. k.size_allocated[u] = m.size_allocated[u]
        BY <1>1, <1>3, <1>6, <1>10, <3>5
      <4> QED
        BY <3>1, <3>3, <4>1, <4>2
    <3> QED
      BY <3>4, <3>5
  <2>9. k.size[b] >= n
    BY <1>4, <2>1
  <2> QED
    BY <1>1, <1>8, <1>9, <2>1, <2>7, <2>8, <2>9 DEF BytesHold, k
<1>11. CASE b \in m.free_list[t] /\ m.size[b] >= n /\ b \notin Unused(m)
  <2>1. k.size = m.size /\ k.size_allocated = m.size_allocated /\ k.u_mem = m.u_mem
    BY <1>3, <1>11
  <2>2. \A u \in TrackSizes :
          /\ u = t => /\ k.alloc_list[u] = m.alloc_list[u] \cup {b}
                      /\ k.free_list[u] = m.free_list[u] \ {b}
          /\ u # t => k.alloc_list[u] = m.alloc_list[u] /\ k.free_list[u] = m.free_list[u]
    <3>1. \A u \in TrackSizes : /\ u = t => k.alloc_list[u] = m.alloc_list[u] \cup {b}
                                /\ u # t => k.alloc_list[u] = m.alloc_list[u]
      BY <1>1, <1>3, <1>6
    <3>2. \A u \in TrackSizes : /\ u = t => k.free_list[u] = m.free_list[u] \ {b}
                                /\ u # t => k.free_list[u] = m.free_list[u]
      BY <1>1, <1>3, <1>6, <1>11
    <3> QED
      BY <3>1, <3>2
  <2>3. \A u \in TrackSizes : k.alloc_list[u] \cup k.free_list[u] = m.alloc_list[u] \cup m.free_list[u]
    BY <1>11, <2>2
  <2>4. \A u : u \in TrackSizes => k.alloc_list[u] \cap k.free_list[u] = {}
    BY <1>7, <1>11, <2>2
  <2>5. TrackOf(m.size[b]) = t
    BY <1>1, <1>7, <1>11
  <2>6. ASSUME NEW c \in Blocks, k.size[c] > 0
        PROVE  c \in k.u_mem \/ c \in out \/ InTrack(k, c, TrackOf(k.size[c]))
    <3>1. \A u : InTrack(m, c, u) => InTrack(k, c, u)
      BY <2>3 DEF InTrack
    <3> QED
      BY <1>7, <2>1, <2>6, <3>1
  <2>7. ListsHold(k, out)
    BY <1>2, <1>3, <1>7, <2>1, <2>3, <2>4, <2>6 DEF ListsHold
  <2>8. ASSUME BytesHold(m), NEW u \in TrackSizes
        PROVE  k.size_allocated[u] = BytesOf(k, k.alloc_list[u] \cup k.free_list[u])
    <3> DEFINE S == m.alloc_list[u] \cup m.free_list[u]
    <3>1. S \in SUBSET Blocks /\ m.size_allocated[u] = BytesOf(m, S)
      BY <1>6, <2>8 DEF BytesHold
    <3> HIDE DEF S
    <3>2. BytesOf(k, S) = BytesOf(m, S)
      BY <1>6, <2>1, <3>1, SameBytes
    <3> QED
      BY <2>1, <2>3, <3>1, <3>2 DEF S
  <2> QED
    BY <1>1, <1>8, <1>9, <1>11, <2>1, <2>7, <2>8 DEF BytesHold, k
<1> QED
  BY <1>1, <1>10, <1>11

\* A block that is freed remains with its track.
LEMMA FreedFacts ==
  ASSUME NEW m, NEW out, ListsHold(m, out), NEW b \in Allocated(m), NEW time \in Nat
  PROVE  LET k == U_FreeTracked(m, b, time)
         IN  /\ ListsHold(k, out)
             /\ b \in Blocks /\ Allocated(k) = Allocated(m) \ {b}
             /\ k.size = m.size /\ k.data = m.data
             /\ BytesHold(m) => BytesHold(k)
<1> DEFINE k == U_FreeTracked(m, b, time)
           t == TrackOf(m.size[b])
<1>1. m \in MemoryStates /\ out \in SUBSET Blocks
  BY DEF ListsHold
<1>2. /\ m.size \in [Blocks -> Nat] /\ m.free_time \in [Blocks -> Nat]
      /\ m.alloc_list \in [TrackSizes -> SUBSET Blocks]
      /\ m.free_list \in [TrackSizes -> SUBSET Blocks]
  BY <1>1, MemoryFields
<1>3. /\ \A c \in m.u_mem \cup out : m.size[c] > 0
      /\ \A c \in Blocks :
           m.size[c] > 0 =>
             c \in m.u_mem \/ c \in out \/ InTrack(m, c, TrackOf(m.size[c]))
      /\ \A u \in TrackSizes :
           /\ m.alloc_list[u] \cap m.free_list[u] = {}
           /\ \A c \in m.alloc_list[u] \cup m.free_list[u] :
                m.size[c] > 0 /\ TrackOf(m.size[c]) = u /\ c \notin m.u_mem /\ c \notin out
  BY DEF ListsHold
<1>4. t \in TrackSizes /\ b \in m.alloc_list[t] /\ b \in Blocks
  <2>1. PICK u \in TrackSizes : b \in m.alloc_list[u]
    BY DEF Allocated
  <2>2. u = t
    BY <1>3, <2>1
  <2> QED
    BY <1>2, <2>1, <2>2
<1>5. \A u \in TrackSizes : b \in m.alloc_list[u] => u = t
  BY <1>3
<1>6. /\ k.size = m.size /\ k.data = m.data /\ k.u_mem = m.u_mem
      /\ k.size_allocated = m.size_allocated
      /\ k.alloc_list = [m.alloc_list EXCEPT ![t] = @ \ {b}]
      /\ k.free_list = [m.free_list EXCEPT ![t] = @ \cup {b}]
  BY <1>1 DEF U_FreeTracked, MemoryStates
<1>7. k \in MemoryStates
  <2> HIDE DEF t
  <2>1. k = [m EXCEPT !.alloc_list[t] = @ \ {b}, !.free_list[t] = @ \cup {b}, !.free_time[b] = time]
    BY DEF U_FreeTracked, t
  <2> DEFINE al == [m.alloc_list EXCEPT ![t] = @ \ {b}]
             fl == [m.free_list EXCEPT ![t] = @ \cup {b}]
             ft == [m.free_time EXCEPT ![b] = time]
  <2>2. k = [m EXCEPT !.alloc_list = al, !.free_list = fl, !.free_time = ft]
    BY <1>1, <2>1 DEF MemoryStates
  <2>3. al \in [TrackSizes -> SUBSET Blocks] /\ ft \in [Blocks -> Nat]
    BY <1>2, <1>4
  <2>4. fl \in [TrackSizes -> SUBSET Blocks]
    BY <1>2, <1>4
  <2> HIDE DEF al, fl, ft
  <2> QED
    BY <1>1, <2>2, <2>3, <2>4 DEF MemoryStates
<1> HIDE DEF k, t
<1>8. \A u \in TrackSizes :
        /\ u = t => /\ k.alloc_list[u] = m.alloc_list[u] \ {b}
                    /\ k.free_list[u] = m.free_list[u] \cup {b}
        /\ u # t => k.alloc_list[u] = m.alloc_list[u] /\ k.free_list[u] = m.free_list[u]
  <2>1. \A u \in TrackSizes : /\ u = t => k.alloc_list[u] = m.alloc_list[u] \ {b}
                              /\ u # t => k.alloc_list[u] = m.alloc_list[u]
    BY <1>2, <1>4, <1>6
  <2>2. \A u \in TrackSizes : /\ u = t => k.free_list[u] = m.free_list[u] \cup {b}
                              /\ u # t => k.free_list[u] = m.free_list[u]
    BY <1>2, <1>4, <1>6
  <2> QED
    BY <2>1, <2>2
<1>9. \A u \in TrackSizes : k.alloc_list[u] \cup k.free_list[u] = m.alloc_list[u] \cup m.free_list[u]
  BY <1>4, <1>8
<1>10. \A u \in TrackSizes : k.alloc_list[u] \cap k.free_list[u] = {}
  BY <1>3, <1>8
<1>11. \A c, u : InTrack(m, c, u) => InTrack(k, c, u)
  BY <1>9 DEF InTrack
<1>12. \A c \in Blocks :
         k.size[c] > 0 => c \in k.u_mem \/ c \in out \/ InTrack(k, c, TrackOf(k.size[c]))
  BY <1>3, <1>6, <1>11
<1>13. ListsHold(k, out)
  BY <1>1, <1>3, <1>6, <1>7, <1>9, <1>10, <1>12 DEF ListsHold
<1>14. Allocated(k) = Allocated(m) \ {b}
  BY <1>4, <1>5, <1>8 DEF Allocated
<1>15. ASSUME BytesHold(m) PROVE BytesHold(k)
  <2>1. SUFFICES ASSUME NEW u \in TrackSizes
                 PROVE  k.size_allocated[u] = BytesOf(k, k.alloc_list[u] \cup k.free_list[u])
    BY DEF BytesHold
  <2> DEFINE S == m.alloc_list[u] \cup m.free_list[u]
  <2>2. S \in SUBSET Blocks /\ m.size_allocated[u] = BytesOf(m, S)
    BY <1>2, <1>15 DEF BytesHold
  <2> HIDE DEF S
  <2>3. BytesOf(k, S) = BytesOf(m, S)
    BY <1>2, <1>6, <2>2, SameBytes
  <2> QED
    BY <1>6, <1>9, <2>2, <2>3 DEF S
<1> QED
  BY <1>4, <1>6, <1>13, <1>14, <1>15 DEF k

\* Writing to a block leaves the lists as they are.
LEMMA WrittenFacts ==
  ASSUME NEW m, NEW out, ListsHold(m, out), NEW b \in Blocks, NEW d \in Data \cup {Zeros}
  PROVE  LET k == [m EXCEPT !.data[b] = d]
         IN  /\ ListsHold(k, out) /\ Allocated(k) = Allocated(m) /\ k.size = m.size
             /\ k.data = [m.data EXCEPT ![b] = d]
             /\ BytesHold(m) => BytesHold(k)
<1> DEFINE k == [m EXCEPT !.data[b] = d]
<1>1. m \in MemoryStates
  BY DEF ListsHold
<1>2. /\ k.size = m.size /\ k.u_mem = m.u_mem /\ k.size_allocated = m.size_allocated
      /\ k.alloc_list = m.alloc_list /\ k.free_list = m.free_list
      /\ k.data = [m.data EXCEPT ![b] = d]
  BY <1>1 DEF MemoryStates
<1>3. k \in MemoryStates
  BY <1>1 DEF MemoryStates
<1> HIDE DEF k
<1>4. ListsHold(k, out)
  BY <1>2, <1>3 DEF ListsHold, InTrack
<1>5. Allocated(k) = Allocated(m)
  BY <1>2 DEF Allocated
<1>6. ASSUME BytesHold(m) PROVE BytesHold(k)
  <2>1. \A S \in SUBSET Blocks : BytesOf(k, S) = BytesOf(m, S)
    BY <1>1, <1>2, MemoryFields, SameBytes
  <2>2. \A u \in TrackSizes : m.alloc_list[u] \cup m.free_list[u] \in SUBSET Blocks
    BY <1>1, MemoryFields
  <2> QED
    BY <1>2, <1>6, <2>1, <2>2 DEF BytesHold
<1> QED
  BY <1>2, <1>4, <1>5, <1>6 DEF k

\* What is given back to malloc was free, and at most one block of a track.
LEMMA VictimFacts ==
  ASSUME NEW m, NEW out, ListsHold(m, out), NEW time, NEW v \in Victims(m, time)
  PROVE  /\ \A b \in v : b \in Blocks /\ b \notin Allocated(m) /\ b \notin m.u_mem /\ b \notin out
         /\ \A u \in TrackSizes : \A b, c \in v \cap m.free_list[u] : b = c
<1>1. \A u \in TrackSizes : Old(m, u, time) \subseteq m.free_list[u]
  BY DEF Old
<1>2. v \in SUBSET UNION {Old(m, u, time) : u \in TrackSizes}
  BY DEF Victims
<1>3. \A u \in TrackSizes :
        Old(m, u, time) # {} => \E b \in Old(m, u, time) : v \cap Old(m, u, time) = {b}
  BY DEF Victims
<1>4. \A u \in TrackSizes :
        /\ m.alloc_list[u] \cap m.free_list[u] = {}
        /\ \A c \in m.alloc_list[u] \cup m.free_list[u] :
             m.size[c] > 0 /\ TrackOf(m.size[c]) = u /\ c \notin m.u_mem /\ c \notin out
  BY DEF ListsHold
<1>5. \A b \in v : \E u \in TrackSizes : b \in Old(m, u, time) /\ b \in m.free_list[u]
  BY <1>1, <1>2
<1>6. \A u \in TrackSizes : m.free_list[u] \in SUBSET Blocks
  BY MemoryFields DEF ListsHold
<1>7. ASSUME NEW b \in v
      PROVE  b \in Blocks /\ b \notin Allocated(m) /\ b \notin m.u_mem /\ b \notin out
  <2>1. PICK u \in TrackSizes : b \in m.free_list[u]
    BY <1>5
  <2>2. \A w \in TrackSizes : b \notin m.alloc_list[w]
    <3>1. \A w \in TrackSizes : b \in m.alloc_list[w] => w = u
      BY <1>4, <2>1
    <3> QED
      BY <1>4, <2>1, <3>1
  <2> QED
    BY <1>4, <1>6, <2>1, <2>2 DEF Allocated
<1>8. ASSUME NEW u \in TrackSizes, NEW b \in v \cap m.free_list[u], NEW c \in v \cap m.free_list[u]
      PROVE  b = c
  <2>1. \A d \in v \cap m.free_list[u] : d \in Old(m, u, time)
    <3>1. ASSUME NEW d \in v \cap m.free_list[u] PROVE d \in Old(m, u, time)
      <4>1. PICK w \in TrackSizes : d \in Old(m, w, time) /\ d \in m.free_list[w]
        BY <1>5
      <4>2. w = u
        BY <1>4, <4>1
      <4> QED
        BY <4>1, <4>2
    <3> QED
      BY <3>1
  <2> QED
    BY <1>3, <2>1
<1> QED
  BY <1>7, <1>8

LEMMA CollectedFacts ==
  ASSUME NEW m, NEW out, ListsHold(m, out), BytesHold(m), NEW time, NEW v \in Victims(m, time)
  PROVE  LET k == Collected(m, v)
         IN  /\ ListsHold(k, out) /\ BytesHold(k) /\ Allocated(k) = Allocated(m)
             /\ \A b \in Allocated(m) : k.size[b] = m.size[b] /\ k.data[b] = m.data[b]
<1> DEFINE k == Collected(m, v)
<1>1. /\ \A b \in v : b \in Blocks /\ b \notin Allocated(m) /\ b \notin m.u_mem /\ b \notin out
      /\ \A u \in TrackSizes : \A b, c \in v \cap m.free_list[u] : b = c
  BY VictimFacts
<1>2. m \in MemoryStates /\ out \in SUBSET Blocks
  BY DEF ListsHold
<1>3. /\ m.size \in [Blocks -> Nat] /\ m.free_time \in [Blocks -> Nat]
      /\ m.data \in [Blocks -> Data \cup {Zeros}]
      /\ m.alloc_list \in [TrackSizes -> SUBSET Blocks]
      /\ m.free_list \in [TrackSizes -> SUBSET Blocks]
      /\ m.size_allocated \in [TrackSizes -> Nat] /\ m.u_mem \in SUBSET Blocks
  BY <1>2, MemoryFields
<1>4. /\ \A c \in m.u_mem \cup out : m.size[c] > 0
      /\ \A c \in Blocks :
           m.size[c] > 0 =>
             c \in m.u_mem \/ c \in out \/ InTrack(m, c, TrackOf(m.size[c]))
      /\ \A u \in TrackSizes :
           /\ m.alloc_list[u] \cap m.free_list[u] = {}
           /\ \A c \in m.alloc_list[u] \cup m.free_list[u] :
                m.size[c] > 0 /\ TrackOf(m.size[c]) = u /\ c \notin m.u_mem /\ c \notin out
  BY DEF ListsHold
<1> DEFINE si == [b \in Blocks |-> IF b \in v THEN 0 ELSE m.size[b]]
           ft == [b \in Blocks |-> IF b \in v THEN 0 ELSE m.free_time[b]]
           da == [b \in Blocks |-> IF b \in v THEN Zeros ELSE m.data[b]]
           fl == [u \in TrackSizes |-> m.free_list[u] \ v]
           sa == [u \in TrackSizes |-> m.size_allocated[u] - BytesOf(m, v \cap m.free_list[u])]
<1>5. k = [m EXCEPT !.size = si, !.free_time = ft, !.data = da, !.free_list = fl, !.size_allocated = sa]
  BY <1>2 DEF Collected, Released, MemoryStates
\* a victim of a track is counted by it
<1>6. ASSUME NEW u \in TrackSizes
      PROVE  LET S == m.alloc_list[u] \cup m.free_list[u]
             IN  sa[u] \in Nat /\ sa[u] = BytesOf(m, S \ v)
  <2> DEFINE S == m.alloc_list[u] \cup m.free_list[u]
             w == v \cap m.free_list[u]
  <2>1. S \in SUBSET Blocks /\ m.size_allocated[u] = BytesOf(m, S) /\ m.size_allocated[u] \in Nat
    BY <1>3 DEF BytesHold
  <2>2. S \ v = S \ w
    BY <1>1 DEF Allocated
  <2>5. sa[u] = m.size_allocated[u] - BytesOf(m, w)
    OBVIOUS
  <2>3. CASE w = {}
    <3>1. S \ v = S
      BY <2>2, <2>3
    <3> HIDE DEF S, w, sa
    <3>2. BytesOf(m, w) = 0
      BY <1>3, <2>1, <2>3, BytesFacts
    <3>3. sa[u] = BytesOf(m, S)
      BY <2>1, <2>5, <3>2
    <3> QED
      BY <2>1, <3>1, <3>3 DEF S
  <2>4. CASE w # {}
    <3>1. PICK b \in w : TRUE
      BY <2>4
    <3>2. w = {b} /\ b \in S /\ b \in Blocks
      BY <1>1, <3>1
    <3> HIDE DEF S, w
    <3>3. BytesOf(m, w) = m.size[b]
      <4>1. {} \in SUBSET Blocks /\ b \in Blocks \ {} /\ {} \cup {b} = w
        BY <3>2
      <4>2. BytesOf(m, {}) = 0 /\ BytesOf(m, {} \cup {b}) = m.size[b] + BytesOf(m, {})
        BY <1>3, <4>1, BytesFacts
      <4>3. BytesOf(m, w) = m.size[b] + 0
        BY <4>1, <4>2
      <4> QED
        BY <1>3, <3>2, <4>3
    <3>4. S \ {b} \in SUBSET Blocks
      BY <2>1
    <3>5. BytesOf(m, S) = m.size[b] + BytesOf(m, S \ {b})
      BY SMTT(30), <1>3, <2>1, <3>2, BytesFacts
    <3>6. BytesOf(m, S \ {b}) \in Nat
      BY <1>3, <3>4, BytesFacts
    <3>7. m.size[b] \in Nat
      BY <1>3, <3>2
    <3> HIDE DEF sa
    <3>9. sa[u] = BytesOf(m, S \ {b})
      BY <2>1, <2>5, <3>3, <3>5, <3>6, <3>7
    <3> QED
      BY <2>2, <3>2, <3>6, <3>9 DEF S
  <2> QED
    BY <2>3, <2>4
<1>7. /\ si \in [Blocks -> Nat] /\ ft \in [Blocks -> Nat]
      /\ da \in [Blocks -> Data \cup {Zeros}]
      /\ fl \in [TrackSizes -> SUBSET Blocks]
  BY <1>3
<1>8. sa \in [TrackSizes -> Nat]
  BY <1>6
<1>9. \A b \in Blocks : si[b] = (IF b \in v THEN 0 ELSE m.size[b])
                        /\ da[b] = (IF b \in v THEN Zeros ELSE m.data[b])
  OBVIOUS
<1>10. \A u \in TrackSizes : fl[u] = m.free_list[u] \ v
  OBVIOUS
<1> HIDE DEF k, si, ft, da, fl, sa
<1>11. /\ k \in MemoryStates /\ k.size = si /\ k.data = da /\ k.free_list = fl
       /\ k.size_allocated = sa /\ k.alloc_list = m.alloc_list /\ k.u_mem = m.u_mem
  BY <1>2, <1>5, <1>7, <1>8 DEF MemoryStates
<1>12. \A u \in TrackSizes : v \cap m.alloc_list[u] = {}
  BY <1>1 DEF Allocated
<1>13. \A c \in k.u_mem \cup out : k.size[c] > 0
  BY <1>1, <1>2, <1>3, <1>4, <1>9, <1>11
<1>14. ASSUME NEW c \in Blocks, k.size[c] > 0
       PROVE  c \in k.u_mem \/ c \in out \/ InTrack(k, c, TrackOf(k.size[c]))
  <2>1. c \notin v /\ k.size[c] = m.size[c]
    BY <1>9, <1>11, <1>14
  <2>2. \A u : InTrack(m, c, u) => InTrack(k, c, u)
    BY <1>10, <1>11, <2>1 DEF InTrack
  <2> QED
    BY <1>4, <1>11, <1>14, <2>1, <2>2
<1>15. ASSUME NEW u \in TrackSizes
       PROVE  /\ k.alloc_list[u] \cap k.free_list[u] = {}
              /\ k.alloc_list[u] \cup k.free_list[u] = (m.alloc_list[u] \cup m.free_list[u]) \ v
              /\ \A c \in k.alloc_list[u] \cup k.free_list[u] :
                   k.size[c] > 0 /\ TrackOf(k.size[c]) = u /\ c \notin k.u_mem /\ c \notin out
  <2>1. k.alloc_list[u] \cap k.free_list[u] = {}
    BY <1>4, <1>10, <1>11
  <2>2. k.alloc_list[u] \cup k.free_list[u] = (m.alloc_list[u] \cup m.free_list[u]) \ v
    BY <1>10, <1>11, <1>12
  <2>3. \A c \in (m.alloc_list[u] \cup m.free_list[u]) \ v : c \in Blocks /\ k.size[c] = m.size[c]
    BY <1>3, <1>9, <1>11
  <2> QED
    BY <1>4, <1>11, <2>1, <2>2, <2>3
<1>16. ListsHold(k, out)
  BY <1>2, <1>11, <1>13, <1>14, <1>15 DEF ListsHold
<1>17. BytesHold(k)
  <2>1. SUFFICES ASSUME NEW u \in TrackSizes
                 PROVE  k.size_allocated[u] = BytesOf(k, k.alloc_list[u] \cup k.free_list[u])
    BY DEF BytesHold
  <2> DEFINE S == (m.alloc_list[u] \cup m.free_list[u]) \ v
  <2>2. S \in SUBSET Blocks /\ \A b \in S : k.size[b] = m.size[b]
    BY <1>3, <1>9, <1>11
  <2>3. k.size \in [Blocks -> Nat]
    BY <1>7, <1>11
  <2>4. sa[u] = BytesOf(m, S)
    BY <1>6
  <2> HIDE DEF S
  <2>5. BytesOf(k, S) = BytesOf(m, S)
    BY <1>3, <2>2, <2>3, SameBytes
  <2> QED
    BY <1>11, <1>15, <2>4, <2>5 DEF S
<1>18. Allocated(k) = Allocated(m)
  BY <1>11 DEF Allocated
<1>19. \A b \in Allocated(m) : k.size[b] = m.size[b] /\ k.data[b] = m.data[b]
  BY <1>1, <1>3, <1>9, <1>11 DEF Allocated
<1> QED
  BY <1>16, <1>17, <1>18, <1>19 DEF k

\* The untracked calls take a block from malloc, and lose it.
LEMMA CallocFacts ==
  ASSUME NEW m, NEW out, ListsHold(m, out), NEW n \in Nat \ {0}, NEW b \in Unused(m)
  PROVE  LET k == U_calloc(m, n, b)
         IN  /\ ListsHold(k, out) /\ Allocated(k) = Allocated(m)
             /\ \A c \in Allocated(m) : k.size[c] = m.size[c] /\ k.data[c] = m.data[c]
             /\ BytesHold(m) => BytesHold(k)
<1> DEFINE k == U_calloc(m, n, b)
<1>1. m \in MemoryStates /\ out \in SUBSET Blocks
  BY DEF ListsHold
<1>2. /\ m.size \in [Blocks -> Nat] /\ m.data \in [Blocks -> Data \cup {Zeros}]
      /\ m.alloc_list \in [TrackSizes -> SUBSET Blocks]
      /\ m.free_list \in [TrackSizes -> SUBSET Blocks] /\ m.u_mem \in SUBSET Blocks
  BY <1>1, MemoryFields
<1>3. /\ \A c \in m.u_mem \cup out : m.size[c] > 0
      /\ \A c \in Blocks :
           m.size[c] > 0 =>
             c \in m.u_mem \/ c \in out \/ InTrack(m, c, TrackOf(m.size[c]))
      /\ \A u \in TrackSizes :
           /\ m.alloc_list[u] \cap m.free_list[u] = {}
           /\ \A c \in m.alloc_list[u] \cup m.free_list[u] :
                m.size[c] > 0 /\ TrackOf(m.size[c]) = u /\ c \notin m.u_mem /\ c \notin out
  BY DEF ListsHold
<1>4. b \in Blocks /\ m.size[b] = 0
  BY DEF Unused
<1> DEFINE si == [m.size EXCEPT ![b] = n]
           da == [m.data EXCEPT ![b] = Zeros]
<1>5. k = [m EXCEPT !.size = si, !.data = da, !.u_mem = @ \cup {b}]
  BY <1>1 DEF U_calloc, MemoryStates
<1>6. /\ si \in [Blocks -> Nat] /\ da \in [Blocks -> Data \cup {Zeros}]
      /\ si[b] = n /\ \A c \in Blocks \ {b} : si[c] = m.size[c] /\ da[c] = m.data[c]
  BY <1>2, <1>4
<1> HIDE DEF k, si, da
<1>7. /\ k.size = si /\ k.data = da /\ k.u_mem = m.u_mem \cup {b}
      /\ k.alloc_list = m.alloc_list /\ k.free_list = m.free_list
      /\ k.size_allocated = m.size_allocated
  BY <1>1, <1>5 DEF MemoryStates
<1>8. k \in MemoryStates
  BY <1>1, <1>4, <1>5, <1>6 DEF MemoryStates
<1>9. \A u \in TrackSizes : \A c \in m.alloc_list[u] \cup m.free_list[u] :
        c \in Blocks /\ c # b /\ k.size[c] = m.size[c] /\ k.data[c] = m.data[c]
  BY <1>2, <1>3, <1>4, <1>6, <1>7
<1>10. \A c \in k.u_mem \cup out : k.size[c] > 0
  BY <1>1, <1>2, <1>3, <1>6, <1>7
<1>11. ASSUME NEW c \in Blocks, k.size[c] > 0
       PROVE  c \in k.u_mem \/ c \in out \/ InTrack(k, c, TrackOf(k.size[c]))
  <2>1. CASE c = b
    BY <1>7, <2>1
  <2>2. CASE c # b
    BY <1>3, <1>6, <1>7, <1>11, <2>2 DEF InTrack
  <2> QED
    BY <2>1, <2>2
<1>12. \A u \in TrackSizes :
         /\ k.alloc_list[u] \cap k.free_list[u] = {}
         /\ \A c \in k.alloc_list[u] \cup k.free_list[u] :
              k.size[c] > 0 /\ TrackOf(k.size[c]) = u /\ c \notin k.u_mem /\ c \notin out
  BY <1>3, <1>7, <1>9
<1>13. ListsHold(k, out)
  BY <1>1, <1>8, <1>10, <1>11, <1>12 DEF ListsHold
<1>14. Allocated(k) = Allocated(m) /\ \A c \in Allocated(m) : k.size[c] = m.size[c] /\ k.data[c] = m.data[c]
  BY <1>7, <1>9 DEF Allocated
<1>15. ASSUME BytesHold(m) PROVE BytesHold(k)
  <2>1. SUFFICES ASSUME NEW u \in TrackSizes
                 PROVE  k.size_allocated[u] = BytesOf(k, k.alloc_list[u] \cup k.free_list[u])
    BY DEF BytesHold
  <2> DEFINE S == m.alloc_list[u] \cup m.free_list[u]
  <2>2. S \in SUBSET Blocks /\ m.size_allocated[u] = BytesOf(m, S)
        /\ \A c \in S : k.size[c] = m.size[c]
    BY <1>2, <1>9, <1>15 DEF BytesHold
  <2> HIDE DEF S
  <2>3. BytesOf(k, S) = BytesOf(m, S)
    BY <1>2, <1>6, <1>7, <2>2, SameBytes
  <2> QED
    BY <1>7, <2>2, <2>3 DEF S
<1> QED
  BY <1>13, <1>14, <1>15 DEF k

LEMMA LostFacts ==
  ASSUME NEW m, NEW out, ListsHold(m, out), NEW b \in m.u_mem
  PROVE  LET k == U_free(m, b)
         IN  /\ ListsHold(k, out \cup {b}) /\ Allocated(k) = Allocated(m)
             /\ k.size = m.size /\ k.data = m.data
             /\ BytesHold(m) => BytesHold(k)
<1> DEFINE k == U_free(m, b)
<1>1. m \in MemoryStates /\ out \in SUBSET Blocks
  BY DEF ListsHold
<1>2. /\ k.size = m.size /\ k.data = m.data /\ k.u_mem = m.u_mem \ {b}
      /\ k.alloc_list = m.alloc_list /\ k.free_list = m.free_list
      /\ k.size_allocated = m.size_allocated
  BY <1>1 DEF U_free, MemoryStates
<1>3. k \in MemoryStates /\ b \in Blocks
  BY <1>1 DEF U_free, MemoryStates
<1> HIDE DEF k
<1>4. ListsHold(k, out \cup {b})
  <2>1. \A c \in k.u_mem \cup (out \cup {b}) : k.size[c] > 0
    BY <1>2 DEF ListsHold
  <2>2. \A c \in Blocks :
          k.size[c] > 0 =>
            c \in k.u_mem \/ c \in out \cup {b} \/ InTrack(k, c, TrackOf(k.size[c]))
    BY <1>2 DEF ListsHold, InTrack
  <2>3. \A u \in TrackSizes :
          /\ k.alloc_list[u] \cap k.free_list[u] = {}
          /\ \A c \in k.alloc_list[u] \cup k.free_list[u] :
               k.size[c] > 0 /\ TrackOf(k.size[c]) = u /\ c \notin k.u_mem /\ c \notin out \cup {b}
    BY <1>2 DEF ListsHold
  <2> QED
    BY <1>1, <1>3, <2>1, <2>2, <2>3 DEF ListsHold
<1>5. Allocated(k) = Allocated(m)
  BY <1>2 DEF Allocated
<1>6. ASSUME BytesHold(m) PROVE BytesHold(k)
  <2>1. \A S \in SUBSET Blocks : BytesOf(k, S) = BytesOf(m, S)
    BY <1>1, <1>2, MemoryFields, SameBytes
  <2>2. \A u \in TrackSizes : m.alloc_list[u] \cup m.free_list[u] \in SUBSET Blocks
    BY <1>1, MemoryFields
  <2> QED
    BY <1>2, <1>6, <2>1, <2>2 DEF BytesHold
<1> QED
  BY <1>2, <1>4, <1>5, <1>6 DEF k

\* At the end of main the blocks of all tracks are given back.
LEMMA EndedFacts ==
  ASSUME NEW m, NEW out, ListsHold(m, out)
  PROVE  LET k == U_MemoryFree(m)
         IN  ListsHold(k, out) /\ Allocated(k) = {}
<1> DEFINE k == U_MemoryFree(m)
           v == UNION {m.alloc_list[u] \cup m.free_list[u] : u \in TrackSizes}
<1>1. m \in MemoryStates /\ out \in SUBSET Blocks
  BY DEF ListsHold
<1>2. /\ m.size \in [Blocks -> Nat] /\ m.free_time \in [Blocks -> Nat]
      /\ m.data \in [Blocks -> Data \cup {Zeros}] /\ m.u_mem \in SUBSET Blocks
  BY <1>1, MemoryFields
<1> DEFINE si == [b \in Blocks |-> IF b \in v THEN 0 ELSE m.size[b]]
           ft == [b \in Blocks |-> IF b \in v THEN 0 ELSE m.free_time[b]]
           da == [b \in Blocks |-> IF b \in v THEN Zeros ELSE m.data[b]]
           none == [u \in TrackSizes |-> {}]
<1>3. k = [m EXCEPT !.size = si, !.free_time = ft, !.data = da, !.alloc_list = none, !.free_list = none]
  BY <1>1 DEF U_MemoryFree, Released, MemoryStates
<1>4. /\ si \in [Blocks -> Nat] /\ ft \in [Blocks -> Nat] /\ da \in [Blocks -> Data \cup {Zeros}]
      /\ none \in [TrackSizes -> SUBSET Blocks]
  BY <1>2
<1>5. \A b \in Blocks : si[b] = IF b \in v THEN 0 ELSE m.size[b]
  OBVIOUS
<1>6. \A u \in TrackSizes : none[u] = {}
  OBVIOUS
<1> HIDE DEF k, si, ft, da, none
<1>7. /\ k \in MemoryStates /\ k.size = si /\ k.u_mem = m.u_mem
      /\ k.alloc_list = none /\ k.free_list = none
  BY <1>1, <1>3, <1>4 DEF MemoryStates
<1>8. \A c \in m.u_mem \cup out : c \notin v /\ c \in Blocks /\ m.size[c] > 0
  BY <1>1, <1>2 DEF ListsHold
<1>9. \A c \in k.u_mem \cup out : k.size[c] > 0
  BY <1>5, <1>7, <1>8
<1>10. ASSUME NEW c \in Blocks, k.size[c] > 0
       PROVE  c \in k.u_mem \/ c \in out
  <2>1. c \notin v /\ m.size[c] > 0
    BY <1>5, <1>7, <1>10
  <2> QED
    BY <1>7, <2>1 DEF ListsHold, InTrack
<1>11. ListsHold(k, out)
  BY <1>1, <1>6, <1>7, <1>9, <1>10 DEF ListsHold
<1>12. Allocated(k) = {}
  BY <1>6, <1>7 DEF Allocated
<1> QED
  BY <1>11, <1>12 DEF k

LEMMA InitialLists == ListsHold(U_MemoryInit, {}) /\ BytesHold(U_MemoryInit) /\ Allocated(U_MemoryInit) = {}
<1>1. U_MemoryInit \in MemoryStates
  BY DEF U_MemoryInit, MemoryStates
<1>2. ListsHold(U_MemoryInit, {})
  BY <1>1 DEF U_MemoryInit, ListsHold
<1>3. {} \cup {} = {} /\ U_MemoryInit.size \in [Blocks -> Nat]
  BY DEF U_MemoryInit
<1>4. BytesOf(U_MemoryInit, {}) = 0
  BY <1>3, BytesFacts
<1>5. \A u \in TrackSizes : /\ U_MemoryInit.size_allocated[u] = 0
                            /\ U_MemoryInit.alloc_list[u] \cup U_MemoryInit.free_list[u] = {}
  BY DEF U_MemoryInit
<1>6. BytesHold(U_MemoryInit)
  BY <1>4, <1>5 DEF BytesHold
<1>7. Allocated(U_MemoryInit) = {}
  BY DEF U_MemoryInit, Allocated
<1> QED
  BY <1>2, <1>6, <1>7

-----------------------------------------------------------------------------
(* Owners: who points to what.                                             *)

BufferRecord == [buf : Blocks \cup {None}, size : Nat, wrote : Data \cup {Zeros}]
ArenaRecord == [buf : Blocks \cup {None}, size : Nat, total : Nat]

OwnerTypes(bs, ar) ==
  /\ bs \in [Buffers -> BufferRecord] /\ \A o \in Buffers : bs[o].buf = None => bs[o] = NoBuffer
  /\ ar \in [Arenas -> ArenaRecord] /\ \A a \in Arenas : ar[a].buf = None => ar[a] = NoArena

\* The owners bs and ar share no block of memory m and have all that are allocated.
Apart(bs, ar, m) ==
  /\ \A o \in Buffers : bs[o].buf # None => m.size[bs[o].buf] >= bs[o].size
  /\ \A a \in Arenas : ar[a].buf # None => m.size[ar[a].buf] >= ar[a].total
  /\ \A o, p \in Buffers : o # p /\ bs[o].buf # None => bs[o].buf # bs[p].buf
  /\ \A a, c \in Arenas : a # c /\ ar[a].buf # None => ar[a].buf # ar[c].buf
  /\ \A o \in Buffers, a \in Arenas : bs[o].buf # None => bs[o].buf # ar[a].buf
  /\ Allocated(m) = ({bs[o].buf : o \in Buffers} \cup {ar[a].buf : a \in Arenas}) \ {None}

Kept(bs, m) == \A o \in Buffers : bs[o].buf # None => m.data[bs[o].buf] = bs[o].wrote

Owners(bs, ar, m) == OwnerTypes(bs, ar) /\ Apart(bs, ar, m) /\ Kept(bs, m)

\* Memory k is m after an owner has given up its block old for new, which nobody had.
Exchanged(m, k, old, new) ==
  /\ new \notin Allocated(m)
  /\ Allocated(k) = (Allocated(m) \ {old}) \cup ({new} \ {None})
  /\ \A c \in Allocated(m) \ {old} : k.size[c] = m.size[c] /\ k.data[c] = m.data[c]

OwnersInv ==
  /\ ListsHold(mem, lost) /\ (phase = "up" => BytesHold(mem))
  /\ now \in Nat
  /\ Owners(buffers, arenas, mem)

LEMMA AllocatedBlocks ==
  ASSUME NEW m \in MemoryStates
  PROVE  Allocated(m) \in SUBSET Blocks /\ None \notin Allocated(m)
BY MemoryFields, ArenaAssumption DEF Allocated

LEMMA OwnerFacts ==
  ASSUME NEW bs, NEW ar, NEW m, OwnerTypes(bs, ar), Apart(bs, ar, m)
  PROVE  /\ \A o \in Buffers : bs[o].buf # None => bs[o].buf \in Blocks /\ bs[o].buf \in Allocated(m)
         /\ \A a \in Arenas : ar[a].buf # None => ar[a].buf \in Blocks /\ ar[a].buf \in Allocated(m)
<1>1. \A o \in Buffers : bs[o].buf \in Blocks \cup {None}
  BY DEF OwnerTypes, BufferRecord
<1>2. \A a \in Arenas : ar[a].buf \in Blocks \cup {None}
  BY DEF OwnerTypes, ArenaRecord
<1> QED
  BY <1>1, <1>2 DEF Apart

\* A buffer that exchanges its block for one that nobody has.
LEMMA BufferApart ==
  ASSUME NEW bs, NEW ar, NEW m, Owners(bs, ar, m),
         NEW o \in Buffers, NEW r \in BufferRecord, r.buf = None => r = NoBuffer,
         NEW k, Exchanged(m, k, bs[o].buf, r.buf),
         r.buf # None => k.size[r.buf] >= r.size /\ k.data[r.buf] = r.wrote
  PROVE  Owners([bs EXCEPT ![o] = r], ar, k)
<1> DEFINE n == [bs EXCEPT ![o] = r]
<1>0. /\ OwnerTypes(bs, ar) /\ Apart(bs, ar, m) /\ Kept(bs, m)
      /\ r.buf \notin Allocated(m)
      /\ Allocated(k) = (Allocated(m) \ {bs[o].buf}) \cup ({r.buf} \ {None})
      /\ \A c \in Allocated(m) \ {bs[o].buf} : k.size[c] = m.size[c] /\ k.data[c] = m.data[c]
  BY DEF Owners, Exchanged
<1>1. bs \in [Buffers -> BufferRecord] /\ ar \in [Arenas -> ArenaRecord]
  BY <1>0 DEF OwnerTypes
<1>2. n[o] = r /\ \A p \in Buffers \ {o} : n[p] = bs[p]
  BY <1>1
<1>3. OwnerTypes(n, ar)
  <2>1. n \in [Buffers -> BufferRecord]
    BY <1>1
  <2> HIDE DEF n
  <2> QED
    BY <1>0, <1>2, <2>1 DEF OwnerTypes
<1> HIDE DEF n
<1>4. /\ \A p \in Buffers : bs[p].buf # None => bs[p].buf \in Allocated(m)
      /\ \A a \in Arenas : ar[a].buf # None => ar[a].buf \in Allocated(m)
  BY <1>0, OwnerFacts
<1>5. \A p \in Buffers \ {o} : bs[p].buf # None => bs[p].buf # bs[o].buf
  BY <1>0 DEF Apart
<1>6. \A a \in Arenas : ar[a].buf # None => ar[a].buf # bs[o].buf
  BY <1>0 DEF Apart
<1>7. \A p \in Buffers \ {o} : bs[p].buf # None =>
        k.size[bs[p].buf] = m.size[bs[p].buf] /\ k.data[bs[p].buf] = m.data[bs[p].buf]
  BY <1>0, <1>4, <1>5
<1>8. \A a \in Arenas : ar[a].buf # None => k.size[ar[a].buf] = m.size[ar[a].buf]
  BY <1>0, <1>4, <1>6
<1>9. \A p \in Buffers : n[p].buf # None => k.size[n[p].buf] >= n[p].size
  BY <1>0, <1>2, <1>7 DEF Apart
<1>10. \A a \in Arenas : ar[a].buf # None => k.size[ar[a].buf] >= ar[a].total
  BY <1>0, <1>8 DEF Apart
<1>11. ASSUME NEW p \in Buffers, NEW q \in Buffers, p # q, n[p].buf # None
       PROVE  n[p].buf # n[q].buf
  <2>1. CASE p = o
    BY <1>0, <1>2, <1>4, <1>11, <2>1
  <2>2. CASE q = o
    BY <1>0, <1>2, <1>4, <1>11, <2>2
  <2>3. CASE p # o /\ q # o
    <3>1. n[p] = bs[p] /\ n[q] = bs[q]
      BY <1>2, <2>3
    <3> QED
      BY <1>0, <1>11, <3>1 DEF Apart
  <2> QED
    BY <2>1, <2>2, <2>3
<1>12. ASSUME NEW p \in Buffers, NEW a \in Arenas, n[p].buf # None
       PROVE  n[p].buf # ar[a].buf
  <2>1. CASE p = o
    BY <1>0, <1>2, <1>4, <1>12, <2>1
  <2>2. CASE p # o
    <3>1. n[p] = bs[p]
      BY <1>2, <2>2
    <3> QED
      BY <1>0, <1>12, <3>1 DEF Apart
  <2> QED
    BY <2>1, <2>2
<1>13. Allocated(k) = ({n[p].buf : p \in Buffers} \cup {ar[a].buf : a \in Arenas}) \ {None}
  <2>1. Allocated(m) = ({bs[p].buf : p \in Buffers} \cup {ar[a].buf : a \in Arenas}) \ {None}
    BY <1>0 DEF Apart
  <2> DEFINE mine == {n[p].buf : p \in Buffers}
             others == {ar[a].buf : a \in Arenas}
  <2>2. ASSUME NEW c \in Allocated(k) PROVE c \in (mine \cup others) \ {None}
    <3>1. CASE c = r.buf /\ c # None
      BY <1>2, <3>1
    <3>2. CASE c \in Allocated(m) /\ c # bs[o].buf
      <4>1. c # None
        BY <2>1, <3>2
      <4>2. (\E p \in Buffers : c = bs[p].buf) \/ c \in others
        BY <2>1, <3>2
      <4> QED
        BY <1>2, <3>2, <4>1, <4>2
    <3> QED
      BY <1>0, <3>1, <3>2
  <2>3. ASSUME NEW p \in Buffers, n[p].buf # None PROVE n[p].buf \in Allocated(k)
    BY <1>0, <1>2, <1>4, <1>5, <2>3
  <2>4. ASSUME NEW a \in Arenas, ar[a].buf # None PROVE ar[a].buf \in Allocated(k)
    BY <1>0, <1>4, <1>6, <2>4
  <2>5. \A c \in (mine \cup others) \ {None} : c \in Allocated(k)
    BY <2>3, <2>4
  <2> HIDE DEF mine, others
  <2>6. Allocated(k) = (mine \cup others) \ {None}
    BY <2>2, <2>5
  <2> QED
    BY <1>0, <2>6 DEF mine, others
<1>14. Apart(n, ar, k)
  BY <1>0, <1>9, <1>10, <1>11, <1>12, <1>13 DEF Apart
<1>15. Kept(n, k)
  BY <1>0, <1>2, <1>7 DEF Kept
<1> QED
  BY <1>0, <1>3, <1>14, <1>15 DEF n, Owners

\* The same for an arena.
LEMMA ArenaApart ==
  ASSUME NEW bs, NEW ar, NEW m, Owners(bs, ar, m),
         NEW a \in Arenas, NEW r \in ArenaRecord, r.buf = None => r = NoArena,
         NEW k, Exchanged(m, k, ar[a].buf, r.buf),
         r.buf # None => k.size[r.buf] >= r.total
  PROVE  Owners(bs, [ar EXCEPT ![a] = r], k)
<1> DEFINE n == [ar EXCEPT ![a] = r]
<1>0. /\ OwnerTypes(bs, ar) /\ Apart(bs, ar, m) /\ Kept(bs, m)
      /\ r.buf \notin Allocated(m)
      /\ Allocated(k) = (Allocated(m) \ {ar[a].buf}) \cup ({r.buf} \ {None})
      /\ \A c \in Allocated(m) \ {ar[a].buf} : k.size[c] = m.size[c] /\ k.data[c] = m.data[c]
  BY DEF Owners, Exchanged
<1>1. bs \in [Buffers -> BufferRecord] /\ ar \in [Arenas -> ArenaRecord]
  BY <1>0 DEF OwnerTypes
<1>2. n[a] = r /\ \A c \in Arenas \ {a} : n[c] = ar[c]
  BY <1>1
<1>3. OwnerTypes(bs, n)
  <2>1. n \in [Arenas -> ArenaRecord]
    BY <1>1
  <2> HIDE DEF n
  <2> QED
    BY <1>0, <1>2, <2>1 DEF OwnerTypes
<1> HIDE DEF n
<1>4. /\ \A o \in Buffers : bs[o].buf # None => bs[o].buf \in Allocated(m)
      /\ \A c \in Arenas : ar[c].buf # None => ar[c].buf \in Allocated(m)
  BY <1>0, OwnerFacts
<1>5. \A c \in Arenas \ {a} : ar[c].buf # None => ar[c].buf # ar[a].buf
  BY <1>0 DEF Apart
<1>6. \A o \in Buffers : bs[o].buf # None => bs[o].buf # ar[a].buf
  BY <1>0 DEF Apart
<1>7. \A o \in Buffers : bs[o].buf # None =>
        k.size[bs[o].buf] = m.size[bs[o].buf] /\ k.data[bs[o].buf] = m.data[bs[o].buf]
  BY <1>0, <1>4, <1>6
<1>8. \A c \in Arenas \ {a} : ar[c].buf # None => k.size[ar[c].buf] = m.size[ar[c].buf]
  BY <1>0, <1>4, <1>5
<1>9. \A o \in Buffers : bs[o].buf # None => k.size[bs[o].buf] >= bs[o].size
  BY <1>0, <1>7 DEF Apart
<1>10. ASSUME NEW c \in Arenas, n[c].buf # None PROVE k.size[n[c].buf] >= n[c].total
  <2>1. CASE c = a
    BY <1>2, <1>10, <2>1
  <2>2. CASE c # a
    <3>1. n[c] = ar[c]
      BY <1>2, <2>2
    <3>2. k.size[ar[c].buf] = m.size[ar[c].buf]
      BY <1>8, <1>10, <2>2, <3>1
    <3>3. m.size[ar[c].buf] >= ar[c].total
      BY <1>0, <1>10, <3>1 DEF Apart
    <3> QED
      BY <3>1, <3>2, <3>3
  <2> QED
    BY <2>1, <2>2
<1>11. ASSUME NEW c \in Arenas, NEW d \in Arenas, c # d, n[c].buf # None
       PROVE  n[c].buf # n[d].buf
  <2>1. CASE c = a
    BY <1>0, <1>2, <1>4, <1>11, <2>1
  <2>2. CASE d = a
    BY <1>0, <1>2, <1>4, <1>11, <2>2
  <2>3. CASE c # a /\ d # a
    <3>1. n[c] = ar[c] /\ n[d] = ar[d]
      BY <1>2, <2>3
    <3> QED
      BY <1>0, <1>11, <3>1 DEF Apart
  <2> QED
    BY <2>1, <2>2, <2>3
<1>12. ASSUME NEW o \in Buffers, NEW c \in Arenas, bs[o].buf # None
       PROVE  bs[o].buf # n[c].buf
  <2>1. CASE c = a
    BY <1>0, <1>2, <1>4, <1>12, <2>1
  <2>2. CASE c # a
    <3>1. n[c] = ar[c]
      BY <1>2, <2>2
    <3> QED
      BY <1>0, <1>12, <3>1 DEF Apart
  <2> QED
    BY <2>1, <2>2
<1>13. Allocated(k) = ({bs[o].buf : o \in Buffers} \cup {n[c].buf : c \in Arenas}) \ {None}
  <2>1. Allocated(m) = ({bs[o].buf : o \in Buffers} \cup {ar[c].buf : c \in Arenas}) \ {None}
    BY <1>0 DEF Apart
  <2> DEFINE others == {bs[o].buf : o \in Buffers}
             mine == {n[c].buf : c \in Arenas}
  <2>2. ASSUME NEW x \in Allocated(k) PROVE x \in (others \cup mine) \ {None}
    <3>1. CASE x = r.buf /\ x # None
      BY <1>2, <3>1
    <3>2. CASE x \in Allocated(m) /\ x # ar[a].buf
      <4>1. x # None
        BY <2>1, <3>2
      <4>2. (\E c \in Arenas : x = ar[c].buf) \/ x \in others
        BY <2>1, <3>2
      <4> QED
        BY <1>2, <3>2, <4>1, <4>2
    <3> QED
      BY <1>0, <3>1, <3>2
  <2>3. ASSUME NEW c \in Arenas, n[c].buf # None PROVE n[c].buf \in Allocated(k)
    <3>1. CASE c = a
      BY <1>0, <1>2, <2>3, <3>1
    <3>2. CASE c # a
      BY <1>0, <1>2, <1>4, <1>5, <2>3, <3>2
    <3> QED
      BY <3>1, <3>2
  <2>4. ASSUME NEW o \in Buffers, bs[o].buf # None PROVE bs[o].buf \in Allocated(k)
    BY <1>0, <1>4, <1>6, <2>4
  <2>5. \A x \in (others \cup mine) \ {None} : x \in Allocated(k)
    BY <2>3, <2>4
  <2> HIDE DEF mine, others
  <2>6. Allocated(k) = (others \cup mine) \ {None}
    BY <2>2, <2>5
  <2> QED
    BY <1>0, <2>6 DEF mine, others
<1>14. Apart(bs, n, k)
  BY <1>0, <1>9, <1>10, <1>11, <1>12, <1>13 DEF Apart
<1>15. Kept(bs, k)
  BY <1>0, <1>7 DEF Kept
<1> QED
  BY <1>0, <1>3, <1>14, <1>15 DEF n, Owners

\* Memory may change where nobody looks, and an arena's size may.
LEMMA StillApart ==
  ASSUME NEW bs, NEW ar, NEW m, Owners(bs, ar, m), NEW k,
         Allocated(k) = Allocated(m),
         \A c \in Allocated(m) : k.size[c] = m.size[c] /\ k.data[c] = m.data[c],
         NEW n \in [Arenas -> ArenaRecord],
         \A a \in Arenas : n[a].buf = ar[a].buf /\ n[a].total = ar[a].total
                           /\ (n[a].buf = None => n[a] = NoArena)
  PROVE  Owners(bs, n, k)
<1>0. OwnerTypes(bs, ar) /\ Apart(bs, ar, m) /\ Kept(bs, m)
  BY DEF Owners
<1>1. OwnerTypes(bs, n)
  BY <1>0 DEF OwnerTypes
<1>2. /\ \A o \in Buffers : bs[o].buf # None => bs[o].buf \in Allocated(m)
      /\ \A a \in Arenas : ar[a].buf # None => ar[a].buf \in Allocated(m)
  BY <1>0, OwnerFacts
<1>3. Kept(bs, k)
  BY <1>0, <1>2 DEF Kept
<1>4. {n[a].buf : a \in Arenas} = {ar[a].buf : a \in Arenas}
  OBVIOUS
<1>5. \A o \in Buffers : bs[o].buf # None => k.size[bs[o].buf] >= bs[o].size
  BY <1>0, <1>2 DEF Apart
<1>6. \A a \in Arenas : n[a].buf # None => k.size[n[a].buf] >= n[a].total
  BY <1>0, <1>2 DEF Apart
<1>7. /\ \A a, c \in Arenas : a # c /\ n[a].buf # None => n[a].buf # n[c].buf
      /\ \A o \in Buffers, a \in Arenas : bs[o].buf # None => bs[o].buf # n[a].buf
  <2>1. \A a, c \in Arenas : a # c /\ ar[a].buf # None => ar[a].buf # ar[c].buf
    BY <1>0 DEF Apart
  <2>2. \A o \in Buffers, a \in Arenas : bs[o].buf # None => bs[o].buf # ar[a].buf
    BY <1>0 DEF Apart
  <2>3. \A a \in Arenas : n[a].buf = ar[a].buf
    OBVIOUS
  <2>4. \A a, c \in Arenas : a # c /\ n[a].buf # None => n[a].buf # n[c].buf
    BY <2>1, <2>3
  <2>5. \A o \in Buffers, a \in Arenas : bs[o].buf # None => bs[o].buf # n[a].buf
    BY <2>2, <2>3
  <2> QED
    BY <2>4, <2>5
<1>8. Apart(bs, n, k)
  BY <1>0, <1>4, <1>5, <1>6, <1>7 DEF Apart
<1> QED
  BY <1>0, <1>1, <1>3, <1>8 DEF Owners

-----------------------------------------------------------------------------
(* The steps of the owners.                                                *)

LEMMA OwnersInitial == Init => OwnersInv
<1> SUFFICES ASSUME Init PROVE OwnersInv
  OBVIOUS
<1>1. NoBuffer \in BufferRecord /\ NoBuffer.buf = None /\ NoArena \in ArenaRecord /\ NoArena.buf = None
  BY DEF NoBuffer, NoArena, BufferRecord, ArenaRecord
<1>2. /\ ListsHold(mem, lost) /\ BytesHold(mem) /\ Allocated(mem) = {}
  BY InitialLists DEF Init
<1>3. \A o \in Buffers : buffers[o] = NoBuffer
  BY DEF Init
<1>4. \A a \in Arenas : arenas[a] = NoArena
  BY DEF Init
<1>5. OwnerTypes(buffers, arenas)
  BY <1>1, <1>3, <1>4 DEF OwnerTypes, Init
<1>6. ({buffers[o].buf : o \in Buffers} \cup {arenas[a].buf : a \in Arenas}) \ {None} = {}
  BY <1>1, <1>3, <1>4
<1>7. Apart(buffers, arenas, mem)
  BY <1>1, <1>2, <1>3, <1>4, <1>6 DEF Apart
<1>8. Kept(buffers, mem)
  BY <1>1, <1>3 DEF Kept
<1>9. now \in Nat
  BY DEF Init
<1> QED
  BY <1>2, <1>5, <1>7, <1>8, <1>9 DEF OwnersInv, Owners

LEMMA OwnersRefused ==
  ASSUME OwnersInv, NEW n, Refused(n)
  PROVE  OwnersInv'
<1>1. mem' = mem /\ lost' = lost /\ buffers' = buffers /\ arenas' = arenas /\ now' = now
      /\ phase' # "up"
  BY DEF Refused
<1> QED
  BY <1>1 DEF OwnersInv

LEMMA OwnersBufferInit ==
  ASSUME OwnersInv, NEW o \in Buffers, NEW n \in BufferSizes, BufferInit(o, n)
  PROVE  OwnersInv'
<1>1. CASE Refused(n)
  BY <1>1, OwnersRefused
<1>2. ASSUME Servable(n), NEW b \in Candidates(mem, n), mem' = Taken(mem, n, b),
             buffers' = [buffers EXCEPT ![o] = [buf |-> b, size |-> n, wrote |-> Zeros]]
      PROVE  OwnersInv'
  <2>1. /\ buffers[o].buf = None /\ n \in Nat
        /\ lost' = lost /\ now' = now /\ phase' = phase /\ arenas' = arenas
    BY <1>2, ArenaAssumption DEF BufferInit, Refused
  <2>2. /\ ListsHold(mem, lost) /\ (phase = "up" => BytesHold(mem)) /\ now \in Nat
        /\ Owners(buffers, arenas, mem)
    BY DEF OwnersInv
  <2>3. /\ ListsHold(mem', lost)
        /\ b \in Blocks /\ b \notin Allocated(mem) /\ Allocated(mem') = Allocated(mem) \cup {b}
        /\ mem'.size[b] >= n /\ mem'.data[b] = Zeros
        /\ \A c \in Blocks \ {b} : mem'.size[c] = mem.size[c] /\ mem'.data[c] = mem.data[c]
        /\ BytesHold(mem) => BytesHold(mem')
    BY <1>2, <2>1, <2>2, TakenFacts
  <2>4. Allocated(mem) \in SUBSET Blocks /\ None \notin Allocated(mem) /\ None # b
    BY <2>2, <2>3, AllocatedBlocks, ArenaAssumption DEF ListsHold
  <2> DEFINE r == [buf |-> b, size |-> n, wrote |-> Zeros]
  <2>5. r \in BufferRecord /\ r.buf = b /\ r.size = n /\ r.wrote = Zeros
    BY <2>1, <2>3 DEF BufferRecord
  <2>6. buffers' = [buffers EXCEPT ![o] = r]
    BY <1>2
  <2> HIDE DEF r
  <2>7. Exchanged(mem, mem', buffers[o].buf, r.buf)
    BY <2>1, <2>3, <2>4, <2>5 DEF Exchanged
  <2>8. Owners(buffers', arenas, mem')
    BY <2>2, <2>3, <2>4, <2>5, <2>6, <2>7, BufferApart
  <2> QED
    BY <2>1, <2>2, <2>3, <2>8 DEF OwnersInv
<1> QED
  BY <1>1, <1>2 DEF BufferInit

LEMMA OwnersInitArena ==
  ASSUME OwnersInv, NEW a \in Arenas, NEW n \in ArenaSizes, InitArena(a, n)
  PROVE  OwnersInv'
<1>1. CASE Refused(n)
  BY <1>1, OwnersRefused
<1>2. ASSUME Servable(n), NEW b \in Candidates(mem, n), mem' = Taken(mem, n, b),
             arenas' = [arenas EXCEPT ![a] = [buf |-> b, size |-> 0, total |-> n]]
      PROVE  OwnersInv'
  <2>1. /\ arenas[a].buf = None /\ n \in Nat
        /\ lost' = lost /\ now' = now /\ phase' = phase /\ buffers' = buffers
    BY <1>2, ArenaAssumption DEF InitArena, Refused
  <2>2. /\ ListsHold(mem, lost) /\ (phase = "up" => BytesHold(mem)) /\ now \in Nat
        /\ Owners(buffers, arenas, mem)
    BY DEF OwnersInv
  <2>3. /\ ListsHold(mem', lost)
        /\ b \in Blocks /\ b \notin Allocated(mem) /\ Allocated(mem') = Allocated(mem) \cup {b}
        /\ mem'.size[b] >= n
        /\ \A c \in Blocks \ {b} : mem'.size[c] = mem.size[c] /\ mem'.data[c] = mem.data[c]
        /\ BytesHold(mem) => BytesHold(mem')
    BY <1>2, <2>1, <2>2, TakenFacts
  <2>4. Allocated(mem) \in SUBSET Blocks /\ None \notin Allocated(mem) /\ None # b
    BY <2>2, <2>3, AllocatedBlocks, ArenaAssumption DEF ListsHold
  <2> DEFINE r == [buf |-> b, size |-> 0, total |-> n]
  <2>5. r \in ArenaRecord /\ r.buf = b /\ r.total = n
    BY <2>1, <2>3 DEF ArenaRecord
  <2>6. arenas' = [arenas EXCEPT ![a] = r]
    BY <1>2
  <2> HIDE DEF r
  <2>7. Exchanged(mem, mem', arenas[a].buf, r.buf)
    BY <2>1, <2>3, <2>4, <2>5 DEF Exchanged
  <2>8. Owners(buffers, arenas', mem')
    BY <2>2, <2>3, <2>4, <2>5, <2>6, <2>7, ArenaApart
  <2> QED
    BY <2>1, <2>2, <2>3, <2>8 DEF OwnersInv
<1> QED
  BY <1>1, <1>2 DEF InitArena

\* What U_BufferResize copies is what the owner has seen in the buffer.
LEMMA OwnersBufferResize ==
  ASSUME OwnersInv, NEW o \in Buffers, NEW n \in BufferSizes, BufferResize(o, n)
  PROVE  OwnersInv'
<1>1. CASE Refused(n)
  BY <1>1, OwnersRefused
<1>2. ASSUME Servable(n), NEW b \in Candidates(mem, n), mem' = Moved(o, n, b),
             buffers' = [buffers EXCEPT
               ![o] = [buf |-> b, size |-> n, wrote |-> Copied(o, n, @.wrote)]]
      PROVE  OwnersInv'
  <2> DEFINE old == buffers[o].buf
             k1 == Taken(mem, n, b)
             d == Copied(o, n, k1.data[old])
             k2 == [k1 EXCEPT !.data[b] = d]
             k == U_FreeTracked(k2, old, now)
  <2>1. /\ old # None /\ n \in Nat
        /\ lost' = lost /\ now' = now /\ phase' = phase /\ arenas' = arenas
    BY <1>2, ArenaAssumption DEF BufferResize, Refused
  <2>2. /\ ListsHold(mem, lost) /\ (phase = "up" => BytesHold(mem)) /\ now \in Nat
        /\ Owners(buffers, arenas, mem)
    BY DEF OwnersInv
  <2>3. mem' = k
    BY <1>2 DEF Moved
  <2> HIDE DEF k
  <2>4. old \in Allocated(mem) /\ old \in Blocks /\ mem.data[old] = buffers[o].wrote
    BY <2>1, <2>2, OwnerFacts DEF Owners, Kept
  <2>5. buffers[o].wrote \in Data \cup {Zeros}
    BY <2>2 DEF Owners, OwnerTypes, BufferRecord
  <2> HIDE DEF old, k1, d, k2
  <2>6. /\ ListsHold(k1, lost)
        /\ b \in Blocks /\ b \notin Allocated(mem) /\ Allocated(k1) = Allocated(mem) \cup {b}
        /\ k1.size[b] >= n
        /\ \A c \in Blocks \ {b} : k1.size[c] = mem.size[c] /\ k1.data[c] = mem.data[c]
        /\ BytesHold(mem) => BytesHold(k1)
    BY <1>2, <2>1, <2>2, TakenFacts DEF k1
  <2>7. old # b /\ k1.data[old] = buffers[o].wrote
    BY <2>4, <2>6
  <2>8. d = Copied(o, n, buffers[o].wrote) /\ d \in Data \cup {Zeros}
    BY <2>5, <2>7 DEF d, Copied
  <2>9. /\ ListsHold(k2, lost) /\ Allocated(k2) = Allocated(k1) /\ k2.size = k1.size
        /\ k2.data = [k1.data EXCEPT ![b] = d]
        /\ BytesHold(k1) => BytesHold(k2)
    BY <2>6, <2>8, WrittenFacts DEF k2
  <2>10. k1.data \in [Blocks -> Data \cup {Zeros}]
    BY <2>6, MemoryFields DEF ListsHold
  <2>11. k2.data[b] = d /\ \A c \in Blocks \ {b} : k2.data[c] = k1.data[c]
    BY <2>6, <2>9, <2>10
  <2>12. old \in Allocated(k2)
    BY <2>4, <2>6, <2>9
  <2>13. /\ ListsHold(k, lost) /\ Allocated(k) = Allocated(k2) \ {old}
         /\ k.size = k2.size /\ k.data = k2.data
         /\ BytesHold(k2) => BytesHold(k)
    BY <2>2, <2>9, <2>12, FreedFacts DEF k
  <2>14. Allocated(mem) \in SUBSET Blocks /\ None \notin Allocated(mem) /\ None # b
    BY <2>2, <2>6, AllocatedBlocks, ArenaAssumption DEF ListsHold
  <2> DEFINE r == [buf |-> b, size |-> n, wrote |-> d]
  <2>15. r \in BufferRecord /\ r.buf = b /\ r.size = n /\ r.wrote = d
    BY <2>1, <2>6, <2>8 DEF BufferRecord
  <2>16. buffers' = [buffers EXCEPT ![o] = r]
    BY <1>2, <2>8
  <2> HIDE DEF r
  <2>17. Exchanged(mem, k, old, b)
    <3>1. Allocated(k) = (Allocated(mem) \ {old}) \cup ({b} \ {None})
      BY <2>6, <2>7, <2>9, <2>13, <2>14
    <3>2. \A c \in Allocated(mem) \ {old} : k.size[c] = mem.size[c] /\ k.data[c] = mem.data[c]
      BY <2>6, <2>9, <2>11, <2>13, <2>14
    <3> QED
      BY <2>6, <3>1, <3>2 DEF Exchanged
  <2>18. k.size[b] >= n /\ k.data[b] = d
    BY <2>6, <2>9, <2>11, <2>13
  <2>19. Exchanged(mem, k, buffers[o].buf, r.buf)
    BY <2>15, <2>17 DEF old
  <2>20. Owners(buffers', arenas, k)
    BY <2>2, <2>14, <2>15, <2>16, <2>18, <2>19, BufferApart
  <2> QED
    BY <2>1, <2>2, <2>3, <2>6, <2>9, <2>13, <2>20 DEF OwnersInv
<1> QED
  BY <1>1, <1>2 DEF BufferResize

LEMMA OwnersBufferFree ==
  ASSUME OwnersInv, NEW o \in Buffers, BufferFree(o)
  PROVE  OwnersInv'
<1>1. CASE buffers[o].buf = None
  <2>1. mem' = mem /\ lost' = lost /\ buffers' = buffers /\ arenas' = arenas /\ now' = now
        /\ phase' # "up"
    BY <1>1 DEF BufferFree
  <2> QED
    BY <2>1 DEF OwnersInv
<1>2. CASE buffers[o].buf # None
  <2>1. /\ mem' = U_FreeTracked(mem, buffers[o].buf, now)
        /\ buffers' = [buffers EXCEPT ![o] = NoBuffer]
        /\ lost' = lost /\ now' = now /\ phase' = phase /\ arenas' = arenas
    BY <1>2 DEF BufferFree
  <2>2. /\ ListsHold(mem, lost) /\ (phase = "up" => BytesHold(mem)) /\ now \in Nat
        /\ Owners(buffers, arenas, mem)
    BY DEF OwnersInv
  <2>3. buffers[o].buf \in Allocated(mem)
    BY <1>2, <2>2, OwnerFacts DEF Owners
  <2>4. /\ ListsHold(mem', lost) /\ Allocated(mem') = Allocated(mem) \ {buffers[o].buf}
        /\ mem'.size = mem.size /\ mem'.data = mem.data
        /\ BytesHold(mem) => BytesHold(mem')
    BY <2>1, <2>2, <2>3, FreedFacts
  <2>5. NoBuffer \in BufferRecord /\ NoBuffer.buf = None
    BY DEF NoBuffer, BufferRecord
  <2>6. Exchanged(mem, mem', buffers[o].buf, NoBuffer.buf)
    BY <2>2, <2>4, <2>5, AllocatedBlocks DEF Exchanged, ListsHold
  <2>7. Owners(buffers', arenas, mem')
    BY <2>1, <2>2, <2>5, <2>6, BufferApart
  <2> QED
    BY <2>1, <2>2, <2>4, <2>7 DEF OwnersInv
<1> QED
  BY <1>1, <1>2

LEMMA OwnersFreeArena ==
  ASSUME OwnersInv, NEW a \in Arenas, FreeArena(a)
  PROVE  OwnersInv'
<1>1. /\ arenas[a].buf # None
      /\ mem' = U_FreeTracked(mem, arenas[a].buf, now)
      /\ arenas' = [arenas EXCEPT ![a] = NoArena]
      /\ lost' = lost /\ now' = now /\ phase' = phase /\ buffers' = buffers
  BY DEF FreeArena
<1>2. /\ ListsHold(mem, lost) /\ (phase = "up" => BytesHold(mem)) /\ now \in Nat
      /\ Owners(buffers, arenas, mem)
  BY DEF OwnersInv
<1>3. arenas[a].buf \in Allocated(mem)
  BY <1>1, <1>2, OwnerFacts DEF Owners
<1>4. /\ ListsHold(mem', lost) /\ Allocated(mem') = Allocated(mem) \ {arenas[a].buf}
      /\ mem'.size = mem.size /\ mem'.data = mem.data
      /\ BytesHold(mem) => BytesHold(mem')
  BY <1>1, <1>2, <1>3, FreedFacts
<1>5. NoArena \in ArenaRecord /\ NoArena.buf = None
  BY DEF NoArena, ArenaRecord
<1>6. Exchanged(mem, mem', arenas[a].buf, NoArena.buf)
  BY <1>2, <1>4, <1>5, AllocatedBlocks DEF Exchanged, ListsHold
<1>7. Owners(buffers, arenas', mem')
  BY <1>1, <1>2, <1>5, <1>6, ArenaApart
<1> QED
  BY <1>1, <1>2, <1>4, <1>7 DEF OwnersInv

LEMMA OwnersWrite ==
  ASSUME OwnersInv, NEW o \in Buffers, Write(o)
  PROVE  OwnersInv'
<1>1. /\ buffers[o].size > 0
      /\ mem' = [mem EXCEPT !.data[buffers[o].buf] = o]
      /\ buffers' = [buffers EXCEPT ![o].wrote = o]
      /\ lost' = lost /\ now' = now /\ phase' = phase /\ arenas' = arenas
  BY DEF Write
<1>2. /\ ListsHold(mem, lost) /\ (phase = "up" => BytesHold(mem)) /\ now \in Nat
      /\ OwnerTypes(buffers, arenas) /\ Apart(buffers, arenas, mem) /\ Kept(buffers, mem)
  BY DEF OwnersInv, Owners
<1>3. buffers[o].buf # None
  BY <1>1, <1>2 DEF OwnerTypes, NoBuffer
<1>4. /\ \A p \in Buffers : buffers[p].buf # None => buffers[p].buf \in Blocks
  BY <1>2, OwnerFacts
<1>5. buffers[o].buf \in Blocks /\ o \in Data \cup {Zeros}
  BY <1>3, <1>4, ArenaAssumption
<1>6. /\ ListsHold(mem', lost) /\ Allocated(mem') = Allocated(mem) /\ mem'.size = mem.size
      /\ mem'.data = [mem.data EXCEPT ![buffers[o].buf] = o]
      /\ BytesHold(mem) => BytesHold(mem')
  BY <1>1, <1>2, <1>5, WrittenFacts
<1>7. mem.data \in [Blocks -> Data \cup {Zeros}]
  BY <1>2, MemoryFields DEF ListsHold
<1>8. /\ mem'.data[buffers[o].buf] = o
      /\ \A c \in Blocks : c # buffers[o].buf => mem'.data[c] = mem.data[c]
  BY <1>5, <1>6, <1>7
<1>9. buffers \in [Buffers -> BufferRecord]
  BY <1>2 DEF OwnerTypes
<1>10. /\ buffers'[o].buf = buffers[o].buf /\ buffers'[o].size = buffers[o].size
       /\ buffers'[o].wrote = o /\ buffers'[o] \in BufferRecord
       /\ \A p \in Buffers : p # o => buffers'[p] = buffers[p]
  BY <1>1, <1>5, <1>9 DEF BufferRecord
<1>11. OwnerTypes(buffers', arenas)
  <2>1. buffers' \in [Buffers -> BufferRecord]
    BY <1>1, <1>9, <1>10
  <2> QED
    BY <1>2, <1>3, <1>10, <2>1 DEF OwnerTypes
<1>12. \A p \in Buffers : buffers'[p].buf = buffers[p].buf /\ buffers'[p].size = buffers[p].size
  BY <1>10
<1>13. Apart(buffers', arenas, mem')
  <2>1. {buffers'[p].buf : p \in Buffers} = {buffers[p].buf : p \in Buffers}
    BY <1>12
  <2>2. /\ \A p \in Buffers : buffers'[p].buf # None => mem'.size[buffers'[p].buf] >= buffers'[p].size
        /\ \A p, q \in Buffers : p # q /\ buffers'[p].buf # None => buffers'[p].buf # buffers'[q].buf
        /\ \A p \in Buffers, a \in Arenas : buffers'[p].buf # None => buffers'[p].buf # arenas[a].buf
    BY <1>2, <1>6, <1>12 DEF Apart
  <2> QED
    BY <1>2, <1>6, <2>1, <2>2 DEF Apart
<1>14. Kept(buffers', mem')
  <2>1. ASSUME NEW p \in Buffers, buffers'[p].buf # None
        PROVE  mem'.data[buffers'[p].buf] = buffers'[p].wrote
    <3>1. CASE p = o
      BY <1>8, <1>10, <3>1
    <3>2. CASE p # o
      <4>1. buffers'[p] = buffers[p] /\ buffers[p].buf # None
        BY <1>10, <2>1, <3>2
      <4>2. buffers[p].buf # buffers[o].buf
        BY <1>2, <1>3, <3>2 DEF Apart
      <4>3. mem.data[buffers[p].buf] = buffers[p].wrote
        BY <1>2, <4>1 DEF Kept
      <4> QED
        BY <1>4, <1>8, <4>1, <4>2, <4>3
    <3> QED
      BY <3>1, <3>2
  <2> QED
    BY <2>1 DEF Kept
<1> QED
  BY <1>1, <1>2, <1>6, <1>11, <1>13, <1>14 DEF OwnersInv, Owners

LEMMA AlignedFacts ==
  ASSUME NEW pos \in Nat, NEW align \in Nat \ {0}
  PROVE  LET q == Aligned(pos, align)
         IN  q \in Nat /\ q >= pos /\ q % align = 0
<1> DEFINE d == (pos + align - 1) \div align
<1>1. d \in Nat
  OBVIOUS
<1>2. d * align >= pos /\ d * align \in Nat
  OBVIOUS
<1>3. (d * align) % align = 0
  <2> HIDE DEF d
  <2>1. \A x \in Nat, a \in Nat \ {0} : (x * a) % a = 0
    OBVIOUS
  <2> QED
    BY <1>1, <2>1
<1> QED
  BY <1>2, <1>3 DEF Aligned

\* The size of an arena is no matter of the blocks.
LEMMA OwnersSized ==
  ASSUME OwnersInv, mem' = mem, lost' = lost, buffers' = buffers, now' \in Nat,
         phase' = "up" => phase = "up",
         NEW a \in Arenas, NEW n \in Nat, arenas[a].buf = None => n = 0,
         arenas' = arenas \/ arenas' = [arenas EXCEPT ![a].size = n]
  PROVE  OwnersInv'
<1>1. /\ ListsHold(mem, lost) /\ (phase = "up" => BytesHold(mem))
      /\ Owners(buffers, arenas, mem)
  BY DEF OwnersInv
<1>2. CASE arenas' = arenas
  BY <1>1, <1>2 DEF OwnersInv
<1>3. CASE arenas' = [arenas EXCEPT ![a].size = n]
  <2>1. arenas \in [Arenas -> ArenaRecord] /\ \A c \in Arenas : arenas[c].buf = None => arenas[c] = NoArena
    BY <1>1 DEF Owners, OwnerTypes
  <2>2. arenas' \in [Arenas -> ArenaRecord]
    BY <1>3, <2>1 DEF ArenaRecord
  <2>3. ASSUME NEW c \in Arenas
        PROVE  /\ arenas'[c].buf = arenas[c].buf /\ arenas'[c].total = arenas[c].total
               /\ arenas'[c].buf = None => arenas'[c] = NoArena
    <3>1. CASE c # a
      BY <1>3, <2>1, <3>1
    <3>2. CASE c = a
      <4>1. arenas'[c] = [arenas[c] EXCEPT !.size = n]
        BY <1>3, <2>1, <3>2
      <4>2. arenas'[c].buf = arenas[c].buf /\ arenas'[c].total = arenas[c].total
        BY <2>1, <4>1 DEF ArenaRecord
      <4>3. arenas[c].buf = None => arenas'[c] = NoArena
        BY <2>1, <3>2, <4>1 DEF NoArena
      <4> QED
        BY <4>2, <4>3
    <3> QED
      BY <3>1, <3>2
  <2>4. Owners(buffers, arenas', mem)
    BY <1>1, <2>2, <2>3, StillApart
  <2> QED
    BY <1>1, <2>4 DEF OwnersInv
<1> QED
  BY <1>2, <1>3

LEMMA LastInSeq ==
  ASSUME NEW S, NEW q \in Seq(S), q # << >>
  PROVE  Len(q) \in Nat \ {0} /\ q[Len(q)] \in S
<1>1. Len(q) \in Nat /\ q \in [1 .. Len(q) -> S] /\ Len(q) # 0
  BY EmptySeq, LenProperties
<1> QED
  BY <1>1

LEMMA OwnersArenaUsed ==
  ASSUME OwnersInv,
         \/ \E a \in Arenas, n \in PieceSizes, align \in Alignments : AllocArena(a, n, align)
         \/ Enter \/ Leave \/ LeaveAsIs \/ ScratchReset \/ Tick \/ UNCHANGED vars,
         frames \in Seq([pos : Nat, held : Nat]),
         arenas[Scratch].buf = None => frames = << >>
  PROVE  OwnersInv'
<1>1. now \in Nat /\ arenas \in [Arenas -> ArenaRecord] /\ Scratch \in Arenas
      /\ arenas[Scratch].size \in Nat
  BY ArenaAssumption DEF OwnersInv, Owners, OwnerTypes, ArenaRecord
<1>2. ASSUME NEW a \in Arenas, NEW n \in PieceSizes, NEW align \in Alignments, AllocArena(a, n, align)
      PROVE  OwnersInv'
  <2>1. arenas[a].buf # None /\ EndOf(a, n, align) \in Nat
    <3>1. arenas[a].size \in Nat
      BY <1>1 DEF ArenaRecord
    <3>2. n \in Nat /\ align \in Nat \ {0}
      BY ArenaAssumption
    <3>3. Aligned(arenas[a].size, align) \in Nat
      BY <3>1, <3>2, AlignedFacts
    <3> QED
      BY <1>2, <3>2, <3>3 DEF AllocArena, EndOf
  <2>2. /\ mem' = mem /\ lost' = lost /\ buffers' = buffers /\ now' = now /\ (phase' = "up" => phase = "up")
        /\ arenas' = arenas \/ arenas' = [arenas EXCEPT ![a].size = EndOf(a, n, align)]
    BY <1>2 DEF AllocArena
  <2> QED
    BY <1>1, <2>1, <2>2, OwnersSized
<1>3. CASE Leave
  <2> DEFINE pos == U_ScratchRestore(frames[Len(frames)].pos)
  <2>1. /\ mem' = mem /\ lost' = lost /\ buffers' = buffers /\ now' = now /\ phase' = phase
        /\ arenas' = [arenas EXCEPT ![Scratch].size = pos]
        /\ frames # << >>
    BY <1>3 DEF Leave
  <2>2. frames[Len(frames)] \in [pos : Nat, held : Nat]
    BY <2>1, LastInSeq
  <2>3. pos \in Nat
    BY <1>1, <2>2 DEF U_ScratchRestore
  <2> HIDE DEF pos
  <2> QED
    BY <1>1, <2>1, <2>3, OwnersSized
<1>4. CASE ScratchReset
  BY <1>1, <1>4, OwnersSized DEF ScratchReset
<1>5. CASE Enter \/ LeaveAsIs \/ Tick \/ UNCHANGED vars
  <2>1. /\ mem' = mem /\ lost' = lost /\ buffers' = buffers /\ now' \in Nat /\ phase' = phase
        /\ arenas' = arenas
    BY <1>1, <1>5 DEF Enter, LeaveAsIs, Tick, vars
  <2> QED
    BY <2>1 DEF OwnersInv
<1> QED
  BY <1>2, <1>3, <1>4, <1>5

LEMMA OwnersMemory ==
  ASSUME OwnersInv,
         GarbageCollect \/ (\E n \in ArenaSizes : Calloc(n)) \/ Free \/ MemoryFree
  PROVE  OwnersInv'
<1>1. /\ ListsHold(mem, lost) /\ (phase = "up" => BytesHold(mem)) /\ now \in Nat
      /\ Owners(buffers, arenas, mem)
  BY DEF OwnersInv
<1>2. buffers' = buffers /\ arenas' = arenas /\ now' = now /\ phase = "up"
  BY DEF GarbageCollect, Calloc, Free, MemoryFree
<1>3. \A a \in Arenas : arenas[a].buf = None => arenas[a] = NoArena
  BY <1>1 DEF Owners, OwnerTypes
<1>4. arenas \in [Arenas -> ArenaRecord]
  BY <1>1 DEF Owners, OwnerTypes
<1>5. ASSUME Allocated(mem') = Allocated(mem),
             \A c \in Allocated(mem) : mem'.size[c] = mem.size[c] /\ mem'.data[c] = mem.data[c]
      PROVE  Owners(buffers, arenas, mem')
  BY <1>1, <1>3, <1>4, <1>5, StillApart
<1>6. CASE GarbageCollect
  <2>1. PICK v \in Victims(mem, now) : mem' = Collected(mem, v)
    BY <1>6 DEF GarbageCollect
  <2>2. /\ ListsHold(mem', lost) /\ BytesHold(mem') /\ Allocated(mem') = Allocated(mem)
        /\ \A c \in Allocated(mem) : mem'.size[c] = mem.size[c] /\ mem'.data[c] = mem.data[c]
    BY <1>1, <1>2, <2>1, CollectedFacts
  <2>3. lost' = lost
    BY <1>6 DEF GarbageCollect
  <2> QED
    BY <1>1, <1>2, <1>5, <2>2, <2>3 DEF OwnersInv
<1>7. ASSUME NEW n \in ArenaSizes, Calloc(n) PROVE OwnersInv'
  <2>1. PICK b \in Unused(mem) : mem' = U_calloc(mem, n, b)
    BY <1>7 DEF Calloc
  <2>2. n \in Nat \ {0} /\ lost' = lost
    BY <1>7, ArenaAssumption DEF Calloc
  <2>3. /\ ListsHold(mem', lost) /\ Allocated(mem') = Allocated(mem)
        /\ \A c \in Allocated(mem) : mem'.size[c] = mem.size[c] /\ mem'.data[c] = mem.data[c]
        /\ BytesHold(mem) => BytesHold(mem')
    BY <1>1, <2>1, <2>2, CallocFacts
  <2> QED
    BY <1>1, <1>2, <1>5, <2>2, <2>3 DEF OwnersInv
<1>8. CASE Free
  <2>1. PICK b \in mem.u_mem : mem' = U_free(mem, b) /\ lost' = lost \cup {b}
    BY <1>8 DEF Free
  <2>2. /\ ListsHold(mem', lost') /\ Allocated(mem') = Allocated(mem)
        /\ mem'.size = mem.size /\ mem'.data = mem.data
        /\ BytesHold(mem) => BytesHold(mem')
    BY <1>1, <2>1, LostFacts
  <2> QED
    BY <1>1, <1>2, <1>5, <2>2 DEF OwnersInv
<1>9. CASE MemoryFree
  <2>1. /\ mem' = U_MemoryFree(mem) /\ lost' = lost /\ phase' # "up"
        /\ \A a \in Arenas : arenas[a].buf = None
        /\ \A o \in Buffers : buffers[o].buf = None
    BY <1>9 DEF MemoryFree
  <2>2. ListsHold(mem', lost) /\ Allocated(mem') = {}
    BY <1>1, <2>1, EndedFacts
  <2>3. Allocated(mem) = {}
    BY <1>1, <2>1 DEF Owners, Apart
  <2>4. Owners(buffers, arenas, mem')
    BY <1>5, <2>2, <2>3
  <2> QED
    BY <1>1, <1>2, <2>1, <2>2, <2>4 DEF OwnersInv
<1> QED
  BY <1>6, <1>7, <1>8, <1>9

-----------------------------------------------------------------------------
(* Arenas: the pieces their users hold.                                    *)

Piece == [from : Nat, to : Nat, align : Nat \ {0}]

Frame == [pos : Nat, held : Nat]

UserTypes ==
  /\ pieces \in [Arenas -> Seq(Piece)] /\ frames \in Seq(Frame)
  /\ \A a \in Arenas : arenas[a].buf = None => pieces[a] = << >>
  /\ arenas[Scratch].buf = None => frames = << >>

\* The pieces of an arena lie one after the other, below its size.
Laid(ps, size) ==
  /\ \A i \in DOMAIN ps : /\ ps[i].from % ps[i].align = 0
                          /\ ps[i].from <= ps[i].to /\ ps[i].to <= size
  /\ \A i, j \in DOMAIN ps : i < j => ps[i].to <= ps[j].from

\* A function that returns takes away only what was allocated since it was called,
\* and leaves the position to which its callers return at or above their own.
Nested(fs, ps, size) ==
  /\ \A k \in DOMAIN fs :
       /\ fs[k].held <= Len(ps) /\ fs[k].pos <= size
       /\ \A i \in 1 .. fs[k].held : ps[i].to <= fs[k].pos
  /\ \A k, l \in DOMAIN fs :
       k < l => fs[k].held <= fs[l].held /\ fs[k].pos <= fs[l].pos

PiecesInv ==
  /\ UserTypes
  /\ \A a \in Arenas : Laid(pieces[a], arenas[a].size) /\ arenas[a].size <= arenas[a].total
  /\ Nested(frames, pieces[Scratch], arenas[Scratch].size)

LEMMA NothingLaid == \A size : Laid(<< >>, size) /\ \A ps : Nested(<< >>, ps, size)
<1>1. DOMAIN << >> = {}
  OBVIOUS
<1> QED
  BY <1>1 DEF Laid, Nested

LEMMA PiecesInitial == Init => PiecesInv
<1> SUFFICES ASSUME Init PROVE PiecesInv
  OBVIOUS
<1>1. << >> \in Seq(Piece) /\ << >> \in Seq(Frame)
  OBVIOUS
<1>2. UserTypes
  BY <1>1 DEF Init, UserTypes
<1>3. \A a \in Arenas : arenas[a].size = 0 /\ arenas[a].total = 0
  BY DEF Init, NoArena
<1>4. frames = << >> /\ \A a \in Arenas : pieces[a] = << >>
  BY DEF Init
<1>5. Nested(frames, pieces[Scratch], arenas[Scratch].size)
  BY <1>4, NothingLaid
<1>6. \A a \in Arenas : Laid(pieces[a], arenas[a].size) /\ arenas[a].size <= arenas[a].total
  BY <1>3, <1>4, NothingLaid
<1> QED
  BY <1>2, <1>5, <1>6 DEF PiecesInv

\* What is allocated behind the pieces of an arena is apart from them.
LEMMA LaidAppend ==
  ASSUME NEW ps \in Seq(Piece), NEW size \in Nat, Laid(ps, size), NEW n \in Nat,
         NEW align \in Nat \ {0}
  PROVE  LET from == Aligned(size, align)
             q == Append(ps, [from |-> from, to |-> from + n, align |-> align])
         IN  q \in Seq(Piece) /\ Laid(q, from + n) /\ Len(q) = Len(ps) + 1
             /\ \A i \in 1 .. Len(ps) : q[i] = ps[i]
<1> DEFINE from == Aligned(size, align)
           e == [from |-> from, to |-> from + n, align |-> align]
           q == Append(ps, e)
<1>1. from \in Nat /\ from >= size /\ from % align = 0
  BY AlignedFacts
<1> HIDE DEF from
<1>2. e \in Piece /\ e.from = from /\ e.to = from + n /\ e.align = align
  BY <1>1 DEF Piece
<1> HIDE DEF e
<1>3. /\ q \in Seq(Piece) /\ Len(q) = Len(ps) + 1 /\ DOMAIN q = 1 .. Len(ps) + 1
      /\ DOMAIN ps = 1 .. Len(ps) /\ Len(ps) \in Nat
      /\ \A i \in 1 .. Len(ps) : q[i] = ps[i]
      /\ q[Len(ps) + 1] = e
  BY <1>2
<1> HIDE DEF q
<1>4. \A i \in 1 .. Len(ps) : /\ ps[i].from \in Nat /\ ps[i].to \in Nat
                              /\ ps[i].from % ps[i].align = 0
                              /\ ps[i].from <= ps[i].to /\ ps[i].to <= size
  <2>1. ASSUME NEW i \in 1 .. Len(ps) PROVE ps[i].from \in Nat /\ ps[i].to \in Nat
    <3>1. ps[i] \in Piece
      BY <1>3
    <3> QED
      BY <3>1 DEF Piece
  <2> QED
    BY <1>3, <2>1 DEF Laid
<1>5. \A i \in DOMAIN q : i \in 1 .. Len(ps) \/ i = Len(ps) + 1
  BY <1>3
<1>6. \A i \in DOMAIN q : /\ q[i].from % q[i].align = 0
                          /\ q[i].from <= q[i].to /\ q[i].to <= from + n
  <2>1. ASSUME NEW i \in 1 .. Len(ps)
        PROVE  q[i] = ps[i] /\ q[i].to <= from + n
    BY <1>1, <1>3, <1>4
  <2>2. e.from <= e.to /\ e.to <= from + n /\ e.from % e.align = 0
    BY <1>1, <1>2
  <2> QED
    BY <1>3, <1>4, <1>5, <2>1, <2>2
<1>7. ASSUME NEW i \in DOMAIN q, NEW j \in DOMAIN q, i < j PROVE q[i].to <= q[j].from
  <2>1. i \in 1 .. Len(ps)
    BY <1>3, <1>5, <1>7
  <2>2. CASE j \in 1 .. Len(ps)
    BY <1>3, <1>7, <2>1, <2>2 DEF Laid
  <2>3. CASE j = Len(ps) + 1
    BY <1>1, <1>2, <1>3, <1>4, <2>1, <2>3
  <2> QED
    BY <1>5, <2>2, <2>3
<1>8. Laid(q, from + n)
  BY <1>6, <1>7 DEF Laid
<1> QED
  BY <1>3, <1>8 DEF q, e, from

\* Giving back what is behind a position leaves the pieces below it.
LEMMA LaidCut ==
  ASSUME NEW ps \in Seq(Piece), NEW size \in Nat, Laid(ps, size), NEW n \in 0 .. Len(ps),
         NEW pos \in Nat, \A i \in 1 .. n : ps[i].to <= pos
  PROVE  LET q == SubSeq(ps, 1, n)
         IN  q \in Seq(Piece) /\ Laid(q, pos) /\ Len(q) = n /\ \A i \in 1 .. n : q[i] = ps[i]
<1> DEFINE q == SubSeq(ps, 1, n)
<1>1. q \in Seq(Piece) /\ Len(q) = n /\ DOMAIN q = 1 .. n /\ \A i \in 1 .. n : q[i] = ps[i]
  OBVIOUS
<1>2. \A i \in 1 .. n : i \in DOMAIN ps
  OBVIOUS
<1> HIDE DEF q
<1>3. Laid(q, pos)
  BY <1>1, <1>2 DEF Laid
<1> QED
  BY <1>1, <1>3 DEF q

\* A function enters at the position and the number of pieces of the moment.
LEMMA NestedEnter ==
  ASSUME NEW fs \in Seq(Frame), NEW ps \in Seq(Piece), NEW size \in Nat,
         Laid(ps, size), Nested(fs, ps, size)
  PROVE  LET q == Append(fs, [pos |-> size, held |-> Len(ps)])
         IN  q \in Seq(Frame) /\ Nested(q, ps, size)
<1> DEFINE e == [pos |-> size, held |-> Len(ps)]
           q == Append(fs, e)
<1>1. e \in Frame /\ e.pos = size /\ e.held = Len(ps) /\ Len(ps) \in Nat
  BY DEF Frame
<1> HIDE DEF e
<1>2. /\ q \in Seq(Frame) /\ Len(fs) \in Nat /\ DOMAIN fs = 1 .. Len(fs)
      /\ DOMAIN q = 1 .. Len(fs) + 1 /\ q[Len(fs) + 1] = e
      /\ \A k \in 1 .. Len(fs) : q[k] = fs[k]
  BY <1>1
<1> HIDE DEF q
<1>3. \A i \in 1 .. Len(ps) : ps[i].to <= size
  BY DEF Laid
<1>4. ASSUME NEW k \in DOMAIN q
      PROVE  /\ q[k].held <= Len(ps) /\ q[k].pos <= size
             /\ \A i \in 1 .. q[k].held : ps[i].to <= q[k].pos
  <2>1. CASE k = Len(fs) + 1
    BY <1>1, <1>2, <1>3, <2>1
  <2>2. CASE k # Len(fs) + 1
    <3>1. k \in DOMAIN fs /\ q[k] = fs[k]
      BY <1>2, <2>2
    <3> QED
      BY <3>1 DEF Nested
  <2> QED
    BY <2>1, <2>2
<1>5. ASSUME NEW k \in DOMAIN q, NEW l \in DOMAIN q, k < l
      PROVE  q[k].held <= q[l].held /\ q[k].pos <= q[l].pos
  <2>1. k \in DOMAIN fs /\ q[k] = fs[k]
    BY <1>2, <1>5
  <2>2. CASE l = Len(fs) + 1
    BY <1>1, <1>2, <2>1, <2>2 DEF Nested
  <2>3. CASE l # Len(fs) + 1
    <3>1. l \in DOMAIN fs /\ q[l] = fs[l]
      BY <1>2, <2>3
    <3> QED
      BY <1>5, <2>1, <3>1 DEF Nested
  <2> QED
    BY <2>2, <2>3
<1>6. Nested(q, ps, size)
  BY <1>4, <1>5 DEF Nested
<1> QED
  BY <1>2, <1>6 DEF q, e

\* What the innermost function takes away its callers never had.
LEMMA NestedLeave ==
  ASSUME NEW fs \in Seq(Frame), fs # << >>, NEW ps \in Seq(Piece), NEW size \in Nat,
         Nested(fs, ps, size)
  PROVE  LET q == SubSeq(fs, 1, Len(fs) - 1)
             f == fs[Len(fs)]
         IN  /\ q \in Seq(Frame) /\ Nested(q, ps, size)
             /\ Nested(q, SubSeq(ps, 1, f.held), f.pos)
             /\ f \in Frame /\ f.held \in 0 .. Len(ps) /\ f.pos <= size
             /\ \A i \in 1 .. f.held : ps[i].to <= f.pos
<1> DEFINE q == SubSeq(fs, 1, Len(fs) - 1)
           f == fs[Len(fs)]
           cut == SubSeq(ps, 1, f.held)
<1>1. Len(fs) \in Nat \ {0} /\ DOMAIN fs = 1 .. Len(fs) /\ f \in Frame
  BY LastInSeq
<1>2. Len(fs) \in DOMAIN fs
  BY <1>1
<1> HIDE DEF f
<1>3. f = fs[Len(fs)]
  BY DEF f
<1>4. f.held \in Nat /\ f.pos \in Nat /\ Len(ps) \in Nat
  BY <1>1 DEF Frame
<1>5. /\ f.held <= Len(ps) /\ f.pos <= size
      /\ \A i \in 1 .. f.held : ps[i].to <= f.pos
  BY <1>2, <1>3 DEF Nested
<1>6. /\ q \in Seq(Frame) /\ DOMAIN q = 1 .. Len(fs) - 1
      /\ \A k \in 1 .. Len(fs) - 1 : q[k] = fs[k]
  BY <1>1
<1>7. Len(cut) = f.held /\ \A i \in 1 .. f.held : cut[i] = ps[i]
  BY <1>4, <1>5
<1> HIDE DEF q, cut
<1>8. \A k \in DOMAIN q : k \in DOMAIN fs /\ q[k] = fs[k] /\ k < Len(fs)
  BY <1>1, <1>6
<1>9. \A k \in DOMAIN q : q[k].held <= f.held /\ q[k].pos <= f.pos
  BY <1>2, <1>3, <1>8 DEF Nested
<1>10. \A k \in DOMAIN q : q[k].held \in Nat /\ q[k].pos \in Nat
  <2>1. \A k \in DOMAIN q : q[k] \in Frame
    BY <1>6
  <2> QED
    BY <2>1 DEF Frame
<1>11. Nested(q, ps, size)
  BY <1>8 DEF Nested
<1>12. ASSUME NEW k \in DOMAIN q, NEW i \in 1 .. q[k].held PROVE cut[i].to <= q[k].pos
  <2>1. i \in 1 .. f.held
    BY <1>4, <1>9, <1>10
  <2>2. ps[i].to <= q[k].pos
    BY <1>8 DEF Nested
  <2> QED
    BY <1>7, <2>1, <2>2
<1>13. \A k, l \in DOMAIN q : k < l => q[k].held <= q[l].held /\ q[k].pos <= q[l].pos
  BY <1>8 DEF Nested
<1>14. Nested(q, cut, f.pos)
  BY <1>7, <1>9, <1>12, <1>13 DEF Nested
<1> QED
  BY <1>1, <1>4, <1>5, <1>6, <1>11, <1>14 DEF q, cut, f

\* Pieces behind those of the callers do not matter to them.
LEMMA NestedGrow ==
  ASSUME NEW fs \in Seq(Frame), NEW ps \in Seq(Piece), NEW size \in Nat,
         Nested(fs, ps, size), NEW q, Len(q) \in Nat, Len(q) >= Len(ps),
         \A i \in 1 .. Len(ps) : q[i] = ps[i], NEW n \in Nat, n >= size
  PROVE  Nested(fs, q, n)
<1>1. \A k \in DOMAIN fs : fs[k].held \in Nat /\ fs[k].pos \in Nat
  <2>1. \A k \in DOMAIN fs : fs[k] \in Frame
    OBVIOUS
  <2> QED
    BY <2>1 DEF Frame
<1>2. Len(ps) \in Nat
  OBVIOUS
<1>3. ASSUME NEW k \in DOMAIN fs
      PROVE  fs[k].held <= Len(q) /\ fs[k].pos <= n
             /\ \A i \in 1 .. fs[k].held : q[i].to <= fs[k].pos
  <2>1. fs[k].held <= Len(ps) /\ fs[k].pos <= size
        /\ \A i \in 1 .. fs[k].held : ps[i].to <= fs[k].pos
    BY DEF Nested
  <2>2. \A i \in 1 .. fs[k].held : i \in 1 .. Len(ps)
    BY <1>1, <1>2, <2>1
  <2>3. \A i \in 1 .. fs[k].held : q[i].to <= fs[k].pos
    BY <2>1, <2>2
  <2>4. fs[k].held <= Len(q) /\ fs[k].pos <= n
    BY <1>1, <1>2, <2>1
  <2> QED
    BY <2>3, <2>4
<1>4. \A k, l \in DOMAIN fs : k < l => fs[k].held <= fs[l].held /\ fs[k].pos <= fs[l].pos
  BY DEF Nested
<1> QED
  BY <1>3, <1>4 DEF Nested

LEMMA PiecesAllocArena ==
  ASSUME OwnersInv, PiecesInv, NEW a \in Arenas, NEW n \in PieceSizes, NEW align \in Alignments,
         AllocArena(a, n, align)
  PROVE  PiecesInv'
<1>1. /\ arenas \in [Arenas -> ArenaRecord] /\ pieces \in [Arenas -> Seq(Piece)]
      /\ frames \in Seq(Frame) /\ Scratch \in Arenas
      /\ n \in Nat /\ align \in Nat \ {0}
  BY ArenaAssumption DEF OwnersInv, Owners, OwnerTypes, PiecesInv, UserTypes
<1>2. arenas[a].size \in Nat /\ arenas[a].total \in Nat /\ Laid(pieces[a], arenas[a].size)
      /\ pieces[a] \in Seq(Piece)
  BY <1>1 DEF ArenaRecord, PiecesInv
<1> DEFINE from == Aligned(arenas[a].size, align)
           e == [from |-> from, to |-> from + n, align |-> align]
           q == Append(pieces[a], e)
<1>3. /\ from \in Nat /\ from >= arenas[a].size
  BY <1>1, <1>2, AlignedFacts
<1>4. /\ q \in Seq(Piece) /\ Laid(q, from + n) /\ Len(q) = Len(pieces[a]) + 1
      /\ \A i \in 1 .. Len(pieces[a]) : q[i] = pieces[a][i]
  <2> DEFINE ps == pieces[a]
             size == arenas[a].size
             fr == Aligned(size, align)
             qs == Append(ps, [from |-> fr, to |-> fr + n, align |-> align])
  <2>1. ps \in Seq(Piece) /\ size \in Nat /\ Laid(ps, size)
    BY <1>2
  <2> HIDE DEF ps, size
  <2>2. /\ qs \in Seq(Piece) /\ Laid(qs, fr + n) /\ Len(qs) = Len(ps) + 1
        /\ \A i \in 1 .. Len(ps) : qs[i] = ps[i]
    BY ZenonT(30), <1>1, <2>1, LaidAppend
  <2> QED
    BY <2>2 DEF ps, size
<1>5. CASE arenas' = arenas /\ pieces' = pieces
  BY <1>5 DEF AllocArena, PiecesInv, UserTypes
<1>6. CASE /\ arenas[a].total - from > n
           /\ arenas' = [arenas EXCEPT ![a].size = from + n]
           /\ pieces' = [pieces EXCEPT ![a] = q]
  <2> HIDE DEF from, q
  <2>1. arenas[a].buf # None /\ frames' = frames
    BY DEF AllocArena
  <2>2. /\ pieces' \in [Arenas -> Seq(Piece)] /\ pieces'[a] = q
        /\ \A c \in Arenas \ {a} : pieces'[c] = pieces[c] /\ arenas'[c] = arenas[c]
    BY <1>1, <1>4, <1>6
  <2>3. arenas'[a].size = from + n /\ arenas'[a].total = arenas[a].total
        /\ arenas'[a].buf = arenas[a].buf
    BY <1>1, <1>6 DEF ArenaRecord
  <2>4. UserTypes'
    <3>1. \A c \in Arenas : arenas'[c].buf = None => c # a /\ arenas[c].buf = None
      BY <2>1, <2>2, <2>3
    <3> QED
      BY <1>1, <2>1, <2>2, <3>1 DEF PiecesInv, UserTypes
  <2>5. ASSUME NEW c \in Arenas
        PROVE  Laid(pieces'[c], arenas'[c].size) /\ arenas'[c].size <= arenas'[c].total
    <3>1. CASE c = a
      <4>1. from + n <= arenas[a].total
        BY <1>1, <1>2, <1>3, <1>6
      <4> QED
        BY <1>4, <2>2, <2>3, <3>1, <4>1
    <3>2. CASE c # a
      BY <2>2, <3>2 DEF PiecesInv
    <3> QED
      BY <3>1, <3>2
  <2>6. Nested(frames, pieces'[Scratch], arenas'[Scratch].size)
    <3>1. Nested(frames, pieces[Scratch], arenas[Scratch].size)
      BY DEF PiecesInv
    <3>2. CASE a = Scratch
      <4>1. /\ Len(pieces[a]) \in Nat /\ Len(q) \in Nat /\ Len(q) >= Len(pieces[a])
            /\ from + n \in Nat /\ from + n >= arenas[a].size
        BY <1>1, <1>2, <1>3, <1>4
      <4>2. Nested(frames, q, from + n)
        BY <1>1, <1>2, <1>4, <3>1, <3>2, <4>1, NestedGrow
      <4> QED
        BY <2>2, <2>3, <3>2, <4>2
    <3>3. CASE a # Scratch
      BY <1>1, <2>2, <3>1, <3>3
    <3> QED
      BY <3>2, <3>3
  <2> QED
    BY <2>1, <2>4, <2>5, <2>6 DEF PiecesInv
<1> QED
  BY <1>5, <1>6 DEF AllocArena, EndOf

LEMMA PiecesInitArena ==
  ASSUME OwnersInv, PiecesInv, NEW a \in Arenas, NEW n \in ArenaSizes, InitArena(a, n)
  PROVE  PiecesInv'
<1>1. CASE Refused(n)
  BY <1>1 DEF Refused, PiecesInv, UserTypes
<1>2. ASSUME Servable(n), NEW b \in Candidates(mem, n),
             arenas' = [arenas EXCEPT ![a] = [buf |-> b, size |-> 0, total |-> n]]
      PROVE  PiecesInv'
  <2>1. /\ arenas \in [Arenas -> ArenaRecord] /\ arenas[a].buf = None
        /\ n \in Nat /\ pieces' = pieces /\ frames' = frames
    BY <1>2, ArenaAssumption DEF InitArena, Refused, OwnersInv, Owners, OwnerTypes
  <2>2. b \in Blocks /\ b # None
    BY <1>2, <2>1, CandidateFacts, ArenaAssumption DEF OwnersInv
  <2>3. /\ arenas'[a].buf = b /\ arenas'[a].size = 0 /\ arenas'[a].total = n
        /\ \A c \in Arenas \ {a} : arenas'[c] = arenas[c]
    BY <1>2, <2>1
  <2>4. pieces[a] = << >> /\ (a = Scratch => frames = << >>)
    BY <2>1 DEF PiecesInv, UserTypes
  <2>5. \A c \in Arenas : arenas'[c].buf = None => arenas[c].buf = None
    BY <2>2, <2>3
  <2>6. UserTypes'
    BY <2>1, <2>5, ArenaAssumption DEF PiecesInv, UserTypes
  <2>7. ASSUME NEW c \in Arenas
        PROVE  Laid(pieces[c], arenas'[c].size) /\ arenas'[c].size <= arenas'[c].total
    <3>1. CASE c = a
      BY <2>1, <2>3, <2>4, <3>1, NothingLaid
    <3>2. CASE c # a
      BY <2>3, <3>2 DEF PiecesInv
    <3> QED
      BY <3>1, <3>2
  <2>8. Nested(frames, pieces[Scratch], arenas'[Scratch].size)
    BY <2>3, <2>4, NothingLaid, ArenaAssumption DEF PiecesInv
  <2> QED
    BY <2>1, <2>6, <2>7, <2>8 DEF PiecesInv
<1> QED
  BY <1>1, <1>2 DEF InitArena

LEMMA PiecesFreeArena ==
  ASSUME OwnersInv, PiecesInv, NEW a \in Arenas, FreeArena(a)
  PROVE  PiecesInv'
<1>1. /\ arenas \in [Arenas -> ArenaRecord] /\ pieces \in [Arenas -> Seq(Piece)]
      /\ frames \in Seq(Frame) /\ Scratch \in Arenas
  BY ArenaAssumption DEF OwnersInv, Owners, OwnerTypes, PiecesInv, UserTypes
<1>2. /\ arenas' = [arenas EXCEPT ![a] = NoArena] /\ pieces' = [pieces EXCEPT ![a] = << >>]
      /\ frames' = frames /\ (a = Scratch => frames = << >>)
  BY DEF FreeArena
<1>3. << >> \in Seq(Piece)
  OBVIOUS
<1>4. /\ pieces' \in [Arenas -> Seq(Piece)] /\ pieces'[a] = << >>
      /\ arenas'[a].size = 0 /\ arenas'[a].total = 0
      /\ \A c \in Arenas \ {a} : pieces'[c] = pieces[c] /\ arenas'[c] = arenas[c]
  BY <1>1, <1>2, <1>3 DEF NoArena
<1>5. \A c \in Arenas : arenas'[c].buf = None => pieces'[c] = << >>
  BY <1>4 DEF PiecesInv, UserTypes
<1>6. arenas'[Scratch].buf = None => frames = << >>
  BY <1>1, <1>2, <1>4 DEF PiecesInv, UserTypes
<1>7. UserTypes'
  BY <1>1, <1>2, <1>4, <1>5, <1>6 DEF UserTypes
<1>8. ASSUME NEW c \in Arenas
      PROVE  Laid(pieces'[c], arenas'[c].size) /\ arenas'[c].size <= arenas'[c].total
  <2>1. CASE c = a
    BY <1>4, <2>1, NothingLaid
  <2>2. CASE c # a
    BY <1>4, <2>2 DEF PiecesInv
  <2> QED
    BY <2>1, <2>2
<1>9. Nested(frames, pieces'[Scratch], arenas'[Scratch].size)
  BY <1>1, <1>2, <1>4, NothingLaid DEF PiecesInv
<1> QED
  BY <1>2, <1>7, <1>8, <1>9 DEF PiecesInv

LEMMA PiecesFrames ==
  ASSUME OwnersInv, PiecesInv, Enter \/ Leave \/ LeaveAsIs \/ ScratchReset
  PROVE  PiecesInv'
<1>1. /\ arenas \in [Arenas -> ArenaRecord] /\ pieces \in [Arenas -> Seq(Piece)]
      /\ frames \in Seq(Frame) /\ Scratch \in Arenas
  BY ArenaAssumption DEF OwnersInv, Owners, OwnerTypes, PiecesInv, UserTypes
<1> DEFINE ps == pieces[Scratch]
           size == arenas[Scratch].size
<1>2. /\ ps \in Seq(Piece) /\ size \in Nat /\ arenas[Scratch].total \in Nat /\ size <= arenas[Scratch].total
      /\ Laid(ps, size) /\ Nested(frames, ps, size)
  BY <1>1 DEF ArenaRecord, PiecesInv
<1>3. CASE Enter
  <2>1. /\ frames' = Append(frames, [pos |-> size, held |-> Len(ps)])
        /\ arenas' = arenas /\ pieces' = pieces /\ arenas[Scratch].buf # None
    BY <1>3 DEF Enter
  <2> HIDE DEF ps, size
  <2>2. frames' \in Seq(Frame) /\ Nested(frames', ps, size)
    BY <1>1, <1>2, <2>1, NestedEnter
  <2>3. UserTypes'
    BY <2>1, <2>2 DEF PiecesInv, UserTypes
  <2> QED
    BY <2>1, <2>2, <2>3 DEF PiecesInv, ps, size
\* the position is given back as far as it was passed
<1>4. ASSUME NEW qs \in Seq(Piece), NEW n \in Nat, n <= size, Laid(qs, n), Nested(frames', qs, n),
             frames' \in Seq(Frame), arenas[Scratch].buf = None => qs = << >> /\ frames' = << >>,
             arenas' = [arenas EXCEPT ![Scratch].size = n],
             pieces' = [pieces EXCEPT ![Scratch] = qs]
      PROVE  PiecesInv'
  <2>1. /\ pieces' \in [Arenas -> Seq(Piece)] /\ pieces'[Scratch] = qs
        /\ \A c \in Arenas \ {Scratch} : pieces'[c] = pieces[c] /\ arenas'[c] = arenas[c]
    BY <1>1, <1>4
  <2>2. /\ arenas'[Scratch].size = n /\ arenas'[Scratch].total = arenas[Scratch].total
        /\ arenas'[Scratch].buf = arenas[Scratch].buf
    BY <1>1, <1>4 DEF ArenaRecord
  <2>3. UserTypes'
    <3>1. \A c \in Arenas : arenas'[c].buf = None => pieces'[c] = << >>
      BY <1>4, <2>1, <2>2 DEF PiecesInv, UserTypes
    <3> QED
      BY <1>4, <2>1, <2>2, <3>1 DEF UserTypes
  <2>4. n <= arenas[Scratch].total
    BY <1>2, <1>4
  <2>5. ASSUME NEW c \in Arenas
        PROVE  Laid(pieces'[c], arenas'[c].size) /\ arenas'[c].size <= arenas'[c].total
    <3>1. CASE c = Scratch
      BY <1>4, <2>1, <2>2, <2>4, <3>1
    <3>2. CASE c # Scratch
      BY <2>1, <3>2 DEF PiecesInv
    <3> QED
      BY <3>1, <3>2
  <2> QED
    BY <1>4, <2>1, <2>2, <2>3, <2>5 DEF PiecesInv
<1>5. CASE Leave \/ LeaveAsIs
  <2> DEFINE f == frames[Len(frames)]
             q == SubSeq(frames, 1, Len(frames) - 1)
             qs == SubSeq(ps, 1, f.held)
  <2>1. frames # << >> /\ frames' = q
    BY <1>5 DEF Leave, LeaveAsIs, Caller
  <2>2. arenas[Scratch].buf # None
    BY <2>1 DEF PiecesInv, UserTypes
  <2>3. /\ q \in Seq(Frame) /\ Nested(q, ps, size) /\ Nested(q, qs, f.pos)
        /\ f \in Frame /\ f.held \in 0 .. Len(ps) /\ f.pos <= size
        /\ \A i \in 1 .. f.held : ps[i].to <= f.pos
    <3> HIDE DEF ps, size
    <3> QED
      BY <1>1, <1>2, <2>1, NestedLeave
  <2>4. CASE LeaveAsIs
    <3>1. arenas' = arenas /\ pieces' = pieces
      BY <2>4 DEF LeaveAsIs
    <3>2. UserTypes'
      BY <2>1, <2>2, <2>3, <3>1 DEF PiecesInv, UserTypes
    <3> QED
      BY <2>1, <2>3, <3>1, <3>2 DEF PiecesInv
  <2>5. CASE Leave
    <3>1. /\ arenas' = [arenas EXCEPT ![Scratch].size = U_ScratchRestore(f.pos)]
          /\ pieces' = [pieces EXCEPT ![Scratch] = qs]
      BY <2>5 DEF Leave
    <3> HIDE DEF f, q, ps, size
    <3>2. f.pos \in Nat
      BY <2>3 DEF Frame
    <3>3. U_ScratchRestore(f.pos) = f.pos
      BY <1>2, <2>3, <3>2 DEF U_ScratchRestore, size
    <3>4. qs \in Seq(Piece) /\ Laid(qs, f.pos)
      BY <1>2, <2>3, <3>2, LaidCut
    <3> HIDE DEF qs
    <3> QED
      BY <1>4, <2>1, <2>2, <2>3, <3>1, <3>2, <3>3, <3>4
  <2> QED
    BY <1>5, <2>4, <2>5
<1>6. CASE ScratchReset
  <2>1. /\ frames = << >> /\ frames' = << >>
        /\ arenas' = [arenas EXCEPT ![Scratch].size = 0]
        /\ pieces' = [pieces EXCEPT ![Scratch] = << >>]
    BY <1>6 DEF ScratchReset
  <2>2. << >> \in Seq(Piece) /\ << >> \in Seq(Frame) /\ 0 \in Nat /\ 0 <= size
    BY <1>2
  <2>3. Laid(<< >>, 0) /\ Nested(<< >>, << >>, 0)
    BY NothingLaid
  <2> HIDE DEF size
  <2> QED
    BY <1>4, <2>1, <2>2, <2>3
<1> QED
  BY <1>3, <1>5, <1>6

-----------------------------------------------------------------------------
(* The theorems.                                                           *)

LEMMA OwnersStep ==
  ASSUME OwnersInv, PiecesInv, [Next]_vars
  PROVE  OwnersInv'
<1>1. frames \in Seq([pos : Nat, held : Nat]) /\ (arenas[Scratch].buf = None => frames = << >>)
  BY DEF PiecesInv, UserTypes, Frame
<1>2. CASE \/ \E a \in Arenas, n \in PieceSizes, align \in Alignments : AllocArena(a, n, align)
           \/ Enter \/ Leave \/ LeaveAsIs \/ ScratchReset \/ Tick \/ UNCHANGED vars
  BY <1>1, <1>2, OwnersArenaUsed
<1>3. CASE GarbageCollect \/ (\E n \in ArenaSizes : Calloc(n)) \/ Free \/ MemoryFree
  BY <1>3, OwnersMemory
<1>4. ASSUME NEW o \in Buffers,
             \/ \E n \in BufferSizes : BufferInit(o, n) \/ BufferResize(o, n)
             \/ BufferFree(o) \/ Write(o)
      PROVE  OwnersInv'
  BY <1>4, OwnersBufferInit, OwnersBufferResize, OwnersBufferFree, OwnersWrite
<1>5. ASSUME NEW a \in Arenas, (\E n \in ArenaSizes : InitArena(a, n)) \/ FreeArena(a)
      PROVE  OwnersInv'
  BY <1>5, OwnersInitArena, OwnersFreeArena
<1> QED
  BY <1>2, <1>3, <1>4, <1>5 DEF Next

LEMMA PiecesStep ==
  ASSUME OwnersInv, PiecesInv, [Next]_vars
  PROVE  PiecesInv'
<1>1. CASE Enter \/ Leave \/ LeaveAsIs \/ ScratchReset
  BY <1>1, PiecesFrames
<1>2. ASSUME NEW a \in Arenas,
             \/ \E n \in ArenaSizes : InitArena(a, n)
             \/ \E n \in PieceSizes, align \in Alignments : AllocArena(a, n, align)
             \/ FreeArena(a)
      PROVE  PiecesInv'
  BY <1>2, PiecesInitArena, PiecesAllocArena, PiecesFreeArena
<1>3. ASSUME UNCHANGED <<arenas, pieces, frames>> PROVE PiecesInv'
  BY <1>3 DEF PiecesInv, UserTypes
<1>4. ASSUME NEW o \in Buffers,
             \/ \E n \in BufferSizes : BufferInit(o, n) \/ BufferResize(o, n)
             \/ BufferFree(o) \/ Write(o)
      PROVE  UNCHANGED <<arenas, pieces, frames>>
  BY <1>4 DEF BufferInit, BufferResize, BufferFree, Write, Refused
<1>5. ASSUME GarbageCollect \/ (\E n \in ArenaSizes : Calloc(n)) \/ Free \/ MemoryFree \/ Tick
             \/ UNCHANGED vars
      PROVE  UNCHANGED <<arenas, pieces, frames>>
  BY <1>5 DEF GarbageCollect, Calloc, Free, MemoryFree, Tick, vars
<1> QED
  BY <1>1, <1>2, <1>3, <1>4, <1>5 DEF Next

\* In every state blocks, owners and the users of arenas are as they should be.
LEMMA ArenaInvariant == Spec => [](OwnersInv /\ PiecesInv)
<1>1. Init => OwnersInv /\ PiecesInv
  BY OwnersInitial, PiecesInitial
<1>2. OwnersInv /\ PiecesInv /\ [Next]_vars => (OwnersInv /\ PiecesInv)'
  BY OwnersStep, PiecesStep
<1> QED
  BY <1>1, <1>2, PTL DEF Spec

\* The lists of u_memory.c are sound whatever is allocated, freed, collected or
\* lost: a block is in one list, that of the track its size is looked up in, and
\* size_allocated is the sum of the sizes in the lists of the track.
THEOREM ArenaListsSound == Spec => []ListsSound
<1>1. OwnersInv => ListsSound
  BY DEF OwnersInv, ListsHold, InTrack, BytesHold, ListsSound, Listed
<1> QED
  BY <1>1, ArenaInvariant, PTL

\* Memory that is used again, resized, collected or freed in any order never
\* serves two owners, and what nobody owns is not allocated.
THEOREM ArenaOwnersApart == Spec => []OwnersApart
<1>1. OwnersInv => OwnersApart
  BY DEF OwnersInv, Owners, Apart, OwnersApart, Owned, Allocated
<1> QED
  BY <1>1, ArenaInvariant, PTL

\* A buffer keeps what its owner wrote through U_BufferResize and all that others
\* do with their memory.
THEOREM ArenaDataKept == Spec => []DataKept
<1>1. OwnersInv => DataKept
  BY DEF OwnersInv, Owners, Kept, DataKept
<1> QED
  BY <1>1, ArenaInvariant, PTL

\* What the users of an arena hold stays aligned, within the arena and apart from
\* what others hold, with functions nested to any depth that return with or without
\* restoring the scratch position.
THEOREM ArenaPiecesApart == Spec => []PiecesApart
<1>1. OwnersInv /\ PiecesInv => PiecesApart
  <2> SUFFICES ASSUME OwnersInv, PiecesInv, NEW a \in Arenas
               PROVE  /\ \A i \in DOMAIN pieces[a] :
                           /\ pieces[a][i].from % pieces[a][i].align = 0
                           /\ pieces[a][i].to <= arenas[a].size
                           /\ pieces[a][i].to <= arenas[a].total
                      /\ \A i, j \in DOMAIN pieces[a] : i < j => pieces[a][i].to <= pieces[a][j].from
    BY DEF PiecesApart
  <2>1. Laid(pieces[a], arenas[a].size) /\ arenas[a].size <= arenas[a].total
    BY DEF PiecesInv
  <2>2. arenas[a].size \in Nat /\ arenas[a].total \in Nat /\ pieces[a] \in Seq(Piece)
    BY DEF OwnersInv, Owners, OwnerTypes, ArenaRecord, PiecesInv, UserTypes
  <2>3. \A i \in DOMAIN pieces[a] : pieces[a][i].to \in Nat
    <3>1. \A i \in DOMAIN pieces[a] : pieces[a][i] \in Piece
      BY <2>2
    <3> QED
      BY <3>1 DEF Piece
  <2> QED
    BY <2>1, <2>2, <2>3 DEF Laid
<1> QED
  BY <1>1, ArenaInvariant, PTL

=============================================================================
