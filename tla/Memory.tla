------------------------------- MODULE Memory -------------------------------
(***************************************************************************)
(* Tracked memory, u_memory.c: blocks from malloc are rounded up to a      *)
(* power of two and kept in lists, one of allocated and one of free blocks *)
(* for each track.  Freed blocks are used again or, when they are old,     *)
(* given back.  The operators take the state of all lists and return the   *)
(* state after a call, so that a caller can make several in one step.      *)
(***************************************************************************)
EXTENDS Integers, FiniteSets, FiniteSetsExt

CONSTANTS
  Blocks,      \* what malloc can return
  MinSize,     \* U_MIN_MEM_ALLOC_SIZE, 32
  TrackSizes,  \* the sizes of the tracks, a set; the largest is "as large as needed"
  Slack,       \* what a block that is used again may be larger than the request, 128
  Bits,        \* of an unsigned, 32
  Age,         \* seconds after which a free block may be given back, 10
  Data,        \* what an owner can write to a block
  Zeros        \* what U_bzero writes

ASSUME MemoryAssumption ==
  /\ MinSize \in Nat \ {0}
  /\ TrackSizes \subseteq Nat \ {0} /\ IsFiniteSet(TrackSizes)
  /\ IsFiniteSet(Blocks)
  /\ Slack \in Nat /\ Bits \in Nat /\ Age \in Nat
  /\ MinSize < 2^Bits
  /\ Zeros \notin Data

\* The state: for each block that malloc gave its size, the time it was freed
\* and what is in it; the lists and size_allocated of each track, and the list
\* _u_mem.  A block of size 0 is with malloc.  The order of a list decides only
\* which of several fitting blocks is taken, so the lists are sets.
MemoryStates ==
  [size : [Blocks -> Nat], free_time : [Blocks -> Nat],
   data : [Blocks -> Data \cup {Zeros}],
   alloc_list : [TrackSizes -> SUBSET Blocks], free_list : [TrackSizes -> SUBSET Blocks],
   size_allocated : [TrackSizes -> Nat],
   u_mem : SUBSET Blocks]

U_MemoryInit ==
  [size |-> [b \in Blocks |-> 0], free_time |-> [b \in Blocks |-> 0],
   data |-> [b \in Blocks |-> Zeros],
   alloc_list |-> [t \in TrackSizes |-> {}], free_list |-> [t \in TrackSizes |-> {}],
   size_allocated |-> [t \in TrackSizes |-> 0],
   u_mem |-> {}]

-----------------------------------------------------------------------------
\* sz after k rounds of the loop that doubles it, in an unsigned.
Doubled(k) == (MinSize * 2^k) % 2^Bits

\* The loop ends after one of these; sz is 0 after Bits rounds and remains 0.
Rounds(n) == {k \in 0 .. Bits : Doubled(k) >= n}

RoundUp(n) == Doubled(CHOOSE k \in Rounds(n) : \A j \in Rounds(n) : k <= j)

\* The tracks a block may be in; the code takes the first.
Large(sz) == {t \in TrackSizes : t >= sz}

TrackOf(sz) == CHOOSE t \in Large(sz) : \A u \in Large(sz) : t <= u

\* A request that never ends, one that stops the program, and the others.
Hangs(n) == Rounds(n) = {}
TooMuch(n) == ~Hangs(n) /\ Large(RoundUp(n)) = {}
Servable(n) == ~Hangs(n) /\ ~TooMuch(n)

Unused(m) == {b \in Blocks : m.size[b] = 0}

\* Mutant of Reusable: any block of the track will do.
ReusableAny(m, n) == m.free_list[TrackOf(RoundUp(n))]

\* _get_free_mem_for_size returns the first of these.
Reusable(m, n) ==
  {b \in m.free_list[TrackOf(RoundUp(n))] : m.size[b] >= n /\ m.size[b] - n < Slack}

\* The blocks U_AllocTracked may take for n bytes; malloc is taken to succeed.
Candidates(m, n) == IF Reusable(m, n) # {} THEN Reusable(m, n) ELSE Unused(m)

\* A new block of the track, or one that leaves the free list.
Obtained(m, n, b) ==
  LET t == TrackOf(RoundUp(n))
  IN  IF b \in Unused(m)
      THEN [m EXCEPT !.size[b] = RoundUp(n), !.size_allocated[t] = @ + RoundUp(n)]
      ELSE [m EXCEPT !.free_list[t] = @ \ {b}]

\* Mutant of Taken: the memory is not cleared.
TakenUncleared(m, n, b) ==
  [Obtained(m, n, b) EXCEPT !.alloc_list[TrackOf(RoundUp(n))] = @ \cup {b}]

\* U_AllocTracked returns block b.
Taken(m, n, b) ==
  [Obtained(m, n, b) EXCEPT !.alloc_list[TrackOf(RoundUp(n))] = @ \cup {b},
                            !.data[b] = Zeros]

\* U_FreeTracked, with a block that is in the list of allocated blocks.
U_FreeTracked(m, b, now) ==
  [m EXCEPT !.alloc_list[TrackOf(m.size[b])] = @ \ {b},
            !.free_list[TrackOf(m.size[b])] = @ \cup {b},
            !.free_time[b] = now]

\* Blocks of a track that are old enough to be given back.
Old(m, t, now) == {b \in m.free_list[t] : now - m.free_time[b] > Age}

\* U_MemoryGarbageCollect gives back one old block of each track that has any.
Victims(m, now) ==
  {v \in SUBSET UNION {Old(m, t, now) : t \in TrackSizes} :
     \A t \in TrackSizes :
       Old(m, t, now) # {} => \E b \in Old(m, t, now) : v \cap Old(m, t, now) = {b}}

\* Blocks go back to malloc.
Released(m, v) ==
  [m EXCEPT !.size = [b \in Blocks |-> IF b \in v THEN 0 ELSE @[b]],
            !.free_time = [b \in Blocks |-> IF b \in v THEN 0 ELSE @[b]],
            !.data = [b \in Blocks |-> IF b \in v THEN Zeros ELSE @[b]]]

\* The bytes of some blocks.
BytesOf(m, blocks) == MapThenSumSet(LAMBDA b : m.size[b], blocks)

\* Mutant of Collected: size_allocated stays as it is.
CollectedUncounted(m, v) ==
  [Released(m, v) EXCEPT !.free_list = [t \in TrackSizes |-> @[t] \ v]]

Collected(m, v) ==
  [Released(m, v) EXCEPT
     !.free_list = [t \in TrackSizes |-> @[t] \ v],
     !.size_allocated =
        [t \in TrackSizes |-> @[t] - BytesOf(m, v \cap m.free_list[t])]]

\* U_MemoryFree empties the lists of the tracks, and leaves all else.
U_MemoryFree(m) ==
  [Released(m, UNION {m.alloc_list[t] \cup m.free_list[t] : t \in TrackSizes}) EXCEPT
     !.alloc_list = [t \in TrackSizes |-> {}],
     !.free_list = [t \in TrackSizes |-> {}]]

\* U_calloc, which does not round the size up.
U_calloc(m, n, b) == [m EXCEPT !.size[b] = n, !.data[b] = Zeros, !.u_mem = @ \cup {b}]

\* U_free takes the block off its list and does not call free: it is lost.
U_free(m, b) == [m EXCEPT !.u_mem = @ \ {b}]
=============================================================================
