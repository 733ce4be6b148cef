-------------------------------- MODULE Arena --------------------------------
(***************************************************************************)
(* The owners of tracked memory: growing buffers (U_Buffer*, utils.c), the *)
(* arenas (u_arena.c) and the scratch arena as functions use it            *)
(* (u_scratch.c and its callers in ddfb.c).  A function notes the scratch  *)
(* position, allocates, calls others that do the same, and restores the    *)
(* position when it returns; some return without restoring it, and what    *)
(* they have allocated lasts until their caller restores its own.          *)
(***************************************************************************)
EXTENDS Memory, Sequences

CONSTANTS
  Buffers,     \* U_buffer variables
  Arenas,      \* U_Arena variables
  Scratch,     \* the one of them that is _scratch_arena
  None,        \* a null pointer
  BufferSizes, ArenaSizes, PieceSizes,  \* what is asked for
  Alignments,  \* U_ARENA_ALIGN_1 and U_ARENA_ALIGN_8
  ScratchAlignment,
  MaxFrames, MaxPieces, MaxTime         \* bounds of the model

ASSUME ArenaAssumption ==
  /\ Scratch \in Arenas
  /\ None \notin Blocks
  /\ BufferSizes \subseteq Nat /\ ArenaSizes \subseteq Nat /\ PieceSizes \subseteq Nat
  /\ Alignments \subseteq Nat \ {0}
  /\ ScratchAlignment \in Nat \ {0}
  /\ MaxFrames \in Nat /\ MaxPieces \in Nat /\ MaxTime \in Nat
  /\ Data = Buffers

VARIABLES
  mem,      \* the tracked memory
  buffers,  \* U_buffer: buf, size, and wrote, what its owner has in it
  arenas,   \* U_Arena: buf, size and _total_size
  pieces,   \* for each arena what its users hold, in the order of allocation
  frames,   \* the functions that have noted a position: it, and the pieces then
  lost,     \* blocks U_free was called for
  now,      \* PL_GetTime
  phase     \* "up"; "hangs" in the loop of U_AllocTracked, "trapped" by U_ASSERT
            \* or "ended" after U_MemoryFree

vars == <<mem, buffers, arenas, pieces, frames, lost, now, phase>>

NoBuffer == [buf |-> None, size |-> 0, wrote |-> Zeros]
NoArena == [buf |-> None, size |-> 0, total |-> 0]

Init ==
  /\ mem = U_MemoryInit
  /\ buffers = [o \in Buffers |-> NoBuffer]
  /\ arenas = [a \in Arenas |-> NoArena]
  /\ pieces = [a \in Arenas |-> << >>]
  /\ frames = << >>
  /\ lost = {}
  /\ now = 0
  /\ phase = "up"

-----------------------------------------------------------------------------
\* A request U_AllocTracked does not survive.
Refused(n) ==
  /\ ~Servable(n)
  /\ phase' = IF Hangs(n) THEN "hangs" ELSE "trapped"
  /\ UNCHANGED <<mem, buffers, arenas, pieces, frames, lost, now>>

\* U_BufferInit.
BufferInit(o, n) ==
  /\ phase = "up" /\ buffers[o].buf = None /\ n > 0
  /\ \/ Refused(n)
     \/ /\ Servable(n)
        /\ \E b \in Candidates(mem, n) :
             /\ mem' = Taken(mem, n, b)
             /\ buffers' = [buffers EXCEPT ![o] = [buf |-> b, size |-> n, wrote |-> Zeros]]
        /\ UNCHANGED <<arenas, pieces, frames, lost, now, phase>>

\* What is in the buffer after U_memcpy of the smaller of the sizes.
Copied(o, n, content) == IF n = 0 \/ buffers[o].size = 0 THEN Zeros ELSE content

\* The memory after the buffer is allocated again, copied and the old one freed.
Moved(o, n, b) ==
  LET old == buffers[o].buf
      m == Taken(mem, n, b)
  IN  U_FreeTracked([m EXCEPT !.data[b] = Copied(o, n, m.data[old])], old, now)

\* U_BufferResize of a buffer that has memory; of another one it is U_BufferInit.
BufferResize(o, n) ==
  /\ phase = "up" /\ buffers[o].buf # None
  /\ \/ Refused(n)
     \/ /\ Servable(n)
        /\ \E b \in Candidates(mem, n) :
             /\ mem' = Moved(o, n, b)
             /\ buffers' = [buffers EXCEPT
                  ![o] = [buf |-> b, size |-> n, wrote |-> Copied(o, n, @.wrote)]]
        /\ UNCHANGED <<arenas, pieces, frames, lost, now, phase>>

\* U_BufferFree; a buffer without memory traps in U_FreeTracked.
BufferFree(o) ==
  /\ phase = "up"
  /\ IF buffers[o].buf = None
     THEN phase' = "trapped" /\ UNCHANGED <<mem, buffers>>
     ELSE /\ mem' = U_FreeTracked(mem, buffers[o].buf, now)
          /\ buffers' = [buffers EXCEPT ![o] = NoBuffer]
          /\ UNCHANGED phase
  /\ UNCHANGED <<arenas, pieces, frames, lost, now>>

\* The owner of a buffer fills it.
Write(o) ==
  /\ phase = "up" /\ buffers[o].size > 0
  /\ mem' = [mem EXCEPT !.data[buffers[o].buf] = o]
  /\ buffers' = [buffers EXCEPT ![o].wrote = o]
  /\ UNCHANGED <<arenas, pieces, frames, lost, now, phase>>

-----------------------------------------------------------------------------
\* U_InitArena and U_ScratchInit.
InitArena(a, n) ==
  /\ phase = "up" /\ arenas[a].buf = None
  /\ \/ Refused(n)
     \/ /\ Servable(n)
        /\ \E b \in Candidates(mem, n) :
             /\ mem' = Taken(mem, n, b)
             /\ arenas' = [arenas EXCEPT ![a] = [buf |-> b, size |-> 0, total |-> n]]
        /\ UNCHANGED <<buffers, pieces, frames, lost, now, phase>>

\* U_memalign; blocks start at a multiple of every alignment.
Aligned(pos, align) == ((pos + align - 1) \div align) * align

\* Mutant of EndOf: the bytes skipped for the alignment are not counted.
EndOfUnpadded(a, n, align) == arenas[a].size + n

\* The size of the arena after an allocation.
EndOf(a, n, align) == Aligned(arenas[a].size, align) + n

\* U_AllocArena, which leaves at least one byte of the arena unused.
AllocArena(a, n, align) ==
  /\ phase = "up" /\ arenas[a].buf # None
  /\ Len(pieces[a]) < MaxPieces
  /\ IF arenas[a].total - Aligned(arenas[a].size, align) > n
     THEN /\ arenas' = [arenas EXCEPT ![a].size = EndOf(a, n, align)]
          /\ LET from == Aligned(arenas[a].size, align)
             IN  pieces' = [pieces EXCEPT ![a] =
                   Append(@, [from |-> from, to |-> from + n, align |-> align])]
          /\ UNCHANGED phase
     ELSE phase' = "trapped" /\ UNCHANGED <<arenas, pieces>>
  /\ UNCHANGED <<mem, buffers, frames, lost, now>>

\* U_FreeArena and U_ScratchFree, of an arena that nobody uses any more.
FreeArena(a) ==
  /\ phase = "up" /\ arenas[a].buf # None
  /\ a = Scratch => frames = << >>
  /\ mem' = U_FreeTracked(mem, arenas[a].buf, now)
  /\ arenas' = [arenas EXCEPT ![a] = NoArena]
  /\ pieces' = [pieces EXCEPT ![a] = << >>]
  /\ UNCHANGED <<buffers, frames, lost, now, phase>>

-----------------------------------------------------------------------------
\* A function notes U_ScratchPos.
Enter ==
  /\ phase = "up" /\ arenas[Scratch].buf # None /\ Len(frames) < MaxFrames
  /\ frames' = Append(frames, [pos |-> arenas[Scratch].size, held |-> Len(pieces[Scratch])])
  /\ UNCHANGED <<mem, buffers, arenas, pieces, lost, now, phase>>

Caller == SubSeq(frames, 1, Len(frames) - 1)

\* The size of the scratch arena after U_ScratchRestore.
U_ScratchRestore(pos) == IF pos < arenas[Scratch].size THEN pos ELSE arenas[Scratch].size

\* The innermost function restores the position and returns.
Leave ==
  /\ phase = "up" /\ frames # << >>
  /\ LET frame == frames[Len(frames)]
     IN  /\ arenas' = [arenas EXCEPT ![Scratch].size = U_ScratchRestore(frame.pos)]
         /\ pieces' = [pieces EXCEPT ![Scratch] = SubSeq(@, 1, frame.held)]
  /\ frames' = Caller
  /\ UNCHANGED <<mem, buffers, lost, now, phase>>

\* It returns without.
LeaveAsIs ==
  /\ phase = "up" /\ frames # << >>
  /\ frames' = Caller
  /\ UNCHANGED <<mem, buffers, arenas, pieces, lost, now, phase>>

\* U_ScratchReset, which only the outermost function may call.
ScratchReset ==
  /\ phase = "up" /\ frames = << >>
  /\ arenas' = [arenas EXCEPT ![Scratch].size = 0]
  /\ pieces' = [pieces EXCEPT ![Scratch] = << >>]
  /\ UNCHANGED <<mem, buffers, frames, lost, now, phase>>

-----------------------------------------------------------------------------
\* U_MemoryGarbageCollect.
GarbageCollect ==
  /\ phase = "up"
  /\ \E v \in Victims(mem, now) : mem' = Collected(mem, v)
  /\ UNCHANGED <<buffers, arenas, pieces, frames, lost, now, phase>>

Calloc(n) ==
  /\ phase = "up" /\ n > 0
  /\ \E b \in Unused(mem) : mem' = U_calloc(mem, n, b)
  /\ UNCHANGED <<buffers, arenas, pieces, frames, lost, now, phase>>

Free ==
  /\ phase = "up"
  /\ \E b \in mem.u_mem : mem' = U_free(mem, b) /\ lost' = lost \cup {b}
  /\ UNCHANGED <<buffers, arenas, pieces, frames, now, phase>>

Tick ==
  /\ phase = "up" /\ now < MaxTime
  /\ now' = now + 1
  /\ UNCHANGED <<mem, buffers, arenas, pieces, frames, lost, phase>>

\* U_MemoryFree, the last call of main, which has freed the arenas.
MemoryFree ==
  /\ phase = "up"
  /\ \A a \in Arenas : arenas[a].buf = None
  /\ \A o \in Buffers : buffers[o].buf = None
  /\ mem' = U_MemoryFree(mem)
  /\ phase' = "ended"
  /\ UNCHANGED <<buffers, arenas, pieces, frames, lost, now>>

Next ==
  \/ \E o \in Buffers :
       \/ \E n \in BufferSizes : BufferInit(o, n) \/ BufferResize(o, n)
       \/ BufferFree(o)
       \/ Write(o)
  \/ \E a \in Arenas :
       \/ \E n \in ArenaSizes : InitArena(a, n)
       \/ \E n \in PieceSizes, align \in Alignments :
            (a = Scratch => align = ScratchAlignment) /\ AllocArena(a, n, align)
       \/ FreeArena(a)
  \/ Enter \/ Leave \/ LeaveAsIs \/ ScratchReset
  \/ GarbageCollect
  \/ \E n \in ArenaSizes : Calloc(n)
  \/ Free \/ Tick \/ MemoryFree

Spec == Init /\ [][Next]_vars

-----------------------------------------------------------------------------
\* Blocks somebody has a pointer to.
Owned == {buffers[o].buf : o \in Buffers} \cup {arenas[a].buf : a \in Arenas}

Listed(t) == mem.alloc_list[t] \cup mem.free_list[t]

\* The lists of the tracks, which every call of u_memory.c searches and relinks,
\* are sound: a block malloc gave is in one list, that of the track its size is
\* looked up in, or on _u_mem, or lost by U_free; size_allocated is what the
\* lists of the track hold.
ListsSound ==
  /\ mem \in MemoryStates
  /\ \A b \in Blocks :
       mem.size[b] > 0 =>
         \/ b \in mem.u_mem \/ b \in lost
         \/ b \in mem.alloc_list[TrackOf(mem.size[b])]
         \/ b \in mem.free_list[TrackOf(mem.size[b])]
  /\ \A t \in TrackSizes :
       /\ mem.alloc_list[t] \cap mem.free_list[t] = {}
       /\ Listed(t) \cap (mem.u_mem \cup lost) = {}
       /\ \A b \in Listed(t) : mem.size[b] > 0 /\ TrackOf(mem.size[b]) = t
       /\ phase = "up" => mem.size_allocated[t] = BytesOf(mem, Listed(t))

\* Memory that is used again, resized, collected or freed in any order never
\* serves two owners: what a buffer or an arena points to is allocated, has room
\* for all of its size, is owned by nobody else, and nothing else is allocated.
OwnersApart ==
  /\ \A o \in Buffers : buffers[o].buf # None => mem.size[buffers[o].buf] >= buffers[o].size
  /\ \A a \in Arenas : arenas[a].buf # None => mem.size[arenas[a].buf] >= arenas[a].total
  /\ \A o, p \in Buffers : o # p /\ buffers[o].buf # None => buffers[o].buf # buffers[p].buf
  /\ \A a, c \in Arenas : a # c /\ arenas[a].buf # None => arenas[a].buf # arenas[c].buf
  /\ \A o \in Buffers, a \in Arenas : buffers[o].buf # None => buffers[o].buf # arenas[a].buf
  /\ UNION {mem.alloc_list[t] : t \in TrackSizes} = Owned \ {None}

\* A buffer holds what its owner wrote, and zeros before that, however often it
\* is moved by U_BufferResize and whoever used its memory before.
DataKept ==
  \A o \in Buffers : buffers[o].buf # None => mem.data[buffers[o].buf] = buffers[o].wrote

\* What the users of an arena hold is aligned, within the arena and apart from
\* what the others hold, and no later allocation can reach it: functions that
\* call each other and return with or without restoring the scratch position
\* keep what they have allocated themselves.
PiecesApart ==
  \A a \in Arenas :
    /\ \A i \in DOMAIN pieces[a] :
         /\ pieces[a][i].from % pieces[a][i].align = 0
         /\ pieces[a][i].to <= arenas[a].size
         /\ pieces[a][i].to <= arenas[a].total
    /\ \A i, j \in DOMAIN pieces[a] : i < j => pieces[a][i].to <= pieces[a][j].from
=============================================================================
