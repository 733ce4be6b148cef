------------------------------- MODULE Bundle -------------------------------
(***************************************************************************)
(* The .ddf container and what ddfb reads from it and writes into it.      *)
(*                                                                         *)
(* A file is a sequence of cells, one cell per field of the format: a      *)
(* four-character code, a chunk size, a length prefix, a public key, a     *)
(* signature, or one unit of payload.  The header of a chunk is two cells  *)
(* (8 bytes in the code) and a signature entry is four (101 bytes):        *)
(*                                                                         *)
(*   RIFF size | DDFB size payload | SIGN size (33 pub 64 sig)*            *)
(*                                                                         *)
(* Positions are C offsets: the first cell of a file is at position 0.     *)
(***************************************************************************)
EXTENDS Integers, Sequences

CONSTANTS
  RIFF, DDFB, SIGN,       \* the four-character codes
  PubLen, SigLen,         \* the length prefixes of an entry, 33 and 64
  Torn,                   \* a key or signature of which not all bytes are there
  Extra,                  \* room ECC_Sign reserves behind a file, 1024 bytes
  Keys,                   \* private keys
  PubKey(_),              \* public key of a private key (uECC)
  Signature(_, _)         \* deterministic signature by a key over a region

ASSUME TagAssumption ==
  /\ {RIFF, DDFB, SIGN} \subseteq Nat \ {0}
  /\ RIFF # DDFB /\ RIFF # SIGN /\ DDFB # SIGN

ASSUME LenAssumption ==
  /\ {PubLen, SigLen} \subseteq Nat \ {0}
  /\ \A k \in Keys : PubKey(k) \in Nat \ {0}
  /\ \A k, l \in Keys : PubKey(k) = PubKey(l) => k = l

\* Fields of different kinds are told apart: a cell is 33 or 64, or a public key,
\* or the first bytes of a key or signature that is not complete.
ASSUME CellAssumption ==
  /\ PubLen # SigLen /\ \A k \in Keys : PubKey(k) \notin {PubLen, SigLen, Torn}
  /\ Torn \in Nat \ {0, PubLen, SigLen}

Header == 2               \* cells of a chunk header
EntryLen == 4             \* cells of a signature entry

ASSUME ExtraAssumption == Extra \in Nat /\ Extra >= Header + EntryLen

-----------------------------------------------------------------------------
(* The byte stream the code reads and writes through.                      *)

\* U_bstream_get_* at p: a read past the size of the stream returns 0, and so
\* does the room ECC_Sign reserves behind the data, which is zeroed memory.
Get(data, size, p) == IF p < size /\ p < Len(data) THEN data[p + 1] ELSE 0

\* U_bstream_put_* at a position that verify_write accepted.
Put(data, p, v) == [data EXCEPT ![p + 1] = v]

-----------------------------------------------------------------------------
NoChunk == [tag |-> 0, size |-> 0, offset |-> 0]

\* The chunk whose header is at position p, as GetChunkRef returns it.  A size
\* field cut off by the end of the stream reads as 0.
ChunkAt(data, size, p) ==
  [tag    |-> Get(data, size, p),
   size   |-> Get(data, size, p + 1),
   offset |-> IF p + 1 < size THEN p + Header ELSE p + 1]

\* Where the walk goes after the chunk at p; the chunk ends there.
After(data, size, p) == p + Header + Get(data, size, p + 1)

\* GetChunkRef: the first chunk of that tag on the walk from the offset, which
\* the code asserts to be inside the data.
GetChunkRef(data, size, from, tag) ==
  LET walk[p \in 0..size] ==
        IF Get(data, size, p) = tag THEN ChunkAt(data, size, p)
        ELSE IF Get(data, size, p) = 0 \/ After(data, size, p) >= size
             THEN NoChunk
             ELSE walk[After(data, size, p)]
  IN  IF from < size THEN walk[from] ELSE NoChunk

\* The region lonesha256 is computed over: the DDFB header and its data.
Region(data, chunk) ==
  SubSeq(data, chunk.offset - Header + 1, chunk.offset + chunk.size)

Verifies(sig, pub, region) ==
  \E k \in Keys : pub = PubKey(k) /\ sig = Signature(k, region)

Entry(key, region) == <<PubLen, PubKey(key), SigLen, Signature(key, region)>>

-----------------------------------------------------------------------------
\* Mutant of ECC_FindSignature: only the first entry is compared.
FindFirstOnly(file, key, region) ==
  LET chunk == GetChunkRef(file, Len(file), Header, SIGN)
      at(p) == Get(file, Len(file), chunk.offset + p)
  IN  /\ chunk.tag # 0 /\ chunk.size > 0
      /\ at(0) = PubLen /\ at(2) = SigLen
      /\ at(1) = PubKey(key) /\ Verifies(at(3), PubKey(key), region)

\* ECC_FindSignature.  The scan stops at the first entry whose lengths are not
\* 33 and 64: what is behind it is never looked at.
ECC_FindSignature(file, key, region) ==
  LET chunk == GetChunkRef(file, Len(file), Header, SIGN)
      end   == chunk.offset + chunk.size
      at(p) == Get(file, Len(file), p)
      scan[p \in 0..Len(file)] ==
        /\ p < end
        /\ at(p) = PubLen /\ at(p + 2) = SigLen
        /\ \/ at(p + 1) = PubKey(key) /\ Verifies(at(p + 3), PubKey(key), region)
           \/ /\ p + EntryLen <= Len(file)
              /\ scan[p + EntryLen]
  IN  chunk.tag # 0 /\ scan[chunk.offset]

\* The size of the buffer ECC_Sign loads a file into.
Room(file) == Len(file) + Extra

\* Mutant of Padded: room for an entry, not for the header of a new chunk.
PaddedForEntry(f) == f \o [i \in 1 .. EntryLen |-> 0]

\* The buffer ECC_Sign works in: the file, then the reserved room.
Padded(f) == f \o [i \in 1 .. Extra |-> 0]

\* Mutant of Span: the operands are swapped.
SpanSwapped(from, to) == from - to

\* The size of what was put between two positions.
Span(from, to) == to - from

\* Mutant of EntryStart: entries that are there are overwritten.
EntryStartOver(sign, offset) == offset

\* bs.pos = chunk.offset + chunk.size, for a chunk that may just have been put.
EntryStart(sign, offset) == offset + sign.size

\* What ECC_AppendSignature makes of a file: the entry goes where the declared
\* SIGN chunk ends (a new chunk, where DDFB ends) and both sizes are patched.
\* Fields that do not fit into the buffer are dropped, the sizes then stay.
ECC_AppendSignature(file, key, region) ==
  LET sign   == GetChunkRef(file, Room(file), Header, SIGN)
      base   == GetChunkRef(file, Room(file), Header, DDFB)
      new    == sign.tag = 0
      offset == IF new THEN base.offset + base.size + Header ELSE sign.offset
      entry  == EntryStart(sign, offset)
      end    == entry + EntryLen
      fits   == end <= Room(file)
      last   == IF fits THEN end
                ELSE IF entry > Room(file) THEN entry ELSE Room(file)
      cell(i) ==
        CASE fits /\ i = Header         -> Span(Header, end)
          [] fits /\ i = offset         -> Span(offset, end)
          [] ~fits /\ new /\ i = offset -> 0
          [] new /\ i = offset - 1      -> SIGN
          [] i > entry /\ i <= Room(file) -> Entry(key, region)[i - entry]
          [] OTHER                      -> Get(file, Room(file), i - 1)
  IN  [i \in 1 .. last |-> cell(i)]

\* Mutant of Payload: the DDFB chunk may reach into the reserved room.
PayloadInBuffer(file) ==
  LET chunk == GetChunkRef(file, Room(file), Header, DDFB)
  IN  IF \/ GetChunkRef(file, Room(file), 0, RIFF).tag = 0
         \/ chunk.offset + chunk.size > Room(file)
      THEN NoChunk
      ELSE chunk

\* The DDFB chunk of a loaded file ECC_Sign accepts: after a RIFF header, and
\* complete in the file.  NoChunk if the file is not a bundle.
Payload(file) ==
  LET chunk == GetChunkRef(file, Room(file), Header, DDFB)
  IN  IF \/ GetChunkRef(file, Room(file), 0, RIFF).tag = 0
         \/ chunk.offset + chunk.size > Len(file)
      THEN NoChunk
      ELSE chunk

IsBundle(file) == Payload(file).tag # 0

RegionOf(file) == Region(Padded(file), Payload(file))

\* ECC_Sign between loading the file and writing it: "invalid" (exit 1),
\* "present" (exit 0, nothing written), "append" with the file to write.
Outcome(res, image) == [res |-> res, image |-> image]

ECC_Sign(file, key) ==
  CASE ~IsBundle(file) -> Outcome("invalid", <<>>)
    [] IsBundle(file) /\ ECC_FindSignature(file, key, RegionOf(file)) ->
         Outcome("present", <<>>)
    [] OTHER -> Outcome("append", ECC_AppendSignature(file, key, RegionOf(file)))

-----------------------------------------------------------------------------
\* What DDF_CreateBundle stores for a payload: an unsigned bundle.
Unsigned(payload) ==
  <<RIFF, Header + Len(payload), DDFB, Len(payload)>> \o payload

\* The entries of a file, by position: cells inside the declared SIGN chunk
\* that form an entry, whatever precedes them.
EntryPositions(file) ==
  LET chunk == GetChunkRef(file, Len(file), Header, SIGN)
  IN  {p \in chunk.offset .. chunk.offset + chunk.size - EntryLen :
         /\ chunk.tag # 0 /\ p + EntryLen <= Len(file)
         /\ file[p + 1] = PubLen /\ file[p + 3] = SigLen}

EntriesOf(file, key) == {p \in EntryPositions(file) : file[p + 2] = PubKey(key)}

\* The keys whose signature over the bundle is in the file.
SignersOf(file) ==
  {k \in Keys : \E p \in EntriesOf(file, k) :
                   Verifies(file[p + 4], file[p + 2], RegionOf(file))}
=============================================================================
