# Verification of ddfb

`ddfb` is a command line tool that bundles a device description (DDF) and all
files it refers to into one `.ddf` file, and signs such bundles.  This directory
holds TLA+ models of the tool, the TLC configurations that check them and
theorems about them proved with TLAPS.  Every definition is translated from the
C code; `PROJECT.json` maps each to the lines it stands for.

## 1. The system

| part | code | state | operations |
| --- | --- | --- | --- |
| commands | `ddfb.c` `main` | exit status | `create`, `keygen`, `sign` |
| container | `ddfb.c` `GetChunkRef`, `ECC_*Signature` | the bytes of a bundle, stream positions | find a chunk, find a signature, append one, patch the sizes |
| create pipeline | `ddfb.c` `DDF_*` | base path, constants file, cache of generic items, output stream | load the DDF, make DESC, add scripts, items and constants, store |
| key generation | `ddfb.c` `ECC_CreateKeyPair`, `PL_FillRandom` | two key files | draw, store private, store public |
| JSON parser | `utils/cj.c` | token array, status | tokenize, parse, look up a key, copy a value |
| allocators | `utils/u_memory.c`, `u_arena.c`, `u_scratch.c` | free and allocated lists, arena position | allocate, free, collect, restore |
| streams | `utils/u_bstream.c`, `u_sstream.c` | position, sticky status | get, put, seek |
| platform | `utils/pl_posix.c`, `pl_windows.c` | files, clock, random source | load, write, stat, ... |
| time | `utils/utils_time.c` | none | calendar conversions |
| cryptography | `vendor/lonesha256.h`, uECC (submodule) | none | hash, sign, verify |

A run is one process with one thread.  Parts call each other directly; there are
no callbacks apart from the random source of uECC.  What makes the tool hard to
test is not inside one run but around it: several runs, of `sign` with different
keys and of `create`, work on the same file without a lock, a temporary file or
a rename; each loads the whole file, computes, truncates the file and writes it
again through stdio, and each can be killed or meet an I/O error at any of those
calls.  Inside a run the hard part is position arithmetic: chunk walks steered
by sizes read from the file, an entry appended where a declared size says,
sizes patched back, and a stream whose errors are sticky and never looked at.

What makes each part correct:

* container: appending touches neither the signed data nor other entries, the
  sizes agree with the contents, a walk ends, a key signs at most once;
* commands on a file: a reported signature stays in the file, nothing but a
  complete payload is signed, damage is not made worse, exit status 0 is true,
  every run ends;
* create pipeline: every referenced file is in the bundle once, sizes of nested
  chunks agree, no limit is passed silently, scratch memory suffices;
* key generation: the two files belong together when the run succeeds, a signer
  that loads the private key meanwhile uses a whole one or none;
* parser: bytes are read as the definitions of UTF-8 and JSON say, what is JSON
  is accepted, the token array is never left, parents of tokens point to the
  enclosing structure;
* allocators: live blocks are disjoint and aligned, a block is in one list;
* streams: a put is all or nothing and never passes the end.

## 2. Modules

| module | models | kind |
| --- | --- | --- |
| `Bundle` | the container and what the code reads from and writes into it | operators |
| `SignBuffer` | `ECC_Sign` on a loaded file, one step per loop iteration and field | state machine |
| `SignBuffer_proofs` | theorems about `SignBuffer` | proofs |
| `Bundle_proofs` | what the operators of `Bundle` compute, by induction over positions and entries | proofs |
| `SignLedger` | what `sign` and `create` promise: a payload and the keys that signed it | abstract specification |
| `Signing` | processes on the shared file, one step per system call | state machine |
| `Signing_proofs` | theorems about `Signing`, with the refinement of `SignLedger` | proofs |
| `Cj` | tokens of a JSON text, `cj_value_ref`, and what a text means by its brackets alone | operators |
| `Cj_proofs` | how brackets nest in a document of any length, and what a look-up in its tokens finds | proofs |
| `CjParse` | `cj_parse`, one step per token | state machine |
| `CjParse_proofs` | theorems about `CjParse` | proofs |
| `CjLex` | the UTF-8 check, white space and `cj_next_token`, on bytes | operators |
| `CjText` | `CjParse` on texts of bytes, and what UTF-8 and JSON tokens are by definition | composition |
| `Create` | `DDF_CreateBundle` with everything it calls, one step for each look at a file | state machine |
| `Create_proofs` | theorems about `Create` | proofs |
| `KeyGen` | `keygen` and the key loading of `sign` on the two key files | state machine |
| `KeyGen_proofs` | theorems about `KeyGen` | proofs |
| `Memory` | the lists of `u_memory.c` and what each call makes of them | operators |
| `Arena` | growing buffers, arenas and scratch memory over `Memory` | state machine |
| `Arena_proofs` | what each call of `Memory` does to lists, sums and data; theorems about `Arena` | proofs |
| `MCCrypto`, `MCSignBuffer`, `MCSigning`, `MCCjParse`, `MCCreate`, `MCKeyGen`, `MCArena` | values for TLC | model checking |

`Signing` uses the operator `ECC_Sign` of `Bundle` as one step of a process, since
a run computes on private memory.  `SignBuffer` shows that the loops of the code
compute that operator (`RunsAsSpecified`).  `Signing` implements `SignLedger`.
`Create` reads its documents with `cj_value_ref` of `Cj`, on tokens whose parents
are those of the brackets, which `CjParse` shows to be what `cj_parse` yields
for every text it accepts (`ParentsEnclose`, theorem `ParentsHold`).  A creator of `Signing` enters where `Create` stops,
with the bundle to be written.  `CjText` composes `CjLex` and `CjParse`: the
documents of `CjParse` become what the lexer finds in a text, so that every
behaviour of `CjText` is one of `CjParse`.  A signer of `KeyGen` stops where those
of `Signing` go on, with the private key in memory.  `Arena` composes the owners
of memory with the operators of `Memory`; `Create` uses of it only the sum of what
is taken from the scratch arena.

### Bundle: cells instead of bytes

A file is a sequence of cells, one for each field of the format:

    RIFF size | DDFB size payload... | SIGN size (33 pub 64 sig)*

A chunk header is 2 cells (8 bytes), an entry 4 (101 bytes), so that sizes and
positions count cells; all guards and all arithmetic of the code are kept in
that unit.  Files are cut between cells, or inside a public key or a signature, the two
fields long enough for it to happen often: `Torn` is what is there of such a
field.  Nothing is cut inside a tag, a size or a length.  Reserved room is `Extra` cells
instead of 1024 bytes.  Positions do not wrap: the 32-bit sum at `ddfb.c` 1513
matters only for a chunk that claims almost 4 GB.  The cells of a payload may
carry any value, those of tags and lengths included.  Reading past the end of a
stream yields 0 as in `U_bstream_get_*`; a put past the end is dropped and so is
every later one (`PutField`).  `Signature` is an injective function of the key
and the hashed region (`uECC_sign_deterministic` over a hash without
collisions), `Verifies` is `uECC_verify`.

Each function of the code has its operator: `GetChunkRef` is the chunk walk,
a recursive function over positions; `Payload` the checks of `ECC_Sign`;
`ECC_FindSignature` and `ECC_AppendSignature` are as named; `ECC_Sign` combines
them.  `Room` is the size of the buffer, `EntriesOf` and `SignersOf` are the
properties' view of a file.

### SignBuffer: the loops

`pc` names the call `ECC_Sign` is in: the walks for RIFF, DDFB and SIGN (`riff`,
`ddfb`, `find`), the scan over the entries (`scan`), the walks of
`ECC_AppendSignature` (`sign`, `base`, `again`) and the puts (`entry`).
`walking` is TRUE inside `GetChunkRef`'s loop; `pos` is `bs.pos` of the stream in
use, `ok` its status, `chunk` the last `ChunkRef`, `out` is `out_ddf_size`.
`GetChunkRef` is called with the size of the file in `ECC_FindSignature` and
with that of the buffer elsewhere; `Size` says so.

### Signing: the processes

`disk` is the file.  A signer goes through `stat`, `load` (`fopen`, `ftell`),
`read` (`fread`, one step per stdio block), `sign` (`ECC_Sign` in memory), `open` (`fopen` with "wb", which
truncates), `write` (the whole stdio blocks `fwrite` hands to the kernel) and
`flush` (what `fclose` writes).  A creator starts at `open` with a finished
bundle.  `Exit` sets the exit status as `main` does.  `OpenFails`, `WriteFails`,
`FlushFails` are the failures of those calls, `KeyFails` the early returns
before the bundle is touched, `Crash` the end of a process by a signal.

A file is measured three times, by `stat`, by `ftell` and by the count of `fread`,
and read in between; other processes may empty it, write it or finish it between
any two of these.  `size` is what `stat` said (`Size`, in halves of a cell, so that
a file that ends in a torn field is shorter than one that ends behind it),
`OpenBundle` compares `ftell` with it, and `LoadFails` is the error when they differ or when the
file has become too short.  A reader that another one writes under gets the old
head and the new tail; when both have the same size it goes on with this
mixture.  A block that is written may end inside a key or a signature (`Parts`),
and so may the part of a block that gets to the file before an error.  A
block that is read ends between two cells: it could differ from what the model has only when the
file is emptied during the read, and such a run is `stale` and sets `mixed`.

`stale`, `raced`, `clash`, `mixed`, `fault` and `promised` are history variables that only
properties read: whether a process looked at a file that was being replaced or
has been replaced since, whether such a process wrote, whether two were
writing at once, whether one emptied the file while another was reading it, whether a
write was cut short, and which keys were reported as signed.

### Cj and CjParse: the parser

A document is a sequence of symbols, one per token: the punctuation characters,
`P` for a primitive, a text for a string, and `i` where characters form no
token.  A reference is the index of the code plus one, so that
`CJ_INVALID_TOKEN_INDEX` is 0 and `tokens[1]` is the first token.

One iteration of the loop of `cj_parse` is one step: it takes a token from the
array (`TokensExhausted`), then the lexer's answer (`InvalidToken`), then tries
the checks in the order of the code (`TwoTopThings`, `NotOpened`, `WrongPlace`)
and otherwise opens or closes a structure or takes the token as it is.
`EndOfText` is what follows the loop.  The parser keeps no stack of open
structures: it has a parent and one depth counter for objects and one for
arrays, which do not know in which order structures were opened.  It therefore
accepts texts that are no JSON, such as `[{]}` or `{"a":"b":"c"}`; the
properties say what holds of those too.  `cj_parse_init` may have refused the
text for its encoding (`"invalid_utf8"`); nothing is parsed then.

`Cj` also defines what a text means without a parser: the depth of a position,
the bracket that encloses it (`TokensOf`), the value of a key in an object
(`MemberValue`), and the JSON grammar (`IsJson`).

### CjLex and CjText: bytes

`cj_utf8_to_codepoint` gives the length of the first character of a text or 0;
the bits are put together as in the code, and `TooShort` are its comparisons.
`StringNext` is the automaton for strings, the state of which is what is expected
next; `PrimitiveMoves` is the one for primitives with the states of the code by
name, as a set of moves.  The loop over primitives ends at the first byte with
no move: `ValidEnds` is where it then gives the byte back, and a byte 0 is never
given back.  A primitive that the end of the text cuts off is taken whatever its
state, so `[1,tr` and `-` yield a token; the parser refuses the first since the array is not
closed, the second is accepted as a document.  `Lexed` asks for tokens until one
is none.  `TextOf` is the text of a string: two of them have names, all others
are one text.

`CjText` also says what the bytes mean by the definitions: the encoding of each
code point (`Encoding`), the grammars of numbers and strings (`IsNumber`,
`IsString`), and all ways to divide a text into tokens and white space
(`Readings`).  None of it follows the automata of the code.

### Create: the pipeline and the file system

A step ends where the code looks at a file, because an editor may change one
between any two looks (`Edit` writes, creates or removes a file).  `fs` has size
and time of change of each file, time 0 for none; the clock advances with each
edit.  `seen` is what the last look returned.  Where the code measures with
`PL_StatFile` and then loads, there are two steps (`StatConstants` and
`ReadConstants`, `StatItem` and `ReadItem`); a script is loaded before its time is
asked for (`LoadScript`, `StampScript`).  `PL_LoadFile` is two looks: `OpenFile` opens
and measures (`fopen`, `ftell`), the step that loads is the last of the calls that
`fread` makes.  What is loaded (`Loaded`) has the size of the first look and may have
bytes of each version of the file from the first look (`time`) to the last (`last`),
mixed in any way.  If the file is shorter by then (`Shortened`), `fread` comes back
short and the file counts as empty, or, when the file was replaced or removed and the
open one is read on, all is read; both happen in the model.

`pc` is the place: the base path (`start`), `DDF_LoadConstants` (`stat_constants`,
`read_constants`), the DDF (`load_ddf`), `DDF_MakeDescriptor` before and after the
identifiers (`describe`, `identify`), the scripts (`scan`, `stamp_script`),
`DDF_AddGenericItems` (`start_items`, the outer loop `subdevices`, the inner loop
`items`, `read_item` within `DDF_ResolveGenericItem`), `DDF_AddConstants` and
`DDF_StoreBundle`.  `at` is the cursor of the loop a run is in, `subdev` the
reference of the subdevice, `cache` the generic items already known.

Three things are the same for all places.  `Demand` lists what a place allocates
from the 32 MB arena, with the sizes and the alignment of the code: if it does
not fit, the assertion in `U_ScratchAlloc` ends the run (`ScratchExhausted`).
`Succeeds` is the condition under which the functions do not return early
(`GiveUp`).  `marks` are the positions that `U_ScratchRestore` goes back to; the
code does not restore after a script, and neither does the model.

A stream is a position, a status that is sticky, and the fields put, each with
its length and place; sizes that are patched back are changed in place.  The
bundle has 1 000 000 bytes, DESC 8 192 000, the filtered constants 16 383.  The
status of the stream for DESC is never initialised (`ddfb.c` 1074): it is OK or
not.

Abstractions.  The documents are sequences of tokens as in `Cj`, and only the
size and time of their files change, so that `tokens` is computed once; that the
text of a DDF is mixed of two is noted in its contents but not parsed.
Strings have no quotation marks and no backslashes in them, so that the search
for `"script"` in the text finds strings.  The walk up to the base directory is
the existence of one file, `base`.  A path in the DDF leads to a file
(`ScriptFile`, `ItemFile`); two items with different names can lead to one, as
`/` becomes `_`.  Different paths and constants have different hashes.  Item
names fit into the path buffer and there are fewer than 1024 of them, the size
of the cache, and fewer than 2048 constants.  The clock is 1 for the files a run
finds (`CreateAssumption`), so that an edit is always later than they.  A document
that lexes and has a structure or a separator ends with a closing bracket
(`InputAssumption`): `cj_parse` refuses the others before anything is looked up.
Of an item that was empty when it was measured no byte is put, whatever it
has got by the time it is loaded.

### KeyGen: two files

A file is a sequence of cells that name the key they belong to; the key a run
makes is named by the process and its run.  `keygen` goes through `source`, `draw`
and `scan` (`PL_FillRandom`, called by uECC: open the source, read, look for a
zero), `open_private`, `close_private`, `open_public`, `close_public`
(`PL_WriteFile` twice).  `fopen` empties a file and `fclose` writes it, since it is
smaller than a stdio block.  The second file is tried whether or not the first
could be written; exit status 0 is given when both were.  A signer goes through
`stat`, `load` and `read` like the bundle in `Signing`, and `sign` stands for the
rest.  A missing and an empty file are not told apart, as no reader does.

The key name decides the paths.  With 4092 to 4095 bytes the private path fits
and `.pub` does not, so that `U_sstream_put_str` drops it and the public key is
written over the private one, with exit status 0 (`"long"`).  With 4096 or more
nothing is put at all and the path buffer is used as the stack left it
(`"longer"`): the model lets `fopen` fail or create a file somewhere else.  README.md line
42 speaks of two files; `PairReported` is stated for `"short"` names, and
`WholeKeysUsed` excludes `"long"` ones, where a signer can meet a public key at the path of
the private one.

`alone`, `cut`, `spoilt` and `last` are history variables: which runs nobody
overlapped, which lost data in `fclose`, whether that mixed two keys in one file,
and which run ended last.

### Memory and Arena: who owns what

`Memory` keeps the state of `u_memory.c` as one record: for each block that malloc
returned its size, the time it was freed and its contents; two lists and a sum
for each track; and `_u_mem`, the list of `U_calloc`.  The operators have the names
of the functions (`Taken` is `U_AllocTracked`, `Collected` is
`U_MemoryGarbageCollect`) and map such records to such records, because
`U_BufferResize` makes two calls.  `Candidates` is the set of blocks a call may
return: a free block of the track that fits, or a new one.  Lists are sets, as
their order only decides which of these it is.  `Doubled` is the doubling of the
size in an unsigned: a request above half its range never ends (`Hangs`), one
above the last track traps (`TooMuch`).

`Arena` has the variables of the owners: `buffers` (`U_buffer`), `arenas`
(`U_Arena`; one is `_scratch_arena`), and, as history, what an owner has written
(`wrote`), what users of an arena still hold (`pieces`) and the functions that
have noted a scratch position (`frames`).  A function restores its position when
it returns (`Leave`) or returns early without (`LeaveAsIs`, as
`DDF_ResolveGenericItem` does when a file cannot be read); its own pieces then last until its
caller restores.  Owners keep the rules the code keeps: an arena is freed when no
function uses it, a buffer is resized or freed by its owner.

Abstractions.  malloc does not fail and returns blocks aligned for anything.
An arena over static memory (`U_InitArenaStatic`), which nothing sets up, is left
out.  What the model makes visible of parts that `ddfb` does not reach today:
`U_free` takes a block off its list and never calls free; `U_MemoryFree` keeps
the sizes of the tracks, so that the assertion of a second `U_MemoryInit` would
fail; a freed block that is larger than the next request by 128 bytes or more
is not used again for it; `U_AllocArena` leaves at least one byte of an arena unused.
`U_MemoryGarbageCollect` is called by no command.

## 3. What TLC checks

| run | configuration | shows | bound |
| --- | --- | --- | --- |
| `sign_buffer` | `MCSignBuffer.cfg` | one run of `ECC_Sign` on every file of `MCInputs` | bundles with up to two entries cut at every cell or inside a key or signature, a foreign chunk between DDFB and SIGN, entries of other formats or payloads, a SIGN chunk with a hole in it, files that are no bundles; `Extra` = 8 |
| `sign_sequence` | `MCSigning_sequence.cfg` | runs after each other implement the ledger | 3 signers with 2 keys, 1 creator, 2 runs each |
| `sign_race` | `MCSigning_race.cfg` | concurrent runs that read and write in pieces and see half written files | 3 signers with 2 keys, 1 creator, 1 run each, blocks of 6 cells |
| `sign_faults` | `MCSigning_faults.cfg` | failing calls and kills at every step | 2 signers, 1 creator, 2 runs each, one at a time, blocks of 4 cells, `Extra` = 6 |
| `cj_parse` | `MCCjParse.cfg` | the lexer and the parser on texts that are JSON, nearly JSON and anything | JSON of up to 7 tokens, objects of two members with values of up to 5 and 2, all of these with one token missing, every other text of up to 4 tokens; strings `k` and `m`; 13 places in the array; bytes: see below |
| `create` | `MCCreate.cfg` | the pipeline while files change | 22 DDFs, 4 constants files, 3 states of the disk, one edit of any file at any step to a size of 0, 500 or 1000000 bytes; 20 and 22 references to a script |
| `keygen` | `MCKeyGen.cfg` | key pairs and the signers that load them | 2 keygens, 1 signer, 1 run each, all lengths of names, an earlier pair in whole or in part, failing calls and kills at every step; keys of 2 and 3 cells |
| `memory` | `MCArena.cfg` | owners of tracked memory in every order of calls | 3 blocks of 2 to 32 bytes, 3 tracks, 2 buffers, 2 arenas of 13 bytes, nested functions up to 2, requests of 0, 7, 11, 20 and 40 bytes, 2 moments |
| `sign_exit_code` | `MCSigning_exit_code.cfg` | finding 1 below | |
| `create_exit_code` | `MCSigning_create_code.cfg` | finding 2 | |
| `create_incomplete` | `MCCreate_incomplete.cfg` | finding 3 | |
| `create_descriptor` | `MCCreate_descriptor.cfg` | finding 4 | |

Why the bounds are enough.  Two entries give a first, a last and a next one;
cuts at every cell reach each guard of the walks and the scan; a foreign chunk
has its own walk step.  Two runs of each process let a second run meet what the
first left behind, which is where duplicates come from; three signers let two
race while a third has finished, and two of them share a key.  In the race one run of each is
enough, since the third signer meets what the others left.  With `Extra` = 6, room for an
entry and a chunk header, an entry does not fit behind a file that was cut far enough.  The payload in
the file at the start has 3 cells that look like a SIGN chunk, so that a walk that
does not step over a DDFB chunk is led astray; its bundle is 7 cells without, 13 with one
and 17 with two entries.  That of a creator has 1 cell, and 3 in the race, so that its bundle has the size of the first one
and a reader may mix them.  A block of 4 cells, 6 in
the race, cuts bundles inside the header, the payload and the entries.  JSON
of 7 tokens nests structures three deep and has an object in an array and the
other way round; two members, the first with a structure of its own, are what
look-ups must tell apart; a text with a token missing meets every check of the
parser, and 13 places make the longest texts exhaust the array.  The bytes are
those the automata tell apart: up to 4 of `0 1 - . e +` and a comma behind
nothing, inside an array and behind `-1.0`; up to 4 of `k n " \`
and a control character inside quotes, and up to 5 behind `\u`; the three words,
their beginnings, and each with a byte changed or doubled; characters of 1 to 4
bytes with the first and last byte of every range of UTF-8, surrogates, overlong
forms and cut ones.  The DDFs of
`MCCreate` meet every early return of `create`: missing keys, arrays of unequal
length, a string beside an array, constants that are unknown, inside another object,
of 16382 characters in sum or of more, or not in upper case, missing files, items that are no objects, several
subdevices, members behind the items, paths of 1024 and 4096 characters, more
scripts than the arena holds.  With one edit each pair of looks at a file can
see a change between them, of the same size or of another, also while it is being loaded; the disks make the
bundle overflow in the scripts or in the items.  Two keygens overlap in every
way, and one run each is enough as an earlier pair may be there; keys of two
cells are cut between and before them.  Three blocks let a buffer move while
another one takes up what it left; the last track holds blocks of 8 and 16
bytes, so a free block may be too small or, by the slack of 4, too large; 20 and
40 bytes are refused and endless, 0 is the smallest size.

Properties and what would break them:

* `PayloadKept`, `SignaturesKept`, `SizesAgree`, `RoomSuffices`, `AssertHolds`,
  `SignedOnce`, `Terminates`, `RunsAsSpecified`: position arithmetic of one run.
  `RoomSuffices` and `SizesAgree` assume `SmallTear`: no more is missing from the
  file than the reserved room makes up for.  Without it `ECC_AppendSignature`
  reports success although its puts were dropped, and asks for more bytes to
  be written than the buffer has.
* `NothingLost`: signatures are lost only through stale data, two writers at once
  or an interrupted write, none of which the code guards against; the property
  says that these are the only ways.
* `EntriesVerify`, `OnlyGenuineSigned`: a reader of a half written file rejects
  it because its DDFB chunk is not complete.  A wrong payload can get signed only when
  two writers mix their files (`clash`) or when one empties the file that another
  one is reading (`mixed`; see below).  `EntriesVerify` holds
  at every moment, also while a run writes: an entry that has been put in part
  has no signature (0) or the beginning of one (`Torn`), never a wrong one.
* `FoundStaysFound`: after kills and errors, a run of `sign` opens for writing only
  what it has read as a bundle, and each signature that `ECC_FindSignature` found in
  it is found in what it writes, also when its own entry does not fit or comes to
  stand behind a hole.  It does not say that the damage gets smaller.
* `KeepsLedger`: refinement of `SignLedger`; while a run writes, the abstract
  bundle is the one being written.
* `SignReportsTruth`, `CreateReportsTruth`: exit status 0.
* `JsonAccepted`: the checks, in particular the comparison of all commas with all
  colons, refuse no JSON text.
* `ParentsEnclose`, `LookupsAgree`: parents and look-ups agree with what the
  brackets of the text say; the first while parsing, of any text accepted so
  far, the second of every accepted text.
* `AssertHolds`, `MembersComplete`: of any text, the assertions of `cj_parse` on
  parents, and what `cj_value_ref` relies on when it returns the token after a
  name separator.
* `LexerAgrees`: the encoding is refused exactly if the text is not UTF-8; a
  text that is JSON in some reading is read that way; what is read without an
  error is a reading of the text, or of one that completes its last primitive.
* `PairReported`: exit status 0 of `keygen` means a complete pair, even if the
  files were in any state before, provided no other run overlapped it and no
  `fclose` failed, which is not looked at.
* `WholeKeysUsed`: a signer does not use a key that was written in part or in
  turns, by keygens that overlap, fail or are killed: `stat`, the size of the open file
  and the count of `fread` agree only for a whole one.
* `RunsEnd`: every run of `keygen` ends.
* `ListsSound`: each block is in the one list where the calls look for it, and
  the sums are those of the blocks.
* `OwnersApart`, `DataKept`: memory that is used again has room, no second owner and
  nothing of an earlier one in it; a buffer keeps what was written when it moves.
* `PiecesApart`: what a function has allocated is out of reach of all later
  allocations as long as it may use it.
* `ChunksAgree`, `ScriptsBundled`, `ItemsOnce`, `TextsComplete`: what a reader finds
  in a stored bundle: chunks that follow each other by their sizes, each script
  in the order of the DDF, each item once, each manufacturer name with its model,
  each constant with its value.  They compare with the text of the DDF and the
  nesting of its brackets, not with the walks of the code.  `TextsComplete` says
  what is true of limits: DESC is complete if the status of its stream was OK and
  empty if it was not (finding 4), and constants are complete when they fit into 16382
  characters, up to the last one, and cut without a word when they do not.
* `ContentsStamped`: that a stored file is of one version is not true of `PL_LoadFile`, and
  not claimed.  What is stored of it is as long as it was when it was opened, and the
  time stored errs in a known direction: that of an item and of the constants is not
  later than the file was when it was opened, that of a script and of DESC not earlier than
  it was when it was read.
* `GoodIsBundled`: no well-formed DDF within the limits is refused.  The
  limits are spelled out in `GoodText`, `GoodReferences` and `GoodFiles`; twenty
  scripts are within the arena, whatever their size.
* `Advances`: each step opens the file to be loaded or leads to a later place or to a
  later token, so that a run ends.  This says more than liveness would and needs no fairness, but for
  steps being taken; TLC's check for deadlock adds that there is one.

Each property of a passing run has a mutant in `PROJECT.json`: a variant of a
definition with a plausible error, kept in the module next to the original,
under which TLC finds the property violated.

Fairness.  `WF_vars(Step)` in `SignBuffer`: the process is scheduled.
`WF_vars(Advance(p))` for each process in `Signing`: in addition, system calls on
a local file return.  `KeyGen` has the same for each process and
`SF_vars(DrawGood(p))`: a draw of 32 random bytes has no zero with a probability
of 88 %, so among infinitely many draws one succeeds.  This needs the source to yield
bytes: `PL_FillRandom` ignores the result of `fread` and would loop for ever on
one that yields none.  Nothing is assumed about failures, kills or the start of
runs.

### Disagreements with the documentation

1. `sign` exits with 0 when `PL_WriteFile` failed (`ddfb.c` 1596): the file may
   be unchanged, empty or cut, although README.md line 50 says that the command
   adds the signature.
2. `PL_WriteFile` does not look at what `fclose` returns (`pl_posix.c` 138):
   `create` exits with 0 for a bundle that is not on the disk.
3. README.md line 34 says that `create` bundles all files the DDF refers to.  The
   loop over the items of a subdevice runs on to the end of the document
   (`ddfb.c` 791 waits for an end of an object whose parent is the subdevice, and
   the parent of the subdevice's own end is the array), so that the items of
   the next subdevices are not looked at.  They are found if an object follows
   the items in the same subdevice.  Scripts whose path has 1024 characters or
   more are passed over as well.
4. The status of the string stream for DESC is never set (`ddfb.c` 1074).  If the stack
   holds an error code there, every put is dropped, `DDF_MakeDescriptor` reports success
   and the bundle is stored with an empty DESC chunk, although the comments at `ddfb.c` 403,
   466 and 480 call the version, the product and the device identifiers required.

Three more are visible in the passing runs, as the exceptions that their properties
make:

* The comment at `ddfb.c` 895 says that 16K are enough for the filtered constants.  Two
  names and values of 4095 characters are more; the text is stored without its end
  (the second case of `TextsComplete`).
* `sign` reads a file that is larger than a stdio block by several reads (`pl_posix.c`
  101).  When `create` writes a bundle of the same size in between, `sign` signs the
  old head with the new tail and writes this mixture back (`mixed` in `OnlyGenuineSigned`).
* The usage text (`ddfb.c` 1646) says that a signature is appended only if it does not
  exist yet.  `NoDuplicates` is about files no run was killed on: a killed run can leave the file
  cut behind a SIGN header that announces an entry, the next signer puts its entry where that
  chunk ends, behind a hole of zeros at which `ECC_FindSignature` stops (`ddfb.c` 1358), and the
  same key signs again.

## 4. What TLAPS proves

`SignBuffer_proofs` proves, for every set of input files, keys, reserved room
and signature function that satisfy the assumptions, as theorems of `Spec`:

* `SignTypes`: the type invariant; among others the patched sizes are never
  negative and the buffer keeps its length;
* `SignKeepsPayload`: `PayloadKept`;
* `SignAsserts`: `AssertHolds`, in particular the SIGN header just put is found.
* `SignAsSpecified`: `RunsAsSpecified`, the loops and the puts compute what the
  operators of `Bundle` say, which is what `Signing` relies on;
* `SignRoomSuffices`, `SignSizesAgree`, `SignSignaturesKept`, `SignSignedOnce`:
  `RoomSuffices`, `SizesAgree`, `SignaturesKept` and `SignedOnce`, for files in which
  an entry may hold any signature, and the SIGN chunk may be cut off or followed by
  anything where the property does not say otherwise.

The assumptions are named in `Bundle` and `SignBuffer`: the four-character codes
differ, the lengths are positive, keys have different public keys, there is
room for a header and an entry, files are sequences of numbers with either
DDFB or nothing behind the RIFF header (`InputAssumption`: this is how
`DDF_CreateBundle` lays a bundle out), and signatures are numbers.

The argument.  None of the first three is inductive.  `IInv` adds `Placed`, which says
where the walk and the puts are: walks for RIFF and DDFB stand at the start of
the chunk they look for (they find it, or nothing, at once), walks for SIGN
behind the RIFF header are either still on the DDFB header or at or behind its
end, the SIGN chunk found lies behind the payload, and the stream position of
the puts is behind `chunk.offset`.  With it, each put goes behind the payload
(lemma `PutBehind`), hence headers that walks depend on do not change
(`AcceptedUnchanged`), hence the walk for the chunk just put steps over the
DDFB chunk and finds it.  There is a lemma for each action, `Steps` combines them
and `Inductive` concludes.

For the others `LoopInv` adds what the loops have computed so far: what the walk
under way will find is what the whole walk finds in the loaded file, and the
entries not yet scanned decide whether ECC_Sign finds the signature.  Both are
recursive functions, of which `ChunkRefStep` and `ScanOne` give one step; that there
is such a function at all is proved by induction over positions.  `Decided` says what
each call has established about the file, `CellAfter` which cell is where after n puts,
whether they fitted or not, and `Ended` that at the end one of three verdicts holds.
The theorems about the file to write then do not look at the steps any more:
`WrittenForm` gives its cells, `ReaderFinds` the SIGN chunk in it (`SameWalk`: two files
with the same cells up to a chunk have the same walk to it).  For `SignedOnce`, an uncut
bundle is a row of entries; by `CellAssumption` no entry can begin inside another
(`Aligned`), by induction the scan finds a hit in a row if there is one (`ScanRow`), and
the file that is written is such a row again, with one entry more.

`CjParse_proofs`, with the lemmas of `Cj_proofs`, proves, for every set of documents and strings and every size of
the token array (assumptions: a document is a sequence of symbols, texts are
none of the punctuation symbols):

* `TypesHold`: the type invariant, in particular the loop stays inside the array
  and a parent is an earlier token;
* `AssertionsHold`: `AssertHolds`;
* `MembersHold`: `MembersComplete`;
* `ParentsHold`: `ParentsEnclose`, the parents the parser stores are the brackets that
  enclose the tokens;
* `LookupsHold`: `LookupsAgree`, `cj_value_ref` finds the first member with a name.

The argument.  `AssertHolds` is not inductive: after a closing bracket the parent
is whatever the closed structure's parent was, and counters say nothing about
that.  `Stack` says that the parents, followed from the current one, spell a
sequence of as many structures as the counters add up to; opening appends to
it, closing drops the last, whatever the kinds.  `Placed` says that every
separator but the last token has all its neighbours, and that a text with a
separator has a structure, so that the check after the loop rules out a
separator at the end.

`ParentsEnclose` relates the parser to `TokensOf`, which is defined by depths alone.
`Cj_proofs` shows, by induction over positions, how depths behave: one up behind an
opening bracket, one down behind a closing one, and the brackets that enclose a
position are those still open there.  The inductive invariant says that
the parent the parser is at encloses its position, and that every open structure is
one of the brackets still open; the counters then cannot disagree with the depth.
`LookupFinds` follows for any document in which each separator stands where
`MembersComplete` says, and `Create_proofs` uses it for the DDF.

`Signing_proofs` proves for any numbers of processes, keys and runs, blocks of any size,
failures and kills, and any payloads, of which a foreign one may hold cells that
look like tags or chunks:

* `SigningTypes`: `TypeOK`;
* `SigningGenuine`, `SigningEntries`: `OnlyGenuineSigned` and `EntriesVerify`;
* `SigningNothingLost`: `NothingLost`;
* `SigningNoDuplicates`, `SigningKeepsLedger`: `NoDuplicates` and the refinement of
  `SignLedger`, for the configurations in which TLC checks them: one run at a time, no
  failures, no kills (`Sequential`).  Finding 2 shows that `NoDuplicates` is false with
  failures.

Assumptions: those of `Bundle`; a public key and a signature differ in length, and no
public key reads as one of these two lengths (`CellAssumption`: 33 bytes of a key are
not the 16 bit number 33 or 64), without which a reader out of step could take cells
inside an entry for an entry; the file at the start is a bundle without signatures
(`InitialAssumption`); a signature is a number (`SignatureNumbers`, a hypothesis
of the theorems since TLC cannot range over all regions).

The argument.  `Bundle_proofs` says what a reader makes of files of three forms.
`Full(f, P)` is a complete bundle of payload P: the DDFB chunk, then nothing or a
SIGN chunk with a number of whole entries to the end of the file.  `Tidy(f, P)` is
what interrupted writes and later signers can leave of one: it begins like the
bundle, and behind the payload is, as far as the file goes, a SIGN chunk in which every
cell is zero, torn or what an entry has at that place.  On these the chunk walk finds what is there, the scan finds
a key exactly if one of the entries has it, and `ECC_Sign` gives a tidy
or full bundle of the same payload with the entries it had and the new one;
a walk takes a number of steps that depends on the file, so these are proved
by induction over positions (the natural numbers below the size of the file are
well founded).  `FilesInv` is the inductive invariant behind `SigningGenuine` and
`SigningEntries`: unless two runs had the file open for writing at once (`clash`), the
file is a piece of what is being written (`PartAt`, `OverlayPiece`); unless one emptied it
under a reader as well (`mixed`), the disk is tidy, what is being written is tidy and
ends no earlier than the payload, and what a reader has so far, continued with what the
file holds now, is tidy (`ReadTidy`): a write that goes on only adds cells and changes none
that is complete (`Grown`), and a reader wants no more than the file had when it was opened.
So a reader of a prefix either rejects it or has a whole DDFB chunk of one payload.  `NothingLost` needs what a run remembers too:
`LooksInv` says that a run which is not stale has in memory what the disk holds, and
`KeepsPromises` that what was promised is in the file, or in the memory of the
one run that is writing it.  For the ledger, `LedgerInv` says that the bundle, on
disk or being written, is full and its keys are distinct; each action of `Signing`
then is a step or a stutter of `SignLedger`, action by action.

`KeyGen_proofs` proves `KeyGenWholeKeys` (`WholeKeysUsed`) and `KeyGenPair`
(`PairReported`) with no assumption but those of `KeyGen`.  For the first, `WholeInv` says
that the file at the path of the private key is a part of one key, cut anywhere: a run empties
the file before it writes and writes once, so that two runs that overlap replace
each other's key and mix them only when one fails in the middle (`spoilt`).  For the
second, `PairInv` follows a run that is alone through its stages.

`Arena_proofs` proves `ArenaListsSound` (`ListsSound`), `ArenaOwnersApart`
(`OwnersApart`), `ArenaDataKept` (`DataKept`) and `ArenaPiecesApart` (`PiecesApart`), for any numbers of
blocks, tracks, buffers and arenas and any sizes, provided the smallest size is
in the range of an unsigned (it is 32): with a smallest size of 2^32 a request of 0 bytes
would round to a block of 0 bytes.  Its first half has a lemma for each call: what it
does to the lists, to the sums and to the blocks others own; the sums are folds,
and that they do not depend on the order is shown by induction over subsets.
`OwnersInv` joins them: every block that malloc gave is in one list,
that of its track, or with `U_calloc`, or taken off by `U_free`; an owner's block
is allocated, and to nobody else; a buffer's block holds what its owner wrote.
`PiecesInv` says that pieces lie one after another below the position of the
arena and that frames are nested: positions and numbers of pieces grow from a
frame to the next, which is why restoring one leaves the pieces of those below alone.

`Create_proofs` proves for any set of DDFs and constants files, any disks, paths and sizes,
and any number of edits at any step:

* `CreateTypes`, `CreateAdvances`: `TypeOK` and `Advances`;
* `CreateChunks`: `ChunksAgree`;
* `CreateStamps`: `ContentsStamped`;
* `CreateScripts`, `CreateItems`: `ScriptsBundled` and `ItemsOnce`.

The argument.  `Typed` adds to `TypeOK` what a place can rely on: how many positions are
noted and in which order (a restore never goes up), that the cursor and the
subdevice are tokens of the DDF, and that a stream's position is the sum of what was put.
`Reading` says that at the places behind `identify` the DDF has been accepted and that lookups went by it;
with it a lookup in the loop over items never leads to an earlier token, which `Advances` needs.

`Shaped` is the invariant behind `ChunksAgree`: a bundle whose status is OK has the ten
fields of its head and nine fields for each of n chunks (`Bundled`), each at the
place where the one before ends, with the sizes of all EXTF chunks patched and the
two of the head still 0.  `ExtfPut` is the step: eight puts and one patch, all or none.  `StoreBundle` patches
the last two (`StoredWhole`), and `Agree` reads the property off.

Of the bundle as a list of chunks (`BundleChanges`: a step starts it, leaves it as it is, or adds one
chunk) the other invariants say more.  `ChunksStamped`: each chunk of a file has the
length of its contents and a time on the right side of them; `TimesNoted` gives the
times of what is open or was read, as the clock only goes forward.  `ConstantsDated` says the same
of constants.json, and `DescDated` follows the time of the DDF from `describe` through the
text of DESC into the bundle.  `ScriptsPut`: the scripts
put so far are in the order of the keys before the cursor (`KeysDone`); `OrderIs` says that numbers
listed in increasing order are what `InOrder` makes of their set.  `ItemsPut`: the files of the items
put, each once, are the cache without the one being read (`Pending`).  `ItemsMet`: each
is one that some subdevice has, and the loop is either still in the first subdevice, with all items before the
cursor in the cache, or has passed them all (`FirstDone`).  None of them is inductive
without `Typed` and `EarlyPlaces` (the cache is empty and the cursor at the start until
the identifiers are done).

Only model-checked:

* liveness (`Terminates`, `RunsEnd`), which is out of the prover's reach;
* `FoundStaysFound`, checked with failures and kills at every step;
* `JsonAccepted` and `LexerAgrees` of the parser, which compare with a grammar over all
  divisions of a text: that is induction over data;
* `TextsComplete`, since what a sum of lengths over a set or a selection from a sequence
  gives is again such an induction;
* `GoodIsBundled`, for the same reason: the room in the bundle is a sum over the files.

## 5. Not modelled

* `utils_time.c`: `create` writes the time of a file with `U_TimeToISO8601_UTC`.
  The calendar is that of gmtime and what is left is padding of decimal fields;
  `Create` keeps the instant and the length.  The way back, `U_TimeFromISO8601`, is
  called by no command.
* `u_sstream.c` beyond putting strings and the test for the end: conversions of
  numbers and searches are pure functions of a string; in `Create` strings are values.
* `u_bstream.c` beyond what `sign` and `create` use: widths of 16 and 64 bits and
  numbers of variable length are called by no command.
* `utils.c` beyond the growing buffers: copying and comparing memory, UTF-8 copies
  and random numbers.  `u_base64.c`, `u_math.c` and `utils_libdl.c` are not called.
* `pl_windows.c` makes the same calls as `pl_posix.c` through another interface.
* The 32-bit sum at `ddfb.c` 1513 wraps only for a chunk that claims almost 4 GB;
  positions of the model do not wrap.  The cache of generic items at `ddfb.c` 661
  has 1024 places and no check; the checked DDFs have a few items.
* Failures of malloc: the code does not look for them everywhere, and memory that
  is not there is not a state of the model.
* Hashing and elliptic curve arithmetic are external.  Printing is left out.

## 6. Plan

1. done: `Bundle`, `SignBuffer`, `SignLedger`, `Signing`, first theorems.
2. done: `Cj`, `CjParse` with theorems, `CjLex` and `CjText`.
3. done: `Create`, `KeyGen`, `Memory` and `Arena`.
4. done: theorems for `SignBuffer`, `Signing`, `KeyGen`, `Memory` and `Arena`.
5. done: theorems for `Create`, `ParentsEnclose` and `LookupsAgree` of `CjParse`.
6. open: `TextsComplete` and `GoodIsBundled`, with sums in a form that can be proved about.
