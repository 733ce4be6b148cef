-------------------------------- MODULE Create --------------------------------
(***************************************************************************)
(* create: DDF_CreateBundle from the command line to the stored bundle, one *)
(* step for each look at a file, while an editor may change the files.     *)
(* Lengths and positions are bytes; contents are what a reader would find. *)
(***************************************************************************)
EXTENDS Cj, SequencesExt, FiniteSetsExt

CONSTANTS
  Inputs,          \* [ddf, consts : documents, json : whether the name ends in .json]
  Disks,           \* file systems to start with
  Files, NoFile,   \* files, and one that never exists
  ScriptFile,      \* the file a path in the DDF leads to
  ItemFile,        \* the file of a generic item, '/' in its name replaced
  TextLen,         \* characters of a text
  Dollar,          \* texts that start with '$'
  Upper,           \* those that go on with an upper-case letter
  Sizes, MaxEdits  \* what the editor writes, and how often

PathMax     == 4096
ValBuf      == 4096
FileMax     == 1000000      \* U_MEGA_BYTES(1)
BundleSize  == 1000000
DescSize    == 8192000
ConstSize   == 16383
CacheBytes  == 16384        \* MAX_CONSTANTS hashes
TokenBytes  == 524256       \* MAX_CJ_TOKENS tokens
ScriptMax   == 1024
ScratchSize == 32000000
TimeLen     == 20           \* 2023-01-08T17:24:24Z

ASSUME CreateAssumption ==
  /\ {"subdevices", "items", "name"} \subseteq Texts
  /\ {"ddf", "base", "constants", NoFile} \subseteq Files
  /\ ScriptFile \in [Texts -> Files] /\ ItemFile \in [Texts -> Files]
  /\ TextLen \in [Texts -> Nat]
  /\ Upper \subseteq Dollar /\ Dollar \subseteq Texts
  /\ Disks \subseteq [Files -> [size : Nat, time : Nat]]
  /\ \A d \in Disks : d[NoFile].time = 0 /\ \A f \in Files : d[f].time \in 0 .. 1
  /\ Sizes \subseteq Nat /\ MaxEdits \in Nat

VARIABLES
  input,           \* what create is called with
  tokens,          \* what cj_parse makes of the two texts, which stay the same
  fs,              \* size and time of change of each file, time 0 if there is none
  edits,           \* changes by the editor
  pc,
  scratch,         \* _scratch_arena.size
  marks,           \* positions to restore
  ss,              \* the text of DESC
  bs,              \* the bundle
  ddf, constants,  \* what was loaded of the DDF and of constants.json
  name,            \* path of a script or name of an item
  seen,            \* what was last loaded of, or asked about, a file
  opened,          \* the file PL_LoadFile is to read: size and time when it was opened
  at,              \* next token of the DDF
  subdev,          \* the subdevice whose items are added
  cache,           \* items already added
  out              \* the bundle file

disk == <<input, tokens, fs, edits>>
loaded == <<ddf, constants, name, seen>>
place == <<at, subdev, cache>>
vars == <<disk, opened, pc, scratch, marks, ss, bs, loaded, place, out>>

-----------------------------------------------------------------------------
\* Streams: the position, whether the status is OK, and the fields put.
Stream(ok) == [pos |-> 0, ok |-> ok, fields |-> <<>>]

Field(is, len, val) == [is |-> is, len |-> len, val |-> val, at |-> 0]

Tag(tag)        == Field("tag", 4, tag)
Size(width, n)  == Field("size", width, n)
Time(time)      == Field("time", TimeLen, time)
Data(len, val)  == Field("data", len, val)
Mark(len)       == Field("punctuation", len, {})

\* Mutant of Put: the bound is passed.
PutUnchecked(s, f, size) ==
  IF ~s.ok \/ s.pos > size THEN [s EXCEPT !.ok = FALSE]
  ELSE [s EXCEPT !.pos = @ + f.len, !.fields = Append(@, [f EXCEPT !.at = s.pos])]

\* A put that does not fit is dropped with all that follow; of bytes put one by
\* one the first may fit, but a bundle that overflowed is not stored.
Put(s, f, size) ==
  IF ~s.ok \/ s.pos + f.len > size THEN [s EXCEPT !.ok = FALSE]
  ELSE [s EXCEPT !.pos = @ + f.len, !.fields = Append(@, [f EXCEPT !.at = s.pos])]

PutAll(s, fields, size) ==
  LET after[n \in 0 .. Len(fields)] ==
        IF n = 0 THEN s ELSE Put(after[n - 1], fields[n], size)
  IN  after[Len(fields)]

\* Mutant of Patch: the size counts itself.
PatchWithSize(s, pos) ==
  IF ~s.ok THEN s
  ELSE [s EXCEPT !.fields = [i \in DOMAIN @ |->
          IF @[i].is = "size" /\ @[i].at = pos THEN [@[i] EXCEPT !.val = s.pos - pos]
                                               ELSE @[i]]]

\* Go back to the size field at pos, put what follows it, and return.
Patch(s, pos) ==
  IF ~s.ok THEN s
  ELSE [s EXCEPT !.fields = [i \in DOMAIN @ |->
          IF @[i].is = "size" /\ @[i].at = pos THEN [@[i] EXCEPT !.val = s.pos - (pos + 4)]
                                               ELSE @[i]]]

\* What a file has, and in loaded bytes the versions they may be of: those from
\* the time of the file when it was opened to its time when it was read.
Content(file, of) == [file |-> file, size |-> of.size, time |-> of.time, last |-> of.time]
Loaded(file) == [file |-> file, size |-> opened.size, time |-> opened.time, last |-> fs[file].time]

\* An EXTF chunk: type, path, time of change, data.
PutExtf(s, type, path, time, data) ==
  Patch(PutAll(s, << Tag("EXTF"), Size(4, 0), Field("type", 4, type),
                     Size(2, path.len), path, Size(2, TimeLen), Time(time),
                     Size(4, data.len), data >>, BundleSize),
        s.pos + 4)

-----------------------------------------------------------------------------
\* The arena: where an allocation ends, aligned to 8, or Exhausted.
Exhausted == -1

Alloc(pos, size) ==
  LET p == ((pos + 7) \div 8) * 8
  IN  IF pos # Exhausted /\ ScratchSize - p > size THEN p + size ELSE Exhausted

Allocs(pos, sizes) ==
  LET after[n \in 0 .. Len(sizes)] == IF n = 0 THEN pos ELSE Alloc(after[n - 1], sizes[n])
  IN  after[Len(sizes)]

-----------------------------------------------------------------------------
\* The documents.
Parses(doc) == \A i \in DOMAIN doc : doc[i] # "i"

\* Inputs are texts as cj_parse takes them: one it accepts ends with a closing
\* bracket if it has a structure or a separator.
ASSUME InputAssumption ==
  \A in \in Inputs :
    /\ in.ddf \in Seq(Symbols \cup {"i"}) /\ in.consts \in Seq(Symbols \cup {"i"})
    /\ Parses(in.ddf) /\ (\E i \in DOMAIN in.ddf : in.ddf[i] \in Begins \cup {":"}) =>
         in.ddf[Len(in.ddf)] \in Ends

T == tokens.ddf

\* cj_copy_ref: the text of a token if it fits.
Copies(sym) == sym \notin Texts \/ TextLen[sym] < ValBuf
LenOf(sym)  == IF sym \in Texts THEN TextLen[sym] ELSE 1

NotFound == "i"

\* Mutant of ResolveConstant: the search ends one token early.
ResolveConstantShort(constant) ==
  LET C == tokens.consts
      keys == {i \in 2 .. Len(C) - 4 :
                 /\ C[i].sym = constant /\ C[i + 1].sym = ":"
                 /\ C[i + 2].sym \in Texts /\ Copies(C[i + 2].sym)}
  IN  IF ~Parses(input.consts) \/ keys = {} THEN NotFound
      ELSE LET value == C[Min(keys) + 2].sym
           IN  IF TextLen[value] = 0 THEN NotFound ELSE value

\* DDF_ResolveConstant: the string that follows the name in constants.json.
ResolveConstant(constant) ==
  LET C == tokens.consts
      keys == {i \in 2 .. Len(C) - 3 :
                 /\ C[i].sym = constant /\ C[i + 1].sym = ":"
                 /\ C[i + 2].sym \in Texts /\ Copies(C[i + 2].sym)}
  IN  IF ~Parses(input.consts) \/ keys = {} THEN NotFound
      ELSE LET value == C[Min(keys) + 2].sym
           IN  IF TextLen[value] = 0 THEN NotFound ELSE value

\* The value of a key of the DDF, or a default.
Value(key, default) ==
  LET ref == cj_value_ref(T, 1, key)
  IN  IF ref # Invalid /\ Copies(T[ref].sym) THEN T[ref].sym ELSE default

\* Numbers in their order.
InOrder(numbers) ==
  [k \in 1 .. Cardinality(numbers) |->
     CHOOSE i \in numbers : Cardinality({j \in numbers : j <= i}) = k]

\* Texts in the DDF that AddConstants looks up, in their order.
UsedConstants ==
  LET firsts == InOrder({i \in DOMAIN T : T[i].sym \in Upper
                                         /\ \A j \in 1 .. i - 1 : T[j].sym # T[i].sym})
  IN  [k \in DOMAIN firsts |-> T[firsts[k]].sym]

-----------------------------------------------------------------------------
\* Device identifiers: modelid and manufacturername, both arrays or both strings.
ModelId == cj_value_ref(T, 1, "modelid")
MfName  == cj_value_ref(T, 1, "manufacturername")

\* The offset at which both arrays end, if all before it go together.
ArraysEnd(models, names) ==
  LET ends == {k \in 1 .. Len(T) - Max({models, names}) :
                 T[models + k].sym = "]" /\ T[names + k].sym = "]"}
      alike(k) == /\ Type(T[models + k].sym) = Type(T[names + k].sym)
                  /\ Type(T[models + k].sym) \in {",", "S"}
                  /\ T[models + k].parent = models /\ T[names + k].parent = names
  IN  IF ends # {} /\ \A k \in 1 .. Min(ends) - 1 : alike(k) THEN Min(ends) ELSE 0

Resolved(mfname) ==
  IF mfname \in Dollar /\ Copies(mfname) THEN ResolveConstant(mfname) ELSE mfname

\* Mutant of InArrays: the model is always the first one.
InArraysFirst(models, names) ==
  LET strings == InOrder({k \in 1 .. ArraysEnd(models, names) - 1 : T[models + k].sym \in Texts})
  IN  [n \in DOMAIN strings |-> << Resolved(T[names + strings[n]].sym), T[models + 1].sym >>]

\* Pairs of a manufacturer name, its constant resolved, and a model.
InArrays(models, names) ==
  LET strings == InOrder({k \in 1 .. ArraysEnd(models, names) - 1 : T[models + k].sym \in Texts})
  IN  [n \in DOMAIN strings |->
         << Resolved(T[names + strings[n]].sym), T[models + strings[n]].sym >>]

\* Constants are resolved in arrays only.
Identifiers ==
  LET models == ModelId
      names == MfName
  IN  IF T[models].sym = "[" /\ T[names].sym = "[" THEN InArrays(models, names)
      ELSE IF T[models].sym \in Texts /\ T[names].sym \in Texts
      THEN << << T[names].sym, T[models].sym >> >>
      ELSE <<>>

Valid(ids) ==
  ids # <<>> /\ \A n \in DOMAIN ids : \A k \in 1 .. 2 : ids[n][k] # NotFound /\ Copies(ids[n][k])

ResolvesName ==
  LET models == ModelId
      names == MfName
  IN  /\ T[models].sym = "[" /\ T[names].sym = "["
      /\ \E k \in 1 .. ArraysEnd(models, names) - 1 : T[names + k].sym \in Dollar

Text(sym) == Field("text", LenOf(sym), sym)
Quoted(sym) == << Mark(1), Text(sym), Mark(1) >>

\* The text of DESC before the identifiers.
DescHead(time) ==
  << Mark(11) >> \o Quoted(Value("version", "0.0.0"))
    \o << Mark(18) >> \o Quoted(Value("version_deconz", ">2.19.3"))
    \o << Mark(18), Time(time), Mark(2), Mark(10) >> \o Quoted(Value("product", NotFound))
    \o << Mark(1) >>

DescIdentifiers(ids) ==
  << Mark(22) >>
    \o FlattenSeq([n \in DOMAIN ids |->
         << Mark(IF n = 1 THEN 1 ELSE 2) >> \o Quoted(ids[n][1])
           \o << Mark(1) >> \o Quoted(ids[n][2]) \o << Mark(1) >>])
    \o << Mark(2) >>

\* The filtered constants: a put that does not fit is dropped as a whole.
ConstantsText ==
  LET used == UsedConstants
      entry(n) == (IF n = 1 THEN <<>> ELSE << Mark(1) >>)
                    \o Quoted(used[n]) \o << Mark(1) >> \o Quoted(ResolveConstant(used[n]))
  IN  PutAll(Stream(TRUE),
             << Mark(1) >> \o FlattenSeq([n \in DOMAIN used |-> entry(n)]) \o << Mark(1) >>,
             ConstSize - 1)

-----------------------------------------------------------------------------
\* The search for "script" in the text: the next one, and the path, which is
\* the string behind it, whatever is between.
NextScript ==
  LET found == {i \in at .. Len(T) : T[i].sym = "script"}
  IN  IF found = {} THEN 0 ELSE Min(found)

ScriptPath ==
  LET strings == {i \in NextScript + 1 .. Len(T) : T[i].sym \in Texts}
  IN  IF NextScript = 0 \/ strings = {} THEN 0 ELSE Min(strings)

PathFits == ScriptPath # 0 /\ TextLen[T[ScriptPath].sym] \in 1 .. ScriptMax - 1

\* The loops of DDF_AddGenericItems over subdevices and over the items of one.
Subdevices == cj_value_ref(T, 1, "subdevices")
Items      == cj_value_ref(T, subdev, "items")

NextSubdevice ==
  LET list == Subdevices
      found == {i \in at .. Len(T) : T[i].parent = list /\ T[i].sym = "{"}
  IN  IF found = {} THEN 0 ELSE Min(found)

\* The next item.  The loop is left at a token '}' with the subdevice as its
\* parent, which is the end of a member, or at the end of the document.
NextItem ==
  LET list == Items
      found == {i \in at .. Len(T) : \/ T[i].parent = subdev /\ T[i].sym = "}"
                                     \/ T[i].parent = list /\ T[i].sym = "{"}
  IN  IF found = {} THEN 0 ELSE Min(found)

EndsItems == NextItem # 0 => T[NextItem].sym = "}"

ItemName == cj_value_ref(T, NextItem, "name")

FileNamed(sym) == IF sym \in Texts THEN ItemFile[sym] ELSE NoFile

-----------------------------------------------------------------------------
\* What a step allocates.  The name of the bundle takes less than the constants
\* had before it.
Demand ==
  CASE pc = "start"          -> << 2048, PathMax >>
    [] pc = "stat_constants" -> << PathMax >>
    [] pc = "read_constants" -> << seen.size + 1 >>
    [] pc = "load_ddf"       -> << FileMax >>
    [] pc = "describe"       -> << BundleSize, DescSize, ValBuf, ValBuf, TokenBytes >>
    [] pc = "identify"       -> IF ResolvesName THEN << TokenBytes >> ELSE <<>>
    [] pc = "scan"           -> IF PathFits
                                THEN << TextLen[T[ScriptPath].sym] + 1, PathMax, FileMax >>
                                ELSE <<>>
    [] pc = "start_items"    -> << ValBuf, PathMax, TokenBytes >>
    [] pc = "items"          -> IF EndsItems THEN <<>> ELSE << PathMax >>
    [] pc = "read_item"      -> << seen.size + 16 >>
    [] pc = "constants"      -> << ConstSize, ValBuf, ValBuf, CacheBytes, TokenBytes >>
                                  \o (IF UsedConstants = <<>> THEN <<>> ELSE << TokenBytes >>)
    [] OTHER                 -> <<>>

Taken == Allocs(scratch, Demand)

\* The file PL_LoadFile is called for and the size of its buffer, if it is next.
Loads ==
  CASE pc = "read_constants"    -> << "constants", seen.size + 1 >>
    [] pc = "load_ddf"          -> << "ddf", FileMax >>
    [] pc = "scan" /\ PathFits  -> << ScriptFile[T[ScriptPath].sym], FileMax >>
    [] pc = "read_item"         -> << FileNamed(name), seen.size + 16 >>
    [] OTHER                    -> <<>>

Loading == Loads # <<>>

\* A file made shorter since it was opened is read short, and counts as empty; one
\* that was replaced or removed is read on as it was.
Shortened == Loading /\ fs[Loads[1]].size < opened.size

\* Otherwise the functions return early.  What is loaded must be as long as was
\* announced.
Succeeds ==
  CASE pc = "start" -> fs["ddf"].time > 0 /\ fs["base"].time > 0
    [] pc = "stat_constants" -> fs["constants"].time > 0 /\ fs["constants"].size >= 8
    [] pc = "read_constants" -> opened.size = seen.size
    [] pc = "load_ddf" -> opened.size > 0
    [] pc = "describe" ->
         /\ Parses(input.ddf)
         /\ Value("product", NotFound) # NotFound
         /\ ModelId # Invalid /\ MfName # Invalid
    [] pc = "identify" -> Valid(Identifiers)
    [] pc = "stamp_script" -> seen.size > 0
    [] pc = "start_items" -> Subdevices # Invalid
    [] pc = "subdevices" ->
         NextSubdevice # 0 => cj_value_ref(T, NextSubdevice, "items") # Invalid
    [] pc = "items" ->
         ~EndsItems => /\ ItemName # Invalid
                       /\ Copies(T[ItemName].sym)
                       /\ LET file == FileNamed(T[ItemName].sym)
                          IN  file \notin cache => fs[file].time > 0
    [] pc = "read_item" -> opened.size = seen.size
    [] pc = "constants" ->
         /\ \A i \in DOMAIN T : T[i].sym \in Texts => Copies(T[i].sym)
         /\ \A n \in DOMAIN UsedConstants : ResolveConstant(UsedConstants[n]) # NotFound
    [] pc = "store" -> bs.ok /\ input.json
    [] OTHER -> TRUE

-----------------------------------------------------------------------------
NoContent == Content(NoFile, [size |-> 0, time |-> 0])
Closed == [open |-> FALSE, size |-> 0, time |-> 0]

Init ==
  /\ input \in Inputs
  /\ tokens = [ddf |-> TokensOf(input.ddf), consts |-> TokensOf(input.consts)]
  /\ fs \in Disks /\ edits = 0
  /\ pc = "start"
  /\ scratch = 0 /\ marks = <<>>
  /\ ss = Stream(TRUE) /\ bs = Stream(TRUE)
  /\ ddf = NoContent /\ constants = [read |-> NoContent, time |-> 0]
  /\ name = NotFound /\ seen = NoContent /\ opened = Closed
  /\ at = 1 /\ subdev = Invalid /\ cache = {}
  /\ out = <<>>

\* A step at a place where memory suffices and nothing fails; a file is read and
\* closed.
Do(label) ==
  /\ pc = label /\ Taken # Exhausted /\ Succeeds /\ UNCHANGED disk
  /\ Loading => opened.open
  /\ opened' = Closed

Go(label) == pc' = label

Unchanged == UNCHANGED <<disk, opened, scratch, marks, ss, bs, loaded, place, out>>

ScratchExhausted == Taken = Exhausted /\ pc' = "trap" /\ Unchanged

GiveUp ==
  /\ Taken # Exhausted
  /\ Loading => opened.open
  /\ \/ ~Succeeds
     \/ Shortened /\ pc # "scan"
  /\ pc' = "failed" /\ Unchanged

\* PL_LoadFile up to ftell: the size of no file, or of one too large, is 0.
OpenFile ==
  /\ Loading /\ ~opened.open /\ Taken # Exhausted
  /\ LET of == fs[Loads[1]]
     IN  opened' = IF of.time > 0 /\ of.size < Loads[2]
                   THEN [open |-> TRUE, size |-> of.size, time |-> of.time]
                   ELSE [open |-> TRUE, size |-> 0, time |-> 0]
  /\ UNCHANGED <<disk, pc, scratch, marks, ss, bs, loaded, place, out>>

\* main, the full path and the base path.
Start ==
  /\ Do("start") /\ Go("stat_constants")
  /\ scratch' = Taken
  /\ UNCHANGED <<marks, ss, bs, loaded, place, out>>

StatConstants ==
  /\ Do("stat_constants") /\ Go("read_constants")
  /\ scratch' = Taken
  /\ seen' = Content("constants", fs["constants"])
  /\ UNCHANGED <<marks, ss, bs, ddf, constants, name, place, out>>

\* Contents of now, with the time asked for before the file was opened.
ReadConstants ==
  /\ Do("read_constants") /\ Go("load_ddf")
  /\ scratch' = Taken
  /\ constants' = [read |-> Loaded("constants"), time |-> seen.time]
  /\ UNCHANGED <<marks, ss, bs, ddf, name, seen, place, out>>

LoadDdf ==
  /\ Do("load_ddf") /\ Go("describe")
  /\ scratch' = Taken
  /\ ddf' = Loaded("ddf")
  /\ UNCHANGED <<marks, ss, bs, constants, name, seen, place, out>>

\* The headers, then DDF_MakeDescriptor up to the identifiers.  The status of
\* its string stream has any value.
Describe ==
  /\ Do("describe") /\ Go("identify")
  /\ marks' = << Allocs(scratch, << BundleSize, DescSize >>) >>
  /\ scratch' = Taken
  /\ \E ok \in BOOLEAN : ss' = PutAll(Stream(ok), DescHead(fs["ddf"].time), DescSize - 1)
  /\ bs' = PutAll(Stream(TRUE), << Tag("RIFF"), Size(4, 0), Tag("DDFB"), Size(4, 0),
                                   Tag("DESC") >>, BundleSize)
  /\ UNCHANGED <<loaded, place, out>>

\* The identifiers; then DESC and the DDF go into the bundle.
Identify ==
  LET text == PutAll(ss, DescIdentifiers(Identifiers), DescSize - 1)
  IN  /\ Do("identify") /\ Go("scan")
      /\ ss' = text
      /\ bs' = PutAll(bs, << Size(4, text.pos), Data(text.pos, text.fields),
                             Tag("DDFC"), Size(4, ddf.size), Data(ddf.size, ddf) >>, BundleSize)
      /\ scratch' = marks[1] /\ marks' = <<>>
      /\ UNCHANGED <<loaded, place, out>>

LoadScript ==
  /\ Do("scan") /\ PathFits /\ Go("stamp_script")
  /\ scratch' = Taken
  /\ name' = T[ScriptPath].sym
  /\ \/ seen' = IF opened.size = 0 THEN NoContent ELSE Loaded(ScriptFile[T[ScriptPath].sym])
     \/ (Shortened /\ seen' = NoContent)
  /\ at' = ScriptPath + 1
  /\ UNCHANGED <<marks, ss, bs, ddf, constants, subdev, cache, out>>

\* Mutant of SkipScript: the search ends.
SkipAllScripts ==
  /\ Do("scan") /\ ScriptPath # 0 /\ ~PathFits /\ Go("start_items")
  /\ at' = 1
  /\ UNCHANGED <<scratch, marks, ss, bs, loaded, subdev, cache, out>>

\* No path, or one of 1024 characters or more, is passed over.
SkipScript ==
  /\ Do("scan") /\ ScriptPath # 0 /\ ~PathFits /\ Go("scan")
  /\ at' = ScriptPath + 1
  /\ UNCHANGED <<scratch, marks, ss, bs, loaded, subdev, cache, out>>

\* The time is that of the file of now; none if it is gone.
StampScript ==
  /\ Do("stamp_script") /\ Go("scan")
  /\ bs' = PutExtf(bs, "SCJS", Text(name), fs[ScriptFile[name]].time, Data(seen.size, seen))
  /\ UNCHANGED <<scratch, marks, ss, loaded, place, out>>

\* The stream stands behind its end when no string follows "script", and the
\* assertion of U_sstream_at_end stops the program.
ScriptWithoutPath ==
  /\ Do("scan") /\ NextScript # 0 /\ ScriptPath = 0 /\ pc' = "trap"
  /\ UNCHANGED <<scratch, marks, ss, bs, loaded, place, out>>

NoMoreScripts ==
  /\ Do("scan") /\ NextScript = 0 /\ Go("start_items")
  /\ UNCHANGED <<scratch, marks, ss, bs, loaded, place, out>>

StartItems ==
  /\ Do("start_items") /\ Go("subdevices")
  /\ marks' = << scratch >> /\ scratch' = Taken
  /\ at' = Subdevices
  /\ UNCHANGED <<ss, bs, loaded, subdev, cache, out>>

EnterSubdevice ==
  /\ Do("subdevices") /\ NextSubdevice # 0 /\ Go("items")
  /\ subdev' = NextSubdevice
  /\ at' = cj_value_ref(T, NextSubdevice, "items")
  /\ UNCHANGED <<scratch, marks, ss, bs, loaded, cache, out>>

\* Mutant of LeaveSubdevice: the outer loop goes on from the subdevice.
LeaveToSubdevice ==
  /\ Do("items") /\ EndsItems /\ Go("subdevices")
  /\ at' = subdev
  /\ UNCHANGED <<scratch, marks, ss, bs, loaded, subdev, cache, out>>

\* The outer loop goes on where the inner one has come to.
LeaveSubdevice ==
  /\ Do("items") /\ EndsItems /\ Go("subdevices")
  /\ at' = IF NextItem = 0 THEN Len(T) + 1 ELSE NextItem + 1
  /\ UNCHANGED <<scratch, marks, ss, bs, loaded, subdev, cache, out>>

KnownItem ==
  /\ Do("items") /\ ~EndsItems /\ FileNamed(T[ItemName].sym) \in cache /\ Go("items")
  /\ at' = NextItem + 1
  /\ UNCHANGED <<scratch, marks, ss, bs, loaded, subdev, cache, out>>

\* Mutant of StatItem: the item is not remembered.
StatItemForgets ==
  LET file == FileNamed(T[ItemName].sym)
  IN  /\ Do("items") /\ ~EndsItems /\ file \notin cache /\ Go("read_item")
      /\ marks' = Append(marks, scratch) /\ scratch' = Taken
      /\ name' = T[ItemName].sym
      /\ seen' = Content(file, fs[file])
      /\ at' = NextItem + 1
      /\ UNCHANGED <<ss, bs, ddf, constants, subdev, cache, out>>

\* A new item is remembered before it is loaded.
StatItem ==
  LET file == FileNamed(T[ItemName].sym)
  IN  /\ Do("items") /\ ~EndsItems /\ file \notin cache /\ Go("read_item")
      /\ marks' = Append(marks, scratch) /\ scratch' = Taken
      /\ cache' = cache \cup {file}
      /\ name' = T[ItemName].sym
      /\ seen' = Content(file, fs[file])
      /\ at' = NextItem + 1
      /\ UNCHANGED <<ss, bs, ddf, constants, subdev, out>>

\* Mutant of ReadItem: the time is asked for after the contents.
ReadItemBefore ==
  LET file == FileNamed(name)
  IN  /\ Do("read_item") /\ Go("items")
      /\ bs' = PutExtf(bs, "JSON", Field("text", LenOf(name) + 24, file), fs[file].time,
                       Data(seen.size, IF seen.size = 0 THEN seen ELSE Loaded(file)))
      /\ scratch' = marks[2] /\ marks' = << marks[1] >>
      /\ UNCHANGED <<ss, loaded, place, out>>

\* The contents of now with the time asked for before; of a file that was empty
\* nothing is put, whatever it has got meanwhile.
ReadItem ==
  LET file == FileNamed(name)
  IN  /\ Do("read_item") /\ Go("items")
      /\ bs' = PutExtf(bs, "JSON", Field("text", LenOf(name) + 24, file), seen.time,
                       Data(seen.size, IF seen.size = 0 THEN seen ELSE Loaded(file)))
      /\ scratch' = marks[2] /\ marks' = << marks[1] >>
      /\ UNCHANGED <<ss, loaded, place, out>>

NoMoreSubdevices ==
  /\ Do("subdevices") /\ NextSubdevice = 0 /\ Go("constants")
  /\ scratch' = marks[1] /\ marks' = <<>>
  /\ UNCHANGED <<ss, bs, loaded, place, out>>

AddConstants ==
  LET text == ConstantsText
  IN  /\ Do("constants") /\ Go("store")
      /\ bs' = PutExtf(bs, "JSON", Field("text", 26, "generic/constants_min.json"),
                       constants.time, Data(text.pos, text.fields))
      /\ UNCHANGED <<scratch, marks, ss, loaded, place, out>>

\* Both sizes of the whole, then PL_WriteFile.
StoreBundle ==
  /\ Do("store") /\ Go("stored")
  /\ out' = Patch(Patch(bs, 12), 4).fields
  /\ UNCHANGED <<scratch, marks, ss, bs, loaded, place>>

StoreFails ==
  /\ Do("store") /\ Go("not_written")
  /\ UNCHANGED <<scratch, marks, ss, bs, loaded, place, out>>

Ended == pc \in {"stored", "failed", "trap", "not_written"}

Step ==
  \/ ScratchExhausted \/ GiveUp
  \/ Start \/ StatConstants \/ ReadConstants \/ LoadDdf \/ Describe \/ Identify
  \/ LoadScript \/ SkipScript \/ StampScript \/ ScriptWithoutPath \/ NoMoreScripts
  \/ StartItems \/ EnterSubdevice \/ LeaveSubdevice \/ KnownItem \/ StatItem \/ ReadItem
  \/ NoMoreSubdevices \/ AddConstants \/ StoreBundle \/ StoreFails

\* A file is written, created or removed.
Edit ==
  /\ ~Ended /\ edits < MaxEdits
  /\ edits' = edits + 1
  /\ \E file \in Files \ {NoFile} :
       \/ \E size \in Sizes : fs' = [fs EXCEPT ![file] = [size |-> size, time |-> edits + 2]]
       \/ fs' = [fs EXCEPT ![file] = [size |-> 0, time |-> 0]]
  /\ UNCHANGED <<input, tokens, opened, pc, scratch, marks, ss, bs, loaded, place, out>>

Finished == Ended /\ UNCHANGED vars

Next == Step \/ OpenFile \/ Edit \/ Finished

Spec == Init /\ [][Next]_vars

-----------------------------------------------------------------------------
(* Properties.                                                             *)

\* Types of the variables: neither arena nor bundle is ever passed, and what is
\* to be restored was taken before.
TypeOK ==
  /\ input \in Inputs /\ edits \in 0 .. MaxEdits
  /\ fs \in [Files -> [size : Nat, time : Nat]]
  /\ scratch \in 0 .. ScratchSize
  /\ Len(marks) <= 2 /\ \A i \in DOMAIN marks : marks[i] \in 0 .. scratch
  /\ ss.pos \in 0 .. DescSize /\ bs.pos \in 0 .. BundleSize
  /\ at \in 1 .. Len(T) + 1 /\ subdev \in 0 .. Len(T)
  /\ cache \subseteq Files
  /\ opened \in [open : BOOLEAN, size : Nat, time : Nat]

Stored == pc = "stored"

\* The last byte put, and the fields of a kind.
End == out[Len(out)].at + out[Len(out)].len
Kind(fields, is) == {i \in DOMAIN fields : fields[i].is = is}

\* A reader who follows the sizes finds every chunk and nothing else, and each
\* length inside an EXTF chunk is that of what follows it, whatever was patched,
\* and whatever the editor did between the steps.
ChunksAgree ==
  Stored =>
    LET tags == Kind(out, "tag")
        next(i) == IF \E j \in tags : j > i THEN out[Min({j \in tags : j > i})].at ELSE End
    IN  /\ out[2].val = End - 8 /\ out[4].val = End - 16
        /\ \A i \in tags : i > 4 => out[i].at + 8 + out[i + 1].val = next(i)
        /\ \A i \in tags : out[i].val = "EXTF" =>
             \A k \in {i + 3, i + 5, i + 7} : out[k].val = out[k + 1].len

\* The EXTF chunks of a type, by their type fields.
Extfs(type) == {i \in Kind(out, "type") : out[i].val = type}

Path(i)     == out[i + 2].val
TimeOf(i)   == out[i + 4].val
Contents(i) == out[i + 6]

ScriptChunks   == Extfs("SCJS")
ConstantsChunk == Max(Extfs("JSON"))
ItemChunks     == Extfs("JSON") \ {ConstantsChunk}

\* What is stored of a file is as long as the file was when it was opened, but may
\* have bytes of every version until it was read.  The time stored with an item,
\* and with the constants, is never later than the file they are from was when it
\* was opened; that of a script, and of the DDF in DESC, never earlier than the
\* file was when it was read, unless it is gone.
ContentsStamped ==
  Stored =>
    LET early(time, of) == time <= of.time
        late(time, of)  == time >= of.last \/ time = 0
    IN  /\ out[10].len = out[10].val.size
        /\ \A i \in ItemChunks \cup ScriptChunks : Contents(i).len = Contents(i).val.size
        /\ \A i \in ItemChunks : early(TimeOf(i), Contents(i).val)
        /\ early(TimeOf(ConstantsChunk), constants.read)
        /\ \A i \in ScriptChunks : late(TimeOf(i), Contents(i).val)
        /\ \A i \in Kind(out[7].val, "time") : late(out[7].val[i].val, out[10].val)

-----------------------------------------------------------------------------
(* What the DDF refers to, from the text and the nesting of its brackets.  *)

Doc == input.ddf

Objects(list) == {i \in DOMAIN Doc : Doc[i] = "{" /\ T[i].parent = list}

SubdeviceObjects == Objects(MemberValue(Doc, 1, "subdevices"))
ItemObjects(sub) == Objects(MemberValue(Doc, sub, "items"))

ItemFiles(sub) ==
  {FileNamed(Doc[MemberValue(Doc, i, "name")]) : i \in ItemObjects(sub)}

\* Where scripts are; "script" should be a key and nothing else.
ScriptKeys == {i \in DOMAIN Doc : Doc[i] = "script"}

ScriptsAreKeys ==
  \A i \in ScriptKeys : Doc[i + 1] = ":" /\ Doc[i + 2] \in Texts \ {"script"}

\* Keys of the scripts that are bundled.
PathKeys == {i \in ScriptKeys : TextLen[Doc[i + 2]] \in 1 .. ScriptMax - 1}

\* The bundle has every script, once for each place that refers to it and in
\* their order, but for paths that are too long.
ScriptsBundled ==
  Stored /\ ScriptsAreKeys =>
    LET chunks == InOrder(ScriptChunks)
        keys == InOrder(PathKeys)
    IN  [k \in DOMAIN chunks |-> Path(chunks[k])] = [k \in DOMAIN keys |-> Doc[keys[k] + 2]]

\* No item is stored twice, none that no subdevice has, and all of the first
\* subdevice; two names of one file are one item.
ItemsOnce ==
  Stored =>
    LET files == {Path(i) : i \in ItemChunks}
    IN  /\ \A i, j \in ItemChunks : Path(i) = Path(j) => i = j
        /\ files \subseteq UNION {ItemFiles(sub) : sub \in SubdeviceObjects}
        /\ SubdeviceObjects # {} => ItemFiles(Min(SubdeviceObjects)) \subseteq files

\* The create command bundles up all files the DDF refers to (README.md).
EveryFileBundled ==
  Stored => /\ UNION {ItemFiles(sub) : sub \in SubdeviceObjects}
                 \subseteq {Path(i) : i \in ItemChunks}
            /\ {Doc[i + 2] : i \in {k \in ScriptKeys : Doc[k + 1] = ":"}}
                 \subseteq {Path(i) : i \in ScriptChunks}

-----------------------------------------------------------------------------
\* Strings of an array in their order, or the one string.
Strings(ref) ==
  LET of == IF Doc[ref] = "[" THEN {i \in DOMAIN Doc : T[i].parent = ref /\ Doc[i] \in Texts}
                              ELSE {ref}
      order == InOrder(of)
  IN  [k \in DOMAIN order |-> Doc[order[k]]]

TextsOf(fields) ==
  LET texts == SelectSeq(fields, LAMBDA f : f.is = "text")
  IN  [k \in DOMAIN texts |-> texts[k].val]

\* The value constants.json gives a name: the first string, in whatever object,
\* that is a member of that name and fits the buffer for values.
Meaning(constant) ==
  LET C == input.consts
      values == {MemberValue(C, i, constant) : i \in {j \in DOMAIN C : C[j] = "{"}}
      strings == {i \in values \ {Invalid} : C[i] \in Texts /\ Copies(C[i])}
  IN  IF strings = {} THEN NotFound ELSE C[Min(strings)]

MemberOr(key, default) ==
  LET value == MemberValue(Doc, 1, key) IN IF value = Invalid THEN default ELSE Doc[value]

Names  == MemberValue(Doc, 1, "manufacturername")
Models == MemberValue(Doc, 1, "modelid")

NameMeant(text) ==
  IF Doc[Names] = "[" /\ text \in Dollar THEN Meaning(text) ELSE text

Used == {Doc[i] : i \in DOMAIN Doc} \cap Upper

ConstantsLength ==
  1 + MapThenSumSet(LAMBDA c : TextLen[c] + TextLen[Meaning(c)] + 6, Used)

\* The filtered constants have each constant of the DDF once with its value.
ConstantsComplete ==
  LET consts == TextsOf(Contents(ConstantsChunk).val)
  IN  /\ Len(consts) = 2 * Cardinality(Used)
      /\ Used = {consts[2 * k - 1] : k \in 1 .. Cardinality(Used)}
      /\ \A k \in 1 .. Cardinality(Used) : consts[2 * k] = Meaning(consts[2 * k - 1])

\* Or they are cut, and nothing tells: the end is missing, and what is there is right.
ConstantsCut ==
  LET consts == TextsOf(Contents(ConstantsChunk).val)
  IN  /\ Contents(ConstantsChunk).len < ConstantsLength
      /\ \A k \in 1 .. Len(consts) \div 2 : consts[2 * k] = Meaning(consts[2 * k - 1])

\* DESC pairs each manufacturer name, its constant resolved, with the model at
\* the same place; its text is all there when the status of its stream was OK,
\* and none of it when it was not.  The filtered constants are complete exactly when
\* their text fits into 16382 characters.
TextsComplete ==
  Stored =>
    LET desc == TextsOf(out[7].val)
    IN  /\ IF ss.ok
           THEN /\ Len(Strings(Names)) = Len(Strings(Models))
                /\ desc = << MemberOr("version", "0.0.0"),
                             MemberOr("version_deconz", ">2.19.3"),
                             MemberOr("product", NotFound) >>
                            \o FlattenSeq([k \in DOMAIN Strings(Names) |->
                                 << NameMeant(Strings(Names)[k]), Strings(Models)[k] >>])
           ELSE desc = <<>>
        /\ IF ConstantsLength <= ConstSize - 1 THEN ConstantsComplete ELSE ConstantsCut

\* Product and device identifiers are required in the descriptor (the comments
\* in DDF_MakeDescriptor), so a stored bundle has a descriptor with some text.
DescriptorThere == Stored => TextsOf(out[7].val) # <<>>

-----------------------------------------------------------------------------
\* A DDF as the tool wants it: members, arrays, constants and files are there,
\* no limit is passed.  20 scripts of any size are within the arena.
Plain(text) == text \in Texts /\ TextLen[text] \in 1 .. ValBuf - 1

GoodText ==
  /\ input.json /\ Parses(Doc) /\ Parses(input.consts)
  /\ \A i \in DOMAIN Doc : Doc[i] \in Texts => Plain(Doc[i])
  /\ \A key \in {"product", "subdevices"} : MemberValue(Doc, 1, key) # Invalid
  /\ Names # Invalid /\ Models # Invalid
  /\ Type(Doc[Names]) = Type(Doc[Models]) /\ Type(Doc[Names]) \in {"[", "S"}
  /\ \A i \in DOMAIN Doc : T[i].parent \in {Names, Models} => Type(Doc[i]) \in {"S", ","}
  /\ Len(Strings(Names)) = Len(Strings(Models)) /\ Strings(Names) # <<>>
  /\ \A text \in Used \cup {NameMeant(t) : t \in ToSet(Strings(Names))} :
       text \in Upper => Plain(Meaning(text))
  /\ NotFound \notin {NameMeant(t) : t \in ToSet(Strings(Names))}

GoodReferences ==
  /\ \A sub \in SubdeviceObjects :
       /\ MemberValue(Doc, sub, "items") # Invalid
       /\ \A item \in ItemObjects(sub) : MemberValue(Doc, item, "name") # Invalid
  /\ ScriptsAreKeys

FileSize(file) == fs[file].size

GoodFiles ==
  LET items == UNION {ItemFiles(sub) : sub \in SubdeviceObjects}
      script(i) == FileSize(ScriptFile[Doc[i + 2]])
  IN  /\ \A file \in items \cup {"ddf", "base", "constants"} : fs[file].time > 0
      /\ \A i \in PathKeys : script(i) \in 1 .. FileMax - 1
      /\ Cardinality(PathKeys) <= 20
      /\ FileSize("constants") \in 8 .. 100000 /\ FileSize("ddf") > 0
      /\ FileSize("ddf") + MapThenSumSet(script, PathKeys) + MapThenSumSet(FileSize, items)
           <= BundleSize - 100000

\* With such a DDF create does not fail before it writes the bundle.
GoodIsBundled ==
  pc \in {"failed", "trap"} /\ edits = 0 => ~(GoodText /\ GoodReferences /\ GoodFiles)

\* Places in the order in which a run comes to them; the loops take two or three.
Stage(label) ==
  CASE label \in {"scan", "stamp_script"} -> 7
    [] label \in {"subdevices", "items", "read_item"} -> 9
    [] OTHER -> [start |-> 1, stat_constants |-> 2, read_constants |-> 3, load_ddf |-> 4,
                 describe |-> 5, identify |-> 6, start_items |-> 8, constants |-> 10,
                 store |-> 11, stored |-> 12, not_written |-> 12, failed |-> 12,
                 trap |-> 12][label]

\* Every step of a run leads on: to a later place, to a later token within a
\* loop, from a file that was read back to the loop at the same token, or to a
\* file being open.  As no state but an end is a deadlock, every run ends,
\* whatever the DDF refers to and however its files change.
Advances ==
  [][\/ edits' = edits + 1
     \/ Stage(pc') > Stage(pc)
     \/ Stage(pc') = Stage(pc) /\ at' > at
     \/ Stage(pc') = Stage(pc) /\ at' = at /\ pc \in {"stamp_script", "read_item"}
     \/ pc' = pc /\ at' = at /\ ~opened.open /\ opened'.open]_vars
=============================================================================
