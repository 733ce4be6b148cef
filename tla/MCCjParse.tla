------------------------------ MODULE MCCjParse ------------------------------
(* Values for CjText.  Documents, spelled in one way each: every JSON text    *)
(* up to MaxJson symbols with two kinds of strings, every object of two      *)
(* members whose first has up to MaxValue, what is left when a symbol is     *)
(* missing, and every text up to MaxAny.  Bytes: those that strings, numbers,*)
(* the three words and UTF-8 tell apart, in all short orders.                *)
EXTENDS CjText
LOCAL INSTANCE SequencesExt

CONSTANTS MaxJson, MaxValue, MaxAny, MaxBytes

Keys == {"k", "m"}

MCTextNames == [bytes \in {<<107>>, <<109>>} |-> IF bytes = <<107>> THEN "k" ELSE "m"]

Join(left, sep, right) ==
  {l \o sep \o r : l \in left, r \in right}

\* Texts of exactly n symbols, by rule of the grammar.
JsonOf(n) ==
  LET of[rule \in {"value", "elements", "members"}, k \in 0 .. n] ==
        CASE rule = "value" /\ k = 1 -> {<<t>> : t \in Keys \cup {"P"}}
          [] rule = "value" /\ k = 2 -> {<<"[", "]">>, <<"{", "}">>}
          [] rule = "value" /\ k > 2 ->
               Join({<<"[">>}, <<>>, {e \o <<"]">> : e \in of["elements", k - 2]})
               \cup Join({<<"{">>}, <<>>, {m \o <<"}">> : m \in of["members", k - 2]})
          [] rule = "elements" /\ k > 0 ->
               of["value", k] \cup
               UNION {Join(of["value", a], <<",">>, of["elements", k - a - 1]) : a \in 1 .. k - 2}
          [] rule = "members" /\ k > 2 ->
               LET member(a) == {<<t, ":">> \o v : t \in Keys, v \in of["value", a - 2]}
               IN  member(k) \cup
                   UNION {Join(member(a), <<",">>, of["members", k - a - 1]) : a \in 3 .. k - 4}
          [] OTHER -> {}
  IN  of["value", n]

JsonUpTo(m) == UNION {JsonOf(n) : n \in 1 .. m}

Pairs ==
  {<<"{", "k", ":">> \o v \o <<",", "m", ":">> \o w \o <<"}">> :
     v \in JsonUpTo(MaxValue), w \in JsonUpTo(2)}

Json == JsonUpTo(MaxJson) \cup Pairs

Without(s, i) == SubSeq(s, 1, i - 1) \o SubSeq(s, i + 1, Len(s))

Damaged == UNION {{Without(s, i) : i \in DOMAIN s} : s \in Json}

AnyShort == UNION {[1 .. n -> (Symbols \ {"x"}) \cup {"i"}] : n \in 0 .. MaxAny}

-----------------------------------------------------------------------------
Spelling ==
  [s \in Symbols \cup {"i"} |->
     CASE s = "k" -> <<34, 107, 34>> [] s = "m" -> <<34, 109, 34>> [] s = "x" -> <<34, 34>>
       [] s = "P" -> <<49, 32>>      [] s = "i" -> <<64>>
       [] s = "{" -> <<123>>         [] s = "}" -> <<125>>
       [] s = "[" -> <<91>>          [] s = "]" -> <<93, 10>>
       [] s = "," -> <<44>>          [] s = ":" -> <<58>>]

Spelled(document) == <<32>> \o FlattenSeq([i \in DOMAIN document |-> Spelling[document[i]]])

Short(bytes, n) == UNION {[1 .. k -> bytes] : k \in 0 .. n}

Within(left, texts, right) == {left \o t \o right : t \in texts}

\* 0 1 - . e + and a comma
Numbers == Within(<<91>>, Short({48, 49, 45, 46, 101, 43}, MaxBytes), <<93>>)
           \cup Short({48, 49, 45, 46, 101, 43, 44}, MaxBytes)
           \cup Within(<<45, 49, 46, 48>>, Short({48, 45, 101, 43}, MaxBytes), << >>)

\* k n " \ and a control character, then \u and what may follow
Strings == Within(<<34>>, Short({107, 110, 34, 92, 31}, MaxBytes), <<34>>)
           \cup Within(<<34, 92, 117>>, Short({97, 71, 34}, 5), <<34>>)

Words == {<<110, 117, 108, 108>>, <<116, 114, 117, 101>>, <<102, 97, 108, 115, 101>>}

\* The words and their beginnings, and each with a byte changed or repeated.
NearWords ==
  UNION {LET parts == {SubSeq(w, 1, n) : n \in DOMAIN w}
             wrong == {[w EXCEPT ![i] = b] : i \in DOMAIN w, b \in {0, 44, 76, 101, 108}}
             twice == {SubSeq(w, 1, i) \o SubSeq(w, i, Len(w)) : i \in DOMAIN w}
         IN  parts \cup wrong \cup twice : w \in Words}

\* First bytes of characters of every length and of none, and what may follow.
Characters ==
  {SubSeq(<<b, c, d, e>>, 1, n) :
     b \in {65, 128, 192, 193, 194, 223, 224, 225, 237, 239, 240, 241, 244, 245, 248, 255},
     c \in {128, 143, 144, 159, 160, 191, 192, 65}, d \in {128, 191, 192},
     e \in {128, 191, 65}, n \in 1 .. 4}

MCTexts ==
  ({Spelled(d) : d \in Json \cup Damaged \cup AnyShort}
   \cup Numbers \cup Strings
   \cup NearWords \cup Within(<<91>>, NearWords, <<93>>)
   \cup Characters \cup Within(<<34>>, Characters, <<34>>)) \ {<< >>}

AllDocs == {Lexed(t) : t \in MCTexts}

\* TLC evaluates a definition once, and what replaces a constant each time.
MCDocs == AllDocs
=============================================================================
