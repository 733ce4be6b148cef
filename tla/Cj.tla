--------------------------------- MODULE Cj ---------------------------------
(***************************************************************************)
(* Tokens of the JSON parser cj.c.  A document is a sequence of symbols:   *)
(* the punctuation characters, "P" for a primitive, "i" for characters     *)
(* that are no token, and a text for a string.  A reference is the index   *)
(* of the code plus one, so that CJ_INVALID_TOKEN_INDEX is 0.              *)
(***************************************************************************)
EXTENDS Integers, Sequences, FiniteSets

CONSTANT Texts            \* what strings can hold

Begins == {"{", "["}
Ends   == {"}", "]"}

ASSUME TextAssumption ==
  Texts \cap (Begins \cup Ends \cup {",", ":", "P", "S", "i"}) = {}

Symbols == Texts \cup Begins \cup Ends \cup {",", ":", "P"}

\* The type of the token made from a symbol.
Type(sym) == IF sym \in Texts THEN "S" ELSE sym

\* What may follow a separator.
ValueTypes == {"S", "P"} \cup Begins

Invalid == 0

Token(sym, parent) == [sym |-> sym, parent |-> parent]

-----------------------------------------------------------------------------
\* Mutant of cj_value_ref: a key of an inner object is taken as well.
ValueRefAnywhere(tokens, obj, key) ==
  LET seps == {i \in obj + 1 .. Len(tokens) :
                 /\ Type(tokens[i].sym) = ":"
                 /\ tokens[i - 1].sym = key}
  IN  IF seps = {} THEN Invalid
      ELSE 1 + CHOOSE i \in seps : \A j \in seps : i <= j

\* cj_value_ref: the token behind the first NAME_SEP after obj whose key is a
\* child of obj.
cj_value_ref(tokens, obj, key) ==
  LET seps == {i \in obj + 1 .. Len(tokens) :
                 /\ Type(tokens[i].sym) = ":"
                 /\ tokens[i - 1].parent = obj
                 /\ tokens[i - 1].sym = key}
  IN  IF seps = {} THEN Invalid
      ELSE 1 + CHOOSE i \in seps : \A j \in seps : i <= j

-----------------------------------------------------------------------------
(* What a document means, from the nesting of its brackets alone.          *)

\* Brackets opened and not closed before position i.
Depth(doc, i) ==
  Cardinality({j \in 1 .. i - 1 : doc[j] \in Begins})
    - Cardinality({j \in 1 .. i - 1 : doc[j] \in Ends})

\* The bracket that encloses position i; a closing one belongs to the outside.
Enclosing(doc, i) ==
  LET level == IF doc[i] \in Ends THEN Depth(doc, i) - 1 ELSE Depth(doc, i)
      begs  == {j \in 1 .. i - 1 : doc[j] \in Begins /\ Depth(doc, j) = level - 1}
  IN  IF begs = {} THEN Invalid ELSE CHOOSE j \in begs : \A k \in begs : k <= j

\* The tokens of a document whose brackets match.
TokensOf(doc) == [i \in DOMAIN doc |-> Token(doc[i], Enclosing(doc, i))]

\* The position of the value of key in the object that opens at obj.
MemberValue(doc, obj, key) ==
  LET inside(i) == \A j \in obj + 1 .. i : Depth(doc, j) > Depth(doc, obj)
      values == {i \in obj + 3 .. Len(doc) :
                   /\ doc[i - 2] = key /\ doc[i - 1] = ":"
                   /\ inside(i) /\ Depth(doc, i - 2) = Depth(doc, obj) + 1}
  IN  IF values = {} THEN Invalid ELSE CHOOSE i \in values : \A j \in values : i <= j

\* The JSON grammar: derives[rule, i, j] when doc[i..j] is a value, the elements
\* of an array, or the members of an object.
IsJson(doc) ==
  LET n == Len(doc)
      derives[rule \in {"value", "elements", "members"}, i \in 1 .. n, j \in 1 .. n] ==
        CASE rule = "value" ->
               \/ i = j /\ Type(doc[i]) \in {"S", "P"}
               \/ /\ i < j /\ doc[i] = "[" /\ doc[j] = "]"
                  /\ j = i + 1 \/ (i + 1 < j /\ derives["elements", i + 1, j - 1])
               \/ /\ i < j /\ doc[i] = "{" /\ doc[j] = "}"
                  /\ j = i + 1 \/ (i + 1 < j /\ derives["members", i + 1, j - 1])
          [] rule = "elements" ->
               \/ derives["value", i, j]
               \/ \E k \in i + 1 .. j - 1 :
                    /\ doc[k] = ","
                    /\ derives["value", i, k - 1] /\ derives["elements", k + 1, j]
          [] rule = "members" ->
               /\ i + 2 <= j /\ doc[i] \in Texts /\ doc[i + 1] = ":"
               /\ \/ derives["value", i + 2, j]
                  \/ \E k \in i + 3 .. j - 1 :
                       /\ doc[k] = ","
                       /\ derives["value", i + 2, k - 1] /\ derives["members", k + 1, j]
  IN  n > 0 /\ derives["value", 1, n]
=============================================================================
