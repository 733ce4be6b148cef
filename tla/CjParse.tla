------------------------------- MODULE CjParse -------------------------------
(***************************************************************************)
(* cj_parse: an iteration of its loop takes one token from cj_next_token,  *)
(* sets its parent and checks it against the token before it.              *)
(***************************************************************************)
EXTENDS Cj

CONSTANTS
  Docs,          \* documents to parse
  TokensSize     \* places in the token array, 32766 in ddfb.c

ASSUME DocAssumption ==
  /\ Docs \subseteq Seq(Symbols \cup {"i"})
  /\ TokensSize \in Nat

VARIABLES
  doc,           \* the document
  pc,            \* "loop" or "done"
  status,        \* ctx->status
  tokens,        \* ctx->tokens up to ctx->tokens_pos
  parent,        \* tok_parent
  objDepth, arrDepth,
  ncolons, ncommas, nstructures

counts == <<objDepth, arrDepth, ncolons, ncommas, nstructures>>
vars == <<doc, pc, status, tokens, parent, counts>>

Statuses == {"ok", "error", "invalid_utf8", "tokens_exhausted", "parent_closing",
             "invalid_token", "invalid_object", "multi_top_things"}

\* cj_parse_init, with a token array and a text that is not empty, and the check
\* of the encoding in cj_parse: the symbols do not tell whether the text is UTF-8.
Init ==
  /\ doc \in Docs
  /\ status \in IF TokensSize < 8 THEN {"error"} ELSE {"ok", "invalid_utf8"}
  /\ pc = IF status = "ok" THEN "loop" ELSE "done"
  /\ tokens = <<>>
  /\ parent = Invalid
  /\ objDepth = 0 /\ arrDepth = 0
  /\ ncolons = 0 /\ ncommas = 0 /\ nstructures = 0

-----------------------------------------------------------------------------
\* The do-while loop goes on; on blank text there is one iteration.
Running == pc = "loop" /\ (tokens = <<>> \/ Len(tokens) < Len(doc))

Full == Len(tokens) = TokensSize

\* What cj_next_token finds: no token at the end of the text.
Sym == IF Len(tokens) < Len(doc) THEN doc[Len(tokens) + 1] ELSE "i"

HasToken == Running /\ ~Full /\ Sym # "i"

\* The type of the token before the current one.
Previous == IF tokens = <<>> THEN "none" ELSE Type(tokens[Len(tokens)].sym)

TopLevel == objDepth = 0 /\ arrDepth = 0

SecondTop == Sym \in Begins /\ tokens # <<>> /\ TopLevel

\* Mutant of Unopened: brackets of both kinds are counted together.
UnopenedAny == Sym \in Ends /\ TopLevel

Unopened == (Sym = "}" /\ objDepth = 0) \/ (Sym = "]" /\ arrDepth = 0)

\* Mutant of Misplaced: what follows a name separator is not checked.
MisplacedButAfterColon ==
  LET before == Len(tokens)
  IN  \/ Sym = ":" /\ (before < 2 \/ parent = Invalid \/ Previous # "S")
      \/ Sym = ":" /\ parent # Invalid /\ tokens[parent].sym # "{"
      \/ Sym = "," /\ (before < 2 \/ parent = Invalid \/ Previous \in Begins)
      \/ Previous = "," /\ Type(Sym) \notin ValueTypes
      \/ Previous = "P" /\ Sym \notin {","} \cup Ends
      \/ Previous = "S" /\ Sym \notin {",", ":"} \cup Ends

\* The token cannot be where it is.
Misplaced ==
  LET before == Len(tokens)
  IN  \/ Sym = ":" /\ (before < 2 \/ parent = Invalid \/ Previous # "S")
      \/ Sym = ":" /\ parent # Invalid /\ tokens[parent].sym # "{"
      \/ Sym = "," /\ (before < 2 \/ parent = Invalid \/ Previous \in Begins)
      \/ Previous \in {":", ","} /\ Type(Sym) \notin ValueTypes
      \/ Previous = "P" /\ Sym \notin {","} \cup Ends
      \/ Previous = "S" /\ Sym \notin {",", ":"} \cup Ends

Allowed == HasToken /\ ~SecondTop /\ ~Unopened /\ ~Misplaced

\* Leave the loop with an error; the token that caused it stays in the array.
Fail(error) ==
  /\ pc' = "done"
  /\ status' = error
  /\ tokens' = IF Full THEN tokens ELSE Append(tokens, Token(Sym, parent))
  /\ UNCHANGED <<doc, parent, counts>>

TokensExhausted == Running /\ Full /\ Fail("tokens_exhausted")

InvalidToken == Running /\ ~Full /\ Sym = "i" /\ Fail("invalid_token")

TwoTopThings == HasToken /\ SecondTop /\ Fail("multi_top_things")

NotOpened == HasToken /\ Unopened /\ Fail("parent_closing")

WrongPlace ==
  /\ HasToken /\ ~SecondTop /\ ~Unopened
  /\ Misplaced
  /\ Fail("invalid_token")

\* Mutant of OpenStructure: only an object becomes a parent.
OpenObjectOnly ==
  /\ Allowed /\ Sym \in Begins
  /\ tokens' = Append(tokens, Token(Sym, parent))
  /\ parent' = IF Sym = "{" THEN Len(tokens) + 1 ELSE parent
  /\ objDepth' = IF Sym = "{" THEN objDepth + 1 ELSE objDepth
  /\ arrDepth' = IF Sym = "[" THEN arrDepth + 1 ELSE arrDepth
  /\ nstructures' = nstructures + 1
  /\ UNCHANGED <<doc, pc, status, ncolons, ncommas>>

OpenStructure ==
  /\ Allowed /\ Sym \in Begins
  /\ tokens' = Append(tokens, Token(Sym, parent))
  /\ parent' = Len(tokens) + 1
  /\ objDepth' = IF Sym = "{" THEN objDepth + 1 ELSE objDepth
  /\ arrDepth' = IF Sym = "[" THEN arrDepth + 1 ELSE arrDepth
  /\ nstructures' = nstructures + 1
  /\ UNCHANGED <<doc, pc, status, ncolons, ncommas>>

\* Mutant of CloseStructure: the token keeps the closed structure as its parent.
CloseInside ==
  /\ Allowed /\ Sym \in Ends
  /\ tokens' = Append(tokens, Token(Sym, parent))
  /\ parent' = tokens[parent].parent
  /\ objDepth' = IF Sym = "}" THEN objDepth - 1 ELSE objDepth
  /\ arrDepth' = IF Sym = "]" THEN arrDepth - 1 ELSE arrDepth
  /\ UNCHANGED <<doc, pc, status, ncolons, ncommas, nstructures>>

\* The innermost open structure is closed, whatever its kind; the closing token
\* gets the parent of that structure.
CloseStructure ==
  /\ Allowed /\ Sym \in Ends
  /\ tokens' = Append(tokens, Token(Sym, tokens[parent].parent))
  /\ parent' = tokens[parent].parent
  /\ objDepth' = IF Sym = "}" THEN objDepth - 1 ELSE objDepth
  /\ arrDepth' = IF Sym = "]" THEN arrDepth - 1 ELSE arrDepth
  /\ UNCHANGED <<doc, pc, status, ncolons, ncommas, nstructures>>

\* Strings, primitives and separators; commas count inside objects only.
TakeOther ==
  /\ Allowed /\ Sym \notin Begins \cup Ends
  /\ tokens' = Append(tokens, Token(Sym, parent))
  /\ ncolons' = IF Sym = ":" THEN ncolons + 1 ELSE ncolons
  /\ ncommas' = IF Sym = "," /\ tokens[parent].sym = "{" THEN ncommas + 1 ELSE ncommas
  /\ UNCHANGED <<doc, pc, status, parent, objDepth, arrDepth, nstructures>>

\* Mutant of FinalStatus: objects without members are not thought of.
FinalStatusStrict ==
  IF ~TopLevel THEN "parent_closing"
  ELSE IF nstructures > 0 /\ Previous \notin Ends THEN "invalid_token"
  ELSE IF nstructures > 0 /\ ncommas >= ncolons THEN "invalid_object"
  ELSE "ok"

FinalStatus ==
  IF ~TopLevel THEN "parent_closing"
  ELSE IF nstructures > 0 /\ Previous \notin Ends THEN "invalid_token"
  ELSE IF nstructures > 0 /\ ncommas > 0 /\ ncommas >= ncolons THEN "invalid_object"
  ELSE "ok"

EndOfText ==
  /\ pc = "loop" /\ ~Running
  /\ pc' = "done"
  /\ status' = FinalStatus
  /\ UNCHANGED <<doc, tokens, parent, counts>>

Finished == pc = "done" /\ UNCHANGED vars

Next ==
  \/ TokensExhausted \/ InvalidToken \/ TwoTopThings \/ NotOpened \/ WrongPlace
  \/ OpenStructure \/ CloseStructure \/ TakeOther
  \/ EndOfText \/ Finished

Spec == Init /\ [][Next]_vars

-----------------------------------------------------------------------------
(* Properties.                                                             *)

\* Types of the variables: depths never become negative, the array is never
\* passed, and every parent is a token before its child.
TypeOK ==
  /\ doc \in Docs
  /\ pc \in {"loop", "done"}
  /\ status \in Statuses
  /\ tokens \in Seq([sym : Symbols \cup {"i"}, parent : Nat])
  /\ Len(tokens) <= TokensSize
  /\ \A i \in 1 .. Len(tokens) : tokens[i].parent < i
  /\ parent \in 0 .. Len(tokens)
  /\ objDepth \in Nat /\ arrDepth \in Nat
  /\ ncolons \in Nat /\ ncommas \in Nat /\ nstructures \in Nat

\* The assertions of cj_parse on parents: at a closing bracket the two depth
\* counters vouch for an open structure, so tokens[tok->parent] is read inside
\* the array although the counters know nothing of the order of the brackets.
AssertHolds == (parent = Invalid) <=> TopLevel

\* Parents say how the document is nested: the parent of a token is the bracket
\* that encloses it, that of a closing bracket the one around its structure.
ParentsEnclose ==
  status = "ok" => tokens = SubSeq(TokensOf(doc), 1, Len(tokens))

Accepted == pc = "done" /\ status = "ok"

\* Every JSON text that fits the token array is accepted, although commas and
\* colons are only counted over all objects.
JsonAccepted ==
  pc = "done" /\ IsJson(doc) /\ Len(doc) <= TokensSize /\ TokensSize >= 8 =>
    status \in {"ok", "invalid_utf8"}

\* In an accepted text, JSON or not, a name separator stands in an object
\* between a key and a value: cj_value_ref returns a token of the array.
MembersComplete ==
  Accepted =>
    \A i \in DOMAIN tokens :
      tokens[i].sym = ":" =>
        /\ i > 1 /\ tokens[i - 1].sym \in Texts
        /\ i < Len(tokens) /\ Type(tokens[i + 1].sym) \in ValueTypes
        /\ tokens[tokens[i].parent].sym = "{"

\* Looking up a key finds the value of the first member of that name, not one
\* of an object further in or of a later one.
LookupsAgree ==
  Accepted =>
    \A obj \in {i \in DOMAIN doc : doc[i] = "{"}, key \in Texts :
      cj_value_ref(tokens, obj, key) = MemberValue(doc, obj, key)
=============================================================================
