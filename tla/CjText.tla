-------------------------------- MODULE CjText --------------------------------
(***************************************************************************)
(* CjParse on texts of bytes: the symbols of a document are what           *)
(* cj_next_token finds in a text, and the encoding is checked first.       *)
(* Every behaviour is one of CjParse for some document.                    *)
(***************************************************************************)
EXTENDS CjParse, CjLex

CONSTANT InputTexts       \* texts of bytes, not empty

VARIABLE text             \* what ctx->buf holds

textVars == <<vars, text>>

TextInit ==
  /\ text \in InputTexts
  /\ doc = Lexed(text)
  /\ Init
  /\ status # "error" => (status = "ok" <=> cj_is_valid_utf8(text))

TextNext == Next /\ UNCHANGED text

TextSpec == TextInit /\ [][TextNext]_textVars

-----------------------------------------------------------------------------
(* What a text is by the definitions of UTF-8 and JSON.                    *)

\* The bytes of a code point.
Encoding(cp) ==
  CASE cp < 128   -> <<cp>>
    [] cp < 2048  -> <<192 + (cp \div 64), 128 + (cp % 64)>>
    [] cp < 65536 -> <<224 + (cp \div 4096), 128 + ((cp \div 64) % 64), 128 + (cp % 64)>>
    [] OTHER      -> <<240 + (cp \div 262144), 128 + ((cp \div 4096) % 64),
                       128 + ((cp \div 64) % 64), 128 + (cp % 64)>>

\* The only code point a few bytes can encode.
Candidate(s) ==
  CASE Len(s) = 1 -> s[1]
    [] Len(s) = 2 -> (s[1] % 32) * 64 + (s[2] % 64)
    [] Len(s) = 3 -> (s[1] % 16) * 4096 + (s[2] % 64) * 64 + (s[3] % 64)
    [] Len(s) = 4 -> (s[1] % 8) * 262144 + (s[2] % 64) * 4096 + (s[3] % 64) * 64 + (s[4] % 64)

IsCharacter(s) ==
  LET cp == Candidate(s)
  IN  /\ cp \in 0 .. 1114111 /\ cp \notin 55296 .. 57343
      /\ Encoding(cp) = s

IsUtf8(str) ==
  LET from[i \in 1 .. Len(str) + 1] ==
        \/ i > Len(str)
        \/ \E n \in 1 .. 4 :
             i + n - 1 <= Len(str) /\ IsCharacter(SubSeq(str, i, i + n - 1)) /\ from[i + n]
  IN  from[1]

AllDigits(s) == s # << >> /\ \A i \in DOMAIN s : s[i] \in Digits

\* number = [ minus ] int [ frac ] [ exp ]
IsNumber(s) ==
  \E i \in IF s[1] = 45 THEN {1} ELSE {0} : \E j \in i + 1 .. Len(s) : \E k \in j .. Len(s) :
    /\ AllDigits(SubSeq(s, i + 1, j)) /\ (s[i + 1] = 48 => j = i + 1)
    /\ j = k \/ (s[j + 1] = 46 /\ AllDigits(SubSeq(s, j + 2, k)))
    /\ \/ k = Len(s)
       \/ /\ s[k + 1] \in {101, 69}
          /\ \/ AllDigits(SubSeq(s, k + 2, Len(s)))
             \/ k + 2 <= Len(s) /\ s[k + 2] \in {43, 45} /\ AllDigits(SubSeq(s, k + 3, Len(s)))

IsPrimitive(s) ==
  \/ s \in {<<110, 117, 108, 108>>, <<116, 114, 117, 101>>, <<102, 97, 108, 115, 101>>}
  \/ IsNumber(s)

\* string = quotation-mark *char quotation-mark
IsString(s) ==
  LET n == Len(s) - 1
      chars[i \in 2 .. n + 1] ==
        \/ i > n
        \/ s[i] \notin 0 .. 31 \cup {34, 92} /\ chars[i + 1]
        \/ /\ s[i] = 92 /\ i + 1 <= n
           /\ s[i + 1] \in {34, 92, 47, 98, 102, 110, 114, 116} /\ chars[i + 2]
        \/ /\ s[i] = 92 /\ i + 5 <= n /\ s[i + 1] = 117
           /\ \A k \in 2 .. 5 : s[i + k] \in HexChars
           /\ chars[i + 6]
  IN  Len(s) >= 2 /\ s[1] = 34 /\ s[Len(s)] = 34 /\ chars[2]

\* The symbols that are spelled so, one or none.
Spelt(s) ==
  IF IsPrimitive(s) THEN {"P"}
  ELSE IF IsString(s) THEN {TextOf(SubSeq(s, 2, Len(s) - 1))}
  ELSE CASE s = <<123>> -> {"{"} [] s = <<125>> -> {"}"} [] s = <<91>> -> {"["}
         [] s = <<93>> -> {"]"} [] s = <<44>> -> {","} [] s = <<58>> -> {":"}
         [] OTHER -> {}

\* All ways to read a text as tokens between white space.
Readings(str) ==
  LET read[i \in 1 .. Len(str) + 1] ==
        IF i > Len(str) THEN {<< >>}
        ELSE IF str[i] \in Blanks THEN read[i + 1]
        ELSE UNION {LET syms == Spelt(SubSeq(str, i, j))
                    IN  IF syms = {} THEN {}
                        ELSE {<<s>> \o r : s \in syms, r \in read[j + 1]} :
                      j \in i .. Len(str)}
  IN  read[1]

\* What makes a primitive of one the end of the text cuts off.
Completions ==
  {<<48>>, <<117, 108, 108>>, <<108, 108>>, <<108>>, <<114, 117, 101>>, <<117, 101>>,
   <<101>>, <<97, 108, 115, 101>>, <<108, 115, 101>>, <<115, 101>>}

\* The text before it is parsed.
Unparsed == tokens = << >> /\ (status = "invalid_utf8" \/ pc = "loop")

\* The bytes are read as the definitions say.  A text is refused for its
\* encoding when and only when it is not UTF-8.  A text that is JSON in some
\* reading is read that way, so the automaton neither splits nor joins tokens;
\* and what is read without an error is a reading of the text, or of a text that
\* goes on where this one cuts off its last primitive.
LexerAgrees ==
  Unparsed =>
    /\ status = "invalid_utf8" <=> ~IsUtf8(text)
    /\ \A r \in Readings(text) : IsJson(r) => doc = r
    /\ doc # << >> /\ doc[Len(doc)] # "i" =>
         \/ doc \in Readings(text)
         \/ /\ doc[Len(doc)] = "P"
            /\ \E c \in Completions : doc \in Readings(cj_trim_trailing_whitespace(text) \o c)
=============================================================================
