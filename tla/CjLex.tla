-------------------------------- MODULE CjLex --------------------------------
(***************************************************************************)
(* From bytes to tokens: the UTF-8 decoder of cj.c, its check of a text,   *)
(* and cj_next_token with the automaton for primitives.  A text is a       *)
(* sequence of bytes, positions count from 1.                              *)
(***************************************************************************)
EXTENDS Integers, Sequences
LOCAL INSTANCE SequencesExt

CONSTANTS
  TextNames,     \* the texts of some strings, by their bytes
  OtherText      \* the text of all others

\* What a string holds.
TextOf(bytes) == IF bytes \in DOMAIN TextNames THEN TextNames[bytes] ELSE OtherText

Digits   == 48 .. 57
Positive == 49 .. 57
HexChars == Digits \cup 65 .. 70 \cup 97 .. 102
Blanks   == {32, 9, 13, 10}

\* The smallest number of a set.
First(s) == CHOOSE i \in s : \A j \in s : i <= j

-----------------------------------------------------------------------------
(* UTF-8.                                                                  *)

\* The ones before the first zero of a byte.
LeadingOnes(byte) ==
  First({n \in 0 .. 8 : n = 8 \/ (byte \div 2^(7 - n)) % 2 = 0})

\* What the code has read of n bytes: the bits behind those that mark a byte.
Payload(str, n) ==
  FoldLeft(LAMBDA cp, byte : cp * 64 + (byte % 64), str[1] % 2^(7 - n), SubSeq(str, 2, n))

\* Mutant of TooShort: surrogates pass.
TooShortOnly(cp, n) ==
  \/ n = 2 /\ cp < 128
  \/ n = 3 /\ cp < 2048
  \/ n = 4 /\ (cp < 65536 \/ cp > 1114111)

\* A code point that has no encoding, or a shorter one.
TooShort(cp, n) ==
  \/ n = 2 /\ cp < 128
  \/ n = 3 /\ cp < 2048
  \/ n = 4 /\ (cp < 65536 \/ cp > 1114111)
  \/ cp \in 55296 .. 57343

\* The bytes of the character a text begins with, 0 if it is invalid.
cj_utf8_to_codepoint(str) ==
  LET n == LeadingOnes(str[1])
  IN  IF str[1] < 128 THEN 1
      ELSE IF n < 2 \/ n > 4 \/ n > Len(str) THEN 0
      ELSE IF \E i \in 2 .. n : str[i] \notin 128 .. 191 THEN 0
      ELSE IF TooShort(Payload(str, n), n) THEN 0
      ELSE n

\* Whether a text that is not empty consists of such characters.
cj_is_valid_utf8(str) ==
  LET rest(i) == SubSeq(str, i, Len(str))
      valid[i \in 1 .. Len(str) + 1] ==
        \/ i > Len(str)
        \/ LET n == cj_utf8_to_codepoint(rest(i)) IN n > 0 /\ valid[i + n]
  IN  valid[1]

-----------------------------------------------------------------------------
(* Tokens.                                                                 *)

\* The position of the first byte that is no white space.
cj_eat_white_space(str, pos) ==
  First({i \in pos .. Len(str) + 1 : i > Len(str) \/ str[i] \notin Blanks})

cj_trim_trailing_whitespace(str) ==
  LET inks == {i \in DOMAIN str : str[i] \notin Blanks}
  IN  SubSeq(str, 1, First({n \in 0 .. Len(str) : \A i \in inks : i <= n}))

\* The automaton for strings: plain text, behind a backslash, before one of four
\* hexadecimal digits, and the two ends.
StringNext(esc, ch) ==
  CASE esc = "plain" -> IF ch = 34 THEN "end" ELSE IF ch < 32 THEN "bad"
                        ELSE IF ch = 92 THEN "escape" ELSE "plain"
    [] esc = "escape" -> IF ch \in {34, 110, 92, 47, 116, 114, 98, 102} THEN "plain"
                         ELSE IF ch = 117 THEN "hex1" ELSE "bad"
    [] esc \in {"end", "bad"} -> esc
    [] ch \notin HexChars -> "bad"
    [] esc = "hex1" -> "hex2"
    [] esc = "hex2" -> "hex3"
    [] esc = "hex3" -> "hex4"
    [] esc = "hex4" -> "plain"

\* The automaton for primitives: from, on which bytes, to.
PrimitiveMoves ==
  {<<"init", {110}, "n">>, <<"n", {117}, "nu">>, <<"nu", {108}, "nul">>,
   <<"nul", {108}, "finish">>,
   <<"init", {116}, "t">>, <<"t", {114}, "tr">>, <<"tr", {117}, "tru">>,
   <<"tru", {101}, "finish">>,
   <<"init", {102}, "f">>, <<"f", {97}, "fa">>, <<"fa", {108}, "fal">>,
   <<"fal", {115}, "fals">>, <<"fals", {101}, "finish">>,
   <<"init", {45}, "sign">>,
   <<"init", {48}, "initial_zero">>, <<"sign", {48}, "initial_zero">>,
   <<"init", Positive, "digit">>, <<"sign", Positive, "digit">>,
   <<"digit", Digits, "digit">>,
   <<"digit", {46}, "dot">>, <<"initial_zero", {46}, "dot">>,
   <<"dot", Digits, "fract_digit">>, <<"fract_digit", Digits, "fract_digit">>,
   <<"digit", {101, 69}, "exp_e">>, <<"initial_zero", {101, 69}, "exp_e">>,
   <<"fract_digit", {101, 69}, "exp_e">>,
   <<"exp_e", {43, 45}, "exp_sign">>, <<"exp_e", Digits, "exp_digit">>,
   <<"exp_sign", Digits, "exp_digit">>, <<"exp_digit", Digits, "exp_digit">>}

\* The next state, "init" if there is none.
PrimitiveNext(state, ch) ==
  LET moves == {m \in PrimitiveMoves : m[1] = state /\ ch \in m[2]}
  IN  IF moves = {} THEN "init" ELSE (CHOOSE m \in moves : TRUE)[3]

\* Mutant of ValidEnds: a number may end behind its dot.
ValidEndsDot == {"exp_digit", "fract_digit", "initial_zero", "digit", "dot", "finish"}

\* Where a primitive may end before the text does.
ValidEnds == {"exp_digit", "fract_digit", "initial_zero", "digit", "finish"}

Lexeme(type, pos, len, next) == [type |-> type, pos |-> pos, len |-> len, next |-> next]

NoLexeme(pos) == Lexeme("i", pos, 0, pos)

\* A string whose opening quote is at pos.
StringAt(str, pos) ==
  LET esc[i \in pos .. Len(str)] ==
        IF i = pos THEN "plain" ELSE StringNext(esc[i - 1], str[i])
      ends == {i \in pos .. Len(str) : esc[i] = "end"}
  IN  IF ends = {} THEN NoLexeme(pos)
      ELSE Lexeme("S", pos + 1, First(ends) - pos - 1, First(ends) + 1)

\* A primitive that begins at pos.  One the end of the text cuts off is taken
\* whatever its state.
PrimitiveAt(str, pos) ==
  LET state[i \in pos .. Len(str) + 1] ==
        IF i = pos THEN "init" ELSE PrimitiveNext(state[i - 1], str[i - 1])
      stop == First({i \in pos .. Len(str) + 1 :
                       i > Len(str) \/ PrimitiveNext(state[i], str[i]) = "init"})
  IN  IF \/ stop > Len(str)
         \/ state[stop] = "finish"
         \/ state[stop] \in ValidEnds /\ str[stop] # 0
      THEN Lexeme("P", pos, stop - pos, stop)
      ELSE NoLexeme(pos)

\* The token behind the white space at a position.
cj_next_token(str, pos) ==
  LET at == cj_eat_white_space(str, pos)
      structural == {<<123, "{">>, <<125, "}">>, <<91, "[">>, <<93, "]">>,
                     <<44, ",">>, <<58, ":">>}
      found == {s \in structural : at <= Len(str) /\ s[1] = str[at]}
  IN  IF at > Len(str) THEN NoLexeme(at)
      ELSE IF found # {} THEN Lexeme((CHOOSE s \in found : TRUE)[2], at, 1, at + 1)
      ELSE IF str[at] = 34 THEN StringAt(str, at)
      ELSE PrimitiveAt(str, at)

SymbolOf(str, tok) ==
  IF tok.type = "S" THEN TextOf(SubSeq(str, tok.pos, tok.pos + tok.len - 1)) ELSE tok.type

\* The symbols cj_parse gets from cj_next_token, up to the first that is none.
Lexed(bytes) ==
  LET str == cj_trim_trailing_whitespace(bytes)
      from[i \in 1 .. Len(str) + 1] ==
        IF i > Len(str) THEN << >>
        ELSE LET tok == cj_next_token(str, i)
             IN  IF tok.type = "i" THEN <<"i">>
                 ELSE <<SymbolOf(str, tok)>> \o from[tok.next]
  IN  from[1]
=============================================================================
