--------------------------- MODULE CjParse_proofs ---------------------------
(***************************************************************************)
(* cj_parse reads parents inside the token array only, for every document  *)
(* and size of the array.  The argument is the stack of open structures    *)
(* the code does not have: it is what the parents of the tokens spell, and *)
(* its height is the sum of the two depth counters.                        *)
(***************************************************************************)
EXTENDS CjParse, Cj_proofs

AnySym == Symbols \cup {"i"}

AnyToken == [sym : AnySym, parent : Nat]

\* s holds the references of the open structures, outermost first.
Spelled(s) ==
  /\ Len(s) = objDepth + arrDepth
  /\ parent = IF Len(s) = 0 THEN 0 ELSE s[Len(s)]
  /\ \A k \in 1 .. Len(s) :
       /\ s[k] \in 1 .. Len(tokens)
       /\ tokens[s[k]].parent = IF k = 1 THEN 0 ELSE s[k - 1]

Stack == \E s \in Seq(Nat) : Spelled(s)

\* Every name separator is between a key and a value of an object; the value may
\* still be missing at the end of the array.
Separates(ts, i) ==
  /\ i > 1 /\ ts[i - 1].sym \in Texts
  /\ ts[i].parent > 0 /\ ts[ts[i].parent].sym = "{"
  /\ i < Len(ts) => Type(ts[i + 1].sym) \in ValueTypes

Separated(ts) == \A i \in 1 .. Len(ts) : ts[i].sym = ":" => Separates(ts, i)

\* While the text is accepted, separators are where they belong, and the only
\* structures around them are those counted.
Placed ==
  /\ pc = "loop" => status = "ok"
  /\ nstructures >= objDepth + arrDepth
  /\ status = "ok" =>
       /\ Separated(tokens)
       /\ nstructures = 0 => \A i \in 1 .. Len(tokens) : tokens[i].sym # ":"
       /\ pc = "done" => FinalStatus = "ok"

IInv == TypeOK /\ Stack /\ Placed

-----------------------------------------------------------------------------
LEMMA AppendFacts ==
  ASSUME NEW S, NEW s \in Seq(S), NEW e \in S
  PROVE  /\ Append(s, e) \in Seq(S)
         /\ Len(Append(s, e)) = Len(s) + 1
         /\ \A i \in 1 .. Len(s) : Append(s, e)[i] = s[i]
         /\ Append(s, e)[Len(s) + 1] = e
  OBVIOUS

LEMMA SeqDomain == ASSUME NEW S, NEW s \in Seq(S) PROVE DOMAIN s = 1 .. Len(s)
  OBVIOUS

LEMMA SymType == ASSUME TypeOK PROVE Sym \in AnySym
<1>1. doc \in Seq(AnySym)
  BY DocAssumption DEF TypeOK, AnySym
<1>2. Len(tokens) \in Nat
  BY DEF TypeOK
<1>3. CASE Len(tokens) < Len(doc)
  <2>1. Len(tokens) + 1 \in 1 .. Len(doc)
    BY <1>1, <1>2, <1>3
  <2>2. doc[Len(tokens) + 1] \in AnySym
    BY <1>1, <2>1
  <2> QED
    BY <1>3, <2>2 DEF Sym
<1>4. CASE ~(Len(tokens) < Len(doc))
  BY <1>4 DEF Sym, AnySym
<1> QED
  BY <1>3, <1>4

LEMMA InRange ==
  ASSUME NEW n \in Nat
  PROVE  /\ \A k \in 0 .. n : k # 0 => k \in 1 .. n /\ k > 0
         /\ \A k \in 1 .. n : k # 1 => k - 1 \in 1 .. n
         /\ \A k \in 1 .. n : k < n => k + 1 \in 1 .. n
         /\ \A k \in 1 .. n + 1 : k \in 1 .. n \/ k = n + 1
         /\ ~(n < 2) => n \in 1 .. n
  OBVIOUS

LEMMA Numbers ==
  ASSUME TypeOK
  PROVE  /\ objDepth \in Nat /\ arrDepth \in Nat /\ nstructures \in Nat
         /\ ncolons \in Nat /\ ncommas \in Nat
         /\ Len(tokens) \in Nat /\ parent \in 0 .. Len(tokens)
  BY DEF TypeOK

\* ts is the array with the current token at its end.
Extended(ts, p) ==
  /\ ts \in Seq(AnyToken)
  /\ Len(ts) = Len(tokens) + 1
  /\ \A i \in 1 .. Len(tokens) : ts[i] = tokens[i]
  /\ ts[Len(tokens) + 1] = Token(Sym, p)

\* What a token put at the end of the array does to the ones before it.
LEMMA TokenPut ==
  ASSUME TypeOK, NEW p \in 0 .. Len(tokens), ~Full,
         tokens' = Append(tokens, Token(Sym, p))
  PROVE  /\ tokens' \in Seq(AnyToken)
         /\ Len(tokens') = Len(tokens) + 1 /\ Len(tokens) \in Nat
         /\ Len(tokens') <= TokensSize
         /\ \A i \in 1 .. Len(tokens) : tokens'[i] = tokens[i]
         /\ tokens'[Len(tokens) + 1] = Token(Sym, p)
         /\ \A i \in 1 .. Len(tokens') : tokens'[i].parent < i
<1>1. /\ tokens \in Seq(AnyToken) /\ Len(tokens) \in Nat
      /\ Len(tokens) <= TokensSize /\ TokensSize \in Nat
      /\ \A i \in 1 .. Len(tokens) : tokens[i].parent < i
  BY DocAssumption DEF TypeOK, AnyToken, AnySym
<1>2. Token(Sym, p) \in AnyToken
  BY SymType, <1>1 DEF Token, AnyToken
<1>3. /\ tokens' \in Seq(AnyToken) /\ Len(tokens') = Len(tokens) + 1
      /\ \A i \in 1 .. Len(tokens) : tokens'[i] = tokens[i]
      /\ tokens'[Len(tokens) + 1] = Token(Sym, p)
  BY <1>1, <1>2, AppendFacts
<1>4. Len(tokens') <= TokensSize
  BY <1>1, <1>3 DEF Full
<1>5. ASSUME NEW i \in 1 .. Len(tokens') PROVE tokens'[i].parent < i
  <2>1. CASE i \in 1 .. Len(tokens)
    BY <1>1, <1>3, <2>1
  <2>2. CASE i = Len(tokens) + 1
    BY <1>1, <1>3, <2>2 DEF Token
  <2> QED
    BY <1>1, <1>3, <2>1, <2>2
<1> QED
  BY <1>1, <1>3, <1>4, <1>5

\* A token put at the end leaves the open structures as they are.
LEMMA StackKept ==
  ASSUME TypeOK, Stack, NEW p \in 0 .. Len(tokens), ~Full,
         tokens' = Append(tokens, Token(Sym, p)),
         UNCHANGED <<parent, objDepth, arrDepth>>
  PROVE  Stack'
<1>1. PICK s \in Seq(Nat) : Spelled(s)
  BY DEF Stack
<1>2. /\ Len(tokens') = Len(tokens) + 1 /\ Len(tokens) \in Nat
      /\ \A i \in 1 .. Len(tokens) : tokens'[i] = tokens[i]
  BY TokenPut
<1>3. Spelled(s)'
  <2>1. ASSUME NEW k \in 1 .. Len(s)
        PROVE  /\ s[k] \in 1 .. Len(tokens')
               /\ tokens'[s[k]].parent = IF k = 1 THEN 0 ELSE s[k - 1]
    <3>1. /\ s[k] \in 1 .. Len(tokens)
          /\ tokens[s[k]].parent = IF k = 1 THEN 0 ELSE s[k - 1]
      BY <1>1 DEF Spelled
    <3> QED
      BY <1>2, <3>1
  <2> QED
    BY <1>1, <2>1 DEF Spelled
<1> QED
  BY <1>3 DEF Stack

\* The counters tell whether a structure is open.
LEMMA Counters == ASSUME TypeOK, Stack PROVE AssertHolds
<1>1. PICK s \in Seq(Nat) : Spelled(s)
  BY DEF Stack
<1>2. Len(s) \in Nat /\ Len(s) = objDepth + arrDepth
  BY <1>1 DEF Spelled
<1>3. objDepth \in Nat /\ arrDepth \in Nat
  BY DEF TypeOK
<1>4. CASE Len(s) = 0
  BY <1>1, <1>2, <1>3, <1>4 DEF Spelled, AssertHolds, TopLevel, Invalid
<1>5. CASE Len(s) # 0
  <2>1. parent = s[Len(s)] /\ s[Len(s)] \in 1 .. Len(tokens)
    BY <1>1, <1>2, <1>5 DEF Spelled
  <2>2. parent # 0
    BY <2>1
  <2> QED
    BY <1>2, <1>3, <1>5, <2>2 DEF AssertHolds, TopLevel, Invalid
<1> QED
  BY <1>4, <1>5

-----------------------------------------------------------------------------
LEMMA Initially == Init => IInv
<1> SUFFICES ASSUME Init PROVE IInv
  OBVIOUS
<1>1. TypeOK
  BY DocAssumption DEF Init, TypeOK, Statuses, Invalid
<1>2. Stack
  <2> DEFINE s == <<>>
  <2>1. s \in Seq(Nat) /\ Len(s) = 0
    OBVIOUS
  <2>2. Spelled(s)
    BY <2>1 DEF Init, Spelled, Invalid
  <2> QED
    BY <2>1, <2>2 DEF Stack
<1>3. Placed
  <2>1. /\ Len(tokens) = 0 /\ tokens = <<>>
        /\ status = "ok" => pc = "loop"
        /\ objDepth = 0 /\ arrDepth = 0 /\ nstructures = 0
    BY DEF Init
  <2>2. Separated(tokens)
    <3>1. 1 .. Len(tokens) = {}
      BY <2>1
    <3> QED
      BY <3>1 DEF Separated
  <2>3. pc = "done" => status # "ok"
    BY <2>1
  <2>5. pc = "loop" => status = "ok"
    BY DEF Init
  <2>4. /\ nstructures >= objDepth + arrDepth
        /\ nstructures = 0 => \A i \in 1 .. Len(tokens) : tokens[i].sym # ":"
    BY <2>1
  <2> QED
    BY <2>2, <2>3, <2>4, <2>5 DEF Placed
<1> QED
  BY <1>1, <1>2, <1>3 DEF IInv

LEMMA FailKeeps ==
  ASSUME IInv, NEW error \in Statuses \ {"ok"}, Fail(error)
  PROVE  IInv'
<1>1. /\ TypeOK /\ Stack /\ Placed
      /\ pc' = "done" /\ status' = error
      /\ tokens' = IF Full THEN tokens ELSE Append(tokens, Token(Sym, parent))
      /\ UNCHANGED <<doc, parent, objDepth, arrDepth, ncolons, ncommas, nstructures>>
  BY DEF IInv, Fail, counts
<1>2. CASE Full
  BY <1>1, <1>2 DEF IInv, TypeOK, Stack, Spelled, Placed
<1>3. CASE ~Full
  <2>1. tokens' = Append(tokens, Token(Sym, parent)) /\ parent \in 0 .. Len(tokens)
    BY <1>1, <1>3 DEF TypeOK
  <2>2. Stack'
    BY <1>1, <1>3, <2>1, StackKept
  <2>3. TypeOK'
    BY <1>1, <1>3, <2>1, TokenPut DEF TypeOK, AnyToken, AnySym
  <2>4. Placed'
    BY <1>1 DEF Placed
  <2> QED
    BY <2>2, <2>3, <2>4 DEF IInv
<1> QED
  BY <1>2, <1>3

LEMMA TokenFacts ==
  ASSUME TypeOK, NEW i \in 1 .. Len(tokens)
  PROVE  /\ tokens[i].sym \in AnySym /\ tokens[i].parent \in Nat
         /\ tokens[i].parent < i
         /\ tokens[i].parent # 0 => tokens[i].parent \in 1 .. Len(tokens)
<1>1. /\ tokens \in Seq(AnyToken)
      /\ \A j \in 1 .. Len(tokens) : tokens[j].parent < j
  BY DEF TypeOK, AnyToken, AnySym
<1>2. tokens[i] \in AnyToken
  BY <1>1
<1> QED
  BY <1>1, <1>2 DEF AnyToken

\* The last token, if it may stand there, does not disturb the separators before
\* it, and is in its place if it is a separator.
LEMMA SeparatorsKept ==
  ASSUME TypeOK, Separated(tokens), ~Misplaced, NEW p \in 0 .. Len(tokens),
         Sym = ":" => p = parent,
         NEW ts, Extended(ts, p)
  PROVE  Separated(ts)
<1>1. Len(tokens) \in Nat
  BY DEF TypeOK
<1>2. ASSUME NEW i \in 1 .. Len(tokens), ts[i].sym = ":"
      PROVE  Separates(ts, i)
  <2>1. /\ tokens[i].sym = ":" /\ i > 1 /\ tokens[i - 1].sym \in Texts
        /\ tokens[i].parent > 0 /\ tokens[tokens[i].parent].sym = "{"
        /\ i < Len(tokens) => Type(tokens[i + 1].sym) \in ValueTypes
    <3>1. tokens[i].sym = ":"
      BY <1>2 DEF Extended
    <3> QED
      BY <3>1 DEF Separated, Separates
  <2>2. tokens[i].parent \in 1 .. Len(tokens) /\ i - 1 \in 1 .. Len(tokens)
    <3>1. /\ tokens[i].parent \in Nat
          /\ tokens[i].parent # 0 => tokens[i].parent \in 1 .. Len(tokens)
      BY TokenFacts
    <3>2. tokens[i].parent > 0 /\ i > 1
      BY <2>1
    <3>3. tokens[i].parent # 0 /\ i # 1
      BY <3>2
    <3> QED
      BY <1>1, <3>1, <3>3, InRange
  <2>3. /\ ts[i] = tokens[i] /\ ts[i - 1] = tokens[i - 1]
        /\ ts[tokens[i].parent] = tokens[tokens[i].parent]
    BY <2>2 DEF Extended
  <2>4. Type(ts[i + 1].sym) \in ValueTypes
    <3>1. CASE i < Len(tokens)
      <4>1. i + 1 \in 1 .. Len(tokens)
        BY <1>1, <3>1, InRange
      <4> QED
        BY <2>1, <3>1, <4>1 DEF Extended
    <3>2. CASE i = Len(tokens)
      <4>1. Previous = ":"
        <5>1. tokens[Len(tokens)].sym = ":"
          BY <2>1, <3>2
        <5>3. tokens # <<>>
          <6>1. tokens = <<>> => Len(tokens) = 0
            OBVIOUS
          <6> QED
            BY <1>1, <6>1, <3>2
        <5>2. ":" \notin Texts
          BY TextAssumption
        <5> QED
          BY <5>1, <5>2, <5>3 DEF Previous, Type
      <4>2. Type(Sym) \in ValueTypes
        BY <4>1 DEF Misplaced
      <4> QED
        BY <3>2, <4>2 DEF Extended, Token
    <3> QED
      BY <1>1, <3>1, <3>2
  <2> QED
    BY <2>1, <2>3, <2>4 DEF Separates
<1>3. ASSUME ts[Len(tokens) + 1].sym = ":"
      PROVE  /\ Len(tokens) >= 1 /\ ts[Len(tokens)].sym \in Texts
             /\ parent > 0 /\ ts[parent].sym = "{"
             /\ ts[Len(tokens) + 1].parent = parent
  <2>1. Sym = ":" /\ ts[Len(tokens) + 1].parent = parent
    BY <1>3 DEF Extended, Token
  <2>2. /\ ~(Len(tokens) < 2) /\ parent # 0 /\ Previous = "S"
        /\ tokens[parent].sym = "{"
    BY <2>1 DEF Misplaced, Invalid
  <2>3. parent \in 1 .. Len(tokens) /\ Len(tokens) \in 1 .. Len(tokens)
    <3>1. parent \in 0 .. Len(tokens)
      BY DEF TypeOK
    <3>2. Len(tokens) \in 1 .. Len(tokens)
      BY <1>1, <2>2, InRange
    <3> QED
      BY <1>1, <2>2, <3>1, <3>2, InRange
  <2>4. tokens[Len(tokens)].sym \in Texts
    <3>1. Type(tokens[Len(tokens)].sym) = "S"
      BY <1>1, <2>2 DEF Previous
    <3>2. tokens[Len(tokens)].sym \in AnySym
      BY <2>3, TokenFacts
    <3> QED
      BY <3>1, <3>2, TextAssumption DEF Type, AnySym, Symbols, Begins, Ends
  <2>5. ts[Len(tokens)] = tokens[Len(tokens)] /\ ts[parent] = tokens[parent]
    BY <2>3 DEF Extended
  <2>6. Len(tokens) >= 1 /\ parent > 0
    BY <1>1, <2>3
  <2> QED
    BY <2>1, <2>2, <2>4, <2>5, <2>6
<1> QED
  <2> SUFFICES ASSUME NEW i \in 1 .. Len(ts), ts[i].sym = ":"
               PROVE  Separates(ts, i)
    BY DEF Separated
  <2>1. CASE i \in 1 .. Len(tokens)
    BY <1>2, <2>1
  <2>2. CASE i = Len(tokens) + 1
    <3>1. /\ Len(tokens) >= 1 /\ ts[Len(tokens)].sym \in Texts
          /\ parent > 0 /\ ts[parent].sym = "{"
          /\ ts[i].parent = parent
      BY <1>3, <2>2
    <3>2. Len(ts) = Len(tokens) + 1
      BY DEF Extended
    <3>3. i > 1 /\ i - 1 = Len(tokens) /\ ~(i < Len(ts))
      <4>1. Len(tokens) >= 1
        BY <3>1
      <4> QED
        BY <1>1, <2>2, <3>2, <4>1
    <3> QED
      BY <3>1, <3>3 DEF Separates
  <2>3. i \in 1 .. Len(tokens) \/ i = Len(tokens) + 1
    BY <1>1, InRange DEF Extended
  <2> QED
    BY <2>1, <2>2, <2>3

-----------------------------------------------------------------------------
\* A token that is taken keeps the separators where they belong.
LEMMA TakenInPlace ==
  ASSUME IInv, Allowed, NEW p \in 0 .. Len(tokens), Sym = ":" => p = parent,
         tokens' = Append(tokens, Token(Sym, p)),
         UNCHANGED <<doc, pc, status>>,
         nstructures' >= objDepth' + arrDepth', nstructures' >= nstructures
  PROVE  Placed'
<1>1. TypeOK /\ Stack /\ Placed /\ ~Full /\ ~Misplaced /\ pc = "loop"
  BY DEF IInv, Allowed, HasToken, Running
<1>2. Extended(tokens', p)
  BY <1>1, TokenPut DEF Extended
<1>3. ASSUME status = "ok" PROVE Separated(tokens')
  <2>1. Separated(tokens)
    BY <1>1, <1>3 DEF Placed
  <2> QED
    BY <1>1, <1>2, <2>1, SeparatorsKept
<1>4. ASSUME status = "ok", nstructures' = 0
      PROVE  \A i \in 1 .. Len(tokens') : tokens'[i].sym # ":"
  <2>1. nstructures = 0 /\ objDepth = 0 /\ arrDepth = 0
    BY <1>1, <1>4 DEF Placed, TypeOK
  <2>2. \A i \in 1 .. Len(tokens) : tokens[i].sym # ":"
    BY <1>1, <1>4, <2>1 DEF Placed
  <2>3. parent = Invalid
    BY <1>1, <2>1, Counters DEF AssertHolds, TopLevel
  <2>4. Sym # ":"
    BY <1>1, <2>3 DEF Misplaced
  <2>5. Len(tokens) \in Nat
    BY <1>1 DEF TypeOK
  <2>6. TAKE i \in 1 .. Len(tokens')
  <2>7. i \in 1 .. Len(tokens) \/ i = Len(tokens) + 1
    BY <1>2, <2>5, InRange DEF Extended
  <2>8. CASE i \in 1 .. Len(tokens)
    BY <1>2, <2>2, <2>8 DEF Extended
  <2>9. CASE i = Len(tokens) + 1
    BY <1>2, <2>4, <2>9 DEF Extended, Token
  <2> QED
    BY <2>7, <2>8, <2>9
<1>5. pc' = "loop" /\ status' = status
  BY <1>1
<1>6. pc = "loop" => status = "ok"
  BY <1>1 DEF Placed
<1> QED
  BY <1>3, <1>4, <1>5, <1>6 DEF Placed

LEMMA OpenKeeps == ASSUME IInv, OpenStructure PROVE IInv'
<1>1. /\ TypeOK /\ Stack /\ Placed /\ Allowed /\ ~Full /\ Sym \in Begins
      /\ UNCHANGED <<doc, pc, status, ncolons, ncommas>>
  BY DEF IInv, OpenStructure, Allowed, HasToken
<1>2. tokens' = Append(tokens, Token(Sym, parent)) /\ parent' = Len(tokens) + 1
  BY DEF OpenStructure
<1>3. /\ objDepth \in Nat /\ arrDepth \in Nat /\ nstructures \in Nat
      /\ Len(tokens) \in Nat /\ parent \in 0 .. Len(tokens)
  BY <1>1, Numbers
<1>8. Extended(tokens', parent)
  BY <1>1, <1>2, <1>3, TokenPut DEF Extended
<1>9. /\ Len(tokens') = Len(tokens) + 1
      /\ \A i \in 1 .. Len(tokens) : tokens'[i] = tokens[i]
      /\ tokens'[Len(tokens) + 1].parent = parent
  BY <1>8 DEF Extended, Token
<1>10. nstructures' = nstructures + 1
  BY DEF OpenStructure
<1>4. /\ objDepth' \in Nat /\ arrDepth' \in Nat
      /\ objDepth' + arrDepth' = objDepth + arrDepth + 1
  <2>1. /\ objDepth' = IF Sym = "{" THEN objDepth + 1 ELSE objDepth
        /\ arrDepth' = IF Sym = "[" THEN arrDepth + 1 ELSE arrDepth
    BY DEF OpenStructure
  <2>2. CASE Sym = "{"
    <3>1. objDepth' = objDepth + 1 /\ arrDepth' = arrDepth
      BY <2>1, <2>2
    <3> QED
      BY <1>3, <3>1
  <2>3. CASE Sym = "["
    <3>1. objDepth' = objDepth /\ arrDepth' = arrDepth + 1
      BY <2>1, <2>3
    <3> QED
      BY <1>3, <3>1
  <2> QED
    BY <1>1, <2>2, <2>3 DEF Begins
<1>5. TypeOK'
  <2>1. parent' \in 0 .. Len(tokens')
    BY <1>2, <1>3, <1>9
  <2>2. /\ tokens' \in Seq(AnyToken) /\ Len(tokens') <= TokensSize
        /\ \A i \in 1 .. Len(tokens') : tokens'[i].parent < i
    BY <1>1, <1>2, <1>3, TokenPut
  <2>3. nstructures' \in Nat
    BY <1>3, <1>10
  <2> QED
    BY <1>1, <1>4, <2>1, <2>2, <2>3 DEF TypeOK, AnyToken, AnySym
<1>6. Stack'
  <2>1. PICK s \in Seq(Nat) : Spelled(s)
    BY <1>1 DEF Stack
  <2>2. PICK t \in Seq(Nat) :
          /\ Len(t) = Len(s) + 1 /\ Len(s) \in Nat
          /\ \A k \in 1 .. Len(s) : t[k] = s[k]
          /\ t[Len(s) + 1] = Len(tokens) + 1
    <3>1. Len(tokens) + 1 \in Nat /\ Len(s) \in Nat
      BY <1>3
    <3> DEFINE t == Append(s, Len(tokens) + 1)
    <3>2. /\ t \in Seq(Nat) /\ Len(t) = Len(s) + 1
          /\ \A k \in 1 .. Len(s) : t[k] = s[k]
          /\ t[Len(s) + 1] = Len(tokens) + 1
      BY <3>1, AppendFacts
    <3> QED
      BY <3>1, <3>2
  <2>3. Len(t) = objDepth' + arrDepth'
    BY <1>4, <2>1, <2>2 DEF Spelled
  <2>4. parent' = IF Len(t) = 0 THEN 0 ELSE t[Len(t)]
    BY <1>2, <2>2
  <2>5. ASSUME NEW k \in 1 .. Len(t)
        PROVE  /\ t[k] \in 1 .. Len(tokens')
               /\ tokens'[t[k]].parent = IF k = 1 THEN 0 ELSE t[k - 1]
    <3>1. k \in 1 .. Len(s) \/ k = Len(s) + 1
      BY <2>2, InRange
    <3>2. CASE k \in 1 .. Len(s)
      <4>1. /\ s[k] \in 1 .. Len(tokens)
            /\ tokens[s[k]].parent = IF k = 1 THEN 0 ELSE s[k - 1]
        BY <2>1, <3>2 DEF Spelled
      <4>2. t[k] = s[k] /\ (k # 1 => t[k - 1] = s[k - 1])
        BY <2>2, <3>2, InRange
      <4>3. t[k] \in 1 .. Len(tokens') /\ tokens'[t[k]] = tokens[t[k]]
        BY <1>3, <1>9, <4>1, <4>2
      <4> QED
        BY <4>1, <4>2, <4>3
    <3>3. CASE k = Len(s) + 1
      <4>1. t[k] = Len(tokens) + 1
        BY <2>2, <3>3
      <4>2. tokens'[t[k]].parent = parent
        BY <1>9, <4>1
      <4>3. t[k] \in 1 .. Len(tokens')
        BY <1>3, <1>9, <4>1
      <4>4. CASE Len(s) = 0
        <5>1. parent = 0
          BY <2>1, <4>4 DEF Spelled
        <5> QED
          BY <3>3, <4>2, <4>3, <4>4, <5>1
      <4>5. CASE Len(s) # 0
        <5>1. parent = s[Len(s)]
          BY <2>1, <4>5 DEF Spelled
        <5>2. k # 1 /\ k - 1 = Len(s) /\ Len(s) \in 1 .. Len(s)
          BY <2>2, <3>3, <4>5
        <5>3. t[k - 1] = s[Len(s)]
          BY <2>2, <5>2
        <5> QED
          BY <4>2, <4>3, <5>1, <5>2, <5>3
      <4> QED
        BY <4>4, <4>5
    <3> QED
      BY <3>1, <3>2, <3>3
  <2>6. Spelled(t)'
    BY <2>3, <2>4, <2>5 DEF Spelled
  <2> QED
    BY <2>2, <2>6 DEF Stack
<1>7. Placed'
  <2>1. nstructures' >= objDepth' + arrDepth' /\ nstructures' >= nstructures
    <3>1. nstructures >= objDepth + arrDepth
      BY <1>1 DEF Placed
    <3>2. /\ nstructures + 1 >= objDepth + arrDepth + 1
          /\ nstructures + 1 >= nstructures
      BY <1>3, <3>1
    <3> QED
      BY <1>4, <1>10, <3>2
  <2> QED
    BY <1>1, <1>2, <1>3, <2>1, TakenInPlace
<1> QED
  BY <1>5, <1>6, <1>7 DEF IInv

LEMMA Shortened ==
  ASSUME NEW s \in Seq(Nat), Len(s) # 0
  PROVE  \E t \in Seq(Nat) : /\ Len(t) = Len(s) - 1
                             /\ \A k \in 1 .. Len(t) : t[k] = s[k]
<1> DEFINE t == [k \in 1 .. Len(s) - 1 |-> s[k]]
<1>1. Len(s) - 1 \in Nat
  OBVIOUS
<1>2. \A k \in 1 .. Len(s) - 1 : s[k] \in Nat
  OBVIOUS
<1>3. t \in Seq(Nat) /\ Len(t) = Len(s) - 1
  BY <1>1, <1>2
<1>4. \A k \in 1 .. Len(t) : t[k] = s[k]
  BY <1>3
<1> QED
  BY <1>3, <1>4

LEMMA CloseKeeps == ASSUME IInv, CloseStructure PROVE IInv'
<1>1. /\ TypeOK /\ Stack /\ Placed /\ Allowed /\ ~Full /\ ~Unopened /\ Sym \in Ends
      /\ UNCHANGED <<doc, pc, status, ncolons, ncommas, nstructures>>
  BY DEF IInv, CloseStructure, Allowed, HasToken
<1> DEFINE outer == tokens[parent].parent
<1>2. tokens' = Append(tokens, Token(Sym, outer)) /\ parent' = outer
  BY DEF CloseStructure
<1>3. /\ objDepth \in Nat /\ arrDepth \in Nat /\ nstructures \in Nat
      /\ Len(tokens) \in Nat
  BY <1>1, Numbers
<1>4. /\ objDepth' \in Nat /\ arrDepth' \in Nat
      /\ objDepth' + arrDepth' = objDepth + arrDepth - 1
      /\ objDepth + arrDepth # 0
  <2>1. /\ objDepth' = IF Sym = "}" THEN objDepth - 1 ELSE objDepth
        /\ arrDepth' = IF Sym = "]" THEN arrDepth - 1 ELSE arrDepth
    BY DEF CloseStructure
  <2>2. CASE Sym = "}"
    <3>1. objDepth' = objDepth - 1 /\ arrDepth' = arrDepth /\ objDepth # 0
      BY <1>1, <2>1, <2>2 DEF Unopened
    <3> QED
      BY <1>3, <3>1
  <2>3. CASE Sym = "]"
    <3>1. objDepth' = objDepth /\ arrDepth' = arrDepth - 1 /\ arrDepth # 0
      BY <1>1, <2>1, <2>3 DEF Unopened
    <3> QED
      BY <1>3, <3>1
  <2> QED
    BY <1>1, <2>2, <2>3 DEF Ends
<1>5. PICK s \in Seq(Nat) : Spelled(s)
  BY <1>1 DEF Stack
<1>6. Len(s) \in Nat /\ Len(s) = objDepth + arrDepth /\ Len(s) # 0
  BY <1>4, <1>5 DEF Spelled
<1>7. /\ parent = s[Len(s)] /\ parent \in 1 .. Len(tokens)
      /\ outer = IF Len(s) = 1 THEN 0 ELSE s[Len(s) - 1]
  <2>1. Len(s) \in 1 .. Len(s)
    BY <1>6
  <2> QED
    BY <1>5, <1>6, <2>1 DEF Spelled
<1>8. outer \in 0 .. Len(tokens)
  <2>1. outer \in Nat /\ (outer # 0 => outer \in 1 .. Len(tokens))
    BY <1>1, <1>7, TokenFacts
  <2> QED
    BY <1>3, <2>1
<1> HIDE DEF outer
<1>9. Extended(tokens', outer)
  BY <1>1, <1>2, <1>8, TokenPut DEF Extended
<1>10. /\ Len(tokens') = Len(tokens) + 1
       /\ \A i \in 1 .. Len(tokens) : tokens'[i] = tokens[i]
  BY <1>9 DEF Extended
<1>11. TypeOK'
  <2>1. parent' \in 0 .. Len(tokens')
    BY <1>2, <1>3, <1>8, <1>10
  <2>2. /\ tokens' \in Seq(AnyToken) /\ Len(tokens') <= TokensSize
        /\ \A i \in 1 .. Len(tokens') : tokens'[i].parent < i
    BY <1>1, <1>2, <1>8, TokenPut
  <2> QED
    BY <1>1, <1>4, <2>1, <2>2 DEF TypeOK, AnyToken, AnySym
<1>12. Stack'
  <2>1. PICK t \in Seq(Nat) : /\ Len(t) = Len(s) - 1
                              /\ \A k \in 1 .. Len(t) : t[k] = s[k]
    BY <1>6, Shortened
  <2>2. Len(t) = objDepth' + arrDepth'
    <3>1. Len(t) = objDepth + arrDepth - 1
      BY <1>3, <1>6, <2>1
    <3> QED
      BY <1>4, <3>1
  <2>3. parent' = IF Len(t) = 0 THEN 0 ELSE t[Len(t)]
    <3>1. CASE Len(s) = 1
      BY <1>2, <1>7, <2>1, <3>1
    <3>2. CASE Len(s) # 1
      <4>1. Len(t) # 0 /\ Len(t) \in 1 .. Len(t) /\ Len(t) = Len(s) - 1
        BY <1>6, <2>1, <3>2
      <4>2. t[Len(t)] = s[Len(s) - 1]
        BY <2>1, <4>1
      <4> QED
        BY <1>2, <1>7, <3>2, <4>1, <4>2
    <3> QED
      BY <3>1, <3>2
  <2>4. ASSUME NEW k \in 1 .. Len(t)
        PROVE  /\ t[k] \in 1 .. Len(tokens')
               /\ tokens'[t[k]].parent = IF k = 1 THEN 0 ELSE t[k - 1]
    <3>1. k \in 1 .. Len(s)
      BY <1>6, <2>1
    <3>2. /\ s[k] \in 1 .. Len(tokens)
          /\ tokens[s[k]].parent = IF k = 1 THEN 0 ELSE s[k - 1]
      BY <1>5, <3>1 DEF Spelled
    <3>3. t[k] = s[k] /\ (k # 1 => t[k - 1] = s[k - 1])
      <4>1. Len(t) \in Nat
        BY <2>1
      <4> QED
        BY <2>1, <4>1, InRange
    <3>4. t[k] \in 1 .. Len(tokens') /\ tokens'[t[k]] = tokens[t[k]]
      BY <1>3, <1>10, <3>2, <3>3
    <3> QED
      BY <3>2, <3>3, <3>4
  <2>5. Spelled(t)'
    BY <2>2, <2>3, <2>4 DEF Spelled
  <2> QED
    BY <2>5 DEF Stack
<1>13. Placed'
  <2>1. nstructures' >= objDepth' + arrDepth' /\ nstructures' >= nstructures
    <3>1. nstructures >= objDepth + arrDepth /\ nstructures' = nstructures
      BY <1>1 DEF Placed
    <3>2. nstructures >= objDepth + arrDepth - 1 /\ nstructures >= nstructures
      BY <1>3, <3>1
    <3> QED
      BY <1>4, <3>1, <3>2
  <2>2. Sym # ":"
    BY <1>1 DEF Ends
  <2> QED
    BY <1>1, <1>2, <1>8, <2>1, <2>2, TakenInPlace
<1> QED
  BY <1>11, <1>12, <1>13 DEF IInv

LEMMA TakeKeeps == ASSUME IInv, TakeOther PROVE IInv'
<1>1. /\ TypeOK /\ Stack /\ Placed /\ Allowed /\ ~Full
      /\ UNCHANGED <<doc, pc, status, parent, objDepth, arrDepth, nstructures>>
  BY DEF IInv, TakeOther, Allowed, HasToken
<1>2. tokens' = Append(tokens, Token(Sym, parent))
  BY DEF TakeOther
<1>3. /\ ncolons \in Nat /\ ncommas \in Nat /\ Len(tokens) \in Nat
      /\ objDepth \in Nat /\ arrDepth \in Nat /\ nstructures \in Nat
      /\ parent \in 0 .. Len(tokens)
  BY <1>1, Numbers
<1>4. ncolons' \in Nat /\ ncommas' \in Nat
  <2>1. ncolons' = ncolons + 1 \/ ncolons' = ncolons
    BY DEF TakeOther
  <2>2. ncommas' = ncommas + 1 \/ ncommas' = ncommas
    BY DEF TakeOther
  <2> QED
    BY <1>3, <2>1, <2>2
<1>5. TypeOK'
  <2>1. /\ tokens' \in Seq(AnyToken) /\ Len(tokens') <= TokensSize
        /\ \A i \in 1 .. Len(tokens') : tokens'[i].parent < i
        /\ Len(tokens') = Len(tokens) + 1
    BY <1>1, <1>2, <1>3, TokenPut
  <2>2. parent' \in 0 .. Len(tokens')
    BY <1>1, <1>3, <2>1
  <2> QED
    BY <1>1, <1>4, <2>1, <2>2 DEF TypeOK, AnyToken, AnySym
<1>6. Stack'
  BY <1>1, <1>2, <1>3, StackKept
<1>7. Placed'
  <2>1. nstructures' >= objDepth' + arrDepth' /\ nstructures' >= nstructures
    BY <1>1, <1>3 DEF Placed
  <2> QED
    BY <1>1, <1>2, <1>3, <2>1, TakenInPlace
<1> QED
  BY <1>5, <1>6, <1>7 DEF IInv

LEMMA EndKeeps == ASSUME IInv, EndOfText PROVE IInv'
<1>1. /\ TypeOK /\ Stack /\ Placed /\ pc = "loop" /\ pc' = "done"
      /\ status' = FinalStatus
      /\ UNCHANGED <<doc, tokens, parent, objDepth, arrDepth, ncolons, ncommas,
                     nstructures>>
  BY DEF IInv, EndOfText, counts
<1>2. FinalStatus' = FinalStatus
  BY <1>1 DEF FinalStatus, TopLevel, Previous, Type
<1>3. TypeOK'
  <2>1. FinalStatus \in Statuses
    BY DEF FinalStatus, Statuses
  <2> QED
    BY <1>1, <2>1 DEF TypeOK
<1>4. Stack'
  BY <1>1 DEF Stack, Spelled
<1>5. Placed'
  <2>1. /\ Separated(tokens)
        /\ nstructures = 0 => \A i \in 1 .. Len(tokens) : tokens[i].sym # ":"
        /\ nstructures >= objDepth + arrDepth
    BY <1>1 DEF Placed
  <2>2. Separated(tokens')
    BY <1>1, <2>1
  <2> QED
    BY <1>1, <1>2, <2>1, <2>2 DEF Placed
<1> QED
  BY <1>3, <1>4, <1>5 DEF IInv

LEMMA StandingKeeps == ASSUME IInv, UNCHANGED vars PROVE IInv'
<1>1. UNCHANGED <<doc, pc, status, tokens, parent, objDepth, arrDepth, ncolons,
                  ncommas, nstructures>>
  BY DEF vars, counts
<1>2. TypeOK'
  BY <1>1 DEF IInv, TypeOK
<1>3. Stack'
  BY <1>1 DEF IInv, Stack, Spelled
<1>4. Placed'
  BY <1>1 DEF IInv, Placed, Separated, Separates, FinalStatus, TopLevel, Previous, Type
<1> QED
  BY <1>2, <1>3, <1>4 DEF IInv

LEMMA Steps == IInv /\ [Next]_vars => IInv'
<1> SUFFICES ASSUME IInv, [Next]_vars PROVE IInv'
  OBVIOUS
<1>1. CASE TokensExhausted
  BY <1>1, FailKeeps DEF TokensExhausted, Statuses
<1>2. CASE InvalidToken
  BY <1>2, FailKeeps DEF InvalidToken, Statuses
<1>3. CASE TwoTopThings
  BY <1>3, FailKeeps DEF TwoTopThings, Statuses
<1>4. CASE NotOpened
  BY <1>4, FailKeeps DEF NotOpened, Statuses
<1>5. CASE WrongPlace
  BY <1>5, FailKeeps DEF WrongPlace, Statuses
<1>6. CASE OpenStructure
  BY <1>6, OpenKeeps
<1>7. CASE CloseStructure
  BY <1>7, CloseKeeps
<1>8. CASE TakeOther
  BY <1>8, TakeKeeps
<1>9. CASE EndOfText
  BY <1>9, EndKeeps
<1>10. CASE Finished
  BY <1>10, StandingKeeps DEF Finished
<1>11. CASE UNCHANGED vars
  BY <1>11, StandingKeeps
<1> QED
  BY <1>1, <1>2, <1>3, <1>4, <1>5, <1>6, <1>7, <1>8, <1>9, <1>10, <1>11 DEF Next

LEMMA Inductive == Spec => []IInv
<1> QED
  BY Initially, Steps, PTL DEF Spec

-----------------------------------------------------------------------------
\* Whatever the text and however small the array, the loop of cj_parse stays inside
\* the array and every parent it stores is an earlier token.
THEOREM TypesHold == Spec => []TypeOK
<1>1. IInv => TypeOK
  BY DEF IInv
<1> QED
  BY <1>1, Inductive, PTL

\* The assertion of cj_parse at a closing bracket cannot fail, although the two
\* counters do not tell in which order structures were opened.
THEOREM AssertionsHold == Spec => []AssertHolds
<1>1. IInv => AssertHolds
  BY Counters DEF IInv
<1> QED
  BY <1>1, Inductive, PTL

\* In every accepted text a name separator has its key before it, a value behind it
\* and an object around it, which is what cj_value_ref relies on.
THEOREM MembersHold == Spec => []MembersComplete
<1>1. ASSUME IInv PROVE MembersComplete
  <2> SUFFICES ASSUME Accepted, NEW i \in 1 .. Len(tokens), tokens[i].sym = ":"
               PROVE  /\ i > 1 /\ tokens[i - 1].sym \in Texts
                      /\ i < Len(tokens) /\ Type(tokens[i + 1].sym) \in ValueTypes
                      /\ tokens[tokens[i].parent].sym = "{"
    <3>1. tokens \in Seq(AnyToken)
      BY <1>1 DEF IInv, TypeOK, AnyToken, AnySym
    <3>2. DOMAIN tokens = 1 .. Len(tokens)
      BY <3>1, SeqDomain
    <3> QED
      BY <3>2 DEF MembersComplete
  <2>1. /\ Separated(tokens) /\ FinalStatus = "ok"
        /\ nstructures = 0 => \A j \in 1 .. Len(tokens) : tokens[j].sym # ":"
    BY <1>1 DEF IInv, Accepted, Placed
  <2>2. Separates(tokens, i)
    BY <2>1 DEF Separated
  <2>3. nstructures # 0 /\ nstructures \in Nat /\ Len(tokens) \in Nat
    BY <1>1, <2>1, Numbers DEF IInv
  <2>4. Previous \in Ends
    <3>1. nstructures > 0
      BY <2>3
    <3> QED
      BY <2>1, <3>1 DEF FinalStatus
  <2>5. i # Len(tokens)
    <3>1. CASE i = Len(tokens)
      <4>1. ":" \notin Texts
        BY TextAssumption
      <4>2. Previous \in {"none", ":"}
        BY <3>1, <4>1 DEF Previous, Type
      <4> QED
        BY <2>4, <4>2 DEF Ends
    <3> QED
      BY <3>1
  <2>6. i < Len(tokens)
    BY <2>3, <2>5
  <2> QED
    BY <2>2, <2>6 DEF Separates
<1> QED
  BY <1>1, Inductive, PTL

-----------------------------------------------------------------------------
(* Nesting.                                                                *)

\* The tokens are the symbols read, each with the bracket around it as its parent.
Read ==
  /\ Len(tokens) <= Len(doc)
  /\ \A i \in 1 .. Len(tokens) :
       tokens[i].sym = doc[i] /\ tokens[i].parent = Enclosing(doc, i)

\* s holds the brackets open behind the last token, which the counters count, and
\* the last of which is the parent.
Follows(s) ==
  /\ Opened(doc, Len(tokens), s)
  /\ Len(s) = objDepth + arrDepth
  /\ parent = IF Len(s) = 0 THEN Invalid ELSE s[Len(s)]

Nested == status = "ok" => Read /\ \E s \in Seq(Nat) : Follows(s)

LEMMA NestedAtFirst == Init => Nested
<1> SUFFICES ASSUME Init PROVE Nested
  OBVIOUS
<1>1. /\ tokens = <<>> /\ Len(tokens) = 0 /\ doc \in Document
      /\ parent = Invalid /\ objDepth = 0 /\ arrDepth = 0
  BY DocAssumption DEF Init, Document
<1>2. Len(<<>>) = 0 /\ <<>> \in Seq(Nat)
  OBVIOUS
<1>3. Follows(<<>>)
  BY <1>1, <1>2, NoneOpened DEF Follows
<1>4. Read
  <2>1. Len(doc) \in Nat
    BY <1>1, DocumentLength
  <2> QED
    BY <1>1, <2>1 DEF Read
<1> QED
  BY <1>2, <1>3, <1>4 DEF Nested

\* The symbol of the token that is found.
LEMMA SymRead ==
  ASSUME TypeOK, HasToken
  PROVE  Sym = doc[Len(tokens) + 1] /\ Len(tokens) < Len(doc) /\ Len(tokens) \in Nat
         /\ Len(doc) \in Nat
<1>1. Len(tokens) < Len(doc)
  BY DEF HasToken, Sym
<1>2. doc \in Document
  BY DocAssumption DEF TypeOK, Document
<1> QED
  BY <1>1, <1>2, DocumentLength, Numbers DEF Sym

LEMMA ReadOn ==
  ASSUME TypeOK, Read, HasToken, NEW p \in 0 .. Len(tokens),
         p = Enclosing(doc, Len(tokens) + 1),
         tokens' = Append(tokens, Token(Sym, p)), doc' = doc
  PROVE  Read'
<1>1. /\ Len(tokens') = Len(tokens) + 1
      /\ \A i \in 1 .. Len(tokens) : tokens'[i] = tokens[i]
      /\ tokens'[Len(tokens) + 1] = Token(Sym, p)
  BY TokenPut DEF HasToken
<1>2. Sym = doc[Len(tokens) + 1] /\ Len(tokens) < Len(doc) /\ Len(tokens) \in Nat
         /\ Len(doc) \in Nat
  BY SymRead
<1>3. ASSUME NEW i \in 1 .. Len(tokens')
      PROVE  tokens'[i].sym = doc[i] /\ tokens'[i].parent = Enclosing(doc, i)
  <2>1. CASE i \in 1 .. Len(tokens)
    BY <1>1, <2>1 DEF Read
  <2>2. CASE i = Len(tokens) + 1
    BY <1>1, <1>2, <2>2 DEF Token
  <2> QED
    BY <1>1, <1>2, <2>1, <2>2
<1>4. Len(tokens') <= Len(doc)
  BY <1>1, <1>2
<1> QED
  BY <1>3, <1>4 DEF Read

\* While the loop runs, what it has read is nested.
LEMMA WhileRunning ==
  ASSUME IInv, Nested, Allowed
  PROVE  /\ TypeOK /\ HasToken /\ ~Unopened /\ ~Full /\ Read
         /\ \E s \in Seq(Nat) : Follows(s)
         /\ Sym = doc[Len(tokens) + 1] /\ Len(tokens) \in Nat
<1>1. TypeOK /\ HasToken /\ ~Unopened /\ ~Full /\ pc = "loop"
  BY DEF IInv, Allowed, HasToken, Running
<1>2. status = "ok"
  BY <1>1 DEF IInv, Placed
<1> QED
  BY <1>1, <1>2, SymRead DEF Nested

LEMMA OpenNests == ASSUME IInv, Nested, OpenStructure PROVE Nested'
<1>1. /\ Allowed /\ doc' = doc
      /\ tokens' = Append(tokens, Token(Sym, parent)) /\ parent' = Len(tokens) + 1
      /\ Sym \in Begins
  BY DEF OpenStructure
<1>2. /\ TypeOK /\ HasToken /\ ~Unopened /\ ~Full /\ Read
      /\ Sym = doc[Len(tokens) + 1] /\ Len(tokens) \in Nat
  BY <1>1, WhileRunning
<1>3. PICK s \in Seq(Nat) : Follows(s)
  BY <1>1, WhileRunning
<1>4. Opened(doc, Len(tokens), s) /\ doc[Len(tokens) + 1] \in Begins
      /\ doc[Len(tokens) + 1] \notin Ends
  BY <1>1, <1>2, <1>3 DEF Follows, Begins, Ends
<1>5. parent = Enclosing(doc, Len(tokens) + 1) /\ parent \in 0 .. Len(tokens)
  BY <1>2, <1>3, <1>4, EnclosedHere, Numbers DEF Follows
<1>6. Read'
  BY <1>1, <1>2, <1>5, ReadOn
<1>7. Len(tokens') = Len(tokens) + 1
  BY <1>1, <1>2, <1>5, TokenPut
<1>8. PICK t \in Seq(Nat) :
        /\ Len(t) = Len(s) + 1 /\ Len(s) \in Nat /\ t[Len(s) + 1] = Len(tokens) + 1
        /\ Opened(doc, Len(tokens) + 1, t)
  <2> DEFINE u == Append(s, Len(tokens) + 1)
  <2>1. Len(tokens) + 1 \in Nat /\ Len(s) \in Nat
    BY <1>2
  <2>2. u \in Seq(Nat) /\ Len(u) = Len(s) + 1 /\ u[Len(s) + 1] = Len(tokens) + 1
    BY <2>1, AppendFacts
  <2>3. Opened(doc, Len(tokens) + 1, u)
    BY <1>2, <1>4, OpenedMore
  <2> QED
    BY <2>1, <2>2, <2>3
<1>10. objDepth' + arrDepth' = objDepth + arrDepth + 1
  <2>1. /\ objDepth' = IF Sym = "{" THEN objDepth + 1 ELSE objDepth
        /\ arrDepth' = IF Sym = "[" THEN arrDepth + 1 ELSE arrDepth
    BY DEF OpenStructure
  <2>2. \/ objDepth' = objDepth + 1 /\ arrDepth' = arrDepth
        \/ objDepth' = objDepth /\ arrDepth' = arrDepth + 1
    BY <1>1, <2>1 DEF Begins
  <2>3. objDepth \in Nat /\ arrDepth \in Nat
    BY <1>2, Numbers
  <2>4. CASE objDepth' = objDepth + 1 /\ arrDepth' = arrDepth
    BY <2>3, <2>4
  <2>5. CASE objDepth' = objDepth /\ arrDepth' = arrDepth + 1
    BY <2>3, <2>5
  <2> QED
    BY <2>2, <2>4, <2>5
<1>11. Follows(t)'
  <2>1. Opened(doc', Len(tokens'), t)
    BY <1>1, <1>7, <1>8
  <2>2. Len(t) = objDepth' + arrDepth'
    BY <1>3, <1>8, <1>10 DEF Follows
  <2>3. parent' = IF Len(t) = 0 THEN Invalid ELSE t[Len(t)]
    BY <1>1, <1>8
  <2> QED
    BY <2>1, <2>2, <2>3 DEF Follows
<1> QED
  BY <1>6, <1>8, <1>11 DEF Nested

LEMMA CloseNests == ASSUME IInv, Nested, CloseStructure PROVE Nested'
<1> DEFINE outer == tokens[parent].parent
<1>1. /\ Allowed /\ doc' = doc
      /\ tokens' = Append(tokens, Token(Sym, outer)) /\ parent' = outer
      /\ Sym \in Ends
  BY DEF CloseStructure
<1>2. /\ TypeOK /\ HasToken /\ ~Unopened /\ ~Full /\ Read
      /\ Sym = doc[Len(tokens) + 1] /\ Len(tokens) \in Nat
  BY <1>1, WhileRunning
<1>3. PICK s \in Seq(Nat) : Follows(s)
  BY <1>1, WhileRunning
<1>4. objDepth' + arrDepth' = objDepth + arrDepth - 1 /\ objDepth + arrDepth # 0
  <2>1. /\ objDepth' = IF Sym = "}" THEN objDepth - 1 ELSE objDepth
        /\ arrDepth' = IF Sym = "]" THEN arrDepth - 1 ELSE arrDepth
    BY DEF CloseStructure
  <2>2. \/ objDepth' = objDepth - 1 /\ arrDepth' = arrDepth /\ objDepth # 0
        \/ objDepth' = objDepth /\ arrDepth' = arrDepth - 1 /\ arrDepth # 0
    BY <1>1, <1>2, <2>1 DEF Ends, Unopened
  <2>3. objDepth \in Nat /\ arrDepth \in Nat
    BY <1>2, Numbers
  <2> QED
    BY <2>2, <2>3
<1>5. /\ Opened(doc, Len(tokens), s) /\ doc[Len(tokens) + 1] \in Ends
      /\ Len(s) \in Nat /\ Len(s) # 0 /\ parent = s[Len(s)]
      /\ Len(s) = objDepth + arrDepth
  BY <1>1, <1>2, <1>3, <1>4 DEF Follows
<1>6. /\ outer = IF Len(s) = 1 THEN Invalid ELSE s[Len(s) - 1]
      /\ outer = Enclosing(doc, Len(tokens) + 1)
      /\ outer \in 0 .. Len(tokens)
  <2>1. Len(s) \in 1 .. Len(s)
    BY <1>5
  <2>2. s[Len(s)] \in 1 .. Len(tokens)
    BY <1>5, <2>1 DEF Opened
  <2>3. outer = Enclosing(doc, s[Len(s)])
    BY <1>2, <1>5, <2>2 DEF Read
  <2>4. outer = IF Len(s) = 1 THEN Invalid ELSE s[Len(s) - 1]
    <3>1. Enclosing(doc, s[Len(s)]) = IF Len(s) = 1 THEN Invalid ELSE s[Len(s) - 1]
      BY ZenonT(30), <1>2, <1>5, <2>1, EnclosingOpened
    <3> QED
      BY <2>3, <3>1
  <2>5. CASE Len(s) = 1
    BY SMTT(30), <1>2, <1>5, <2>4, <2>5, EnclosedOutside DEF Invalid
  <2>6. CASE Len(s) # 1
    <3>1. Len(s) - 1 \in 1 .. Len(s)
      BY <1>5, <2>6
    <3>2. s[Len(s) - 1] \in 1 .. Len(tokens)
      BY <1>5, <3>1 DEF Opened
    <3> QED
      BY <1>2, <1>5, <2>4, <2>6, <3>2, EnclosedOutside
  <2> QED
    BY <2>5, <2>6
<1> HIDE DEF outer
<1>7. Read'
  BY <1>1, <1>2, <1>6, ReadOn
<1>8. Len(tokens') = Len(tokens) + 1
  BY <1>1, <1>2, <1>6, TokenPut
<1>9. PICK t \in Seq(Nat) : /\ Len(t) = Len(s) - 1
                            /\ \A k \in 1 .. Len(t) : t[k] = s[k]
  BY <1>5, Shortened
<1>10. Opened(doc, Len(tokens) + 1, t)
  BY <1>2, <1>5, <1>9, OpenedLess
<1>11. Follows(t)'
  <2>1. Opened(doc', Len(tokens'), t)
    BY <1>1, <1>8, <1>10
  <2>2. Len(t) = objDepth' + arrDepth'
    <3>1. objDepth \in Nat /\ arrDepth \in Nat
      BY <1>2, Numbers
    <3>2. Len(t) = objDepth + arrDepth - 1
      BY <1>5, <1>9, <3>1
    <3> QED
      BY <1>4, <3>2
  <2>3. parent' = IF Len(t) = 0 THEN Invalid ELSE t[Len(t)]
    <3>1. CASE Len(s) = 1
      BY <1>1, <1>6, <1>9, <3>1
    <3>2. CASE Len(s) # 1
      <4>1. Len(t) # 0 /\ Len(t) \in 1 .. Len(t) /\ Len(t) = Len(s) - 1
        BY <1>5, <1>9, <3>2
      <4>2. t[Len(t)] = s[Len(s) - 1]
        BY <1>9, <4>1
      <4> QED
        BY <1>1, <1>6, <3>2, <4>1, <4>2
    <3> QED
      BY <3>1, <3>2
  <2> QED
    BY <2>1, <2>2, <2>3 DEF Follows
<1> QED
  BY <1>7, <1>9, <1>11 DEF Nested

LEMMA TakeNests == ASSUME IInv, Nested, TakeOther PROVE Nested'
<1>1. /\ Allowed /\ doc' = doc
      /\ tokens' = Append(tokens, Token(Sym, parent))
      /\ UNCHANGED <<parent, objDepth, arrDepth>>
      /\ Sym \notin Begins \cup Ends
  BY DEF TakeOther
<1>2. /\ TypeOK /\ HasToken /\ ~Unopened /\ ~Full /\ Read
      /\ Sym = doc[Len(tokens) + 1] /\ Len(tokens) \in Nat
  BY <1>1, WhileRunning
<1>3. PICK s \in Seq(Nat) : Follows(s)
  BY <1>1, WhileRunning
<1>4. Opened(doc, Len(tokens), s) /\ doc[Len(tokens) + 1] \notin Begins \cup Ends
  BY <1>1, <1>2, <1>3 DEF Follows
<1>5. parent = Enclosing(doc, Len(tokens) + 1) /\ parent \in 0 .. Len(tokens)
  BY <1>2, <1>3, <1>4, EnclosedHere, Numbers DEF Follows
<1>6. Read'
  BY <1>1, <1>2, <1>5, ReadOn
<1>7. Len(tokens') = Len(tokens) + 1
  BY <1>1, <1>2, <1>5, TokenPut
<1>8. Opened(doc, Len(tokens) + 1, s)
  BY <1>2, <1>4, OpenedSame
<1>9. Follows(s)'
  BY <1>1, <1>3, <1>7, <1>8 DEF Follows
<1> QED
  BY <1>6, <1>9 DEF Nested

LEMMA NestedSteps == IInv /\ Nested /\ [Next]_vars => Nested'
<1> SUFFICES ASSUME IInv, Nested, [Next]_vars PROVE Nested'
  OBVIOUS
<1>1. ASSUME NEW error \in Statuses \ {"ok"}, Fail(error) PROVE Nested'
  BY <1>1 DEF Fail, Nested
<1>2. CASE TokensExhausted \/ InvalidToken \/ TwoTopThings \/ NotOpened \/ WrongPlace
  BY <1>1, <1>2 DEF TokensExhausted, InvalidToken, TwoTopThings, NotOpened, WrongPlace, Statuses
<1>3. CASE OpenStructure
  BY <1>3, OpenNests
<1>4. CASE CloseStructure
  BY <1>4, CloseNests
<1>5. CASE TakeOther
  BY <1>5, TakeNests
<1>6. CASE EndOfText
  <2>1. /\ status = "ok" /\ UNCHANGED <<doc, tokens, parent, objDepth, arrDepth>>
    BY <1>6 DEF EndOfText, counts, IInv, Placed
  <2> QED
    BY <2>1 DEF Nested, Read, Follows
<1>7. CASE UNCHANGED vars
  <2>1. UNCHANGED <<status, doc, tokens, parent, objDepth, arrDepth>>
    BY <1>7 DEF vars, counts
  <2> QED
    BY <2>1 DEF Nested, Read, Follows
<1> QED
  BY <1>2, <1>3, <1>4, <1>5, <1>6, <1>7 DEF Next, Finished

LEMMA AlwaysNested == Spec => [](IInv /\ Nested)
<1> QED
  BY Inductive, NestedAtFirst, NestedSteps, PTL DEF Spec

\* A text is accepted only once it is read to its end.
Whole == Accepted => tokens # <<>> /\ Len(doc) <= Len(tokens)

LEMMA WholeAtFirst == Init => Whole
  BY DEF Init, Whole, Accepted

LEMMA WholeSteps == TypeOK /\ Whole /\ [Next]_vars => Whole'
<1> SUFFICES ASSUME TypeOK, Whole, [Next]_vars PROVE Whole'
  OBVIOUS
<1>1. ASSUME NEW error \in Statuses \ {"ok"}, Fail(error) PROVE Whole'
  BY <1>1 DEF Fail, Whole, Accepted
<1>2. CASE TokensExhausted \/ InvalidToken \/ TwoTopThings \/ NotOpened \/ WrongPlace
  BY <1>1, <1>2 DEF TokensExhausted, InvalidToken, TwoTopThings, NotOpened, WrongPlace, Statuses
<1>3. CASE OpenStructure \/ CloseStructure \/ TakeOther
  <2>1. pc' = pc /\ pc = "loop"
    BY <1>3 DEF OpenStructure, CloseStructure, TakeOther, Allowed, HasToken, Running
  <2> QED
    BY <2>1 DEF Whole, Accepted
<1>4. CASE EndOfText
  <2>1. /\ tokens # <<>> /\ ~(Len(tokens) < Len(doc))
        /\ UNCHANGED <<doc, tokens>>
    BY <1>4 DEF EndOfText, Running
  <2>2. Len(tokens) \in Nat /\ Len(doc) \in Nat
    BY Numbers, DocumentLength, DocAssumption DEF TypeOK, Document
  <2> QED
    BY <2>1, <2>2 DEF Whole
<1>5. CASE UNCHANGED vars
  BY <1>5 DEF vars, Whole, Accepted
<1> QED
  BY <1>2, <1>3, <1>4, <1>5 DEF Next, Finished

LEMMA AlwaysWhole == Spec => []Whole
<1>1. IInv => TypeOK
  BY DEF IInv
<1> QED
  BY <1>1, Inductive, WholeAtFirst, WholeSteps, PTL DEF Spec

LEMMA DocumentTyped == ASSUME TypeOK PROVE doc \in Document /\ tokens \in Seq(AnyToken)
  BY DocAssumption DEF TypeOK, Document, AnyToken, AnySym

\* For every document and array, the parents of the tokens are the brackets that
\* enclose them, though cj_parse only follows the parent of the last one.
THEOREM ParentsHold == Spec => []ParentsEnclose
<1>1. ASSUME IInv, Nested PROVE ParentsEnclose
  <2> SUFFICES ASSUME status = "ok" PROVE tokens = SubSeq(TokensOf(doc), 1, Len(tokens))
    BY DEF ParentsEnclose
  <2> DEFINE ts == TokensOf(doc)
  <2>1. Read /\ doc \in Document /\ tokens \in Seq(AnyToken)
    BY <1>1, DocumentTyped DEF Nested, IInv
  <2>2. Len(doc) \in Nat /\ DOMAIN doc = 1 .. Len(doc) /\ Len(tokens) \in Nat
    BY <2>1, DocumentLength, <1>1, Numbers DEF IInv
  <2>3. ts = [i \in 1 .. Len(doc) |-> Token(doc[i], Enclosing(doc, i))]
    BY <2>2 DEF TokensOf
  <2>4. \A i \in 1 .. Len(tokens) : tokens[i] = ts[i]
    <3> TAKE i \in 1 .. Len(tokens)
    <3>1. tokens[i] \in AnyToken
      BY <2>1
    <3>2. tokens[i] = Token(tokens[i].sym, tokens[i].parent)
      BY <3>1 DEF AnyToken, Token
    <3>3. i \in 1 .. Len(doc)
      BY <2>1, <2>2 DEF Read
    <3> QED
      BY <2>1, <2>3, <3>2, <3>3 DEF Read
  <2>5. SubSeq(ts, 1, Len(tokens)) = [i \in 1 .. Len(tokens) |-> ts[i]]
    BY <2>2, <2>3
  <2>6. tokens = [i \in 1 .. Len(tokens) |-> tokens[i]]
    BY <2>1
  <2> QED
    BY <2>4, <2>5, <2>6
<1> QED
  BY <1>1, AlwaysNested, PTL

\* In every accepted text a lookup by cj_value_ref finds the first member of the
\* object with that name, and no other token.
THEOREM LookupsHold == Spec => []LookupsAgree
<1>1. ASSUME IInv, Nested, Whole, MembersComplete, Accepted
      PROVE  LookupsAgree
  <2>1. Read /\ doc \in Document /\ tokens \in Seq(AnyToken)
    BY <1>1, DocumentTyped DEF Nested, IInv, Accepted
  <2>2. /\ Len(doc) \in Nat /\ DOMAIN doc = 1 .. Len(doc) /\ Len(tokens) = Len(doc)
        /\ Len(tokens) # 0 /\ DOMAIN tokens = 1 .. Len(tokens)
    <3>1. /\ Len(doc) \in Nat /\ DOMAIN doc = 1 .. Len(doc)
          /\ Len(tokens) \in Nat /\ DOMAIN tokens = 1 .. Len(tokens)
      BY <2>1, DocumentLength, SeqDomain, <1>1, Numbers DEF IInv
    <3>2. Len(tokens) <= Len(doc)
      BY <2>1 DEF Read
    <3>3. Len(doc) <= Len(tokens) /\ tokens # <<>>
      BY <1>1 DEF Whole
    <3>4. Len(tokens) = Len(doc)
      <4> DEFINE m == Len(tokens) n == Len(doc)
      <4>1. m \in Nat /\ n \in Nat /\ m <= n /\ n <= m
        BY <3>1, <3>2, <3>3
      <4> HIDE DEF m, n
      <4>2. m = n
        BY <4>1
      <4> QED
        BY <4>2 DEF m, n
    <3>5. Len(tokens) # 0
      BY <2>1, <3>3
    <3> QED
      BY <3>1, <3>4, <3>5
  <2>3. tokens = TokensOf(doc)
    <3>1. \A i \in 1 .. Len(doc) : tokens[i] = Token(doc[i], Enclosing(doc, i))
      <4> TAKE i \in 1 .. Len(doc)
      <4>1. tokens[i] \in AnyToken
        BY <2>1, <2>2
      <4>2. tokens[i] = Token(tokens[i].sym, tokens[i].parent)
        BY <4>1 DEF AnyToken, Token
      <4> QED
        BY <2>1, <2>2, <4>2 DEF Read
    <3>2. tokens = [i \in 1 .. Len(tokens) |-> tokens[i]]
      BY <2>1
    <3> QED
      BY <2>2, <3>1, <3>2 DEF TokensOf
  <2>4. ~SeparatorAt(doc, Len(doc))
    <3>1. Len(tokens) \in DOMAIN tokens
      BY <2>2
    <3>2. tokens[Len(tokens)].sym # ":"
      <4>1. tokens[Len(tokens)].sym = ":" => Len(tokens) < Len(tokens)
        BY <1>1, <3>1 DEF MembersComplete
      <4>2. ~(Len(tokens) < Len(tokens))
        BY <2>2
      <4> QED
        BY <4>1, <4>2
    <3>3. tokens[Len(tokens)].sym = doc[Len(doc)]
      BY <2>1, <2>2 DEF Read
    <3> QED
      BY <3>2, <3>3 DEF SeparatorAt
  <2> SUFFICES ASSUME NEW obj \in 1 .. Len(doc), doc[obj] = "{", NEW key \in Texts
               PROVE  cj_value_ref(tokens, obj, key) = MemberValue(doc, obj, key)
    BY <2>2 DEF LookupsAgree
  <2>5. doc[obj] \in Begins
    BY DEF Begins
  <2> QED
    BY <2>1, <2>3, <2>4, <2>5, LookupFinds
<1>2. IInv /\ Nested /\ Whole /\ MembersComplete => LookupsAgree
  BY <1>1 DEF LookupsAgree
<1> QED
  BY <1>2, AlwaysNested, AlwaysWhole, MembersHold, PTL
============================================================================
