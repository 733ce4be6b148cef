SPECIFICATION TextSpec
CONSTANTS
  Texts = {"k", "m", "x"}
  Docs <- MCDocs
  TextNames <- MCTextNames
  OtherText = "x"
  InputTexts <- MCTexts
  TokensSize = 13
  MaxJson = 7
  MaxValue = 5
  MaxAny = 4
  MaxBytes = 4
INVARIANTS
  TypeOK
  AssertHolds
  ParentsEnclose
  JsonAccepted
  MembersComplete
  LookupsAgree
  LexerAgrees
