SPECIFICATION FairSpec
CONSTANTS
  RIFF = 1
  DDFB = 2
  SIGN = 3
  PubLen = 33
  SigLen = 64
  Torn = 77
  Extra = 8
  Keys = {1, 2, 3}
  PubKey <- MCPubKey
  Signature <- MCSignature
  Inputs <- MCInputs
INVARIANTS
  TypeOK
  PayloadKept
  AssertHolds
  RoomSuffices
  SignaturesKept
  SizesAgree
  SignedOnce
  RunsAsSpecified
PROPERTY
  Terminates
