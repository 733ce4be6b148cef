SPECIFICATION FairSpec
CONSTANTS
  RIFF = 1
  DDFB = 2
  SIGN = 3
  PubLen = 33
  SigLen = 64
  Torn = 77
  Extra = 16
  Keys = {1, 2}
  PubKey <- MCPubKey
  Signature <- MCSignature
  s1 = s1
  s2 = s2
  s3 = s3
  c1 = c1
  Signers = {s1, s2}
  Creators = {c1}
  KeyOf <- MCKeyOf
  PayloadOf <- MCPayloadOf
  Initial <- MCInitial
  MaxRuns = 2
  Block = 4
  Exclusive = TRUE
  CanFail = TRUE
  CanCrash = FALSE
PROPERTY
  CreateReportsTruth
