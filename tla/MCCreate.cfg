SPECIFICATION Spec
CONSTANTS
  Texts <- MCTexts
  Inputs <- MCInputs
  Disks <- MCDisks
  Files <- MCFiles
  NoFile = "no file"
  ScriptFile <- MCScriptFile
  ItemFile <- MCItemFile
  TextLen <- MCTextLen
  Dollar <- MCDollar
  Upper <- MCUpper
  Sizes = {0, 500, 1000000}
  MaxEdits = 1
  ManyScripts = 20
INVARIANTS
  TypeOK
  ChunksAgree
  ContentsStamped
  ScriptsBundled
  ItemsOnce
  TextsComplete
  GoodIsBundled
PROPERTY
  Advances
