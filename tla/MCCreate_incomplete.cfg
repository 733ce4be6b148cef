SPECIFICATION Spec
CONSTANTS
  Texts <- MCTexts
  Inputs <- MCInputs
  Disks <- MCDisks
  Files <- MCFiles
  NoFile = "no file"
  ScriptFile <- MCScriptFile
  ItemFile <- MCItemFile
  TextLen <- MCTextLen
  Dollar <- MCDollar
  Upper <- MCUpper
  Sizes = {0, 500, 1000000}
  MaxEdits = 0
  ManyScripts = 20
INVARIANT
  EveryFileBundled
