CONSTANTS
  Modules <- MCModules
  Entry = "main.ts"
  Dirs <- MCDirs
  DirsOf <- MCDirsOf
  Configs = {"relative", "index"}
  Targets <- MCNextToModules
  Edits = {"plain", "imports", "bad", "throws"}
  MaxEdits = 3
SPECIFICATION Spec
INVARIANTS
  UnchangedIsFresh
  FixIsSeen
  ReportedOnce
CHECK_DEADLOCK FALSE
