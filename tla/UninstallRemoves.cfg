SPECIFICATION Spec
CONSTANTS
  NoFile = NoFile
  Torn = Torn
  MaxEdits = 4
  MaxCommands = 4
  MayBeKilled = FALSE
  MayRace = FALSE
INVARIANTS
  UninstallRemoves
CHECK_DEADLOCK FALSE
