SPECIFICATION Spec
CONSTANTS
  NoFile = NoFile
  Torn = Torn
  MaxEdits = 4
  MaxCommands = 4
  MayBeKilled = TRUE
  MayRace = TRUE
INVARIANTS
  TypeOK
  LastUserFileKept
PROPERTIES
  InstallReversible
  UninstallSettles
CHECK_DEADLOCK FALSE
