SPECIFICATION Spec
CONSTANTS
  f = f
  p1 = p1
  p2 = p2
  Procs = {p1, p2}
  Files = {f}
  LargeFiles = {}
  RuledFiles = {}
  Unhashable = {}
  CodeFiles = {}
  Calls <- OneRead
  Guarded = {}
  Mode = "enforce"
  Reachable <- HookTools
  ExtraSaves = 1
  Attempts = 1
  MaxVersion = 1
  MaxParks = 1
  MaxClock = 2
  TracksAgent = FALSE
  LocksMayWait = TRUE
  WritesMayFail = FALSE
  ReadsMayFail = FALSE
  LocksGoStale = FALSE
  MayCrash = FALSE
  CallsMayStop = FALSE
SYMMETRY ProcSymmetry
INVARIANTS
  TypeOK
  LockExclusive
  LoopBreaking
PROPERTIES
  SavesAreAtomic
  EvidenceNeverLost
  CompactionForgets
