SPECIFICATION FairSpec
CONSTANTS
  f = f
  p1 = p1
  p2 = p2
  Procs = {p1, p2}
  Files = {f}
  LargeFiles = {}
  RuledFiles = {}
  Unhashable = {}
  CodeFiles = {}
  Calls <- CrashCalls
  Guarded = {}
  Mode = "enforce"
  Reachable <- ReadsOnly
  ExtraSaves = 0
  Attempts = 2
  MaxVersion = 2
  MaxParks = 0
  MaxClock = 1
  TracksAgent = FALSE
  LocksMayWait = TRUE
  WritesMayFail = TRUE
  ReadsMayFail = TRUE
  LocksGoStale = TRUE
  MayCrash = TRUE
  CallsMayStop = TRUE
INVARIANTS
  DeniedTowardReachable
PROPERTIES
  HooksAnswer
