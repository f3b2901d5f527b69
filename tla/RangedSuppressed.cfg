SPECIFICATION Spec
CONSTANTS
  f = f
  p1 = p1
  p2 = p2
  Procs = {p1}
  Files = {f}
  LargeFiles = {}
  RuledFiles = {}
  Unhashable = {}
  CodeFiles = {}
  Calls <- RangeThenRead
  Guarded = {}
  Mode = "enforce"
  Reachable <- ReadsOnly
  ExtraSaves = 0
  Attempts = 1
  MaxVersion = 1
  MaxParks = 1
  MaxClock = 1
  TracksAgent = TRUE
  LocksMayWait = FALSE
  WritesMayFail = FALSE
  ReadsMayFail = FALSE
  LocksGoStale = FALSE
  MayCrash = FALSE
  CallsMayStop = FALSE
INVARIANT
  SuppressedIsInContext
