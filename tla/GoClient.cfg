CONSTANTS
  Callers = {c1, c2}
  Loop = Loop
  NoProc = NoProc
  MaxRevision = 2
SPECIFICATION GFairSpec
INVARIANTS GTypeOK ShutdownTerminal ValidatorMatches ShutdownStopsLoop
PROPERTIES NeverGoesBack CatchesUp ShutdownReturns
CHECK_DEADLOCK FALSE
