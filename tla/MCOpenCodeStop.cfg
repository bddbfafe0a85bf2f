SPECIFICATION FairSpec
CONSTANTS
  Callers = {t1, t2}
  None = None
  Faults = {"spawn", "prompt", "exit", "drop"}
  ChanCap = 1
  WireCap = 2
  MaxTurns = 2
  MaxDeltas = 1
  MaxDrops = 1
INVARIANTS TypeOK OneDonePerTurn StoppedIsOver
PROPERTIES LoopEnds StopsReturn
CHECK_DEADLOCK FALSE
