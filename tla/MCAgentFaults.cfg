SPECIFICATION FairSpec
CONSTANTS
  Workspaces = {w1}
  Reqs = {r1}
  Adapters = {a1, a2}
  None = None
  Ops = {"start", "prompt", "stop"}
  Chatter = {}
  DoneReasons = {"turn_complete", "stopped"}
  Faults = {"prompt", "disconnect", "exit", "delete"}
  MaxEvents = 0
  ChanCap = 1
  MaxTurns = 1
  MaxCrashes = 0
INVARIANTS TypeOK
PROPERTY DrainsEnd
