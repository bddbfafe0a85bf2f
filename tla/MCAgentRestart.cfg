SPECIFICATION FairSpec
CONSTANTS
  Workspaces = {w1, w2}
  Reqs = {r1}
  Adapters = {a1, a2}
  None = None
  Ops = {"start", "prompt", "complete"}
  Chatter = {"text", "cost"}
  DoneReasons = {"turn_complete", "error"}
  Faults = {"spawn"}
  MaxEvents = 1
  ChanCap = 1
  MaxTurns = 1
  MaxCrashes = 1
PROPERTIES RunningResolves FollowsLifecycle
