SPECIFICATION Spec
CONSTANTS
  Workspaces = {w1}
  Reqs = {r1}
  Adapters = {a1, a2}
  UserChanges = {u1}
  Conflicts = {{w1, u1}}
  None = None
  Ops = {"create", "start", "prompt", "complete", "stop", "merge", "delete"}
  Chatter = {}
  DoneReasons = {"turn_complete", "error"}
  AgentFaults = {"spawn"}
  MaxEvents = 0
  ChanCap = 1
  MaxTurns = 1
  GitFaults = {}
  MaxWindow = 1
  MaxCrashes = 1
SYMMETRY Symmetry
VIEW LiveState
INVARIANTS TypeOK RunsInWorktree   
PROPERTIES StopIsOver StatusMoves
