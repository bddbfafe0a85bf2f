SPECIFICATION Spec
CONSTANTS
  Workspaces = {w1}
  Reqs = {r1, r2}
  Adapters = {a1, a2}
  None = None
  Ops = {"start", "prompt", "stop"}
  Chatter = {}
  DoneReasons = {"turn_complete"}
  Faults = {"prompt"}
  MaxEvents = 0
  ChanCap = 1
  MaxTurns = 1
  MaxCrashes = 0
SYMMETRY Symmetry
VIEW LiveState
INVARIANTS NoForgottenSession NoDeadSession StopIsNotFailure InitialPromptFirst
