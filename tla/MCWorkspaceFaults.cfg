SPECIFICATION Spec
CONSTANTS
  Workspaces = {w1, w2}
  UserChanges = {}
  Conflicts = {{w1, w2}}
  Reqs = {r1}
  None = None
  Ops = {"create", "complete", "cancel", "merge"}
  Faults = {"git", "disconnect"}
  MaxWindow = 1
  MaxCrashes = 1
VIEW LiveState
INVARIANTS IdleHasBranch MergedIsInTarget
PROPERTY FollowsLifecycle
