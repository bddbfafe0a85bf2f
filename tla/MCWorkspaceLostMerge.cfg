SPECIFICATION Spec
CONSTANTS
  Workspaces = {w1, w2}
  UserChanges = {}
  Conflicts = {}
  Reqs = {r1, r2}
  None = None
  Ops = {"create", "complete", "merge"}
  Faults = {}
  MaxWindow = 1
  MaxCrashes = 0
PROPERTY TargetOnlyGrows
