SPECIFICATION FairSpec
CONSTANTS
  Workspaces = {w1, w2}
  UserChanges = {}
  Conflicts = {}
  Reqs = {r1, r2}
  None = None
  Ops = {"create", "cancel"}
  Faults = {"git"}
  MaxWindow = 1
  MaxCrashes = 1
INVARIANT BranchExclusive
PROPERTY PreparingResolves
