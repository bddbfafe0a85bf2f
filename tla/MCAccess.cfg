SPECIFICATION Spec
CONSTANTS
  MaxVersion = 3
  Names = {n1, n2}
  Reqs = {r1, r2}
  Tokens = {k1, k2}
  None = None
  Faults = {"disconnect"}
  MaxCrashes = 2
INVARIANTS SchemaWhole ServesReady LetInAlive
PROPERTIES ServesInTheEnd
