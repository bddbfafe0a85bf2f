SPECIFICATION Spec
CONSTANTS
  Clients = {c1}
  Writers = {t1}
  Drain = Drain
  None = None
  ResumeFrom = "seen"
  Faults = {"leave"}
  ReplayLimit = 1000
  LiveCap = 2
  MaxEvents = 2
  MaxNotes = 1
  MaxRequests = 1
INVARIANT NoPanic
CHECK_DEADLOCK FALSE
