SPECIFICATION FairSpec
CONSTANTS
  Clients = {c1}
  Writers = {t1}
  Drain = Drain
  None = None
  ResumeFrom = "seen"
  Faults = {"leave", "persist"}
  ReplayLimit = 1000
  LiveCap = 1
  MaxEvents = 3
  MaxNotes = 1
  MaxRequests = 2
INVARIANTS TypeOK SeqGapFree NoHole InOrder
PROPERTIES BroadcastEnds Unsubscribed
CHECK_DEADLOCK FALSE
