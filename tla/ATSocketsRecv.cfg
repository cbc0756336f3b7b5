CONSTANTS
  t1 = t1
  t2 = t2
  EventThread = EventThread
  Nobody = Nobody
  Threads <- TwoThreads
  NumSockets = 2
  ModemHandles <- TwoHandles
  MaxRead = 2
  MaxWrite = 1
  MaxSize = 2
  MaxRx = 2
  MaxLine = 2
  MaxFaults = 0
  PendingMod = 8
  Ops <- RecvOps
  NetEvents <- DataOnly
SPECIFICATION Spec
INVARIANTS PendingExact NoSpuriousError
PROPERTIES PendingNeverWraps OnlyOwnSocket
