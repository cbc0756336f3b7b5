CONSTANTS
  t1 = t1
  t2 = t2
  EventThread = EventThread
  Nobody = Nobody
  Threads <- OneThread
  NumSockets = 2
  ModemHandles <- TwoHandles
  MaxRead = 1
  MaxWrite = 1
  MaxSize = 1
  MaxRx = 1
  MaxLine = 1
  MaxFaults = 0
  PendingMod = 8
  Ops <- BindOps
  NetEvents <- NoEvents
SPECIFICATION Spec
INVARIANTS BindKeepsTheSocket
