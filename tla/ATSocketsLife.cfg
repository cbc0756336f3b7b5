CONSTANTS
  t1 = t1
  t2 = t2
  EventThread = EventThread
  Nobody = Nobody
  Threads <- TwoThreads
  NumSockets = 2
  ModemHandles <- TwoHandles
  MaxRead = 1
  MaxWrite = 2
  MaxSize = 3
  MaxRx = 1
  MaxLine = 2
  MaxFaults = 0
  PendingMod = 8
  Ops <- LifeOps
  NetEvents <- AllEvents
SYMMETRY ThreadSymmetry
SPECIFICATION Spec
INVARIANTS TypeOK HandlesUnique TablesAgree AnswersReachTheirCaller
