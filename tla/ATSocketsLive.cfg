CONSTANTS
  t1 = t1
  t2 = t2
  EventThread = EventThread
  Nobody = Nobody
  Threads <- TwoThreads
  NumSockets = 1
  ModemHandles <- OneHandle
  MaxRead = 1
  MaxWrite = 1
  MaxSize = 1
  MaxRx = 1
  MaxLine = 1
  MaxFaults = 1
  PendingMod = 8
  Ops <- SlotOps
  NetEvents <- LossEvents
SPECIFICATION FairSpec
INVARIANTS AnswersReachTheirCaller TimeoutRestored
PROPERTIES ImplementsChannel CallsReturn ContextLossReported
