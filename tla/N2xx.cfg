CONSTANTS
  t1 = t1
  t2 = t2
  EventThread = EventThread
  Nobody = Nobody
  Threads <- TwoThreads
  NumSockets = 2
  ModemHandles <- OneHandle
  MaxRead = 2
  MaxWrite = 1
  MaxSize = 2
  SizeMod = 4
  AnswerTime = 1000
  MaxLength = 1
  MaxWaiting = 2
  MaxPending = 1
  MaxLine = 1
  MaxHeap = 2
  MaxDepth = 2
  MaxFaults = 1
  Ops <- AllOps
SPECIFICATION FairSpec
INVARIANTS TypeOK HandlesUnique PendingIsThere CallbackHasOwner AnswersReachTheirCaller
PROPERTIES ImplementsChannel CallsReturn
CHECK_DEADLOCK FALSE
