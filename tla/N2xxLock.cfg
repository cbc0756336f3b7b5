CONSTANTS
  t1 = t1
  t2 = t2
  EventThread = EventThread
  Nobody = Nobody
  Threads <- TwoThreads
  NumSockets = 2
  ModemHandles <- OneHandle
  MaxRead = 2
  MaxWrite = 1
  MaxSize = 2
  SizeMod = 4
  AnswerTime = 1000
  MaxLength = 1
  MaxWaiting = 2
  MaxPending = 2
  MaxLine = 1
  MaxHeap = 3
  MaxDepth = 2
  MaxFaults = 0
  Ops <- RecvOps
SPECIFICATION Spec
INVARIANT MutexReleased
