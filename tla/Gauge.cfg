CONSTANTS
  t1 = t1
  t2 = t2
  Threads <- TwoThreads
  Ops <- Sleepers
  MayReinit = FALSE
  MaxFaults = 1
SPECIFICATION Spec
INVARIANTS TypeOK GaugeOnAwake HibernatesAgain
  
SYMMETRY Symmetry
