CONSTANTS
  p1 = p1
  p2 = p2
  NoPin = NoPin
  Unset = Unset
  Domains <- PsdEps
  Pins <- TwoPins
  SimPins <- OnePin
  SetPins <- OnePin
  GivenPins <- OnePin
  NewPins <- Nothing
  Apns <- ThreeApns
  Table <- ThreeTable
  AppApns <- Nothing
  WithLogin <- TwoLogins
  AppAuths <- Unknown
  Accepts <- AcceptsThree
  IsL2 = FALSE
  Calls <- ConnectOnly
  SimTries = 2
  RegTries = 2
  WaitTurns = 2
  MaxLeft = 2
  MaxLine = 1
  MaxDrops = 1
  MaxFaults = 3
SPECIFICATION FairSpec
INVARIANTS ConnectionKnown
PROPERTIES EventuallyConnected
