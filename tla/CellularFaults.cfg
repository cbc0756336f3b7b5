CONSTANTS
  p1 = p1
  p2 = p2
  NoPin = NoPin
  Unset = Unset
  Domains <- PsdEps
  Pins <- TwoPins
  SimPins <- OnePin
  SetPins <- OnePin
  GivenPins <- Nothing
  NewPins <- NewPin
  Apns <- OpenAndLogin
  Table <- TwoTable
  AppApns <- LoginOnly
  WithLogin <- LoginOnly
  AppAuths <- Nothing
  Accepts <- AcceptsBoth
  IsL2 = TRUE
  Calls <- AllCalls
  SimTries = 1
  RegTries = 1
  WaitTurns = 1
  MaxLeft = 2
  MaxLine = 1
  MaxDrops = 1
  MaxFaults = 1
SPECIFICATION Spec
INVARIANTS TypeOK ReadyModemIsUp NoAttemptWasted BeliefMatchesNetwork ConnectionKnown
PROPERTIES DeferredCarriedOut
