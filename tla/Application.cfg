CONSTANTS
  Pin = Pin
  NoPin = NoPin
  Unset = Unset
  Interfaces = {"AT", "N2xx", "PPP"}
  Domains <- Psd
  Apns <- OpenAndLogin
  Table <- TwoTable
  WithLogin <- LoginOnly
  Accepts <- AcceptsBoth
  IsL2 = FALSE
  SimTries = 1
  Retries = 2
  WaitTurns = 1
  MaxLeft = 2
  MaxLine = 1
  MaxRefusals = 2
  MaxFaults = 2
  MaxDrops = 1
  MaxErrors = 1
  MaxUnread = 1
SPECIFICATION FairSpec
INVARIANTS TypeOK CommandsInCommandMode LinkIsKnown BeliefFollowsNetwork
PROPERTIES OkMeansConnected StopsWhenPressed ATUpdatesGoOn
CHECK_DEADLOCK FALSE
