CONSTANTS
  Pin = Pin
  NoPin = NoPin
  Unset = Unset
  Interfaces = {"PPP"}
  Domains <- Psd
  Apns <- OpenOnly
  Table <- OpenTable
  WithLogin <- Nothing
  Accepts <- AcceptsOpen
  IsL2 = FALSE
  SimTries = 1
  Retries = 2
  WaitTurns = 1
  MaxLeft = 2
  MaxLine = 1
  MaxRefusals = 0
  MaxFaults = 0
  MaxDrops = 0
  MaxErrors = 0
  MaxUnread = 0
SPECIFICATION FairSpec
PROPERTIES UpdatesGoOn
CHECK_DEADLOCK FALSE
