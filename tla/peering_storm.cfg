SPECIFICATION FairSpec
CONSTANTS
  n1 = n1  n2 = n2  n3 = n3  ghost = ghost
  Node = {n1, n2, n3}
  Addr = {n1, n2, n3, ghost}
  Named = {n1, n2}
  Permitted <- MCPermitted
  Boot <- MCBoot
  MaxPeers = 2
  MaxAsk = 1
  MaxUpset = 0
PROPERTIES RegistrationEnds
CHECK_DEADLOCK FALSE
