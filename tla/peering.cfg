SPECIFICATION FairSpec
CONSTANTS
  n1 = n1  n2 = n2  n3 = n3  ghost = ghost
  Node = {n1, n2, n3}
  Addr = {n1, n2, n3, ghost}
  Named = {n1, n2}
  Permitted <- MCPermitted
  Boot <- MCBoot
  MaxPeers = 2
  MaxAsk = 3
  MaxUpset = 1
INVARIANTS TypeOK ListSound
PROPERTIES Reciprocal
CHECK_DEADLOCK FALSE
