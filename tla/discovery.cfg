SPECIFICATION FairSpec
CONSTANTS
  n1 = n1  n2 = n2  n3 = n3
  r = r  m = m  w = w
  Node = {n1, n2, n3}
  Key = {r, m, w}
  Root = r
  Wanted = w
  Matching = {m, w}
  Seeds <- MCSeeds
  Limits = {2, 3}
  Threshold = 2
  Depth = 2
  Lists <- MCLists
  Holdings <- MCHoldings
INVARIANTS TypeOK AskedOnce AsksEverybody FindsWhatThereIs RevokedUnlessLonger
PROPERTIES SearchEnds
CHECK_DEADLOCK FALSE
