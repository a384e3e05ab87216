SPECIFICATION FairSpec
CONSTANTS
  n1 = n1  n2 = n2  n3 = n3
  a = a  b = b  x = x
  alice = alice  bob = bob  bob2 = bob2  sig = sig  off = off  rev = rev
  Key = {a}
  Fp <- MCFp
  Of <- MCOf
  By <- MCBy
  Node = {n1, n2, n3}
  Peers <- Line
  Fanout = 3
  BlockEv = {alice}
  SigEv = {}
  RevokeEv = {rev}
  Inline = {}
  Allowed <- MCAllowed
  Kept <- Nothing
  Door <- AtOne
  MaxUpset = 0
PROPERTIES EventuallyTheSame
CHECK_DEADLOCK FALSE
