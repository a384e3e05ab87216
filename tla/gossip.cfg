SPECIFICATION FairSpec
CONSTANTS
  n1 = n1  n2 = n2  n3 = n3
  a = a  b = b  x = x
  alice = alice  bob = bob  bob2 = bob2  sig = sig  off = off  rev = rev
  Key = {a, b, x}
  Fp <- MCFp
  Of <- MCOf
  By <- MCBy
  Node = {n1, n2, n3}
  Peers <- Ring
  Fanout = 3
  BlockEv = {alice, bob, bob2}
  SigEv = {sig, off}
  RevokeEv = {rev}
  Inline = {off}
  Allowed <- MCAllowed
  Kept <- AliceKept
  Door <- MCDoor
  MaxUpset = 1
INVARIANTS TypeOK SeenMeansForwarded HeldInOrder
PROPERTIES BlocksSpread Quiesces
CHECK_DEADLOCK FALSE
