SPECIFICATION Spec
CONSTANTS
  n1 = n1  n2 = n2  n3 = n3
  alice = alice  bob = bob  carol = carol
  a1 = a1  a2 = a2  b1 = b1  c1 = c1
  sBA = sBA  sAB = sAB  sBA2 = sBA2  sCA = sCA
  t1 = t1  t2 = t2  t3 = t3
  Key = {alice, bob, carol}
  Fp <- MCFp
  By <- MCBy
  On <- MCOn
  Peers <- AllPeers
  Node = {n1}
  Block = {a1, b1}
  Sig = {sBA, sBA2, sCA}
  Inline = {sCA}
  Allowed <- AllowAll
  Fanout = 3
  MaxChain = 2
  Thread = {t1, t2, t3}
INVARIANTS ChainIntact
SYMMETRY Symmetry
CHECK_DEADLOCK FALSE
