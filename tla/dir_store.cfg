SPECIFICATION Spec
CONSTANTS
  bob = bob  carol = carol
  a1 = a1  a2 = a2  sB = sB  sC = sC
  loop = loop  w1 = w1
  Key = {bob, carol}
  Block = {a1, a2}
  Sig = {sB, sC}
  By <- MCBy
  On <- MCOn
  Offered <- MCOffered
  Loop = loop
  Worker = {w1}
INVARIANTS TypeOK CopiesOnDisk TornOrSpoiled StaleOnlyByOverlap
PROPERTIES RewrittenOnlyByOverlap
