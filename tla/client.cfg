SPECIFICATION FairSpec
CONSTANTS
  ruth = ruth  saul = saul  ann = ann  ben = ben  xena = xena
  Key = {ruth, saul, ann, ben, xena}
  Start <- MCStart
  Given <- MCGiven
  Hand <- MCHand
  Revocable = {ann}
  Endorser = {ruth, saul}
  Threshold = 2
  MaxDepth = 2
INVARIANTS TypeOK NoTrustFromNowhere EndorsedIndependently
PROPERTIES EndorsingEnds
CHECK_DEADLOCK FALSE
