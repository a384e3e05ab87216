SPECIFICATION Spec
CONSTANTS
  r = r  a = a  b = b  c = c  d = d  t = t
  Root = r
  Key = {r, a, b, c, d, t}
  Ledgers <- SmallLedgers
  Revocable = {r, a, t}
  Targets = {r, t}
  Depths = {0, 1, 2, 3}
INVARIANTS TypeOK PathsCounted CreditHasPath TrustedSetAgrees ThresholdOne DisjointCounted
CHECK_DEADLOCK FALSE
