SPECIFICATION Spec
CONSTANTS
  r = r  a = a  b = b  c = c  d = d  t = t
  Root = r
  Key = {r, a, b, c, d, t}
  Ledgers <- SmallLedgers
  Revocable = {}
  Targets = {t}
  Depths = {2}
INVARIANTS DisjointIsMost
CHECK_DEADLOCK FALSE
