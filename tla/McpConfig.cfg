SPECIFICATION Spec
CONSTANTS
  Configs = {c1, c2}
  Tasks = {t1, t2}
  Offers = {o1, none}
  NoTools = none
  V0 = V0
  None = None
SYMMETRY Interchangeable
INVARIANTS
  TypeOK
  KeysFollowRow
  SkipIsSafe
