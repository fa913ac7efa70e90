SPECIFICATION Spec
CONSTANTS
  Tabs = {t1, t2, t3}
  Docs = {d1, d2}
  Ids = {s1}
  Managed = {t2, t3}
  Focuses = {f}
  Stops = {x}
  None = None
SYMMETRY Symmetry
INVARIANTS TabLeadsToSession
CHECK_DEADLOCK FALSE
