SPECIFICATION Spec
CONSTANTS
  Tabs = {t1, t2}
  Docs = {d1, d2}
  Ids = {s1, s2}
  Managed = {t2}
  Focuses = {f}
  Stops = {x}
  None = None
SYMMETRY Symmetry
INVARIANTS TypeOK TablesAgree MetaFollows
PROPERTIES ChildTabFirst
CHECK_DEADLOCK FALSE
