SPECIFICATION FairGroupsSpec
CONSTANTS
  Labels = {a}
  Tabs = {t1, t2}
  Groups = {g1, g2}
  Windows = {w}
  Lookups = {x}
  UserTabs = {t1}
  MaxRestarts = 1
  Sweep = Sweep
  None = None
INVARIANTS GroupsTypeOK OneGroupPerLabel
PROPERTIES AddsEnd
CHECK_DEADLOCK FALSE
