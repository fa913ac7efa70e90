SPECIFICATION GroupsSpec
CONSTANTS
  Labels = {a, b}
  Tabs = {t1, t2, t3}
  Groups = {g1, g2}
  Windows = {w, u}
  Lookups = {}
  UserTabs = {t3}
  MaxRestarts = 0
  Sweep = Sweep
  None = None
PROPERTIES LastTabKept
CHECK_DEADLOCK FALSE
SYMMETRY Symmetry
ACTION_CONSTRAINT UndisturbedSweep
