SPECIFICATION FairSpec
CONSTANTS
  s1 = s1
  s2 = s2
  s3 = s3
  n1 = n1
  cli = cli
  Standalones = {s1, s2}
  Natives = {n1}
  Clis = {cli}
  MaxDowns = 2
  None = None
INVARIANTS TypeOK OneOwner
PROPERTIES SelfHeals StartsOne
CHECK_DEADLOCK FALSE
