SPECIFICATION Spec
CONSTANTS
  o = o
  q = q
  r = r
  early = early
  late = late
  Procs = {o, q, r}
  Mortal = {o, q, r}
  Stamps = {early,late}
  Commands = {"checkpoint", "complete", "detach", "stop"}
  None = None
SYMMETRY Symmetry
INVARIANTS TypeOK ExclusiveUnlessContested NeverLostWrite
PROPERTIES ImplementsRecord
CHECK_DEADLOCK FALSE
