SPECIFICATION FairSpec
CONSTANTS
  r1 = r1
  r2 = r2
  c1 = c1
  c2 = c2
  Requests = {r1, r2}
  Conns = {c1, c2}
  MaxCrashes = 1
  Timer = Timer
  None = None
INVARIANTS TypeOK AnsweredOnce NothingForgotten
PROPERTIES EveryRequestAnswered
CHECK_DEADLOCK FALSE
