SPECIFICATION Spec
CONSTANTS
  s1 = s1
  s2 = s2
  a = a
  b = b
  c = c
  Ws = {w1, w2}
  AgentWs = {}
  Relays = {s1, s2}
  Contexts = {a, b}
  RuntimeContexts = {}
  Requests = {os, ws}
  OsRequests = {os}
  WsRequests = {ws}
  InternalCalls = {}
  NoCtx = NoCtx
  NoWs = NoWs
  NoRelay = NoRelay
  Standalone = FALSE
  SendOutcomes = {"sent", "dropped"}
  ReplyCopies = 1
  WS_QUEUE_CAP = 1
SYMMETRY Symmetry
INVARIANTS RoutingSound InFlightSound
PROPERTIES NamedContextHonoured ImplementsService
CHECK_DEADLOCK FALSE
