SPECIFICATION FairSpec
CONSTANTS
  s1 = s1
  s2 = s2
  a = a
  b = b
  c = c
  Ws = {w1, w2}
  AgentWs = {w1, w2}
  Relays = {s1}
  Contexts = {b, c}
  RuntimeContexts = {b, c}
  Requests = {os, call}
  OsRequests = {os}
  WsRequests = {}
  InternalCalls = {call}
  NoCtx = NoCtx
  NoWs = NoWs
  NoRelay = NoRelay
  Standalone = TRUE
  SendOutcomes = {"sent", "dropped", "throws"}
  ReplyCopies = 2
  WS_QUEUE_CAP = 1
INVARIANTS TypeOK AgentMetaSound PlainAnsweredOnce QueueSound
PROPERTIES NamedContextNotCrossed EventuallyAnswered
CHECK_DEADLOCK FALSE
