SPECIFICATION FairSpec
CONSTANTS
  NativeMessages = {m1}
  WsMessages = {m2}
  Ports = {p1, p2}
  Sockets = {w1, w2}
  MESSAGE_QUEUE_CAP = 1
  OUTBOUND_RECOVERY_QUEUE_CAP = 1
  WS_KEEPALIVE_MISS_LIMIT = 1
  MaxFaults = 1
  None = None
INVARIANTS TypeOK ChannelsSound
PROPERTIES ChannelRecovers
