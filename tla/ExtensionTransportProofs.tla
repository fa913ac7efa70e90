---------------------- MODULE ExtensionTransportProofs -----------------------
(***************************************************************************)
(* Theorems about the extension's side of its channels, for any requests,  *)
(* ports and sockets, any caps of its queues and any number of faults.     *)
(***************************************************************************)
EXTENDS ExtensionTransport, TLAPS

-----------------------------------------------------------------------------
(* The inductive invariant *)

Usable(s) ==
  /\ s.active = "native" => s.port # None /\ s.shaking = None
  /\ s.active = "websocket" => s.channel # None /\ s.ready

\* A state of transport.ts as it should be. That a handshake in progress is that of the
\* current port is what lets its pong make the native transport active.
Sound(s) ==
  /\ s \in Transport
  /\ WsOpen(s) => s.known
  /\ Usable(s)
  /\ s.shaking # None => s.port = s.shaking

\* s has become r, and no channel has opened on the way.
Keeps(s, r) == Sound(r) /\ (WsOpen(r) => WsOpen(s))

QueueTypes ==
  /\ messageQueue \in Seq(Messages) /\ Len(messageQueue) <= MESSAGE_QUEUE_CAP
  /\ pending \in Seq(Messages)
  /\ recovery \in Seq(Messages) /\ Len(recovery) <= OUTBOUND_RECOVERY_QUEUE_CAP
  /\ arrived \subseteq Messages /\ running \subseteq Messages
  /\ faults \in 0 .. MaxFaults

TransportInv == Sound(t) /\ RecoveryDrained /\ QueueTypes

\* The assumption on the bounds, number by number.
LEMMA Bounds ==
  /\ 0 \in 0 .. WS_KEEPALIVE_MISS_LIMIT /\ WS_KEEPALIVE_MISS_LIMIT \in Nat
  /\ MESSAGE_QUEUE_CAP \in Nat /\ OUTBOUND_RECOVERY_QUEUE_CAP \in Nat /\ MaxFaults \in Nat
BY TransportAssumption

-----------------------------------------------------------------------------
(* transport.ts: what its functions make of a sound state *)

SameNative(s, r) == r.active = s.active /\ r.port = s.port /\ r.shaking = s.shaking
SameSocket(s, r) ==
  /\ r.channel = s.channel /\ r.ready = s.ready /\ r.known = s.known
  /\ r.sock[s.channel] = s.sock[s.channel]

LEMMA SocketSame ==
  ASSUME NEW s, Sound(s), NEW r, r \in Transport, SameSocket(s, r), Usable(r),
         r.shaking # None => r.port = r.shaking
  PROVE  Keeps(s, r)
BY DEF Keeps, Sound, WsOpen, ChannelIs, SameSocket

LEMMA AllSame ==
  ASSUME NEW s, Sound(s), NEW r, r \in Transport, SameSocket(s, r), SameNative(s, r)
  PROVE  Keeps(s, r)
<1>1. Usable(r) /\ (r.shaking # None => r.port = r.shaking)
  BY DEF Sound, Usable, SameSocket, SameNative
<1> QED  BY <1>1, SocketSame

LEMMA ClearKeeps ==
  ASSUME NEW s, Sound(s), NEW p \in Ports
  PROVE  Keeps(s, ClearNativeStateFor(s, p))
<1> DEFINE r == ClearNativeStateFor(s, p)
<1>1. r \in Transport /\ SameSocket(s, r)
  <2>1. s \in Transport
    BY DEF Sound
  <2>2. r \in Transport
    BY <2>1 DEF Transport, ClearNativeStateFor
  <2>3. /\ r.channel = s.channel /\ r.ready = s.ready /\ r.known = s.known
        /\ r.sock = s.sock
    BY <2>1 DEF Transport, ClearNativeStateFor
  <2> QED  BY <2>2, <2>3 DEF SameSocket
<1>2. /\ r.port = IF s.port = p THEN None ELSE s.port
      /\ r.shaking = IF s.shaking = p THEN None ELSE s.shaking
      /\ r.active = IF s.active = "native" THEN "none" ELSE s.active
  BY DEF Sound, Transport, ClearNativeStateFor
<1> HIDE DEF r
<1>3. Usable(r) /\ (r.shaking # None => r.port = r.shaking)
  BY <1>1, <1>2 DEF Sound, Usable, SameSocket
<1> QED  BY <1>1, <1>3, SocketSame DEF r

LEMMA ScheduleKeeps ==
  ASSUME NEW s, Sound(s)
  PROVE  Keeps(s, ScheduleNativeReconnect(s))
<1> DEFINE r == [s EXCEPT !.retry = TRUE]
<1>1. r \in Transport /\ SameSocket(s, r) /\ SameNative(s, r)
  BY DEF Sound, Transport, SameSocket, SameNative
<1>2. Keeps(s, r) /\ Keeps(s, s)
  BY <1>1, AllSame DEF Keeps
<1> QED  BY <1>2 DEF ScheduleNativeReconnect

LEMMA DisconnectKeeps ==
  ASSUME NEW s, Sound(s), NEW p \in Ports
  PROVE  Keeps(s, DisconnectNativePort(s, p))
<1> DEFINE r == [s EXCEPT !.link[p] = IF @ = "open" THEN "closed" ELSE @, !.waiting = None]
<1>1. r \in Transport /\ SameSocket(s, r) /\ SameNative(s, r)
  BY DEF Sound, Transport, SameSocket, SameNative
<1> HIDE DEF r
<1>2. Keeps(s, r)
  BY <1>1, AllSame
<1>3. Keeps(r, ClearNativeStateFor(r, p))
  BY <1>2, ClearKeeps DEF Keeps
<1>4. DisconnectNativePort(s, p) = ClearNativeStateFor(r, p)
  BY DEF DisconnectNativePort, r
<1> QED  BY <1>2, <1>3, <1>4 DEF Keeps

LEMMA ConnectKeeps ==
  ASSUME NEW s, Sound(s), CanConnect(s)
  PROVE  Keeps(s, ConnectToHost(s))
<1>1. CASE s.port # None \/ s.connecting
  BY <1>1 DEF Keeps, ConnectToHost
<1>2. CASE ~(s.port # None \/ s.connecting)
  <2> DEFINE p == CHOOSE q \in FreePorts(s) : TRUE
             r == [s EXCEPT !.connecting = TRUE, !.port = p, !.shaking = p,
                            !.link[p] = "open", !.timers = @ \cup {p}]
  <2>1. p \in Ports
    BY <1>2 DEF CanConnect, FreePorts
  <2>2. ConnectToHost(s) = r
    BY <1>2 DEF ConnectToHost
  <2> HIDE DEF p
  <2>3. r \in Transport /\ SameSocket(s, r)
    BY <2>1 DEF Sound, Transport, SameSocket
  <2>4. r.port = p /\ r.shaking = p /\ r.active = s.active
    BY DEF Sound, Transport
  <2> HIDE DEF r
  <2>5. Usable(r) /\ r.port = r.shaking
    BY <1>2, <2>3, <2>4 DEF Sound, Usable, SameSocket
  <2> QED  BY <2>2, <2>3, <2>5, SocketSame
<1> QED  BY <1>1, <1>2

LEMMA ConnectSockets ==
  ASSUME NEW s \in Transport, CanDial(s)
  PROVE  CanDial(ConnectToHost(s))
<1> DEFINE p == CHOOSE q \in FreePorts(s) : TRUE
           r == ConnectToHost(s)
<1>1. r.sock = s.sock /\ r.naming = s.naming /\ r.channel = s.channel
  <2> HIDE DEF p
  <2>1. CASE s.port # None \/ s.connecting
    BY <2>1 DEF ConnectToHost
  <2>2. CASE ~(s.port # None \/ s.connecting)
    <3>1. r = [s EXCEPT !.connecting = TRUE, !.port = p, !.shaking = p,
                        !.link[p] = "open", !.timers = @ \cup {p}]
      BY <2>2 DEF ConnectToHost, p
    <3> QED  BY <3>1 DEF Transport
  <2> QED  BY <2>1, <2>2
<1> HIDE DEF r
<1> QED  BY <1>1 DEF r, CanDial, Dialled, ChannelIs, FreeSockets

\* A state whose channel is not open is sound whatever is known of it.
LEMMA NotOpenKeeps ==
  ASSUME NEW s, Sound(s), NEW r, r \in Transport, ~WsOpen(r), Usable(r),
         r.port = s.port, r.shaking = s.shaking
  PROVE  Keeps(s, r)
BY DEF Keeps, Sound

LEMMA NewChannelType ==
  ASSUME NEW s \in Transport, NEW w \in Sockets \cup {None}, NEW r, r = NewChannel(s, w)
  PROVE  /\ r \in Transport /\ SameNative(s, r)
         /\ r.channel = w /\ r.ready = s.ready /\ r.sock = s.sock
BY DEF Transport, NewChannel, SameNative

LEMMA DialKeeps ==
  ASSUME NEW s, Sound(s), CanDial(s)
  PROVE  Keeps(s, ConnectWsChannel(s))
<1>1. CASE Dialled(s)
  BY <1>1 DEF Keeps, ConnectWsChannel
<1>2. CASE ~Dialled(s)
  <2> DEFINE w == CHOOSE x \in FreeSockets(s) : TRUE
             q == [s EXCEPT !.sock[w] = "connecting"]
             r == NewChannel(q, w)
  <2>1. w \in Sockets
    BY <1>2 DEF CanDial, FreeSockets
  <2>2. ConnectWsChannel(s) = r
    BY <1>2 DEF ConnectWsChannel
  <2> HIDE DEF w
  <2>3. /\ q \in Transport /\ q.sock[w] = "connecting"
        /\ q.active = s.active /\ q.port = s.port /\ q.shaking = s.shaking /\ q.ready = s.ready
    BY <2>1 DEF Sound, Transport
  <2> HIDE DEF q
  <2>4. /\ r \in Transport /\ SameNative(q, r)
        /\ r.channel = w /\ r.ready = q.ready /\ r.sock = q.sock
    BY <2>1, <2>3, NewChannelType
  <2> HIDE DEF r
  <2>5. ~WsOpen(r) /\ Usable(r)
    BY <2>1, <2>3, <2>4, TransportAssumption DEF WsOpen, ChannelIs, Usable, Sound, SameNative
  <2> QED  BY <2>2, <2>3, <2>4, <2>5, NotOpenKeeps DEF SameNative
<1> QED  BY <1>1, <1>2

LEMMA MarkType ==
  ASSUME NEW s \in Transport, NEW r, r = MarkWsUnregistered(s)
  PROVE  /\ r \in Transport /\ r.ready = FALSE /\ r.port = s.port /\ r.shaking = s.shaking
         /\ r.active = IF s.active = "websocket" THEN "none" ELSE s.active
BY DEF Transport, MarkWsUnregistered

\* Nothing is asked of s but its native side: this is what follows a change of its sockets.
LEMMA Unregistered ==
  ASSUME NEW s, Sound(s), NEW u \in Transport, SameNative(s, u), NEW r, r \in Transport,
         r.ready = FALSE, r.port = u.port, r.shaking = u.shaking,
         r.active = IF u.active = "websocket" THEN "none" ELSE u.active
  PROVE  Keeps(s, r)
<1>1. ~WsOpen(r) /\ Usable(r)
  BY DEF WsOpen, Usable, SameNative, Sound
<1> QED  BY <1>1, NotOpenKeeps DEF SameNative

LEMMA MarkKeeps ==
  ASSUME NEW s, Sound(s)
  PROVE  Keeps(s, MarkWsUnregistered(s))
<1>1. s \in Transport /\ SameNative(s, s)
  BY DEF Sound, SameNative
<1> QED  BY <1>1, MarkType, Unregistered

LEMMA ForgetKeeps ==
  ASSUME NEW s, Sound(s), NEW u \in Transport, SameNative(s, u)
  PROVE  Keeps(s, ForgetChannel(u))
<1> DEFINE m == MarkWsUnregistered(u)
           n == [m EXCEPT !.ticking = FALSE]
           c == NewChannel(n, None)
           r == ScheduleWsReconnect(c)
<1>1. /\ m \in Transport /\ m.ready = FALSE /\ m.port = u.port /\ m.shaking = u.shaking
      /\ m.active = IF u.active = "websocket" THEN "none" ELSE u.active
  BY MarkType
<1> HIDE DEF m
<1>2. n \in Transport /\ n.ready = m.ready /\ SameNative(m, n)
  BY <1>1 DEF Transport, SameNative
<1> HIDE DEF n
<1>3. c \in Transport /\ c.ready = n.ready /\ SameNative(n, c)
  BY <1>2, NewChannelType
<1> HIDE DEF c
<1>4. r \in Transport /\ r.ready = c.ready /\ SameNative(c, r)
  BY <1>3 DEF Transport, SameNative, ScheduleWsReconnect
<1>5. r = ForgetChannel(u)
  BY DEF ForgetChannel, r, c, n, m
<1> HIDE DEF r
<1>6. /\ r.ready = FALSE /\ r.port = u.port /\ r.shaking = u.shaking
      /\ r.active = IF u.active = "websocket" THEN "none" ELSE u.active
  BY <1>1, <1>2, <1>3, <1>4 DEF SameNative
<1> QED  BY <1>4, <1>5, <1>6, Unregistered

LEMMA AfterSendKeeps ==
  ASSUME NEW s, Sound(s), NEW forceWs
  PROVE  Keeps(s, AfterSend(s, forceWs))
<1>1. CASE TriesNative(s, forceWs) /\ PostThrows(s)
  <2>1. s.port \in Ports
    BY <1>1 DEF TriesNative, Sound, Transport
  <2>2. Keeps(s, ClearNativeStateFor(s, s.port))
    BY <2>1, ClearKeeps
  <2>3. Keeps(ClearNativeStateFor(s, s.port),
              ScheduleNativeReconnect(ClearNativeStateFor(s, s.port)))
    BY <2>2, ScheduleKeeps DEF Keeps
  <2> QED  BY <1>1, <2>2, <2>3 DEF AfterSend, Keeps
<1>2. CASE ~(TriesNative(s, forceWs) /\ PostThrows(s))
  BY <1>2 DEF AfterSend, Keeps
<1> QED  BY <1>1, <1>2

-----------------------------------------------------------------------------
(* The queues *)

LEMMA WithoutType ==
  ASSUME NEW q \in Seq(Messages), NEW m
  PROVE  Without(q, m) \in Seq(Messages)
BY DEF Without, RemoveAt

LEMMA StartAllType ==
  ASSUME QueueTypes, NEW q \in Seq(Messages), StartAll(q)
  PROVE  pending' \in Seq(Messages) /\ running' \subseteq Messages
BY DEF QueueTypes, StartAll

LEMMA EnqueuedType ==
  ASSUME QueueTypes, NEW q \in Seq(Messages)
  PROVE  Enqueued(q) \in Seq(Messages) /\ Len(Enqueued(q)) <= OUTBOUND_RECOVERY_QUEUE_CAP
<1> DEFINE all == recovery \o q
<1>1. all \in Seq(Messages) /\ Len(all) \in Nat /\ OUTBOUND_RECOVERY_QUEUE_CAP \in Nat \ {0}
  BY TransportAssumption DEF QueueTypes
<1> HIDE DEF all
<1>2. CASE Len(all) <= OUTBOUND_RECOVERY_QUEUE_CAP
  BY <1>1, <1>2 DEF Enqueued, all
<1>3. CASE ~(Len(all) <= OUTBOUND_RECOVERY_QUEUE_CAP)
  <2> DEFINE a == Len(all) - OUTBOUND_RECOVERY_QUEUE_CAP + 1
             e == SubSeq(all, a, Len(all))
  <2>1. a \in 1 .. Len(all)
    BY <1>1, <1>3
  <2>2. e \in Seq(Messages) /\ Len(e) = Len(all) - a + 1
    BY <1>1, <2>1
  <2>3. Enqueued(q) = e
    BY <1>3 DEF Enqueued, all
  <2> QED  BY <1>1, <2>2, <2>3
<1> QED  BY <1>2, <1>3

\* The types are kept where the queues are; the step decides of the rest.
LEMMA QueuesSame ==
  ASSUME QueueTypes, UNCHANGED <<arrived, messageQueue, pending, running, recovery>>,
         UNCHANGED faults \/ Fault
  PROVE  QueueTypes'
BY TransportAssumption DEF QueueTypes, Fault

\* A step that opens no channel keeps the recovery queue as empty as it was.
LEMMA StepKeeps ==
  ASSUME TransportInv, Keeps(t, t'), recovery' = recovery, QueueTypes'
  PROVE  TransportInv'
BY DEF TransportInv, Keeps, RecoveryDrained

LEMMA TransportStep ==
  ASSUME TransportInv, Keeps(t, t'),
         UNCHANGED <<arrived, messageQueue, pending, running, recovery>>,
         UNCHANGED faults \/ Fault
  PROVE  TransportInv'
<1>1. QueueTypes'
  BY QueuesSame DEF TransportInv
<1> QED  BY <1>1, StepKeeps

-----------------------------------------------------------------------------
(* Requests *)

LEMMA HandleKeeps ==
  ASSUME TransportInv, NEW m \in Messages, NEW s, Keeps(t, s), HandleDaemonMessage(m, s),
         arrived' \subseteq Messages
  PROVE  TransportInv'
<1> USE DEF TransportInv
<1>1. CASE s.active = "none" /\ Park(m, s)
  <2> DEFINE full == Len(messageQueue) >= MESSAGE_QUEUE_CAP
             s1   == IF full THEN AfterSend(s, FALSE) ELSE s
             s2   == ConnectToHost(s1)
  <2>1. /\ CanConnect(s1) /\ CanDial(s1) /\ t' = ConnectWsChannel(s2)
        /\ messageQueue' = Append(IF full THEN Tail(messageQueue) ELSE messageQueue, m)
        /\ UNCHANGED <<pending, running, recovery, faults>>
    BY <1>1 DEF Park
  <2>2. Keeps(t, s1)
    BY AfterSendKeeps DEF Keeps
  <2> HIDE DEF s1
  <2>3. Keeps(s1, s2)
    BY <2>1, <2>2, ConnectKeeps DEF Keeps
  <2>4. CanDial(s2)
    BY <2>1, <2>2, ConnectSockets DEF Keeps, Sound
  <2>5. Keeps(t, t')
    BY <2>1, <2>2, <2>3, <2>4, DialKeeps DEF Keeps
  <2>6. messageQueue' \in Seq(Messages) /\ Len(messageQueue') <= MESSAGE_QUEUE_CAP
    BY <2>1, TransportAssumption DEF QueueTypes
  <2> QED  BY <2>1, <2>5, <2>6, StepKeeps DEF QueueTypes
<1>2. CASE s.active # "none" /\ StartAll(<<m>>) /\ t' = s /\ UNCHANGED <<messageQueue, recovery, faults>>
  <2>1. <<m>> \in Seq(Messages) /\ StartAll(<<m>>)
    BY <1>2
  <2>2. pending' \in Seq(Messages) /\ running' \subseteq Messages
    BY <2>1, StartAllType
  <2> QED  BY <1>2, <2>2, StepKeeps DEF QueueTypes
<1> QED  BY <1>1, <1>2 DEF HandleDaemonMessage

LEMMA ReceiveNativeKeeps ==
  ASSUME TransportInv, NEW m \in Messages, ReceiveNative(m)
  PROVE  TransportInv'
<1>1. Keeps(t, t) /\ arrived' \subseteq Messages
  BY DEF Keeps, TransportInv, QueueTypes, ReceiveNative
<1> QED  BY <1>1, HandleKeeps DEF ReceiveNative

LEMMA ReceiveWsKeeps ==
  ASSUME TransportInv, NEW m \in Messages, ReceiveWs(m)
  PROVE  TransportInv'
<1> DEFINE s == [t EXCEPT !.since = 0]
<1>1. s \in Transport /\ SameSocket(t, s) /\ SameNative(t, s)
  BY Bounds DEF TransportInv, Sound, Transport, SameSocket, SameNative
<1>2. Keeps(t, s)
  BY <1>1, AllSame DEF TransportInv
<1>3. arrived' \subseteq Messages
  BY DEF TransportInv, QueueTypes, ReceiveWs
<1> QED  BY <1>2, <1>3, HandleKeeps DEF ReceiveWs

LEMMA FinishKeeps ==
  ASSUME TransportInv, NEW m \in Messages, Finish(m)
  PROVE  TransportInv'
<1>1. Keeps(t, t')
  BY AfterSendKeeps DEF Finish, TransportInv
<1>2. pending' \in Seq(Messages)
  BY WithoutType DEF Finish, TransportInv, QueueTypes
<1>3. QueueTypes'
  BY <1>2 DEF Finish, TransportInv, QueueTypes
<1> QED  BY <1>1, <1>3, StepKeeps DEF Finish

LEMMA ExtTimeoutKeeps ==
  ASSUME TransportInv, NEW m \in Messages, ExtTimeout(m)
  PROVE  TransportInv'
<1>1. Keeps(t, t')
  BY AfterSendKeeps DEF ExtTimeout, TransportInv
<1>2. pending' \in Seq(Messages)
  BY WithoutType DEF ExtTimeout, TransportInv, QueueTypes
<1>3. QueueTypes'
  BY <1>2 DEF ExtTimeout, TransportInv, QueueTypes
<1> QED  BY <1>1, <1>3, StepKeeps DEF ExtTimeout

-----------------------------------------------------------------------------
(* The native port *)

LEMMA PongKeeps ==
  ASSUME TransportInv, NEW p \in Ports, Pong(p)
  PROVE  TransportInv'
<1> USE DEF TransportInv
<1> DEFINE t1 == [t EXCEPT !.waiting = None]
<1>1. t1 \in Transport /\ SameSocket(t, t1) /\ SameNative(t, t1)
  BY DEF Sound, Transport, SameSocket, SameNative
<1>2. Keeps(t, t1)
  BY <1>1, AllSame
<1> HIDE DEF t1
<1>3. CASE t.shaking = p
  <2> DEFINE r == [t1 EXCEPT !.timers = @ \ {p}, !.shaking = None, !.active = "native",
                             !.retry = FALSE, !.connecting = FALSE]
  <2>1. t' = r /\ StartAll(messageQueue) /\ messageQueue' = <<>> /\ UNCHANGED <<arrived, recovery, faults>>
    BY <1>3 DEF Pong, t1
  <2>2. /\ r \in Transport /\ r.port = t1.port /\ r.shaking = None /\ r.active = "native"
        /\ SameSocket(t1, r)
    BY <1>1 DEF Transport, SameSocket
  <2> HIDE DEF r
  <2>3. r.port # None
    BY <1>1, <1>3, <2>2, TransportAssumption DEF Sound, SameNative
  <2>4. Keeps(t1, r)
    BY <1>2, <2>2, <2>3, SocketSame DEF Usable, Keeps
  <2>5. QueueTypes'
    BY <2>1, StartAllType, TransportAssumption DEF QueueTypes
  <2> QED  BY <1>2, <2>1, <2>4, <2>5, StepKeeps DEF Keeps
<1>4. CASE t.shaking # p
  <2>1. t' = t1 /\ UNCHANGED OthersThanT
    BY <1>4 DEF Pong, t1, OthersThanT
  <2> QED  BY <1>2, <2>1, TransportStep DEF OthersThanT
<1> QED  BY <1>3, <1>4

LEMMA HandshakeTimeoutKeeps ==
  ASSUME TransportInv, NEW p \in Ports, HandshakeTimeout(p)
  PROVE  TransportInv'
<1> DEFINE r == [t EXCEPT !.timers = @ \ {p}]
<1>1. r \in Transport /\ SameSocket(t, r) /\ SameNative(t, r)
  BY DEF TransportInv, Sound, Transport, SameSocket, SameNative
<1>2. Keeps(t, r)
  BY <1>1, AllSame DEF TransportInv
<1> HIDE DEF r
<1>3. Keeps(r, DisconnectNativePort(r, p))
  BY <1>2, DisconnectKeeps DEF Keeps
<1>4. Keeps(DisconnectNativePort(r, p), ScheduleNativeReconnect(DisconnectNativePort(r, p)))
  BY <1>3, ScheduleKeeps DEF Keeps
<1>5. t' = ScheduleNativeReconnect(DisconnectNativePort(r, p)) /\ UNCHANGED OthersThanT
  BY DEF HandshakeTimeout, r
<1> QED  BY <1>2, <1>3, <1>4, <1>5, TransportStep DEF Keeps, OthersThanT

LEMMA PongTimeoutKeeps ==
  ASSUME TransportInv, PongTimeout
  PROVE  TransportInv'
<1>1. t.waiting \in Ports
  BY DEF TransportInv, PongTimeout, Sound, Transport
<1>2. Keeps(t, t')
  BY <1>1, DisconnectKeeps DEF TransportInv, PongTimeout
<1> QED  BY <1>2, TransportStep DEF PongTimeout, OthersThanT

LEMMA HostGoneKeeps ==
  ASSUME TransportInv, NEW p \in Ports, HostGone(p)
  PROVE  TransportInv'
<1> DEFINE r == [t EXCEPT !.link[p] = "lost"]
<1>1. r \in Transport /\ SameSocket(t, r) /\ SameNative(t, r)
  BY DEF TransportInv, Sound, Transport, SameSocket, SameNative
<1>2. Keeps(t, r)
  BY <1>1, AllSame DEF TransportInv
<1> QED  BY <1>2, TransportStep DEF HostGone

LEMMA OnDisconnectKeeps ==
  ASSUME TransportInv, NEW p \in Ports, OnDisconnect(p)
  PROVE  TransportInv'
<1> USE DEF TransportInv
<1> DEFINE t0 == [t EXCEPT !.link[p] = "closed", !.connecting = FALSE]
           t1 == ClearNativeStateFor(t0, p)
           w  == [t1 EXCEPT !.active = "websocket"]
           t2 == IF WsOpen(t1) THEN w ELSE t1
<1>1. t0 \in Transport /\ SameSocket(t, t0) /\ SameNative(t, t0)
  BY DEF Sound, Transport, SameSocket, SameNative
<1>2. Keeps(t, t0)
  BY <1>1, AllSame
<1> HIDE DEF t0
<1>3. Keeps(t0, t1)
  BY <1>2, ClearKeeps DEF Keeps
<1> HIDE DEF t1
<1>4. Keeps(t1, t2)
  <2>1. CASE WsOpen(t1)
    <3>1. /\ w \in Transport /\ SameSocket(t1, w) /\ w.active = "websocket"
          /\ w.port = t1.port /\ w.shaking = t1.shaking
      BY <1>3 DEF Keeps, Sound, Transport, SameSocket
    <3> HIDE DEF w
    <3>2. Usable(w) /\ (w.shaking # None => w.port = w.shaking)
      BY <1>3, <2>1, <3>1 DEF Keeps, Sound, Usable, WsOpen, ChannelIs, SameSocket
    <3> QED  BY <1>3, <2>1, <3>1, <3>2, SocketSame DEF Keeps
  <2>2. CASE ~WsOpen(t1)
    BY <1>3, <2>2 DEF Keeps
  <2> QED  BY <2>1, <2>2
<1> HIDE DEF t2
<1>5. Keeps(t2, ScheduleNativeReconnect(t2))
  BY <1>4, ScheduleKeeps DEF Keeps
<1>6. /\ t' = ScheduleNativeReconnect(t2)
      /\ recovery' = IF WsOpen(t) THEN recovery ELSE Enqueued(pending)
      /\ pending' = <<>> /\ UNCHANGED <<arrived, messageQueue, running, faults>>
  BY DEF OnDisconnect, t2, t1, t0
<1>7. Keeps(t, t')
  BY <1>2, <1>3, <1>4, <1>5, <1>6 DEF Keeps
<1>8. QueueTypes'
  BY <1>6, EnqueuedType DEF QueueTypes
<1> QED  BY <1>6, <1>7, <1>8 DEF Keeps, RecoveryDrained

LEMMA NativeReconnectKeeps ==
  ASSUME TransportInv, NativeReconnect
  PROVE  TransportInv'
<1> DEFINE t1 == [t EXCEPT !.retry = FALSE]
<1>1. t1 \in Transport /\ SameSocket(t, t1) /\ SameNative(t, t1)
  BY DEF TransportInv, Sound, Transport, SameSocket, SameNative
<1>2. Keeps(t, t1)
  BY <1>1, AllSame DEF TransportInv
<1>3. CanConnect(t1) /\ t' = ConnectToHost(t1) /\ UNCHANGED OthersThanT
  BY DEF NativeReconnect
<1> HIDE DEF t1
<1>4. Keeps(t1, t')
  BY <1>2, <1>3, ConnectKeeps DEF Keeps
<1> QED  BY <1>2, <1>3, <1>4, TransportStep DEF Keeps, OthersThanT

LEMMA AlarmKeeps ==
  ASSUME TransportInv, Alarm
  PROVE  TransportInv'
<1> DEFINE t1 == ConnectToHost(t)
           t2 == IF t1.channel = None THEN ConnectWsChannel(t1) ELSE t1
           a  == [t2 EXCEPT !.waiting = t2.port]
<1>1. Keeps(t, t1)
  BY ConnectKeeps DEF TransportInv, Alarm
<1>2. t1.channel = None => CanDial(t1)
  BY DEF Alarm
<1>3. /\ \/ t' = t2
         \/ /\ t2.port # None
            /\ t' = IF PostThrows(t2) THEN ClearNativeStateFor(t2, t2.port) ELSE a
      /\ UNCHANGED OthersThanT
  BY DEF Alarm
<1> HIDE DEF t1
<1>4. Keeps(t, t2)
  BY <1>1, <1>2, DialKeeps DEF Keeps
<1> HIDE DEF t2
<1>5. ASSUME t2.port # None
      PROVE  Keeps(t2, ClearNativeStateFor(t2, t2.port)) /\ Keeps(t2, a)
  <2>1. t2.port \in Ports
    BY <1>4, <1>5 DEF Keeps, Sound, Transport
  <2>2. Keeps(t2, ClearNativeStateFor(t2, t2.port))
    BY <1>4, <2>1, ClearKeeps DEF Keeps
  <2>3. a \in Transport /\ SameSocket(t2, a) /\ SameNative(t2, a)
    BY <1>4, <2>1 DEF Keeps, Sound, Transport, SameSocket, SameNative
  <2> QED  BY <1>4, <2>2, <2>3, AllSame DEF Keeps
<1> HIDE DEF a
<1>6. Keeps(t, t')
  BY <1>3, <1>4, <1>5 DEF Keeps
<1> QED  BY <1>3, <1>6, TransportStep DEF OthersThanT
-----------------------------------------------------------------------------
(* The WebSocket *)

\* Another socket's state changes, or that of the channel so that it is not open.
LEMMA SockKeeps ==
  ASSUME NEW s, Sound(s), NEW w \in Sockets, NEW x \in {"free", "connecting", "closing"}
  PROVE  Keeps(s, [s EXCEPT !.sock[w] = x])
<1> DEFINE r == [s EXCEPT !.sock[w] = x]
<1>1. /\ r \in Transport /\ r.active = s.active /\ r.port = s.port /\ r.shaking = s.shaking
      /\ r.channel = s.channel /\ r.ready = s.ready /\ r.known = s.known
  BY DEF Sound, Transport
<1>2. s.channel \in Sockets => r.sock[s.channel] = IF s.channel = w THEN x ELSE s.sock[s.channel]
  BY DEF Sound, Transport
<1>3. s.channel = None \/ s.channel \in Sockets
  BY DEF Sound, Transport
<1> HIDE DEF r
<1>4. (WsOpen(r) => WsOpen(s)) /\ Usable(r)
  BY <1>1, <1>2, <1>3 DEF WsOpen, ChannelIs, Sound, Usable
<1> QED  BY <1>1, <1>4 DEF Keeps, Sound, r

LEMMA WsOnOpenKeeps ==
  ASSUME TransportInv, NEW w \in Sockets, WsOnOpen(w)
  PROVE  TransportInv'
<1> USE DEF TransportInv
<1> DEFINE m == MarkWsUnregistered(t)
           r == [m EXCEPT !.sock[w] = "open", !.redial = FALSE, !.since = 0, !.acks = FALSE,
                          !.ticking = TRUE, !.naming = @ \cup {w}]
<1>1. t' = (IF t.channel # w THEN [t EXCEPT !.sock[w] = "closing"] ELSE r) /\ UNCHANGED OthersThanT
  BY DEF WsOnOpen
<1>2. /\ m \in Transport /\ m.ready = FALSE /\ m.port = t.port /\ m.shaking = t.shaking
      /\ m.active = IF t.active = "websocket" THEN "none" ELSE t.active
  BY MarkType DEF Sound
<1> HIDE DEF m
<1>3. r \in Transport /\ r.ready = m.ready /\ SameNative(m, r)
  BY <1>2, Bounds DEF Transport, SameNative
<1> HIDE DEF r
<1>4. t \in Transport /\ SameNative(t, t)
  BY DEF Sound, SameNative
<1>5. Keeps(t, r)
  BY <1>2, <1>3, <1>4, Unregistered DEF SameNative
<1>6. Keeps(t, [t EXCEPT !.sock[w] = "closing"])
  BY SockKeeps
<1> QED  BY <1>1, <1>5, <1>6, TransportStep DEF OthersThanT

LEMMA RegistrationKeeps ==
  ASSUME NEW s, Sound(s)
  PROVE  Keeps(s, SendWsRegistration(s))
<1> DEFINE m == MarkWsUnregistered(s)
           r == [m EXCEPT !.asked = TRUE]
<1>1. Keeps(s, m)
  BY MarkKeeps
<1> HIDE DEF m
<1>2. r \in Transport /\ SameSocket(m, r) /\ SameNative(m, r)
  BY <1>1 DEF Keeps, Sound, Transport, SameSocket, SameNative
<1> QED  BY <1>1, <1>2, AllSame DEF Keeps, SendWsRegistration, m

LEMMA WsNamedKeeps ==
  ASSUME TransportInv, NEW w \in Sockets, WsNamed(w)
  PROVE  TransportInv'
<1> USE DEF TransportInv
<1> DEFINE t1 == [t EXCEPT !.naming = @ \ {w}]
<1>1. t1 \in Transport /\ SameSocket(t, t1) /\ SameNative(t, t1)
  BY DEF Sound, Transport, SameSocket, SameNative
<1>2. Keeps(t, t1)
  BY <1>1, AllSame
<1>3. /\ \/ t' = t1
         \/ t' = [t1 EXCEPT !.sock[w] = IF t1.sock[w] = "open" THEN "closing" ELSE t1.sock[w]]
         \/ t' = SendWsRegistration(t1)
      /\ UNCHANGED OthersThanT
  BY DEF WsNamed
<1> HIDE DEF t1
<1>4. CASE t' = [t1 EXCEPT !.sock[w] = IF t1.sock[w] = "open" THEN "closing" ELSE t1.sock[w]]
  <2> DEFINE x == IF t1.sock[w] = "open" THEN "closing" ELSE t1.sock[w]
  <2>1. x \in {"free", "connecting", "closing"}
    BY <1>1 DEF Transport
  <2>2. t' = [t1 EXCEPT !.sock[w] = x]
    BY <1>4
  <2> HIDE DEF x
  <2> QED  BY <1>2, <1>3, <2>1, <2>2, SockKeeps, TransportStep DEF Keeps, OthersThanT
<1>5. CASE t' = SendWsRegistration(t1)
  BY <1>2, <1>3, <1>5, RegistrationKeeps, TransportStep DEF Keeps, OthersThanT
<1> QED  BY <1>2, <1>3, <1>4, <1>5, TransportStep DEF OthersThanT

LEMMA ContextRenamedKeeps ==
  ASSUME TransportInv, ContextRenamed
  PROVE  TransportInv'
<1>1. Keeps(t, t')
  BY RegistrationKeeps DEF TransportInv, ContextRenamed
<1> QED  BY <1>1, TransportStep DEF ContextRenamed

\* The one step after which a channel is open that was not: the recovery queue is empty.
LEMMA RegisteredKeeps ==
  ASSUME TransportInv, Registered
  PROVE  TransportInv'
<1> USE DEF TransportInv
<1> DEFINE t1 == [t EXCEPT !.asked = FALSE, !.known = TRUE, !.since = 0, !.ready = TRUE]
           r  == [t1 EXCEPT !.active = "websocket", !.connecting = FALSE]
<1>1. /\ t1 \in Transport /\ SameNative(t, t1) /\ t1.channel = t.channel
      /\ t1.known = TRUE /\ t1.ready = TRUE
  BY Bounds DEF Sound, Transport, SameNative
<1>2. /\ t.channel # None /\ recovery' = <<>> /\ UNCHANGED <<arrived, faults>>
      /\ \/ t.active = "native" /\ t' = t1 /\ UNCHANGED <<messageQueue, pending, running>>
         \/ t.active # "native" /\ t' = r /\ StartAll(messageQueue) /\ messageQueue' = <<>>
  BY DEF Registered, Hears, ChannelIs
<1> HIDE DEF t1
<1>3. /\ r \in Transport /\ r.known = TRUE /\ r.ready = TRUE /\ r.channel = t1.channel
      /\ r.active = "websocket" /\ r.port = t1.port /\ r.shaking = t1.shaking
  BY <1>1 DEF Transport
<1> HIDE DEF r
<1>4. Sound(t1) /\ Sound(r)
  BY <1>1, <1>2, <1>3 DEF Sound, Usable, SameNative
<1>5. pending' \in Seq(Messages) /\ running' \subseteq Messages
  <2>1. QueueTypes /\ messageQueue \in Seq(Messages)
    BY DEF QueueTypes
  <2>2. ASSUME StartAll(messageQueue) PROVE pending' \in Seq(Messages) /\ running' \subseteq Messages
    BY <2>1, <2>2, StartAllType
  <2> QED  BY <1>2, <2>2 DEF QueueTypes
<1>6. messageQueue' \in Seq(Messages) /\ Len(messageQueue') <= MESSAGE_QUEUE_CAP
  <2>1. messageQueue' = messageQueue \/ messageQueue' = <<>>
    BY <1>2
  <2>2. <<>> \in Seq(Messages) /\ Len(<<>>) <= MESSAGE_QUEUE_CAP
    BY Bounds
  <2> QED  BY <2>1, <2>2 DEF QueueTypes
<1>7. /\ recovery' \in Seq(Messages) /\ Len(recovery') <= OUTBOUND_RECOVERY_QUEUE_CAP
      /\ arrived' \subseteq Messages /\ faults' \in 0 .. MaxFaults
  BY <1>2, Bounds DEF QueueTypes
<1>8. QueueTypes'
  BY <1>5, <1>6, <1>7 DEF QueueTypes
<1> QED  BY <1>2, <1>4, <1>8 DEF RecoveryDrained

LEMMA ConflictKeeps ==
  ASSUME TransportInv, Conflict
  PROVE  TransportInv'
<1> DEFINE r == [t EXCEPT !.asked = FALSE, !.since = 0]
<1>1. r \in Transport /\ SameSocket(t, r) /\ SameNative(t, r)
  BY Bounds DEF TransportInv, Sound, Transport, SameSocket, SameNative
<1>2. Keeps(t, r)
  BY <1>1, AllSame DEF TransportInv
<1>3. t' = MarkWsUnregistered(r) /\ UNCHANGED OthersThanT
  BY DEF Conflict
<1> HIDE DEF r
<1> QED  BY <1>2, <1>3, MarkKeeps, TransportStep DEF Keeps, OthersThanT

LEMMA KeepaliveAckKeeps ==
  ASSUME TransportInv, KeepaliveAck
  PROVE  TransportInv'
<1> DEFINE r == [t EXCEPT !.since = 0, !.acks = TRUE]
<1>1. r \in Transport /\ SameSocket(t, r) /\ SameNative(t, r)
  BY Bounds DEF TransportInv, Sound, Transport, SameSocket, SameNative
<1>2. Keeps(t, r)
  BY <1>1, AllSame DEF TransportInv
<1> QED  BY <1>2, TransportStep DEF KeepaliveAck, OthersThanT

LEMMA KeepaliveTickKeeps ==
  ASSUME TransportInv, KeepaliveTick
  PROVE  TransportInv'
<1> USE DEF TransportInv
<1> DEFINE off  == [t EXCEPT !.ticking = FALSE]
           more == [t EXCEPT !.since = IF t.since < WS_KEEPALIVE_MISS_LIMIT THEN t.since + 1
                                       ELSE t.since]
           gone == [t EXCEPT !.sock[t.channel] = "closing"]
<1>1. /\ \/ t' = off
         \/ t' = more
         \/ t.channel # None /\ t' = ForgetChannel(gone)
      /\ UNCHANGED OthersThanT
  BY DEF KeepaliveTick, ChannelIs
<1>2. off \in Transport /\ SameSocket(t, off) /\ SameNative(t, off)
  BY DEF Sound, Transport, SameSocket, SameNative
<1>3. more \in Transport /\ SameSocket(t, more) /\ SameNative(t, more)
  <2> DEFINE n == IF t.since < WS_KEEPALIVE_MISS_LIMIT THEN t.since + 1 ELSE t.since
  <2>1. n \in 0 .. WS_KEEPALIVE_MISS_LIMIT
    BY TransportAssumption DEF Sound, Transport
  <2> HIDE DEF n
  <2> QED  BY <2>1 DEF Sound, Transport, SameSocket, SameNative, n
<1>4. t.channel # None => gone \in Transport /\ SameNative(t, gone)
  BY DEF Sound, Transport, SameNative
<1> HIDE DEF off, more, gone
<1>5. Keeps(t, off) /\ Keeps(t, more)
  BY <1>2, <1>3, AllSame
<1>6. t.channel # None => Keeps(t, ForgetChannel(gone))
  BY <1>4, ForgetKeeps
<1>7. Keeps(t, t')
  BY <1>1, <1>5, <1>6
<1> QED  BY <1>1, <1>7, TransportStep DEF OthersThanT

LEMMA WsReconnectKeeps ==
  ASSUME TransportInv, WsReconnect
  PROVE  TransportInv'
<1> DEFINE t1 == [t EXCEPT !.redial = FALSE]
<1>1. t1 \in Transport /\ SameSocket(t, t1) /\ SameNative(t, t1)
  BY DEF TransportInv, Sound, Transport, SameSocket, SameNative
<1>2. Keeps(t, t1)
  BY <1>1, AllSame DEF TransportInv
<1>3. CanDial(t1) /\ t' = ConnectWsChannel(t1) /\ UNCHANGED OthersThanT
  BY DEF WsReconnect
<1> HIDE DEF t1
<1> QED  BY <1>2, <1>3, DialKeeps, TransportStep DEF Keeps, OthersThanT

LEMMA PeerClosesKeeps ==
  ASSUME TransportInv, NEW w \in Sockets, PeerCloses(w)
  PROVE  TransportInv'
<1>1. Keeps(t, t')
  BY SockKeeps DEF TransportInv, PeerCloses
<1> QED  BY <1>1, TransportStep DEF PeerCloses

LEMMA WedgeKeeps ==
  ASSUME TransportInv, Wedge
  PROVE  TransportInv'
<1> DEFINE r == [t EXCEPT !.wedged = TRUE]
<1>1. r \in Transport /\ SameSocket(t, r) /\ SameNative(t, r)
  BY DEF TransportInv, Sound, Transport, SameSocket, SameNative
<1>2. Keeps(t, r)
  BY <1>1, AllSame DEF TransportInv
<1> QED  BY <1>2, TransportStep DEF Wedge

LEMMA WsOnCloseKeeps ==
  ASSUME TransportInv, NEW w \in Sockets, WsOnClose(w)
  PROVE  TransportInv'
<1> USE DEF TransportInv
<1> DEFINE t1 == [t EXCEPT !.sock[w] = "free"]
<1>1. t1 \in Transport /\ SameNative(t, t1)
  BY DEF Sound, Transport, SameNative
<1>2. Keeps(t, t1)
  BY SockKeeps
<1>3. t' = (IF t.channel = w THEN ForgetChannel(t1) ELSE t1) /\ UNCHANGED OthersThanT
  BY DEF WsOnClose
<1> HIDE DEF t1
<1>4. Keeps(t, ForgetChannel(t1))
  BY <1>1, ForgetKeeps
<1> QED  BY <1>2, <1>3, <1>4, TransportStep DEF OthersThanT

-----------------------------------------------------------------------------
(* The start and the steps *)

\* What the worker is after its start, and after each restart: dialled on both channels.
LEMMA StartedSound ==
  Sound(Started) /\ ~WsOpen(Started)
<1>1. Sound(NoTransport) /\ ~WsOpen(NoTransport)
  BY TransportAssumption DEF Sound, Usable, NoTransport, Transport, WsOpen
<1>2. CanConnect(NoTransport) /\ CanDial(NoTransport)
  BY TransportAssumption DEF NoTransport, CanConnect, CanDial, FreePorts, FreeSockets
<1>3. Keeps(NoTransport, ConnectToHost(NoTransport)) /\ CanDial(ConnectToHost(NoTransport))
  BY <1>1, <1>2, ConnectKeeps, ConnectSockets DEF Sound
<1>4. Keeps(ConnectToHost(NoTransport), Started)
  BY <1>3, DialKeeps DEF Keeps, Started
<1> QED  BY <1>1, <1>3, <1>4 DEF Keeps

LEMMA TransportInvInit == Init => TransportInv
<1> SUFFICES ASSUME Init PROVE TransportInv
  OBVIOUS
<1>1. Sound(t)
  BY StartedSound DEF Init
<1>2. QueueTypes /\ RecoveryDrained
  BY TransportAssumption DEF Init, QueueTypes, RecoveryDrained
<1> QED  BY <1>1, <1>2 DEF TransportInv

LEMMA RestartKeeps ==
  ASSUME TransportInv, Restart
  PROVE  TransportInv'
<1>1. Sound(t)' /\ recovery' = <<>>
  BY StartedSound DEF Restart
<1>2. QueueTypes'
  BY TransportAssumption DEF TransportInv, Restart, QueueTypes, Fault
<1> QED  BY <1>1, <1>2 DEF TransportInv, RecoveryDrained

LEMMA StutterKeeps ==
  ASSUME TransportInv, UNCHANGED vars
  PROVE  TransportInv'
BY DEF TransportInv, vars, Sound, RecoveryDrained, QueueTypes

\* Inductive invariant of transport.ts and message-dispatch.ts: the state of the channels
\* is sound and the recovery queue is empty beside an open one.
THEOREM TransportInvariant == Spec => []TransportInv
<1>1. TransportInv /\ [Next]_vars => TransportInv'
  <2> SUFFICES ASSUME TransportInv, [Next]_vars PROVE TransportInv'
    OBVIOUS
  <2>1. CASE UNCHANGED vars
    BY <2>1, StutterKeeps
  <2>2. ASSUME NEW p \in Ports, Native(p) \/ HostGone(p) PROVE TransportInv'
    BY <2>2, PongKeeps, HandshakeTimeoutKeeps, OnDisconnectKeeps, HostGoneKeeps DEF Native
  <2>3. ASSUME NEW w \in Sockets, Socket(w) \/ PeerCloses(w) PROVE TransportInv'
    BY <2>3, WsOnOpenKeeps, WsNamedKeeps, WsOnCloseKeeps, PeerClosesKeeps DEF Socket
  <2>4. ASSUME NEW m \in Messages, Request(m) PROVE TransportInv'
    BY <2>4, ReceiveNativeKeeps, ReceiveWsKeeps, FinishKeeps, ExtTimeoutKeeps DEF Request
  <2>5. CASE Timers
    BY <2>5, NativeReconnectKeeps, PongTimeoutKeeps, WsReconnectKeeps, KeepaliveTickKeeps
       DEF Timers
  <2>6. CASE Registered \/ Conflict \/ KeepaliveAck \/ Wedge
    BY <2>6, RegisteredKeeps, ConflictKeeps, KeepaliveAckKeeps, WedgeKeeps
  <2>7. CASE Alarm \/ ContextRenamed \/ Restart
    BY <2>7, AlarmKeeps, ContextRenamedKeeps, RestartKeeps
  <2> QED  BY <2>1, <2>2, <2>3, <2>4, <2>5, <2>6, <2>7 DEF Next
<1> QED  BY <1>1, TransportInvInit, PTL DEF Spec

\* Every reachable state of transport.ts, of its ports, sockets and timers, and of the
\* queues of requests and replies is typed, and no queue is longer than its cap.
THEOREM TypeCorrect == Spec => []TypeOK
<1>1. TransportInv => TypeOK
  BY DEF TransportInv, Sound, QueueTypes, TypeOK
<1> QED  BY <1>1, TransportInvariant, PTL

\* What the worker believes of its channels is true: replies go out only over a socket
\* whose registration the daemon has answered, nothing waits for recovery beside it, and
\* the active transport is one that works.
THEOREM BeliefsTrue == Spec => []ChannelsSound
<1>1. TransportInv => ChannelsSound
  BY DEF TransportInv, Sound, Usable, ChannelsSound, RegisteredChannel, ActiveIsUsable
<1> QED  BY <1>1, TransportInvariant, PTL
=============================================================================
