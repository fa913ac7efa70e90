-------------------------- MODULE ExtensionTransport --------------------------
(***************************************************************************)
(* The browser extension's side of its two channels to the daemon: the     *)
(* native port with its handshake, and the WebSocket with its context      *)
(* registration (extension/src/background/transport.ts), and the requests  *)
(* that arrive over them (message-dispatch.ts): parked while no channel is *)
(* active, then pending until the action is done or the timer answers.     *)
(*                                                                         *)
(* Every action is one callback of the extension's event loop, or a step   *)
(* of the browser, the native host or the daemon. Replies are left out     *)
(* but for what sending them does to the channels and for those that wait  *)
(* in the recovery queue; so are the hosts without native messaging.       *)
(* Assumptions: the browser delivers a port's onDisconnect before the next *)
(* port's pong and before a reconnect delay (1 s or more) has passed, and  *)
(* not at all for a port the extension disconnects itself.                 *)
(***************************************************************************)
EXTENDS Naturals, FiniteSets, SequencesExt

CONSTANTS
  NativeMessages, WsMessages,  \* requests of the daemon, by the channel they are sent over
  Ports, Sockets,              \* names for native ports and WebSockets, reused when free
  MESSAGE_QUEUE_CAP, OUTBOUND_RECOVERY_QUEUE_CAP, WS_KEEPALIVE_MISS_LIMIT,
  MaxFaults,                   \* bound on what happens to the channels from outside
  None

Messages == NativeMessages \cup WsMessages

ASSUME TransportAssumption ==
  /\ NativeMessages \cap WsMessages = {}
  /\ None \notin Ports \cup Sockets
  /\ Ports # {} /\ Sockets # {}
  /\ {MESSAGE_QUEUE_CAP, OUTBOUND_RECOVERY_QUEUE_CAP, WS_KEEPALIVE_MISS_LIMIT} \subseteq Nat \ {0}
  /\ MaxFaults \in Nat

VARIABLES
  t,             \* the module state of transport.ts, its ports, sockets and timers
  arrived,       \* requests that have arrived, each once
  messageQueue,  \* requests parked while activeTransport is "none"
  pending,       \* pendingRequests, in the order of the Map, each with its timer
  running,       \* requests whose action is executing
  recovery,      \* outboundRecoveryQueue
  faults         \* hosts that ended, sockets closed or wedged, names changed, restarts

vars == <<t, arrived, messageQueue, pending, running, recovery, faults>>

Transport ==
  [port       : Ports \cup {None},              \* nativePort
   shaking    : Ports \cup {None},              \* pendingHandshakePort
   connecting : BOOLEAN,                        \* isConnecting
   active     : {"none", "native", "websocket"},
   retry      : BOOLEAN,                        \* nativeReconnectTimer is armed
   timers     : SUBSET Ports,                   \* ports with an armed handshakeTimer
   waiting    : Ports \cup {None},              \* the port keepalivePongTimer is armed for
   link       : [Ports -> {"closed", "open", "lost"}],   \* lost: onDisconnect is due
   channel    : Sockets \cup {None},            \* wsChannel
   ready      : BOOLEAN,                        \* wsReady
   redial     : BOOLEAN,                        \* wsReconnectTimer is armed
   ticking    : BOOLEAN,                        \* wsKeepAliveTimer is armed
   since      : 0 .. WS_KEEPALIVE_MISS_LIMIT,   \* keepalivesSinceAck, as far as the limit
   acks       : BOOLEAN,                        \* ackSupported
   sock       : [Sockets -> {"free", "connecting", "open", "closing"}],
   naming     : SUBSET Sockets,                 \* onopen awaits getOrCreateContextId
   asked      : BOOLEAN,                        \* the daemon has yet to answer wsChannel's registration
   known      : BOOLEAN,                        \* the daemon has registered a context for wsChannel
   wedged     : BOOLEAN]                        \* the frames to wsChannel no longer arrive

TypeOK ==
  /\ t \in Transport
  /\ \A q \in {messageQueue, pending, recovery} : q \in Seq(Messages)
  /\ Len(messageQueue) <= MESSAGE_QUEUE_CAP
  /\ Len(recovery) <= OUTBOUND_RECOVERY_QUEUE_CAP
  /\ arrived \subseteq Messages /\ running \subseteq Messages
  /\ faults \in 0 .. MaxFaults

-----------------------------------------------------------------------------
(* transport.ts: its functions, as functions of its state *)

ChannelIs(s, states) == s.channel # None /\ s.sock[s.channel] \in states
WsOpen(s) == s.ready /\ ChannelIs(s, {"open"})

ClearKeepsActiveFaulty(s, p) ==
  [s EXCEPT !.port    = IF @ = p THEN None ELSE @,
            !.shaking = IF @ = p THEN None ELSE @]
ClearNativeStateFor(s, p) ==
  [s EXCEPT !.port    = IF @ = p THEN None ELSE @,
            !.shaking = IF @ = p THEN None ELSE @,
            !.active  = IF @ = "native" THEN "none" ELSE @]

DisconnectNativePort(s, p) ==
  ClearNativeStateFor([s EXCEPT !.link[p] = IF @ = "open" THEN "closed" ELSE @,
                                !.waiting = None], p)

ScheduleNativeReconnect(s) ==
  IF s.port # None \/ s.connecting THEN s ELSE [s EXCEPT !.retry = TRUE]

FreePorts(s) == {p \in Ports : s.link[p] = "closed" /\ p \notin s.timers /\ s.waiting # p}
CanConnect(s) == s.port # None \/ s.connecting \/ FreePorts(s) # {}
ConnectToHost(s) ==
  IF s.port # None \/ s.connecting THEN s
  ELSE LET p == CHOOSE q \in FreePorts(s) : TRUE
       IN  [s EXCEPT !.connecting = TRUE, !.port = p, !.shaking = p,
                     !.link[p] = "open", !.timers = @ \cup {p}]

MarkWsUnregistered(s) ==
  [s EXCEPT !.ready = FALSE, !.active = IF @ = "websocket" THEN "none" ELSE @]

ScheduleWsReconnect(s) == [s EXCEPT !.redial = TRUE]

\* wsChannel is assigned: what the daemon knows of the socket before is of no account.
NewChannel(s, w) ==
  [s EXCEPT !.channel = w, !.asked = FALSE, !.known = FALSE, !.wedged = FALSE]

\* onclose and onerror, and closeWsForReconnect.
ForgetChannel(s) ==
  ScheduleWsReconnect(NewChannel([MarkWsUnregistered(s) EXCEPT !.ticking = FALSE], None))

FreeSockets(s) == {w \in Sockets : s.sock[w] = "free" /\ w \notin s.naming}
Dialled(s) == ChannelIs(s, {"connecting", "open"})
CanDial(s) == Dialled(s) \/ FreeSockets(s) # {}
ConnectWsChannel(s) ==
  IF Dialled(s) THEN s
  ELSE LET w == CHOOSE x \in FreeSockets(s) : TRUE
       IN  NewChannel([s EXCEPT !.sock[w] = "connecting"], w)

SendWsRegistration(s) == [MarkWsUnregistered(s) EXCEPT !.asked = TRUE]

\* sendToHost: whether it posts to the native port before the WebSocket, and what a
\* port that throws leaves of the state. Whether the message then goes out is left out.
TriesNative(s, forceWs) ==
  /\ ~forceWs /\ s.port # None
  /\ s.active = "websocket" => ~s.ready \/ s.channel = None
PostThrows(s) == s.link[s.port] = "lost"
AfterSend(s, forceWs) ==
  IF TriesNative(s, forceWs) /\ PostThrows(s)
  THEN ScheduleNativeReconnect(ClearNativeStateFor(s, s.port))
  ELSE s

-----------------------------------------------------------------------------
(* message-dispatch.ts *)

\* handleDaemonMessage up to its first await, when a channel is active.
StartAll(q) ==
  /\ pending' = pending \o q
  /\ running' = running \cup {q[i] : i \in DOMAIN q}

\* handleDaemonMessage while no channel is active: the request is parked, the oldest
\* gives way, and both channels are tried. s is the state the callback has reached.
Park(m, s) ==
  LET full == Len(messageQueue) >= MESSAGE_QUEUE_CAP
      s1   == IF full THEN AfterSend(s, FALSE) ELSE s
  IN  /\ CanConnect(s1) /\ CanDial(s1)
      /\ t' = ConnectWsChannel(ConnectToHost(s1))
      /\ messageQueue' = Append(IF full THEN Tail(messageQueue) ELSE messageQueue, m)
      /\ UNCHANGED <<pending, running, recovery, faults>>

HandleDaemonMessage(m, s) ==
  \/ s.active = "none" /\ Park(m, s)
  \/ /\ s.active # "none"
     /\ StartAll(<<m>>)
     /\ t' = s
     /\ UNCHANGED <<messageQueue, recovery, faults>>

ReceiveNative(m) ==
  /\ m \in NativeMessages \ arrived /\ t.port # None /\ t.link[t.port] = "open"
  /\ arrived' = arrived \cup {m}
  /\ HandleDaemonMessage(m, t)

\* Frames of the daemon arrive.
Hears == ChannelIs(t, {"open"}) /\ ~t.wedged

\* The daemon sends to sockets it has registered.
ReceiveWs(m) ==
  /\ m \in WsMessages \ arrived
  /\ t.known /\ Hears
  /\ arrived' = arrived \cup {m}
  /\ HandleDaemonMessage(m, [t EXCEPT !.since = 0])

\* The Map without a request, which is in it once at most.
Without(q, m) ==
  IF \E i \in DOMAIN q : q[i] = m THEN RemoveAt(q, CHOOSE i \in DOMAIN q : q[i] = m) ELSE q

\* The action is done and its reply sent, also when the request is not pending any more.
Finish(m) ==
  /\ m \in running
  /\ running' = running \ {m}
  /\ pending' = Without(pending, m)
  /\ t' = AfterSend(t, m \in WsMessages)
  /\ UNCHANGED <<arrived, messageQueue, recovery, faults>>

ExtTimeout(m) ==
  /\ \E i \in DOMAIN pending : pending[i] = m
  /\ pending' = Without(pending, m)
  /\ t' = AfterSend(t, m \in WsMessages)
  /\ UNCHANGED <<arrived, messageQueue, running, recovery, faults>>

-----------------------------------------------------------------------------
(* The native port *)

OthersThanT == <<arrived, messageQueue, pending, running, recovery, faults>>
Fault == faults < MaxFaults /\ faults' = faults + 1

NoDisconnectDue == \A p \in Ports : t.link[p] # "lost"

\* The host answers the ping of the handshake or of the alarm. The first answer ends
\* the handshake, and what was parked is handled.
Pong(p) ==
  /\ p \in {t.shaking, t.waiting} /\ t.link[p] = "open" /\ NoDisconnectDue
  /\ LET t1 == [t EXCEPT !.waiting = None]
     IN  IF t.shaking = p
         THEN /\ t' = [t1 EXCEPT !.timers = @ \ {p}, !.shaking = None, !.active = "native",
                                 !.retry = FALSE, !.connecting = FALSE]
              /\ StartAll(messageQueue)
              /\ messageQueue' = <<>>
         ELSE /\ t' = t1
              /\ UNCHANGED <<messageQueue, pending, running>>
  /\ UNCHANGED <<arrived, recovery, faults>>

HandshakeTimeout(p) ==
  /\ p \in t.timers
  /\ t' = ScheduleNativeReconnect(DisconnectNativePort([t EXCEPT !.timers = @ \ {p}], p))
  /\ UNCHANGED OthersThanT

PongTimeout ==
  /\ t.waiting # None
  /\ t' = DisconnectNativePort(t, t.waiting)
  /\ UNCHANGED OthersThanT

\* The host ends. Posting to its port throws from here on.
HostGone(p) ==
  /\ Fault
  /\ t.link[p] = "open"
  /\ t' = [t EXCEPT !.link[p] = "lost"]
  /\ UNCHANGED <<arrived, messageQueue, pending, running, recovery>>

\* enqueueOutboundRecovery for one message after the other: the oldest give way.
EnqueuedUncappedFaulty(q) == recovery \o q
Enqueued(q) ==
  LET all == recovery \o q
      n   == Len(all)
  IN  IF n <= OUTBOUND_RECOVERY_QUEUE_CAP THEN all
      ELSE SubSeq(all, n - OUTBOUND_RECOVERY_QUEUE_CAP + 1, n)

\* onDisconnect: every pending request is answered with an error, over the WebSocket
\* or from the recovery queue, whichever channel it came over.
OnDisconnect(p) ==
  /\ t.link[p] = "lost"
  /\ LET t1 == ClearNativeStateFor([t EXCEPT !.link[p] = "closed", !.connecting = FALSE], p)
         t2 == IF WsOpen(t1) THEN [t1 EXCEPT !.active = "websocket"] ELSE t1
     IN  t' = ScheduleNativeReconnect(t2)
  /\ recovery' = IF WsOpen(t) THEN recovery ELSE Enqueued(pending)
  /\ pending' = <<>>
  /\ UNCHANGED <<arrived, messageQueue, running, faults>>

NativeReconnect ==
  /\ t.retry /\ NoDisconnectDue
  /\ LET t1 == [t EXCEPT !.retry = FALSE]
     IN  CanConnect(t1) /\ t' = ConnectToHost(t1)
  /\ UNCHANGED OthersThanT

\* The one-minute alarm: reconnecting what is down, and, unless the host was heard of
\* lately, asking whether it is still there.
Alarm ==
  /\ LET t1 == ConnectToHost(t)
         t2 == IF t1.channel = None THEN ConnectWsChannel(t1) ELSE t1
     IN  /\ CanConnect(t)
         /\ t1.channel = None => CanDial(t1)
         /\ \/ t' = t2
            \/ /\ t2.active = "native" /\ t2.port # None
               /\ t' = IF PostThrows(t2) THEN ClearNativeStateFor(t2, t2.port)
                       ELSE [t2 EXCEPT !.waiting = t2.port]
  /\ UNCHANGED OthersThanT

-----------------------------------------------------------------------------
(* The WebSocket *)

\* onopen, up to the wait for the context's name.
WsOnOpenKeepsReadyFaulty(w) ==
  /\ t.sock[w] = "connecting" /\ t.channel = w
  /\ t' = [t EXCEPT !.sock[w] = "open", !.redial = FALSE, !.since = 0, !.acks = FALSE,
                    !.ticking = TRUE, !.naming = @ \cup {w}]
  /\ UNCHANGED OthersThanT
WsOnOpen(w) ==
  /\ t.sock[w] = "connecting"
  /\ t' = IF t.channel # w THEN [t EXCEPT !.sock[w] = "closing"]
          ELSE [MarkWsUnregistered(t) EXCEPT
                  !.sock[w] = "open", !.redial = FALSE, !.since = 0, !.acks = FALSE,
                  !.ticking = TRUE, !.naming = @ \cup {w}]
  /\ UNCHANGED OthersThanT

\* The name is there, or storage rejects and onopen ends.
WsNamed(w) ==
  /\ w \in t.naming
  /\ LET t1 == [t EXCEPT !.naming = @ \ {w}]
     IN  \/ t' = t1
         \/ t.channel # w /\ t' = [t1 EXCEPT !.sock[w] = IF @ = "open" THEN "closing" ELSE @]
         \/ t.channel = w /\ t.sock[w] = "open" /\ t' = SendWsRegistration(t1)
  /\ UNCHANGED OthersThanT

\* The context's name changes in storage.
ContextRenamed ==
  /\ Fault
  /\ ChannelIs(t, {"open"})
  /\ t' = SendWsRegistration(t)
  /\ UNCHANGED <<arrived, messageQueue, pending, running, recovery>>

\* The daemon's answer to a registration. What waited for a channel goes out.
RegisteredDrainsOnceFaulty ==
  /\ t.asked /\ Hears
  /\ LET t1 == [t EXCEPT !.asked = FALSE, !.known = TRUE, !.since = 0, !.ready = TRUE]
     IN  IF t.active = "native"
         THEN /\ t' = t1
              /\ UNCHANGED <<messageQueue, pending, running, recovery>>
         ELSE /\ t' = [t1 EXCEPT !.active = "websocket", !.connecting = FALSE]
              /\ StartAll(messageQueue)
              /\ messageQueue' = <<>> /\ recovery' = <<>>
  /\ UNCHANGED <<arrived, faults>>
Registered ==
  /\ t.asked /\ Hears
  /\ LET t1 == [t EXCEPT !.asked = FALSE, !.known = TRUE, !.since = 0, !.ready = TRUE]
     IN  IF t.active = "native"
         THEN /\ t' = t1
              /\ UNCHANGED <<messageQueue, pending, running>>
         ELSE /\ t' = [t1 EXCEPT !.active = "websocket", !.connecting = FALSE]
              /\ StartAll(messageQueue)
              /\ messageQueue' = <<>>
  /\ recovery' = <<>>
  /\ UNCHANGED <<arrived, faults>>

\* context_conflict: another socket has the name. The daemon goes on with the name it
\* may know this socket by, the extension does not.
Conflict ==
  /\ t.asked /\ Hears
  /\ t' = MarkWsUnregistered([t EXCEPT !.asked = FALSE, !.since = 0])
  /\ UNCHANGED OthersThanT

\* A keepalive_ack; a daemon that does not know it never sends one.
KeepaliveAck ==
  /\ Hears /\ t.since > 0
  /\ t' = [t EXCEPT !.since = 0, !.acks = TRUE]
  /\ UNCHANGED OthersThanT

\* The keepalive timer: closing a socket whose daemon acks and has not lately, or
\* one keepalive more.
KeepaliveTickOffByOneFaulty ==
  /\ t.ticking
  /\ t' = IF ~ChannelIs(t, {"open"}) THEN [t EXCEPT !.ticking = FALSE]
          ELSE IF t.acks /\ t.since > WS_KEEPALIVE_MISS_LIMIT
          THEN ForgetChannel([t EXCEPT !.sock[t.channel] = "closing"])
          ELSE [t EXCEPT !.since = IF @ < WS_KEEPALIVE_MISS_LIMIT THEN @ + 1 ELSE @]
  /\ UNCHANGED OthersThanT
KeepaliveTick ==
  /\ t.ticking
  /\ t' = IF ~ChannelIs(t, {"open"}) THEN [t EXCEPT !.ticking = FALSE]
          ELSE IF t.acks /\ t.since >= WS_KEEPALIVE_MISS_LIMIT
          THEN ForgetChannel([t EXCEPT !.sock[t.channel] = "closing"])
          ELSE [t EXCEPT !.since = IF @ < WS_KEEPALIVE_MISS_LIMIT THEN @ + 1 ELSE @]
  /\ UNCHANGED OthersThanT

WsReconnect ==
  /\ t.redial
  /\ LET t1 == [t EXCEPT !.redial = FALSE]
     IN  CanDial(t1) /\ t' = ConnectWsChannel(t1)
  /\ UNCHANGED OthersThanT

\* The other side closes, or the connection breaks.
PeerCloses(w) ==
  /\ Fault
  /\ t.sock[w] = "open"
  /\ t' = [t EXCEPT !.sock[w] = "closing"]
  /\ UNCHANGED <<arrived, messageQueue, pending, running, recovery>>

\* Inbound frames stop arriving although the socket stays open.
Wedge ==
  /\ Fault
  /\ Hears
  /\ t' = [t EXCEPT !.wedged = TRUE]
  /\ UNCHANGED <<arrived, messageQueue, pending, running, recovery>>

\* onclose, or onerror of a socket that never opened; only the current channel's counts.
WsOnClose(w) ==
  /\ t.sock[w] \in {"connecting", "closing"}
  /\ LET t1 == [t EXCEPT !.sock[w] = "free"]
     IN  t' = IF t.channel = w THEN ForgetChannel(t1) ELSE t1
  /\ UNCHANGED OthersThanT

-----------------------------------------------------------------------------
\* The service worker has just started: it connects on both channels.
NoTransport ==
  [port |-> None, shaking |-> None, connecting |-> FALSE, active |-> "none", retry |-> FALSE,
   timers |-> {}, waiting |-> None, link |-> [p \in Ports |-> "closed"],
   channel |-> None, ready |-> FALSE, redial |-> FALSE, ticking |-> FALSE, since |-> 0,
   acks |-> FALSE, sock |-> [w \in Sockets |-> "free"], naming |-> {}, asked |-> FALSE,
   known |-> FALSE, wedged |-> FALSE]
Started == ConnectWsChannel(ConnectToHost(NoTransport))

Init ==
  /\ t = Started
  /\ arrived = {}
  /\ messageQueue = <<>> /\ pending = <<>> /\ recovery = <<>>
  /\ running = {} /\ faults = 0

\* The browser stops the service worker, and starts it again: its memory is gone.
Restart ==
  /\ Fault
  /\ t' = Started
  /\ messageQueue' = <<>> /\ pending' = <<>> /\ recovery' = <<>> /\ running' = {}
  /\ UNCHANGED arrived

Native(p) == Pong(p) \/ HandshakeTimeout(p) \/ OnDisconnect(p)
Socket(w) == WsOnOpen(w) \/ WsNamed(w) \/ WsOnClose(w)
Timers    == NativeReconnect \/ PongTimeout \/ WsReconnect \/ KeepaliveTick
Request(m) == ReceiveNative(m) \/ ReceiveWs(m) \/ Finish(m) \/ ExtTimeout(m)

Next ==
  \/ \E p \in Ports : Native(p) \/ HostGone(p)
  \/ \E w \in Sockets : Socket(w) \/ PeerCloses(w)
  \/ \E m \in Messages : Request(m)
  \/ Registered \/ Conflict \/ KeepaliveAck \/ Wedge
  \/ Timers \/ Alarm \/ ContextRenamed \/ Restart

\* Of the WebSocket's side: its timers fire, the browser delivers its events, and a
\* connection attempt ends one way or the other.
Fairness ==
  /\ \A w \in Sockets : WF_vars(WsNamed(w)) /\ WF_vars(WsOnOpen(w) \/ WsOnClose(w))
  /\ WF_vars(WsReconnect) /\ WF_vars(KeepaliveTick)

Spec      == Init /\ [][Next]_vars
FairSpec  == Spec /\ Fairness

\* With the native side's timers and events too, the alarm (which hosts without
\* chrome.alarms lack), a host that answers, and actions that end.
AlarmSpec ==
  /\ FairSpec
  /\ WF_vars(Alarm)
  /\ \A p \in Ports : WF_vars(HandshakeTimeout(p)) /\ WF_vars(OnDisconnect(p)) /\ WF_vars(Pong(p))
  /\ WF_vars(NativeReconnect) /\ WF_vars(PongTimeout)
  /\ \A m \in Messages : WF_vars(Finish(m))

-----------------------------------------------------------------------------
(* Properties *)

\* Replies go out only over a socket whose registration the daemon has answered: a
\* readiness learnt from an earlier socket is never taken for that of its successor,
\* which may open at any moment.
RegisteredChannel == WsOpen(t) => t.known

\* What was queued for recovery does not wait beside an open channel.
RecoveryDrained == WsOpen(t) => recovery = <<>>

\* The active transport is one that works: the native port after its handshake, or a
\* channel whose registration stands.
ActiveIsUsable ==
  /\ t.active = "native" => t.port # None /\ t.shaking = None
  /\ t.active = "websocket" => t.channel # None /\ t.ready

\* What the worker believes of its channels is true of the sockets and ports as they
\* are, whatever opened, timed out and closed in between.
ChannelsSound == RegisteredChannel /\ RecoveryDrained /\ ActiveIsUsable

\* A channel that is down, or wedged below a daemon that acks, is dialled anew.
Down == t.channel = None \/ (t.wedged /\ t.acks)
ChannelRecovers == Down ~> ~Down

\* "message queue full -- daemon not connected" (message-dispatch.ts:112): the queue
\* is for the time without a daemon, so beside a registered channel nothing stays in it.
ParkedOnlyUnconnected == WsOpen(t) /\ messageQueue # <<>> ~> ~WsOpen(t) \/ messageQueue = <<>>
=============================================================================
