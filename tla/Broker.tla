------------------------------- MODULE Broker -------------------------------
(***************************************************************************)
(* The request broker of the daemon (daemon/index.ts): one single-threaded *)
(* process that takes requests from CLI sockets, WebSocket clients and its *)
(* own helpers, hands each one to a browser over a registered WebSocket,   *)
(* the native relay slot or stdout, and answers it when a response, the    *)
(* request's timer or the shutdown comes first.                            *)
(*                                                                         *)
(* Every handler runs to completion on the event loop, so one handler is   *)
(* one action; the points at which a handler awaits split it in two.       *)
(* Abstracted: framing, logging, the text of results, the surfaces that    *)
(* answer through a promise of their own (CDP, iOS, secrets, direct OS     *)
(* input), which are one "direct" path here.                               *)
(***************************************************************************)
EXTENDS Naturals, Sequences

CONSTANTS
  Ws,               \* WebSocket connections
  AgentWs,          \* the ones that in-process runtime agents open
  Relays,           \* IPC sockets that register as native relay
  Contexts,         \* context ids a socket may claim
  RuntimeContexts,  \* the ids with the runtime: prefix
  Requests,         \* request ids
  OsRequests,       \* requests whose action is an os_* input
  WsRequests,       \* requests that arrive over a WebSocket
  InternalCalls,    \* requests the daemon makes for itself (extensionCall)
  NoCtx, NoWs, NoRelay,
  Standalone,       \* started with --standalone: no native messaging stdio
  SendOutcomes,     \* what ws.send may do: a subset of WsSendOutcomes
  ReplyCopies,      \* responses a browser may send for one delivered request
  WS_QUEUE_CAP

WsSendOutcomes == {"sent", "dropped", "throws"}

ASSUME BrokerAssumption ==
  /\ AgentWs \subseteq Ws
  /\ RuntimeContexts \subseteq Contexts
  /\ OsRequests \subseteq Requests
  /\ WsRequests \subseteq Requests
  /\ InternalCalls \subseteq Requests
  /\ NoCtx \notin Contexts
  /\ NoWs \notin Ws
  /\ NoRelay \notin Relays
  /\ Ws \cap (Relays \cup {"stdout"}) = {}
  /\ Standalone \in BOOLEAN
  /\ SendOutcomes \subseteq WsSendOutcomes
  /\ ReplyCopies \in Nat
  /\ WS_QUEUE_CAP \in Nat \ {0}

CliRequests == Requests \ (WsRequests \cup InternalCalls)
QueueKeys   == Contexts \cup {NoCtx}       \* NoCtx stands for the key "default"
Dest        == Ws \cup Relays \cup {"stdout"}
Phases      == {"new", "gated", "direct", "dispatched", "refused", "replied"}
Outcomes    == {"result", "error", "timeout", "shutdown"}

VARIABLES
  up,          \* the process has not run gracefulShutdown
  wsOpen,      \* open WebSockets
  wsCtx,       \* ws.__contextId
  ctxMap,      \* extensionWsMap
  agentMeta,   \* keys of nativeAgentMeta
  relayOpen,   \* IPC sockets tagged __nativeRelay
  relaySlot,   \* nativeRelaySocket
  stdinAlive,
  queues,      \* wsOutboundQueues
  phase,       \* how far a request got through its entry handler
  target,      \* the contextId it carries
  pending,     \* keys of pendingRequests
  timer,       \* requests whose timeout timer is armed
  timedOut,    \* timedOutRequests
  osRunning,   \* handleOsAction promises outstanding for a request
  answers,     \* what was written back to the requester, in order
  sent,        \* where the request was handed over, in order
  inFlight     \* responses the browsers may still send

sockets  == <<wsOpen, wsCtx, ctxMap, agentMeta>>
links    == <<relayOpen, relaySlot, stdinAlive>>
table    == <<pending, timer, timedOut, osRunning, answers>>
outbound == <<queues, sent, inFlight>>
vars == <<up, sockets, links, phase, target, table, outbound>>

TypeOK ==
  /\ up \in BOOLEAN
  /\ wsOpen \subseteq Ws
  /\ wsCtx \in [Ws -> Contexts \cup {NoCtx}]
  /\ ctxMap \in [Contexts -> Ws \cup {NoWs}]
  /\ agentMeta \subseteq RuntimeContexts
  /\ relayOpen \subseteq Relays
  /\ relaySlot \in Relays \cup {NoRelay}
  /\ stdinAlive \in BOOLEAN
  /\ queues \in [QueueKeys -> Seq(Requests)]
  /\ phase \in [Requests -> Phases]
  /\ target \in [Requests -> Contexts \cup {NoCtx}]
  /\ pending \subseteq Requests
  /\ timer \subseteq Requests
  /\ timedOut \subseteq Requests
  /\ osRunning \in [Requests -> Nat]
  /\ answers \in [Requests -> Seq(Outcomes)]
  /\ sent \in [Requests -> Seq(Dest)]
  /\ inFlight \in [Requests -> Nat]

Init ==
  /\ up = TRUE
  /\ wsOpen = {}
  /\ wsCtx = [w \in Ws |-> NoCtx]
  /\ ctxMap = [c \in Contexts |-> NoWs]
  /\ agentMeta = {}
  /\ relayOpen = {}
  /\ relaySlot = NoRelay
  /\ stdinAlive = ~Standalone
  /\ queues = [k \in QueueKeys |-> <<>>]
  /\ phase = [r \in Requests |-> "new"]
  /\ target = [r \in Requests |-> NoCtx]
  /\ pending = {}
  /\ timer = {}
  /\ timedOut = {}
  /\ osRunning = [r \in Requests |-> 0]
  /\ answers = [r \in Requests |-> <<>>]
  /\ sent = [r \in Requests |-> <<>>]
  /\ inFlight = [r \in Requests |-> 0]

-----------------------------------------------------------------------------
(* Contexts and routing *)

Connected == {c \in Contexts : ctxMap[c] # NoWs}
Sole(x) == Connected = {x}

RoutingOkUnnamed(c) == Connected # {} \/ relaySlot # NoRelay

\* validateContextRouting, without the CDP and iOS contexts, whose requests are
\* routed before it is called.
RoutingOk(c) ==
  IF c # NoCtx THEN c \in Connected
  ELSE \/ \E x \in Contexts : Sole(x)
       \/ Connected = {} /\ relaySlot # NoRelay

\* resolveExtensionWs: the named context's socket, or the only one there is.
ResolveWs(c) ==
  IF c # NoCtx THEN ctxMap[c]
  ELSE IF \E x \in Contexts : Sole(x)
       THEN ctxMap[CHOOSE x \in Contexts : Sole(x)]
       ELSE NoWs

\* The map after a claim: a socket that moves gives its earlier id up.
MapAfterClaimFaulty(w, c) == [ctxMap EXCEPT ![c] = w]
MapAfterClaim(w, c) ==
  [x \in Contexts |-> IF x = c THEN w
                      ELSE IF x = wsCtx[w] /\ ctxMap[x] = w THEN NoWs
                      ELSE ctxMap[x]]

\* claimContextId for a socket that is not refused.
ClaimContext(w, c) ==
  /\ ctxMap[c] \in {NoWs, w}
  /\ ctxMap' = MapAfterClaim(w, c)
  /\ wsCtx' = [wsCtx EXCEPT ![w] = c]

DrainedKeysFaulty(c) == {k \in QueueKeys : queues[k] # <<>>} \cup {c}
DrainedKeys(c) == {c, NoCtx}

\* drainWsOutboundQueue(c): the context's own queue, then "default"; a message
\* whose send fails is gone.
DrainQueues(w, c) ==
  LET drained == UNION {{queues[k][i] : i \in DOMAIN queues[k]} : k \in DrainedKeys(c)}
  IN \E ok \in SUBSET drained :
       /\ "sent" \notin SendOutcomes => ok = {}
       /\ SendOutcomes = {"sent"} => ok = drained
       /\ queues' = [k \in QueueKeys |-> IF k \in DrainedKeys(c) THEN <<>> ELSE queues[k]]
       /\ sent' = [r \in Requests |-> IF r \in ok THEN Append(sent[r], w) ELSE sent[r]]
       /\ inFlight' = [r \in Requests |->
                         IF r \in ok THEN inFlight[r] + ReplyCopies ELSE inFlight[r]]

WsConnect(w) ==
  /\ up /\ w \notin wsOpen
  /\ wsOpen' = wsOpen \cup {w}
  /\ wsCtx' = [wsCtx EXCEPT ![w] = NoCtx]
  /\ UNCHANGED <<up, ctxMap, agentMeta, links, phase, target, table, outbound>>

\* The websocket handler's "extension" registration, under any id, also one that an
\* agent's could be; the refused claim (context_conflict) changes nothing. That an
\* agent's socket sends no such registration is the agents' doing, not the handler's.
RegisterExtension(w, c) ==
  /\ up /\ w \in wsOpen \ AgentWs /\ c \in Contexts
  /\ ClaimContext(w, c)
  /\ DrainQueues(w, c)
  /\ UNCHANGED <<up, wsOpen, agentMeta, links, phase, target, table>>

\* An agent's id always carries the runtime: prefix.
AgentIds == RuntimeContexts

\* The registration of an in-process agent (NATIVE_REGISTER_TYPE).
RegisterAgent(w, c) ==
  /\ up /\ w \in wsOpen \cap AgentWs /\ c \in AgentIds
  /\ ClaimContext(w, c)
  /\ agentMeta' = (IF wsCtx[w] # c THEN agentMeta \ {wsCtx[w]} ELSE agentMeta) \cup {c}
  /\ DrainQueues(w, c)
  /\ UNCHANGED <<up, wsOpen, links, phase, target, table>>

MetaAfterCloseFaulty(w) == agentMeta
MetaAfterClose(w) == agentMeta \ {wsCtx[w]}

WsClose(w) ==
  /\ up /\ w \in wsOpen
  /\ wsOpen' = wsOpen \ {w}
  /\ ctxMap' = [c \in Contexts |->
                  IF c = wsCtx[w] /\ ctxMap[c] = w THEN NoWs ELSE ctxMap[c]]
  /\ agentMeta' = MetaAfterClose(w)
  /\ wsCtx' = [wsCtx EXCEPT ![w] = NoCtx]
  /\ UNCHANGED <<up, links, phase, target, table, outbound>>

\* {type:"native-relay"}: the newest relay takes the slot, whoever held it.
RegisterRelay(s) ==
  /\ up
  /\ relayOpen' = relayOpen \cup {s}
  /\ relaySlot' = s
  /\ UNCHANGED <<up, sockets, stdinAlive, phase, target, table, outbound>>

SlotAfterCloseKept(s)  == relaySlot
\* relaySlotAfterClose: only the holder's close frees the slot.
SlotAfterClose(s) == IF relaySlot = s THEN NoRelay ELSE relaySlot

RelayClose(s) ==
  /\ up /\ s \in relayOpen
  /\ relayOpen' = relayOpen \ {s}
  /\ relaySlot' = SlotAfterClose(s)
  /\ UNCHANGED <<up, sockets, stdinAlive, phase, target, table, outbound>>

StdinEnd ==
  /\ up /\ stdinAlive
  /\ stdinAlive' = FALSE
  /\ UNCHANGED <<up, sockets, relayOpen, relaySlot, phase, target, table, outbound>>

-----------------------------------------------------------------------------
(* Requests *)

HandOverBlindFaulty(r, d) ==
  /\ sent' = [sent EXCEPT ![r] = Append(@, relaySlot)]
  /\ inFlight' = [inFlight EXCEPT ![r] = @ + ReplyCopies]
  /\ UNCHANGED queues
HandOver(r, d) ==
  /\ sent' = [sent EXCEPT ![r] = Append(@, d)]
  /\ inFlight' = [inFlight EXCEPT ![r] = @ + ReplyCopies]
  /\ UNCHANGED queues

\* A write that socketWriteFramed or ws.send reports by value only.
Lost == UNCHANGED outbound

FullFaulty(q) == Len(q) > WS_QUEUE_CAP
Full(q) == Len(q) >= WS_QUEUE_CAP

Enqueue(r) ==
  LET k == target'[r]
      q == queues[k]
  IN /\ queues' = [queues EXCEPT ![k] =
                     Append(IF Full(q) THEN Tail(q) ELSE q, r)]
     /\ UNCHANGED <<sent, inFlight>>

AwaitFaulty(r) ==
  /\ pending' = pending \cup {r}
  /\ UNCHANGED <<timer, timedOut, osRunning, answers>>
\* Registering the pending entry and its timer.
Await(r) ==
  /\ pending' = pending \cup {r}
  /\ timer' = timer \cup {r}
  /\ UNCHANGED <<timedOut, osRunning, answers>>

FailOversizedFaulty(r) == UNCHANGED <<table, outbound>>
\* An oversized frame on the relay or stdout is answered on the spot, through
\* handleNativeMessage: the entry made a moment ago is gone again.
FailOversized(r) ==
  /\ answers' = [answers EXCEPT ![r] = Append(@, "error")]
  /\ UNCHANGED <<pending, timer, timedOut, osRunning, outbound>>

\* sendNativeMessage for a request: WebSocket, relay, stdout, queue. A throwing
\* ws.send is tried once more and then falls through to the next transport.
SendNative(r, c) ==
  LET w == ResolveWs(c) IN
  \/ /\ w # NoWs
     /\ \/ "sent" \in SendOutcomes /\ HandOver(r, w)
        \/ "dropped" \in SendOutcomes /\ Lost
     /\ Await(r)
  \/ /\ w = NoWs \/ "throws" \in SendOutcomes
     /\ \/ /\ relaySlot # NoRelay
           /\ \/ HandOver(r, relaySlot) /\ Await(r)
              \/ Lost /\ Await(r)
              \/ FailOversized(r)
        \/ /\ relaySlot = NoRelay /\ stdinAlive
           /\ \/ HandOver(r, "stdout") /\ Await(r)
              \/ FailOversized(r)
        \/ /\ relaySlot = NoRelay /\ ~stdinAlive
           /\ Enqueue(r) /\ Await(r)

\* dispatchToExtension, and the same tail of the WebSocket and extensionCall
\* entries.
Dispatch(r, c) ==
  /\ target' = [target EXCEPT ![r] = c]
  /\ \/ /\ RoutingOk(c)
        /\ phase' = [phase EXCEPT ![r] = "dispatched"]
        /\ SendNative(r, c)
     \/ /\ ~RoutingOk(c)
        /\ phase' = [phase EXCEPT ![r] = "refused"]
        /\ answers' = [answers EXCEPT ![r] = Append(@, "error")]
        /\ UNCHANGED <<pending, timer, timedOut, osRunning, outbound>>

Accept(r, c) ==
  /\ up /\ phase[r] = "new"
  /\ Dispatch(r, c)
  /\ UNCHANGED <<up, sockets, links>>

\* A secret-bearing request waits for its vault, target probe and gate before it
\* is dispatched; routing is decided after the wait.
AcceptGated(r, c) ==
  /\ up /\ phase[r] = "new" /\ r \in CliRequests
  /\ phase' = [phase EXCEPT ![r] = "gated"]
  /\ target' = [target EXCEPT ![r] = c]
  /\ UNCHANGED <<up, sockets, links, table, outbound>>

GateGranted(r) ==
  /\ up /\ phase[r] = "gated"
  /\ Dispatch(r, target[r])
  /\ UNCHANGED <<up, sockets, links>>

GateDenied(r) ==
  /\ up /\ phase[r] = "gated"
  /\ phase' = [phase EXCEPT ![r] = "replied"]
  /\ answers' = [answers EXCEPT ![r] = Append(@, "error")]
  /\ UNCHANGED <<up, sockets, links, target, pending, timer, timedOut, osRunning, outbound>>

\* Requests a manager of the daemon answers through its own promise.
AcceptDirect(r) ==
  /\ up /\ phase[r] = "new" /\ r \notin InternalCalls
  /\ phase' = [phase EXCEPT ![r] = "direct"]
  /\ UNCHANGED <<up, sockets, links, target, table, outbound>>

DirectDone(r) ==
  /\ up /\ phase[r] = "direct"
  /\ phase' = [phase EXCEPT ![r] = "replied"]
  /\ \E o \in {"result", "error"} : answers' = [answers EXCEPT ![r] = Append(@, o)]
  /\ UNCHANGED <<up, sockets, links, target, pending, timer, timedOut, osRunning, outbound>>

-----------------------------------------------------------------------------
(* Responses, timers, shutdown *)

DisarmedFaulty(r) == timer
Disarmed(r)       == timer \ {r}
SettledFaulty(r)  == pending
Settled(r)        == pending \ {r}

\* handleNativeMessage for a plain response: the entry is resolved and removed; a
\* response nobody waits for is dropped, and forgotten as a late one.
ReplyArrives(r) ==
  /\ up /\ inFlight[r] > 0
  /\ inFlight' = [inFlight EXCEPT ![r] = @ - 1]
  /\ IF r \in pending
     THEN /\ pending' = Settled(r)
          /\ timer' = Disarmed(r)
          /\ answers' = [answers EXCEPT ![r] = Append(@, "result")]
          /\ UNCHANGED timedOut
     ELSE /\ timedOut' = timedOut \ {r}
          /\ UNCHANGED <<pending, timer, answers>>
  /\ UNCHANGED <<up, sockets, links, phase, target, osRunning, queues, sent>>

\* The response asks for an OS input event: the timer stops, the entry stays
\* until handleOsAction is done.
OsReplyArrives(r) ==
  /\ up /\ inFlight[r] > 0 /\ r \in OsRequests \cap pending
  /\ inFlight' = [inFlight EXCEPT ![r] = @ - 1]
  /\ timer' = timer \ {r}
  /\ osRunning' = [osRunning EXCEPT ![r] = @ + 1]
  /\ UNCHANGED <<up, sockets, links, phase, target, pending, timedOut, answers, queues, sent>>

AfterOsFaulty(r) == pending
AfterOs(r)       == pending \ {r}

\* The continuation holds the entry itself and answers without looking it up.
OsActionDone(r) ==
  /\ up /\ osRunning[r] > 0
  /\ osRunning' = [osRunning EXCEPT ![r] = @ - 1]
  /\ pending' = AfterOs(r)
  /\ timer' = timer \ {r}
  /\ answers' = [answers EXCEPT ![r] = Append(@, "result")]
  /\ UNCHANGED <<up, sockets, links, phase, target, timedOut, outbound>>

Expired(r)       == pending \ {r}

Timeout(r) ==
  /\ up /\ r \in timer
  /\ timer' = timer \ {r}
  /\ pending' = Expired(r)
  /\ timedOut' = IF r \in InternalCalls THEN timedOut ELSE timedOut \cup {r}
  /\ answers' = [answers EXCEPT ![r] = Append(@, "timeout")]
  /\ UNCHANGED <<up, sockets, links, phase, target, osRunning, outbound>>

\* The 60 s after which a timed-out id is forgotten.
ForgetTimedOut(r) ==
  /\ up /\ r \in timedOut
  /\ timedOut' = timedOut \ {r}
  /\ UNCHANGED <<up, sockets, links, phase, target, pending, timer, osRunning, answers, outbound>>

\* gracefulShutdown: the pending entries of CLI sockets are answered (the others
\* hold a dummy socket), every server stops and the process exits.
Shutdown ==
  /\ up
  /\ up' = FALSE
  /\ answers' = [r \in Requests |-> IF r \in pending \cap CliRequests
                                    THEN Append(answers[r], "shutdown") ELSE answers[r]]
  /\ pending' = {}
  /\ timer' = {}
  /\ UNCHANGED <<sockets, links, phase, target, timedOut, osRunning, outbound>>

-----------------------------------------------------------------------------
Next ==
  \/ \E w \in Ws : WsConnect(w) \/ WsClose(w)
  \/ \E w \in Ws, c \in Contexts : RegisterExtension(w, c) \/ RegisterAgent(w, c)
  \/ \E s \in Relays : RegisterRelay(s) \/ RelayClose(s)
  \/ StdinEnd
  \/ \E r \in Requests, c \in Contexts \cup {NoCtx} : Accept(r, c) \/ AcceptGated(r, c)
  \/ \E r \in Requests :
       \/ GateGranted(r) \/ GateDenied(r)
       \/ AcceptDirect(r) \/ DirectDone(r)
       \/ ReplyArrives(r) \/ OsReplyArrives(r) \/ OsActionDone(r)
       \/ Timeout(r) \/ ForgetTimedOut(r)
  \/ Shutdown

\* The timers of the event loop fire, the input events finish (os-input.ts has
\* only bounded sleeps), the gate and the managers have deadlines of their own.
\* Nothing is assumed of browsers, relays or clients.
Fairness ==
  \A r \in Requests :
    /\ WF_vars(Timeout(r))
    /\ WF_vars(OsActionDone(r))
    /\ WF_vars(GateGranted(r) \/ GateDenied(r))
    /\ WF_vars(DirectDone(r))

Spec     == Init /\ [][Next]_vars
FairSpec == Spec /\ Fairness

-----------------------------------------------------------------------------
(* Properties *)

\* extensionWsMap and ws.__contextId agree: a mapped id belongs to an open socket
\* that carries it, and an open socket that carries an id is the one mapped.
\* claimContextId and the close handler each update only one side under a guard.
ContextMapSound ==
  /\ \A c \in Connected : ctxMap[c] \in wsOpen /\ wsCtx[ctxMap[c]] = c
  /\ \A w \in wsOpen : wsCtx[w] # NoCtx => ctxMap[wsCtx[w]] = w

\* "macos runtime status" lists exactly the connected agents, although the close
\* handler drops the metadata without checking whose it is.
AgentMetaSound == agentMeta = {wsCtx[w] : w \in wsOpen \cap AgentWs} \ {NoCtx}

\* The slot never names a relay that is gone (relaySlotAfterClose, supersession).
RelaySlotOpen == relaySlot # NoRelay => relaySlot \in relayOpen

\* Where a message goes is looked up in tables that agree, whatever claims, moves,
\* supersessions and closes came before, in whatever order.
RoutingSound == ContextMapSound /\ RelaySlotOpen

\* A dispatched request is answered, or still waited for, or (after the shutdown)
\* one whose requester has no socket the daemon could answer on.
DispatchedNeverLost ==
  \A r \in Requests : phase[r] = "dispatched" =>
    \/ answers[r] # <<>>
    \/ up /\ r \in pending
    \/ ~up /\ r \notin CliRequests

\* Whatever happens to the message, a pending entry has a timer or a running
\* input event that will end it, and no timer outlives its entry.
PendingHasDeadline ==
  /\ timer \subseteq pending
  /\ \A r \in pending : r \in timer \/ osRunning[r] > 0

\* Between its dispatch and its answer a request is never forgotten: something holds it,
\* and something will end it.
InFlightSound == DispatchedNeverLost /\ PendingHasDeadline

\* Even when a browser answers twice, a request without an OS event is answered
\* once: timeout, first and second response, queue and shutdown exclude each other.
PlainAnsweredOnce == \A r \in Requests \ OsRequests : Len(answers[r]) <= 1

\* What is queued under a key carries that key, once, within the cap, and is not
\* handed over yet.
QueueSound ==
  \A k \in QueueKeys :
    /\ Len(queues[k]) <= WS_QUEUE_CAP
    /\ \A i \in DOMAIN queues[k] :
         /\ target[queues[k][i]] = k /\ sent[queues[k][i]] = <<>>
         /\ \A j \in DOMAIN queues[k] : queues[k][j] = queues[k][i] => j = i

\* A request that names a context reaches that context's browser or nobody.
NamedContextHonoured ==
  [][\A r \in Requests : sent'[r] # sent[r] /\ target'[r] # NoCtx =>
       sent'[r][Len(sent'[r])] = ctxMap'[target'[r]]]_vars

\* A request that names a context never reaches another context's WebSocket,
\* whether sent at once or from a queue a registration drains.
NamedContextNotCrossed ==
  [][\A r \in Requests :
       /\ sent'[r] # sent[r] /\ target'[r] # NoCtx
       /\ sent'[r][Len(sent'[r])] \in Ws
       => sent'[r][Len(sent'[r])] = ctxMap'[target'[r]]]_vars

\* The broker implements the service the daemon promises its requesters: timeout,
\* late response, oversized frame, input event and shutdown exclude each other.
Service == INSTANCE RequestService WITH entered <- {r \in Requests : phase[r] # "new"}
ImplementsService == Service!Spec

\* Every request that entered the daemon is answered, unless the daemon exits.
EventuallyAnswered ==
  \A r \in Requests : phase[r] # "new" ~> (answers[r] # <<>> \/ ~up)
=============================================================================
