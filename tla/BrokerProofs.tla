---------------------------- MODULE BrokerProofs ----------------------------
(***************************************************************************)
(* Theorems about the request broker, for any sets of sockets, relays,     *)
(* contexts and requests, any send behaviour and any number of responses a *)
(* browser may send.                                                       *)
(***************************************************************************)
EXTENDS Broker, TLAPS

-----------------------------------------------------------------------------
(* What the helpers return *)

\* Resolving a context yields a socket or none.
LEMMA ResolveType ==
  ASSUME TypeOK, NEW c \in Contexts \cup {NoCtx}
  PROVE  ResolveWs(c) \in Ws \cup {NoWs}
BY DEF TypeOK, ResolveWs

\* A claim keeps the context variables typed.
LEMMA ClaimType ==
  ASSUME TypeOK, NEW w \in Ws, NEW c \in Contexts, ClaimContext(w, c)
  PROVE  /\ ctxMap' \in [Contexts -> Ws \cup {NoWs}]
         /\ wsCtx' \in [Ws -> Contexts \cup {NoCtx}]
BY DEF TypeOK, ClaimContext, MapAfterClaim

\* Draining hands requests to one socket and keeps the outbound side typed.
LEMMA DrainType ==
  ASSUME TypeOK, NEW w \in Ws, NEW c \in Contexts, DrainQueues(w, c)
  PROVE  /\ queues' \in [QueueKeys -> Seq(Requests)]
         /\ sent' \in [Requests -> Seq(Dest)]
         /\ inFlight' \in [Requests -> Nat]
<1>1. queues' \in [QueueKeys -> Seq(Requests)]
  BY DEF TypeOK, DrainQueues, QueueKeys
<1>2. PICK ok \in SUBSET (UNION {{queues[k][i] : i \in DOMAIN queues[k]} : k \in DrainedKeys(c)}) :
        /\ sent' = [r \in Requests |-> IF r \in ok THEN Append(sent[r], w) ELSE sent[r]]
        /\ inFlight' = [r \in Requests |->
                          IF r \in ok THEN inFlight[r] + ReplyCopies ELSE inFlight[r]]
  BY DEF DrainQueues
<1>3. w \in Dest
  BY DEF Dest
<1>4. sent' \in [Requests -> Seq(Dest)]
  <2> SUFFICES ASSUME NEW r \in Requests
               PROVE  sent'[r] \in Seq(Dest)
    BY <1>2
  <2>1. sent[r] \in Seq(Dest)
    BY DEF TypeOK
  <2>2. Append(sent[r], w) \in Seq(Dest)
    BY <2>1, <1>3
  <2> QED  BY <1>2, <2>1, <2>2
<1>5. inFlight' \in [Requests -> Nat]
  BY <1>2, BrokerAssumption DEF TypeOK
<1> QED  BY <1>1, <1>4, <1>5

\* So does handing a request to a transport.
LEMMA HandOverType ==
  ASSUME TypeOK, NEW r \in Requests, NEW d \in Dest, HandOver(r, d)
  PROVE  /\ sent' \in [Requests -> Seq(Dest)]
         /\ inFlight' \in [Requests -> Nat]
         /\ queues' = queues
<1>1. Append(sent[r], d) \in Seq(Dest)
  BY DEF TypeOK
<1>2. inFlight[r] + ReplyCopies \in Nat
  BY BrokerAssumption DEF TypeOK
<1> QED  BY <1>1, <1>2 DEF HandOver, TypeOK

\* So does queueing one, the oldest entry evicted or not.
LEMMA EnqueueType ==
  ASSUME TypeOK, NEW r \in Requests, target' \in [Requests -> Contexts \cup {NoCtx}],
         Enqueue(r)
  PROVE  /\ queues' \in [QueueKeys -> Seq(Requests)]
         /\ sent' = sent /\ inFlight' = inFlight
<1> DEFINE k == target'[r]
           q == queues[k]
<1>1. k \in QueueKeys /\ q \in Seq(Requests)
  BY DEF QueueKeys, TypeOK
<1>2. CASE Full(q)
  <2>1. q # <<>>
    BY <1>2, <1>1, BrokerAssumption DEF Full
  <2>2. Append(Tail(q), r) \in Seq(Requests)
    BY <2>1, <1>1
  <2> QED  BY <2>2, <1>1, <1>2 DEF Enqueue, TypeOK
<1>3. CASE ~Full(q)
  <2>1. Append(q, r) \in Seq(Requests)
    BY <1>1
  <2> QED  BY <2>1, <1>1, <1>3 DEF Enqueue, TypeOK
<1> QED  BY <1>2, <1>3

\* What a dispatch may do to the request table and the outbound side.
LEMMA DispatchType ==
  ASSUME TypeOK, NEW r \in Requests, NEW c \in Contexts \cup {NoCtx}, Dispatch(r, c)
  PROVE  /\ phase' \in [Requests -> Phases]
         /\ target' \in [Requests -> Contexts \cup {NoCtx}]
         /\ pending' \subseteq Requests /\ timer' \subseteq Requests
         /\ timedOut' = timedOut /\ osRunning' = osRunning
         /\ answers' \in [Requests -> Seq(Outcomes)]
         /\ queues' \in [QueueKeys -> Seq(Requests)]
         /\ sent' \in [Requests -> Seq(Dest)]
         /\ inFlight' \in [Requests -> Nat]
<1>1. target' \in [Requests -> Contexts \cup {NoCtx}] /\ phase' \in [Requests -> Phases]
  BY DEF Dispatch, TypeOK, Phases
<1>2. Append(answers[r], "error") \in Seq(Outcomes)
  BY DEF TypeOK, Outcomes
<1>3. CASE ~RoutingOk(c)
  <2>1. /\ answers' = [answers EXCEPT ![r] = Append(answers[r], "error")]
        /\ UNCHANGED <<pending, timer, timedOut, osRunning, outbound>>
    BY <1>3 DEF Dispatch
  <2>2. answers' \in [Requests -> Seq(Outcomes)]
    BY <2>1, <1>2 DEF TypeOK
  <2>3. /\ queues' = queues /\ sent' = sent /\ inFlight' = inFlight
        /\ pending' = pending /\ timer' = timer
        /\ timedOut' = timedOut /\ osRunning' = osRunning
    BY <2>1 DEF outbound
  <2> QED  BY <1>1, <2>2, <2>3 DEF TypeOK
<1>4. CASE SendNative(r, c)
  <2>1. ResolveWs(c) # NoWs => ResolveWs(c) \in Dest
    BY ResolveType DEF Dest
  <2>2. relaySlot # NoRelay => relaySlot \in Dest
    BY DEF TypeOK, Dest
  <2>3. "stdout" \in Dest
    BY DEF Dest
  <2>4. CASE FailOversized(r)
    BY <2>4, <1>1, <1>2 DEF FailOversized, TypeOK, outbound
  <2>5. CASE Await(r) /\ Enqueue(r)
    BY <2>5, <1>1, EnqueueType DEF Await, TypeOK
  <2>6. CASE Await(r) /\ Lost
    BY <2>6, <1>1 DEF Await, Lost, TypeOK, outbound
  <2>7. CASE \E d \in Dest : Await(r) /\ HandOver(r, d)
    BY <2>7, <1>1, HandOverType DEF Await, TypeOK
  <2> QED  BY <1>4, <2>1, <2>2, <2>3, <2>4, <2>5, <2>6, <2>7 DEF SendNative
<1> QED  BY <1>3, <1>4 DEF Dispatch

\* Writing an answer keeps the answers typed.
LEMMA AnswerType ==
  ASSUME TypeOK, NEW r \in Requests, NEW o \in Outcomes,
         answers' = [answers EXCEPT ![r] = Append(@, o)]
  PROVE  answers' \in [Requests -> Seq(Outcomes)]
<1>1. Append(answers[r], o) \in Seq(Outcomes)
  BY DEF TypeOK
<1> QED  BY <1>1 DEF TypeOK

-----------------------------------------------------------------------------
(* Type correctness *)

\* Every variable of the broker keeps its type, whatever connects, fails or
\* answers.
THEOREM TypeCorrect == Spec => []TypeOK
<1>1. Init => TypeOK
  BY BrokerAssumption DEF Init, TypeOK, QueueKeys, Phases
<1>2. TypeOK /\ [Next]_vars => TypeOK'
  <2> SUFFICES ASSUME TypeOK, [Next]_vars
               PROVE  TypeOK'
    OBVIOUS
  <2> USE DEF TypeOK, sockets, links, table, outbound
  <2>1. ASSUME NEW w \in Ws, WsConnect(w) PROVE TypeOK'
    BY <2>1 DEF WsConnect
  <2>2. ASSUME NEW w \in Ws, WsClose(w) PROVE TypeOK'
    BY <2>2 DEF WsClose, MetaAfterClose
  <2>3. ASSUME NEW w \in Ws, NEW c \in Contexts, RegisterExtension(w, c) PROVE TypeOK'
    BY <2>3, ClaimType, DrainType DEF RegisterExtension
  <2>4. ASSUME NEW w \in Ws, NEW c \in Contexts, RegisterAgent(w, c) PROVE TypeOK'
    BY <2>4, ClaimType, DrainType DEF RegisterAgent, AgentIds
  <2>5. ASSUME NEW s \in Relays, RegisterRelay(s) PROVE TypeOK'
    BY <2>5 DEF RegisterRelay
  <2>6. ASSUME NEW s \in Relays, RelayClose(s) PROVE TypeOK'
    BY <2>6 DEF RelayClose, SlotAfterClose
  <2>7. CASE StdinEnd
    BY <2>7 DEF StdinEnd
  <2>8. ASSUME NEW r \in Requests, NEW c \in Contexts \cup {NoCtx}, Accept(r, c) PROVE TypeOK'
    BY <2>8, DispatchType DEF Accept
  <2>9. ASSUME NEW r \in Requests, NEW c \in Contexts \cup {NoCtx}, AcceptGated(r, c) PROVE TypeOK'
    BY <2>9 DEF AcceptGated, Phases
  <2>10. ASSUME NEW r \in Requests, GateGranted(r) PROVE TypeOK'
    BY <2>10, DispatchType DEF GateGranted
  <2>11. ASSUME NEW r \in Requests, GateDenied(r) PROVE TypeOK'
    BY <2>11, AnswerType DEF GateDenied, Phases, Outcomes
  <2>12. ASSUME NEW r \in Requests, AcceptDirect(r) PROVE TypeOK'
    BY <2>12 DEF AcceptDirect, Phases
  <2>13. ASSUME NEW r \in Requests, DirectDone(r) PROVE TypeOK'
    BY <2>13, AnswerType DEF DirectDone, Phases, Outcomes
  <2>14. ASSUME NEW r \in Requests, ReplyArrives(r) PROVE TypeOK'
    <3>1. answers' \in [Requests -> Seq(Outcomes)]
      BY <2>14, AnswerType DEF ReplyArrives, Outcomes
    <3>2. inFlight' \in [Requests -> Nat]
      BY <2>14 DEF ReplyArrives
    <3> QED  BY <3>1, <3>2, <2>14 DEF ReplyArrives, Settled, Disarmed
  <2>15. ASSUME NEW r \in Requests, OsReplyArrives(r) PROVE TypeOK'
    BY <2>15 DEF OsReplyArrives
  <2>16. ASSUME NEW r \in Requests, OsActionDone(r) PROVE TypeOK'
    BY <2>16, AnswerType DEF OsActionDone, Outcomes, AfterOs
  <2>17. ASSUME NEW r \in Requests, Timeout(r) PROVE TypeOK'
    BY <2>17, AnswerType DEF Timeout, Outcomes, Expired
  <2>18. ASSUME NEW r \in Requests, ForgetTimedOut(r) PROVE TypeOK'
    BY <2>18 DEF ForgetTimedOut
  <2>19. CASE Shutdown
    <3>1. answers' \in [Requests -> Seq(Outcomes)]
      <4>1. \A r \in Requests : Append(answers[r], "shutdown") \in Seq(Outcomes)
        BY DEF Outcomes
      <4> QED  BY <4>1, <2>19 DEF Shutdown
    <3> QED  BY <3>1, <2>19 DEF Shutdown
  <2>20. CASE UNCHANGED vars
    BY <2>20 DEF vars
  <2> QED
    BY <2>1, <2>2, <2>3, <2>4, <2>5, <2>6, <2>7, <2>8, <2>9, <2>10, <2>11, <2>12, <2>13,
       <2>14, <2>15, <2>16, <2>17, <2>18, <2>19, <2>20 DEF Next
<1> QED  BY <1>1, <1>2, PTL DEF Spec

-----------------------------------------------------------------------------
(* Contexts *)

ContextVars == <<wsOpen, wsCtx, ctxMap>>

\* The three context variables change together, in four handlers only.
LEMMA ContextSteps ==
  ASSUME Next
  PROVE  \/ \E w \in Ws : WsConnect(w) \/ WsClose(w)
         \/ \E w \in wsOpen \cap Ws, c \in Contexts : ClaimContext(w, c) /\ UNCHANGED wsOpen
         \/ UNCHANGED ContextVars
BY DEF Next, RegisterExtension, RegisterAgent, AgentIds, RegisterRelay, RelayClose, StdinEnd,
       Accept, AcceptGated, GateGranted, GateDenied, AcceptDirect, DirectDone, ReplyArrives,
       OsReplyArrives, OsActionDone, Timeout, ForgetTimedOut, Shutdown, sockets, ContextVars

\* extensionWsMap and the ids the sockets carry never disagree, in any order of
\* connects, claims, refused claims, moves and closes.
THEOREM ContextsSound == Spec => []ContextMapSound
<1>1. Init => ContextMapSound
  BY DEF Init, ContextMapSound, Connected
<1>2. TypeOK /\ ContextMapSound /\ [Next]_vars => ContextMapSound'
  <2> SUFFICES ASSUME TypeOK, ContextMapSound, [Next]_vars
               PROVE  ContextMapSound'
    OBVIOUS
  <2> USE BrokerAssumption DEF TypeOK, ContextMapSound, Connected
  <2>1. ASSUME NEW w \in Ws, WsConnect(w) PROVE ContextMapSound'
    BY <2>1 DEF WsConnect
  <2>2. ASSUME NEW w \in Ws, WsClose(w) PROVE ContextMapSound'
    BY <2>2 DEF WsClose
  <2>3. ASSUME NEW w \in wsOpen \cap Ws, NEW c \in Contexts,
               ClaimContext(w, c), UNCHANGED wsOpen
        PROVE  ContextMapSound'
    BY <2>3 DEF ClaimContext, MapAfterClaim
  <2>4. CASE UNCHANGED ContextVars
    BY <2>4 DEF ContextVars
  <2>5. UNCHANGED vars => UNCHANGED ContextVars
    BY DEF vars, sockets, ContextVars
  <2> QED  BY <2>1, <2>2, <2>3, <2>4, <2>5, ContextSteps
<1> QED  BY <1>1, <1>2, TypeCorrect, PTL DEF Spec

\* Two open sockets carry no id in common, so what goes with one is no other's.
AgentInv == ContextMapSound /\ AgentMetaSound

\* The daemon's list of runtime agents is the connected ones, in any order of
\* registrations, moves between contexts and closes: the close handler may drop the
\* metadata unchecked, because a socket that carries an id is the one mapped.
THEOREM AgentsSound == Spec => []AgentMetaSound
<1>1. Init => AgentInv
  BY DEF Init, AgentInv, AgentMetaSound, ContextMapSound, Connected
<1>2. TypeOK /\ ContextMapSound' /\ AgentInv /\ [Next]_vars => AgentInv'
  <2> SUFFICES ASSUME TypeOK, ContextMapSound', AgentInv, [Next]_vars
               PROVE  AgentMetaSound'
    BY DEF AgentInv
  <2> USE BrokerAssumption
  <2>1. ASSUME NEW w \in Ws, WsConnect(w) PROVE AgentMetaSound'
    BY <2>1 DEF WsConnect, AgentInv, AgentMetaSound, Connected, TypeOK
  <2>2. ASSUME NEW w \in Ws, WsClose(w) PROVE AgentMetaSound'
    BY <2>2 DEF WsClose, MetaAfterClose, AgentInv, AgentMetaSound,
                ContextMapSound, Connected, TypeOK
  <2>3. ASSUME NEW w \in Ws, NEW c \in Contexts, RegisterExtension(w, c)
        PROVE  AgentMetaSound'
    BY <2>3 DEF RegisterExtension, ClaimContext, MapAfterClaim, AgentInv, AgentMetaSound,
                ContextMapSound, Connected, TypeOK
  <2>4. ASSUME NEW w \in Ws, NEW c \in Contexts, RegisterAgent(w, c)
        PROVE  AgentMetaSound'
    BY <2>4 DEF RegisterAgent, AgentIds, ClaimContext, MapAfterClaim, AgentInv,
                AgentMetaSound, ContextMapSound, Connected, TypeOK
  <2>5. CASE UNCHANGED sockets
    BY <2>5 DEF sockets, AgentInv, AgentMetaSound, Connected
  <2>6. \/ \E w \in Ws : WsConnect(w) \/ WsClose(w)
        \/ \E w \in Ws, c \in Contexts : RegisterExtension(w, c) \/ RegisterAgent(w, c)
        \/ UNCHANGED sockets
    BY DEF Next, vars, RegisterRelay, RelayClose, StdinEnd, Accept, AcceptGated, GateGranted,
           GateDenied, AcceptDirect, DirectDone, ReplyArrives, OsReplyArrives, OsActionDone,
           Timeout, ForgetTimedOut, Shutdown, sockets
  <2> QED  BY <2>1, <2>2, <2>3, <2>4, <2>5, <2>6
<1>3. AgentInv => AgentMetaSound
  BY DEF AgentInv
<1> QED  BY <1>1, <1>2, <1>3, TypeCorrect, ContextsSound, PTL DEF Spec

-----------------------------------------------------------------------------
(* The relay slot *)

\* The relay slot always names an open relay.
THEOREM SlotSound == Spec => []RelaySlotOpen
<1>1. Init => RelaySlotOpen
  BY DEF Init, RelaySlotOpen
<1>2. RelaySlotOpen /\ [Next]_vars => RelaySlotOpen'
  <2>1. ASSUME RelaySlotOpen, NEW s \in Relays, RegisterRelay(s) PROVE RelaySlotOpen'
    BY <2>1 DEF RegisterRelay, RelaySlotOpen
  <2>2. ASSUME RelaySlotOpen, NEW s \in Relays, RelayClose(s) PROVE RelaySlotOpen'
    BY <2>2 DEF RelayClose, SlotAfterClose, RelaySlotOpen
  <2>3. \/ \E s \in Relays : RegisterRelay(s) \/ RelayClose(s)
        \/ UNCHANGED <<relayOpen, relaySlot>>
        \/ ~[Next]_vars
    BY DEF Next, WsConnect, WsClose, RegisterExtension, RegisterAgent, StdinEnd, Accept,
           AcceptGated, GateGranted, GateDenied, AcceptDirect, DirectDone, ReplyArrives,
           OsReplyArrives, OsActionDone, Timeout, ForgetTimedOut, Shutdown, links, vars
  <2> QED  BY <2>1, <2>2, <2>3 DEF RelaySlotOpen
<1> QED  BY <1>1, <1>2, PTL DEF Spec

-----------------------------------------------------------------------------
(* The life of a request *)

\* The strengthening: the pending entry exists only between the dispatch and the
\* first answer, an input event runs only for a dispatched request.
RequestInv ==
  /\ timer \subseteq pending
  /\ ~up => pending = {}
  /\ \A r \in Requests :
       /\ phase[r] \in {"new", "gated", "direct"} => answers[r] = <<>>
       /\ r \in pending => phase[r] = "dispatched" /\ answers[r] = <<>>
       /\ r \in pending => r \in timer \/ osRunning[r] > 0
       /\ osRunning[r] > 0 => phase[r] = "dispatched" /\ r \in OsRequests
       /\ r \notin OsRequests => Len(answers[r]) <= 1
       /\ phase[r] = "dispatched" =>
            r \in pending \/ answers[r] # <<>> \/ (~up /\ r \notin CliRequests)

\* A first answer makes the sequence of answers one long.
LEMMA AppendLen ==
  ASSUME NEW S, NEW q \in Seq(S), NEW x \in S
  PROVE  /\ Append(q, x) # <<>>
         /\ q = <<>> => Len(Append(q, x)) = 1
OBVIOUS

\* The outcomes of a dispatch, as far as the request table is concerned.
LEMMA DispatchOutcomes ==
  ASSUME TypeOK, NEW r \in Requests, NEW c \in Contexts \cup {NoCtx}, Dispatch(r, c)
  PROVE  /\ timedOut' = timedOut /\ osRunning' = osRunning
         /\ \/ /\ phase' = [phase EXCEPT ![r] = "dispatched"]
               /\ pending' = pending \cup {r} /\ timer' = timer \cup {r}
               /\ answers' = answers
            \/ /\ phase' \in {[phase EXCEPT ![r] = "dispatched"], [phase EXCEPT ![r] = "refused"]}
               /\ pending' = pending /\ timer' = timer
               /\ answers' = [answers EXCEPT ![r] = Append(@, "error")]
BY DEF Dispatch, SendNative, Await, FailOversized, Lost, Enqueue, outbound

\* The strengthening is inductive: every handler keeps the table, the timers and
\* the answers of a request in step.
THEOREM RequestInvariant == Spec => []RequestInv
<1>1. Init => RequestInv
  BY DEF Init, RequestInv
<1>2. TypeOK /\ RequestInv /\ [Next]_vars => RequestInv'
  <2> SUFFICES ASSUME TypeOK, RequestInv, [Next]_vars
               PROVE  RequestInv'
    OBVIOUS
  <2> USE DEF RequestInv
  <2>0. \A r \in Requests, o \in Outcomes :
          /\ Append(answers[r], o) # <<>>
          /\ answers[r] = <<>> => Len(Append(answers[r], o)) <= 1
    <3> TAKE r \in Requests, o \in Outcomes
    <3>1. answers[r] \in Seq(Outcomes)
      BY DEF TypeOK
    <3> QED  BY <3>1, AppendLen
  <2>a. {"result", "error", "timeout", "shutdown"} = Outcomes
    BY DEF Outcomes
  <2>1. ASSUME NEW r \in Requests, NEW c \in Contexts \cup {NoCtx}, Dispatch(r, c),
               up' = up, up, phase[r] \in {"new", "gated"}
        PROVE  RequestInv'
    <3> DEFINE Table(p, q, t, a) ==
          phase' = [phase EXCEPT ![r] = p] /\ pending' = q /\ timer' = t /\ answers' = a
    <3> DEFINE refusal == [answers EXCEPT ![r] = Append(@, "error")]
    <3>1. CASE Table("dispatched", pending \cup {r}, timer \cup {r}, answers)
      BY <2>1, <3>1, DispatchOutcomes DEF TypeOK
    <3>2. CASE Table("dispatched", pending, timer, refusal)
      BY <2>0, <2>a, <2>1, <3>2, DispatchOutcomes DEF TypeOK
    <3>3. CASE Table("refused", pending, timer, refusal)
      BY <2>0, <2>a, <2>1, <3>3, DispatchOutcomes DEF TypeOK
    <3> QED  BY <2>1, <3>1, <3>2, <3>3, DispatchOutcomes
  <2>2. ASSUME NEW r \in Requests, NEW c \in Contexts \cup {NoCtx}, Accept(r, c) PROVE RequestInv'
    BY <2>1, <2>2 DEF Accept
  <2>3. ASSUME NEW r \in Requests, NEW c \in Contexts \cup {NoCtx}, AcceptGated(r, c) PROVE RequestInv'
    BY <2>3 DEF AcceptGated, table, TypeOK
  <2>4. ASSUME NEW r \in Requests, GateGranted(r) PROVE RequestInv'
    BY <2>1, <2>4 DEF GateGranted, TypeOK
  <2>5. ASSUME NEW r \in Requests, GateDenied(r) PROVE RequestInv'
    BY <2>0, <2>a, <2>5 DEF GateDenied, TypeOK
  <2>6. ASSUME NEW r \in Requests, AcceptDirect(r) PROVE RequestInv'
    BY <2>6 DEF AcceptDirect, table, TypeOK
  <2>7. ASSUME NEW r \in Requests, DirectDone(r) PROVE RequestInv'
    BY <2>0, <2>a, <2>7 DEF DirectDone, TypeOK
  <2>8. ASSUME NEW r \in Requests, ReplyArrives(r) PROVE RequestInv'
    BY <2>0, <2>a, <2>8 DEF ReplyArrives, Settled, Disarmed, TypeOK
  <2>9. ASSUME NEW r \in Requests, OsReplyArrives(r) PROVE RequestInv'
    BY <2>9 DEF OsReplyArrives, TypeOK
  <2>10. ASSUME NEW r \in Requests, OsActionDone(r) PROVE RequestInv'
    BY <2>0, <2>a, <2>10 DEF OsActionDone, AfterOs, TypeOK
  <2>11. ASSUME NEW r \in Requests, Timeout(r) PROVE RequestInv'
    BY <2>0, <2>a, <2>11 DEF Timeout, Expired, TypeOK
  <2>12. CASE Shutdown
    BY <2>0, <2>a, <2>12 DEF Shutdown, TypeOK
  <2>13. CASE UNCHANGED <<up, phase, pending, timer, osRunning, answers>>
    BY <2>13
  <2>14. \/ \E r \in Requests, c \in Contexts \cup {NoCtx} : Accept(r, c) \/ AcceptGated(r, c)
         \/ \E r \in Requests :
              \/ GateGranted(r) \/ GateDenied(r) \/ AcceptDirect(r) \/ DirectDone(r)
              \/ ReplyArrives(r) \/ OsReplyArrives(r) \/ OsActionDone(r) \/ Timeout(r)
         \/ Shutdown
         \/ UNCHANGED <<up, phase, pending, timer, osRunning, answers>>
    BY DEF Next, WsConnect, WsClose, RegisterExtension, RegisterAgent, RegisterRelay, RelayClose,
           StdinEnd, ForgetTimedOut, table, vars
  <2> QED  BY <2>2, <2>3, <2>4, <2>5, <2>6, <2>7, <2>8, <2>9, <2>10, <2>11, <2>12, <2>13, <2>14
<1> QED  BY <1>1, <1>2, TypeCorrect, PTL DEF Spec

\* A request the daemon dispatched is answered, waited for, or cut off by the exit.
THEOREM NeverLost == Spec => []DispatchedNeverLost
<1>1. RequestInv => DispatchedNeverLost
  BY DEF RequestInv, DispatchedNeverLost
<1> QED  BY <1>1, RequestInvariant, PTL

\* No pending entry is ever left without something that will end it.
THEOREM DeadlineHeld == Spec => []PendingHasDeadline
<1>1. TypeOK /\ RequestInv => PendingHasDeadline
  BY DEF RequestInv, PendingHasDeadline, TypeOK
<1> QED  BY <1>1, RequestInvariant, TypeCorrect, PTL

\* Whatever the browsers send, a request without an input event is answered at
\* most once.
THEOREM PlainOnce == Spec => []PlainAnsweredOnce
<1>1. RequestInv => PlainAnsweredOnce
  BY DEF RequestInv, PlainAnsweredOnce
<1> QED  BY <1>1, RequestInvariant, PTL
-----------------------------------------------------------------------------
(* The outbound queues *)

\* A queue without repetitions.
Distinct(q) == \A i, j \in DOMAIN q : q[i] = q[j] => i = j

\* A queue with its oldest entry evicted, when it is full, has room.
Room(q) == IF Full(q) THEN Tail(q) ELSE q
LEMMA Evicted ==
  ASSUME NEW q \in Seq(Requests), Len(q) <= WS_QUEUE_CAP
  PROVE  /\ Room(q) \in Seq(Requests) /\ Len(Room(q)) < WS_QUEUE_CAP
         /\ \A i \in DOMAIN Room(q) : \E j \in DOMAIN q : Room(q)[i] = q[j]
         /\ Distinct(q) => Distinct(Room(q))
<1> USE BrokerAssumption
<1> DEFINE e == Room(q)
<1>1. CASE ~Full(q)
  BY <1>1 DEF Full, Room
<1>2. CASE Full(q)
  <2>1. q # <<>> /\ e = Tail(q)
    BY <1>2 DEF Full, Room
  <2>2. e \in Seq(Requests) /\ Len(e) = Len(q) - 1
    BY <2>1
  <2>3. \A i \in DOMAIN e : i + 1 \in DOMAIN q /\ e[i] = q[i + 1]
    BY <2>1, <2>2
  <2>4. Distinct(q) => Distinct(e)
    <3> SUFFICES ASSUME Distinct(q), NEW i \in DOMAIN e, NEW j \in DOMAIN e, e[i] = e[j]
                 PROVE  i = j
      BY DEF Distinct
    <3>1. i + 1 = j + 1
      BY <2>3 DEF Distinct
    <3> QED  BY <3>1, <2>2
  <2> QED  BY <2>2, <2>3, <2>4
<1> QED  BY <1>1, <1>2

\* A request put at the end of a queue that does not hold it.
LEMMA Appended ==
  ASSUME NEW q \in Seq(Requests), Len(q) < WS_QUEUE_CAP, NEW r \in Requests
  PROVE  /\ Len(Append(q, r)) <= WS_QUEUE_CAP
         /\ \A i \in DOMAIN Append(q, r) :
              Append(q, r)[i] = r \/ \E j \in DOMAIN q : Append(q, r)[i] = q[j]
         /\ Distinct(q) /\ (\A i \in DOMAIN q : q[i] # r) => Distinct(Append(q, r))
BY BrokerAssumption DEF Distinct

\* A queued request was dispatched, and what was not dispatched was not sent.
QueueInv ==
  /\ QueueSound
  /\ \A k \in QueueKeys : \A i \in DOMAIN queues[k] : phase[queues[k][i]] = "dispatched"
  /\ \A r \in Requests : phase[r] \in {"new", "gated"} => sent[r] = <<>>

\* The outcomes of a dispatch, as far as routing is concerned: nothing left, the
\* request was handed over, or it was queued.
LEMMA DispatchOutbound ==
  ASSUME TypeOK, NEW r \in Requests, NEW c \in Contexts \cup {NoCtx}, Dispatch(r, c)
  PROVE  /\ target' = [target EXCEPT ![r] = c]
         /\ \E p \in {"dispatched", "refused"} : phase' = [phase EXCEPT ![r] = p]
         /\ \/ UNCHANGED outbound
            \/ \E d \in Dest : HandOver(r, d)
            \/ phase'[r] = "dispatched" /\ Enqueue(r)
<1>1. ResolveWs(c) # NoWs => ResolveWs(c) \in Dest
  BY ResolveType DEF Dest
<1>2. (relaySlot # NoRelay => relaySlot \in Dest) /\ "stdout" \in Dest
  BY DEF TypeOK, Dest
<1>3. phase'[r] \in {"dispatched", "refused"}
  BY DEF Dispatch, TypeOK
<1>4. CASE RoutingOk(c)
  <2>1. SendNative(r, c) /\ phase'[r] = "dispatched"
    BY <1>4 DEF Dispatch, TypeOK
  <2>2. \/ UNCHANGED outbound
        \/ \E d \in Dest : HandOver(r, d)
        \/ Enqueue(r)
    BY <2>1, <1>1, <1>2 DEF SendNative, Lost, FailOversized
  <2> QED  BY <2>1, <2>2 DEF Dispatch
<1>5. CASE ~RoutingOk(c)
  BY <1>5 DEF Dispatch
<1> QED  BY <1>4, <1>5 DEF Dispatch

\* Queueing a dispatched request that was nowhere before keeps the queues sound.
LEMMA EnqueueKeeps ==
  ASSUME TypeOK, QueueInv, NEW r \in Requests, NEW c \in Contexts \cup {NoCtx},
         phase[r] \in {"new", "gated"}, target' = [target EXCEPT ![r] = c],
         phase' = [phase EXCEPT ![r] = "dispatched"], Enqueue(r)
  PROVE  QueueInv'
<1> DEFINE q == queues[c]
           e == Room(q)
<1>1. c \in QueueKeys /\ target'[r] = c /\ q \in Seq(Requests)
  BY DEF QueueKeys, TypeOK
<1>2. Len(q) <= WS_QUEUE_CAP /\ Distinct(q)
  BY <1>1 DEF QueueInv, QueueSound, Distinct
<1>3. /\ e \in Seq(Requests) /\ Len(e) < WS_QUEUE_CAP /\ Distinct(e)
      /\ \A i \in DOMAIN e : \E j \in DOMAIN q : e[i] = q[j]
  BY <1>1, <1>2, Evicted
<1>4. \A k \in QueueKeys : \A i \in DOMAIN queues[k] :
        queues[k][i] # r /\ queues[k][i] \in Requests
  BY DEF QueueInv, TypeOK
<1>5. \A i \in DOMAIN e : e[i] # r /\ e[i] \in Requests /\ target[e[i]] = c
                          /\ sent[e[i]] = <<>> /\ phase[e[i]] = "dispatched"
  BY <1>1, <1>3, <1>4 DEF QueueInv, QueueSound
<1>6. queues' = [queues EXCEPT ![c] = Append(e, r)] /\ sent' = sent
  <2>1. /\ queues' = [queues EXCEPT ![target'[r]] = Append(Room(queues[target'[r]]), r)]
        /\ sent' = sent
    BY Zenon DEF Enqueue, Room
  <2>2. target'[r] = c
    BY <1>1
  <2> QED  BY <2>1, <2>2
<1>7. /\ Len(Append(e, r)) <= WS_QUEUE_CAP /\ Distinct(Append(e, r))
      /\ \A i \in DOMAIN Append(e, r) :
           Append(e, r)[i] = r \/ \E j \in DOMAIN e : Append(e, r)[i] = e[j]
  BY <1>3, <1>5, Appended
<1>8. sent[r] = <<>>
  BY DEF QueueInv
<1>9. ASSUME NEW k \in QueueKeys
      PROVE  /\ Len(queues'[k]) <= WS_QUEUE_CAP /\ Distinct(queues'[k])
             /\ \A i \in DOMAIN queues'[k] :
                  /\ target'[queues'[k][i]] = k /\ sent'[queues'[k][i]] = <<>>
                  /\ phase'[queues'[k][i]] = "dispatched"
  <2>1. CASE k = c
    <3>1. queues'[k] = Append(e, r)
      BY <2>1, <1>6 DEF TypeOK
    <3>2. ASSUME NEW x \in Requests, x = r \/ \E j \in DOMAIN e : x = e[j]
          PROVE  target'[x] = c /\ sent'[x] = <<>> /\ phase'[x] = "dispatched"
      BY <3>2, <1>5, <1>6, <1>8 DEF TypeOK
    <3>3. \A i \in DOMAIN Append(e, r) : Append(e, r)[i] \in Requests
      BY <1>5, <1>7
    <3> QED  BY <2>1, <3>1, <3>2, <3>3, <1>7
  <2>2. CASE k # c
    <3>1. queues'[k] = queues[k]
      BY <2>2, <1>6 DEF TypeOK
    <3>2. Len(queues[k]) <= WS_QUEUE_CAP /\ Distinct(queues[k])
      BY DEF QueueInv, QueueSound, Distinct
    <3>3. \A i \in DOMAIN queues[k] :
            /\ target'[queues[k][i]] = k /\ sent'[queues[k][i]] = <<>>
            /\ phase'[queues[k][i]] = "dispatched"
      BY <1>4, <1>6 DEF QueueInv, QueueSound, TypeOK
    <3> QED  BY <3>1, <3>2, <3>3
  <2> QED  BY <2>1, <2>2
<1>10. QueueSound'
  BY <1>9 DEF QueueSound, Distinct
<1>11. \A x \in Requests : phase'[x] \in {"new", "gated"} => sent'[x] = <<>>
  BY <1>6 DEF QueueInv, TypeOK
<1> QED  BY <1>9, <1>10, <1>11 DEF QueueInv

\* Draining a context's queue and the default one leaves the others as they are.
LEMMA DrainKeeps ==
  ASSUME TypeOK, QueueInv, NEW w \in Ws, NEW c \in Contexts, DrainQueues(w, c),
         UNCHANGED <<target, phase>>
  PROVE  QueueInv'
<1>1. PICK ok \in SUBSET (UNION {{queues[k][i] : i \in DOMAIN queues[k]} : k \in DrainedKeys(c)}) :
        sent' = [r \in Requests |-> IF r \in ok THEN Append(sent[r], w) ELSE sent[r]]
  BY DEF DrainQueues
<1>2. \A r \in ok : \E k \in QueueKeys \cap DrainedKeys(c) : \E i \in DOMAIN queues[k] : r = queues[k][i]
  BY DEF DrainedKeys, QueueKeys
<1>3. \A r \in ok : phase[r] = "dispatched" /\ target[r] \in DrainedKeys(c)
  BY <1>2 DEF QueueInv, QueueSound
<1>4. \A r \in Requests : r \notin ok => sent'[r] = sent[r]
  BY <1>1
<1>5. queues' = [k \in QueueKeys |-> IF k \in DrainedKeys(c) THEN <<>> ELSE queues[k]]
  BY DEF DrainQueues
<1>6. ASSUME NEW k \in QueueKeys, k \notin DrainedKeys(c), NEW i \in DOMAIN queues[k]
      PROVE  sent'[queues[k][i]] = <<>>
  <2>1. queues[k][i] \in Requests /\ target[queues[k][i]] = k /\ sent[queues[k][i]] = <<>>
    BY DEF QueueInv, QueueSound, TypeOK
  <2> QED  BY <2>1, <1>3, <1>4, <1>6
<1>7. QueueSound'
  <2> SUFFICES ASSUME NEW k \in QueueKeys
               PROVE  /\ Len(queues'[k]) <= WS_QUEUE_CAP
                      /\ \A i \in DOMAIN queues'[k] :
                           /\ target[queues'[k][i]] = k /\ sent'[queues'[k][i]] = <<>>
                           /\ \A j \in DOMAIN queues'[k] : queues'[k][j] = queues'[k][i] => j = i
    BY DEF QueueSound
  <2>1. CASE k \in DrainedKeys(c)
    BY <2>1, <1>5, BrokerAssumption
  <2>2. CASE k \notin DrainedKeys(c)
    BY <2>2, <1>5, <1>6 DEF QueueInv, QueueSound
  <2> QED  BY <2>1, <2>2
<1>8. \A k \in QueueKeys : \A i \in DOMAIN queues'[k] : phase'[queues'[k][i]] = "dispatched"
  BY <1>5 DEF QueueInv
<1>9. \A r \in Requests : phase'[r] \in {"new", "gated"} => sent'[r] = <<>>
  BY <1>3, <1>4 DEF QueueInv
<1> QED  BY <1>7, <1>8, <1>9 DEF QueueInv

\* A step that touches one request, not a queued one, and no queue.
LEMMA ElsewhereKept ==
  ASSUME TypeOK, QueueInv, NEW r \in Requests, phase[r] # "dispatched", queues' = queues,
         \A x \in Requests : x # r => target'[x] = target[x] /\ sent'[x] = sent[x]
                                      /\ phase'[x] = phase[x],
         phase'[r] \in {"new", "gated"} => sent'[r] = <<>>
  PROVE  QueueInv'
<1>1. ASSUME NEW k \in QueueKeys, NEW i \in DOMAIN queues[k]
      PROVE  /\ target'[queues[k][i]] = k /\ sent'[queues[k][i]] = <<>>
             /\ phase'[queues[k][i]] = "dispatched"
  <2>1. queues[k][i] \in Requests /\ phase[queues[k][i]] = "dispatched"
    BY DEF QueueInv, TypeOK
  <2>2. target[queues[k][i]] = k /\ sent[queues[k][i]] = <<>>
    BY DEF QueueInv, QueueSound
  <2> QED  BY <2>1, <2>2
<1>2. \A k \in QueueKeys :
        /\ Len(queues[k]) <= WS_QUEUE_CAP
        /\ \A i, j \in DOMAIN queues[k] : queues[k][j] = queues[k][i] => j = i
  BY DEF QueueInv, QueueSound
<1>3. QueueSound'
  BY <1>1, <1>2 DEF QueueSound
<1>4. \A x \in Requests : phase'[x] \in {"new", "gated"} => sent'[x] = <<>>
  BY DEF QueueInv
<1> QED  BY <1>1, <1>3, <1>4 DEF QueueInv

\* What is queued stays sound, and dispatched, however requests are queued, evicted
\* and drained.
THEOREM QueueInvariant == Spec => []QueueInv
<1>1. Init => QueueInv
  BY BrokerAssumption DEF Init, QueueInv, QueueSound
<1>2. TypeOK /\ QueueInv /\ [Next]_vars => QueueInv'
  <2> SUFFICES ASSUME TypeOK, QueueInv, [Next]_vars
               PROVE  QueueInv'
    OBVIOUS
  <2>1. ASSUME NEW w \in Ws, NEW c \in Contexts, DrainQueues(w, c), UNCHANGED <<target, phase>>
        PROVE  QueueInv'
    BY <2>1, DrainKeeps
  <2>2. ASSUME NEW r \in Requests, NEW c \in Contexts \cup {NoCtx},
               phase[r] \in {"new", "gated"}, Dispatch(r, c)
        PROVE  QueueInv'
    <3>1. CASE Enqueue(r) /\ phase'[r] = "dispatched"
      <4>1. phase' = [phase EXCEPT ![r] = "dispatched"] /\ target' = [target EXCEPT ![r] = c]
        BY <2>2, <3>1, DispatchOutbound DEF TypeOK
      <4> QED  BY <2>2, <3>1, <4>1, EnqueueKeeps
    <3>2. CASE queues' = queues /\ \A x \in Requests : x # r => sent'[x] = sent[x]
      <4>1. /\ target' = [target EXCEPT ![r] = c]
            /\ \E p \in {"dispatched", "refused"} : phase' = [phase EXCEPT ![r] = p]
        BY <2>2, DispatchOutbound
      <4>2. \A x \in Requests : x # r => target'[x] = target[x] /\ phase'[x] = phase[x]
        BY <4>1 DEF TypeOK
      <4>3. phase'[r] \in {"dispatched", "refused"}
        BY <4>1 DEF TypeOK
      <4> QED  BY <2>2, <3>2, <4>2, <4>3, ElsewhereKept
    <3>3. \A d : HandOver(r, d) =>
                   queues' = queues /\ \A x \in Requests : x # r => sent'[x] = sent[x]
      BY DEF HandOver, TypeOK
    <3> QED  BY <2>2, <3>1, <3>2, <3>3, DispatchOutbound DEF outbound
  <2>3. ASSUME UNCHANGED <<queues, sent>>, NEW r \in Requests,
               phase[r] \in {"new", "gated", "direct"},
               \/ phase' = [phase EXCEPT ![r] = "replied"] /\ target' = target
               \/ phase' = [phase EXCEPT ![r] = "direct"] /\ target' = target
               \/ /\ phase[r] = "new" /\ phase' = [phase EXCEPT ![r] = "gated"]
                  /\ \E c \in Contexts \cup {NoCtx} : target' = [target EXCEPT ![r] = c]
        PROVE  QueueInv'
    <3>1. \A x \in Requests : x # r => target'[x] = target[x] /\ phase'[x] = phase[x]
      BY <2>3 DEF TypeOK
    <3>2. phase'[r] \in {"new", "gated"} => sent'[r] = <<>>
      BY <2>3 DEF QueueInv, TypeOK
    <3> QED  BY <2>3, <3>1, <3>2, ElsewhereKept
  <2>4. CASE UNCHANGED <<queues, sent, target, phase>>
    BY <2>4 DEF QueueInv, QueueSound
  <2>5. ASSUME NEW r \in Requests, NEW c \in Contexts \cup {NoCtx},
               Accept(r, c) \/ AcceptGated(r, c)
        PROVE  QueueInv'
    BY <2>2, <2>3, <2>5 DEF Accept, AcceptGated, outbound
  <2>6. ASSUME NEW r \in Requests,
               GateGranted(r) \/ GateDenied(r) \/ AcceptDirect(r) \/ DirectDone(r)
        PROVE  QueueInv'
    BY <2>2, <2>3, <2>6 DEF GateGranted, GateDenied, AcceptDirect, DirectDone, outbound, TypeOK
  <2>7. ASSUME NEW w \in Ws, NEW c \in Contexts, RegisterExtension(w, c) \/ RegisterAgent(w, c)
        PROVE  QueueInv'
    BY <2>1, <2>7 DEF RegisterExtension, RegisterAgent
  <2>8. \/ \E r \in Requests, c \in Contexts \cup {NoCtx} : Accept(r, c) \/ AcceptGated(r, c)
        \/ \E r \in Requests :
             GateGranted(r) \/ GateDenied(r) \/ AcceptDirect(r) \/ DirectDone(r)
        \/ \E w \in Ws, c \in Contexts : RegisterExtension(w, c) \/ RegisterAgent(w, c)
        \/ UNCHANGED <<queues, sent, target, phase>>
    BY DEF Next, WsConnect, WsClose, RegisterRelay, RelayClose, StdinEnd, ReplyArrives,
           OsReplyArrives, OsActionDone, Timeout, ForgetTimedOut, Shutdown, outbound, vars
  <2> QED  BY <2>4, <2>5, <2>6, <2>7, <2>8
<1> QED  BY <1>1, <1>2, TypeCorrect, PTL DEF Spec

\* What is queued under a context's key is for that context, once, within the cap
\* and not sent yet.
THEOREM QueuesSound == Spec => []QueueSound
<1>1. QueueInv => QueueSound
  BY DEF QueueInv
<1> QED  BY <1>1, QueueInvariant, PTL

-----------------------------------------------------------------------------
(* Named contexts *)

\* What one step may hand over, the body of NamedContextNotCrossed.
NotCrossed(r) ==
  /\ sent'[r] # sent[r] /\ target'[r] # NoCtx
  /\ sent'[r][Len(sent'[r])] \in Ws
  => sent'[r][Len(sent'[r])] = ctxMap'[target'[r]]

LEMMA DispatchNotCrossed ==
  ASSUME TypeOK, NEW r \in Requests, NEW c \in Contexts \cup {NoCtx}, Dispatch(r, c),
         ctxMap' = ctxMap, NEW x \in Requests
  PROVE  NotCrossed(x)
<1>1. target' = [target EXCEPT ![r] = c]
  BY DispatchOutbound
<1>2. /\ relaySlot # NoRelay => relaySlot \in Dest /\ relaySlot \notin Ws
      /\ "stdout" \in Dest \ Ws
      /\ ResolveWs(c) # NoWs => ResolveWs(c) \in Dest
  BY BrokerAssumption, ResolveType DEF TypeOK, Dest
<1>3. \/ sent' = sent
      \/ \E d \in Dest : HandOver(r, d) /\ (d \in Ws => d = ResolveWs(c))
  BY <1>2 DEF Dispatch, SendNative, Lost, FailOversized, Enqueue, outbound
<1>4. ASSUME NEW d \in Dest, HandOver(r, d), d \in Ws => d = ResolveWs(c)
      PROVE  NotCrossed(x)
  <2>1. CASE x # r
    BY <1>4, <2>1 DEF NotCrossed, HandOver, TypeOK
  <2>2. CASE x = r
    <3>1. sent'[r] = Append(sent[r], d) /\ sent[r] \in Seq(Dest)
      BY <1>4 DEF HandOver, TypeOK
    <3>2. sent'[r][Len(sent'[r])] = d
      BY <3>1
    <3>3. target'[r] = c
      BY <1>1 DEF TypeOK
    <3>4. c # NoCtx => ResolveWs(c) = ctxMap[c]
      BY DEF ResolveWs
    <3> QED  BY <1>4, <2>2, <3>2, <3>3, <3>4 DEF NotCrossed
  <2> QED  BY <2>1, <2>2
<1> QED  BY <1>3, <1>4 DEF NotCrossed

\* What one step may hand over, the body of NamedContextHonoured.
Honoured(r) ==
  sent'[r] # sent[r] /\ target'[r] # NoCtx => sent'[r][Len(sent'[r])] = ctxMap'[target'[r]]

\* What a claim drains is for the context claimed, or names none.
LEMMA DrainHonoured ==
  ASSUME TypeOK, QueueInv, NEW w \in Ws, NEW c \in Contexts, ClaimContext(w, c),
         DrainQueues(w, c), target' = target, NEW x \in Requests
  PROVE  Honoured(x)
<1>1. PICK ok \in SUBSET (UNION {{queues[k][i] : i \in DOMAIN queues[k]} : k \in DrainedKeys(c)}) :
        sent' = [r \in Requests |-> IF r \in ok THEN Append(sent[r], w) ELSE sent[r]]
  BY DEF DrainQueues
<1>2. CASE x \notin ok
  BY <1>1, <1>2 DEF Honoured
<1>3. CASE x \in ok
  <2>1. target[x] \in {c, NoCtx}
    BY <1>3 DEF QueueInv, QueueSound, DrainedKeys, QueueKeys
  <2>2. sent'[x] = Append(sent[x], w) /\ sent[x] \in Seq(Dest)
    BY <1>1, <1>3 DEF TypeOK
  <2>3. sent'[x][Len(sent'[x])] = w
    BY <2>2 DEF Dest
  <2>4. ctxMap'[c] = w
    BY DEF ClaimContext, MapAfterClaim
  <2> QED  BY <2>1, <2>3, <2>4 DEF Honoured
<1> QED  BY <1>2, <1>3

\* No step hands a request that names a context to another context's WebSocket,
\* neither at once nor from a queue.
THEOREM NeverCrossed == Spec => NamedContextNotCrossed
<1>1. TypeOK /\ QueueInv /\ [Next]_vars => [\A r \in Requests : NotCrossed(r)]_vars
  <2> SUFFICES ASSUME TypeOK, QueueInv, Next, NEW x \in Requests
               PROVE  NotCrossed(x)
    BY DEF vars
  <2>1. CASE sent' = sent
    BY <2>1 DEF NotCrossed
  <2>2. ASSUME NEW r \in Requests, NEW c \in Contexts \cup {NoCtx},
               Accept(r, c) \/ AcceptGated(r, c)
        PROVE  NotCrossed(x)
    BY <2>1, <2>2, DispatchNotCrossed DEF Accept, AcceptGated, sockets, outbound
  <2>3. ASSUME NEW r \in Requests, GateGranted(r)
        PROVE  NotCrossed(x)
    <3>1. target[r] \in Contexts \cup {NoCtx}
      BY DEF TypeOK
    <3> QED  BY <2>3, <3>1, DispatchNotCrossed DEF GateGranted, sockets
  <2>4. ASSUME NEW w \in Ws, NEW c \in Contexts, RegisterExtension(w, c) \/ RegisterAgent(w, c)
        PROVE  NotCrossed(x)
    BY <2>4, DrainHonoured DEF RegisterExtension, RegisterAgent, Honoured, NotCrossed
  <2>5. \/ \E r \in Requests, c \in Contexts \cup {NoCtx} : Accept(r, c) \/ AcceptGated(r, c)
        \/ \E r \in Requests : GateGranted(r)
        \/ \E w \in Ws, c \in Contexts : RegisterExtension(w, c) \/ RegisterAgent(w, c)
        \/ sent' = sent
    BY DEF Next, WsConnect, WsClose, RegisterRelay, RelayClose, StdinEnd, GateDenied,
           AcceptDirect, DirectDone, ReplyArrives, OsReplyArrives, OsActionDone, Timeout,
           ForgetTimedOut, Shutdown, outbound
  <2> QED  BY <2>1, <2>2, <2>3, <2>4, <2>5
<1> QED  BY <1>1, QueueInvariant, TypeCorrect, PTL DEF Spec, NamedContextNotCrossed, NotCrossed

\* Where no send throws, a dispatch sends a request that names a context to that
\* context's socket or nowhere: validateContextRouting let it through, so the context
\* has a socket, and the relay, stdout and the queue are not tried.
LEMMA DispatchHonoured ==
  ASSUME "throws" \notin SendOutcomes, TypeOK, NEW r \in Requests,
         NEW c \in Contexts \cup {NoCtx}, Dispatch(r, c), ctxMap' = ctxMap, NEW x \in Requests
  PROVE  Honoured(x)
<1>1. target' = [target EXCEPT ![r] = c]
  BY DispatchOutbound
<1>2. CASE c = NoCtx \/ sent' = sent
  <2>1. CASE x # r
    <3>1. sent'[x] = sent[x]
      <4>1. CASE \E d \in Dest : HandOver(r, d)
        BY <2>1, <4>1 DEF HandOver, TypeOK
      <4>2. CASE sent' = sent
        BY <4>2
      <4> QED  BY <4>1, <4>2, DispatchOutbound DEF Enqueue, outbound
    <3> QED  BY <3>1 DEF Honoured
  <2>2. CASE x = r
    BY <1>1, <1>2, <2>2 DEF Honoured, TypeOK
  <2> QED  BY <2>1, <2>2
<1>3. CASE c # NoCtx /\ sent' # sent
  <2>1. RoutingOk(c) /\ SendNative(r, c)
    BY <1>3 DEF Dispatch, outbound
  <2>2. ctxMap[c] # NoWs /\ ResolveWs(c) = ctxMap[c] /\ ctxMap[c] \in Dest
    BY <1>3, <2>1 DEF RoutingOk, ResolveWs, Connected, Dest, TypeOK
  <2>3. HandOver(r, ctxMap[c])
    BY <1>3, <2>1, <2>2 DEF SendNative, Lost, outbound
  <2>4. CASE x # r
    BY <2>3, <2>4 DEF Honoured, HandOver, TypeOK
  <2>5. CASE x = r
    <3>1. sent'[r] = Append(sent[r], ctxMap[c]) /\ sent[r] \in Seq(Dest)
      BY <2>3 DEF HandOver, TypeOK
    <3>2. sent'[r][Len(sent'[r])] = ctxMap[c]
      BY <2>2, <3>1
    <3>3. target'[r] = c
      BY <1>1 DEF TypeOK
    <3> QED  BY <2>5, <3>2, <3>3 DEF Honoured
  <2> QED  BY <2>4, <2>5
<1> QED  BY <1>2, <1>3

\* Where no send throws, a request that names a context reaches that context's browser or
\* nobody: not the relay, not stdout, and from a queue only the socket that claims it.
THEOREM ContextHonoured ==
  ASSUME "throws" \notin SendOutcomes
  PROVE  Spec => NamedContextHonoured
<1>1. TypeOK /\ QueueInv /\ [Next]_vars => [\A r \in Requests : Honoured(r)]_vars
  <2> SUFFICES ASSUME TypeOK, QueueInv, Next, NEW x \in Requests
               PROVE  Honoured(x)
    BY DEF vars
  <2>1. CASE sent' = sent
    BY <2>1 DEF Honoured
  <2>2. ASSUME NEW r \in Requests, NEW c \in Contexts \cup {NoCtx}, Accept(r, c)
        PROVE  Honoured(x)
    BY <2>2, DispatchHonoured DEF Accept, sockets
  <2>3. ASSUME NEW r \in Requests, GateGranted(r)
        PROVE  Honoured(x)
    <3>1. target[r] \in Contexts \cup {NoCtx}
      BY DEF TypeOK
    <3> QED  BY <2>3, <3>1, DispatchHonoured DEF GateGranted, sockets
  <2>4. ASSUME NEW w \in Ws, NEW c \in Contexts, RegisterExtension(w, c) \/ RegisterAgent(w, c)
        PROVE  Honoured(x)
    BY <2>4, DrainHonoured DEF RegisterExtension, RegisterAgent
  <2>5. \/ \E r \in Requests, c \in Contexts \cup {NoCtx} : Accept(r, c)
        \/ \E r \in Requests : GateGranted(r)
        \/ \E w \in Ws, c \in Contexts : RegisterExtension(w, c) \/ RegisterAgent(w, c)
        \/ sent' = sent
    BY DEF Next, WsConnect, WsClose, RegisterRelay, RelayClose, StdinEnd, AcceptGated, GateDenied,
           AcceptDirect, DirectDone, ReplyArrives, OsReplyArrives, OsActionDone, Timeout,
           ForgetTimedOut, Shutdown, outbound
  <2> QED  BY <2>1, <2>2, <2>3, <2>4, <2>5
<1> QED  BY <1>1, QueueInvariant, TypeCorrect, PTL DEF Spec, NamedContextHonoured, Honoured

\* The contexts' two tables and the relay slot together: where a message goes is
\* looked up in tables that agree (extensionWsMap, claimContextId, relaySlotAfterClose).
THEOREM RoutingHolds == Spec => []RoutingSound
BY ContextsSound, SlotSound, PTL DEF RoutingSound

\* Between dispatch and answer a request is pending or answered, and what is pending
\* has a deadline (pendingRequests and its timers).
THEOREM InFlightHolds == Spec => []InFlightSound
BY NeverLost, DeadlineHeld, PTL DEF InFlightSound

-----------------------------------------------------------------------------
(* The service *)

\* What a request may still cause: it is handed over once, so where a browser answers
\* a delivered request at most once, one response or one input event is outstanding,
\* and a running input event still has its entry, without a timer.
OnceInv ==
  \A r \in Requests :
    /\ Len(sent[r]) <= 1
    /\ ReplyCopies <= 1 =>
         /\ inFlight[r] + osRunning[r] <= Len(sent[r])
         /\ up /\ osRunning[r] > 0 => r \in pending \ timer

\* Handing over a request that was not sent yet makes at most one response possible.
LEMMA FirstHandOver ==
  ASSUME NEW q \in Seq(Dest), NEW n \in Nat, NEW m \in Nat, NEW d \in Dest, q = <<>>,
         ReplyCopies <= 1 => n + m <= Len(q)
  PROVE  /\ Len(Append(q, d)) <= 1
         /\ ReplyCopies <= 1 => (n + ReplyCopies) + m <= Len(Append(q, d))
BY BrokerAssumption

\* A dispatch hands over a request that nothing has been sent for.
LEMMA DispatchOnce ==
  ASSUME TypeOK, RequestInv, QueueInv, OnceInv, UNCHANGED up,
         NEW r \in Requests, NEW c \in Contexts \cup {NoCtx},
         phase[r] \in {"new", "gated"}, Dispatch(r, c)
  PROVE  OnceInv'
<1>1. sent[r] = <<>> /\ osRunning[r] = 0
  <2>1. sent[r] = <<>>
    BY DEF QueueInv
  <2>2. osRunning[r] \in Nat /\ ~(osRunning[r] > 0)
    BY DEF RequestInv, TypeOK
  <2> QED  BY <2>1, <2>2
<1>2. /\ osRunning' = osRunning
      /\ \A x \in Requests : x # r => (x \in pending' \ timer' <=> x \in pending \ timer)
  BY DispatchOutcomes
<1>3. CASE UNCHANGED <<sent, inFlight>>
  BY <1>1, <1>2, <1>3 DEF OnceInv, TypeOK
<1>4. ASSUME NEW d \in Dest, HandOver(r, d)
      PROVE  OnceInv'
  <2>1. sent' = [sent EXCEPT ![r] = Append(@, d)] /\ inFlight' = [inFlight EXCEPT ![r] = @ + ReplyCopies]
    BY <1>4 DEF HandOver
  <2>2. /\ sent'[r] = Append(sent[r], d) /\ inFlight'[r] = inFlight[r] + ReplyCopies
        /\ sent[r] \in Seq(Dest) /\ inFlight[r] \in Nat /\ osRunning[r] \in Nat
    BY <2>1 DEF TypeOK
  <2>3. ReplyCopies <= 1 => inFlight[r] + osRunning[r] <= Len(sent[r])
    BY DEF OnceInv
  <2>4. /\ Len(sent'[r]) <= 1
        /\ ReplyCopies <= 1 => inFlight'[r] + osRunning[r] <= Len(sent'[r])
    <3>1. /\ Len(Append(sent[r], d)) <= 1
          /\ ReplyCopies <= 1 => (inFlight[r] + ReplyCopies) + osRunning[r] <= Len(Append(sent[r], d))
      BY <2>2, <2>3, <1>1, FirstHandOver
    <3> QED  BY <2>2, <3>1
  <2> SUFFICES ASSUME NEW x \in Requests
               PROVE  /\ Len(sent'[x]) <= 1
                      /\ ReplyCopies <= 1 =>
                           /\ inFlight'[x] + osRunning[x] <= Len(sent'[x])
                           /\ up /\ osRunning[x] > 0 => x \in pending' \ timer'
    BY <1>2 DEF OnceInv
  <2>5. CASE x = r
    <3>1. ~(osRunning[r] > 0)
      BY <1>1
    <3> QED  BY <3>1, <2>4, <2>5
  <2>6. CASE x # r
    <3>1. sent'[x] = sent[x] /\ inFlight'[x] = inFlight[x]
      BY <2>1, <2>6 DEF TypeOK
    <3> QED  BY <1>2, <2>6, <3>1 DEF OnceInv
  <2> QED  BY <2>5, <2>6
<1> QED  BY <1>3, <1>4, DispatchOutbound DEF Enqueue, outbound

\* So does draining: what is queued is not sent yet.
LEMMA DrainOnce ==
  ASSUME TypeOK, QueueInv, OnceInv, NEW w \in Ws, NEW c \in Contexts, DrainQueues(w, c),
         UNCHANGED <<up, table>>
  PROVE  OnceInv'
<1>1. PICK ok \in SUBSET (UNION {{queues[k][i] : i \in DOMAIN queues[k]} : k \in DrainedKeys(c)}) :
        /\ sent' = [r \in Requests |-> IF r \in ok THEN Append(sent[r], w) ELSE sent[r]]
        /\ inFlight' = [r \in Requests |->
                          IF r \in ok THEN inFlight[r] + ReplyCopies ELSE inFlight[r]]
  BY DEF DrainQueues
<1>2. \A r \in ok : sent[r] = <<>>
  BY DEF QueueInv, QueueSound, DrainedKeys, QueueKeys
<1>3. w \in Dest /\ pending' = pending /\ timer' = timer /\ osRunning' = osRunning
  BY DEF Dest, table
<1>4. ASSUME NEW r \in Requests
      PROVE  /\ Len(sent'[r]) <= 1
             /\ ReplyCopies <= 1 => inFlight'[r] + osRunning[r] <= Len(sent'[r])
  <2>1. sent[r] \in Seq(Dest) /\ inFlight[r] \in Nat /\ osRunning[r] \in Nat
    BY DEF TypeOK
  <2>2. CASE r \in ok
    BY <1>1, <1>2, <1>3, <2>1, <2>2, FirstHandOver DEF OnceInv
  <2>3. CASE r \notin ok
    BY <1>1, <2>3 DEF OnceInv
  <2> QED  BY <2>2, <2>3
<1> QED  BY <1>3, <1>4 DEF OnceInv

\* A request is handed over at most once, whatever queues, evictions, drains and failed
\* sends come between; and a response is not due twice.
THEOREM OnceInvariant == Spec => []OnceInv
<1>1. Init => OnceInv
  BY DEF Init, OnceInv
<1>2. TypeOK /\ RequestInv /\ QueueInv /\ OnceInv /\ [Next]_vars => OnceInv'
  <2> SUFFICES ASSUME TypeOK, RequestInv, QueueInv, OnceInv, [Next]_vars
               PROVE  OnceInv'
    OBVIOUS
  <2>0. \A r \in Requests : Len(sent[r]) \in Nat /\ inFlight[r] \in Nat /\ osRunning[r] \in Nat
    BY DEF TypeOK
  <2>1. ASSUME NEW r \in Requests, NEW c \in Contexts \cup {NoCtx}, Accept(r, c) PROVE OnceInv'
    BY <2>1, DispatchOnce DEF Accept
  <2>2. ASSUME NEW r \in Requests, GateGranted(r) PROVE OnceInv'
    BY <2>2, DispatchOnce DEF GateGranted, TypeOK
  <2>3. ASSUME NEW w \in Ws, NEW c \in Contexts, RegisterExtension(w, c) \/ RegisterAgent(w, c)
        PROVE  OnceInv'
    BY <2>3, DrainOnce DEF RegisterExtension, RegisterAgent
  <2>4. ASSUME NEW r \in Requests, ReplyArrives(r) PROVE OnceInv'
    BY <2>0, <2>4 DEF ReplyArrives, Settled, Disarmed, OnceInv, TypeOK
  <2>5. ASSUME NEW r \in Requests, OsReplyArrives(r) PROVE OnceInv'
    BY <2>0, <2>5 DEF OsReplyArrives, OnceInv, TypeOK
  <2>6. ASSUME NEW r \in Requests, OsActionDone(r) PROVE OnceInv'
    BY <2>0, <2>6 DEF OsActionDone, AfterOs, outbound, OnceInv, TypeOK
  <2>7. ASSUME NEW r \in Requests, Timeout(r) PROVE OnceInv'
    BY <2>0, <2>7 DEF Timeout, Expired, outbound, OnceInv, TypeOK
  <2>8. CASE Shutdown
    BY <2>0, <2>8 DEF Shutdown, outbound, OnceInv
  <2>9. CASE UNCHANGED <<up, sent, inFlight, osRunning, pending, timer>>
    BY <2>9 DEF OnceInv
  <2>10. \/ \E r \in Requests, c \in Contexts \cup {NoCtx} : Accept(r, c)
         \/ \E w \in Ws, c \in Contexts : RegisterExtension(w, c) \/ RegisterAgent(w, c)
         \/ \E r \in Requests : \/ GateGranted(r) \/ ReplyArrives(r) \/ OsReplyArrives(r)
                                \/ OsActionDone(r) \/ Timeout(r)
         \/ Shutdown
         \/ UNCHANGED <<up, sent, inFlight, osRunning, pending, timer>>
    BY DEF Next, WsConnect, WsClose, RegisterRelay, RelayClose, StdinEnd, AcceptGated, GateDenied,
           AcceptDirect, DirectDone, ForgetTimedOut, table, outbound, vars
  <2> QED  BY <2>1, <2>2, <2>3, <2>4, <2>5, <2>6, <2>7, <2>8, <2>9, <2>10
<1> QED  BY <1>1, <1>2, TypeCorrect, RequestInvariant, QueueInvariant, PTL DEF Spec

\* The requests the service has let in.
Entered == {r \in Requests : phase[r] # "new"}

\* An answer to a request that has none is an answer of the service.
LEMMA FirstAnswer ==
  ASSUME TypeOK, up, UNCHANGED up, NEW r \in Requests, NEW o \in Outcomes, answers[r] = <<>>,
         answers' = [answers EXCEPT ![r] = Append(@, o)],
         phase[r] # "new", Entered' = Entered
  PROVE  Service!Answer(r)
<1>1. Append(answers[r], o) = <<o>>
  OBVIOUS
<1>2. answers' = [answers EXCEPT ![r] = <<o>>]
  BY <1>1
<1> QED  BY <1>2 DEF Service!Answer, Entered

\* Dispatching a new request, answered at once or not, lets it in.
LEMMA DispatchEnters ==
  ASSUME TypeOK, RequestInv, up, UNCHANGED up,
         NEW r \in Requests, NEW c \in Contexts \cup {NoCtx}, phase[r] = "new", Dispatch(r, c)
  PROVE  Service!Enter(r)
<1>1. Entered' = Entered \cup {r} /\ r \notin Entered
  <2>1. PICK p \in {"dispatched", "refused"} : phase' = [phase EXCEPT ![r] = p]
    BY DispatchOutbound
  <2>2. phase'[r] # "new" /\ \A x \in Requests : x # r => phase'[x] = phase[x]
    BY <2>1 DEF TypeOK
  <2> QED  BY <2>2 DEF Entered
<1>2. answers[r] = <<>>
  BY DEF RequestInv
<1>3. Append(answers[r], "error") = <<"error">>
  BY <1>2
<1>4. answers' = answers \/ answers' = [answers EXCEPT ![r] = <<"error">>]
  BY <1>3, DispatchOutcomes
<1> QED  BY <1>1, <1>4 DEF Service!Enter, Entered

\* Dispatching a request that waited at its gate answers it, or nobody notices.
LEMMA DispatchAnswers ==
  ASSUME TypeOK, RequestInv, up, UNCHANGED up,
         NEW r \in Requests, NEW c \in Contexts \cup {NoCtx}, phase[r] = "gated", Dispatch(r, c)
  PROVE  Service!Answer(r) \/ UNCHANGED Service!svars
<1>1. Entered' = Entered
  BY DispatchOutbound DEF Entered, TypeOK
<1>2. answers[r] = <<>> /\ phase[r] # "new"
  BY DEF RequestInv
<1>3. CASE answers' = answers
  BY <1>1, <1>3 DEF Service!svars, Entered
<1>4. CASE answers' = [answers EXCEPT ![r] = Append(@, "error")]
  BY <1>1, <1>2, <1>4, FirstAnswer DEF Outcomes
<1> QED  BY <1>3, <1>4, DispatchOutcomes

\* Where a browser answers a delivered request at most once, or no request asks for an
\* input event, the broker is the service it promises: an answer is given once and
\* kept, a late response, a timer that fired, an input event that ends and the shutdown
\* never answer again.
THEOREM ServiceImplemented ==
  ASSUME ReplyCopies <= 1 \/ OsRequests = {}
  PROVE  Spec => ImplementsService
<1>1. Init => Service!Init
  BY DEF Init, Service!Init
<1>2. TypeOK /\ RequestInv /\ OnceInv /\ [Next]_vars => [Service!Next]_Service!svars
  <2> SUFFICES ASSUME TypeOK, RequestInv, OnceInv, [Next]_vars
               PROVE  [Service!Next]_Service!svars
    OBVIOUS
  <2> DEFINE Served == [Service!Next]_Service!svars
  <2>a. \A r \in Requests : Service!Enter(r) \/ Service!Answer(r) => Served
    BY DEF Service!Next
  <2>b. UNCHANGED <<up, Entered, answers>> => Served
    BY DEF Service!svars, Entered
  <2>c. {"result", "error", "timeout", "shutdown"} = Outcomes
    BY DEF Outcomes
  <2>1. ASSUME NEW r \in Requests, NEW c \in Contexts \cup {NoCtx}, Accept(r, c) PROVE Served
    BY <2>1, <2>a, DispatchEnters DEF Accept
  <2>2. ASSUME NEW r \in Requests, UNCHANGED <<up, answers>>, up, phase[r] = "new",
               \E p \in {"gated", "direct"} : phase' = [phase EXCEPT ![r] = p]
        PROVE  Served
    <3>1. Entered' = Entered \cup {r} /\ r \notin Entered
      BY <2>2 DEF Entered, TypeOK
    <3>2. Service!Enter(r)
      BY <2>2, <3>1 DEF Service!Enter, Entered
    <3> QED  BY <2>a, <3>2
  <2>3. ASSUME NEW r \in Requests, GateGranted(r) PROVE Served
    <3>1. Service!Answer(r) \/ UNCHANGED Service!svars
      BY <2>3, DispatchAnswers DEF GateGranted, TypeOK
    <3> QED  BY <3>1, <2>a
  <2>4. ASSUME NEW r \in Requests, GateDenied(r) \/ DirectDone(r) PROVE Served
    <3>1. Entered' = Entered
      BY <2>4 DEF GateDenied, DirectDone, Entered, TypeOK
    <3>2. answers[r] = <<>> /\ phase[r] # "new"
      BY <2>4 DEF GateDenied, DirectDone, RequestInv
    <3>3. Service!Answer(r)
      BY <2>4, <2>c, <3>1, <3>2, FirstAnswer DEF GateDenied, DirectDone
    <3> QED  BY <2>a, <3>3
  <2>5. ASSUME NEW r \in Requests, NEW o \in Outcomes, r \in pending, up, UNCHANGED <<up, phase>>,
               answers' = [answers EXCEPT ![r] = Append(@, o)]
        PROVE  Served
    <3>1. Entered' = Entered /\ answers[r] = <<>> /\ phase[r] # "new"
      BY <2>5 DEF Entered, RequestInv
    <3> QED  BY <2>5, <2>a, <3>1, FirstAnswer
  <2>6. ASSUME NEW r \in Requests, ReplyArrives(r) PROVE Served
    <3>1. CASE r \in pending
      BY <2>5, <2>6, <2>c, <3>1 DEF ReplyArrives
    <3>2. CASE r \notin pending
      BY <2>6, <2>b, <3>2 DEF ReplyArrives, Entered
    <3> QED  BY <3>1, <3>2
  <2>7. ASSUME NEW r \in Requests, OsActionDone(r) PROVE Served
    <3>1. r \in OsRequests
      BY <2>7 DEF OsActionDone, RequestInv
    <3>2. r \in pending
      BY <2>7, <3>1 DEF OsActionDone, OnceInv
    <3> QED  BY <2>5, <2>7, <2>c, <3>2 DEF OsActionDone
  <2>8. ASSUME NEW r \in Requests, Timeout(r) PROVE Served
    BY <2>5, <2>8, <2>c DEF Timeout, RequestInv
  <2>9. CASE Shutdown
    <3>1. \A r \in pending : r \in Entered /\ answers[r] = <<>>
      BY DEF RequestInv, Entered, TypeOK
    <3>2. ASSUME NEW r \in pending
          PROVE  Append(answers[r], "shutdown") = <<"shutdown">>
      <4>1. answers[r] = <<>>
        BY <3>1
      <4> QED  BY <4>1
    <3> DEFINE S == pending \cap CliRequests
    <3>3. answers' = [r \in Requests |-> IF r \in S THEN <<"shutdown">> ELSE answers[r]]
      BY <2>9, <3>2 DEF Shutdown
    <3>4. S \in SUBSET {r \in Entered : answers[r] = <<>>}
      BY <3>1
    <3>5. Service!Stop
      BY <2>9, <3>3, <3>4 DEF Shutdown, Service!Stop, Entered
    <3> QED  BY <3>5 DEF Service!Next
  <2>10. CASE UNCHANGED <<up, phase, answers>>
    BY <2>b, <2>10 DEF Entered
  <2>11. \/ \E r \in Requests, c \in Contexts \cup {NoCtx} : Accept(r, c)
         \/ \E r \in Requests :
              /\ up /\ UNCHANGED <<up, answers>> /\ phase[r] = "new"
              /\ \E p \in {"gated", "direct"} : phase' = [phase EXCEPT ![r] = p]
         \/ \E r \in Requests :
              \/ GateGranted(r) \/ GateDenied(r) \/ DirectDone(r)
              \/ ReplyArrives(r) \/ OsActionDone(r) \/ Timeout(r)
         \/ Shutdown
         \/ UNCHANGED <<up, phase, answers>>
    BY DEF Next, WsConnect, WsClose, RegisterExtension, RegisterAgent, RegisterRelay, RelayClose,
           StdinEnd, AcceptGated, AcceptDirect, OsReplyArrives, ForgetTimedOut, table, vars
  <2> QED  BY <2>1, <2>2, <2>3, <2>4, <2>6, <2>7, <2>8, <2>9, <2>10, <2>11
<1> QED
  BY <1>1, <1>2, TypeCorrect, RequestInvariant, OnceInvariant, PTL
     DEF Spec, ImplementsService, Service!Spec

\* A requester sees one answer, and what it saw is never replaced.
AnsweredOnce == \A r \in Requests : Len(answers[r]) <= 1
AnswersKept  == [][\A r \in Requests : answers[r] # <<>> => answers'[r] = answers[r]]_answers

\* The service answers once and keeps its answers, and so does the broker under the
\* hypothesis of its refinement, for requests with input events as well.
THEOREM AnswersFinal ==
  ASSUME ReplyCopies <= 1 \/ OsRequests = {}
  PROVE  Spec => []AnsweredOnce /\ AnswersKept
<1>1. TypeOK /\ RequestInv /\ [Service!Next]_Service!svars =>
        \A x \in Requests : \/ answers'[x] = answers[x]
                            \/ answers[x] = <<>> /\ \E o : answers'[x] = <<o>>
  <2> SUFFICES ASSUME TypeOK, RequestInv, [Service!Next]_Service!svars, NEW x \in Requests
               PROVE  \/ answers'[x] = answers[x]
                      \/ answers[x] = <<>> /\ \E o : answers'[x] = <<o>>
    OBVIOUS
  <2>1. ASSUME NEW r \in Requests, answers[r] = <<>>, NEW o,
               answers' = [answers EXCEPT ![r] = <<o>>]
        PROVE  \/ answers'[x] = answers[x]
               \/ answers[x] = <<>> /\ \E v : answers'[x] = <<v>>
    BY <2>1 DEF TypeOK
  <2>2. ASSUME NEW r \in Requests, Service!Enter(r)
        PROVE  answers[r] = <<>> /\ (answers' = answers \/ answers' = [answers EXCEPT ![r] = <<"error">>])
    BY <2>2 DEF Service!Enter, RequestInv
  <2>3. ASSUME NEW r \in Requests, Service!Answer(r)
        PROVE  answers[r] = <<>> /\ \E o : answers' = [answers EXCEPT ![r] = <<o>>]
    BY <2>3 DEF Service!Answer
  <2>4. CASE Service!Stop
    <3>1. PICK S \in SUBSET {r \in Requests : answers[r] = <<>>} :
            answers' = [r \in Requests |-> IF r \in S THEN <<"shutdown">> ELSE answers[r]]
      BY <2>4 DEF Service!Stop
    <3> QED  BY <3>1
  <2>5. CASE answers' = answers
    BY <2>5
  <2>6. \/ \E r \in Requests : Service!Enter(r) \/ Service!Answer(r)
        \/ Service!Stop
        \/ answers' = answers
    BY DEF Service!Next, Service!svars
  <2> QED  BY <2>1, <2>2, <2>3, <2>4, <2>5, <2>6
<1>2. Init => AnsweredOnce
  BY DEF Init, AnsweredOnce
<1>3. TypeOK /\ RequestInv /\ AnsweredOnce /\ [Service!Next]_Service!svars => AnsweredOnce'
  <2>1. \A o : Len(<<o>>) <= 1
    OBVIOUS
  <2> QED  BY <1>1, <2>1 DEF AnsweredOnce
<1>4. TypeOK /\ RequestInv /\ [Service!Next]_Service!svars
        => [\A r \in Requests : answers[r] # <<>> => answers'[r] = answers[r]]_answers
  BY <1>1
<1> QED
  BY <1>2, <1>3, <1>4, ServiceImplemented, TypeCorrect, RequestInvariant, PTL
     DEF Spec, ImplementsService, Service!Spec, AnswersKept
=============================================================================
