------------------------------ MODULE BridgeLink ------------------------------
(***************************************************************************)
(* The daemon's link to interceptor-bridge (daemon/index.ts): connecting   *)
(* on demand and after a close, spawning the bridge, the requests in       *)
(* flight, and the one receive buffer; and the bridge's transport          *)
(* (Transport.swift), which answers the requests of a connection in any    *)
(* order, one frame at a time.                                             *)
(*                                                                         *)
(* A response frame crosses in two pieces, so that a chunk can end inside  *)
(* it. Requests reach the bridge whole (SocketStream is about that). A     *)
(* connection is a slot of Conns, reused once it is closed.                *)
(***************************************************************************)
EXTENDS Naturals, SequencesExt

CONSTANTS
  Requests,     \* requests of the CLI, of runtime agents and of the daemon itself
  Conns,        \* slots for connections
  MaxCrashes,   \* bound on the times the bridge goes down
  Timer,        \* stands for a reconnect timer as the caller of connectBridge
  None

ASSUME BridgeAssumption ==
  /\ Timer \notin Requests /\ None \notin Requests \cup Conns /\ Timer # None
  /\ MaxCrashes \in Nat

Callers == Requests \cup {Timer}
Piece   == [req : Requests, part : {"head", "tail"}]
Answer  == {"result", "disconnected", "timeout", "lost", "unavailable"}

VARIABLES
  \* daemon
  bridgeSocket, connecting,
  buffer,        \* bridgeBuffer
  pending,       \* bridgePending
  answers,       \* what each request was answered with
  waiting,       \* requests inside an await of connectBridge
  timers,        \* reconnect timers that have not fired
  dialer,        \* who awaits the connection of a slot
  spawner,       \* who called spawnBridge last, from which of its two call sites,
                 \* and whether it still awaits it
  spawnAttempted,
  \* connections
  conn,          \* "free", "dialing", "open", "dead" (its close event is due)
  wire,          \* pieces on their way to the daemon
  \* bridge
  bridge,        \* "down", "starting", "up"
  file,          \* its socket file exists
  work,          \* requests a connection's handler has taken
  writing,       \* the response it is writing
  via,           \* the connection a request was sent on
  crashes

client == <<bridgeSocket, connecting, buffer, pending, answers, waiting, timers,
            dialer, spawner, spawnAttempted>>
server == <<bridge, file, work, writing, crashes>>
vars   == <<client, conn, wire, server, via>>

Init ==
  /\ bridgeSocket = None /\ connecting = FALSE /\ buffer = <<>> /\ pending = {}
  /\ answers = [r \in Requests |-> <<>>] /\ waiting = {}
  /\ timers = 1
  /\ dialer = [c \in Conns |-> None]
  /\ spawner = [who |-> None, retry |-> FALSE, awaits |-> FALSE] /\ spawnAttempted = FALSE
  /\ conn = [c \in Conns |-> "free"] /\ wire = [c \in Conns |-> <<>>]
  /\ bridge \in {"down", "up"} /\ file = (bridge = "up")
  /\ work = [c \in Conns |-> {}] /\ writing = [c \in Conns |-> None]
  /\ via = [r \in Requests |-> None] /\ crashes = 0

-----------------------------------------------------------------------------
(* Requests *)

Respond(r, a) == answers' = [answers EXCEPT ![r] = Append(@, a)]

\* sendToBridge over c: a socket whose peer is gone may still take the bytes.
SendToBridge(r, c) ==
  \/ /\ conn[c] = "open"
     /\ work' = [work EXCEPT ![c] = @ \cup {r}]
     /\ pending' = pending \cup {r}
     /\ via' = [via EXCEPT ![r] = c]
     /\ UNCHANGED answers
  \/ /\ conn[c] = "dead"
     /\ pending' = pending \cup {r}
     /\ via' = [via EXCEPT ![r] = c]
     /\ UNCHANGED <<answers, work>>
  \/ /\ conn[c] = "dead"
     /\ Respond(r, "lost")
     /\ UNCHANGED <<pending, via, work>>

\* connectBridge returned false to its caller.
RefuseKeepsWaitingFaulty(caller) ==
  /\ IF caller = Timer THEN UNCHANGED answers ELSE Respond(caller, "unavailable")
  /\ UNCHANGED waiting
Refuse(caller) ==
  IF caller = Timer
  THEN UNCHANGED <<answers, waiting>>
  ELSE Respond(caller, "unavailable") /\ waiting' = waiting \ {caller}

Await(caller) ==
  /\ waiting' = waiting \cup ({caller} \ {Timer})
  /\ UNCHANGED answers

\* spawnBridge, from one of its two call sites.
SpawnBridge(caller, retry) ==
  /\ UNCHANGED <<conn, dialer, connecting>>
  /\ \/ /\ spawnAttempted
        /\ Refuse(caller)
        /\ UNCHANGED <<spawner, spawnAttempted>>
     \/ /\ ~spawnAttempted
        /\ spawnAttempted' = TRUE
        /\ spawner' = [who |-> caller, retry |-> retry, awaits |-> TRUE]
        /\ Await(caller)

Dial(caller) ==
  /\ \E c \in Conns :
       /\ conn[c] = "free"
       /\ conn' = [conn EXCEPT ![c] = "dialing"]
       /\ dialer' = [dialer EXCEPT ![c] = caller]
  /\ connecting' = TRUE
  /\ Await(caller)
  /\ UNCHANGED spawnAttempted

\* connectBridge up to its first await. It does not ask whether there is a
\* connection already.
ConnectBridge(caller) ==
  \/ /\ connecting \/ (~file /\ bridge # "down")
     /\ Refuse(caller)
     /\ UNCHANGED <<conn, dialer, connecting, spawner, spawnAttempted>>
  \/ /\ ~connecting /\ ~file /\ bridge = "down"
     /\ SpawnBridge(caller, FALSE)
  \/ /\ ~connecting /\ file
     /\ Dial(caller)
     /\ UNCHANGED spawner

\* routeToBridge
Route(r) ==
  /\ answers[r] = <<>> /\ r \notin pending \cup waiting
  /\ IF bridgeSocket # None
     THEN /\ SendToBridge(r, bridgeSocket)
          /\ UNCHANGED <<waiting, connecting, dialer, spawner, spawnAttempted, conn>>
     ELSE /\ ConnectBridge(r)
          /\ UNCHANGED <<pending, work, via>>
  /\ UNCHANGED <<bridgeSocket, buffer, timers, wire, bridge, file, writing, crashes>>

TimerFires ==
  /\ timers > 0
  /\ timers' = timers - 1
  /\ ConnectBridge(Timer)
  /\ UNCHANGED <<bridgeSocket, buffer, pending, wire, server, via>>

\* spawnBridge returns: with the socket file there its first caller dials at once,
\* and the one in connectBridge's catch starts over.
SpawnReturns ==
  /\ spawner.awaits
  /\ spawner' = [spawner EXCEPT !.awaits = FALSE]
  /\ \/ /\ file /\ ~spawner.retry
        /\ Dial(spawner.who)
     \/ /\ file /\ spawner.retry /\ ~connecting
        /\ Dial(spawner.who)
     \/ /\ ~file \/ (spawner.retry /\ connecting)
        /\ Refuse(spawner.who)
        /\ UNCHANGED <<conn, dialer, connecting, spawnAttempted>>
  /\ UNCHANGED <<bridgeSocket, buffer, pending, timers, wire, server, via>>

\* Ten seconds after spawnBridge returned: the dial its caller then made is over.
SpawnCooldown ==
  /\ spawnAttempted /\ ~spawner.awaits
  /\ \A c \in Conns : conn[c] = "dialing" => dialer[c] # spawner.who
  /\ spawnAttempted' = FALSE
  /\ spawner' = [spawner EXCEPT !.who = None]
  /\ UNCHANGED <<bridgeSocket, connecting, buffer, pending, answers, waiting, timers, dialer,
                 conn, wire, server, via>>

\* open, and the caller that awaited it.
OpenedForTimerFaulty(c) ==
  /\ conn[c] = "dialing" /\ bridge = "up"
  /\ conn' = [conn EXCEPT ![c] = "open"]
  /\ bridgeSocket' = c
  /\ buffer' = <<>>
  /\ connecting' = FALSE
  /\ dialer' = [dialer EXCEPT ![c] = None]
  /\ waiting' = waiting \ {dialer[c]}
  /\ pending' = pending \cup {dialer[c]}
  /\ UNCHANGED <<answers, timers, spawner, spawnAttempted, wire, server, via>>
Opened(c) ==
  /\ conn[c] = "dialing" /\ bridge = "up"
  /\ conn' = [conn EXCEPT ![c] = "open"]
  /\ bridgeSocket' = c
  /\ buffer' = <<>>
  /\ connecting' = FALSE
  /\ dialer' = [dialer EXCEPT ![c] = None]
  /\ IF dialer[c] = Timer
     THEN UNCHANGED <<waiting, pending, work, via>>
     ELSE /\ waiting' = waiting \ {dialer[c]}
          /\ pending' = pending \cup {dialer[c]}
          /\ work' = [work EXCEPT ![c] = @ \cup {dialer[c]}]
          /\ via' = [via EXCEPT ![dialer[c]] = c]
  /\ UNCHANGED <<answers, timers, spawner, spawnAttempted, wire, bridge, file, writing, crashes>>

\* The connection is refused: connectBridge's catch.
DialFails(c) ==
  /\ conn[c] = "dialing" /\ bridge # "up"
  /\ conn' = [conn EXCEPT ![c] = "free"]
  /\ dialer' = [dialer EXCEPT ![c] = None]
  /\ connecting' = FALSE
  /\ \/ /\ bridge = "down" /\ ~spawnAttempted
        /\ spawnAttempted' = TRUE
        /\ spawner' = [who |-> dialer[c], retry |-> TRUE, awaits |-> TRUE]
        /\ UNCHANGED <<answers, waiting>>
     \/ /\ bridge # "down" \/ spawnAttempted
        /\ Refuse(dialer[c])
        /\ UNCHANGED <<spawner, spawnAttempted>>
  /\ UNCHANGED <<bridgeSocket, buffer, pending, timers, wire, server, via>>

TimeoutKeepsFaulty(r) ==
  /\ r \in pending
  /\ Respond(r, "timeout")
  /\ UNCHANGED <<bridgeSocket, connecting, buffer, pending, waiting, timers, dialer, spawner,
                 spawnAttempted, conn, wire, server, via>>
Timeout(r) ==
  /\ r \in pending
  /\ pending' = pending \ {r}
  /\ Respond(r, "timeout")
  /\ UNCHANGED <<bridgeSocket, connecting, buffer, waiting, timers, dialer, spawner,
                 spawnAttempted, conn, wire, server, via>>

\* failPendingBridgeRequests and the rest of the close handler.
CloseForgetsFaulty(c) ==
  /\ conn[c] = "dead" /\ wire[c] = <<>>
  /\ conn' = [conn EXCEPT ![c] = "free"]
  /\ pending' = {}
  /\ bridgeSocket' = None /\ connecting' = FALSE
  /\ timers' = timers + 1
  /\ UNCHANGED <<buffer, answers, waiting, dialer, spawner, spawnAttempted, wire, server, via>>
CloseKeepsPendingFaulty(c) ==
  /\ conn[c] = "dead" /\ wire[c] = <<>>
  /\ conn' = [conn EXCEPT ![c] = "free"]
  /\ bridgeSocket' = None /\ connecting' = FALSE
  /\ timers' = timers + 1
  /\ UNCHANGED <<buffer, pending, answers, waiting, dialer, spawner, spawnAttempted, wire, server, via>>
Close(c) ==
  /\ conn[c] = "dead" /\ wire[c] = <<>>
  /\ conn' = [conn EXCEPT ![c] = "free"]
  /\ answers' = [r \in Requests |->
                   IF r \in pending THEN Append(answers[r], "disconnected") ELSE answers[r]]
  /\ pending' = {}
  /\ bridgeSocket' = None /\ connecting' = FALSE
  /\ timers' = timers + 1
  /\ UNCHANGED <<buffer, waiting, dialer, spawner, spawnAttempted, wire, server, via>>

-----------------------------------------------------------------------------
(* Responses *)

\* processBridgeBuffer: a frame whose pieces belong together resolves its request;
\* one put together from two frames does not parse, and leaves what its length did
\* not cover; bytes that are no header empty the buffer or are waited on.
Process(b) ==
  \/ /\ Len(b) = 1 /\ b[1].part = "head"
     /\ buffer' = b
     /\ UNCHANGED <<pending, answers>>
  \/ /\ Len(b) = 2 /\ b[1].part = "head"
     /\ b[2] = [req |-> b[1].req, part |-> "tail"]
     /\ buffer' = <<>>
     /\ IF b[1].req \in pending
        THEN pending' = pending \ {b[1].req} /\ Respond(b[1].req, "result")
        ELSE UNCHANGED <<pending, answers>>
  \/ /\ Len(b) = 2 /\ b[1].part = "head"
     /\ b[2] # [req |-> b[1].req, part |-> "tail"]
     /\ buffer' \in {<<>>, <<[b[2] EXCEPT !.part = "tail"]>>}
     /\ UNCHANGED <<pending, answers>>
  \/ /\ b[1].part = "tail"
     /\ buffer' \in {b, <<>>}
     /\ UNCHANGED <<pending, answers>>

Data(c) ==
  /\ conn[c] \in {"open", "dead"} /\ wire[c] # <<>>
  /\ wire' = [wire EXCEPT ![c] = Tail(@)]
  /\ Process(Append(buffer, Head(wire[c])))
  /\ UNCHANGED <<bridgeSocket, connecting, waiting, timers, dialer, spawner, spawnAttempted,
                 conn, server, via>>

-----------------------------------------------------------------------------
(* The bridge. Its handlers finish in any order; the write queue of a          *)
(* connection writes one frame after the other.                                *)

BeginWrite(c, r) ==
  /\ r \in work[c] /\ writing[c] = None /\ conn[c] = "open"
  /\ work' = [work EXCEPT ![c] = @ \ {r}]
  /\ writing' = [writing EXCEPT ![c] = r]
  /\ wire' = [wire EXCEPT ![c] = Append(@, [req |-> r, part |-> "head"])]
  /\ UNCHANGED <<client, conn, bridge, file, crashes, via>>

EndWrite(c) ==
  /\ writing[c] # None /\ conn[c] = "open"
  /\ writing' = [writing EXCEPT ![c] = None]
  /\ wire' = [wire EXCEPT ![c] = Append(@, [req |-> writing[c], part |-> "tail"])]
  /\ UNCHANGED <<client, conn, bridge, file, work, crashes, via>>

\* It crashes, leaving its socket file, or exits and removes it.
BridgeGoesDown ==
  /\ bridge # "down" /\ crashes < MaxCrashes
  /\ crashes' = crashes + 1
  /\ bridge' = "down"
  /\ file' \in {file, FALSE}
  /\ conn' = [c \in Conns |-> IF conn[c] = "open" THEN "dead" ELSE conn[c]]
  /\ work' = [c \in Conns |-> {}]
  /\ writing' = [c \in Conns |-> None]
  /\ UNCHANGED <<client, wire, via>>

BridgeStarts ==
  /\ bridge = "down"
  /\ bridge' = "starting"
  /\ UNCHANGED <<client, conn, wire, file, work, writing, crashes, via>>

BridgeListens ==
  /\ bridge = "starting"
  /\ bridge' = "up"
  /\ file' = TRUE
  /\ UNCHANGED <<client, conn, wire, work, writing, crashes, via>>

-----------------------------------------------------------------------------
Next ==
  \/ \E r \in Requests : Route(r) \/ Timeout(r)
  \/ TimerFires \/ SpawnReturns \/ SpawnCooldown
  \/ \E c \in Conns : Opened(c) \/ DialFails(c) \/ Close(c) \/ Data(c) \/ EndWrite(c)
  \/ \E c \in Conns, r \in Requests : BeginWrite(c, r)
  \/ BridgeGoesDown \/ BridgeStarts \/ BridgeListens

\* The daemon's event loop serves its timers, awaits and sockets. Nothing is assumed
\* of the bridge but that one which has begun to start will listen.
Fairness ==
  /\ \A r \in Requests : WF_vars(Timeout(r))
  /\ WF_vars(TimerFires) /\ WF_vars(SpawnReturns) /\ WF_vars(SpawnCooldown)
  /\ \A c \in Conns : WF_vars(Opened(c) \/ DialFails(c)) /\ WF_vars(Close(c)) /\ WF_vars(Data(c))
  /\ WF_vars(BridgeListens)

Spec     == Init /\ [][Next]_vars
FairSpec == Spec /\ Fairness

-----------------------------------------------------------------------------
(* Properties *)

TypeOK ==
  /\ bridgeSocket \in Conns \cup {None} /\ connecting \in BOOLEAN
  /\ buffer \in Seq(Piece) /\ pending \subseteq Requests /\ waiting \subseteq Requests
  /\ answers \in [Requests -> Seq(Answer)]
  /\ timers \in Nat
  /\ dialer \in [Conns -> Callers \cup {None}]
  /\ spawner \in [who : Callers \cup {None}, retry : BOOLEAN, awaits : BOOLEAN] /\ spawnAttempted \in BOOLEAN
  /\ conn \in [Conns -> {"free", "dialing", "open", "dead"}]
  /\ wire \in [Conns -> Seq(Piece)]
  /\ bridge \in {"down", "starting", "up"} /\ file \in BOOLEAN
  /\ work \in [Conns -> SUBSET Requests] /\ writing \in [Conns -> Requests \cup {None}]
  /\ via \in [Requests -> Conns \cup {None}] /\ crashes \in 0 .. MaxCrashes

\* However timeouts, closes and late responses meet, a request is answered once.
AnsweredOnce == \A r \in Requests : Len(answers[r]) <= 1

\* A request inside an await is held by exactly one dial or spawn, so that one of
\* them will answer it or send it; and it is in flight only when none holds it.
WaitingIsHeld ==
  \A r \in Requests :
    LET holds  == {c \in Conns : dialer[c] = r}
        spawns == spawner.awaits /\ spawner.who = r
    IN
    /\ r \in waiting => /\ (holds # {}) # spawns
                        /\ \A c, d \in holds : c = d
                        /\ answers[r] = <<>> /\ r \notin pending
    /\ r \notin waiting => holds = {} /\ ~spawns

\* Once the daemon has seen every connection close, no request is left in flight to
\* sit out its timeout (issue #222).
PendingHasConnection ==
  pending # {} => \E c \in Conns : conn[c] \in {"open", "dead"}

\* A request between its arrival and its answer is on exactly one way to it.
NothingForgotten == WaitingIsHeld /\ PendingHasConnection

\* Every request that entered is answered, unless the slots of the model, which the
\* code does not have, are used up for good.
EveryRequestAnswered ==
  \A r \in Requests : r \in pending \cup waiting ~>
    (answers[r] # <<>> \/ [](\A c \in Conns : conn[c] # "free"))
=============================================================================
