--------------------------- MODULE BridgeLinkProofs ---------------------------
(***************************************************************************)
(* Theorems about the daemon's link to the bridge, for any requests and    *)
(* any number of connections and outages.                                  *)
(***************************************************************************)
EXTENDS BridgeLink, TLAPS

-----------------------------------------------------------------------------
(* The inductive invariant *)

Spawns(r) == spawner.awaits /\ spawner.who = r

\* Where a request is: nowhere yet or answered, held by one dial or by the spawn, or in
\* flight; and what it has been answered with.
RequestInv(r) ==
  /\ Len(answers[r]) <= 1
  /\ r \in pending \cup waiting => answers[r] = <<>>
  /\ ~(r \in pending /\ r \in waiting)
  /\ \A c, d \in Conns : dialer[c] = r /\ dialer[d] = r => c = d
  /\ \A c \in Conns : dialer[c] = r => r \in waiting /\ ~Spawns(r)
  /\ Spawns(r) => r \in waiting
  /\ r \in waiting => Spawns(r) \/ \E c \in Conns : dialer[c] = r

\* Somebody awaits a dial as long as it lasts.
DialAwaited == \A c \in Conns : conn[c] = "dialing" <=> dialer[c] # None

\* Nobody calls spawnBridge while another waits for it.
OneSpawn == spawner.awaits => spawner.who # None /\ spawnAttempted

\* The types of what connecting changes.
CallTypes ==
  /\ answers \in [Requests -> Seq(Answer)] /\ waiting \subseteq Requests
  /\ conn \in [Conns -> {"free", "dialing", "open", "dead"}]
  /\ dialer \in [Conns -> Callers \cup {None}] /\ connecting \in BOOLEAN
  /\ spawner \in [who : Callers \cup {None}, retry : BOOLEAN, awaits : BOOLEAN]
  /\ spawnAttempted \in BOOLEAN

Core ==
  /\ CallTypes /\ pending \subseteq Requests
  /\ \A r \in Requests : RequestInv(r)
  /\ DialAwaited /\ OneSpawn /\ PendingHasConnection

\* The types of the rest.
RestTypes ==
  /\ bridgeSocket \in Conns \cup {None} /\ buffer \in Seq(Piece) /\ timers \in Nat
  /\ wire \in [Conns -> Seq(Piece)]
  /\ bridge \in {"down", "starting", "up"} /\ file \in BOOLEAN
  /\ work \in [Conns -> SUBSET Requests] /\ writing \in [Conns -> Requests \cup {None}]
  /\ via \in [Requests -> Conns \cup {None}] /\ crashes \in 0 .. MaxCrashes

LinkInv == Core /\ RestTypes

-----------------------------------------------------------------------------
(* What a step leaves alone *)

SameFor(r) ==
  /\ answers'[r] = answers[r]
  /\ r \in pending' <=> r \in pending
  /\ r \in waiting' <=> r \in waiting
  /\ \A c \in Conns : dialer'[c] = r <=> dialer[c] = r
  /\ Spawns(r)' <=> Spawns(r)

LEMMA SameKeeps ==
  ASSUME NEW r \in Requests, RequestInv(r), SameFor(r)
  PROVE  RequestInv(r)'
BY DEF RequestInv, SameFor

\* An answer to a request that has none yet.
LEMMA FirstAnswer ==
  ASSUME answers \in [Requests -> Seq(Answer)], NEW r \in Requests, answers[r] = <<>>,
         NEW a \in Answer, Respond(r, a)
  PROVE  /\ answers' \in [Requests -> Seq(Answer)] /\ Len(answers'[r]) <= 1
         /\ \A q \in Requests : q # r => answers'[q] = answers[q]
BY DEF Respond

\* A caller that connectBridge refuses: a request is answered and waits no more.
LEMMA RefuseKeeps ==
  ASSUME Core, NEW caller \in Callers, Refuse(caller),
         caller # Timer => answers[caller] = <<>>
  PROVE  /\ answers' \in [Requests -> Seq(Answer)] /\ waiting' \subseteq Requests
         /\ \A q \in Requests : q # caller => /\ answers'[q] = answers[q]
                                              /\ q \in waiting' <=> q \in waiting
         /\ caller # Timer => Len(answers'[caller]) <= 1 /\ caller \notin waiting'
<1>1. CASE caller = Timer
  BY <1>1, BridgeAssumption DEF Refuse, Core, CallTypes
<1>2. CASE caller # Timer
  <2>1. caller \in Requests /\ Respond(caller, "unavailable") /\ waiting' = waiting \ {caller}
    BY <1>2 DEF Callers, Refuse
  <2>2. "unavailable" \in Answer  BY DEF Answer
  <2> QED  BY <1>2, <2>1, <2>2, FirstAnswer DEF Core, CallTypes
<1> QED  BY <1>1, <1>2

\* A dial for a caller that nobody holds any more.
LEMMA DialKeeps ==
  ASSUME Core, NEW caller \in Callers, Dial(caller), pending' = pending,
         caller # Timer => /\ answers[caller] = <<>> /\ caller \notin pending
                           /\ \A c \in Conns : dialer[c] # caller
                           /\ ~Spawns(caller)',
         spawner' \in [who : Callers \cup {None}, retry : BOOLEAN, awaits : BOOLEAN],
         \A q \in Requests : q # caller => (Spawns(q)' <=> Spawns(q)),
         OneSpawn'
  PROVE  Core'
<1>1. PICK c \in Conns : /\ conn[c] = "free" /\ conn' = [conn EXCEPT ![c] = "dialing"]
                         /\ dialer' = [dialer EXCEPT ![c] = caller]
  BY DEF Dial
<1>2. /\ connecting' = TRUE /\ waiting' = waiting \cup ({caller} \ {Timer}) /\ answers' = answers
      /\ spawnAttempted' = spawnAttempted
  BY DEF Dial, Await
<1>3. caller # None
  BY BridgeAssumption DEF Callers
<1>4. CallTypes' /\ pending' \subseteq Requests
  BY <1>1, <1>2 DEF Core, CallTypes, Callers
<1>5. /\ dialer[c] = None /\ dialer'[c] = caller /\ conn'[c] = "dialing"
      /\ \A d \in Conns : d # c => dialer'[d] = dialer[d] /\ conn'[d] = conn[d]
  BY <1>1 DEF Core, CallTypes, DialAwaited
<1>6. ASSUME NEW q \in Requests, q # caller  PROVE  RequestInv(q)'
  <2>1. q # None  BY BridgeAssumption
  <2>2. SameFor(q)  BY <1>2, <1>5, <1>6, <2>1 DEF SameFor
  <2> QED  BY <2>2, SameKeeps DEF Core
<1>7. ASSUME caller # Timer  PROVE  RequestInv(caller)'
  <2>1. caller \in Requests  BY <1>7 DEF Callers
  <2>2. answers'[caller] = <<>> /\ caller \notin pending' /\ caller \in waiting' /\ ~Spawns(caller)'
    BY <1>2, <1>7
  <2>3. \A d \in Conns : dialer'[d] = caller <=> d = c
    BY <1>5, <1>7
  <2> QED  BY <2>2, <2>3 DEF RequestInv
<1>8. \A r \in Requests : RequestInv(r)'
  BY <1>6, <1>7, BridgeAssumption
<1>9. DialAwaited'
  BY <1>3, <1>5 DEF Core, DialAwaited
<1>10. PendingHasConnection'
  BY <1>1, <1>5 DEF Core, PendingHasConnection
<1> QED  BY <1>4, <1>8, <1>9, <1>10 DEF Core

\* A refusal, with no dial or spawn for the caller left.
LEMMA RefusedKeeps ==
  ASSUME Core, NEW caller \in Callers, Refuse(caller), pending' = pending,
         caller # Timer => /\ answers[caller] = <<>> /\ caller \notin pending
                           /\ \A c \in Conns : dialer'[c] # caller
                           /\ ~Spawns(caller)',
         \A q \in Requests : q # caller => /\ Spawns(q)' <=> Spawns(q)
                                           /\ \A c \in Conns : dialer'[c] = q <=> dialer[c] = q
  PROVE  /\ answers' \in [Requests -> Seq(Answer)] /\ waiting' \subseteq Requests
         /\ \A r \in Requests : RequestInv(r)'
<1>1. /\ answers' \in [Requests -> Seq(Answer)] /\ waiting' \subseteq Requests
      /\ \A q \in Requests : q # caller => /\ answers'[q] = answers[q]
                                           /\ q \in waiting' <=> q \in waiting
      /\ caller # Timer => Len(answers'[caller]) <= 1 /\ caller \notin waiting'
  BY RefuseKeeps
<1>2. ASSUME NEW q \in Requests, q # caller  PROVE  RequestInv(q)'
  <2>1. SameFor(q)  BY <1>1, <1>2 DEF SameFor
  <2> QED  BY <2>1, SameKeeps DEF Core
<1>3. ASSUME caller # Timer  PROVE  RequestInv(caller)'
  <2>1. /\ Len(answers'[caller]) <= 1 /\ caller \notin waiting' /\ caller \notin pending'
        /\ ~Spawns(caller)' /\ \A c \in Conns : dialer'[c] # caller
    BY <1>1, <1>3
  <2> QED  BY <2>1 DEF RequestInv
<1> QED  BY <1>1, <1>2, <1>3, BridgeAssumption

\* connectBridge for a caller that is nowhere yet.
LEMMA ConnectKeeps ==
  ASSUME Core, NEW caller \in Callers, ConnectBridge(caller), pending' = pending,
         caller # Timer => answers[caller] = <<>> /\ caller \notin pending \cup waiting
  PROVE  Core'
<1>1. caller # Timer => /\ caller \in Requests /\ ~Spawns(caller)
                        /\ \A c \in Conns : dialer[c] # caller
  BY DEF Callers, Core, RequestInv
<1>2. CASE /\ Refuse(caller)
           /\ UNCHANGED <<conn, dialer, connecting, spawner, spawnAttempted>>
  <2>1. \A r \in Requests : Spawns(r)' <=> Spawns(r)
    BY <1>2 DEF Spawns
  <2>2. /\ answers' \in [Requests -> Seq(Answer)] /\ waiting' \subseteq Requests
        /\ \A r \in Requests : RequestInv(r)'
    BY <1>1, <1>2, <2>1, RefusedKeeps
  <2> QED  BY <1>2, <2>2 DEF Core, CallTypes, DialAwaited, OneSpawn, PendingHasConnection
<1>3. CASE ~connecting /\ file /\ Dial(caller) /\ UNCHANGED spawner
  <2>1. (\A r \in Requests : Spawns(r)' <=> Spawns(r)) /\ OneSpawn'
    BY <1>3 DEF Spawns, Core, OneSpawn, Dial
  <2> QED  BY <1>1, <1>3, <2>1, DialKeeps DEF Core, CallTypes
<1>4. CASE SpawnBridge(caller, FALSE)
  <2>1. CASE spawnAttempted
    BY <1>2, <1>4, <2>1 DEF SpawnBridge
  <2>2. CASE ~spawnAttempted
    <3>1. /\ spawnAttempted' = TRUE /\ spawner' = [who |-> caller, retry |-> FALSE, awaits |-> TRUE]
          /\ waiting' = waiting \cup ({caller} \ {Timer}) /\ answers' = answers
          /\ UNCHANGED <<conn, dialer, connecting>>
      BY <1>4, <2>2 DEF SpawnBridge, Await
    <3>2. \A r \in Requests : ~Spawns(r) /\ (Spawns(r)' <=> r = caller)
      BY <2>2, <3>1 DEF Core, OneSpawn, Spawns
    <3>3. ASSUME NEW q \in Requests, q # caller  PROVE  RequestInv(q)'
      <4>1. SameFor(q)  BY <3>1, <3>2, <3>3 DEF SameFor
      <4> QED  BY <4>1, SameKeeps DEF Core
    <3>4. caller # Timer => RequestInv(caller)'
      BY <1>1, <3>1, <3>2 DEF RequestInv
    <3>5. \A r \in Requests : RequestInv(r)'
      BY <3>3, <3>4, BridgeAssumption
    <3>6. CallTypes'
      BY <3>1 DEF Core, CallTypes, Callers
    <3>7. OneSpawn'
      BY <3>1, BridgeAssumption DEF OneSpawn, Callers
    <3> QED  BY <3>1, <3>5, <3>6, <3>7 DEF Core, DialAwaited, PendingHasConnection
  <2> QED  BY <2>1, <2>2
<1> QED  BY <1>2, <1>3, <1>4 DEF ConnectBridge

-----------------------------------------------------------------------------
(* The steps *)

\* A step that changes nothing of the requests and at most lets open connections die.
LEMMA QuietKeeps ==
  ASSUME Core, UNCHANGED <<answers, waiting, dialer, connecting, spawner, spawnAttempted, pending>>,
         conn' \in [Conns -> {"free", "dialing", "open", "dead"}],
         \A c \in Conns : conn'[c] = conn[c] \/ (conn[c] = "open" /\ conn'[c] = "dead")
  PROVE  Core'
<1>1. ASSUME NEW r \in Requests  PROVE  RequestInv(r)'
  <2>1. SameFor(r)  BY DEF SameFor, Spawns
  <2> QED  BY <2>1, SameKeeps DEF Core
<1>2. CallTypes' /\ pending' \subseteq Requests
  BY DEF Core, CallTypes
<1>3. DialAwaited' /\ OneSpawn'
  BY DEF Core, DialAwaited, OneSpawn
<1>4. PendingHasConnection'
  BY DEF Core, PendingHasConnection
<1> QED  BY <1>1, <1>2, <1>3, <1>4 DEF Core

LEMMA LinkInvInit == Init => LinkInv
<1> SUFFICES ASSUME Init  PROVE  LinkInv
  OBVIOUS
<1>1. RestTypes
  BY BridgeAssumption DEF Init, RestTypes
<1>2. CallTypes /\ pending \subseteq Requests
  <2>1. /\ answers \in [Requests -> Seq(Answer)] /\ waiting \subseteq Requests
        /\ pending \subseteq Requests /\ connecting \in BOOLEAN /\ spawnAttempted \in BOOLEAN
    <3>1. <<>> \in Seq(Answer)  OBVIOUS
    <3> QED  BY <3>1 DEF Init
  <2>2. /\ conn \in [Conns -> {"free", "dialing", "open", "dead"}]
        /\ dialer \in [Conns -> Callers \cup {None}]
    BY DEF Init
  <2>3. spawner \in [who : Callers \cup {None}, retry : BOOLEAN, awaits : BOOLEAN]
    BY DEF Init
  <2> QED  BY <2>1, <2>2, <2>3 DEF CallTypes
<1>3. ASSUME NEW r \in Requests  PROVE  RequestInv(r)
  <2>1. answers[r] = <<>> /\ r \notin pending /\ r \notin waiting /\ ~spawner.awaits
    BY DEF Init
  <2>2. \A c \in Conns : dialer[c] # r
    BY BridgeAssumption DEF Init
  <2> QED  BY <2>1, <2>2 DEF RequestInv, Spawns
<1>4. DialAwaited /\ OneSpawn /\ PendingHasConnection
  BY DEF Init, DialAwaited, OneSpawn, PendingHasConnection
<1> QED  BY <1>1, <1>2, <1>3, <1>4 DEF LinkInv, Core

LEMMA RouteKeeps ==
  ASSUME LinkInv, NEW r \in Requests, Route(r)
  PROVE  LinkInv'
<1>1. /\ Core /\ RestTypes /\ answers[r] = <<>> /\ r \notin pending \cup waiting
      /\ UNCHANGED <<bridgeSocket, buffer, timers, wire, bridge, file, writing, crashes>>
  BY DEF LinkInv, Route
<1>2. ~Spawns(r) /\ \A c \in Conns : dialer[c] # r
  BY <1>1 DEF Core, RequestInv
<1>3. CASE bridgeSocket = None
  <2>1. ConnectBridge(r) /\ UNCHANGED <<pending, work, via>>
    BY <1>3 DEF Route
  <2>2. r \in Callers  BY DEF Callers
  <2>3. Core'
    BY <1>1, <2>1, <2>2, ConnectKeeps
  <2>4. RestTypes'
    BY <1>1, <2>1 DEF RestTypes
  <2> QED  BY <2>3, <2>4 DEF LinkInv
<1>4. CASE bridgeSocket # None
  <2>1. /\ SendToBridge(r, bridgeSocket) /\ bridgeSocket \in Conns
        /\ UNCHANGED <<waiting, connecting, dialer, spawner, spawnAttempted, conn>>
    BY <1>1, <1>4 DEF Route, RestTypes
  <2>2. RestTypes'
    <3>1. work' \in [Conns -> SUBSET Requests]
      <4>1. work' = work \/ work' = [work EXCEPT ![bridgeSocket] = @ \cup {r}]
        BY <2>1 DEF SendToBridge
      <4>2. work[bridgeSocket] \cup {r} \in SUBSET Requests  BY <1>1, <2>1 DEF RestTypes
      <4> QED  BY <1>1, <2>1, <4>1, <4>2 DEF RestTypes
    <3>2. via' \in [Requests -> Conns \cup {None}]
      <4>1. via' = via \/ via' = [via EXCEPT ![r] = bridgeSocket]
        BY <2>1 DEF SendToBridge
      <4> QED  BY <1>1, <2>1, <4>1 DEF RestTypes
    <3> QED  BY <1>1, <3>1, <3>2 DEF RestTypes
  <2>3. \A q \in Requests : Spawns(q)' <=> Spawns(q)
    BY <2>1 DEF Spawns
  <2>4. /\ answers' \in [Requests -> Seq(Answer)] /\ pending' \subseteq Requests
        /\ \A q \in Requests : q # r => answers'[q] = answers[q] /\ (q \in pending' <=> q \in pending)
        /\ RequestInv(r)'
    <3>1. CASE pending' = pending \cup {r} /\ UNCHANGED answers
      <4>1. answers' = answers /\ r \in pending' /\ r \notin waiting' /\ pending' \subseteq Requests
        BY <1>1, <2>1, <3>1 DEF Core
      <4>2. ~Spawns(r)' /\ \A c \in Conns : dialer'[c] # r
        BY <1>2, <2>1, <2>3
      <4>3. answers'[r] = <<>> /\ Len(answers'[r]) <= 1
        BY <1>1, <4>1
      <4>4. RequestInv(r)'
        BY <4>1, <4>2, <4>3 DEF RequestInv
      <4> QED  BY <1>1, <3>1, <4>1, <4>4 DEF Core, CallTypes
    <3>2. CASE pending' = pending /\ Respond(r, "lost")
      <4>1. "lost" \in Answer  BY DEF Answer
      <4>2. /\ answers' \in [Requests -> Seq(Answer)] /\ Len(answers'[r]) <= 1
            /\ \A q \in Requests : q # r => answers'[q] = answers[q]
        BY <1>1, <3>2, <4>1, FirstAnswer DEF Core, CallTypes
      <4> QED  BY <1>1, <1>2, <2>1, <2>3, <3>2, <4>2 DEF Core, RequestInv
    <3> QED  BY <2>1, <3>1, <3>2 DEF SendToBridge
  <2>5. ASSUME NEW q \in Requests, q # r  PROVE  RequestInv(q)'
    <3>1. SameFor(q)  BY <2>1, <2>3, <2>4, <2>5 DEF SameFor
    <3> QED  BY <1>1, <3>1, SameKeeps DEF Core
  <2>6. CallTypes' /\ DialAwaited' /\ OneSpawn'
    BY <1>1, <2>1, <2>4 DEF Core, CallTypes, DialAwaited, OneSpawn
  <2>7. PendingHasConnection'
    BY <1>1, <2>1 DEF SendToBridge, PendingHasConnection
  <2> QED  BY <2>2, <2>4, <2>5, <2>6, <2>7 DEF LinkInv, Core
<1> QED  BY <1>3, <1>4

LEMMA TimerKeeps ==
  ASSUME LinkInv, TimerFires
  PROVE  LinkInv'
<1>1. Core /\ RestTypes /\ Timer \in Callers
  BY DEF LinkInv, Callers
<1>2. Core'
  BY <1>1, ConnectKeeps DEF TimerFires
<1>3. RestTypes'
  BY <1>1 DEF TimerFires, RestTypes, server
<1> QED  BY <1>2, <1>3 DEF LinkInv

\* The caller that awaited the spawn dials or is refused.
LEMMA SpawnReturnsKeeps ==
  ASSUME LinkInv, SpawnReturns
  PROVE  LinkInv'
<1> DEFINE w == spawner.who
<1>1. /\ Core /\ RestTypes /\ spawner.awaits /\ w # None
      /\ spawner' = [spawner EXCEPT !.awaits = FALSE] /\ pending' = pending
  BY DEF LinkInv, SpawnReturns, Core, OneSpawn
<1>2. w \in Callers
  BY <1>1 DEF Core, CallTypes
<1>3. /\ spawner' \in [who : Callers \cup {None}, retry : BOOLEAN, awaits : BOOLEAN]
      /\ spawner'.awaits = FALSE
  BY <1>1 DEF Core, CallTypes
<1>4. /\ OneSpawn' /\ \A q \in Requests : ~Spawns(q)' /\ (Spawns(q) <=> q = w)
  BY <1>1, <1>3 DEF OneSpawn, Spawns
<1>5. w # Timer => /\ w \in Requests /\ answers[w] = <<>> /\ w \notin pending
                   /\ \A c \in Conns : dialer[c] # w
  <2>1. w # Timer => w \in Requests  BY <1>2 DEF Callers
  <2> QED  BY <1>1, <1>4, <2>1 DEF Core, RequestInv
<1>6. RestTypes'
  BY <1>1 DEF SpawnReturns, RestTypes, server
<1>7. CASE Dial(w)
  <2>1. Core'
    <3> HIDE DEF w
    <3> QED  BY <1>1, <1>2, <1>3, <1>4, <1>5, <1>7, DialKeeps
  <2> QED  BY <1>6, <2>1 DEF LinkInv
<1>8. CASE Refuse(w) /\ UNCHANGED <<conn, dialer, connecting, spawnAttempted>>
  <2> HIDE DEF w
  <2>1. /\ answers' \in [Requests -> Seq(Answer)] /\ waiting' \subseteq Requests
        /\ \A r \in Requests : RequestInv(r)'
    BY <1>1, <1>2, <1>4, <1>5, <1>8, RefusedKeeps
  <2>2. CallTypes'
    BY <1>1, <1>3, <1>8, <2>1 DEF Core, CallTypes
  <2>3. DialAwaited' /\ PendingHasConnection'
    BY <1>1, <1>8 DEF Core, DialAwaited, PendingHasConnection
  <2> QED  BY <1>1, <1>4, <1>6, <2>1, <2>2, <2>3 DEF LinkInv, Core
<1> QED  BY <1>7, <1>8 DEF SpawnReturns

LEMMA CooldownKeeps ==
  ASSUME LinkInv, SpawnCooldown
  PROVE  LinkInv'
<1>1. /\ Core /\ RestTypes /\ ~spawner.awaits
      /\ spawner' = [spawner EXCEPT !.who = None] /\ spawnAttempted' = FALSE
      /\ UNCHANGED <<bridgeSocket, connecting, buffer, pending, answers, waiting, timers, dialer,
                     conn, wire, bridge, file, work, writing, crashes, via>>
  BY DEF LinkInv, SpawnCooldown, server
<1>2. /\ spawner' \in [who : Callers \cup {None}, retry : BOOLEAN, awaits : BOOLEAN]
      /\ ~spawner'.awaits
  BY <1>1 DEF Core, CallTypes
<1>3. ASSUME NEW r \in Requests  PROVE  RequestInv(r)'
  <2>1. SameFor(r)  BY <1>1, <1>2 DEF SameFor, Spawns
  <2> QED  BY <1>1, <2>1, SameKeeps DEF Core
<1>4. CallTypes' /\ pending' \subseteq Requests
  BY <1>1, <1>2 DEF Core, CallTypes
<1>5. DialAwaited' /\ OneSpawn' /\ PendingHasConnection'
  BY <1>1, <1>2 DEF Core, DialAwaited, OneSpawn, PendingHasConnection
<1>6. RestTypes'
  BY <1>1 DEF RestTypes
<1> QED  BY <1>3, <1>4, <1>5, <1>6 DEF LinkInv, Core

\* The dial of a slot is over: its caller was held by it and by nothing else.
LEMMA DialerOf ==
  ASSUME Core, NEW c \in Conns, conn[c] = "dialing",
         dialer' = [dialer EXCEPT ![c] = None]
  PROVE  /\ dialer[c] \in Callers /\ dialer'[c] = None
         /\ dialer' \in [Conns -> Callers \cup {None}]
         /\ \A d \in Conns : d # c => dialer'[d] = dialer[d]
         /\ dialer[c] # Timer => /\ dialer[c] \in Requests \cap waiting
                                 /\ answers[dialer[c]] = <<>> /\ dialer[c] \notin pending
                                 /\ ~Spawns(dialer[c])
                                 /\ \A d \in Conns : dialer'[d] # dialer[c]
         /\ \A q \in Requests : q # dialer[c] => \A d \in Conns : dialer'[d] = q <=> dialer[d] = q
<1>1. dialer[c] \in Callers /\ dialer[c] # None
  BY DEF Core, CallTypes, DialAwaited
<1>2. /\ dialer'[c] = None /\ dialer' \in [Conns -> Callers \cup {None}]
      /\ \A d \in Conns : d # c => dialer'[d] = dialer[d]
  BY DEF Core, CallTypes
<1>3. ASSUME dialer[c] # Timer
      PROVE  /\ dialer[c] \in Requests \cap waiting
             /\ answers[dialer[c]] = <<>> /\ dialer[c] \notin pending
             /\ ~Spawns(dialer[c])
             /\ \A d \in Conns : dialer'[d] # dialer[c]
  <2>1. dialer[c] \in Requests  BY <1>1, <1>3 DEF Callers
  <2> QED  BY <1>1, <1>2, <2>1 DEF Core, RequestInv
<1>4. \A q \in Requests : q # dialer[c] => \A d \in Conns : dialer'[d] = q <=> dialer[d] = q
  BY <1>2, BridgeAssumption
<1> QED  BY <1>1, <1>2, <1>3, <1>4

LEMMA OpenedKeeps ==
  ASSUME LinkInv, NEW c \in Conns, Opened(c)
  PROVE  LinkInv'
<1>1. /\ Core /\ RestTypes /\ conn[c] = "dialing" /\ conn' = [conn EXCEPT ![c] = "open"]
      /\ dialer' = [dialer EXCEPT ![c] = None] /\ bridgeSocket' = c /\ buffer' = <<>>
      /\ connecting' = FALSE
      /\ UNCHANGED <<answers, timers, spawner, spawnAttempted, wire, bridge, file, writing, crashes>>
  BY DEF LinkInv, Opened
<1>0. PICK q \in Callers : q = dialer[c]
  BY <1>1, DialerOf
<1>2. /\ dialer[c] = q /\ dialer'[c] = None /\ dialer' \in [Conns -> Callers \cup {None}]
      /\ \A d \in Conns : d # c => dialer'[d] = dialer[d]
      /\ q # Timer => /\ q \in Requests \cap waiting /\ answers[q] = <<>> /\ q \notin pending
                      /\ ~Spawns(q) /\ \A d \in Conns : dialer'[d] # q
      /\ \A r \in Requests : r # q => \A d \in Conns : dialer'[d] = r <=> dialer[d] = r
  BY <1>0, <1>1, DialerOf
<1>3. /\ conn' \in [Conns -> {"free", "dialing", "open", "dead"}] /\ conn'[c] = "open"
      /\ \A d \in Conns : d # c => conn'[d] = conn[d]
  BY <1>1 DEF Core, CallTypes
<1>4. \A r \in Requests : Spawns(r)' <=> Spawns(r)
  BY <1>1 DEF Spawns
<1>5. DialAwaited' /\ OneSpawn' /\ PendingHasConnection'
  BY <1>1, <1>2, <1>3 DEF Core, DialAwaited, OneSpawn, PendingHasConnection
<1>6. CASE q = Timer
  <2>1. UNCHANGED <<waiting, pending, work, via>>
    BY <1>0, <1>6 DEF Opened
  <2>2. ASSUME NEW r \in Requests  PROVE  RequestInv(r)'
    <3>1. SameFor(r)  BY <1>1, <1>2, <1>4, <1>6, <2>1, BridgeAssumption DEF SameFor
    <3> QED  BY <1>1, <3>1, SameKeeps DEF Core
  <2>3. CallTypes' /\ pending' \subseteq Requests
    BY <1>1, <1>2, <1>3, <2>1 DEF Core, CallTypes
  <2>4. RestTypes'
    BY <1>1, <2>1 DEF RestTypes
  <2> QED  BY <1>5, <2>2, <2>3, <2>4 DEF LinkInv, Core
<1>7. CASE q # Timer
  <2>1. /\ waiting' = waiting \ {q} /\ pending' = pending \cup {q} /\ q \in Requests
        /\ work' = [work EXCEPT ![c] = @ \cup {q}] /\ via' = [via EXCEPT ![q] = c]
    BY <1>0, <1>2, <1>7 DEF Opened
  <2>2. ASSUME NEW r \in Requests, r # q  PROVE  RequestInv(r)'
    <3>1. SameFor(r)  BY <1>1, <1>2, <1>4, <2>1, <2>2 DEF SameFor
    <3> QED  BY <1>1, <3>1, SameKeeps DEF Core
  <2>3. RequestInv(q)'
    <3>1. /\ answers'[q] = <<>> /\ q \in pending' /\ q \notin waiting' /\ ~Spawns(q)'
          /\ \A d \in Conns : dialer'[d] # q
      BY <1>1, <1>2, <1>4, <1>7, <2>1
    <3> QED  BY <3>1 DEF RequestInv
  <2>4. CallTypes' /\ pending' \subseteq Requests
    BY <1>1, <1>2, <1>3, <2>1 DEF Core, CallTypes
  <2>5. RestTypes'
    BY <1>1, <2>1 DEF RestTypes
  <2> QED  BY <1>5, <2>2, <2>3, <2>4, <2>5 DEF LinkInv, Core
<1> QED  BY <1>6, <1>7

\* The catch of connectBridge spawns the bridge for the caller, or refuses it.
LEMMA DialFailsKeeps ==
  ASSUME LinkInv, NEW c \in Conns, DialFails(c)
  PROVE  LinkInv'
<1>1. /\ Core /\ RestTypes /\ conn[c] = "dialing" /\ conn' = [conn EXCEPT ![c] = "free"]
      /\ dialer' = [dialer EXCEPT ![c] = None] /\ connecting' = FALSE
      /\ UNCHANGED <<bridgeSocket, buffer, pending, timers, wire, server, via>>
  BY DEF LinkInv, DialFails
<1>0. PICK q \in Callers : q = dialer[c]
  BY <1>1, DialerOf
<1>2. /\ dialer[c] = q /\ dialer'[c] = None /\ dialer' \in [Conns -> Callers \cup {None}]
      /\ \A d \in Conns : d # c => dialer'[d] = dialer[d]
      /\ q # Timer => /\ q \in Requests \cap waiting /\ answers[q] = <<>> /\ q \notin pending
                      /\ ~Spawns(q) /\ \A d \in Conns : dialer'[d] # q
      /\ \A r \in Requests : r # q => \A d \in Conns : dialer'[d] = r <=> dialer[d] = r
  BY <1>0, <1>1, DialerOf
<1>3. /\ conn' \in [Conns -> {"free", "dialing", "open", "dead"}] /\ conn'[c] = "free"
      /\ \A d \in Conns : d # c => conn'[d] = conn[d]
  BY <1>1 DEF Core, CallTypes
<1>4. DialAwaited' /\ PendingHasConnection'
  BY <1>1, <1>2, <1>3 DEF Core, DialAwaited, PendingHasConnection
<1>5. RestTypes'
  BY <1>1 DEF RestTypes, server
<1>6. CASE /\ ~spawnAttempted /\ spawnAttempted' = TRUE
           /\ spawner' = [who |-> q, retry |-> TRUE, awaits |-> TRUE]
           /\ UNCHANGED <<answers, waiting>>
  <2>1. \A r \in Requests : ~Spawns(r) /\ (Spawns(r)' <=> r = q)
    BY <1>1, <1>6 DEF Core, OneSpawn, Spawns
  <2>2. ASSUME NEW r \in Requests, r # q  PROVE  RequestInv(r)'
    <3>1. SameFor(r)  BY <1>1, <1>2, <1>6, <2>1, <2>2 DEF SameFor
    <3> QED  BY <1>1, <3>1, SameKeeps DEF Core
  <2>3. ASSUME q # Timer  PROVE  RequestInv(q)'
    <3>1. /\ answers'[q] = <<>> /\ q \notin pending' /\ q \in waiting' /\ Spawns(q)'
          /\ \A d \in Conns : dialer'[d] # q
      BY <1>1, <1>2, <1>6, <2>1, <2>3
    <3> QED  BY <3>1 DEF RequestInv
  <2>4. \A r \in Requests : RequestInv(r)'
    BY <2>2, <2>3, BridgeAssumption
  <2>5. CallTypes' /\ pending' \subseteq Requests
    BY <1>1, <1>2, <1>3, <1>6 DEF Core, CallTypes
  <2>6. OneSpawn'
    BY <1>2, <1>6, BridgeAssumption DEF OneSpawn, Callers
  <2> QED  BY <1>4, <1>5, <2>4, <2>5, <2>6 DEF LinkInv, Core
<1>7. CASE Refuse(q) /\ UNCHANGED <<spawner, spawnAttempted>>
  <2>1. \A r \in Requests : Spawns(r)' <=> Spawns(r)
    BY <1>7 DEF Spawns
  <2>2. /\ answers' \in [Requests -> Seq(Answer)] /\ waiting' \subseteq Requests
        /\ \A r \in Requests : RequestInv(r)'
    BY <1>1, <1>2, <1>7, <2>1, RefusedKeeps
  <2>3. CallTypes' /\ pending' \subseteq Requests
    BY <1>1, <1>2, <1>3, <1>7, <2>2 DEF Core, CallTypes
  <2>4. OneSpawn'
    BY <1>1, <1>7 DEF Core, OneSpawn
  <2> QED  BY <1>4, <1>5, <2>2, <2>3, <2>4 DEF LinkInv, Core
<1> QED  BY <1>0, <1>6, <1>7 DEF DialFails

\* A request in flight that is answered is in flight no longer.
LEMMA AnswerKeeps ==
  ASSUME Core, NEW r \in pending, NEW a \in Answer, Respond(r, a), pending' = pending \ {r},
         UNCHANGED <<waiting, dialer, connecting, spawner, spawnAttempted, conn>>
  PROVE  Core'
<1>1. r \in Requests /\ answers[r] = <<>> /\ r \notin waiting
  BY DEF Core, RequestInv
<1>2. /\ answers' \in [Requests -> Seq(Answer)] /\ Len(answers'[r]) <= 1
      /\ \A q \in Requests : q # r => answers'[q] = answers[q]
  BY <1>1, FirstAnswer DEF Core, CallTypes
<1>3. \A q \in Requests : Spawns(q)' <=> Spawns(q)
  BY DEF Spawns
<1>4. ASSUME NEW q \in Requests, q # r  PROVE  RequestInv(q)'
  <2>1. SameFor(q)  BY <1>2, <1>3, <1>4 DEF SameFor
  <2> QED  BY <2>1, SameKeeps DEF Core
<1>5. RequestInv(r)'
  <2>1. r \notin pending' /\ r \notin waiting'  BY <1>1
  <2>2. ~Spawns(r)' /\ \A c \in Conns : dialer'[c] # r
    BY <1>1, <1>3 DEF Core, RequestInv
  <2> QED  BY <1>2, <2>1, <2>2 DEF RequestInv
<1>6. CallTypes' /\ pending' \subseteq Requests
  BY <1>2 DEF Core, CallTypes
<1>7. DialAwaited' /\ OneSpawn' /\ PendingHasConnection'
  BY DEF Core, DialAwaited, OneSpawn, PendingHasConnection
<1> QED  BY <1>4, <1>5, <1>6, <1>7 DEF Core

LEMMA TimeoutKeeps ==
  ASSUME LinkInv, NEW r \in Requests, Timeout(r)
  PROVE  LinkInv'
<1>1. Core'
  <2>1. "timeout" \in Answer  BY DEF Answer
  <2> QED  BY <2>1, AnswerKeeps DEF LinkInv, Timeout
<1>2. RestTypes'
  BY DEF LinkInv, RestTypes, Timeout, server
<1> QED  BY <1>1, <1>2 DEF LinkInv

LEMMA CloseKeeps ==
  ASSUME LinkInv, NEW c \in Conns, Close(c)
  PROVE  LinkInv'
<1>1. /\ Core /\ RestTypes /\ conn[c] = "dead" /\ conn' = [conn EXCEPT ![c] = "free"]
      /\ answers' = [r \in Requests |->
                       IF r \in pending THEN Append(answers[r], "disconnected") ELSE answers[r]]
      /\ pending' = {} /\ bridgeSocket' = None /\ connecting' = FALSE /\ timers' = timers + 1
      /\ UNCHANGED <<buffer, waiting, dialer, spawner, spawnAttempted, wire, server, via>>
  BY DEF LinkInv, Close
<1>2. RestTypes'
  BY <1>1 DEF RestTypes, server
<1>3. answers' \in [Requests -> Seq(Answer)]
  BY <1>1 DEF Core, CallTypes, Answer
<1>4. ASSUME NEW r \in Requests  PROVE  RequestInv(r)'
  <2>1. Spawns(r)' <=> Spawns(r)  BY <1>1 DEF Spawns
  <2>2. CASE r \in pending
    <3>1. answers[r] = <<>> /\ r \notin waiting  BY <1>1, <2>2 DEF Core, RequestInv
    <3>2. answers'[r] = Append(<<>>, "disconnected")  BY <1>1, <2>2, <3>1
    <3>3. Len(answers'[r]) <= 1  BY <3>2
    <3>4. ~Spawns(r)' /\ (\A d \in Conns : dialer'[d] # r) /\ r \notin waiting' /\ r \notin pending'
      BY <1>1, <2>1, <3>1 DEF Core, RequestInv
    <3> QED  BY <3>3, <3>4 DEF RequestInv
  <2>3. CASE r \notin pending
    <3>1. answers'[r] = answers[r]  BY <1>1, <2>3
    <3>2. SameFor(r)  BY <1>1, <2>1, <2>3, <3>1 DEF SameFor
    <3> QED  BY <1>1, <3>2, SameKeeps DEF Core
  <2> QED  BY <2>2, <2>3
<1>5. CallTypes' /\ pending' \subseteq Requests
  BY <1>1, <1>3 DEF Core, CallTypes
<1>6. DialAwaited' /\ OneSpawn' /\ PendingHasConnection'
  BY <1>1 DEF Core, CallTypes, DialAwaited, OneSpawn, PendingHasConnection
<1> QED  BY <1>2, <1>4, <1>5, <1>6 DEF LinkInv, Core

\* What is left of the buffer are pieces.
LEMMA ProcessType ==
  ASSUME NEW b \in Seq(Piece), b # <<>>, Process(b)
  PROVE  /\ buffer' \in Seq(Piece)
         /\ \/ UNCHANGED <<pending, answers>>
            \/ \E r \in pending : pending' = pending \ {r} /\ Respond(r, "result")
<1>1. b[1] \in Piece /\ (Len(b) = 2 => b[2] \in Piece)
  OBVIOUS
<1>2. Len(b) = 2 => [b[2] EXCEPT !.part = "tail"] \in Piece
  BY <1>1 DEF Piece
<1>3. buffer' \in {b, <<>>} \/ (Len(b) = 2 /\ buffer' = <<[b[2] EXCEPT !.part = "tail"]>>)
  BY DEF Process
<1>4. buffer' \in Seq(Piece)
  <2>1. CASE buffer' \in {b, <<>>}
    <3>1. <<>> \in Seq(Piece)  OBVIOUS
    <3>2. buffer' = b \/ buffer' = <<>>  BY <2>1
    <3> QED  BY <3>1, <3>2
  <2>2. ASSUME Len(b) = 2, NEW x \in Piece, buffer' = <<x>>  PROVE  buffer' \in Seq(Piece)
    BY <2>2
  <2> QED  BY <1>2, <1>3, <2>1, <2>2
<1>5. \/ UNCHANGED <<pending, answers>>
      \/ \E r \in pending : pending' = pending \ {r} /\ Respond(r, "result")
  BY DEF Process
<1> QED  BY <1>4, <1>5

LEMMA DataKeeps ==
  ASSUME LinkInv, NEW c \in Conns, Data(c)
  PROVE  LinkInv'
<1> DEFINE b == Append(buffer, Head(wire[c]))
<1>1. /\ Core /\ RestTypes /\ wire[c] # <<>> /\ wire' = [wire EXCEPT ![c] = Tail(@)] /\ Process(b)
      /\ UNCHANGED <<bridgeSocket, connecting, waiting, timers, dialer, spawner, spawnAttempted,
                     conn, server, via>>
  BY DEF LinkInv, Data
<1>2. wire[c] \in Seq(Piece) /\ Head(wire[c]) \in Piece /\ Tail(wire[c]) \in Seq(Piece)
  BY <1>1 DEF RestTypes
<1>3. b \in Seq(Piece) /\ b # <<>>
  <2>1. buffer \in Seq(Piece)  BY <1>1 DEF RestTypes
  <2>2. b \in Seq(Piece) /\ Len(b) = Len(buffer) + 1 /\ Len(buffer) \in Nat
    BY <1>2, <2>1
  <2>3. Len(<<>>) = 0  OBVIOUS
  <2> HIDE DEF b
  <2> QED  BY <2>2, <2>3
<1>4. /\ buffer' \in Seq(Piece)
      /\ \/ UNCHANGED <<pending, answers>>
         \/ \E r \in pending : pending' = pending \ {r} /\ Respond(r, "result")
  <2> HIDE DEF b
  <2> QED  BY <1>1, <1>3, ProcessType
<1>5. RestTypes'
  BY <1>1, <1>2, <1>4 DEF RestTypes, server
<1>6. Core'
  <2>1. CASE UNCHANGED <<pending, answers>>
    BY <1>1, <2>1, QuietKeeps DEF Core, CallTypes
  <2>2. CASE \E r \in pending : pending' = pending \ {r} /\ Respond(r, "result")
    <3>1. "result" \in Answer  BY DEF Answer
    <3> QED  BY <1>1, <2>2, <3>1, AnswerKeeps
  <2> QED  BY <1>4, <2>1, <2>2
<1> QED  BY <1>5, <1>6 DEF LinkInv

LEMMA BridgeKeeps ==
  ASSUME LinkInv,
         \/ \E c \in Conns : EndWrite(c) \/ \E r \in Requests : BeginWrite(c, r)
         \/ BridgeGoesDown \/ BridgeStarts \/ BridgeListens
  PROVE  LinkInv'
<1>1. Core /\ RestTypes /\ UNCHANGED client
  BY DEF LinkInv, EndWrite, BeginWrite, BridgeGoesDown, BridgeStarts, BridgeListens
<1>2. UNCHANGED <<bridgeSocket, connecting, buffer, pending, answers, waiting, timers, dialer, spawner,
                  spawnAttempted>>
  BY <1>1 DEF client
<1>3. Core'
  <2>1. \/ conn' = conn
        \/ conn' = [c \in Conns |-> IF conn[c] = "open" THEN "dead" ELSE conn[c]]
    BY DEF EndWrite, BeginWrite, BridgeGoesDown, BridgeStarts, BridgeListens
  <2>2. /\ conn' \in [Conns -> {"free", "dialing", "open", "dead"}]
        /\ \A c \in Conns : conn'[c] = conn[c] \/ (conn[c] = "open" /\ conn'[c] = "dead")
    BY <1>1, <2>1 DEF Core, CallTypes
  <2> QED  BY <1>1, <1>2, <2>2, QuietKeeps
<1>4. ASSUME NEW c \in Conns, NEW r \in Requests, BeginWrite(c, r)  PROVE  RestTypes'
  <2>1. [req |-> r, part |-> "head"] \in Piece  BY DEF Piece
  <2>2. Append(wire[c], [req |-> r, part |-> "head"]) \in Seq(Piece)
    BY <1>1, <2>1 DEF RestTypes
  <2>3. wire' \in [Conns -> Seq(Piece)] /\ work' \in [Conns -> SUBSET Requests]
        /\ writing' \in [Conns -> Requests \cup {None}]
    BY <1>1, <1>4, <2>2 DEF RestTypes, BeginWrite
  <2> QED  BY <1>1, <1>2, <1>4, <2>3 DEF RestTypes, BeginWrite
<1>5. ASSUME NEW c \in Conns, EndWrite(c)  PROVE  RestTypes'
  <2>1. [req |-> writing[c], part |-> "tail"] \in Piece  BY <1>1, <1>5 DEF Piece, RestTypes, EndWrite
  <2>2. Append(wire[c], [req |-> writing[c], part |-> "tail"]) \in Seq(Piece)
    BY <1>1, <2>1 DEF RestTypes
  <2>3. wire' \in [Conns -> Seq(Piece)] /\ writing' \in [Conns -> Requests \cup {None}]
    BY <1>1, <1>5, <2>2 DEF RestTypes, EndWrite
  <2> QED  BY <1>1, <1>2, <1>5, <2>3 DEF RestTypes, EndWrite
<1>6. ASSUME BridgeGoesDown  PROVE  RestTypes'
  <2>1. crashes' \in 0 .. MaxCrashes
    <3>1. crashes \in Nat /\ crashes < MaxCrashes /\ crashes' = crashes + 1 /\ MaxCrashes \in Nat
      BY <1>1, <1>6, BridgeAssumption DEF RestTypes, BridgeGoesDown
    <3> QED  BY <3>1
  <2>2. /\ work' \in [Conns -> SUBSET Requests] /\ writing' \in [Conns -> Requests \cup {None}]
        /\ UNCHANGED <<wire, via>>
    BY <1>6 DEF BridgeGoesDown
  <2>3. /\ bridgeSocket' \in Conns \cup {None} /\ buffer' \in Seq(Piece) /\ timers' \in Nat
        /\ wire' \in [Conns -> Seq(Piece)] /\ via' \in [Requests -> Conns \cup {None}]
    BY <1>1, <1>2, <2>2 DEF RestTypes
  <2>4. file' \in BOOLEAN
    <3>1. file' = file \/ file' = FALSE  BY <1>6 DEF BridgeGoesDown
    <3>2. file \in BOOLEAN  BY <1>1 DEF RestTypes
    <3> QED  BY <3>1, <3>2
  <2>5. bridge' \in {"down", "starting", "up"}
    BY <1>6 DEF BridgeGoesDown
  <2> QED  BY <2>1, <2>2, <2>3, <2>4, <2>5 DEF RestTypes
<1>7. ASSUME BridgeStarts \/ BridgeListens  PROVE  RestTypes'
  <2>1. bridge' \in {"down", "starting", "up"} /\ UNCHANGED <<wire, work, writing, crashes, via>>
    BY <1>7 DEF BridgeStarts, BridgeListens
  <2>2. file' \in BOOLEAN
    <3>1. file' = file \/ file' = TRUE  BY <1>7 DEF BridgeStarts, BridgeListens
    <3>2. file \in BOOLEAN  BY <1>1 DEF RestTypes
    <3> QED  BY <3>1, <3>2
  <2>3. /\ bridgeSocket' \in Conns \cup {None} /\ buffer' \in Seq(Piece) /\ timers' \in Nat
        /\ wire' \in [Conns -> Seq(Piece)] /\ via' \in [Requests -> Conns \cup {None}]
        /\ work' \in [Conns -> SUBSET Requests] /\ writing' \in [Conns -> Requests \cup {None}]
        /\ crashes' \in 0 .. MaxCrashes
    BY <1>1, <1>2, <2>1 DEF RestTypes
  <2> QED  BY <2>2, <2>3, <2>1 DEF RestTypes
<1> QED  BY <1>3, <1>4, <1>5, <1>6, <1>7 DEF LinkInv

LEMMA StutterKeeps ==
  ASSUME LinkInv, UNCHANGED vars
  PROVE  LinkInv'
<1>1. UNCHANGED <<bridgeSocket, connecting, buffer, pending, answers, waiting, timers, dialer, spawner,
                  spawnAttempted, conn, wire, bridge, file, work, writing, crashes, via>>
  BY DEF vars, client, server
<1>2. Core'
  BY <1>1, QuietKeeps DEF LinkInv, Core, CallTypes
<1>3. RestTypes'
  BY <1>1 DEF LinkInv, RestTypes
<1> QED  BY <1>2, <1>3 DEF LinkInv

-----------------------------------------------------------------------------
(* What it gives *)

\* The invariant the theorems follow from: every request is nowhere yet, answered once,
\* held by one dial or by the one spawn, or in flight over some connection.
THEOREM LinkInvariant == Spec => []LinkInv
<1>1. Init => LinkInv  BY LinkInvInit
<1>2. LinkInv /\ [Next]_vars => LinkInv'
  <2> SUFFICES ASSUME LinkInv, [Next]_vars  PROVE  LinkInv'
    OBVIOUS
  <2>1. ASSUME NEW r \in Requests, Route(r) \/ Timeout(r)  PROVE  LinkInv'
    BY <2>1, RouteKeeps, TimeoutKeeps
  <2>2. ASSUME NEW c \in Conns, Opened(c) \/ DialFails(c) \/ Close(c) \/ Data(c)  PROVE  LinkInv'
    BY <2>2, OpenedKeeps, DialFailsKeeps, CloseKeeps, DataKeeps
  <2>3. CASE TimerFires \/ SpawnReturns \/ SpawnCooldown
    BY <2>3, TimerKeeps, SpawnReturnsKeeps, CooldownKeeps
  <2>4. CASE \/ \E c \in Conns : EndWrite(c) \/ \E r \in Requests : BeginWrite(c, r)
             \/ BridgeGoesDown \/ BridgeStarts \/ BridgeListens
    BY <2>4, BridgeKeeps
  <2>5. CASE UNCHANGED vars
    BY <2>5, StutterKeeps
  <2> QED  BY <2>1, <2>2, <2>3, <2>4, <2>5 DEF Next
<1> QED  BY <1>1, <1>2, PTL DEF Spec

\* Every reachable state of the link, its connections and the bridge is typed.
THEOREM TypeCorrect == Spec => []TypeOK
<1>1. LinkInv => TypeOK  BY DEF LinkInv, Core, CallTypes, RestTypes, TypeOK
<1> QED  BY <1>1, LinkInvariant, PTL

\* However timeouts, closes, spawns and late responses meet, routeToBridge answers its
\* caller at most once.
THEOREM OneAnswer == Spec => []AnsweredOnce
<1>1. LinkInv => AnsweredOnce  BY DEF LinkInv, Core, RequestInv, AnsweredOnce
<1> QED  BY <1>1, LinkInvariant, PTL

\* A request that waits is held by exactly one dial or spawn, and one in flight has a
\* connection whose close will answer it: connectBridge and the close handler forget none.
THEOREM NoneForgotten == Spec => []NothingForgotten
<1>1. LinkInv => WaitingIsHeld
  <2> SUFFICES ASSUME LinkInv, NEW r \in Requests
               PROVE  LET holds  == {c \in Conns : dialer[c] = r}
                          spawns == spawner.awaits /\ spawner.who = r
                      IN
                      /\ r \in waiting => /\ (holds # {}) # spawns
                                          /\ \A c, d \in holds : c = d
                                          /\ answers[r] = <<>> /\ r \notin pending
                      /\ r \notin waiting => holds = {} /\ ~spawns
    BY DEF WaitingIsHeld
  <2>1. RequestInv(r)
    BY DEF LinkInv, Core
  <2> QED  BY <2>1 DEF RequestInv, Spawns
<1>2. LinkInv => NothingForgotten
  BY <1>1 DEF LinkInv, Core, NothingForgotten
<1> QED  BY <1>2, LinkInvariant, PTL
=============================================================================
