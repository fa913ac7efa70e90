----------------------------- MODULE SafariRelay -----------------------------
(***************************************************************************)
(* The Safari lane: SafariNativeRelayClient in the extension's background  *)
(* page (safari-native-relay.ts, with the control-plane handling of        *)
(* transport.ts and the parking queue of message-dispatch.ts) and the      *)
(* SafariDaemonRelay actor in the native extension that owns the WebSocket *)
(* to the daemon (SafariWebExtensionHandler.swift).  The page reaches the  *)
(* actor only by one-shot exchanges: the page's outbound messages go in,   *)
(* what the daemon sent comes out.                                         *)
(*                                                                         *)
(* Messages are numbered in the order they are enqueued, daemon commands   *)
(* in the order they are sent.  A socket is named by the number of the     *)
(* connection attempt; 0 is nil.                                           *)
(***************************************************************************)
EXTENDS Naturals, SequencesExt

CONSTANTS
  MaxMessages, MaxCommands, MaxFailures,   \* bounds of the environment
  QUEUE_CAP,          \* SAFARI_NATIVE_RELAY_QUEUE_CAP
  MESSAGE_QUEUE_CAP,
  CallsMayFail        \* the page's sendNativeMessage may fail by itself

ASSUME SafariAssumption ==
  /\ {MaxMessages, MaxCommands, MaxFailures} \subseteq Nat
  /\ {QUEUE_CAP, MESSAGE_QUEUE_CAP} \subseteq Nat \ {0}
  /\ CallsMayFail \in BOOLEAN

Messages == 1 .. MaxMessages + MaxCommands   \* each command may be refused by one
Commands == 1 .. MaxCommands
Registered == 0                       \* the context_registered frame
Frames == Commands \cup {Registered}
NoReply == [error |-> FALSE, connected |-> FALSE, frames |-> <<>>]

VARIABLES
  \* background page
  outbound,     \* messages waiting for an exchange
  enqueued,     \* messages enqueued so far
  dropped,      \* messages the full queue reported as dropped
  loop,         \* where runLoop is: "idle", "exchange", "deliver"
  batch,        \* messages of the exchange in flight
  reply,        \* the reply being handled
  active,       \* activeTransport is "safari-native"
  parked,       \* messageQueue
  executed,     \* commands handed to the dispatcher, in order
  evicted,      \* commands the full messageQueue answered with an error
  \* native extension
  socket,       \* the actor's socket
  step,         \* where the actor's exchange is
  exSocket,     \* the socket that exchange captured
  toSend,       \* messages it has still to send
  inbound,      \* frames from the daemon, not yet returned
  handed,       \* messages handed to a socket, in order
  \* daemon and environment
  holder,       \* the connection the daemon has registered
  sentCmds,     \* commands the daemon has sent
  failures

page   == <<outbound, enqueued, dropped, loop, batch, reply, active, parked, executed, evicted>>
actor  == <<socket, step, exSocket, toSend, inbound, handed>>
daemon == <<holder, sentCmds>>
vars   == <<page, actor, daemon, failures>>

TypeOK ==
  /\ outbound \in Seq(Messages) /\ Len(outbound) <= QUEUE_CAP
  /\ enqueued \in Nat
  /\ dropped \subseteq Messages /\ loop \in {"idle", "exchange", "deliver"}
  /\ batch \in Seq(Messages)
  /\ reply \in [error : BOOLEAN, connected : BOOLEAN, frames : Seq(Frames)]
  /\ active \in BOOLEAN
  /\ parked \in Seq(Commands) /\ Len(parked) <= MESSAGE_QUEUE_CAP
  /\ executed \in Seq(Commands) /\ evicted \subseteq Commands
  /\ socket \in 0 .. MaxFailures + 1 /\ exSocket \in 0 .. MaxFailures + 1
  /\ step \in {"none", "connect", "register", "send", "wait", "replied"}
  /\ toSend \in Seq(Messages) /\ inbound \in Seq(Frames) /\ handed \in Seq(Messages)
  /\ holder \in 0 .. MaxFailures + 1
  /\ sentCmds \in 0 .. MaxCommands /\ failures \in 0 .. MaxFailures

Init ==
  /\ outbound = <<>> /\ enqueued = 0 /\ dropped = {}
  /\ loop = "idle" /\ batch = <<>> /\ reply = NoReply
  /\ active = FALSE /\ parked = <<>> /\ executed = <<>> /\ evicted = {}
  /\ socket = 0 /\ step = "none" /\ exSocket = 0 /\ toSend = <<>>
  /\ inbound = <<>> /\ handed = <<>>
  /\ holder = 0 /\ sentCmds = 0 /\ failures = 0

-----------------------------------------------------------------------------
(* The page *)

\* enqueue: a full queue gives up its oldest message and says so.
PutUncappedFaulty(q) ==
  /\ enqueued' = enqueued + 1
  /\ outbound' = Append(q, enqueued + 1)
  /\ UNCHANGED dropped
PutInFrontFaulty(q) ==
  /\ enqueued' = enqueued + 1
  /\ IF Len(q) >= QUEUE_CAP
     THEN outbound' = <<enqueued + 1>> \o Tail(q) /\ dropped' = dropped \cup {Head(q)}
     ELSE outbound' = <<enqueued + 1>> \o q /\ UNCHANGED dropped
Put(q) ==
  /\ enqueued' = enqueued + 1
  /\ IF Len(q) >= QUEUE_CAP
     THEN outbound' = Append(Tail(q), enqueued + 1) /\ dropped' = dropped \cup {Head(q)}
     ELSE outbound' = Append(q, enqueued + 1) /\ UNCHANGED dropped

Enqueue ==
  /\ enqueued < MaxMessages
  /\ Put(outbound)
  /\ UNCHANGED <<loop, batch, reply, active, parked, executed, evicted, actor, daemon, failures>>

\* exchangeOnce up to its await; the actor's half begins.
StartExchange ==
  /\ loop = "idle" /\ step = "none"
  /\ loop' = "exchange"
  /\ batch' = outbound
  /\ toSend' = outbound
  /\ step' = "connect"
  /\ UNCHANGED <<outbound, enqueued, dropped, reply, active, parked, executed, evicted,
                 socket, exSocket, inbound, handed, daemon, failures>>

\* runLoop's catch: the queue is kept for the next exchange.
ExchangeFailed ==
  /\ loop' = "idle"
  /\ active' = FALSE
  /\ UNCHANGED <<outbound, enqueued, dropped, batch, reply, parked, executed, evicted>>

\* sendNativeMessage rejects although the actor, and its socket, are untouched.
CallFails ==
  /\ CallsMayFail /\ loop = "idle" /\ failures < MaxFailures
  /\ failures' = failures + 1
  /\ ExchangeFailed
  /\ UNCHANGED <<actor, daemon>>

\* What the splice leaves of the queue: it counts from the front, whatever the
\* queue has become since the exchange began.
SplicedAllFaulty(q) == <<>>
SplicedBackFaulty(q) == SubSeq(q, 1, Len(q) - Len(batch))
Spliced(q) == SubSeq(q, Len(batch) + 1, Len(q))

\* exchangeOnce after its await.
TakeReply ==
  /\ loop = "exchange" /\ step = "replied"
  /\ step' = "none"
  /\ IF reply.error
     THEN ExchangeFailed
     ELSE /\ outbound' = Spliced(outbound)
          /\ loop' = "deliver"
          /\ UNCHANGED <<enqueued, dropped, batch, reply, active, parked, executed, evicted>>
  /\ UNCHANGED <<socket, exSocket, toSend, inbound, handed, daemon, failures>>

\* onMessage for one frame. A command that arrives while no transport is active is
\* parked; the registration runs what is parked.
DeliverFrame ==
  /\ loop = "deliver" /\ reply.frames # <<>>
  /\ reply' = [reply EXCEPT !.frames = Tail(@)]
  /\ LET f == Head(reply.frames) IN
     \/ /\ f = Registered
        /\ active' = TRUE
        /\ executed' = executed \o parked
        /\ parked' = <<>>
        /\ UNCHANGED <<evicted, outbound, enqueued, dropped>>
     \/ /\ f # Registered /\ active
        /\ executed' = Append(executed, f)
        /\ UNCHANGED <<active, parked, evicted, outbound, enqueued, dropped>>
     \/ /\ f # Registered /\ ~active /\ Len(parked) < MESSAGE_QUEUE_CAP
        /\ parked' = Append(parked, f)
        /\ UNCHANGED <<active, executed, evicted, outbound, enqueued, dropped>>
     \/ /\ f # Registered /\ ~active /\ Len(parked) >= MESSAGE_QUEUE_CAP
        /\ parked' = Append(Tail(parked), f)
        /\ evicted' = evicted \cup {Head(parked)}
        /\ Put(outbound)
        /\ UNCHANGED <<active, executed>>
  /\ UNCHANGED <<loop, batch, actor, daemon, failures>>

\* The loop's onConnectionChange.
DeliveryDone ==
  /\ loop = "deliver" /\ reply.frames = <<>>
  /\ loop' = "idle"
  /\ active' = (active /\ reply.connected)
  /\ UNCHANGED <<outbound, enqueued, dropped, batch, reply, parked, executed, evicted,
                 actor, daemon, failures>>

-----------------------------------------------------------------------------
(* The actor. It is re-entrant at every await, so frames and failures of the   *)
(* receive task come between the steps of an exchange.                         *)

\* resetConnection, seen by the daemon as a close.
Reset ==
  /\ socket' = 0
  /\ inbound' = <<>>
  /\ holder' = 0

\* ensureConnected: keep the socket there is, or reset and open the next one.
EnsureConnected ==
  /\ step = "connect"
  /\ IF socket # 0
     THEN /\ exSocket' = socket /\ step' = "send"
          /\ UNCHANGED <<socket, inbound, holder>>
     ELSE /\ inbound' = <<>>
          /\ socket' = failures + 1
          /\ exSocket' = failures + 1
          /\ step' = "register"
          /\ UNCHANGED holder
  /\ UNCHANGED <<page, toSend, handed, sentCmds, failures>>

\* The registration reaches the daemon, whose context_registered comes back; the
\* guard after the await throws if the receive task dropped the socket meanwhile.
Register ==
  /\ step = "register" /\ socket = exSocket
  /\ step' = "send"
  /\ holder' = socket
  /\ inbound' = Append(inbound, Registered)
  /\ UNCHANGED <<page, socket, exSocket, toSend, handed, sentCmds, failures>>

SendOne ==
  /\ step = "send" /\ socket = exSocket /\ toSend # <<>>
  /\ handed' = Append(handed, Head(toSend))
  /\ toSend' = Tail(toSend)
  /\ UNCHANGED <<page, socket, step, exSocket, inbound, daemon, failures>>

\* A send throws, because the socket is gone or fails now: reset and report.
SendThrows ==
  /\ step \in {"register", "send"}
  /\ step = "send" /\ socket = exSocket => toSend # <<>>
  /\ IF socket = exSocket THEN failures < MaxFailures /\ failures' = failures + 1
                          ELSE UNCHANGED failures
  /\ Reset
  /\ step' = "replied"
  /\ reply' = [NoReply EXCEPT !.error = TRUE]
  /\ UNCHANGED <<outbound, enqueued, dropped, loop, batch, active, parked, executed, evicted,
                 exSocket, toSend, handed, sentCmds>>

SentAll ==
  /\ step = "send" /\ toSend = <<>>
  /\ step' = "wait"
  /\ UNCHANGED <<page, socket, exSocket, toSend, inbound, handed, daemon, failures>>

\* waitForInbound ends on a frame, a lost socket or the clock.
AnswerKeepsFaulty ==
  /\ step = "wait"
  /\ step' = "replied"
  /\ reply' = [error |-> FALSE, connected |-> socket = exSocket, frames |-> inbound]
  /\ UNCHANGED <<outbound, enqueued, dropped, loop, batch, active, parked, executed, evicted,
                 socket, exSocket, toSend, inbound, handed, daemon, failures>>
AnswerUntimedFaulty ==
  /\ step = "wait" /\ (inbound # <<>> \/ socket = 0)
  /\ step' = "replied"
  /\ reply' = [error |-> FALSE, connected |-> socket = exSocket, frames |-> inbound]
  /\ inbound' = <<>>
  /\ UNCHANGED <<outbound, enqueued, dropped, loop, batch, active, parked, executed, evicted,
                 socket, exSocket, toSend, handed, daemon, failures>>
AnswerExchange ==
  /\ step = "wait"
  /\ step' = "replied"
  /\ reply' = [error |-> FALSE, connected |-> socket = exSocket, frames |-> inbound]
  /\ inbound' = <<>>
  /\ UNCHANGED <<outbound, enqueued, dropped, loop, batch, active, parked, executed, evicted,
                 socket, exSocket, toSend, handed, daemon, failures>>

\* The receive task ends: the socket is forgotten, the frames are not.
ReceiveFails ==
  /\ socket # 0 /\ failures < MaxFailures
  /\ failures' = failures + 1
  /\ socket' = 0
  /\ holder' = 0
  /\ UNCHANGED <<page, step, exSocket, toSend, inbound, handed, sentCmds>>

\* The system ends the native extension: the call in flight, if any, rejects.
ActorKilled ==
  /\ socket # 0 /\ failures < MaxFailures
  /\ failures' = failures + 1
  /\ Reset
  /\ step' = "none"
  /\ IF loop = "exchange" THEN ExchangeFailed ELSE UNCHANGED page
  /\ UNCHANGED <<exSocket, toSend, handed, sentCmds>>

\* The daemon sends its next command over the connection it has registered.
CommandArrives ==
  /\ holder # 0 /\ sentCmds < MaxCommands
  /\ sentCmds' = sentCmds + 1
  /\ inbound' = Append(inbound, sentCmds + 1)
  /\ UNCHANGED <<page, socket, step, exSocket, toSend, handed, holder, failures>>

-----------------------------------------------------------------------------
Exchange ==
  \/ StartExchange \/ TakeReply \/ DeliverFrame \/ DeliveryDone
  \/ EnsureConnected \/ Register \/ SendOne \/ SentAll \/ AnswerExchange
Failure == CallFails \/ SendThrows \/ ReceiveFails \/ ActorKilled
Next == Exchange \/ Failure \/ Enqueue \/ CommandArrives

\* runLoop and the actor keep going; of the failures only the throw of a send over
\* a socket that is already gone must come.
Fairness == WF_vars(Exchange) /\ WF_vars(SendThrows /\ socket # exSocket)

Spec     == Init /\ [][Next]_vars
FairSpec == Spec /\ Fairness

-----------------------------------------------------------------------------
(* Properties *)

\* While the queue has not overflowed, a message the page enqueued is waiting or was
\* handed to a socket; a failed exchange loses none. A queue that has overflowed while
\* an exchange was out does lose messages it does not report: OnlyExchangedRemoved.
NothingLostUnlessFull ==
  dropped = {} => \A m \in 1 .. enqueued : m \in ToSet(outbound) \cup ToSet(handed)

\* Messages reach the daemon's socket in the order they were enqueued; only a
\* message that was there before may come again.
HandedInOrder ==
  \A j \in DOMAIN handed : \A i \in 1 .. j - 1 :
    handed[i] > handed[j] => \E k \in 1 .. i - 1 : handed[k] = handed[j]

\* Without a failure nothing is sent twice.
NoDuplicateWithoutFailure == failures = 0 => IsInjective(handed)

\* The page's outbound lane, through failed exchanges and retries; its order and its
\* duplicates through overflows too.
OutboundSound == NothingLostUnlessFull /\ HandedInOrder /\ NoDuplicateWithoutFailure

\* A daemon command is never executed twice or out of order, whatever is parked,
\* drained, re-registered or lost in between.
CommandsOnceInOrder ==
  \A j \in DOMAIN executed : \A i \in 1 .. j - 1 : executed[i] < executed[j]

\* "Remove only the messages represented by this successful exchange"
\* (safari-native-relay.ts:97): the splice takes nothing else off the queue.
OnlyExchangedRemoved ==
  [][TakeReply => ToSet(outbound) \ ToSet(outbound') \subseteq ToSet(batch)]_vars

\* Once failures stop, every message leaves the page, unless the queue overflows.
EveryMessageLeaves ==
  \A m \in Messages : enqueued >= m ~> (m \in ToSet(handed) \/ dropped # {})

\* A daemon command the page received is executed in the end, or refused: the
\* exchange keeps "daemon actions and extension responses" duplex
\* (safari-native-relay.ts:39).
ParkedCommandsRun ==
  \A c \in Commands : c \in ToSet(parked) ~> c \in ToSet(executed) \cup evicted
=============================================================================
