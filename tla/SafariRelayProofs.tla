-------------------------- MODULE SafariRelayProofs --------------------------
(***************************************************************************)
(* Theorems about the Safari lane, for any number of messages, commands    *)
(* and failures and any caps of the two queues.                            *)
(***************************************************************************)
EXTENDS SafariRelay, SequenceTheorems, TLAPS

LEMMA Bounds ==
  /\ MaxMessages \in Nat /\ MaxCommands \in Nat /\ MaxFailures \in Nat
  /\ QUEUE_CAP \in Nat \ {0} /\ MESSAGE_QUEUE_CAP \in Nat \ {0}
BY SafariAssumption

-----------------------------------------------------------------------------
(* The inductive invariant: where an exchange is *)

Phases ==
  /\ loop = "exchange" <=> step # "none"
  /\ step = "replied" /\ reply.error => failures > 0 /\ reply.frames = <<>>
  /\ step \in {"register", "send"} /\ failures = 0 => socket = exSocket
  /\ step = "wait" \/ (step = "replied" /\ ~reply.error) => toSend = <<>>

-----------------------------------------------------------------------------
(* The inductive invariant: the messages *)

\* The newest message that has left the queue.
Gone == enqueued - Len(outbound)

\* The oldest message that may be handed to a socket from here on, and the one that
\* the exchange in progress hands over next.
Oldest == IF loop = "exchange" /\ batch # <<>> THEN batch[1] ELSE Gone + 1
Upcoming == Oldest + Len(batch) - Len(toSend)

\* The queue is the run of messages up to the newest.
QueueShape ==
  /\ Gone >= 0
  /\ \A i \in DOMAIN outbound : outbound[i] = Gone + i

\* So is the batch of an exchange, which overflows may have moved the queue past, and
\* what is still to be sent of it is its end.
BatchShape ==
  /\ Oldest <= Gone + 1
  /\ dropped = {} => Oldest = Gone + 1
  /\ loop = "exchange" =>
       /\ Len(batch) <= Len(outbound) /\ Len(toSend) <= Len(batch)
       /\ \A i \in DOMAIN batch : batch[i] = Oldest + i - 1
       /\ \A i \in DOMAIN toSend : toSend[i] = Upcoming + i - 1

Handed(z) == \E k \in DOMAIN handed : handed[k] = z

\* What an exchange has sent of its batch, and all that left the queue before, has been
\* handed to a socket.
SentShape ==
  /\ loop = "exchange" => \A z \in Nat : Oldest <= z /\ z < Upcoming => Handed(z)
  /\ dropped = {} => \A z \in Nat : 1 <= z /\ z <= Gone => Handed(z)

\* Before a message was handed over, all older ones that may come again were.
OlderFirst ==
  \A i \in DOMAIN handed : \A z \in Nat :
    Oldest <= z /\ z < handed[i] => \E k \in 1 .. i - 1 : handed[k] = z

\* Without a failure there is no message that may come again.
NoneAgain ==
  failures = 0 =>
    /\ \A i, j \in DOMAIN handed : i < j => handed[i] < handed[j]
    /\ \A i \in DOMAIN handed :
         handed[i] < (IF loop = "exchange" THEN Upcoming ELSE Gone + 1)

MessageInv ==
  QueueShape /\ BatchShape /\ SentShape /\ OlderFirst /\ NoneAgain /\ HandedInOrder

-----------------------------------------------------------------------------
(* The inductive invariant: the commands *)

\* The frames of a reply that is still to be handled.
Live == IF step = "replied" \/ loop = "deliver" THEN reply.frames ELSE <<>>

Rising(q) ==
  \A i, j \in DOMAIN q : i < j /\ q[i] # Registered /\ q[j] # Registered => q[i] < q[j]
Below(p, q) ==
  \A i \in DOMAIN p, j \in DOMAIN q : p[i] # Registered /\ q[j] # Registered => p[i] < q[j]

\* Commands are handled in the order in which they were sent: what was executed is older than what
\* is parked, which is older than what a reply holds, and so on to the newest.
CommandOrder ==
  /\ Rising(executed) /\ Rising(parked) /\ Rising(Live) /\ Rising(inbound)
  /\ Below(executed, parked) /\ Below(executed, Live) /\ Below(executed, inbound)
  /\ Below(parked, Live) /\ Below(parked, inbound) /\ Below(Live, inbound)
  /\ active => parked = <<>>

\* A command to come is refused by one message at most, so the numbers suffice.
Room(q, n) == \A i \in DOMAIN q : q[i] # Registered => n < MaxMessages + q[i]
UpTo(q, n) == \A i \in DOMAIN q : q[i] <= n
CommandBounds ==
  /\ UpTo(executed, sentCmds) /\ UpTo(parked, sentCmds)
  /\ UpTo(Live, sentCmds) /\ UpTo(inbound, sentCmds)
  /\ Room(Live, enqueued) /\ Room(inbound, enqueued) /\ enqueued <= MaxMessages + sentCmds

CommandInv == CommandOrder /\ CommandBounds
RelayInv == TypeOK /\ Phases /\ MessageInv /\ CommandInv

-----------------------------------------------------------------------------
(* Messages *)

MessageTypes ==
  /\ outbound \in Seq(Nat) /\ batch \in Seq(Nat) /\ toSend \in Seq(Nat) /\ handed \in Seq(Nat)
  /\ enqueued \in Nat /\ failures \in Nat

LEMMA MessagesTyped ==
  ASSUME TypeOK
  PROVE  MessageTypes
<1>1. Messages \subseteq Nat
  BY Bounds DEF Messages
<1>2. \A q \in Seq(Messages) : q \in Seq(Nat)
  <2> TAKE q \in Seq(Messages)
  <2>1. q \in [1 .. Len(q) -> Messages] /\ Len(q) \in Nat
    OBVIOUS
  <2>2. q \in [1 .. Len(q) -> Nat]
    BY <1>1, <2>1
  <2> QED  BY <2>1, <2>2
<1>3. /\ outbound \in Seq(Messages) /\ batch \in Seq(Messages) /\ toSend \in Seq(Messages)
      /\ handed \in Seq(Messages) /\ enqueued \in Nat /\ failures \in Nat
  BY Bounds DEF TypeOK
<1> QED  BY <1>2, <1>3 DEF MessageTypes

LEMMA Numbers ==
  ASSUME MessageTypes
  PROVE  /\ Gone \in Int /\ Oldest \in Int /\ Upcoming \in Int
         /\ Len(outbound) \in Nat /\ Len(batch) \in Nat /\ Len(toSend) \in Nat
         /\ Len(handed) \in Nat /\ DOMAIN handed = 1 .. Len(handed)
         /\ \A i \in DOMAIN handed : handed[i] \in Nat
         /\ Upcoming = Oldest + Len(batch) - Len(toSend)
         /\ ~(loop = "exchange" /\ batch # <<>>) => Oldest = Gone + 1
<1>1. Gone \in Int
  BY DEF Gone, MessageTypes
<1>2. Oldest \in Int
  BY <1>1 DEF Oldest, MessageTypes
<1> QED  BY <1>1, <1>2 DEF Upcoming, MessageTypes, Oldest

LEMMA OlderLater ==
  ASSUME OlderFirst, handed' = handed, Oldest \in Int, Oldest' \in Int, Oldest <= Oldest'
  PROVE  OlderFirst'
<1> SUFFICES ASSUME NEW i \in DOMAIN handed, NEW z \in Nat, Oldest' <= z, z < handed[i]
             PROVE  \E k \in 1 .. i - 1 : handed[k] = z
  BY DEF OlderFirst
<1>1. Oldest <= z
  OBVIOUS
<1> QED  BY <1>1 DEF OlderFirst

\* A step that changes none of the messages' places; failures only add up.
LEMMA MessagesSame ==
  ASSUME MessageTypes, MessageInv, failures' \in Nat, failures' >= failures,
         UNCHANGED <<outbound, enqueued, dropped, batch, toSend, handed>>,
         (loop' = "exchange") <=> (loop = "exchange")
  PROVE  MessageInv'
<1>1. Gone' = Gone /\ Oldest' = Oldest /\ Upcoming' = Upcoming
  BY DEF Gone, Oldest, Upcoming
<1>2. QueueShape' /\ BatchShape'
  BY <1>1 DEF MessageInv, QueueShape, BatchShape
<1>3. SentShape' /\ OlderFirst' /\ HandedInOrder'
  BY <1>1 DEF MessageInv, SentShape, OlderFirst, HandedInOrder, Handed
<1>4. failures' = 0 => failures = 0
  BY DEF MessageTypes
<1>5. NoneAgain'
  BY <1>1, <1>4 DEF MessageInv, NoneAgain
<1> QED  BY <1>2, <1>3, <1>5 DEF MessageInv

\* The queue has room.
LEMMA AppendKeeps ==
  ASSUME MessageTypes, MessageInv, outbound' = Append(outbound, enqueued + 1),
         enqueued' = enqueued + 1, UNCHANGED <<dropped, loop, batch, toSend, handed, failures>>
  PROVE  MessageInv'
<1>1. Len(outbound') = Len(outbound) + 1 /\ Gone' = Gone
  BY DEF Gone, MessageTypes
<1>2. Oldest' = Oldest /\ Upcoming' = Upcoming
  BY <1>1 DEF Oldest, Upcoming
<1>3. QueueShape'
  <2>1. \A i \in DOMAIN outbound' : outbound'[i] = IF i = Len(outbound) + 1 THEN enqueued + 1
                                                    ELSE outbound[i]
    BY DEF MessageTypes
  <2>2. Gone + Len(outbound) + 1 = enqueued + 1
    BY DEF Gone, MessageTypes
  <2>3. \A i \in DOMAIN outbound' : i = Len(outbound) + 1 \/ i \in DOMAIN outbound
    BY <1>1 DEF MessageTypes
  <2>4. Gone >= 0 /\ \A i \in DOMAIN outbound : outbound[i] = Gone + i
    BY DEF QueueShape, MessageInv
  <2>5. Gone \in Int /\ Len(outbound) \in Nat /\ enqueued \in Nat
    BY Numbers DEF MessageTypes
  <2>6. \A i \in DOMAIN outbound' : outbound'[i] = Gone + i
    BY <2>1, <2>2, <2>3, <2>4, <2>5
  <2> QED  BY <1>1, <2>4, <2>6 DEF QueueShape
<1>4. Len(outbound) \in Nat /\ Len(batch) \in Nat
  BY Numbers
<1>5. BatchShape'
  BY <1>1, <1>2, <1>4 DEF BatchShape, MessageInv
<1>6. SentShape' /\ OlderFirst' /\ NoneAgain' /\ HandedInOrder'
  BY <1>1, <1>2 DEF SentShape, OlderFirst, NoneAgain, HandedInOrder, Handed, MessageInv
<1> QED  BY <1>3, <1>5, <1>6 DEF MessageInv

\* The queue is full and gives up its oldest message.
LEMMA OverflowKeeps ==
  ASSUME MessageTypes, MessageInv, outbound # <<>>,
         outbound' = Append(Tail(outbound), enqueued + 1), enqueued' = enqueued + 1,
         dropped' # {}, UNCHANGED <<loop, batch, toSend, handed, failures>>
  PROVE  MessageInv'
<1>1. /\ QueueShape /\ BatchShape /\ SentShape /\ OlderFirst /\ NoneAgain /\ HandedInOrder
  BY DEF MessageInv
<1>2. /\ Len(outbound') = Len(outbound) /\ Gone' = Gone + 1 /\ Gone \in Nat
  BY <1>1 DEF Gone, MessageTypes, QueueShape
<1>3. MessageTypes'
  BY DEF MessageTypes
<1>4. /\ loop = "exchange" /\ batch # <<>> => Oldest' = Oldest /\ Upcoming' = Upcoming
      /\ ~(loop = "exchange" /\ batch # <<>>) => Oldest = Gone + 1 /\ Oldest' = Gone + 2
  BY <1>2 DEF Oldest, Upcoming
<1>5. QueueShape'
  <2>1. \A i \in DOMAIN outbound' : outbound'[i] = IF i = Len(outbound) THEN enqueued + 1
                                                    ELSE outbound[i + 1]
    BY DEF MessageTypes
  <2>2. Gone + Len(outbound) = enqueued
    BY DEF Gone, MessageTypes
  <2>3. DOMAIN outbound' = 1 .. Len(outbound) /\ DOMAIN outbound = 1 .. Len(outbound)
    BY <1>2 DEF MessageTypes
  <2>4. \A i \in DOMAIN outbound : outbound[i] = Gone + i
    BY <1>1 DEF QueueShape
  <2>5. Len(outbound) \in Nat /\ enqueued \in Nat
    BY Numbers DEF MessageTypes
  <2>6. \A i \in DOMAIN outbound' : outbound'[i] = Gone + 1 + i
    BY <1>2, <2>1, <2>2, <2>3, <2>4, <2>5
  <2> QED  BY <1>2, <2>6 DEF QueueShape
<1>6. CASE loop = "exchange" /\ batch # <<>>
  <2>1. BatchShape'
    BY <1>1, <1>2, <1>4, <1>6, Numbers DEF BatchShape
  <2>2. SentShape' /\ OlderFirst' /\ HandedInOrder' /\ NoneAgain'
    BY <1>1, <1>4, <1>6 DEF SentShape, OlderFirst, HandedInOrder, NoneAgain, Handed
  <2> QED  BY <1>5, <2>1, <2>2 DEF MessageInv
<1>7. CASE loop = "exchange" /\ batch = <<>>
  <2>1. toSend = <<>> /\ Upcoming = Oldest /\ Upcoming' = Oldest'
    <3>1. Len(toSend) = 0
      BY <1>1, <1>7, Numbers DEF BatchShape
    <3>2. toSend = <<>>
      BY <3>1 DEF MessageTypes
    <3> QED  BY <1>3, <1>4, <1>7, <3>1, <3>2 DEF Upcoming, Oldest, Gone, MessageTypes
  <2>2. BatchShape'
    BY <1>1, <1>2, <1>4, <1>7, <2>1 DEF BatchShape
  <2>3. SentShape' /\ HandedInOrder'
    BY <1>1, <2>1, Numbers, <1>4, <1>7 DEF SentShape, HandedInOrder
  <2>4. OlderFirst' /\ NoneAgain'
    BY <1>1, <1>2, <1>4, <1>7, <2>1, Numbers DEF OlderFirst, NoneAgain
  <2> QED  BY <1>5, <2>2, <2>3, <2>4 DEF MessageInv
<1>8. CASE loop # "exchange"
  <2>1. BatchShape' /\ SentShape' /\ HandedInOrder'
    BY <1>1, <1>2, <1>4, <1>8 DEF BatchShape, SentShape, HandedInOrder
  <2>2. OlderFirst'
    BY <1>1, <1>2, <1>4, <1>8, OlderLater
  <2>3. NoneAgain'
    BY <1>1, <1>2, <1>8, Numbers DEF NoneAgain
  <2> QED  BY <1>5, <2>1, <2>2, <2>3 DEF MessageInv
<1> QED  BY <1>6, <1>7, <1>8

LEMMA PutKeeps ==
  ASSUME MessageTypes, MessageInv, Put(outbound),
         UNCHANGED <<loop, batch, toSend, handed, failures>>
  PROVE  MessageInv'
<1>1. CASE Len(outbound) >= QUEUE_CAP
  <2>1. outbound # <<>>
    BY <1>1, Bounds DEF MessageTypes
  <2>2. /\ outbound' = Append(Tail(outbound), enqueued + 1) /\ enqueued' = enqueued + 1
        /\ dropped' # {}
    BY <1>1 DEF Put
  <2> QED  BY <2>1, <2>2, OverflowKeeps
<1>2. CASE ~(Len(outbound) >= QUEUE_CAP)
  BY <1>2, AppendKeeps DEF Put
<1> QED  BY <1>1, <1>2

LEMMA StartKeeps ==
  ASSUME MessageTypes, MessageInv, StartExchange
  PROVE  MessageInv'
<1>1. /\ loop = "idle" /\ loop' = "exchange" /\ batch' = outbound /\ toSend' = outbound
      /\ UNCHANGED <<outbound, enqueued, dropped, handed, failures>>
  BY DEF StartExchange
<1>2. /\ QueueShape /\ BatchShape /\ SentShape /\ OlderFirst /\ NoneAgain /\ HandedInOrder
  BY DEF MessageInv
<1>3. Gone' = Gone /\ Oldest = Gone + 1 /\ Gone \in Int
  BY <1>1, Numbers DEF Gone
<1>4. Oldest' = Gone + 1
  <2>1. CASE outbound = <<>>
    BY <1>1, <1>3, <2>1 DEF Oldest
  <2>2. CASE outbound # <<>>
    <3>1. 1 \in DOMAIN outbound
      BY <2>2 DEF MessageTypes
    <3> QED  BY <1>1, <1>2, <1>3, <2>2, <3>1 DEF Oldest, QueueShape
  <2> QED  BY <2>1, <2>2
<1>5. Upcoming' = Gone + 1
  BY <1>1, <1>3, <1>4, Numbers DEF Upcoming
<1>6. QueueShape' /\ BatchShape'
  <2>1. QueueShape'
    BY <1>1, <1>2, <1>3 DEF QueueShape
  <2>2. \A i \in DOMAIN outbound : outbound[i] = (Gone + 1) + i - 1
    BY <1>2, <1>3 DEF QueueShape, MessageTypes
  <2> QED  BY <1>1, <1>3, <1>4, <1>5, <2>1, <2>2, Numbers DEF BatchShape
<1>7. SentShape' /\ HandedInOrder'
  BY <1>1, <1>2, <1>3, <1>4, <1>5 DEF SentShape, Handed, HandedInOrder
<1>8. OlderFirst' /\ NoneAgain'
  BY <1>1, <1>2, <1>3, <1>4, <1>5 DEF OlderFirst, NoneAgain
<1> QED  BY <1>6, <1>7, <1>8 DEF MessageInv

\* The exchange fails: the queue is kept, and what it holds may come again.
LEMMA FailKeeps ==
  ASSUME MessageTypes, MessageInv, loop = "exchange", loop' = "idle", failures' # 0,
         UNCHANGED <<outbound, enqueued, dropped, batch, toSend, handed>>
  PROVE  MessageInv'
<1>1. /\ QueueShape /\ BatchShape /\ SentShape /\ OlderFirst /\ HandedInOrder
  BY DEF MessageInv
<1>2. Gone' = Gone /\ Oldest' = Gone + 1 /\ Oldest <= Gone + 1 /\ Gone \in Int /\ Oldest \in Int
  BY <1>1, Numbers DEF Gone, Oldest, BatchShape
<1>3. QueueShape' /\ BatchShape'
  BY <1>1, <1>2 DEF QueueShape, BatchShape
<1>4. SentShape' /\ HandedInOrder' /\ NoneAgain'
  BY <1>1, <1>2 DEF SentShape, Handed, HandedInOrder, NoneAgain
<1>5. OlderFirst'
  BY <1>1, <1>2, OlderLater
<1> QED  BY <1>3, <1>4, <1>5 DEF MessageInv

LEMMA SpliceKeeps ==
  ASSUME MessageTypes, MessageInv, loop = "exchange", loop' = "deliver",
         outbound' = Spliced(outbound), toSend = <<>>,
         UNCHANGED <<enqueued, dropped, batch, toSend, handed, failures>>
  PROVE  MessageInv'
<1>1. /\ QueueShape /\ BatchShape /\ SentShape /\ OlderFirst /\ NoneAgain /\ HandedInOrder
  BY DEF MessageInv
<1>2. Len(batch) \in Nat /\ Len(outbound) \in Nat /\ Len(batch) <= Len(outbound)
  BY <1>1, Numbers DEF BatchShape
<1>3. /\ Len(outbound') = Len(outbound) - Len(batch) /\ DOMAIN outbound' = 1 .. Len(outbound')
      /\ \A i \in 1 .. Len(outbound') : outbound'[i] = outbound[Len(batch) + i]
  BY <1>2 DEF Spliced, MessageTypes
<1>4. Gone \in Nat /\ Gone' = Gone + Len(batch) /\ Oldest' = Gone' + 1
  BY <1>1, <1>2, <1>3 DEF Gone, QueueShape, MessageTypes, Oldest
<1>5. Oldest \in Int /\ Oldest <= Gone + 1 /\ Upcoming = Oldest + Len(batch)
  BY <1>1, <1>2, Numbers DEF BatchShape, Upcoming
<1>6. QueueShape'
  <2>1. \A i \in 1 .. Len(outbound') : Len(batch) + i \in DOMAIN outbound
    BY <1>2, <1>3 DEF MessageTypes
  <2>2. \A i \in 1 .. Len(outbound') : outbound'[i] = Gone + (Len(batch) + i)
    BY <1>1, <1>3, <2>1 DEF QueueShape
  <2>3. \A i \in 1 .. Len(outbound') : outbound'[i] = Gone' + i
    <3> TAKE i \in 1 .. Len(outbound')
    <3>1. Len(outbound') \in Int
      BY <1>2, <1>3
    <3>2. i \in Int
      BY <3>1
    <3>3. Gone + (Len(batch) + i) = Gone' + i
      BY <1>2, <1>4, <3>2
    <3> QED  BY <2>2, <3>3
  <2>4. Gone' >= 0
    BY <1>2, <1>4
  <2> QED  BY <1>3, <2>3, <2>4 DEF QueueShape
<1>7. BatchShape'
  BY <1>4 DEF BatchShape
<1>8. SentShape'
  <2>1. SUFFICES ASSUME dropped = {}, NEW z \in Nat, 1 <= z, z <= Gone'
                 PROVE  Handed(z)
    BY DEF SentShape, Handed
  <2>2. CASE z <= Gone
    BY <1>1, <2>1, <2>2 DEF SentShape
  <2>3. CASE ~(z <= Gone)
    <3>1. Oldest = Gone + 1
      BY <1>1, <2>1 DEF BatchShape
    <3>2. Oldest <= z /\ z < Upcoming
      BY <1>2, <1>4, <1>5, <2>1, <2>3, <3>1
    <3> QED  BY <1>1, <3>2 DEF SentShape
  <2> QED  BY <2>2, <2>3
<1>9. HandedInOrder'
  BY <1>1 DEF HandedInOrder
<1>10. OlderFirst'
  <2>1. Oldest' \in Int /\ Oldest <= Oldest'
    BY <1>2, <1>4, <1>5
  <2> QED  BY <1>1, <1>5, <2>1, OlderLater
<1>11. NoneAgain'
  BY <1>1, <1>2, <1>4, <1>5, Numbers DEF NoneAgain
<1> QED  BY <1>6, <1>7, <1>8, <1>9, <1>10, <1>11 DEF MessageInv

LEMMA SendKeeps ==
  ASSUME MessageTypes, MessageInv, Phases, SendOne
  PROVE  MessageInv'
<1>0. /\ QueueShape /\ BatchShape /\ SentShape /\ OlderFirst /\ NoneAgain /\ HandedInOrder
  BY DEF MessageInv
<1>1. /\ loop = "exchange" /\ toSend # <<>> /\ handed' = Append(handed, Head(toSend))
      /\ toSend' = Tail(toSend)
      /\ UNCHANGED <<outbound, enqueued, dropped, batch, loop, failures>>
  BY DEF SendOne, Phases, page
<1> DEFINE x == Head(toSend)
           n == Len(handed)
<1>2. /\ x = Upcoming /\ x \in Nat /\ n \in Nat /\ Gone' = Gone /\ Oldest' = Oldest
      /\ Oldest \in Int /\ Gone \in Int /\ Upcoming' = Upcoming + 1 /\ Len(toSend') = Len(toSend) - 1
  <2>1. x = toSend[1] /\ 1 \in DOMAIN toSend /\ Len(toSend') = Len(toSend) - 1 /\ x \in Nat /\ n \in Nat
    BY <1>1 DEF MessageTypes
  <2>2. Gone' = Gone /\ Oldest' = Oldest /\ Oldest \in Int /\ Gone \in Int
    BY <1>1, Numbers DEF Gone, Oldest
  <2>3. Upcoming \in Int /\ Upcoming' = Upcoming + 1
    BY <1>1, <2>1, <2>2, Numbers DEF Upcoming
  <2>4. x = Upcoming
    <3>1. \A i \in DOMAIN toSend : toSend[i] = Upcoming + i - 1
      BY <1>0, <1>1 DEF BatchShape
    <3> QED  BY <2>1, <2>3, <3>1
  <2> QED  BY <2>1, <2>2, <2>3, <2>4
<1>3. /\ Len(handed') = n + 1 /\ DOMAIN handed' = 1 .. n + 1 /\ DOMAIN handed = 1 .. n
      /\ handed'[n + 1] = x /\ \A k \in 1 .. n : handed'[k] = handed[k] /\ handed[k] \in Nat
  BY <1>1 DEF MessageTypes
<1> HIDE DEF x, n
<1>4. QueueShape'
  BY <1>0, <1>1, <1>2 DEF QueueShape
<1>5. BatchShape'
  <2>1. \A i \in DOMAIN toSend' : toSend'[i] = Upcoming' + i - 1
    <3>1. \A i \in DOMAIN toSend' : i + 1 \in DOMAIN toSend /\ toSend'[i] = toSend[i + 1] /\ i \in Nat
      BY <1>1 DEF MessageTypes
    <3>2. Upcoming \in Int
      BY Numbers
    <3> QED  BY <1>0, <1>1, <1>2, <3>1, <3>2 DEF BatchShape
  <2>2. Len(toSend') <= Len(batch)
    BY <1>0, <1>1, <1>2, Numbers DEF BatchShape
  <2> QED  BY <1>0, <1>1, <1>2, <2>1, <2>2 DEF BatchShape
<1>6. SentShape'
  <2>1. \A z : Handed(z) => \E k \in DOMAIN handed' : handed'[k] = z
    BY <1>2, <1>3 DEF Handed
  <2>2. \E k \in DOMAIN handed' : handed'[k] = x
    BY <1>2, <1>3
  <2>3. ASSUME NEW z \in Nat, Oldest <= z, z < Upcoming + 1
        PROVE  \E k \in DOMAIN handed' : handed'[k] = z
    <3>1. CASE z = x
      BY <2>2, <3>1
    <3>2. CASE z # x
      <4>1. z < Upcoming
        BY <1>2, <2>3, <3>2
      <4> QED  BY <1>0, <1>1, <2>1, <2>3, <4>1 DEF SentShape
    <3> QED  BY <3>1, <3>2
  <2>4. \A z \in Nat : dropped = {} /\ 1 <= z /\ z <= Gone => \E k \in DOMAIN handed' : handed'[k] = z
    BY <1>0, <2>1 DEF SentShape
  <2> QED  BY <1>1, <1>2, <2>3, <2>4 DEF SentShape, Handed
<1>7. OlderFirst'
  <2> SUFFICES ASSUME NEW i \in 1 .. n + 1, NEW z \in Nat, Oldest <= z, z < handed'[i]
               PROVE  \E k \in 1 .. i - 1 : handed'[k] = z
    BY <1>2, <1>3 DEF OlderFirst
  <2>1. CASE i = n + 1
    <3>1. Handed(z)
      BY <1>0, <1>1, <1>2, <1>3, <2>1 DEF SentShape
    <3> QED  BY <1>2, <1>3, <2>1, <3>1 DEF Handed
  <2>2. CASE i \in 1 .. n
    <3>1. PICK k \in 1 .. i - 1 : handed[k] = z
      BY <1>0, <1>3, <2>2 DEF OlderFirst
    <3> QED  BY <1>2, <1>3, <2>2, <3>1
  <2> QED  BY <1>2, <2>1, <2>2
<1>8. HandedInOrder'
  <2> SUFFICES ASSUME NEW j \in 1 .. n + 1, NEW i \in 1 .. j - 1, handed'[i] > handed'[j]
               PROVE  \E k \in 1 .. i - 1 : handed'[k] = handed'[j]
    BY <1>2, <1>3 DEF HandedInOrder
  <2>1. CASE j = n + 1
    <3>1. i \in 1 .. n /\ handed[i] > x
      BY <1>2, <1>3, <2>1
    <3>2. Oldest <= x
      BY <1>0, <1>1, <1>2, Numbers DEF BatchShape
    <3>3. PICK k \in 1 .. i - 1 : handed[k] = x
      BY <1>0, <1>2, <1>3, <3>1, <3>2 DEF OlderFirst
    <3> QED  BY <1>2, <1>3, <2>1, <3>1, <3>3
  <2>2. CASE j \in 1 .. n
    <3>1. i \in 1 .. n /\ handed[i] > handed[j]
      BY <1>2, <1>3, <2>2
    <3>2. PICK k \in 1 .. i - 1 : handed[k] = handed[j]
      BY <1>0, <1>3, <2>2, <3>1 DEF HandedInOrder
    <3> QED  BY <1>2, <1>3, <2>2, <3>1, <3>2
  <2> QED  BY <1>2, <2>1, <2>2
<1>9. NoneAgain'
  <2> SUFFICES ASSUME failures = 0
               PROVE  /\ \A i, j \in 1 .. n + 1 : i < j => handed'[i] < handed'[j]
                      /\ \A i \in 1 .. n + 1 : handed'[i] < Upcoming + 1
    BY <1>1, <1>2, <1>3 DEF NoneAgain
  <2>1. /\ \A i, j \in 1 .. n : i < j => handed[i] < handed[j]
        /\ \A i \in 1 .. n : handed[i] < x
    BY <1>0, <1>1, <1>2, <1>3 DEF NoneAgain
  <2>2. \A i \in 1 .. n + 1 : i \in 1 .. n \/ i = n + 1
    BY <1>2
  <2>3. \A i \in 1 .. n : handed'[i] = handed[i] /\ handed[i] < x /\ handed[i] \in Nat
    BY <1>3, <2>1
  <2>4. ASSUME NEW i \in 1 .. n + 1, NEW j \in 1 .. n + 1, i < j
        PROVE  handed'[i] < handed'[j]
    <3>1. i \in 1 .. n
      BY <1>2, <2>4
    <3>2. CASE j = n + 1
      BY <1>3, <2>3, <3>1, <3>2
    <3>3. CASE j \in 1 .. n
      BY <2>1, <2>3, <2>4, <3>1, <3>3
    <3> QED  BY <2>2, <3>2, <3>3
  <2>5. ASSUME NEW i \in 1 .. n + 1 PROVE handed'[i] < Upcoming + 1
    BY <1>2, <1>3, <2>2, <2>3
  <2> QED  BY <2>4, <2>5
<1> QED  BY <1>4, <1>5, <1>6, <1>7, <1>8, <1>9 DEF MessageInv

-----------------------------------------------------------------------------
(* Sequences of commands *)

LEMMA Empty ==
  ASSUME NEW q, NEW n
  PROVE  Rising(<<>>) /\ Below(q, <<>>) /\ Below(<<>>, q) /\ Room(<<>>, n) /\ UpTo(<<>>, n)
BY DEF Rising, Below, Room, UpTo

LEMMA One ==
  ASSUME NEW x
  PROVE  Rising(<<x>>)
BY DEF Rising

\* What a concatenation holds comes from its halves.
LEMMA Parts ==
  ASSUME NEW p \in Seq(Nat), NEW q \in Seq(Nat)
  PROVE  /\ p \o q \in Seq(Nat)
         /\ \A i \in DOMAIN p : i \in DOMAIN (p \o q) /\ (p \o q)[i] = p[i]
         /\ \A i \in DOMAIN q : /\ Len(p) + i \in DOMAIN (p \o q)
                                /\ (p \o q)[Len(p) + i] = q[i]
         /\ \A i \in DOMAIN (p \o q) : i \in DOMAIN p \/ i - Len(p) \in DOMAIN q
         /\ Len(p) \in Nat /\ DOMAIN p = 1 .. Len(p)
OBVIOUS

LEMMA RisingJoin ==
  ASSUME NEW p \in Seq(Nat), NEW q \in Seq(Nat)
  PROVE  Rising(p \o q) <=> Rising(p) /\ Rising(q) /\ Below(p, q)
<1> DEFINE r == p \o q
           n == Len(p)
<1>1. /\ \A i \in DOMAIN p : i \in DOMAIN r /\ r[i] = p[i] /\ i <= n /\ i \in Nat
      /\ \A i \in DOMAIN q : n + i \in DOMAIN r /\ r[n + i] = q[i] /\ i > 0 /\ i \in Nat
      /\ \A i \in DOMAIN r : i \in Nat /\ (i \in DOMAIN p \/ (i - n \in DOMAIN q /\ i > n))
      /\ n \in Nat
  BY Parts
<1> HIDE DEF r, n
<1>2. ASSUME Rising(r) PROVE Rising(p) /\ Rising(q) /\ Below(p, q)
  <2>1. Rising(p)
    BY <1>1, <1>2 DEF Rising
  <2>2. ASSUME NEW i \in DOMAIN q, NEW j \in DOMAIN q, i < j, q[i] # Registered, q[j] # Registered
        PROVE  q[i] < q[j]
    <3>1. n + i < n + j
      BY <1>1, <2>2
    <3> QED  BY <1>1, <1>2, <2>2, <3>1 DEF Rising
  <2>3. ASSUME NEW i \in DOMAIN p, NEW j \in DOMAIN q, p[i] # Registered, q[j] # Registered
        PROVE  p[i] < q[j]
    <3>1. i < n + j
      BY <1>1, <2>3
    <3> QED  BY <1>1, <1>2, <2>3, <3>1 DEF Rising
  <2> QED  BY <2>1, <2>2, <2>3 DEF Rising, Below
<1>3. ASSUME Rising(p), Rising(q), Below(p, q),
             NEW i \in DOMAIN r, NEW j \in DOMAIN r, i < j, r[i] # Registered, r[j] # Registered
      PROVE  r[i] < r[j]
  <2>1. CASE j \in DOMAIN p
    <3>1. i \in DOMAIN p
      BY <1>1, <1>3, <2>1
    <3> QED  BY <1>1, <1>3, <2>1, <3>1 DEF Rising
  <2>2. CASE i \notin DOMAIN p
    <3>1. /\ i - n \in DOMAIN q /\ j - n \in DOMAIN q /\ i - n < j - n
          /\ r[i] = q[i - n] /\ r[j] = q[j - n]
      BY <1>1, <1>3, <2>2
    <3> QED  BY <1>3, <3>1 DEF Rising
  <2>3. CASE i \in DOMAIN p /\ j \notin DOMAIN p
    <3>1. r[i] = p[i] /\ j - n \in DOMAIN q /\ r[j] = q[j - n]
      BY <1>1, <2>3
    <3> QED  BY <1>3, <2>3, <3>1 DEF Below
  <2> QED  BY <2>1, <2>2, <2>3
<1>4. Rising(p) /\ Rising(q) /\ Below(p, q) => Rising(r)
  BY <1>3 DEF Rising
<1> QED  BY <1>2, <1>4 DEF r

\* The members of r are those of p and q.
Merges(p, q, r) ==
  /\ \A i \in DOMAIN p : i \in DOMAIN r /\ r[i] = p[i]
  /\ \A i \in DOMAIN q : \E k \in DOMAIN r : r[k] = q[i]
  /\ \A k \in DOMAIN r : \/ k \in DOMAIN p /\ r[k] = p[k]
                         \/ \E i \in DOMAIN q : r[k] = q[i]

LEMMA Members ==
  ASSUME NEW p \in Seq(Nat), NEW q \in Seq(Nat)
  PROVE  Merges(p, q, p \o q)
<1> DEFINE r == p \o q
<1>1. \A i \in DOMAIN p : i \in DOMAIN r /\ r[i] = p[i]
  BY Parts
<1>2. \A i \in DOMAIN q : \E k \in DOMAIN r : r[k] = q[i]
  BY Parts
<1>3. ASSUME NEW k \in DOMAIN r, k \notin DOMAIN p
      PROVE  \E i \in DOMAIN q : r[k] = q[i]
  <2>1. k - Len(p) \in DOMAIN q
    BY <1>3, Parts
  <2>2. Len(p) + (k - Len(p)) = k
    BY Parts
  <2>3. r[Len(p) + (k - Len(p))] = q[k - Len(p)]
    BY <2>1, Parts
  <2> QED  BY <2>1, <2>2, <2>3
<1> QED  BY <1>1, <1>2, <1>3 DEF Merges

LEMMA BelowJoin ==
  ASSUME NEW p \in Seq(Nat), NEW q \in Seq(Nat), NEW s
  PROVE  /\ Below(p \o q, s) <=> Below(p, s) /\ Below(q, s)
         /\ Below(s, p \o q) <=> Below(s, p) /\ Below(s, q)
<1> DEFINE r == p \o q
<1>1. Merges(p, q, r)
  BY Members
<1> HIDE DEF r
<1> QED  BY <1>1 DEF Below, Merges, r

LEMMA BoundsJoin ==
  ASSUME NEW p \in Seq(Nat), NEW q \in Seq(Nat), NEW n
  PROVE  /\ UpTo(p \o q, n) <=> UpTo(p, n) /\ UpTo(q, n)
         /\ Room(p \o q, n) <=> Room(p, n) /\ Room(q, n)
<1> DEFINE r == p \o q
<1>1. Merges(p, q, r)
  BY Members
<1> HIDE DEF r
<1>2. UpTo(r, n) <=> UpTo(p, n) /\ UpTo(q, n)
  BY <1>1 DEF UpTo, Merges
<1>3. Room(r, n) <=> Room(p, n) /\ Room(q, n)
  BY <1>1 DEF Room, Merges
<1> QED  BY <1>2, <1>3 DEF r

LEMMA FirstAndRest ==
  ASSUME NEW q \in Seq(Nat), q # <<>>
  PROVE  /\ Head(q) \in Nat /\ Tail(q) \in Seq(Nat) /\ <<Head(q)>> \in Seq(Nat)
         /\ q = <<Head(q)>> \o Tail(q)
OBVIOUS

LEMMA LastAppended ==
  ASSUME NEW q \in Seq(Nat), NEW x \in Nat
  PROVE  Append(q, x) = q \o <<x>> /\ <<x>> \in Seq(Nat)
OBVIOUS

-----------------------------------------------------------------------------
(* Commands *)

CommandTypes ==
  /\ executed \in Seq(Nat) /\ parked \in Seq(Nat) /\ Live \in Seq(Nat) /\ inbound \in Seq(Nat)
  /\ sentCmds \in Nat /\ enqueued \in Nat

LEMMA SubSequences ==
  ASSUME NEW S, S \subseteq Nat, NEW q \in Seq(S)
  PROVE  q \in Seq(Nat)
<1>1. q \in [1 .. Len(q) -> S] /\ Len(q) \in Nat
  OBVIOUS
<1>2. q \in [1 .. Len(q) -> Nat]
  BY <1>1
<1> QED  BY <1>1, <1>2

LEMMA CommandsTyped ==
  ASSUME TypeOK
  PROVE  CommandTypes /\ Registered \in Nat /\ Registered = 0 /\ reply.frames \in Seq(Nat)
<1>1. Commands \subseteq Nat /\ Frames \subseteq Nat /\ Registered \in Nat /\ Registered = 0
  BY DEF Commands, Frames, Registered
<1>2. /\ executed \in Seq(Commands) /\ parked \in Seq(Commands) /\ inbound \in Seq(Frames)
      /\ reply.frames \in Seq(Frames) /\ sentCmds \in Nat /\ enqueued \in Nat
  BY Bounds DEF TypeOK
<1>3. /\ executed \in Seq(Nat) /\ parked \in Seq(Nat) /\ inbound \in Seq(Nat)
      /\ reply.frames \in Seq(Nat)
  BY <1>1, <1>2, SubSequences
<1>4. Live \in Seq(Nat)
  BY <1>3 DEF Live
<1> QED  BY <1>1, <1>2, <1>3, <1>4 DEF CommandTypes

\* Nothing is executed or parked; frames may be given up, and handed to the page.
LEMMA FramesKeep ==
  ASSUME CommandTypes, CommandInv, UNCHANGED <<executed, parked, sentCmds, enqueued>>,
         active' => active,
         \/ Live' \in {Live, <<>>} /\ inbound' \in {inbound, <<>>}
         \/ Live' = inbound /\ inbound' = <<>>
  PROVE  CommandInv'
BY Empty DEF CommandTypes, CommandInv, CommandOrder, CommandBounds

\* A frame is sent after all that was.
LEMMA LastFrame ==
  ASSUME CommandTypes, CommandInv, NEW u \in Seq(Nat), NEW n \in Nat, Rising(u),
         \A p \in Seq(Nat) : UpTo(p, sentCmds) => Below(p, u) /\ UpTo(p, n),
         UpTo(u, n), Room(u, enqueued)
  PROVE  /\ Rising(inbound \o u) /\ Below(executed, inbound \o u)
         /\ Below(parked, inbound \o u) /\ Below(Live, inbound \o u)
         /\ UpTo(executed, n) /\ UpTo(parked, n) /\ UpTo(Live, n)
         /\ UpTo(inbound \o u, n) /\ Room(inbound \o u, enqueued)
<1>1. /\ executed \in Seq(Nat) /\ parked \in Seq(Nat) /\ Live \in Seq(Nat) /\ inbound \in Seq(Nat)
  BY DEF CommandTypes
<1>2. /\ UpTo(executed, sentCmds) /\ UpTo(parked, sentCmds) /\ UpTo(Live, sentCmds)
      /\ UpTo(inbound, sentCmds) /\ Room(inbound, enqueued)
      /\ Rising(inbound) /\ Below(executed, inbound) /\ Below(parked, inbound)
      /\ Below(Live, inbound)
  BY DEF CommandInv, CommandOrder, CommandBounds
<1>3. /\ Below(executed, u) /\ Below(parked, u) /\ Below(Live, u) /\ Below(inbound, u)
      /\ UpTo(executed, n) /\ UpTo(parked, n) /\ UpTo(Live, n) /\ UpTo(inbound, n)
  BY <1>1, <1>2
<1>4. Rising(inbound \o u)
  BY <1>1, <1>2, <1>3, RisingJoin
<1>5. Below(executed, inbound \o u) /\ Below(parked, inbound \o u) /\ Below(Live, inbound \o u)
  BY <1>1, <1>2, <1>3, BelowJoin
<1>6. UpTo(inbound \o u, n) /\ Room(inbound \o u, enqueued)
  BY <1>1, <1>2, <1>3, BoundsJoin
<1> QED  BY <1>3, <1>4, <1>5, <1>6

LEMMA RegisterKeeps ==
  ASSUME CommandTypes, CommandInv, UNCHANGED <<executed, parked, sentCmds, enqueued, active>>,
         Live' = Live, inbound' = Append(inbound, Registered), Registered = 0
  PROVE  CommandInv'
<1> DEFINE u == <<Registered>>
<1>1. inbound' = inbound \o u /\ u \in Seq(Nat) /\ sentCmds \in Nat
  BY LastAppended DEF CommandTypes
<1>2. \A p \in Seq(Nat) : UpTo(p, sentCmds) => Below(p, u) /\ UpTo(p, sentCmds)
  BY DEF Below
<1>3. Rising(u) /\ UpTo(u, sentCmds) /\ Room(u, enqueued)
  BY <1>1 DEF Rising, UpTo, Room
<1> HIDE DEF u
<1>4. /\ Rising(inbound') /\ Below(executed, inbound') /\ Below(parked, inbound')
      /\ Below(Live, inbound') /\ UpTo(inbound', sentCmds) /\ Room(inbound', enqueued)
  BY <1>1, <1>2, <1>3, LastFrame
<1> QED  BY <1>4 DEF CommandInv, CommandOrder, CommandBounds

LEMMA ArrivesKeeps ==
  ASSUME CommandTypes, CommandInv, UNCHANGED <<executed, parked, enqueued, active>>,
         Live' = Live, sentCmds' = sentCmds + 1, inbound' = Append(inbound, sentCmds + 1)
  PROVE  CommandInv'
<1> DEFINE u == <<sentCmds + 1>>
<1>1. inbound' = inbound \o u /\ u \in Seq(Nat) /\ sentCmds \in Nat /\ sentCmds' \in Nat
  BY LastAppended DEF CommandTypes
<1>2. \A p \in Seq(Nat) : UpTo(p, sentCmds) => Below(p, u) /\ UpTo(p, sentCmds')
  BY <1>1 DEF Below, UpTo
<1>3. Rising(u) /\ UpTo(u, sentCmds')
  BY <1>1 DEF Rising, UpTo
<1>4. enqueued <= MaxMessages + sentCmds /\ enqueued \in Nat
  BY DEF CommandInv, CommandBounds, CommandTypes
<1>5. Room(u, enqueued) /\ enqueued <= MaxMessages + sentCmds'
  BY <1>1, <1>4, Bounds DEF Room
<1> HIDE DEF u
<1>6. /\ Rising(inbound') /\ Below(executed, inbound') /\ Below(parked, inbound')
      /\ Below(Live, inbound')
      /\ UpTo(executed, sentCmds') /\ UpTo(parked, sentCmds') /\ UpTo(Live, sentCmds')
      /\ UpTo(inbound', sentCmds') /\ Room(inbound', enqueued)
  BY <1>1, <1>2, <1>3, <1>5, LastFrame
<1> QED  BY <1>5, <1>6 DEF CommandInv, CommandOrder, CommandBounds

\* The page enqueues a message of its own.
LEMMA EnqueuedKeeps ==
  ASSUME CommandTypes, CommandInv, UNCHANGED <<executed, parked, sentCmds, active, inbound>>,
         Live' = Live, enqueued' = enqueued + 1, enqueued < MaxMessages, Registered = 0
  PROVE  CommandInv'
<1>1. CommandOrder'
  BY DEF CommandInv, CommandOrder
<1>2. Room(Live, enqueued + 1) /\ Room(inbound, enqueued + 1)
  <2>1. ASSUME NEW q \in Seq(Nat), NEW i \in DOMAIN q, q[i] # Registered
        PROVE  enqueued + 1 < MaxMessages + q[i]
    <3>1. q[i] \in Nat
      BY <2>1
    <3>2. \A a, b, c \in Nat : a < b /\ c # 0 => a + 1 < b + c
      OBVIOUS
    <3>3. enqueued \in Nat /\ MaxMessages \in Nat
      BY Bounds DEF CommandTypes
    <3> QED  BY <2>1, <3>1, <3>2, <3>3
  <2> QED  BY <2>1 DEF Room, CommandTypes
<1>3. enqueued + 1 <= MaxMessages + sentCmds
  BY Bounds DEF CommandTypes
<1>4. CommandBounds'
  BY <1>2, <1>3 DEF CommandInv, CommandBounds
<1> QED  BY <1>1, <1>4 DEF CommandInv

\* The next frame of a reply: all that is known of it and of the rest.
LEMMA NextFrame ==
  ASSUME CommandTypes, CommandInv, Live # <<>>
  PROVE  LET u == <<Head(Live)>>
             F == Tail(Live)
         IN  /\ F \in Seq(Nat) /\ u \in Seq(Nat) /\ Head(Live) \in Nat
             /\ Rising(F) /\ Below(u, F) /\ Below(u, inbound)
             /\ Below(executed, u) /\ Below(parked, u)
             /\ Below(executed, F) /\ Below(parked, F) /\ Below(F, inbound)
             /\ UpTo(u, sentCmds) /\ UpTo(F, sentCmds)
             /\ Room(u, enqueued) /\ Room(F, enqueued)
<1> DEFINE u == <<Head(Live)>>
           F == Tail(Live)
<1>1. F \in Seq(Nat) /\ u \in Seq(Nat) /\ Head(Live) \in Nat /\ Live = u \o F
  BY FirstAndRest DEF CommandTypes
<1> HIDE DEF u, F
<1>2. /\ Rising(u \o F) /\ Below(u \o F, inbound)
      /\ Below(executed, u \o F) /\ Below(parked, u \o F)
      /\ UpTo(u \o F, sentCmds) /\ Room(u \o F, enqueued)
  BY <1>1 DEF CommandInv, CommandOrder, CommandBounds
<1>3. Rising(F) /\ Below(u, F)
  BY <1>1, <1>2, RisingJoin
<1>4. /\ Below(u, inbound) /\ Below(F, inbound)
      /\ Below(executed, u) /\ Below(executed, F) /\ Below(parked, u) /\ Below(parked, F)
  BY <1>1, <1>2, BelowJoin
<1>5. UpTo(u, sentCmds) /\ UpTo(F, sentCmds) /\ Room(u, enqueued) /\ Room(F, enqueued)
  BY <1>1, <1>2, BoundsJoin
<1> QED  BY <1>1, <1>3, <1>4, <1>5 DEF u, F

\* The registration: what is parked is executed.
LEMMA DrainKeeps ==
  ASSUME CommandTypes, CommandInv, Live # <<>>, Live' = Tail(Live),
         executed' = executed \o parked, parked' = <<>>,
         UNCHANGED <<inbound, sentCmds, enqueued>>
  PROVE  CommandInv'
<1>1. executed \in Seq(Nat) /\ parked \in Seq(Nat)
  BY DEF CommandTypes
<1>2. /\ Rising(executed) /\ Rising(parked) /\ Below(executed, parked)
      /\ Below(executed, inbound) /\ Below(parked, inbound)
      /\ UpTo(executed, sentCmds) /\ UpTo(parked, sentCmds)
  BY DEF CommandInv, CommandOrder, CommandBounds
<1>3. Below(executed, Tail(Live)) /\ Below(parked, Tail(Live))
  BY NextFrame
<1>4. /\ Rising(executed \o parked) /\ UpTo(executed \o parked, sentCmds)
      /\ Below(executed \o parked, Tail(Live)) /\ Below(executed \o parked, inbound)
  BY <1>1, <1>2, <1>3, RisingJoin, BelowJoin, BoundsJoin
<1>5. Rising(Tail(Live)) /\ Below(Tail(Live), inbound) /\ UpTo(Tail(Live), sentCmds) /\ Room(Tail(Live), enqueued)
  BY NextFrame
<1> QED  BY <1>4, <1>5, Empty DEF CommandInv, CommandOrder, CommandBounds

\* A command that arrives while a transport is active.
LEMMA ExecuteKeeps ==
  ASSUME CommandTypes, CommandInv, Live # <<>>, Live' = Tail(Live), active,
         executed' = Append(executed, Head(Live)),
         UNCHANGED <<parked, active, inbound, sentCmds, enqueued>>
  PROVE  CommandInv'
<1> DEFINE u == <<Head(Live)>>
           F == Tail(Live)
<1>1. executed \in Seq(Nat) /\ u \in Seq(Nat) /\ executed' = executed \o u
  BY NextFrame, LastAppended DEF CommandTypes
<1>2. /\ Rising(executed) /\ Below(executed, inbound) /\ UpTo(executed, sentCmds) /\ parked = <<>>
  BY DEF CommandInv, CommandOrder, CommandBounds
<1>3. /\ Below(executed, u) /\ Below(executed, F) /\ Below(u, F) /\ Below(u, inbound)
      /\ UpTo(u, sentCmds) /\ Rising(u)
  BY NextFrame, One
<1>4. Rising(F) /\ Below(F, inbound) /\ UpTo(F, sentCmds) /\ Room(F, enqueued)
  BY NextFrame
<1> HIDE DEF u, F
<1>5. /\ Rising(executed') /\ UpTo(executed', sentCmds)
      /\ Below(executed', F) /\ Below(executed', inbound)
  <2>1. Rising(executed \o u)
    BY <1>1, <1>2, <1>3, RisingJoin
  <2>2. Below(executed \o u, F) /\ Below(executed \o u, inbound)
    BY <1>1, <1>2, <1>3, BelowJoin
  <2>3. UpTo(executed \o u, sentCmds)
    BY <1>1, <1>2, <1>3, BoundsJoin
  <2> QED  BY <1>1, <2>1, <2>2, <2>3
<1>6. Live' = F
  BY DEF F
<1> QED  BY <1>2, <1>4, <1>5, <1>6, Empty DEF CommandInv, CommandOrder, CommandBounds

\* A command that is parked behind q, which is what is parked or all but the first of it.
LEMMA ParkKeeps ==
  ASSUME CommandTypes, CommandInv, Live # <<>>, Live' = Tail(Live), NEW q \in Seq(Nat),
         parked' = Append(q, Head(Live)), ~active', Rising(q), Below(executed, q),
         Below(q, Tail(Live)), Below(q, <<Head(Live)>>), Below(q, inbound), UpTo(q, sentCmds),
         UNCHANGED <<executed, inbound, sentCmds>>, Room(Tail(Live), enqueued'), Room(inbound, enqueued'),
         enqueued' <= MaxMessages + sentCmds
  PROVE  CommandInv'
<1> DEFINE u == <<Head(Live)>>
           F == Tail(Live)
<1>1. executed \in Seq(Nat) /\ u \in Seq(Nat) /\ parked' = q \o u
  BY NextFrame, LastAppended DEF CommandTypes
<1>2. /\ Rising(executed) /\ Below(executed, inbound) /\ UpTo(executed, sentCmds)
      /\ Rising(inbound) /\ UpTo(inbound, sentCmds)
  BY DEF CommandInv, CommandOrder, CommandBounds
<1>3. /\ Below(executed, u) /\ Below(executed, F) /\ Below(u, F) /\ Below(u, inbound)
      /\ UpTo(u, sentCmds) /\ Rising(u)
  BY NextFrame, One
<1>4. Rising(F) /\ Below(F, inbound) /\ UpTo(F, sentCmds)
  BY NextFrame
<1>5. Below(q, F) /\ Below(q, u) /\ Live' = F /\ Room(F, enqueued')
  OBVIOUS
<1> HIDE DEF u, F
<1>6. /\ Rising(parked') /\ UpTo(parked', sentCmds) /\ Below(executed, parked')
      /\ Below(parked', F) /\ Below(parked', inbound)
  <2>1. Rising(q \o u)
    BY <1>1, <1>5, <1>3, RisingJoin
  <2>2. Below(executed, q \o u) /\ Below(q \o u, F) /\ Below(q \o u, inbound)
    BY <1>1, <1>3, <1>5, BelowJoin
  <2>3. UpTo(q \o u, sentCmds)
    BY <1>1, <1>3, BoundsJoin
  <2> QED  BY <1>1, <2>1, <2>2, <2>3
<1> QED  BY <1>2, <1>3, <1>4, <1>5, <1>6 DEF CommandInv, CommandOrder, CommandBounds

LEMMA ParkedKeeps ==
  ASSUME CommandTypes, CommandInv, Live # <<>>, Live' = Tail(Live), ~active',
         parked' = Append(parked, Head(Live)), UNCHANGED <<executed, inbound, sentCmds, enqueued>>
  PROVE  CommandInv'
<1>1. parked \in Seq(Nat)
  BY DEF CommandTypes
<1>2. /\ Rising(parked) /\ Below(executed, parked) /\ Below(parked, inbound)
      /\ UpTo(parked, sentCmds) /\ Room(inbound, enqueued') /\ enqueued' <= MaxMessages + sentCmds
  BY DEF CommandInv, CommandOrder, CommandBounds
<1>3. Below(parked, Tail(Live)) /\ Below(parked, <<Head(Live)>>) /\ Room(Tail(Live), enqueued')
  BY NextFrame
<1> QED  BY <1>1, <1>2, <1>3, ParkKeeps

\* The oldest parked command is refused with a message: there are numbers for it.
LEMMA EvictKeeps ==
  ASSUME CommandTypes, CommandInv, Live # <<>>, Live' = Tail(Live), ~active', parked # <<>>,
         parked' = Append(Tail(parked), Head(Live)), Head(Live) # Registered,
         enqueued' = enqueued + 1, UNCHANGED <<executed, inbound, sentCmds>>
  PROVE  CommandInv'
<1> DEFINE f == Head(Live)
           u == <<f>>
           q == Tail(parked)
           v == <<Head(parked)>>
<1>1. q \in Seq(Nat) /\ v \in Seq(Nat) /\ parked = v \o q
  BY FirstAndRest DEF CommandTypes
<1>2. /\ Rising(parked) /\ Below(executed, parked) /\ Below(parked, inbound)
      /\ UpTo(parked, sentCmds) /\ Below(parked, Tail(Live)) /\ Below(parked, u)
  BY NextFrame DEF CommandInv, CommandOrder, CommandBounds
<1> HIDE DEF q, v, u
<1>3. /\ Rising(q) /\ Below(executed, q) /\ Below(q, inbound)
      /\ UpTo(q, sentCmds) /\ Below(q, Tail(Live)) /\ Below(q, u)
  BY <1>1, <1>2, RisingJoin, BelowJoin, BoundsJoin
<1>4. /\ Below(u, Tail(Live)) /\ Below(u, inbound) /\ UpTo(u, sentCmds) /\ Room(u, enqueued)
      /\ f \in Nat /\ Tail(Live) \in Seq(Nat) /\ inbound \in Seq(Nat)
      /\ sentCmds \in Nat /\ enqueued \in Nat
  BY NextFrame DEF u, CommandTypes
<1>5. enqueued < MaxMessages + f /\ f <= sentCmds
  BY <1>4 DEF u, Room, UpTo
<1>6. ASSUME NEW r \in Seq(Nat), Below(u, r)
      PROVE  Room(r, enqueued + 1)
  <2> SUFFICES ASSUME NEW i \in DOMAIN r, r[i] # Registered
               PROVE  enqueued + 1 < MaxMessages + r[i]
    BY DEF Room
  <2>1. f < r[i] /\ r[i] \in Nat
    BY <1>6 DEF Below, u
  <2>2. f + 1 <= r[i]
    BY <1>4, <2>1
  <2>3. MaxMessages \in Nat
    BY Bounds
  <2>4. \A a, b, c, d \in Nat : a < b + c /\ c + 1 <= d => a + 1 < b + d
    OBVIOUS
  <2> HIDE DEF f
  <2> QED  BY <1>4, <1>5, <2>1, <2>2, <2>3, <2>4
<1>7. Room(Tail(Live), enqueued') /\ Room(inbound, enqueued')
  BY <1>4, <1>6
<1>8. enqueued' <= MaxMessages + sentCmds
  BY <1>4, <1>5, Bounds
<1> QED  BY <1>1, <1>3, <1>7, <1>8, ParkKeeps DEF q, u

-----------------------------------------------------------------------------
(* Types *)

PageTypes ==
  /\ outbound \in Seq(Messages) /\ Len(outbound) <= QUEUE_CAP
  /\ enqueued \in Nat
  /\ dropped \subseteq Messages /\ loop \in {"idle", "exchange", "deliver"}
  /\ batch \in Seq(Messages)
  /\ active \in BOOLEAN
  /\ parked \in Seq(Commands) /\ Len(parked) <= MESSAGE_QUEUE_CAP
  /\ executed \in Seq(Commands) /\ evicted \subseteq Commands
Replies == [error : BOOLEAN, connected : BOOLEAN, frames : Seq(Frames)]
ReplyTypes ==
  /\ reply \in Replies
  /\ inbound \in Seq(Frames)
ActorTypes ==
  /\ socket \in 0 .. MaxFailures + 1 /\ exSocket \in 0 .. MaxFailures + 1
  /\ step \in {"none", "connect", "register", "send", "wait", "replied"}
  /\ toSend \in Seq(Messages) /\ handed \in Seq(Messages)
  /\ holder \in 0 .. MaxFailures + 1
  /\ sentCmds \in 0 .. MaxCommands /\ failures \in 0 .. MaxFailures

LEMMA Types == TypeOK <=> PageTypes /\ ReplyTypes /\ ActorTypes
BY DEF TypeOK, PageTypes, ReplyTypes, Replies, ActorTypes

LEMMA TypesNext == PageTypes' /\ ReplyTypes' /\ ActorTypes' => TypeOK'
BY DEF TypeOK, PageTypes, ReplyTypes, Replies, ActorTypes

LEMMA ReplyParts ==
  /\ \A r \in Replies :
       /\ r.frames \in Seq(Frames)
       /\ [r EXCEPT !.frames = Tail(@)] = [r EXCEPT !.frames = Tail(r.frames)]
  /\ \A r \in Replies, q \in Seq(Frames) :
       [r EXCEPT !.frames = q] \in Replies /\ [r EXCEPT !.frames = q].frames = q
BY DEF Replies

LEMMA NoReplyParts ==
  /\ NoReply \in Replies /\ <<>> \in Seq(Frames)
  /\ NoReply.frames = <<>> /\ NoReply.error = FALSE
  /\ LET r == [NoReply EXCEPT !.error = TRUE]
     IN  r \in Replies /\ r.error = TRUE /\ r.frames = <<>>
<1>1. <<>> \in Seq(Frames)
  OBVIOUS
<1>2. NoReply \in Replies
  BY <1>1 DEF NoReply, Replies
<1>3. NoReply.frames = <<>> /\ NoReply.error = FALSE
  BY DEF NoReply
<1>4. \A r \in Replies : [r EXCEPT !.error = TRUE] \in Replies
  BY DEF Replies
<1>5. [NoReply EXCEPT !.error = TRUE].error = TRUE /\ [NoReply EXCEPT !.error = TRUE].frames = <<>>
  BY DEF NoReply
<1> QED  BY <1>1, <1>2, <1>3, <1>4, <1>5

\* A message gets a number there is.
LEMMA PutTypes ==
  ASSUME PageTypes, Put(outbound), enqueued < MaxMessages + MaxCommands
  PROVE  /\ outbound' \in Seq(Messages) /\ Len(outbound') <= QUEUE_CAP
         /\ enqueued' = enqueued + 1 /\ enqueued' \in Nat /\ dropped' \subseteq Messages
<1>1. enqueued + 1 \in Messages /\ enqueued \in Nat
  BY Bounds DEF Messages, PageTypes
<1>2. QUEUE_CAP \in Nat /\ QUEUE_CAP > 0
  BY Bounds
<1>3. outbound \in Seq(Messages) /\ Len(outbound) <= QUEUE_CAP /\ dropped \subseteq Messages
  BY DEF PageTypes
<1>4. CASE Len(outbound) >= QUEUE_CAP
  <2>1. outbound # <<>>
    BY <1>2, <1>3, <1>4
  <2>2. Head(outbound) \in Messages /\ Tail(outbound) \in Seq(Messages)
        /\ Len(Tail(outbound)) = Len(outbound) - 1
    BY <1>3, <2>1
  <2>3. outbound' = Append(Tail(outbound), enqueued + 1) /\ dropped' = dropped \cup {Head(outbound)}
        /\ enqueued' = enqueued + 1
    BY <1>4 DEF Put
  <2> QED  BY <1>1, <1>2, <1>3, <2>2, <2>3
<1>5. CASE ~(Len(outbound) >= QUEUE_CAP)
  BY <1>1, <1>2, <1>3, <1>5 DEF Put
<1> QED  BY <1>4, <1>5

-----------------------------------------------------------------------------
(* The steps of the page *)

\* What the invariant gives every step.
LEMMA Given ==
  ASSUME RelayInv
  PROVE  /\ TypeOK /\ PageTypes /\ ReplyTypes /\ ActorTypes /\ MessageTypes /\ CommandTypes
         /\ Phases /\ MessageInv /\ CommandInv
         /\ Registered = 0 /\ Registered \in Nat
BY Types, MessagesTyped, CommandsTyped DEF RelayInv

LEMMA EnqueueStep ==
  ASSUME RelayInv, Enqueue
  PROVE  RelayInv'
<1>1. /\ enqueued < MaxMessages /\ Put(outbound)
      /\ UNCHANGED <<loop, batch, reply, active, parked, executed, evicted, actor, daemon, failures>>
  BY DEF Enqueue
<1>2. enqueued < MaxMessages + MaxCommands
  BY <1>1, Given, Bounds DEF PageTypes
<1>3. TypeOK'
  BY <1>1, <1>2, Given, PutTypes, TypesNext DEF PageTypes, ReplyTypes, ActorTypes, actor, daemon
<1>4. Phases'
  BY <1>1, Given DEF Phases, actor
<1>5. MessageInv'
  BY <1>1, Given, PutKeeps DEF actor
<1>6. Live' = Live /\ enqueued' = enqueued + 1
  BY <1>1 DEF Live, actor, Put
<1>7. CommandInv'
  BY <1>1, <1>6, Given, EnqueuedKeeps DEF actor, daemon
<1> QED  BY <1>3, <1>4, <1>5, <1>7 DEF RelayInv

LEMMA StartExchangeStep ==
  ASSUME RelayInv, StartExchange
  PROVE  RelayInv'
<1>1. /\ loop = "idle" /\ step = "none" /\ loop' = "exchange" /\ batch' = outbound
      /\ toSend' = outbound /\ step' = "connect"
      /\ UNCHANGED <<outbound, enqueued, dropped, reply, active, parked, executed, evicted,
                     socket, exSocket, inbound, handed, daemon, failures>>
  BY DEF StartExchange
<1>2. TypeOK'
  BY <1>1, Given, TypesNext DEF PageTypes, ReplyTypes, ActorTypes, daemon
<1>3. Phases'
  BY <1>1 DEF Phases
<1>4. MessageInv'
  BY Given, StartKeeps
<1>5. Live' = Live
  BY <1>1 DEF Live
<1>6. CommandInv'
  BY <1>1, <1>5, Given, FramesKeep DEF daemon
<1> QED  BY <1>2, <1>3, <1>4, <1>6 DEF RelayInv

LEMMA CallFailsStep ==
  ASSUME RelayInv, CallFails
  PROVE  RelayInv'
<1>1. /\ loop = "idle" /\ failures < MaxFailures /\ failures' = failures + 1 /\ loop' = "idle"
      /\ active' = FALSE
      /\ UNCHANGED <<outbound, enqueued, dropped, batch, reply, parked, executed, evicted, actor, daemon>>
  BY DEF CallFails, ExchangeFailed
<1>2. failures \in Nat /\ failures' \in Nat /\ failures' >= failures /\ failures' \in 0 .. MaxFailures
  BY <1>1, Given, Bounds DEF ActorTypes
<1>3. TypeOK'
  BY <1>1, <1>2, Given, TypesNext DEF PageTypes, ReplyTypes, ActorTypes, actor, daemon
<1>4. Phases'
  BY <1>1, <1>2, Given DEF Phases, actor
<1>5. MessageInv'
  BY <1>1, <1>2, Given, MessagesSame DEF actor
<1>6. Live' = Live
  BY <1>1 DEF Live, actor
<1>7. CommandInv'
  BY <1>1, <1>6, Given, FramesKeep DEF actor, daemon
<1> QED  BY <1>3, <1>4, <1>5, <1>7 DEF RelayInv

LEMMA TakeReplyStep ==
  ASSUME RelayInv, TakeReply
  PROVE  RelayInv'
<1>1. /\ loop = "exchange" /\ step = "replied" /\ step' = "none"
      /\ UNCHANGED <<socket, exSocket, toSend, inbound, handed, daemon, failures,
                     enqueued, dropped, batch, reply, parked, executed, evicted>>
  BY DEF TakeReply, ExchangeFailed
<1>2. CASE reply.error
  <2>1. loop' = "idle" /\ active' = FALSE /\ outbound' = outbound
    BY <1>2 DEF TakeReply, ExchangeFailed
  <2>2. failures # 0 /\ failures \in Nat
    BY <1>1, <1>2, Given, Bounds DEF Phases, MessageTypes
  <2>3. TypeOK'
    BY <1>1, <2>1, Given, TypesNext DEF PageTypes, ReplyTypes, ActorTypes, daemon
  <2>4. Phases'
    BY <1>1, <2>1 DEF Phases
  <2>5. MessageInv'
    BY <1>1, <2>1, <2>2, Given, FailKeeps
  <2>6. Live' = <<>>
    BY <1>1, <2>1 DEF Live
  <2>7. CommandInv'
    BY <1>1, <2>1, <2>6, Given, FramesKeep DEF daemon
  <2> QED  BY <2>3, <2>4, <2>5, <2>7 DEF RelayInv
<1>3. CASE ~reply.error
  <2>1. loop' = "deliver" /\ active' = active /\ outbound' = Spliced(outbound)
    BY <1>3 DEF TakeReply
  <2>2. toSend = <<>>
    BY <1>1, <1>3, Given DEF Phases
  <2>3. outbound' \in Seq(Messages) /\ Len(outbound') <= QUEUE_CAP
    <3>1. Len(batch) <= Len(outbound) /\ Len(batch) \in Nat /\ outbound \in Seq(Messages)
          /\ Len(outbound) <= QUEUE_CAP /\ QUEUE_CAP \in Nat
      BY <1>1, Given, Numbers, Bounds DEF MessageInv, BatchShape, PageTypes
    <3>2. Spliced(outbound) \in Seq(Messages) /\ Len(Spliced(outbound)) = Len(outbound) - Len(batch)
      BY <3>1 DEF Spliced
    <3>3. Len(outbound) \in Nat
      BY <3>1
    <3> HIDE DEF Spliced
    <3> QED  BY <2>1, <3>1, <3>2, <3>3
  <2>4. TypeOK'
    BY <1>1, <2>1, <2>3, Given, TypesNext DEF PageTypes, ReplyTypes, ActorTypes, daemon
  <2>5. Phases'
    BY <1>1, <2>1 DEF Phases
  <2>6. MessageInv'
    BY <1>1, <2>1, <2>2, Given, SpliceKeeps
  <2>7. Live' = Live
    BY <1>1, <2>1 DEF Live
  <2>8. CommandInv'
    BY <1>1, <2>1, <2>7, Given, FramesKeep DEF daemon
  <2> QED  BY <2>4, <2>5, <2>6, <2>8 DEF RelayInv
<1> QED  BY <1>2, <1>3

LEMMA DeliveryDoneStep ==
  ASSUME RelayInv, DeliveryDone
  PROVE  RelayInv'
<1>1. /\ loop = "deliver" /\ reply.frames = <<>> /\ loop' = "idle"
      /\ active' = (active /\ reply.connected)
      /\ UNCHANGED <<outbound, enqueued, dropped, batch, reply, parked, executed, evicted,
                     actor, daemon, failures>>
  BY DEF DeliveryDone
<1>2. TypeOK'
  BY <1>1, Given, TypesNext DEF PageTypes, ReplyTypes, ActorTypes, actor, daemon
<1>3. Phases'
  BY <1>1, Given DEF Phases, actor
<1>4. failures \in Nat
  BY Given DEF MessageTypes
<1>5. MessageInv'
  BY <1>1, <1>4, Given, MessagesSame DEF actor
<1>6. Live' = Live /\ (active' => active)
  BY <1>1, Given DEF Live, actor, Phases, ReplyTypes
<1>7. CommandInv'
  BY <1>1, <1>6, Given, FramesKeep DEF actor, daemon
<1> QED  BY <1>2, <1>3, <1>5, <1>7 DEF RelayInv

\* What the four ways to handle a frame have in common.
LEMMA FrameTaken ==
  ASSUME RelayInv, DeliverFrame
  PROVE  /\ loop = "deliver" /\ UNCHANGED <<loop, batch, actor, daemon, failures>>
         /\ Live # <<>> /\ Head(Live) = Head(reply.frames) /\ Live' = Tail(Live)
         /\ Head(Live) \in Frames /\ ReplyTypes' /\ ActorTypes' /\ Phases'
<1>1. /\ loop = "deliver" /\ reply.frames # <<>> /\ reply' = [reply EXCEPT !.frames = Tail(@)]
      /\ UNCHANGED <<loop, batch, actor, daemon, failures>>
  BY DEF DeliverFrame
<1>2. reply \in Replies /\ reply.frames \in Seq(Frames)
  BY Given, ReplyParts DEF ReplyTypes
<1>3. /\ Head(reply.frames) \in Frames /\ Tail(reply.frames) \in Seq(Frames)
      /\ reply'.frames = Tail(reply.frames) /\ reply' \in Replies
  <2>1. Head(reply.frames) \in Frames /\ Tail(reply.frames) \in Seq(Frames)
    BY <1>1, <1>2
  <2>2. reply' = [reply EXCEPT !.frames = Tail(reply.frames)]
    BY <1>1, <1>2, ReplyParts
  <2> QED  BY <1>2, <2>1, <2>2, ReplyParts
<1>4. Live = reply.frames /\ Live' = Tail(reply.frames)
  BY <1>1, <1>3 DEF Live
<1>5. ReplyTypes'
  BY <1>1, <1>3, Given DEF ReplyTypes, actor
<1>6. ActorTypes'
  BY <1>1, Given DEF ActorTypes, actor, daemon
<1>7. step # "replied"
  BY <1>1, Given DEF Phases
<1>8. Phases'
  BY <1>1, <1>7, Given DEF Phases, actor
<1> QED  BY <1>1, <1>3, <1>4, <1>5, <1>6, <1>8

\* A frame that leaves the outbound queue alone.
LEMMA QuietFrame ==
  ASSUME RelayInv, DeliverFrame, UNCHANGED <<outbound, enqueued, dropped>>
  PROVE  MessageInv'
<1>1. UNCHANGED <<loop, batch, toSend, handed, failures>>
  BY FrameTaken DEF actor
<1>2. failures \in Nat
  BY Given DEF MessageTypes
<1> QED  BY <1>1, <1>2, Given, MessagesSame

LEMMA DeliverFrameStep ==
  ASSUME RelayInv, DeliverFrame
  PROVE  RelayInv'
<1> DEFINE f == Head(reply.frames)
<1>1. /\ UNCHANGED <<loop, batch, inbound, sentCmds, toSend, handed, failures>>
      /\ Live # <<>> /\ Head(Live) = f /\ Live' = Tail(Live) /\ f \in Frames
  BY FrameTaken DEF actor, daemon
<1>2. ReplyTypes' /\ ActorTypes' /\ Phases'
  BY FrameTaken
<1>3. f # Registered => f \in Commands
  BY <1>1 DEF Frames
<1>4. \/ /\ f = Registered
         /\ active' = TRUE /\ executed' = executed \o parked /\ parked' = <<>>
         /\ UNCHANGED <<evicted, outbound, enqueued, dropped>>
      \/ /\ f # Registered /\ active
         /\ executed' = Append(executed, f)
         /\ UNCHANGED <<active, parked, evicted, outbound, enqueued, dropped>>
      \/ /\ f # Registered /\ ~active /\ Len(parked) < MESSAGE_QUEUE_CAP
         /\ parked' = Append(parked, f)
         /\ UNCHANGED <<active, executed, evicted, outbound, enqueued, dropped>>
      \/ /\ f # Registered /\ ~active /\ Len(parked) >= MESSAGE_QUEUE_CAP
         /\ parked' = Append(Tail(parked), f)
         /\ evicted' = evicted \cup {Head(parked)}
         /\ Put(outbound)
         /\ UNCHANGED <<active, executed>>
  BY DEF DeliverFrame
<1>5. PageTypes /\ CommandTypes /\ CommandInv /\ MessageTypes /\ MessageInv
  BY Given
<1>6. /\ parked \in Seq(Commands) /\ executed \in Seq(Commands) /\ Len(parked) <= MESSAGE_QUEUE_CAP
      /\ MESSAGE_QUEUE_CAP \in Nat /\ MESSAGE_QUEUE_CAP > 0
  BY <1>5, Bounds DEF PageTypes
<1> HIDE DEF f
<1>7. CASE /\ f = Registered
           /\ active' = TRUE /\ executed' = executed \o parked /\ parked' = <<>>
           /\ UNCHANGED <<evicted, outbound, enqueued, dropped>>
  <2>1. executed' \in Seq(Commands) /\ parked' \in Seq(Commands) /\ Len(parked') = 0
    BY <1>6, <1>7
  <2>2. PageTypes'
    BY <1>1, <1>5, <1>6, <1>7, <2>1 DEF PageTypes
  <2>3. MessageInv'
    BY <1>7, QuietFrame
  <2>4. CommandInv'
    BY <1>1, <1>5, <1>7, DrainKeeps
  <2> QED  BY <1>2, <2>2, <2>3, <2>4, TypesNext DEF RelayInv
<1>8. CASE /\ f # Registered /\ active
           /\ executed' = Append(executed, f)
           /\ UNCHANGED <<active, parked, evicted, outbound, enqueued, dropped>>
  <2>1. executed' \in Seq(Commands)
    BY <1>3, <1>6, <1>8
  <2>2. PageTypes'
    BY <1>1, <1>5, <1>8, <2>1 DEF PageTypes
  <2>3. MessageInv'
    BY <1>8, QuietFrame
  <2>4. CommandInv'
    BY <1>1, <1>5, <1>8, ExecuteKeeps
  <2> QED  BY <1>2, <2>2, <2>3, <2>4, TypesNext DEF RelayInv
<1>9. CASE /\ f # Registered /\ ~active /\ Len(parked) < MESSAGE_QUEUE_CAP
           /\ parked' = Append(parked, f)
           /\ UNCHANGED <<active, executed, evicted, outbound, enqueued, dropped>>
  <2>1. parked' \in Seq(Commands) /\ Len(parked') <= MESSAGE_QUEUE_CAP
    BY <1>3, <1>6, <1>9
  <2>2. PageTypes'
    BY <1>1, <1>5, <1>9, <2>1 DEF PageTypes
  <2>3. MessageInv'
    BY <1>9, QuietFrame
  <2>4. CommandInv'
    BY <1>1, <1>5, <1>9, ParkedKeeps
  <2> QED  BY <1>2, <2>2, <2>3, <2>4, TypesNext DEF RelayInv
<1>10. CASE /\ f # Registered /\ ~active /\ Len(parked) >= MESSAGE_QUEUE_CAP
            /\ parked' = Append(Tail(parked), f)
            /\ evicted' = evicted \cup {Head(parked)}
            /\ Put(outbound)
            /\ UNCHANGED <<active, executed>>
  <2>1. parked # <<>>
    BY <1>6, <1>10
  <2>2. Head(parked) \in Commands /\ Tail(parked) \in Seq(Commands) /\ Len(Tail(parked)) = Len(parked) - 1
    BY <1>6, <2>1
  <2>3. parked' \in Seq(Commands) /\ Len(parked') <= MESSAGE_QUEUE_CAP
    BY <1>3, <1>6, <1>10, <2>2
  <2>4. enqueued < MaxMessages + MaxCommands
    <3>1. Room(<<f>>, enqueued) /\ f \in Nat
      BY <1>1, <1>5, NextFrame
    <3>2. enqueued < MaxMessages + f
      BY <1>10, <3>1 DEF Room
    <3>3. f <= MaxCommands
      BY <1>3, <1>10, Bounds DEF Commands
    <3> QED  BY <1>5, <3>1, <3>2, <3>3, Bounds DEF PageTypes
  <2>5. /\ outbound' \in Seq(Messages) /\ Len(outbound') <= QUEUE_CAP
        /\ enqueued' = enqueued + 1 /\ enqueued' \in Nat /\ dropped' \subseteq Messages
    BY <1>5, <1>10, <2>4, PutTypes
  <2>6. PageTypes'
    BY <1>1, <1>5, <1>10, <2>2, <2>3, <2>5 DEF PageTypes
  <2>7. MessageInv'
    BY <1>1, <1>5, <1>10, PutKeeps
  <2>8. CommandInv'
    BY <1>1, <1>5, <1>10, <2>1, <2>5, EvictKeeps
  <2> QED  BY <1>2, <2>6, <2>7, <2>8, TypesNext DEF RelayInv
<1> HIDE DEF f
<1> QED  BY <1>4, <1>7, <1>8, <1>9, <1>10

-----------------------------------------------------------------------------
(* The steps of the actor *)

LEMMA EnsureConnectedStep ==
  ASSUME RelayInv, EnsureConnected
  PROVE  RelayInv'
<1>1. /\ step = "connect" /\ step' \in {"send", "register"} /\ UNCHANGED holder
      /\ exSocket' = socket' /\ socket' \in {socket, failures + 1} /\ inbound' \in {inbound, <<>>}
      /\ UNCHANGED <<page, toSend, handed, sentCmds, failures>>
  BY DEF EnsureConnected
<1>2. failures \in Nat /\ failures + 1 \in 0 .. MaxFailures + 1 /\ <<>> \in Seq(Frames)
  BY Given, Bounds DEF ActorTypes
<1>3. PageTypes'
  BY <1>1, Given DEF PageTypes, page
<1>4. ReplyTypes'
  BY <1>1, <1>2, Given DEF ReplyTypes, page
<1>5. ActorTypes'
  BY <1>1, <1>2, Given DEF ActorTypes
<1>6. Phases'
  BY <1>1, Given DEF Phases, page
<1>7. MessageInv'
  BY <1>1, <1>2, Given, MessagesSame DEF page
<1>8. Live' = Live
  BY <1>1 DEF Live, page
<1>9. CommandInv'
  BY <1>1, <1>8, Given, FramesKeep DEF page
<1> QED  BY <1>3, <1>4, <1>5, <1>6, <1>7, <1>9, TypesNext DEF RelayInv

LEMMA RegisterStep ==
  ASSUME RelayInv, Register
  PROVE  RelayInv'
<1>1. /\ step = "register" /\ socket = exSocket /\ step' = "send" /\ holder' = socket
      /\ inbound' = Append(inbound, Registered)
      /\ UNCHANGED <<page, socket, exSocket, toSend, handed, sentCmds, failures>>
  BY DEF Register
<1>2. failures \in Nat /\ Registered \in Frames
  BY Given DEF MessageTypes, Frames
<1>3. PageTypes'
  BY <1>1, Given DEF PageTypes, page
<1>4. ReplyTypes'
  BY <1>1, <1>2, Given DEF ReplyTypes, page
<1>5. ActorTypes'
  BY <1>1, Given DEF ActorTypes
<1>6. Phases'
  BY <1>1, Given DEF Phases, page
<1>7. MessageInv'
  BY <1>1, <1>2, Given, MessagesSame DEF page
<1>8. Live' = Live
  BY <1>1 DEF Live, page
<1>9. CommandInv'
  BY <1>1, <1>8, Given, RegisterKeeps DEF page
<1> QED  BY <1>3, <1>4, <1>5, <1>6, <1>7, <1>9, TypesNext DEF RelayInv

LEMMA SendOneStep ==
  ASSUME RelayInv, SendOne
  PROVE  RelayInv'
<1>1. /\ step = "send" /\ socket = exSocket /\ toSend # <<>>
      /\ handed' = Append(handed, Head(toSend)) /\ toSend' = Tail(toSend)
      /\ UNCHANGED <<page, socket, step, exSocket, inbound, daemon, failures>>
  BY DEF SendOne
<1>2. handed' \in Seq(Messages) /\ toSend' \in Seq(Messages)
  BY <1>1, Given DEF ActorTypes
<1>3. PageTypes'
  BY <1>1, Given DEF PageTypes, page
<1>4. ReplyTypes'
  BY <1>1, Given DEF ReplyTypes, page
<1>5. ActorTypes'
  BY <1>1, <1>2, Given DEF ActorTypes, daemon
<1>6. Phases'
  BY <1>1, Given DEF Phases, page
<1>7. MessageInv'
  BY Given, SendKeeps
<1>8. Live' = Live
  BY <1>1 DEF Live, page
<1>9. CommandInv'
  BY <1>1, <1>8, Given, FramesKeep DEF page, daemon
<1> QED  BY <1>3, <1>4, <1>5, <1>6, <1>7, <1>9, TypesNext DEF RelayInv

LEMMA SentAllStep ==
  ASSUME RelayInv, SentAll
  PROVE  RelayInv'
<1>1. /\ step = "send" /\ toSend = <<>> /\ step' = "wait"
      /\ UNCHANGED <<page, socket, exSocket, toSend, inbound, handed, daemon, failures>>
  BY DEF SentAll
<1>2. failures \in Nat
  BY Given DEF MessageTypes
<1>3. PageTypes'
  BY <1>1, Given DEF PageTypes, page
<1>4. ReplyTypes'
  BY <1>1, Given DEF ReplyTypes, page
<1>5. ActorTypes'
  BY <1>1, Given DEF ActorTypes, daemon
<1>6. Phases'
  BY <1>1, Given DEF Phases, page
<1>7. MessageInv'
  BY <1>1, <1>2, Given, MessagesSame DEF page
<1>8. Live' = Live
  BY <1>1 DEF Live, page
<1>9. CommandInv'
  BY <1>1, <1>8, Given, FramesKeep DEF page, daemon
<1> QED  BY <1>3, <1>4, <1>5, <1>6, <1>7, <1>9, TypesNext DEF RelayInv

\* The frames of the actor become those of the reply.
LEMMA AnswerExchangeStep ==
  ASSUME RelayInv, AnswerExchange
  PROVE  RelayInv'
<1>1. /\ step = "wait" /\ step' = "replied" /\ inbound' = <<>>
      /\ reply' = [error |-> FALSE, connected |-> socket = exSocket, frames |-> inbound]
      /\ UNCHANGED <<outbound, enqueued, dropped, loop, batch, active, parked, executed, evicted,
                     socket, exSocket, toSend, handed, daemon, failures>>
  BY DEF AnswerExchange
<1>2. failures \in Nat /\ inbound \in Seq(Frames) /\ <<>> \in Seq(Frames)
  BY Given DEF MessageTypes, ReplyTypes
<1>3. PageTypes'
  BY <1>1, Given DEF PageTypes
<1>4. ReplyTypes'
  BY <1>1, <1>2 DEF ReplyTypes, Replies
<1>5. ActorTypes'
  BY <1>1, Given DEF ActorTypes, daemon
<1>6. Phases'
  BY <1>1, Given DEF Phases
<1>7. MessageInv'
  BY <1>1, <1>2, Given, MessagesSame
<1>8. Live' = inbound
  BY <1>1 DEF Live
<1>9. CommandInv'
  BY <1>1, <1>8, Given, FramesKeep DEF daemon
<1> QED  BY <1>3, <1>4, <1>5, <1>6, <1>7, <1>9, TypesNext DEF RelayInv

-----------------------------------------------------------------------------
(* The failures, and the daemon *)

LEMMA SendThrowsStep ==
  ASSUME RelayInv, SendThrows
  PROVE  RelayInv'
<1>1. /\ step \in {"register", "send"} /\ step' = "replied" /\ inbound' = <<>>
      /\ socket' = 0 /\ holder' = 0 /\ reply' = [NoReply EXCEPT !.error = TRUE]
      /\ UNCHANGED <<outbound, enqueued, dropped, loop, batch, active, parked, executed, evicted,
                     exSocket, toSend, handed, sentCmds>>
  BY DEF SendThrows, Reset
<1>2. reply' \in Replies /\ reply'.error /\ reply'.frames = <<>> /\ <<>> \in Seq(Frames)
  BY <1>1, NoReplyParts
<1>3. failures \in Nat /\ failures' \in 0 .. MaxFailures /\ failures' >= failures /\ failures' > 0
  <2>1. failures \in Nat /\ failures \in 0 .. MaxFailures /\ MaxFailures \in Nat
    BY Given, Bounds DEF ActorTypes
  <2>2. CASE socket = exSocket
    BY <2>1, <2>2 DEF SendThrows
  <2>3. CASE socket # exSocket
    BY <1>1, <2>1, <2>3, Given DEF SendThrows, Phases
  <2> QED  BY <2>2, <2>3
<1>4. failures' \in Nat
  BY <1>3, Bounds
<1>5. PageTypes'
  BY <1>1, Given DEF PageTypes
<1>6. ReplyTypes'
  BY <1>1, <1>2 DEF ReplyTypes
<1>7. ActorTypes'
  BY <1>1, <1>3, Given, Bounds DEF ActorTypes
<1>8. Phases'
  BY <1>1, <1>2, <1>3, Given DEF Phases
<1>9. MessageInv'
  BY <1>1, <1>3, <1>4, Given, MessagesSame
<1>10. Live' = <<>>
  BY <1>1, <1>2 DEF Live
<1>11. CommandInv'
  BY <1>1, <1>10, Given, FramesKeep
<1> QED  BY <1>5, <1>6, <1>7, <1>8, <1>9, <1>11, TypesNext DEF RelayInv

LEMMA ReceiveFailsStep ==
  ASSUME RelayInv, ReceiveFails
  PROVE  RelayInv'
<1>1. /\ failures < MaxFailures /\ failures' = failures + 1 /\ socket' = 0 /\ holder' = 0
      /\ UNCHANGED <<page, step, exSocket, toSend, inbound, handed, sentCmds>>
  BY DEF ReceiveFails
<1>2. /\ failures \in Nat /\ failures' \in Nat /\ failures' >= failures /\ failures' > 0
      /\ failures' \in 0 .. MaxFailures
  BY <1>1, Given, Bounds DEF ActorTypes
<1>3. PageTypes'
  BY <1>1, Given DEF PageTypes, page
<1>4. ReplyTypes'
  BY <1>1, Given DEF ReplyTypes, page
<1>5. ActorTypes'
  BY <1>1, <1>2, Given, Bounds DEF ActorTypes
<1>6. Phases'
  BY <1>1, <1>2, Given DEF Phases, page
<1>7. MessageInv'
  BY <1>1, <1>2, Given, MessagesSame DEF page
<1>8. Live' = Live
  BY <1>1 DEF Live, page
<1>9. CommandInv'
  BY <1>1, <1>8, Given, FramesKeep DEF page
<1> QED  BY <1>3, <1>4, <1>5, <1>6, <1>7, <1>9, TypesNext DEF RelayInv

LEMMA ActorKilledStep ==
  ASSUME RelayInv, ActorKilled
  PROVE  RelayInv'
<1>1. /\ failures < MaxFailures /\ failures' = failures + 1 /\ socket' = 0 /\ holder' = 0
      /\ inbound' = <<>> /\ step' = "none" /\ UNCHANGED <<exSocket, toSend, handed, sentCmds>>
      /\ UNCHANGED <<outbound, enqueued, dropped, batch, reply, parked, executed, evicted>>
  BY DEF ActorKilled, Reset, ExchangeFailed, page
<1>2. /\ loop = "exchange" => loop' = "idle" /\ active' = FALSE
      /\ loop # "exchange" => loop' = loop /\ active' = active
  BY DEF ActorKilled, ExchangeFailed, page
<1>3. /\ failures \in Nat /\ failures' \in Nat /\ failures' >= failures /\ failures' # 0
      /\ failures' \in 0 .. MaxFailures
  BY <1>1, Given, Bounds DEF ActorTypes
<1>4. PageTypes'
  BY <1>1, <1>2, Given DEF PageTypes
<1>5. ReplyTypes'
  BY <1>1, Given DEF ReplyTypes
<1>6. ActorTypes'
  BY <1>1, <1>3, Given, Bounds DEF ActorTypes
<1>7. Phases'
  BY <1>1, <1>2, Given DEF Phases
<1>8. MessageInv'
  <2>1. CASE loop = "exchange"
    BY <1>1, <1>2, <1>3, <2>1, Given, FailKeeps
  <2>2. CASE loop # "exchange"
    BY <1>1, <1>2, <1>3, <2>2, Given, MessagesSame
  <2> QED  BY <2>1, <2>2
<1>9. Live' \in {Live, <<>>} /\ (active' => active)
  BY <1>1, <1>2, Given DEF Live, Phases
<1>10. CommandInv'
  BY <1>1, <1>9, Given, FramesKeep
<1> QED  BY <1>4, <1>5, <1>6, <1>7, <1>8, <1>10, TypesNext DEF RelayInv

LEMMA CommandArrivesStep ==
  ASSUME RelayInv, CommandArrives
  PROVE  RelayInv'
<1>1. /\ sentCmds < MaxCommands /\ sentCmds' = sentCmds + 1
      /\ inbound' = Append(inbound, sentCmds + 1)
      /\ UNCHANGED <<page, socket, step, exSocket, toSend, handed, holder, failures>>
  BY DEF CommandArrives
<1>2. /\ failures \in Nat /\ sentCmds + 1 \in Frames /\ sentCmds + 1 \in 0 .. MaxCommands
  BY <1>1, Given, Bounds DEF ActorTypes, MessageTypes, Frames, Commands
<1>3. PageTypes'
  BY <1>1, Given DEF PageTypes, page
<1>4. ReplyTypes'
  BY <1>1, <1>2, Given DEF ReplyTypes, page
<1>5. ActorTypes'
  BY <1>1, <1>2, Given DEF ActorTypes
<1>6. Phases'
  BY <1>1, Given DEF Phases, page
<1>7. MessageInv'
  BY <1>1, <1>2, Given, MessagesSame DEF page
<1>8. Live' = Live
  BY <1>1 DEF Live, page
<1>9. CommandInv'
  BY <1>1, <1>8, Given, ArrivesKeeps DEF page
<1> QED  BY <1>3, <1>4, <1>5, <1>6, <1>7, <1>9, TypesNext DEF RelayInv

-----------------------------------------------------------------------------
(* The theorems *)

LEMMA InitInv == Init => RelayInv
<1> SUFFICES ASSUME Init PROVE RelayInv
  OBVIOUS
<1>1. TypeOK
  <2>1. \A S : <<>> \in Seq(S) /\ Len(<<>>) = 0
    OBVIOUS
  <2>2. PageTypes
    <3>1. <<>> \in Seq(Messages) /\ <<>> \in Seq(Commands)
      BY <2>1
    <3>2. 0 <= QUEUE_CAP /\ 0 <= MESSAGE_QUEUE_CAP
      BY Bounds
    <3> QED  BY <2>1, <3>1, <3>2 DEF Init, PageTypes
  <2>3. ReplyTypes
    BY NoReplyParts DEF Init, ReplyTypes
  <2>4. ActorTypes
    BY <2>1, Bounds DEF Init, ActorTypes
  <2> QED  BY <2>2, <2>3, <2>4, Types
<1>2. Phases
  BY NoReplyParts DEF Init, Phases
<1>3. Gone = 0 /\ Oldest = 1
  <2>1. Len(outbound) = 0 /\ enqueued = 0 /\ loop = "idle"
    BY DEF Init
  <2> QED  BY <2>1 DEF Gone, Oldest
<1>4. MessageInv
  BY <1>3 DEF Init, MessageInv, QueueShape, BatchShape, SentShape, OlderFirst, NoneAgain,
              HandedInOrder
<1>5. Live = <<>> /\ inbound = <<>> /\ executed = <<>> /\ parked = <<>> /\ ~active
  BY DEF Init, Live
<1>6. CommandInv
  BY <1>5, Empty, Bounds DEF Init, CommandInv, CommandOrder, CommandBounds
<1> QED  BY <1>1, <1>2, <1>4, <1>6 DEF RelayInv

LEMMA NextInv == RelayInv /\ [Next]_vars => RelayInv'
<1> SUFFICES ASSUME RelayInv, [Next]_vars PROVE RelayInv'
  OBVIOUS
<1>1. CASE Exchange
  BY <1>1, StartExchangeStep, TakeReplyStep, DeliverFrameStep, DeliveryDoneStep,
     EnsureConnectedStep, RegisterStep, SendOneStep, SentAllStep, AnswerExchangeStep DEF Exchange
<1>2. CASE Failure
  BY <1>2, CallFailsStep, SendThrowsStep, ReceiveFailsStep, ActorKilledStep DEF Failure
<1>3. CASE Enqueue
  BY <1>3, EnqueueStep
<1>4. CASE CommandArrives
  BY <1>4, CommandArrivesStep
<1>5. CASE UNCHANGED vars
  <2>1. UNCHANGED <<page, actor, daemon, failures>>
    BY <1>5 DEF vars
  <2>2. PageTypes' /\ ReplyTypes' /\ ActorTypes'
    BY <2>1, Given DEF PageTypes, ReplyTypes, ActorTypes, page, actor, daemon
  <2>3. Phases'
    BY <2>1, Given DEF Phases, page, actor
  <2>4. failures \in Nat
    BY Given DEF MessageTypes
  <2>5. MessageInv'
    BY <2>1, <2>4, Given, MessagesSame DEF page, actor
  <2>6. Live' = Live
    BY <2>1 DEF Live, page, actor
  <2>7. CommandInv'
    BY <2>1, <2>6, Given, FramesKeep DEF page, actor, daemon
  <2> QED  BY <2>2, <2>3, <2>5, <2>7, TypesNext DEF RelayInv
<1> QED  BY <1>1, <1>2, <1>3, <1>4, <1>5 DEF Next

\* The inductive invariant of the lane: the queue, the batch of an exchange and what is
\* left to send are runs of consecutive messages that fit together, all older messages
\* were handed over, and the commands that were executed, parked, returned and received
\* follow each other in the order the daemon sent them.
THEOREM RelayInvariant == Spec => []RelayInv
BY InitInv, NextInv, PTL DEF Spec

\* Every variable keeps its type; the outbound queue and the parking queue of the page
\* never outgrow their caps.
THEOREM TypeCorrect == Spec => []TypeOK
<1>1. RelayInv => TypeOK
  BY DEF RelayInv
<1> QED  BY <1>1, RelayInvariant, PTL

\* The page's outbound lane (safari-native-relay.ts): a message is waiting or was handed
\* to a socket as long as the queue has not overflowed. With and without overflows,
\* messages are handed over in the order they were enqueued, and none twice unless
\* something failed.
THEOREM OutboundHolds == Spec => []OutboundSound
<1>1. RelayInv => OutboundSound
  <2> SUFFICES ASSUME RelayInv PROVE OutboundSound
    OBVIOUS
  <2>1. MessageTypes /\ QueueShape /\ SentShape /\ NoneAgain /\ HandedInOrder
    BY Given DEF MessageInv
  <2>2. NothingLostUnlessFull
    <3> SUFFICES ASSUME dropped = {}, NEW m \in 1 .. enqueued, m \notin ToSet(handed)
                 PROVE  m \in ToSet(outbound)
      BY DEF NothingLostUnlessFull
    <3>1. m \in Nat /\ 1 <= m /\ m <= enqueued /\ Gone \in Int /\ enqueued \in Nat
      BY <2>1, Numbers DEF MessageTypes
    <3>2. ~Handed(m)
      BY DEF Handed, ToSet
    <3>3. Gone < m
      BY <2>1, <3>1, <3>2 DEF SentShape
    <3>4. m - Gone \in DOMAIN outbound
      BY <2>1, <3>1, <3>3 DEF Gone, MessageTypes
    <3>5. outbound[m - Gone] = Gone + (m - Gone)
      BY <2>1, <3>4 DEF QueueShape
    <3>6. outbound[m - Gone] = m
      BY <3>1, <3>5
    <3> QED  BY <3>4, <3>6 DEF ToSet
  <2>3. NoDuplicateWithoutFailure
    <3> SUFFICES ASSUME failures = 0, NEW i \in DOMAIN handed, NEW j \in DOMAIN handed,
                        handed[i] = handed[j], i # j
                 PROVE  FALSE
      BY DEF NoDuplicateWithoutFailure, IsInjective
    <3>1. i \in Nat /\ j \in Nat /\ handed[i] \in Nat /\ handed[j] \in Nat
      BY <2>1, Numbers
    <3>2. \A a, b \in DOMAIN handed : a < b => handed[a] < handed[b]
      BY <2>1 DEF NoneAgain
    <3>3. i < j \/ j < i
      BY <3>1
    <3> QED  BY <3>1, <3>2, <3>3
  <2> QED  BY <2>1, <2>2, <2>3 DEF OutboundSound
<1> QED  BY <1>1, RelayInvariant, PTL

\* A daemon command is executed at most once and in the order the daemon sent it, however
\* it was parked, drained by a registration or received anew after a failure.
THEOREM CommandsInOrder == Spec => []CommandsOnceInOrder
<1>1. RelayInv => CommandsOnceInOrder
  <2> SUFFICES ASSUME RelayInv, NEW j \in DOMAIN executed, NEW i \in 1 .. j - 1
               PROVE  executed[i] < executed[j]
    BY DEF CommandsOnceInOrder
  <2>1. executed \in Seq(Commands) /\ Rising(executed) /\ Registered = 0
    BY Given DEF PageTypes, CommandInv, CommandOrder
  <2>2. i \in DOMAIN executed /\ i < j
    BY <2>1
  <2>3. executed[i] \in Commands /\ executed[j] \in Commands
    BY <2>1, <2>2
  <2>4. executed[i] # Registered /\ executed[j] # Registered
    BY <2>1, <2>3, Bounds DEF Commands
  <2> QED  BY <2>1, <2>2, <2>4 DEF Rising
<1> QED  BY <1>1, RelayInvariant, PTL
-----------------------------------------------------------------------------
\* As long as the queue has not overflowed, the splice at the end of an exchange takes
\* off the queue what the exchange sent, and leaves the rest as it is, whatever was
\* enqueued meanwhile (safari-native-relay.ts:97). OnlyExchangedRemoved claims as much
\* of every queue, and an overflow refutes it.
SpliceExact ==
  [][dropped = {} /\ loop = "exchange" /\ loop' = "deliver" => outbound = batch \o outbound']_vars

\* What SubSeq leaves after the first n elements, put behind them, is the sequence.
LEMMA CutAndJoin ==
  ASSUME NEW q \in Seq(Nat), NEW b \in Seq(Nat), Len(b) <= Len(q),
         \A i \in 1 .. Len(b) : b[i] = q[i]
  PROVE  q = b \o SubSeq(q, Len(b) + 1, Len(q))
<1> DEFINE r == SubSeq(q, Len(b) + 1, Len(q))
           t == b \o r
<1>1. /\ r \in Seq(Nat) /\ Len(r) = Len(q) - Len(b)
      /\ \A i \in 1 .. Len(r) : r[i] = q[Len(b) + i]
  OBVIOUS
<1> HIDE DEF r
<1>2. /\ t \in Seq(Nat) /\ Len(t) = Len(q)
      /\ \A i \in 1 .. Len(b) : t[i] = b[i]
      /\ \A i \in 1 .. Len(r) : t[Len(b) + i] = r[i]
  BY <1>1
<1> HIDE DEF t
<1>3. ASSUME NEW i \in 1 .. Len(q)  PROVE t[i] = q[i]
  <2>1. CASE i <= Len(b)
    BY <1>2, <2>1
  <2>2. CASE i > Len(b)
    <3>1. i - Len(b) \in 1 .. Len(r) /\ Len(b) + (i - Len(b)) = i
      BY <1>1, <2>2
    <3> QED  BY <1>1, <1>2, <3>1
  <2> QED  BY <2>1, <2>2
<1>4. t = q
  BY <1>2, <1>3, SeqEqual
<1> QED  BY <1>4 DEF t, r

\* Short of an overflow a successful exchange removes from the page's queue exactly the
\* messages it sent: no message is lost, and none stays to be sent again.
THEOREM SplicedExactly == Spec => SpliceExact
<1>1. ASSUME RelayInv, [Next]_vars, dropped = {}, loop = "exchange", loop' = "deliver"
      PROVE  outbound = batch \o outbound'
  <2>1. TakeReply /\ ~reply.error
    <3>1. loop' # loop
      BY <1>1
    <3> QED  BY <1>1, <3>1 DEF Next, Exchange, Failure, StartExchange, TakeReply, DeliverFrame,
                DeliveryDone, EnsureConnected, Register, SendOne, SentAll, AnswerExchange,
                CallFails, SendThrows, ReceiveFails, ActorKilled, ExchangeFailed, Enqueue,
                CommandArrives, page, vars
  <2>2. outbound' = SubSeq(outbound, Len(batch) + 1, Len(outbound))
    BY <2>1 DEF TakeReply, Spliced
  <2>3. /\ MessageTypes /\ QueueShape /\ BatchShape
    BY <1>1, Given DEF MessageInv
  <2>4. /\ Len(batch) <= Len(outbound) /\ Oldest = Gone + 1 /\ Gone \in Int
        /\ \A i \in DOMAIN batch : batch[i] = Oldest + i - 1
        /\ \A i \in DOMAIN outbound : outbound[i] = Gone + i
    BY <1>1, <2>3, Numbers DEF BatchShape, QueueShape
  <2>5. \A i \in 1 .. Len(batch) : batch[i] = outbound[i]
    BY <2>3, <2>4 DEF MessageTypes
  <2> QED  BY <2>2, <2>3, <2>4, <2>5, CutAndJoin DEF MessageTypes
<1>2. RelayInv /\ [Next]_vars =>
        [dropped = {} /\ loop = "exchange" /\ loop' = "deliver" => outbound = batch \o outbound']_vars
  BY <1>1
<1> QED  BY <1>2, RelayInvariant, PTL DEF Spec, SpliceExact
=============================================================================
