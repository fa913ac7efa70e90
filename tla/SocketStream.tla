----------------------------- MODULE SocketStream -----------------------------
(***************************************************************************)
(* One raw Bun socket as its writer and its reader use it: socketWriteAll, *)
(* drainSocketQueue and releaseSocketQueue (daemon/socket-write.ts), the   *)
(* framing of socketWriteFramed, and the loop that takes frames out of the *)
(* bytes that arrive (the data handlers and processStdinBuffer of          *)
(* daemon/index.ts).  socket.write() keeps nothing: it says how many bytes *)
(* the kernel took.                                                        *)
(*                                                                         *)
(* A byte is its position in what the writer offered, so a frame and a     *)
(* queued chunk are intervals of positions.  A frame of size n is a header *)
(* of HEADER bytes, which tells n, and its payload.  The kernel reports a  *)
(* drain only after a write it did not take whole.                         *)
(***************************************************************************)
EXTENDS Naturals, Sequences

CONSTANTS
  FrameSizes,   \* sizes, header included, of the frames that are written
  HEADER,       \* bytes of the length prefix
  FRAME_MAX,    \* the reader's limit on a frame (MAX_UPLOAD_FRAME_BYTES)
  SNDBUF,       \* bytes the kernel holds for the reader
  MaxFrames     \* bound on the frames written

ASSUME StreamAssumption ==
  /\ HEADER \in Nat \ {0} /\ SNDBUF \in Nat /\ FRAME_MAX \in Nat /\ MaxFrames \in Nat
  /\ FrameSizes \subseteq {n \in Nat : n > HEADER}

Chunk   == {c \in [lo : Nat \ {0}, hi : Nat] : c.lo <= c.hi}
Size(c) == c.hi + 1 - c.lo
Garbled == [lo |-> 1, hi |-> 0]       \* a frame put together from other bytes

VARIABLES
  frames,     \* frames socketWriteAll has taken, in order
  queue,      \* chunks the kernel has not taken yet
  blocked,    \* the last write was short: a drain event is due
  draining,   \* drainSocketQueue is running
  state,      \* "open", "dead" (write returns a negative number) or "closed"
  kernel,     \* bytes the kernel took and the reader has not seen
  buf,        \* bytes the reader has not put into frames
  read        \* frames the reader has taken out of buf

writer == <<frames, queue, blocked, draining, state>>
reader == <<buf, read>>
vars   == <<writer, kernel, reader>>

Written == IF frames = <<>> THEN 0 ELSE frames[Len(frames)].hi

Init ==
  /\ frames = <<>> /\ queue = <<>> /\ blocked = FALSE /\ draining = FALSE /\ state = "open"
  /\ kernel = <<>> /\ buf = <<>> /\ read = <<>>

-----------------------------------------------------------------------------
(* The writer. JavaScript runs one handler at a time, so nothing is written *)
(* and no event is handled while drainSocketQueue runs; the kernel and the  *)
(* reader go on.                                                            *)

Run(lo, n) == [i \in 1 .. n |-> lo + i - 1]

\* socket.write(c) on a live socket: the kernel takes n of its bytes, at least one
\* when it has room.
Accepts(c, n) ==
  /\ n \in 0 .. Size(c)
  /\ Len(kernel) < SNDBUF => n > 0
  /\ Len(kernel) + n <= SNDBUF
  /\ kernel' = kernel \o Run(c.lo, n)

Rest(c, n) == [c EXCEPT !.lo = @ + n]

\* socketWriteAll: behind queued bytes the frame waits; otherwise what the kernel
\* does not take becomes the queue. Writing to a dead socket throws.
EmptyTailFaulty(size) ==
  LET f == [lo |-> Written + 1, hi |-> Written + size] IN
  /\ Len(frames) < MaxFrames /\ ~draining
  /\ \/ /\ queue # <<>>
        /\ queue' = Append(queue, f)
        /\ UNCHANGED <<kernel, blocked>>
     \/ /\ queue = <<>> /\ state = "open"
        /\ \E n \in 0 .. size :
             /\ Accepts(f, n)
             /\ queue' = <<Rest(f, n)>>
             /\ blocked' = (n < size)
  /\ frames' = Append(frames, f)
  /\ UNCHANGED <<draining, state, reader>>
SocketWriteAll(size) ==
  LET f == [lo |-> Written + 1, hi |-> Written + size] IN
  /\ Len(frames) < MaxFrames /\ ~draining
  /\ \/ /\ queue # <<>>
        /\ queue' = Append(queue, f)
        /\ UNCHANGED <<kernel, blocked>>
     \/ /\ queue = <<>> /\ state = "open"
        /\ \E n \in 0 .. size :
             /\ Accepts(f, n)
             /\ queue' = IF n < size THEN <<Rest(f, n)>> ELSE <<>>
             /\ blocked' = (n < size)
  /\ frames' = Append(frames, f)
  /\ UNCHANGED <<draining, state, reader>>

DrainEvent ==
  /\ blocked /\ ~draining /\ state # "closed"
  /\ Len(kernel) < SNDBUF \/ state = "dead"
  /\ draining' = TRUE
  /\ blocked' = FALSE
  /\ UNCHANGED <<frames, queue, state, kernel, reader>>

\* One turn of drainSocketQueue's loop.
OneChunkFaulty ==
  /\ draining /\ draining' = FALSE
  /\ IF state = "open" /\ queue # <<>>
     THEN \E n \in 0 .. Size(Head(queue)) :
            /\ Accepts(Head(queue), n)
            /\ blocked' = (n < Size(Head(queue)))
            /\ queue' = IF blocked' THEN [queue EXCEPT ![1] = Rest(@, n)] ELSE Tail(queue)
     ELSE queue' = <<>> /\ UNCHANGED <<blocked, kernel>>
  /\ UNCHANGED <<frames, state, reader>>
TailLostFaulty ==
  /\ draining
  /\ IF state = "open" /\ queue # <<>>
     THEN \E n \in 0 .. Size(Head(queue)) :
            /\ Accepts(Head(queue), n)
            /\ blocked' = (n < Size(Head(queue)))
            /\ draining' = ~blocked'
            /\ queue' = Tail(queue)
     ELSE queue' = <<>> /\ draining' = FALSE /\ UNCHANGED <<blocked, kernel>>
  /\ UNCHANGED <<frames, state, reader>>
DrainWrite ==
  /\ draining
  /\ \/ /\ state = "open" /\ queue # <<>>
        /\ \E n \in 0 .. Size(Head(queue)) :
             /\ Accepts(Head(queue), n)
             /\ IF n < Size(Head(queue))
                THEN /\ queue' = [queue EXCEPT ![1] = Rest(@, n)]
                     /\ blocked' = TRUE /\ draining' = FALSE
                ELSE /\ queue' = Tail(queue)
                     /\ UNCHANGED <<blocked, draining>>
     \/ /\ state = "dead" \/ queue = <<>>
        /\ queue' = <<>> /\ draining' = FALSE
        /\ UNCHANGED <<blocked, kernel>>
  /\ UNCHANGED <<frames, state, reader>>

\* The peer is gone, before the writer is told.
Die ==
  /\ state = "open"
  /\ state' = "dead"
  /\ UNCHANGED <<frames, queue, blocked, draining, kernel, reader>>

\* The close handler: releaseSocketQueue.
Close ==
  /\ state # "closed" /\ ~draining
  /\ state' = "closed"
  /\ queue' = <<>>
  /\ UNCHANGED <<frames, blocked, draining, kernel, reader>>

-----------------------------------------------------------------------------
(* The reader *)

Data ==
  /\ state = "open"
  /\ \E n \in 1 .. Len(kernel) :
       /\ buf' = buf \o SubSeq(kernel, 1, n)
       /\ kernel' = SubSeq(kernel, n + 1, Len(kernel))
  /\ UNCHANGED <<writer, read>>

\* The frame whose header the buffer begins with.
Headed(f) == /\ Len(buf) >= HEADER
             /\ SubSeq(buf, 1, HEADER) = Run(f.lo, HEADER)

TakenFrom(f) == IF SubSeq(buf, 1, Size(f)) = Run(f.lo, Size(f)) THEN f ELSE Garbled

BehindBy(n) == SubSeq(buf, n + 1, Len(buf))

TakeShortFaulty(f) ==
  /\ Headed(f) /\ Size(f) <= FRAME_MAX
  /\ Len(buf) + 1 >= Size(f)
  /\ read' = Append(read, f)
  /\ buf' = BehindBy(Size(f))
TakeFrame(f) ==
  /\ Headed(f) /\ Size(f) <= FRAME_MAX
  /\ Len(buf) >= Size(f)
  /\ read' = Append(read, TakenFrom(f))
  /\ buf' = BehindBy(Size(f))

\* A frame over the limit is refused as soon as its header is seen, with all that
\* is buffered; what is still to come of it will be taken for headers.
RefuseFrame(f) ==
  /\ Headed(f) /\ Size(f) > FRAME_MAX
  /\ buf' = <<>>
  /\ UNCHANGED read

\* Bytes that are no header, read as one: an impossible length empties the buffer,
\* a possible one takes off that many bytes, which parse as nothing.
Misread ==
  /\ Len(buf) >= HEADER
  /\ \A i \in DOMAIN frames : ~Headed(frames[i])
  /\ \E n \in HEADER .. Len(buf) : buf' = BehindBy(n)
  /\ UNCHANGED read

Parse ==
  /\ \/ \E i \in DOMAIN frames : TakeFrame(frames[i]) \/ RefuseFrame(frames[i])
     \/ Misread
  /\ UNCHANGED <<writer, kernel>>

-----------------------------------------------------------------------------
Next ==
  \/ \E size \in FrameSizes : SocketWriteAll(size)
  \/ DrainEvent \/ DrainWrite \/ Die \/ Close
  \/ Data \/ Parse

\* The loop serves every drain and data event; nothing makes the writer write.
Fairness == WF_vars(DrainEvent) /\ WF_vars(DrainWrite) /\ WF_vars(Data) /\ WF_vars(Parse)

Spec     == Init /\ [][Next]_vars
FairSpec == Spec /\ Fairness

-----------------------------------------------------------------------------
(* Properties *)

TypeOK ==
  /\ frames \in Seq(Chunk) /\ queue \in Seq(Chunk)
  /\ blocked \in BOOLEAN /\ draining \in BOOLEAN
  /\ state \in {"open", "dead", "closed"}
  /\ kernel \in Seq(Nat) /\ buf \in Seq(Nat) /\ read \in Seq(Chunk \cup {Garbled})

\* Every frame the reader takes is one that was written, whole, and they come in
\* the order of writing, each at most once, whatever was refused in between.
ReadWholeInOrder ==
  /\ \A i \in DOMAIN read : \E j \in DOMAIN frames : read[i] = frames[j]
  /\ \A i, j \in DOMAIN read : i < j => read[i].hi < read[j].lo

ReadEnd == IF read = <<>> THEN 0 ELSE read[Len(read)].hi
Seen    == ReadEnd + Len(buf)
Taken   == Seen + Len(kernel)
Contiguous ==
  /\ \A i \in DOMAIN buf : buf[i] = ReadEnd + i
  /\ \A i \in DOMAIN kernel : kernel[i] = Seen + i
  /\ queue # <<>> => queue[1].lo = Taken + 1 /\ queue[Len(queue)].hi = Written
  /\ \A i \in 1 .. Len(queue) - 1 : queue[i + 1].lo = queue[i].hi + 1
  /\ queue = <<>> => Taken = Written

\* No frame that was written is over the reader's limit.
WithinLimit == \A i \in DOMAIN frames : Size(frames[i]) <= FRAME_MAX

\* The bytes the reader buffers, the kernel holds and the queue keeps are exactly the
\* bytes behind the last frame read, in order: a short write loses, repeats and
\* reorders nothing (issue #229), until a frame over the limit is written.
NothingLost == state = "open" /\ WithinLimit => Contiguous

\* Bytes wait in the queue only while a drain event is due or being handled, so
\* they cannot wait for one that never comes.
QueuedIsArmed == state = "open" /\ queue # <<>> => blocked \/ draining

\* Both: no byte is lost, and none waits for ever.
StreamSound == NothingLost /\ QueuedIsArmed

\* The stream implements the FIFO of frames, for any frames: of the ones over the
\* reader's limit, and of what it then takes for headers, it makes no frame.
Channel == INSTANCE FrameChannel
             WITH Frame <- Chunk, Fitting <- {c \in Chunk : Size(c) <= FRAME_MAX},
                  sent <- frames, received <- read
ImplementsChannel == Channel!Spec

\* A frame that was written before any over the limit is read in the end, or the
\* connection ends.
ReachedWithin(i) == Len(frames) >= i /\ \A k \in 1 .. i : Size(frames[k]) <= FRAME_MAX
EveryFrameRead ==
  \A i \in 1 .. MaxFrames : ReachedWithin(i) ~> Len(read) >= i \/ state # "open"
=============================================================================
