-------------------------- MODULE SocketStreamProofs --------------------------
(***************************************************************************)
(* Theorems about the socket stream, for any frame sizes, any kernel       *)
(* buffer and any number of frames.                                        *)
(***************************************************************************)
EXTENDS SocketStream, SequenceTheorems, TLAPS

-----------------------------------------------------------------------------
(* The helpers *)

\* A run of positions, element by element.
LEMMA RunIs ==
  ASSUME NEW lo \in Nat, NEW n \in Nat
  PROVE  /\ Run(lo, n) \in Seq(Nat)
         /\ Len(Run(lo, n)) = n
         /\ \A i \in 1 .. n : Run(lo, n)[i] = lo + i - 1
BY DEF Run

\* The beginning, the rest and the extension of a sequence of positions.
LEMMA Split ==
  ASSUME NEW s \in Seq(Nat), NEW n \in 0 .. Len(s)
  PROVE  /\ SubSeq(s, 1, n) \in Seq(Nat)
         /\ Len(SubSeq(s, 1, n)) = n
         /\ \A i \in 1 .. n : SubSeq(s, 1, n)[i] = s[i]
         /\ SubSeq(s, n + 1, Len(s)) \in Seq(Nat)
         /\ Len(SubSeq(s, n + 1, Len(s))) = Len(s) - n
         /\ \A i \in 1 .. Len(s) - n : SubSeq(s, n + 1, Len(s))[i] = s[n + i]
<1>1. \A i \in 1 .. n : s[i] \in Nat
  BY ElementOfSeq
<1>2. \A i \in n + 1 .. Len(s) : s[i] \in Nat
  BY ElementOfSeq
<1>3. Len(s) \in Nat /\ n \in Nat
  OBVIOUS
<1>4. /\ SubSeq(s, 1, n) \in Seq(Nat)
      /\ Len(SubSeq(s, 1, n)) = n
      /\ \A i \in 1 .. n : SubSeq(s, 1, n)[i] = s[i]
  <2>1. /\ SubSeq(s, 1, n) \in Seq(Nat)
        /\ Len(SubSeq(s, 1, n)) = IF 1 <= n THEN n - 1 + 1 ELSE 0
        /\ \A i \in 1 .. n - 1 + 1 : SubSeq(s, 1, n)[i] = s[1 + i - 1]
    BY <1>1, <1>3, SubSeqProperties
  <2> QED  BY <2>1, <1>3
<1>5. /\ SubSeq(s, n + 1, Len(s)) \in Seq(Nat)
      /\ Len(SubSeq(s, n + 1, Len(s))) = Len(s) - n
      /\ \A i \in 1 .. Len(s) - n : SubSeq(s, n + 1, Len(s))[i] = s[n + i]
  <2>1. /\ SubSeq(s, n + 1, Len(s)) \in Seq(Nat)
        /\ Len(SubSeq(s, n + 1, Len(s))) =
             IF n + 1 <= Len(s) THEN Len(s) - (n + 1) + 1 ELSE 0
        /\ \A i \in 1 .. Len(s) - (n + 1) + 1 :
             SubSeq(s, n + 1, Len(s))[i] = s[n + 1 + i - 1]
    BY <1>2, <1>3, SubSeqProperties
  <2> QED  BY <2>1, <1>3
<1> QED  BY <1>4, <1>5

\* A chunk has at least one byte, and what is left of it after a short write is
\* a chunk again.
LEMMA RestIsChunk ==
  ASSUME NEW c \in Chunk, NEW n \in 0 .. Size(c)
  PROVE  /\ Size(c) \in Nat \ {0}
         /\ n < Size(c) => Rest(c, n) \in Chunk
         /\ Rest(c, n).lo = c.lo + n /\ Rest(c, n).hi = c.hi
BY DEF Chunk, Size, Rest

-----------------------------------------------------------------------------
(* Type correctness *)

\* The bytes offered so far, and the frame a write adds behind them.
LEMMA NextFrame ==
  ASSUME TypeOK, NEW size \in FrameSizes
  PROVE  /\ Written \in Nat
         /\ [lo |-> Written + 1, hi |-> Written + size] \in Chunk
         /\ Size([lo |-> Written + 1, hi |-> Written + size]) = size
<1>1. Written \in Nat
  <2>1. CASE frames = <<>>
    BY <2>1 DEF Written
  <2>2. CASE frames # <<>>
    <3>1. Len(frames) \in DOMAIN frames /\ frames[Len(frames)] \in Chunk
      BY <2>2 DEF TypeOK
    <3> QED  BY <2>2, <3>1 DEF Written, Chunk
  <2> QED  BY <2>1, <2>2
<1>2. size \in Nat /\ size > 0
  BY StreamAssumption
<1> QED  BY <1>1, <1>2 DEF Chunk, Size

\* What the kernel takes stays a sequence of positions.
LEMMA AcceptsType ==
  ASSUME TypeOK, NEW c \in Chunk, NEW n \in 0 .. Size(c), Accepts(c, n)
  PROVE  /\ kernel' \in Seq(Nat)
         /\ Len(kernel') = Len(kernel) + n
         /\ \A i \in 1 .. Len(kernel) : kernel'[i] = kernel[i]
         /\ \A i \in 1 .. n : kernel'[Len(kernel) + i] = c.lo + i - 1
<1>1. n \in Nat /\ c.lo \in Nat
  BY RestIsChunk DEF Chunk
<1>2. /\ Run(c.lo, n) \in Seq(Nat) /\ Len(Run(c.lo, n)) = n
      /\ \A i \in 1 .. n : Run(c.lo, n)[i] = c.lo + i - 1
  BY <1>1, RunIs
<1>3. kernel \in Seq(Nat) /\ kernel' = kernel \o Run(c.lo, n)
  BY DEF TypeOK, Accepts
<1>4. /\ kernel' \in Seq(Nat)
      /\ Len(kernel') = Len(kernel) + n
      /\ \A i \in 1 .. Len(kernel) + n :
           kernel'[i] = IF i <= Len(kernel) THEN kernel[i]
                                            ELSE Run(c.lo, n)[i - Len(kernel)]
  <2> DEFINE r == Run(c.lo, n)
  <2> HIDE DEF r
  <2>1. r \in Seq(Nat) /\ Len(r) = n /\ kernel' = kernel \o r
    BY <1>2, <1>3 DEF r
  <2>2. /\ kernel \o r \in Seq(Nat)
        /\ Len(kernel \o r) = Len(kernel) + Len(r)
        /\ \A i \in 1 .. Len(kernel) + Len(r) :
             (kernel \o r)[i] = IF i <= Len(kernel) THEN kernel[i] ELSE r[i - Len(kernel)]
    BY <1>3, <2>1, ConcatProperties
  <2>3. /\ kernel' \in Seq(Nat)
        /\ Len(kernel') = Len(kernel) + n
        /\ \A i \in 1 .. Len(kernel) + n :
             kernel'[i] = IF i <= Len(kernel) THEN kernel[i] ELSE r[i - Len(kernel)]
    BY <2>1, <2>2
  <2> QED  BY <2>3 DEF r
<1>5. Len(kernel) \in Nat
  BY <1>3
<1>6. \A i \in 1 .. n : kernel'[Len(kernel) + i] = c.lo + i - 1
  <2> SUFFICES ASSUME NEW i \in 1 .. n
               PROVE  kernel'[Len(kernel) + i] = c.lo + i - 1
    OBVIOUS
  <2>1. /\ Len(kernel) + i \in 1 .. Len(kernel) + n
        /\ ~(Len(kernel) + i <= Len(kernel))
        /\ Len(kernel) + i - Len(kernel) = i
    BY <1>1, <1>5
  <2>2. kernel'[Len(kernel) + i] = Run(c.lo, n)[Len(kernel) + i - Len(kernel)]
    BY <2>1, <1>4
  <2>3. kernel'[Len(kernel) + i] = Run(c.lo, n)[i]
    BY <2>1, <2>2
  <2> QED  BY <2>3, <1>2
<1> QED  BY <1>1, <1>4, <1>5, <1>6

\* Every variable keeps its type; in particular no chunk in the queue is empty.
THEOREM TypeCorrect == Spec => []TypeOK
<1>1. Init => TypeOK
  BY EmptySeq DEF Init, TypeOK
<1>2. TypeOK /\ [Next]_vars => TypeOK'
  <2> SUFFICES ASSUME TypeOK, [Next]_vars
               PROVE  TypeOK'
    OBVIOUS
  <2>1. ASSUME NEW size \in FrameSizes, SocketWriteAll(size)
        PROVE  TypeOK'
    <3> DEFINE f == [lo |-> Written + 1, hi |-> Written + size]
    <3>1. f \in Chunk /\ Size(f) = size
      BY NextFrame
    <3>2. frames' \in Seq(Chunk)
      <4>1. frames' = Append(frames, f)
        BY <2>1 DEF SocketWriteAll
      <4> QED  BY <4>1, <3>1 DEF TypeOK
    <3>3. queue' \in Seq(Chunk) /\ kernel' \in Seq(Nat) /\ blocked' \in BOOLEAN
      <4>1. CASE queue # <<>>
        <5>1. queue' = Append(queue, f) /\ UNCHANGED <<kernel, blocked>>
          BY <2>1, <4>1 DEF SocketWriteAll
        <5> QED  BY <5>1, <3>1 DEF TypeOK
      <4>2. CASE queue = <<>>
        <5>1. PICK n \in 0 .. size :
                /\ Accepts(f, n)
                /\ queue' = IF n < size THEN <<Rest(f, n)>> ELSE <<>>
                /\ blocked' = (n < size)
          BY <2>1, <4>2 DEF SocketWriteAll
        <5>2. n < size => Rest(f, n) \in Chunk
          BY <3>1, <5>1, RestIsChunk
        <5>3. kernel' \in Seq(Nat)
          BY <3>1, <5>1, AcceptsType
        <5> QED  BY <5>1, <5>2, <5>3
      <4> QED  BY <4>1, <4>2
    <3> QED  BY <3>2, <3>3, <2>1 DEF SocketWriteAll, TypeOK, reader
  <2>2. ASSUME DrainEvent
        PROVE  TypeOK'
    BY <2>2 DEF DrainEvent, TypeOK, reader
  <2>3. ASSUME DrainWrite
        PROVE  TypeOK'
    <3>1. CASE queue # <<>> /\ state = "open"
      <4>1. PICK n \in 0 .. Size(Head(queue)) :
              /\ Accepts(Head(queue), n)
              /\ IF n < Size(Head(queue))
                 THEN /\ queue' = [queue EXCEPT ![1] = Rest(@, n)]
                      /\ blocked' = TRUE /\ draining' = FALSE
                 ELSE /\ queue' = Tail(queue)
                      /\ UNCHANGED <<blocked, draining>>
        BY <2>3, <3>1 DEF DrainWrite
      <4>2. Head(queue) \in Chunk /\ Tail(queue) \in Seq(Chunk)
        BY <3>1 DEF TypeOK
      <4>3. kernel' \in Seq(Nat)
        BY <4>1, <4>2, AcceptsType
      <4>4. queue' \in Seq(Chunk)
        <5>1. CASE n < Size(Head(queue))
          <6>1. Rest(Head(queue), n) \in Chunk
            BY <5>1, <4>1, <4>2, RestIsChunk
          <6>2. queue \in Seq(Chunk) /\ 1 \in 1 .. Len(queue) /\ queue[1] = Head(queue)
            BY <3>1, EmptySeq DEF TypeOK
          <6>3. queue' = [queue EXCEPT ![1] = Rest(Head(queue), n)]
            BY <5>1, <4>1, <6>2
          <6> QED  BY <6>1, <6>2, <6>3, ExceptSeq
        <5>2. CASE ~(n < Size(Head(queue)))
          BY <5>2, <4>1, <4>2
        <5> QED  BY <5>1, <5>2
      <4> QED  BY <4>1, <4>3, <4>4, <2>3 DEF DrainWrite, TypeOK, reader
    <3>2. CASE ~(queue # <<>> /\ state = "open")
      <4>1. queue' \in Seq(Chunk) /\ draining' \in BOOLEAN /\ UNCHANGED <<blocked, kernel>>
        BY <3>2, <2>3, EmptySeq DEF DrainWrite
      <4> QED  BY <4>1, <2>3 DEF DrainWrite, TypeOK, reader
    <3> QED  BY <3>1, <3>2
  <2>4. ASSUME Die \/ Close
        PROVE  TypeOK'
    <3>1. <<>> \in Seq(Chunk)
      BY EmptySeq
    <3> QED  BY <3>1, <2>4 DEF Die, Close, TypeOK, reader
  <2>5. ASSUME Data
        PROVE  TypeOK'
    <3>1. PICK n \in 1 .. Len(kernel) :
            /\ buf' = buf \o SubSeq(kernel, 1, n)
            /\ kernel' = SubSeq(kernel, n + 1, Len(kernel))
      BY <2>5 DEF Data
    <3>2. kernel \in Seq(Nat) /\ buf \in Seq(Nat) /\ n \in 0 .. Len(kernel)
      BY <3>1 DEF TypeOK
    <3>3. kernel' \in Seq(Nat) /\ buf' \in Seq(Nat)
      BY <3>1, <3>2, Split, ConcatProperties
    <3> QED  BY <3>3, <2>5 DEF Data, TypeOK, writer
  <2>6. ASSUME Parse
        PROVE  TypeOK'
    <3>1. buf' \in Seq(Nat) /\ read' \in Seq(Chunk \cup {Garbled})
      <4>1. ASSUME NEW i \in DOMAIN frames, TakeFrame(frames[i])
            PROVE  buf' \in Seq(Nat) /\ read' \in Seq(Chunk \cup {Garbled})
        <5>1. frames[i] \in Chunk /\ buf \in Seq(Nat)
          BY DEF TypeOK
        <5>2. Size(frames[i]) \in 0 .. Len(buf)
          <6>1. Size(frames[i]) \in Nat
            BY <5>1 DEF Chunk, Size
          <6> QED  BY <6>1, <4>1, <5>1 DEF TakeFrame
        <5>3. buf' \in Seq(Nat)
          BY <4>1, <5>1, <5>2, Split DEF TakeFrame, BehindBy
        <5>4. TakenFrom(frames[i]) \in Chunk \cup {Garbled}
          BY <5>1 DEF TakenFrom
        <5> QED  BY <4>1, <5>3, <5>4 DEF TakeFrame, TypeOK
      <4>2. ASSUME NEW i \in DOMAIN frames, RefuseFrame(frames[i])
            PROVE  buf' \in Seq(Nat) /\ read' \in Seq(Chunk \cup {Garbled})
        BY <4>2 DEF RefuseFrame, TypeOK
      <4>3. ASSUME Misread
            PROVE  buf' \in Seq(Nat) /\ read' \in Seq(Chunk \cup {Garbled})
        <5>1. PICK n \in HEADER .. Len(buf) : buf' = BehindBy(n)
          BY <4>3 DEF Misread
        <5>2. buf \in Seq(Nat) /\ n \in 0 .. Len(buf)
          BY <5>1, StreamAssumption DEF TypeOK
        <5> QED  BY <4>3, <5>1, <5>2, Split DEF Misread, BehindBy, TypeOK
      <4> QED  BY <2>6, <4>1, <4>2, <4>3 DEF Parse
    <3> QED  BY <3>1, <2>6 DEF Parse, TypeOK, writer
  <2>7. CASE UNCHANGED vars
    BY <2>7 DEF vars, writer, reader, TypeOK
  <2> QED  BY <2>1, <2>2, <2>3, <2>4, <2>5, <2>6, <2>7 DEF Next
<1> QED  BY <1>1, <1>2, PTL DEF Spec

-----------------------------------------------------------------------------
(* The inductive invariant. The frames lie end to end; the reader has taken *)
(* a prefix of them and buffers what follows; while the socket is open the  *)
(* kernel and the queue hold the rest.                                      *)

FramesEndToEnd ==
  /\ \A i \in DOMAIN frames : Size(frames[i]) \in FrameSizes
  /\ frames # <<>> => frames[1].lo = 1
  /\ \A i, j \in DOMAIN frames : i < j => frames[i].hi < frames[j].lo
  /\ \A i, j \in DOMAIN frames : j = i + 1 => frames[j].lo = frames[i].hi + 1

ReadIsPrefix ==
  /\ Len(read) <= Len(frames)
  /\ \A i \in DOMAIN read : read[i] = frames[i]

BufferFollows ==
  /\ \A i \in DOMAIN buf : buf[i] = ReadEnd + i
  /\ Seen <= Written

QueueEndToEnd ==
  /\ \A i \in DOMAIN kernel : kernel[i] = Seen + i
  /\ queue # <<>> => queue[1].lo = Taken + 1 /\ queue[Len(queue)].hi = Written
  /\ \A i \in DOMAIN queue : queue[i].hi <= Written
  /\ \A i, j \in DOMAIN queue : j = i + 1 => queue[j].lo = queue[i].hi + 1
  /\ queue = <<>> => Taken = Written

StreamInv ==
  /\ FramesEndToEnd /\ ReadIsPrefix /\ BufferFollows
  /\ state = "open" => QueueEndToEnd

\* What the invariant says of the three ends: the last frame offered, the last
\* frame read, and the frame the reader comes to next.
LEMMA Ends ==
  ASSUME TypeOK, FramesEndToEnd, ReadIsPrefix
  PROVE  /\ Written \in Nat /\ ReadEnd \in Nat /\ Seen \in Nat /\ Taken \in Nat
         /\ ReadEnd <= Written
         /\ \A i \in DOMAIN frames : frames[i] \in Chunk /\ frames[i].hi <= Written
         /\ ReadEnd < Written =>
              /\ Len(read) + 1 \in DOMAIN frames
              /\ frames[Len(read) + 1].lo = ReadEnd + 1
         /\ \A i \in DOMAIN frames :
              frames[i].lo = ReadEnd + 1 => i = Len(read) + 1
<1>1. frames \in Seq(Chunk) /\ Len(read) \in Nat /\ Len(frames) \in Nat
  BY DEF TypeOK
<1>2. \A i \in DOMAIN frames : /\ frames[i] \in Chunk
                              /\ frames[i].lo \in Nat \ {0} /\ frames[i].hi \in Nat
                              /\ frames[i].lo <= frames[i].hi
  BY <1>1 DEF Chunk
<1>3. DOMAIN frames = 1 .. Len(frames) /\ DOMAIN read = 1 .. Len(read)
  BY DEF TypeOK
<1>4. Written \in Nat
        /\ \A i \in DOMAIN frames : frames[i].hi <= Written
  <2>1. CASE frames = <<>>
    BY <2>1, <1>3 DEF Written
  <2>2. CASE frames # <<>>
    <3>1. Len(frames) \in DOMAIN frames /\ Written = frames[Len(frames)].hi
      BY <2>2, <1>1, <1>3 DEF Written
    <3>2. ASSUME NEW i \in DOMAIN frames
          PROVE  frames[i].hi <= Written
      <4>1. CASE i = Len(frames)
        BY <4>1, <3>1, <1>2
      <4>2. CASE i # Len(frames)
        <5>1. i < Len(frames)
          BY <4>2, <1>1, <1>3
        <5>2. frames[i].hi < frames[Len(frames)].lo
          BY <5>1, <3>1 DEF FramesEndToEnd
        <5> QED  BY <5>2, <3>1, <1>2
      <4> QED  BY <4>1, <4>2
    <3> QED  BY <3>1, <3>2, <1>2
  <2> QED  BY <2>1, <2>2
<1>5. /\ read = <<>> => ReadEnd = 0
      /\ read # <<>> => Len(read) \in DOMAIN frames /\ ReadEnd = frames[Len(read)].hi
  <2>1. CASE read = <<>>
    BY <2>1 DEF ReadEnd
  <2>2. CASE read # <<>>
    <3>1. Len(read) \in DOMAIN read
      BY <2>2, <1>3, EmptySeq DEF TypeOK
    <3>2. Len(read) \in DOMAIN frames
      BY <3>1, <1>1, <1>3 DEF ReadIsPrefix
    <3> QED  BY <2>2, <3>1, <3>2 DEF ReadIsPrefix, ReadEnd
  <2> QED  BY <2>1, <2>2
<1>6. ReadEnd \in Nat /\ ReadEnd <= Written
  BY <1>2, <1>4, <1>5
<1>7. Seen \in Nat /\ Taken \in Nat
  BY <1>6 DEF Seen, Taken, TypeOK
<1>8. ASSUME ReadEnd < Written
      PROVE  /\ Len(read) + 1 \in DOMAIN frames
             /\ frames[Len(read) + 1].lo = ReadEnd + 1
  <2>1. Len(read) # Len(frames)
    <3>1. CASE frames = <<>>
      BY <3>1, <1>8, <1>6 DEF Written
    <3>2. CASE frames # <<>>
      <4>1. Len(read) = Len(frames) => read # <<>>
        <5>1. Len(frames) # 0
          BY <3>2, <1>1, EmptySeq
        <5> QED  BY <5>1
      <4> QED  BY <4>1, <3>2, <1>8, <1>5, <1>2, <1>6 DEF Written
    <3> QED  BY <3>1, <3>2
  <2>2. Len(read) + 1 \in DOMAIN frames
    <3>1. Len(read) <= Len(frames)
      BY DEF ReadIsPrefix
    <3>2. Len(read) + 1 \in 1 .. Len(frames)
      BY <2>1, <3>1, <1>1
    <3> QED  BY <3>2, <1>3
  <2>3. CASE read = <<>>
    <3>1. Len(read) = 0 /\ frames # <<>>
      BY <2>2, <2>3
    <3> QED  BY <3>1, <2>2, <2>3, <1>5 DEF FramesEndToEnd
  <2>4. CASE read # <<>>
    <3>1. Len(read) \in DOMAIN frames /\ ReadEnd = frames[Len(read)].hi
      BY <2>4, <1>5
    <3> QED  BY <3>1, <2>2 DEF FramesEndToEnd
  <2> QED  BY <2>2, <2>3, <2>4
<1>9. ASSUME NEW i \in DOMAIN frames, frames[i].lo = ReadEnd + 1
      PROVE  i = Len(read) + 1
  <2>1. ReadEnd < Written
    BY <1>9, <1>2, <1>4, <1>6
  <2>2. /\ Len(read) + 1 \in DOMAIN frames
        /\ frames[Len(read) + 1].lo = ReadEnd + 1
    BY <2>1, <1>8
  <2>3. ~(i < Len(read) + 1)
    BY <2>2, <1>2, <1>9 DEF FramesEndToEnd
  <2>4. ~(Len(read) + 1 < i)
    BY <2>2, <1>2, <1>9 DEF FramesEndToEnd
  <2> QED  BY <2>3, <2>4, <1>1, <1>3
<1> QED  BY <1>2, <1>4, <1>6, <1>7, <1>8, <1>9

\* A write puts its frame behind the others, its bytes behind those of the queue.
LEMMA WriteKeeps ==
  ASSUME TypeOK, StreamInv, NEW size \in FrameSizes, SocketWriteAll(size)
  PROVE  StreamInv'
<1> DEFINE f == [lo |-> Written + 1, hi |-> Written + size]
<1>1. /\ f \in Chunk /\ Size(f) = size /\ Written \in Nat
      /\ size \in Nat \ {0} /\ f.lo = Written + 1 /\ f.hi = Written + size
  BY NextFrame, StreamAssumption
<1> HIDE DEF f
<1>2. frames \in Seq(Chunk) /\ frames' = Append(frames, f)
  BY DEF SocketWriteAll, TypeOK, f
<1>3. UNCHANGED <<buf, read, state>>
  BY DEF SocketWriteAll, reader
<1>4. /\ Len(frames) \in Nat /\ Len(frames') = Len(frames) + 1
      /\ DOMAIN frames = 1 .. Len(frames) /\ DOMAIN frames' = 1 .. Len(frames) + 1
      /\ \A i \in DOMAIN frames : frames'[i] = frames[i]
      /\ frames'[Len(frames) + 1] = f
  BY <1>1, <1>2
<1>5. /\ Written' = Written + size
      /\ ReadEnd' = ReadEnd /\ Seen' = Seen
  <2>1. frames' # <<>>
    BY <1>4, EmptySeq
  <2>2. Written' = frames'[Len(frames')].hi
    BY <2>1 DEF Written
  <2> QED  BY <2>2, <1>1, <1>3, <1>4 DEF ReadEnd, Seen
<1>6. /\ ReadEnd \in Nat /\ Seen \in Nat /\ Taken \in Nat
      /\ \A i \in DOMAIN frames : frames[i] \in Chunk /\ frames[i].hi <= Written
  BY Ends DEF StreamInv
<1>7. FramesEndToEnd'
  <2>1. \A i \in DOMAIN frames' : Size(frames'[i]) \in FrameSizes
    BY <1>1, <1>4 DEF StreamInv, FramesEndToEnd
  <2>2. frames'[1].lo = 1
    <3>1. CASE frames = <<>>
      BY <3>1, <1>1, <1>4 DEF Written
    <3>2. CASE frames # <<>>
      <4>1. 1 \in DOMAIN frames
        BY <3>2, <1>2, <1>4, EmptySeq
      <4> QED  BY <4>1, <3>2, <1>4 DEF StreamInv, FramesEndToEnd
    <3> QED  BY <3>1, <3>2
  <2>3. ASSUME NEW i \in DOMAIN frames', NEW j \in DOMAIN frames', i < j
        PROVE  frames'[i].hi < frames'[j].lo
    <3>1. i \in DOMAIN frames
      BY <2>3, <1>4
    <3>2. CASE j \in DOMAIN frames
      BY <2>3, <3>1, <3>2, <1>4 DEF StreamInv, FramesEndToEnd
    <3>3. CASE j \notin DOMAIN frames
      <4>1. j = Len(frames) + 1
        BY <3>3, <1>4
      <4>2. frames[i].hi <= Written /\ frames[i].hi \in Nat
        BY <3>1, <1>6 DEF Chunk
      <4> QED  BY <4>1, <4>2, <3>1, <1>1, <1>4
    <3> QED  BY <3>2, <3>3
  <2>4. ASSUME NEW i \in DOMAIN frames', NEW j \in DOMAIN frames', j = i + 1
        PROVE  frames'[j].lo = frames'[i].hi + 1
    <3>1. i \in DOMAIN frames
      BY <2>4, <1>4
    <3>2. CASE j \in DOMAIN frames
      BY <2>4, <3>1, <3>2, <1>4 DEF StreamInv, FramesEndToEnd
    <3>3. CASE j \notin DOMAIN frames
      <4>1. j = Len(frames) + 1 /\ i = Len(frames)
        BY <3>3, <2>4, <1>4
      <4>2. frames # <<>>
        BY <3>1, <1>4, <4>1
      <4> QED  BY <4>1, <4>2, <3>1, <1>1, <1>4 DEF Written
    <3> QED  BY <3>2, <3>3
  <2> QED  BY <2>1, <2>2, <2>3, <2>4 DEF FramesEndToEnd
<1>8. ReadIsPrefix'
  <2>1. Len(read) <= Len(frames) /\ Len(read) \in Nat /\ DOMAIN read = 1 .. Len(read)
    BY DEF StreamInv, ReadIsPrefix, TypeOK
  <2>2. \A i \in DOMAIN read : i \in DOMAIN frames
    BY <2>1, <1>4
  <2> QED  BY <2>1, <2>2, <1>3, <1>4 DEF StreamInv, ReadIsPrefix
<1>9. BufferFollows'
  BY <1>1, <1>3, <1>5, <1>6 DEF StreamInv, BufferFollows
<1>10. ASSUME state' = "open"
       PROVE  QueueEndToEnd'
  <2>1. QueueEndToEnd
    BY <1>10, <1>3 DEF StreamInv
  <2>2. CASE queue # <<>>
    <3>1. queue \in Seq(Chunk) /\ queue' = Append(queue, f) /\ kernel' = kernel
      BY <2>2 DEF SocketWriteAll, TypeOK, f
    <3>2. Len(queue) \in Nat \ {0}
      BY <2>2, <3>1, EmptySeq
    <3>3. /\ DOMAIN queue = 1 .. Len(queue) /\ DOMAIN queue' = 1 .. Len(queue) + 1
          /\ Len(queue') = Len(queue) + 1
          /\ \A i \in DOMAIN queue : queue'[i] = queue[i]
          /\ queue'[Len(queue) + 1] = f
      BY <3>1, <3>2, <1>1
    <3>4. Taken' = Taken
      BY <3>1, <1>5 DEF Taken
    <3>5. queue'[1].lo = Taken' + 1 /\ queue'[Len(queue')].hi = Written'
      BY <2>1, <2>2, <3>2, <3>3, <3>4, <1>1, <1>5 DEF QueueEndToEnd
    <3>6. \A i \in DOMAIN queue' : queue'[i].hi <= Written'
      <4> SUFFICES ASSUME NEW i \in DOMAIN queue'
                   PROVE  queue'[i].hi <= Written'
        OBVIOUS
      <4>1. CASE i \in DOMAIN queue
        <5>1. queue[i].hi <= Written /\ queue[i].hi \in Nat
          BY <4>1, <2>1, <3>1 DEF QueueEndToEnd, Chunk
        <5> QED  BY <5>1, <4>1, <3>3, <1>1, <1>5
      <4>2. CASE i \notin DOMAIN queue
        BY <4>2, <3>3, <1>1, <1>5
      <4> QED  BY <4>1, <4>2
    <3>7. \A i, j \in DOMAIN queue' : j = i + 1 => queue'[j].lo = queue'[i].hi + 1
      <4> SUFFICES ASSUME NEW i \in DOMAIN queue', NEW j \in DOMAIN queue', j = i + 1
                   PROVE  queue'[j].lo = queue'[i].hi + 1
        OBVIOUS
      <4>1. CASE j \in DOMAIN queue
        BY <4>1, <2>1, <3>2, <3>3 DEF QueueEndToEnd
      <4>2. CASE j \notin DOMAIN queue
        <5>1. j = Len(queue) + 1 /\ i = Len(queue) /\ i \in DOMAIN queue
          BY <4>2, <3>2, <3>3
        <5> QED  BY <5>1, <2>1, <2>2, <3>3, <1>1 DEF QueueEndToEnd
      <4> QED  BY <4>1, <4>2
    <3>8. queue' # <<>>
      BY <3>3, <3>2, EmptySeq
    <3> QED  BY <2>1, <3>1, <3>5, <3>6, <3>7, <3>8, <1>5 DEF QueueEndToEnd
  <2>3. CASE queue = <<>>
    <3>1. PICK n \in 0 .. size :
            /\ Accepts(f, n)
            /\ queue' = IF n < size THEN <<Rest(f, n)>> ELSE <<>>
      BY <2>3 DEF SocketWriteAll, f
    <3>2. /\ kernel' \in Seq(Nat)
          /\ Len(kernel') = Len(kernel) + n
          /\ \A i \in 1 .. Len(kernel) : kernel'[i] = kernel[i]
          /\ \A i \in 1 .. n : kernel'[Len(kernel) + i] = Written + i
      <4>1. n \in 0 .. Size(f)
        BY <3>1, <1>1
      <4>2. /\ kernel' \in Seq(Nat)
            /\ Len(kernel') = Len(kernel) + n
            /\ \A i \in 1 .. Len(kernel) : kernel'[i] = kernel[i]
            /\ \A i \in 1 .. n : kernel'[Len(kernel) + i] = f.lo + i - 1
        BY <4>1, <3>1, <1>1, AcceptsType
      <4>3. \A i \in 1 .. n : f.lo + i - 1 = Written + i
        BY <1>1
      <4> QED  BY <4>2, <4>3
    <3>3. /\ Taken = Written /\ Taken' = Written + n
          /\ Len(kernel) \in Nat /\ DOMAIN kernel = 1 .. Len(kernel)
      <4>1. Taken = Written
        BY <2>1, <2>3 DEF QueueEndToEnd
      <4>2. Len(kernel) \in Nat /\ DOMAIN kernel = 1 .. Len(kernel)
        BY DEF TypeOK
      <4>3. Taken' = Seen + (Len(kernel) + n)
        BY <3>2, <1>5 DEF Taken
      <4>4. n \in Nat
        BY <3>1, <1>1
      <4> QED  BY <4>1, <4>2, <4>3, <4>4, <1>6 DEF Taken
    <3>4. \A i \in DOMAIN kernel' : kernel'[i] = Seen' + i
      <4> SUFFICES ASSUME NEW i \in 1 .. Len(kernel) + n
                   PROVE  kernel'[i] = Seen + i
        BY <3>2, <1>5
      <4>1. CASE i <= Len(kernel)
        <5>1. i \in DOMAIN kernel
          BY <4>1, <3>3, <3>1, <1>1
        <5> QED  BY <5>1, <2>1, <3>2, <3>3 DEF QueueEndToEnd
      <4>2. CASE ~(i <= Len(kernel))
        <5>1. i - Len(kernel) \in 1 .. n /\ Len(kernel) + (i - Len(kernel)) = i
          BY <4>2, <3>1, <3>3
        <5>2. kernel'[i] = Written + (i - Len(kernel))
          BY <5>1, <3>2
        <5> QED  BY <5>2, <3>3, <1>6 DEF Taken
      <4> QED  BY <4>1, <4>2
    <3>5. CASE n < size
      <4>1. Rest(f, n).lo = Written + n + 1 /\ Rest(f, n).hi = Written'
        <5>1. n \in 0 .. Size(f) /\ n \in Nat
          BY <3>1, <1>1
        <5>2. Rest(f, n).lo = f.lo + n /\ Rest(f, n).hi = f.hi
          BY <5>1, <1>1, RestIsChunk
        <5> QED  BY <5>1, <5>2, <1>1, <1>5
      <4>2. queue' = <<Rest(f, n)>>
        BY <3>1, <3>5
      <4> QED  BY <4>1, <4>2, <3>3, <3>4, <3>1, <1>1, <1>5 DEF QueueEndToEnd
    <3>6. CASE ~(n < size)
      BY <3>1, <3>3, <3>4, <3>6, <1>1, <1>5 DEF QueueEndToEnd
    <3> QED  BY <3>5, <3>6
  <2> QED  BY <2>2, <2>3
<1> QED  BY <1>7, <1>8, <1>9, <1>10 DEF StreamInv

\* One turn of the drain loop moves the front of the queue into the kernel.
LEMMA DrainKeeps ==
  ASSUME TypeOK, StreamInv, DrainWrite
  PROVE  StreamInv'
<1>1. UNCHANGED <<frames, state, buf, read>>
  BY DEF DrainWrite, reader
<1>2. /\ Written' = Written /\ ReadEnd' = ReadEnd /\ Seen' = Seen
      /\ FramesEndToEnd' /\ ReadIsPrefix' /\ BufferFollows'
  BY <1>1 DEF StreamInv, FramesEndToEnd, ReadIsPrefix, BufferFollows, Written, ReadEnd, Seen
<1>3. Written \in Nat /\ Seen \in Nat /\ Taken \in Nat
  BY Ends DEF StreamInv
<1>4. ASSUME state' = "open"
      PROVE  QueueEndToEnd'
  <2>1. QueueEndToEnd
    BY <1>1, <1>4 DEF StreamInv
  <2>2. CASE queue = <<>>
    <3>1. UNCHANGED <<queue, kernel>>
      BY <2>2 DEF DrainWrite
    <3> QED  BY <3>1, <2>1, <1>2 DEF QueueEndToEnd, Taken
  <2>3. CASE queue # <<>>
    <3>1. PICK n \in 0 .. Size(Head(queue)) :
            /\ Accepts(Head(queue), n)
            /\ IF n < Size(Head(queue))
               THEN queue' = [queue EXCEPT ![1] = Rest(@, n)]
               ELSE queue' = Tail(queue)
      BY <2>3, <1>1, <1>4 DEF DrainWrite
    <3> DEFINE c == Head(queue)
    <3>2. /\ queue \in Seq(Chunk) /\ Len(queue) \in Nat \ {0} /\ DOMAIN queue = 1 .. Len(queue)
          /\ c = queue[1] /\ c \in Chunk
      <4>1. queue \in Seq(Chunk)
        BY DEF TypeOK
      <4>2. Len(queue) \in Nat \ {0} /\ DOMAIN queue = 1 .. Len(queue)
        BY <4>1, <2>3, EmptySeq
      <4>3. Head(queue) = queue[1] /\ queue[1] \in Chunk
        BY <4>1, <4>2
      <4> QED  BY <4>1, <4>2, <4>3
    <3>3. c.lo = Taken + 1 /\ c.hi \in Nat /\ c.hi <= Written
      <4>1. 1 \in DOMAIN queue /\ queue[1].lo = Taken + 1 /\ queue[1].hi <= Written
        BY <2>1, <2>3, <3>2 DEF QueueEndToEnd
      <4>2. c.hi \in Nat
        BY <3>2 DEF Chunk
      <4> QED  BY <3>2, <4>1, <4>2
    <3> HIDE DEF c
    <3>4. n \in Nat /\ Size(c) = c.hi - Taken /\ n <= Size(c)
      BY <3>1, <3>2, <3>3, <1>3, RestIsChunk DEF Size, c
    <3>5. /\ kernel' \in Seq(Nat)
          /\ Len(kernel') = Len(kernel) + n
          /\ \A i \in 1 .. Len(kernel) : kernel'[i] = kernel[i]
          /\ \A i \in 1 .. n : kernel'[Len(kernel) + i] = c.lo + i - 1
      BY <3>1, <3>2, AcceptsType DEF c
    <3>6. Len(kernel) \in Nat /\ DOMAIN kernel = 1 .. Len(kernel)
      BY DEF TypeOK
    <3>7. Taken' = Taken + n
      <4>1. Taken' = Seen + (Len(kernel) + n)
        BY <3>5, <1>2 DEF Taken
      <4> QED  BY <4>1, <3>4, <3>6, <1>3 DEF Taken
    <3>8. \A i \in DOMAIN kernel' : kernel'[i] = Seen' + i
      <4> SUFFICES ASSUME NEW i \in 1 .. Len(kernel) + n
                   PROVE  kernel'[i] = Seen + i
        BY <3>5, <1>2
      <4>1. CASE i <= Len(kernel)
        <5>1. i \in DOMAIN kernel
          BY <4>1, <3>4, <3>6
        <5> QED  BY <5>1, <2>1, <3>5, <3>6 DEF QueueEndToEnd
      <4>2. CASE ~(i <= Len(kernel))
        <5>1. i - Len(kernel) \in 1 .. n /\ Len(kernel) + (i - Len(kernel)) = i
          BY <4>2, <3>4, <3>6
        <5>2. kernel'[i] = c.lo + (i - Len(kernel)) - 1
          BY <5>1, <3>5
        <5> QED  BY <5>2, <3>3, <3>4, <3>6, <1>3 DEF Taken
      <4> QED  BY <4>1, <4>2
    <3>9. CASE n < Size(c)
      <4>1. /\ queue' = [queue EXCEPT ![1] = Rest(c, n)]
            /\ Rest(c, n) \in Chunk
            /\ Rest(c, n).lo = c.lo + n /\ Rest(c, n).hi = c.hi
        BY <3>1, <3>2, <3>9, RestIsChunk DEF c
      <4>2. /\ Len(queue') = Len(queue) /\ DOMAIN queue' = DOMAIN queue
            /\ queue'[1] = Rest(c, n)
            /\ \A j \in DOMAIN queue : j # 1 => queue'[j] = queue[j]
        BY <4>1, <3>2
      <4>3. \A j \in DOMAIN queue : queue'[j].hi = queue[j].hi
        BY <4>1, <4>2, <3>2
      <4>4. queue' # <<>>
        BY <4>2, <3>2
      <4>5. queue'[1].lo = Taken' + 1
        BY <4>1, <4>2, <3>3, <3>4, <3>7, <1>3
      <4>6. queue'[Len(queue')].hi = Written'
        BY <4>2, <4>3, <2>1, <2>3, <3>2, <1>2 DEF QueueEndToEnd
      <4>7. \A i \in DOMAIN queue' : queue'[i].hi <= Written'
        BY <4>2, <4>3, <2>1, <1>2 DEF QueueEndToEnd
      <4>8. \A i, j \in DOMAIN queue' : j = i + 1 => queue'[j].lo = queue'[i].hi + 1
        <5> SUFFICES ASSUME NEW i \in DOMAIN queue', NEW j \in DOMAIN queue', j = i + 1
                     PROVE  queue'[j].lo = queue'[i].hi + 1
          OBVIOUS
        <5>1. j # 1 /\ i \in DOMAIN queue /\ j \in DOMAIN queue
          BY <4>2, <3>2
        <5> QED  BY <5>1, <4>2, <4>3, <2>1 DEF QueueEndToEnd
      <4> QED  BY <3>8, <4>4, <4>5, <4>6, <4>7, <4>8 DEF QueueEndToEnd
    <3>10. CASE ~(n < Size(c))
      <4>1. queue' = Tail(queue) /\ Taken' = c.hi
        BY <3>1, <3>3, <3>4, <3>7, <3>10, <1>3 DEF c
      <4>2. /\ Len(queue') = Len(queue) - 1 /\ DOMAIN queue' = 1 .. Len(queue) - 1
            /\ \A i \in DOMAIN queue' : queue'[i] = queue[i + 1] /\ i + 1 \in DOMAIN queue
        BY <4>1, <3>2, HeadTailProperties
      <4>3. CASE Len(queue) = 1
        <5>1. queue' = <<>>
          BY <4>1, <4>2, <4>3, <3>2, EmptySeq, HeadTailProperties
        <5>2. c.hi = Written
          BY <4>3, <2>1, <2>3, <3>2 DEF QueueEndToEnd
        <5> QED  BY <5>1, <5>2, <4>1, <3>8, <1>2 DEF QueueEndToEnd
      <4>4. CASE Len(queue) # 1
        <5>1. 1 \in DOMAIN queue' /\ Len(queue) - 1 \in DOMAIN queue' /\ queue' # <<>>
          BY <4>2, <4>4, <3>2
        <5>2. queue'[1].lo = Taken' + 1
          BY <5>1, <4>1, <4>2, <2>1, <3>2 DEF QueueEndToEnd
        <5>3. queue'[Len(queue')].hi = Written'
          <6>1. queue'[Len(queue')] = queue[Len(queue) - 1 + 1]
            BY <5>1, <4>2
          <6>2. Len(queue) - 1 + 1 = Len(queue)
            BY <3>2
          <6> QED  BY <6>1, <6>2, <2>1, <2>3, <1>2 DEF QueueEndToEnd
        <5>4. \A i \in DOMAIN queue' : queue'[i].hi <= Written'
          BY <4>2, <2>1, <1>2 DEF QueueEndToEnd
        <5>5. \A i, j \in DOMAIN queue' : j = i + 1 => queue'[j].lo = queue'[i].hi + 1
          <6> SUFFICES ASSUME NEW i \in DOMAIN queue', NEW j \in DOMAIN queue', j = i + 1
                       PROVE  queue'[j].lo = queue'[i].hi + 1
            OBVIOUS
          <6>1. /\ queue'[i] = queue[i + 1] /\ i + 1 \in DOMAIN queue
                /\ queue'[j] = queue[j + 1] /\ j + 1 \in DOMAIN queue
            BY <4>2
          <6>2. j + 1 = (i + 1) + 1
            OBVIOUS
          <6> QED  BY <6>1, <6>2, <2>1 DEF QueueEndToEnd
        <5> QED  BY <3>8, <5>1, <5>2, <5>3, <5>4, <5>5 DEF QueueEndToEnd
      <4> QED  BY <4>3, <4>4
    <3> QED  BY <3>9, <3>10
  <2> QED  BY <2>2, <2>3
<1> QED  BY <1>2, <1>4 DEF StreamInv

\* Bytes that arrive go from the front of the kernel to the end of the buffer.
LEMMA DataKeeps ==
  ASSUME TypeOK, StreamInv, Data
  PROVE  StreamInv'
<1>1. /\ state = "open" /\ UNCHANGED <<frames, queue, state, read>>
  BY DEF Data, writer
<1>2. PICK n \in 1 .. Len(kernel) :
        /\ buf' = buf \o SubSeq(kernel, 1, n)
        /\ kernel' = SubSeq(kernel, n + 1, Len(kernel))
  BY DEF Data
<1>3. /\ kernel \in Seq(Nat) /\ buf \in Seq(Nat)
      /\ Len(kernel) \in Nat /\ Len(buf) \in Nat /\ n \in Nat /\ n \in 0 .. Len(kernel)
      /\ DOMAIN kernel = 1 .. Len(kernel) /\ DOMAIN buf = 1 .. Len(buf)
  BY <1>2 DEF TypeOK
<1>4. /\ Written \in Nat /\ ReadEnd \in Nat /\ Seen \in Nat /\ Taken \in Nat
  BY Ends DEF StreamInv
<1>5. QueueEndToEnd /\ BufferFollows
  BY <1>1 DEF StreamInv
<1>6. /\ DOMAIN kernel' = 1 .. Len(kernel) - n /\ Len(kernel') = Len(kernel) - n
      /\ \A i \in 1 .. Len(kernel) - n : kernel'[i] = kernel[n + i]
  <2>1. /\ kernel' \in Seq(Nat) /\ Len(kernel') = Len(kernel) - n
        /\ \A i \in 1 .. Len(kernel) - n : kernel'[i] = kernel[n + i]
    BY <1>2, <1>3, Split
  <2> QED  BY <2>1
<1>7. /\ DOMAIN buf' = 1 .. Len(buf) + n /\ Len(buf') = Len(buf) + n
      /\ \A i \in 1 .. Len(buf) + n :
           buf'[i] = IF i <= Len(buf) THEN buf[i] ELSE kernel[i - Len(buf)]
  <2> DEFINE first == SubSeq(kernel, 1, n)
  <2>1. /\ first \in Seq(Nat) /\ Len(first) = n
        /\ \A i \in 1 .. n : first[i] = kernel[i]
    BY <1>3, Split
  <2> HIDE DEF first
  <2>2. /\ buf \o first \in Seq(Nat)
        /\ Len(buf \o first) = Len(buf) + Len(first)
        /\ \A i \in 1 .. Len(buf) + Len(first) :
             (buf \o first)[i] = IF i <= Len(buf) THEN buf[i] ELSE first[i - Len(buf)]
    BY <1>3, <2>1, ConcatProperties
  <2>3. buf' = buf \o first
    BY <1>2 DEF first
  <2>4. \A i \in 1 .. Len(buf) + n : ~(i <= Len(buf)) => i - Len(buf) \in 1 .. n
    BY <1>3
  <2>5. /\ buf' \in Seq(Nat) /\ Len(buf') = Len(buf) + n
        /\ \A i \in 1 .. Len(buf) + n :
             buf'[i] = IF i <= Len(buf) THEN buf[i] ELSE kernel[i - Len(buf)]
    <3>1. buf' \in Seq(Nat) /\ Len(buf') = Len(buf) + n
      BY <2>1, <2>2, <2>3
    <3>2. ASSUME NEW i \in 1 .. Len(buf) + n
          PROVE  buf'[i] = IF i <= Len(buf) THEN buf[i] ELSE kernel[i - Len(buf)]
      <4>1. buf'[i] = IF i <= Len(buf) THEN buf[i] ELSE first[i - Len(buf)]
        BY <2>1, <2>2, <2>3
      <4>2. ~(i <= Len(buf)) => first[i - Len(buf)] = kernel[i - Len(buf)]
        BY <2>1, <2>4
      <4> QED  BY <4>1, <4>2
    <3> QED  BY <3>1, <3>2
  <2> QED  BY <2>5
<1>8. Written' = Written /\ ReadEnd' = ReadEnd /\ Seen' = Seen + n /\ Taken' = Taken
  <2>1. Written' = Written /\ ReadEnd' = ReadEnd
    BY <1>1 DEF Written, ReadEnd
  <2>2. Seen' = ReadEnd + (Len(buf) + n)
    BY <2>1, <1>7 DEF Seen
  <2>3. Seen' = Seen + n
    BY <2>2, <1>3, <1>4 DEF Seen
  <2>4. Taken' = (Seen + n) + (Len(kernel) - n)
    BY <2>3, <1>6 DEF Taken
  <2>5. Taken' = Taken
    BY <2>4, <1>3, <1>4 DEF Taken
  <2> QED  BY <2>1, <2>3, <2>5
<1>9. FramesEndToEnd' /\ ReadIsPrefix'
  BY <1>1 DEF StreamInv, FramesEndToEnd, ReadIsPrefix
<1>10. BufferFollows'
  <2>1. ASSUME NEW i \in DOMAIN buf'
        PROVE  buf'[i] = ReadEnd' + i
    <3>1. CASE i <= Len(buf)
      <4>1. i \in DOMAIN buf
        BY <3>1, <1>3, <1>7
      <4> QED  BY <4>1, <3>1, <1>5, <1>7, <1>8 DEF BufferFollows
    <3>2. CASE ~(i <= Len(buf))
      <4>1. i - Len(buf) \in DOMAIN kernel
        BY <3>2, <1>3, <1>7
      <4>2. kernel[i - Len(buf)] = Seen + (i - Len(buf))
        BY <4>1, <1>5 DEF QueueEndToEnd
      <4>3. i \in Nat /\ Len(buf) \in Nat /\ ReadEnd \in Nat
        BY <1>3, <1>4, <1>7
      <4>4. kernel[i - Len(buf)] = ReadEnd + i
        BY <4>2, <4>3 DEF Seen
      <4>5. buf'[i] = kernel[i - Len(buf)]
        BY <3>2, <1>7
      <4> QED  BY <4>4, <4>5, <1>8
    <3> QED  BY <3>1, <3>2
  <2>2. Taken <= Written
    <3>1. CASE queue = <<>>
      BY <3>1, <1>4, <1>5 DEF QueueEndToEnd
    <3>2. CASE queue # <<>>
      <4>1. 1 \in DOMAIN queue /\ queue[1] \in Chunk
        BY <3>2, EmptySeq DEF TypeOK
      <4> QED  BY <4>1, <3>2, <1>4, <1>5 DEF QueueEndToEnd, Chunk
    <3> QED  BY <3>1, <3>2
  <2>3. Seen + n <= Taken
    BY <1>3, <1>4 DEF Taken
  <2> QED  BY <2>1, <2>2, <2>3, <1>3, <1>4, <1>8 DEF BufferFollows
<1>11. QueueEndToEnd'
  <2>1. ASSUME NEW i \in DOMAIN kernel'
        PROVE  kernel'[i] = Seen' + i
    <3>1. n + i \in DOMAIN kernel /\ i \in Nat
      BY <1>3, <1>6
    <3>2. kernel[n + i] = Seen + (n + i)
      BY <3>1, <1>5 DEF QueueEndToEnd
    <3> QED  BY <3>1, <3>2, <1>3, <1>4, <1>6, <1>8
  <2> QED  BY <2>1, <1>1, <1>5, <1>8 DEF QueueEndToEnd
<1> QED  BY <1>9, <1>10, <1>11 DEF StreamInv

\* The frame whose header leads the buffer is the one after the last frame read,
\* and the bytes behind the header are its own.
LEMMA HeadedIsNext ==
  ASSUME TypeOK, StreamInv, NEW i \in DOMAIN frames, Headed(frames[i])
  PROVE  /\ i = Len(read) + 1
         /\ frames[i].lo = ReadEnd + 1
         /\ Size(frames[i]) <= Len(buf) => TakenFrom(frames[i]) = frames[i]
<1> DEFINE f == frames[i]
<1>1. /\ f \in Chunk /\ f.lo \in Nat /\ Size(f) \in Nat
      /\ HEADER \in Nat \ {0} /\ Len(buf) \in Nat /\ ReadEnd \in Nat
      /\ buf \in Seq(Nat) /\ DOMAIN buf = 1 .. Len(buf)
  BY Ends, StreamAssumption DEF StreamInv, TypeOK, Chunk, Size
<1>2. \A j \in DOMAIN buf : buf[j] = ReadEnd + j
  BY DEF StreamInv, BufferFollows
<1>3. f.lo = ReadEnd + 1
  <2>1. HEADER \in 0 .. Len(buf) /\ 1 \in 1 .. HEADER
    BY <1>1 DEF Headed
  <2>2. SubSeq(buf, 1, HEADER)[1] = buf[1]
    BY <1>1, <2>1, Split
  <2>3. Run(f.lo, HEADER)[1] = f.lo + 1 - 1
    BY <1>1, <2>1, RunIs
  <2>4. buf[1] = ReadEnd + 1
    BY <1>1, <1>2, <2>1
  <2> QED  BY <1>1, <2>2, <2>3, <2>4 DEF Headed
<1>4. i = Len(read) + 1
  BY <1>3, Ends DEF StreamInv
<1>5. ASSUME Size(f) <= Len(buf)
      PROVE  TakenFrom(f) = f
  <2>1. /\ SubSeq(buf, 1, Size(f)) \in Seq(Nat) /\ Len(SubSeq(buf, 1, Size(f))) = Size(f)
        /\ \A j \in 1 .. Size(f) : SubSeq(buf, 1, Size(f))[j] = buf[j]
    <3>1. Size(f) \in 0 .. Len(buf)
      BY <1>1, <1>5
    <3> QED  BY <3>1, <1>1, Split
  <2>2. /\ Run(f.lo, Size(f)) \in Seq(Nat) /\ Len(Run(f.lo, Size(f))) = Size(f)
        /\ \A j \in 1 .. Size(f) : Run(f.lo, Size(f))[j] = f.lo + j - 1
    BY <1>1, RunIs
  <2>3. \A j \in 1 .. Size(f) : buf[j] = f.lo + j - 1
    BY <1>1, <1>2, <1>3, <1>5
  <2>4. SubSeq(buf, 1, Size(f)) = Run(f.lo, Size(f))
    <3> DEFINE a == SubSeq(buf, 1, Size(f))
               b == Run(f.lo, Size(f))
    <3>1. a \in Seq(Nat) /\ b \in Seq(Nat) /\ Len(a) = Len(b)
      BY <2>1, <2>2
    <3>2. \A j \in 1 .. Len(a) : a[j] = b[j]
      BY <2>1, <2>2, <2>3
    <3> HIDE DEF a, b
    <3>3. a = b
      BY <3>1, <3>2, SeqEqual
    <3> QED  BY <3>3 DEF a, b
  <2> QED  BY <2>4 DEF TakenFrom
<1> QED  BY <1>3, <1>4, <1>5

\* A buffer that holds a whole header holds the header of a frame.
LEMMA HeaderIsAFrames ==
  ASSUME TypeOK, StreamInv, Len(buf) >= HEADER
  PROVE  \E i \in DOMAIN frames : Headed(frames[i])
<1>1. /\ HEADER \in Nat \ {0} /\ Len(buf) \in Nat /\ ReadEnd \in Nat /\ Written \in Nat
      /\ buf \in Seq(Nat) /\ DOMAIN buf = 1 .. Len(buf)
  BY Ends, StreamAssumption DEF StreamInv, TypeOK
<1>2. ReadEnd + Len(buf) <= Written /\ \A j \in DOMAIN buf : buf[j] = ReadEnd + j
  BY DEF StreamInv, BufferFollows, Seen
<1>3. ReadEnd < Written
  BY <1>1, <1>2
<1> DEFINE k == Len(read) + 1
<1>4. k \in DOMAIN frames /\ frames[k].lo = ReadEnd + 1
  BY <1>3, Ends DEF StreamInv
<1>5. SubSeq(buf, 1, HEADER) = Run(frames[k].lo, HEADER)
  <2> DEFINE a == SubSeq(buf, 1, HEADER)
             b == Run(frames[k].lo, HEADER)
  <2>1. HEADER \in 0 .. Len(buf) /\ frames[k].lo \in Nat
    BY <1>1, <1>4
  <2>2. /\ a \in Seq(Nat) /\ Len(a) = HEADER
        /\ \A j \in 1 .. HEADER : a[j] = buf[j]
    BY <1>1, <2>1, Split
  <2>3. /\ b \in Seq(Nat) /\ Len(b) = HEADER
        /\ \A j \in 1 .. HEADER : b[j] = frames[k].lo + j - 1
    BY <1>1, <2>1, RunIs
  <2>4. \A j \in 1 .. HEADER : buf[j] = frames[k].lo + j - 1
    <3> SUFFICES ASSUME NEW j \in 1 .. HEADER
                 PROVE  buf[j] = frames[k].lo + j - 1
      OBVIOUS
    <3>1. j \in DOMAIN buf /\ j \in Nat
      BY <1>1, <2>1
    <3>2. buf[j] = ReadEnd + j
      BY <3>1, <1>2
    <3> QED  BY <3>1, <3>2, <1>1, <1>4
  <2>5. \A j \in 1 .. Len(a) : a[j] = b[j]
    BY <2>2, <2>3, <2>4
  <2> HIDE DEF a, b
  <2>6. a = b
    BY <2>2, <2>3, <2>5, SeqEqual
  <2> QED  BY <2>6 DEF a, b
<1> QED  BY <1>4, <1>5 DEF Headed

\* With no frame over the limit, parsing takes the next frame and nothing else.
LEMMA ParseTakesNext ==
  ASSUME TypeOK, StreamInv, WithinLimit, Parse
  PROVE  /\ Len(read) + 1 \in DOMAIN frames
         /\ TakeFrame(frames[Len(read) + 1])
         /\ read' = Append(read, frames[Len(read) + 1])
         /\ frames[Len(read) + 1].lo = ReadEnd + 1
<1>1. ASSUME NEW i \in DOMAIN frames, TakeFrame(frames[i])
      PROVE  /\ i = Len(read) + 1 /\ read' = Append(read, frames[i])
             /\ frames[i].lo = ReadEnd + 1
  <2>1. Headed(frames[i]) /\ Size(frames[i]) <= Len(buf)
    BY <1>1, Ends DEF TakeFrame, StreamInv, TypeOK, Chunk, Size
  <2> QED  BY <1>1, <2>1, HeadedIsNext DEF TakeFrame
<1>2. ASSUME NEW i \in DOMAIN frames, RefuseFrame(frames[i])
      PROVE  FALSE
  <2>1. Size(frames[i]) \in FrameSizes /\ Size(frames[i]) \in Nat
    BY StreamAssumption DEF StreamInv, FramesEndToEnd
  <2> QED  BY <1>2, <2>1, StreamAssumption DEF RefuseFrame, WithinLimit
<1>3. ~Misread
  BY HeaderIsAFrames DEF Misread
<1> QED  BY <1>1, <1>2, <1>3 DEF Parse

\* Taking it moves the reader's end from one frame boundary to the next.
LEMMA ParseKeeps ==
  ASSUME TypeOK, StreamInv, WithinLimit, Parse
  PROVE  StreamInv'
<1> DEFINE k == Len(read) + 1
           f == frames[k]
<1>1. /\ k \in DOMAIN frames /\ TakeFrame(f) /\ read' = Append(read, f)
      /\ f.lo = ReadEnd + 1
  BY ParseTakesNext
<1>2. UNCHANGED <<frames, queue, state, kernel>>
  BY DEF Parse, writer
<1>3. /\ f \in Chunk /\ f.lo \in Nat /\ f.hi \in Nat /\ Size(f) = f.hi - ReadEnd
      /\ ReadEnd \in Nat /\ Size(f) \in Nat /\ f.lo <= f.hi
  <2>1. f \in Chunk /\ ReadEnd \in Nat
    BY <1>1, Ends DEF StreamInv
  <2> QED  BY <2>1, <1>1 DEF Chunk, Size
<1>4. /\ buf \in Seq(Nat) /\ Len(buf) \in Nat /\ DOMAIN buf = 1 .. Len(buf)
      /\ Len(read) \in Nat /\ DOMAIN read = 1 .. Len(read)
      /\ Len(frames) \in Nat /\ DOMAIN frames = 1 .. Len(frames)
  BY DEF TypeOK
<1>5. Size(f) \in 0 .. Len(buf) /\ buf' = SubSeq(buf, Size(f) + 1, Len(buf))
  BY <1>1, <1>3, <1>4 DEF TakeFrame, BehindBy
<1> HIDE DEF f
<1>6. /\ Len(buf') = Len(buf) - Size(f) /\ DOMAIN buf' = 1 .. Len(buf) - Size(f)
      /\ \A j \in 1 .. Len(buf) - Size(f) : buf'[j] = buf[Size(f) + j]
  <2>1. /\ buf' \in Seq(Nat) /\ Len(buf') = Len(buf) - Size(f)
        /\ \A j \in 1 .. Len(buf) - Size(f) : buf'[j] = buf[Size(f) + j]
    BY <1>4, <1>5, Split
  <2> QED  BY <2>1
<1>7. /\ Len(read') = Len(read) + 1 /\ DOMAIN read' = 1 .. Len(read) + 1
      /\ \A j \in DOMAIN read : read'[j] = read[j]
      /\ read'[k] = f /\ read' # <<>>
  <2>1. read \in Seq(Chunk \cup {Garbled}) /\ f \in Chunk \cup {Garbled}
    BY <1>3 DEF TypeOK
  <2> QED  BY <2>1, <1>1, <1>4
<1>8. /\ Written' = Written /\ ReadEnd' = f.hi /\ Seen' = Seen /\ Taken' = Taken
  <2>1. Written' = Written
    BY <1>2 DEF Written
  <2>2. ReadEnd' = f.hi
    BY <1>7 DEF ReadEnd
  <2>3. Seen' = f.hi + (Len(buf) - Size(f))
    BY <2>2, <1>6 DEF Seen
  <2>4. Seen' = Seen
    BY <2>3, <1>3, <1>4 DEF Seen
  <2>5. Taken' = Taken
    BY <2>4, <1>2 DEF Taken
  <2> QED  BY <2>1, <2>2, <2>4, <2>5
<1>9. FramesEndToEnd'
  BY <1>2 DEF StreamInv, FramesEndToEnd
<1>10. ReadIsPrefix'
  <2>1. Len(read') <= Len(frames)
    BY <1>1, <1>4, <1>7
  <2>2. ASSUME NEW j \in DOMAIN read'
        PROVE  read'[j] = frames[j]
    <3>1. CASE j = k
      BY <3>1, <1>7 DEF f
    <3>2. CASE j # k
      <4>1. j \in DOMAIN read
        BY <3>2, <1>4, <1>7
      <4> QED  BY <4>1, <1>7 DEF StreamInv, ReadIsPrefix
    <3> QED  BY <3>1, <3>2
  <2> QED  BY <2>1, <2>2, <1>2 DEF ReadIsPrefix
<1>11. BufferFollows'
  <2>1. ASSUME NEW j \in DOMAIN buf'
        PROVE  buf'[j] = ReadEnd' + j
    <3>1. Size(f) + j \in DOMAIN buf /\ j \in Nat
      <4>1. j \in 1 .. Len(buf) - Size(f)
        BY <1>6
      <4>2. Size(f) \in Nat /\ Len(buf) \in Nat
        BY <1>3, <1>4
      <4>3. Size(f) + j \in 1 .. Len(buf) /\ j \in Nat
        BY ONLY <4>1, <4>2
      <4> QED  BY <4>3, <1>4
    <3>2. buf[Size(f) + j] = ReadEnd + (Size(f) + j)
      BY <3>1 DEF StreamInv, BufferFollows
    <3> QED  BY <3>1, <3>2, <1>3, <1>6, <1>8
  <2>2. Seen' <= Written'
    BY <1>8 DEF StreamInv, BufferFollows
  <2> QED  BY <2>1, <2>2 DEF BufferFollows
<1>12. state' = "open" => QueueEndToEnd'
  BY <1>2, <1>8 DEF StreamInv, QueueEndToEnd
<1> QED  BY <1>9, <1>10, <1>11, <1>12 DEF StreamInv

-----------------------------------------------------------------------------
(* The theorems *)

\* What Next may be, with the invariant kept by each.
LEMMA StepKeeps ==
  ASSUME TypeOK, StreamInv, WithinLimit, [Next]_vars
  PROVE  StreamInv'
<1>1. ASSUME DrainEvent
      PROVE  StreamInv'
  <2>1. UNCHANGED <<frames, queue, state, kernel, buf, read>>
    BY <1>1 DEF DrainEvent, reader
  <2> QED  BY <2>1 DEF StreamInv, FramesEndToEnd, ReadIsPrefix, BufferFollows, QueueEndToEnd,
                       Written, ReadEnd, Seen, Taken
<1>2. ASSUME Die \/ Close
      PROVE  StreamInv'
  <2>1. UNCHANGED <<frames, buf, read>> /\ state' # "open"
    BY <1>2 DEF Die, Close, reader
  <2> QED  BY <2>1 DEF StreamInv, FramesEndToEnd, ReadIsPrefix, BufferFollows,
                       Written, ReadEnd, Seen
<1>3. CASE UNCHANGED vars
  <2>1. UNCHANGED <<frames, queue, state, kernel, buf, read>>
    BY <1>3 DEF vars, writer, reader
  <2> QED  BY <2>1 DEF StreamInv, FramesEndToEnd, ReadIsPrefix, BufferFollows, QueueEndToEnd,
                       Written, ReadEnd, Seen, Taken
<1> QED  BY <1>1, <1>2, <1>3, WriteKeeps, DrainKeeps, DataKeeps, ParseKeeps DEF Next

\* The invariant holds at the start.
LEMMA InitiallySound ==
  ASSUME Init
  PROVE  StreamInv
<1>1. Written = 0 /\ ReadEnd = 0 /\ Seen = 0 /\ Taken = 0
  BY DEF Init, Written, ReadEnd, Seen, Taken
<1>2. FramesEndToEnd /\ ReadIsPrefix
  BY DEF Init, FramesEndToEnd, ReadIsPrefix
<1>3. BufferFollows /\ QueueEndToEnd
  BY <1>1 DEF Init, BufferFollows, QueueEndToEnd
<1> QED  BY <1>2, <1>3 DEF StreamInv

\* What is written stays written: a frame over the limit is there for good.
LEMMA LimitWas ==
  ASSUME TypeOK, [Next]_vars, WithinLimit'
  PROVE  WithinLimit
<1>1. ASSUME NEW size \in FrameSizes, SocketWriteAll(size)
      PROVE  WithinLimit
  <2> DEFINE f == [lo |-> Written + 1, hi |-> Written + size]
  <2>1. f \in Chunk
    BY NextFrame
  <2>2. frames \in Seq(Chunk) /\ frames' = Append(frames, f)
    BY <1>1 DEF SocketWriteAll, TypeOK
  <2> HIDE DEF f
  <2>3. \A i \in DOMAIN frames : i \in DOMAIN frames' /\ frames'[i] = frames[i]
    BY <2>1, <2>2
  <2> QED  BY <2>3 DEF WithinLimit
<1>2. ASSUME DrainEvent \/ DrainWrite \/ Die \/ Close \/ Data \/ Parse \/ UNCHANGED vars
      PROVE  WithinLimit
  <2>1. frames' = frames
    BY <1>2 DEF DrainEvent, DrainWrite, Die, Close, Data, Parse, vars, writer
  <2> QED  BY <2>1 DEF WithinLimit
<1> QED  BY <1>1, <1>2 DEF Next

\* The invariant holds as long as no frame is over the reader's limit.
LEMMA Invariant == Spec => [](WithinLimit => StreamInv)
<1>1. Init => StreamInv
  BY InitiallySound
<1>2. TypeOK /\ (WithinLimit => StreamInv) /\ [Next]_vars => (WithinLimit => StreamInv)'
  BY StepKeeps, LimitWas
<1> QED  BY <1>1, <1>2, TypeCorrect, PTL DEF Spec

\* A short write loses, repeats and reorders no byte: what the reader buffers, the
\* kernel holds and socketWriteAll has queued continue the last frame read.
THEOREM StreamLosesNothing == Spec => []NothingLost
<1>1. TypeOK /\ (WithinLimit => StreamInv) => NothingLost
  <2> SUFFICES ASSUME TypeOK, StreamInv, state = "open"
               PROVE  Contiguous
    BY DEF NothingLost
  <2>1. \A i \in 1 .. Len(queue) - 1 : queue[i + 1].lo = queue[i].hi + 1
    <3>1. \A i \in 1 .. Len(queue) - 1 : i \in DOMAIN queue /\ i + 1 \in DOMAIN queue
      BY DEF TypeOK
    <3> QED  BY <3>1 DEF StreamInv, QueueEndToEnd
  <2> QED  BY <2>1 DEF StreamInv, BufferFollows, QueueEndToEnd, Contiguous
<1> QED  BY <1>1, TypeCorrect, Invariant, PTL

\* Bytes never wait in the queue of an open socket for a drain event that is not due.
THEOREM QueueArmed == Spec => []QueuedIsArmed
<1>1. Init => QueuedIsArmed
  BY DEF Init, QueuedIsArmed
<1>2. TypeOK /\ QueuedIsArmed /\ [Next]_vars => QueuedIsArmed'
  <2> SUFFICES ASSUME TypeOK, QueuedIsArmed, [Next]_vars
               PROVE  QueuedIsArmed'
    OBVIOUS
  <2>1. ASSUME NEW size \in FrameSizes, SocketWriteAll(size)
        PROVE  QueuedIsArmed'
    <3>1. CASE queue # <<>>
      BY <2>1, <3>1 DEF SocketWriteAll, QueuedIsArmed
    <3>2. CASE queue = <<>>
      <4>1. PICK n \in 0 .. size :
              /\ queue' = IF n < size
                           THEN <<Rest([lo |-> Written + 1, hi |-> Written + size], n)>>
                           ELSE <<>>
              /\ blocked' = (n < size)
        BY <2>1, <3>2 DEF SocketWriteAll
      <4>2. CASE n < size
        BY <4>1, <4>2 DEF QueuedIsArmed
      <4>3. CASE ~(n < size)
        BY <4>1, <4>3 DEF QueuedIsArmed
      <4> QED  BY <4>2, <4>3
    <3> QED  BY <3>1, <3>2
  <2>2. ASSUME DrainWrite
        PROVE  QueuedIsArmed'
    BY <2>2 DEF DrainWrite, QueuedIsArmed
  <2>3. ASSUME DrainEvent \/ Die \/ Close \/ Data \/ Parse \/ UNCHANGED vars
        PROVE  QueuedIsArmed'
    BY <2>3 DEF DrainEvent, Die, Close, Data, Parse, vars, writer, reader, QueuedIsArmed
  <2> QED  BY <2>1, <2>2, <2>3 DEF Next
<1> QED  BY <1>1, <1>2, TypeCorrect, PTL DEF Spec

\* Until a frame over the limit is written, every frame the reader takes is whole, in
\* order and taken once.
THEOREM WholeInOrder == Spec => [](WithinLimit => ReadWholeInOrder)
<1>1. TypeOK /\ StreamInv => ReadWholeInOrder
  <2> SUFFICES ASSUME TypeOK, StreamInv
               PROVE  ReadWholeInOrder
    OBVIOUS
  <2>1. \A i \in DOMAIN read : i \in DOMAIN frames /\ read[i] = frames[i]
    <3>1. /\ DOMAIN read = 1 .. Len(read) /\ DOMAIN frames = 1 .. Len(frames)
          /\ Len(read) \in Nat /\ Len(frames) \in Nat
      BY DEF TypeOK
    <3> QED  BY <3>1 DEF StreamInv, ReadIsPrefix
  <2> QED  BY <2>1 DEF ReadWholeInOrder, StreamInv, FramesEndToEnd
<1> QED  BY <1>1, TypeCorrect, Invariant, PTL

\* No byte of a frame is lost and none waits for ever.
THEOREM StreamHolds == Spec => []StreamSound
BY StreamLosesNothing, QueueArmed, PTL DEF StreamSound

\* With no frame over the reader's limit the stream is a FIFO of whole frames:
\* socketWriteAll sends, the reader's loop receives, and all else stutters.
THEOREM Refinement ==
  ASSUME \A n \in FrameSizes : n <= FRAME_MAX
  PROVE  Spec => ImplementsChannel
<1>1. Init => Channel!Init
  BY DEF Init, Channel!Init
<1>2. StreamInv => WithinLimit
  BY DEF StreamInv, FramesEndToEnd, WithinLimit
<1>3. TypeOK /\ StreamInv /\ [Next]_vars => [Channel!Next]_<<frames, read>>
  <2> SUFFICES ASSUME TypeOK, StreamInv, WithinLimit, [Next]_vars
               PROVE  [Channel!Next]_<<frames, read>>
    BY <1>2
  <2>1. ASSUME NEW size \in FrameSizes, SocketWriteAll(size)
        PROVE  Channel!Send
    <3> DEFINE f == [lo |-> Written + 1, hi |-> Written + size]
    <3>1. f \in Chunk
      BY NextFrame
    <3>2. frames \in Seq(Chunk) /\ frames' = Append(frames, f) /\ read' = read
      BY <2>1 DEF SocketWriteAll, reader, TypeOK
    <3> HIDE DEF f
    <3>3. Len(frames') = Len(frames) + 1 /\ frames'[Len(frames')] = f
      BY <3>1, <3>2
    <3> QED  BY <3>1, <3>2, <3>3 DEF Channel!Send
  <2>2. ASSUME Parse
        PROVE  Channel!Receive
    <3>1. Len(read) + 1 \in DOMAIN frames /\ read' = Append(read, frames[Len(read) + 1])
      BY <2>2, ParseTakesNext
    <3>2. Len(read) \in Nat /\ DOMAIN frames = 1 .. Len(frames)
      BY DEF TypeOK
    <3> DEFINE j == Len(read) + 1
    <3>3. j \in 1 .. Len(frames) /\ 1 .. j - 1 = 1 .. Len(read)
      BY <3>1, <3>2
    <3>4. \A i \in 1 .. Len(read) : read[i] = frames[i]
      BY DEF StreamInv, ReadIsPrefix
    <3>5. frames[j] \in {c \in Chunk : Size(c) <= FRAME_MAX}
      BY <3>1 DEF TypeOK, WithinLimit
    <3>6. Channel!AfterItsTurn(j) /\ Channel!BehindAll(j)
      BY <3>2, <3>3, <3>4 DEF Channel!AfterItsTurn, Channel!BehindAll
    <3>7. read' = Append(read, frames[j]) /\ frames' = frames
      BY <3>1, <2>2 DEF Parse, writer
    <3> HIDE DEF j
    <3> QED  BY <3>3, <3>5, <3>6, <3>7 DEF Channel!Receive
  <2>3. ASSUME DrainEvent \/ DrainWrite \/ Die \/ Close \/ Data \/ UNCHANGED vars
        PROVE  UNCHANGED <<frames, read>>
    BY <2>3 DEF DrainEvent, DrainWrite, Die, Close, Data, vars, writer, reader
  <2> QED  BY <2>1, <2>2, <2>3 DEF Next, Channel!Next
<1>4. Spec => []StreamInv
  <2>1. Init => StreamInv
    BY InitiallySound
  <2>2. TypeOK /\ StreamInv /\ [Next]_vars => StreamInv'
    BY <1>2, StepKeeps
  <2> QED  BY <2>1, <2>2, TypeCorrect, PTL DEF Spec
<1> QED  BY <1>1, <1>3, <1>4, TypeCorrect, PTL DEF Spec, ImplementsChannel, Channel!Spec
=============================================================================
