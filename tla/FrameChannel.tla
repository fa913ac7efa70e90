----------------------------- MODULE FrameChannel -----------------------------
(***************************************************************************)
(* What a framed socket promises: a FIFO of frames that delivers each frame *)
(* whole, once and in order, until the connection ends. A frame the reader  *)
(* has no room for is not delivered, and what follows it may be lost too;   *)
(* even then no frame is delivered twice, in part or out of order.          *)
(***************************************************************************)
EXTENDS Naturals, Sequences

CONSTANTS
  Frame,        \* the frames a writer may send
  Fitting       \* the ones the reader has room for

VARIABLES
  sent,       \* frames the writer was told are on their way
  received    \* frames the reader has taken

Init == sent = <<>> /\ received = <<>>

Send == /\ Len(sent') = Len(sent) + 1
        /\ sent'[Len(sent')] \in Frame
        /\ sent' = Append(sent, sent'[Len(sent')])
        /\ UNCHANGED received

\* All that came before the first frame that does not fit has been received before j.
AfterItsTurn(j) ==
  \A i \in 1 .. j - 1 :
    (\A k \in 1 .. i : sent[k] \in Fitting) => i <= Len(received) /\ received[i] = sent[i]

\* Nothing that was received comes at j or after.
BehindAll(j) == \A i \in 1 .. Len(received) : \E k \in 1 .. j - 1 : received[i] = sent[k]

Receive == \E j \in 1 .. Len(sent) :
             /\ sent[j] \in Fitting
             /\ AfterItsTurn(j) /\ BehindAll(j)
             /\ received' = Append(received, sent[j])
             /\ UNCHANGED sent

Next == Send \/ Receive

Spec == Init /\ [][Next]_<<sent, received>>
=============================================================================
