--------------------------- MODULE RequestService ---------------------------
(***************************************************************************)
(* What the daemon promises a requester: a request that entered is         *)
(* answered at most once and, while the daemon runs, eventually.  How the  *)
(* answer comes about (a browser, a timer, a refusal) is not its business. *)
(***************************************************************************)
EXTENDS Sequences

CONSTANTS Requests, Outcomes

VARIABLES up, entered, answers

svars == <<up, entered, answers>>

Init ==
  /\ up = TRUE
  /\ entered = {}
  /\ answers = [r \in Requests |-> <<>>]

\* A request is taken in, or refused at the door.
Enter(r) ==
  /\ up /\ r \notin entered
  /\ entered' = entered \cup {r}
  /\ \/ UNCHANGED answers
     \/ answers' = [answers EXCEPT ![r] = <<"error">>]
  /\ UNCHANGED up

Answer(r) ==
  /\ up /\ r \in entered /\ answers[r] = <<>>
  /\ \E o \in Outcomes : answers' = [answers EXCEPT ![r] = <<o>>]
  /\ UNCHANGED <<up, entered>>

\* The service stops; some of the requests still open hear of it.
Stop ==
  /\ up
  /\ up' = FALSE
  /\ \E S \in SUBSET {r \in entered : answers[r] = <<>>} :
       answers' = [r \in Requests |-> IF r \in S THEN <<"shutdown">> ELSE answers[r]]
  /\ UNCHANGED entered

Next == (\E r \in Requests : Enter(r) \/ Answer(r)) \/ Stop

Spec == Init /\ [][Next]_svars
=============================================================================
