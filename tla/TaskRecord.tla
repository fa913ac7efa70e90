------------------------------ MODULE TaskRecord ------------------------------
(***************************************************************************)
(* What a monitor task's commands make of its record, for one who sees the *)
(* metadata and the numbers of the events and no process, lock or draft: a *)
(* change is made at once, from the record as it is.                       *)
(***************************************************************************)
EXTENDS Naturals, Sequences

CONSTANTS Procs, None

VARIABLES meta, log

rvars == <<meta, log>>

Init ==
  /\ log = <<0>>
  /\ \E source \in {"none", "attached"} :
       meta = [status |-> "active", ended |-> None, checkpoint |-> [rev |-> 0, by |-> None],
               verification |-> None, member |-> source, copied |-> FALSE]

\* Events are numbered without a gap.
Event == log' = Append(log, Len(log)) /\ UNCHANGED meta

Makes(m) == meta' = m /\ UNCHANGED log

\* One revision follows the other, and takes back the verdict and the task's end.
Checkpoint(p) ==
  Makes([meta EXCEPT !.status = "active", !.ended = None, !.verification = None,
                     !.checkpoint = [rev |-> meta.checkpoint.rev + 1, by |-> p]])

\* A verdict is on the checkpoint there is; one that is to complete the task finds it
\* active, and completes it if it is passed.
Verify(passed) ==
  /\ meta.checkpoint.rev > 0
  /\ Makes([meta EXCEPT !.verification = [of |-> meta.checkpoint, passed |-> passed]])

Complete(p, passed) ==
  /\ meta.checkpoint.rev > 0 /\ meta.status = "active"
  /\ Makes([meta EXCEPT !.verification = [of |-> meta.checkpoint, passed |-> passed],
                        !.status = IF passed THEN "completed" ELSE "active",
                        !.ended = IF passed THEN p ELSE None])

Stop(p) == Makes([meta EXCEPT !.status = "stopped", !.ended = p])

\* Only a task without a source is blocked by an attach that failed.
Block ==
  /\ meta.member = "none"
  /\ Makes([meta EXCEPT !.status = "blocked"])

Attach == Makes([meta EXCEPT !.member = "attached", !.copied = FALSE])

\* A detach and a snapshot write the source back as they read it earlier: it was
\* there, but whether attached or copied can be out of date.
Detach(copied) ==
  /\ meta.member # "none"
  /\ Makes([meta EXCEPT !.member = "detached", !.copied = copied])

Snapshot(member) ==
  /\ meta.member # "none"
  /\ Makes([meta EXCEPT !.member = member, !.copied = TRUE])

Next ==
  \/ Event \/ Block \/ Attach
  \/ \E p \in Procs : Checkpoint(p) \/ Stop(p) \/ \E passed \in BOOLEAN : Complete(p, passed)
  \/ \E b \in BOOLEAN : Verify(b) \/ Detach(b)
  \/ \E member \in {"attached", "detached"} : Snapshot(member)

Spec == Init /\ [][Next]_rvars
=============================================================================
