----------------------------- MODULE MonitorTasks -----------------------------
(***************************************************************************)
(* One monitor task on disk (shared/monitor-tasks.ts) and the command-line *)
(* processes that work on it: withTaskLock with the reclaim of the lock of *)
(* an owner that is gone, the metadata replaced under it, the event log,   *)
(* and the commands built from them, which read the metadata before they   *)
(* ask for the lock.                                                       *)
(*                                                                         *)
(* A process runs one command and ends. A step is what another process can *)
(* come between: a system call, or a read. The task has one source session.*)
(* A file is there at once, with what is written to it. rmSync takes a     *)
(* lock's files one by one in the order the directory lists them, which no *)
(* file system promises, and starts over when it finds one more.           *)
(***************************************************************************)
EXTENDS Naturals, Sequences

CONSTANTS
  Procs,        \* processes, each with one command to run
  Mortal,       \* the ones that may die
  Stamps,       \* what the clock shows when a lock is taken
  Commands,     \* the commands they may run
  None

ASSUME TasksAssumption ==
  /\ None \notin Procs /\ None \notin [pid : Procs, at : Stamps]
  /\ Mortal \subseteq Procs
  /\ Commands \subseteq {"checkpoint", "verify", "complete", "attach", "detach", "attachFailed",
                         "snapshot", "stop"}

VARIABLES
  meta,         \* the metadata file
  log,          \* the sequence numbers in the event file
  lock,         \* .mutation.lock: whether it exists, what its owner.json says, and
                \* whose .reclaim it holds
  dead,         \* processes that died
  pc,           \* where a process is
  todo,         \* the critical sections it has before it
  seen,         \* the metadata it read outside the lock
  passed,       \* whether its checks passed
  current,      \* the metadata it read inside
  nextSeq,      \* the sequence number it is about to append
  stale,        \* the owner it read in a lock it found, while it tries to reclaim it
  contested     \* auxiliary: two live processes have been reclaiming one owner's lock

disk  == <<meta, log, lock>>
work  == <<todo, seen, passed, current, nextSeq>>
vars  == <<disk, dead, pc, work, stale, contested>>

Statuses   == {"active", "blocked", "stopped", "completed"}
Checkpoint == [rev : Nat, by : Procs \cup {None}]
Verdict    == [of : Checkpoint, passed : BOOLEAN]
Meta == [status : Statuses, ended : Procs \cup {None}, checkpoint : Checkpoint,
         verification : Verdict \cup {None},
         member : {"none", "attached", "detached"}, copied : BOOLEAN]
Sections == {"checkpoint", "verify", "complete", "attach", "detach", "attachFailed", "snapshot",
             "stop", "event"}

\* createMonitorTask has run.
FreshMeta == [status |-> "active", ended |-> None, checkpoint |-> [rev |-> 0, by |-> None],
              verification |-> None, member |-> "none", copied |-> FALSE]
Owners == [pid : Procs, at : Stamps]
NoLock == [exists |-> FALSE, owner |-> None, claim |-> None]

Init ==
  /\ meta \in {FreshMeta, [FreshMeta EXCEPT !.member = "attached"]}
  /\ log = <<0>> /\ lock = NoLock /\ dead = {} /\ contested = FALSE
  /\ pc = [p \in Procs |-> "idle"]
  /\ todo = [p \in Procs |-> <<>>]
  /\ seen = [p \in Procs |-> FreshMeta] /\ passed = [p \in Procs |-> FALSE]
  /\ current = [p \in Procs |-> FreshMeta] /\ nextSeq = [p \in Procs |-> 0]
  /\ stale = [p \in Procs |-> None]

At(p, where)   == pc[p] = where /\ p \notin dead
Goes(p, where) == pc' = [pc EXCEPT ![p] = where]

\* A command that is refused keeps nothing of what it was to do.
Refused(p) ==
  /\ todo' = [todo EXCEPT ![p] = <<>>]
  /\ seen' = [seen EXCEPT ![p] = FreshMeta]
  /\ passed' = [passed EXCEPT ![p] = FALSE]
  /\ UNCHANGED <<current, nextSeq>>

Busy(p) == Goes(p, "busy") /\ Refused(p)

-----------------------------------------------------------------------------
(* Commands *)

\* The sections a command enters, in order.
SectionsOf(c) ==
  CASE c = "attach"       -> <<"event", "attach", "event">>
    [] c = "detach"       -> <<"detach", "event">>
    [] c = "attachFailed" -> <<"attachFailed", "event">>
    [] c = "stop"         -> <<"stop", "event", "snapshot">>
    [] OTHER              -> <<c>>

\* What a command asks of the metadata it reads first.
Startable(c, m) ==
  CASE c = "verify"   -> m.checkpoint.rev > 0
    [] c = "complete" -> m.checkpoint.rev > 0 /\ m.status = "active"
    [] c = "attach"   -> m.member # "attached"
    [] c = "detach"   -> m.member = "attached"
    [] OTHER          -> TRUE

\* What it uses of it later, inside the lock.
ReadsFirst == {"checkpoint", "verify", "complete", "detach", "snapshot"}

Start(p) ==
  /\ At(p, "idle")
  /\ \E c \in Commands :
       /\ Startable(c, meta)
       /\ todo' = [todo EXCEPT ![p] = SectionsOf(c)]
       /\ IF c \in ReadsFirst THEN seen' = [seen EXCEPT ![p] = meta] ELSE UNCHANGED seen
       /\ \E ok \in IF c \in {"verify", "complete"} THEN BOOLEAN ELSE {FALSE} :
            passed' = [passed EXCEPT ![p] = ok]
  /\ Goes(p, "mkdir")
  /\ UNCHANGED <<disk, dead, current, nextSeq, stale>>

\* The snapshot at the end of a stop reads the metadata it copies from only now.
Reread(p) ==
  /\ At(p, "reread")
  /\ seen' = [seen EXCEPT ![p] = meta]
  /\ Goes(p, "mkdir")
  /\ UNCHANGED <<disk, dead, todo, passed, current, nextSeq, stale>>

-----------------------------------------------------------------------------
(* withTaskLock *)

Mkdir(p) ==
  /\ At(p, "mkdir")
  /\ \/ /\ ~lock.exists
        /\ lock' = [NoLock EXCEPT !.exists = TRUE]
        /\ Goes(p, "own")
     \/ /\ lock.exists
        /\ Goes(p, "read owner")
        /\ UNCHANGED lock
  /\ UNCHANGED <<meta, log, dead, work, stale>>

\* reclaimDeadTaskLock: who owns the lock that is there by now?
ReadOwner(p) ==
  /\ At(p, "read owner")
  /\ \/ /\ lock.owner # None
        /\ stale' = [stale EXCEPT ![p] = lock.owner]
        /\ Goes(p, "kill")
        /\ UNCHANGED work
     \/ /\ lock.owner = None
        /\ Busy(p)
        /\ UNCHANGED stale
  /\ UNCHANGED <<disk, dead>>

\* A process that died is gone, and one whose command has ended may be.
Gone(p) == p \in dead \/ pc[p] \in {"busy", "done"}

KillReclaimsLiveFaulty(p) ==
  /\ At(p, "kill")
  /\ Goes(p, "claim")
  /\ UNCHANGED <<disk, dead, work, stale>>
\* process.kill(pid, 0): the owner it read may have left the lock to others since.
Kill(p) ==
  /\ At(p, "kill")
  /\ \/ /\ Gone(stale[p].pid)
        /\ Goes(p, "claim")
        /\ UNCHANGED <<work, stale>>
     \/ /\ stale[p].pid \notin dead
        /\ Busy(p)
        /\ stale' = [stale EXCEPT ![p] = None]
  /\ UNCHANGED <<disk, dead>>

\* .reclaim is created exclusively, in whatever lock is there by now.
Claim(p) ==
  /\ At(p, "claim")
  /\ \/ /\ lock.exists /\ lock.claim = None
        /\ lock' = [lock EXCEPT !.claim = p]
        /\ Goes(p, "check")
        /\ UNCHANGED <<work, stale>>
     \/ /\ ~lock.exists \/ lock.claim # None
        /\ Busy(p)
        /\ stale' = [stale EXCEPT ![p] = None]
        /\ UNCHANGED lock
  /\ UNCHANGED <<meta, log, dead>>

CheckSkippedFaulty(p) ==
  /\ At(p, "check")
  /\ Goes(p, "remove")
  /\ UNCHANGED <<disk, dead, work, stale>>
\* The owner is read again, process and time: it must be the one found gone. That it
\* is gone is asked again too, and nobody who is gone comes back.
Check(p) ==
  /\ At(p, "check")
  /\ \/ /\ lock.owner = stale[p]
        /\ Goes(p, "remove")
        /\ UNCHANGED stale
     \/ /\ lock.owner # stale[p]
        /\ Goes(p, "unclaim")
        /\ stale' = [stale EXCEPT ![p] = None]
  /\ UNCHANGED <<disk, dead, work>>

\* rmSync of the lock, by a reclaimer and by an owner that is done: "rest" is what
\* remains of it once owner.json has been unlinked.
Removing(p) == pc[p] \in {"remove", "rest"} /\ p \notin dead

UnlinkOwner(p) ==
  /\ Removing(p) /\ lock.exists
  /\ pc[p] = "remove" \/ lock.owner # None
  /\ lock' = [lock EXCEPT !.owner = None]
  /\ Goes(p, "rest")
  /\ UNCHANGED <<meta, log, dead, work, stale>>

UnlinkClaim(p) ==
  /\ Removing(p) /\ lock.claim # None
  /\ lock' = [lock EXCEPT !.claim = None]
  /\ UNCHANGED <<meta, log, dead, pc, work, stale>>

\* Where the removal leads: a reclaimer to its finally, an owner to its next section.
AfterRemoval(p) ==
  IF stale[p] # None THEN "unclaim"
  ELSE IF todo[p] = <<>> THEN "done"
  ELSE IF Head(todo[p]) = "snapshot" THEN "reread"
  ELSE "mkdir"

Rmdir(p) ==
  /\ At(p, "rest") /\ lock = [NoLock EXCEPT !.exists = TRUE]
  /\ lock' = NoLock
  /\ Goes(p, AfterRemoval(p))
  /\ UNCHANGED <<meta, log, dead, work, stale>>

\* Somebody else removed the lock: an error to a removal that had not begun, and to
\* none that had.
Vanished(p) ==
  /\ Removing(p) /\ ~lock.exists
  /\ \/ Goes(p, AfterRemoval(p)) /\ UNCHANGED <<work, stale>>
     \/ /\ stale[p] # None
        /\ Goes(p, "unclaim")
        /\ stale' = [stale EXCEPT ![p] = None]
        /\ UNCHANGED work
     \/ stale[p] = None /\ Busy(p) /\ UNCHANGED stale
  /\ UNCHANGED <<disk, dead>>

UnclaimGoesOnFaulty(p) ==
  /\ At(p, "unclaim")
  /\ lock' = [lock EXCEPT !.claim = None]
  /\ Goes(p, "mkdir again") /\ UNCHANGED work
  /\ UNCHANGED <<meta, log, dead, stale>>
\* The finally of reclaimDeadTaskLock removes a .reclaim, whoever made it.
Unclaim(p) ==
  /\ At(p, "unclaim")
  /\ lock' = [lock EXCEPT !.claim = None]
  /\ IF stale[p] # None THEN Goes(p, "mkdir again") /\ UNCHANGED work ELSE Busy(p)
  /\ UNCHANGED <<meta, log, dead, stale>>

MkdirAgain(p) ==
  /\ At(p, "mkdir again")
  /\ stale' = [stale EXCEPT ![p] = None]
  /\ \/ /\ ~lock.exists
        /\ lock' = [NoLock EXCEPT !.exists = TRUE]
        /\ Goes(p, "own")
        /\ UNCHANGED work
     \/ /\ lock.exists
        /\ Busy(p)
        /\ UNCHANGED lock
  /\ UNCHANGED <<meta, log, dead>>

\* owner.json; without the directory the write fails, and the finally removes what
\* lock there is.
Own(p) ==
  /\ At(p, "own")
  /\ \/ /\ lock.exists
        /\ \E at \in Stamps : lock' = [lock EXCEPT !.owner = [pid |-> p, at |-> at]]
        /\ Goes(p, "read")
        /\ UNCHANGED work
     \/ /\ ~lock.exists
        /\ Goes(p, "remove") /\ Refused(p)
        /\ UNCHANGED lock
  /\ UNCHANGED <<meta, log, dead, stale>>

-----------------------------------------------------------------------------
(* Critical sections *)

Section(p) == Head(todo[p])

AcceptsAnyFaulty(p, m) ==
  Section(p) = "checkpoint" => m.checkpoint.rev = seen[p].checkpoint.rev
\* The guards of checkpointMonitorTask and of verifyMonitorTask.
Accepts(p, m) ==
  /\ Section(p) = "checkpoint" => m.checkpoint.rev = seen[p].checkpoint.rev
  /\ Section(p) \in {"verify", "complete"} =>
       /\ m.checkpoint = seen[p].checkpoint
       /\ m.status = seen[p].status /\ m.ended = seen[p].ended

AppendsFirst == {"checkpoint", "verify", "complete", "event"}

\* The metadata and, for a section with an event, the number of events. A command
\* that is refused is over.
Read(p) ==
  /\ At(p, "read")
  /\ \/ /\ Accepts(p, meta)
        /\ current' = [current EXCEPT ![p] = IF Section(p) = "event" THEN @ ELSE meta]
        /\ nextSeq' = [nextSeq EXCEPT ![p] = IF Section(p) \in AppendsFirst THEN Len(log) ELSE 0]
        /\ Goes(p, IF Section(p) \in AppendsFirst THEN "append" ELSE "write")
        /\ UNCHANGED <<todo, seen, passed>>
     \/ /\ ~Accepts(p, meta)
        /\ Goes(p, "remove") /\ Refused(p)
  /\ UNCHANGED <<disk, dead, stale>>

\* appendMonitorTaskEvent
AppendEvent(p) ==
  /\ At(p, "append")
  /\ log' = Append(log, nextSeq[p])
  /\ nextSeq' = [nextSeq EXCEPT ![p] = 0]
  /\ IF Section(p) = "event"
     THEN todo' = [todo EXCEPT ![p] = Tail(@)] /\ Goes(p, "remove")
     ELSE Goes(p, "write") /\ UNCHANGED todo
  /\ UNCHANGED <<meta, lock, dead, seen, passed, current, stale>>

Verified(p) == [of |-> seen[p].checkpoint, passed |-> passed[p]]

\* What a section makes of the metadata m. A new checkpoint takes the verdict and the
\* end of the task back.
Checkpointed(p, m) ==
  [m EXCEPT !.status = "active", !.ended = None, !.verification = None,
            !.checkpoint = [rev |-> m.checkpoint.rev + 1, by |-> p]]

VerifiedMeta(p, m) == [m EXCEPT !.verification = Verified(p)]

Completed(p, m) ==
  [m EXCEPT !.verification = Verified(p),
            !.status = IF passed[p] THEN "completed" ELSE "active",
            !.ended = IF passed[p] THEN p ELSE None]

AttachedMeta(m) == [m EXCEPT !.member = "attached", !.copied = FALSE]

\* Detach and snapshot put back the source record they read before the lock, changed.
DetachedMeta(p, m) == [m EXCEPT !.member = "detached", !.copied = seen[p].copied]

SnapshotMeta(p, m) ==
  IF seen[p].member = "none" THEN m
  ELSE [m EXCEPT !.member = seen[p].member, !.copied = TRUE]

AttachFailedMeta(m) == [m EXCEPT !.status = IF m.member = "none" THEN "blocked" ELSE @]

StoppedMeta(p, m) == [m EXCEPT !.status = "stopped", !.ended = p]

Updated(p, m) ==
  CASE Section(p) = "checkpoint"   -> Checkpointed(p, m)
    [] Section(p) = "verify"       -> VerifiedMeta(p, m)
    [] Section(p) = "complete"     -> Completed(p, m)
    [] Section(p) = "attach"       -> AttachedMeta(m)
    [] Section(p) = "detach"       -> DetachedMeta(p, m)
    [] Section(p) = "snapshot"     -> SnapshotMeta(p, m)
    [] Section(p) = "attachFailed" -> AttachFailedMeta(m)
    [] Section(p) = "stop"         -> StoppedMeta(p, m)

\* An attach that blocks the task has a second event to append.
Behind(p) ==
  IF Section(p) = "attachFailed" /\ Updated(p, current[p]).status = "blocked"
  THEN Append(Tail(todo[p]), "event") ELSE Tail(todo[p])

\* writeMonitorTaskMeta: a temporary file, renamed.
WriteMeta(p) ==
  /\ At(p, "write")
  /\ meta' = Updated(p, current[p])
  /\ todo' = [todo EXCEPT ![p] = Behind(p)]
  /\ seen' = [seen EXCEPT ![p] = FreshMeta] /\ passed' = [passed EXCEPT ![p] = FALSE]
  /\ current' = [current EXCEPT ![p] = FreshMeta]
  /\ Goes(p, "remove")
  /\ UNCHANGED <<log, lock, dead, nextSeq, stale>>

-----------------------------------------------------------------------------
\* Its memory goes with a process that dies; pc says where.
Crash(p) ==
  /\ p \in Mortal \ dead /\ pc[p] \notin {"idle", "busy", "done"}
  /\ dead' = dead \cup {p}
  /\ todo' = [todo EXCEPT ![p] = <<>>]
  /\ seen' = [seen EXCEPT ![p] = FreshMeta] /\ passed' = [passed EXCEPT ![p] = FALSE]
  /\ current' = [current EXCEPT ![p] = FreshMeta] /\ nextSeq' = [nextSeq EXCEPT ![p] = 0]
  /\ stale' = [stale EXCEPT ![p] = None]
  /\ UNCHANGED <<disk, pc>>

Step(p) ==
  \/ Start(p) \/ Reread(p)
  \/ Mkdir(p) \/ ReadOwner(p) \/ Kill(p) \/ Claim(p) \/ Check(p) \/ Unclaim(p)
  \/ MkdirAgain(p) \/ Own(p)
  \/ UnlinkOwner(p) \/ UnlinkClaim(p) \/ Rmdir(p) \/ Vanished(p)
  \/ Read(p) \/ AppendEvent(p) \/ WriteMeta(p)

\* A process at work on the lock of an owner that is gone, whose name is still in it.
Reclaiming(p) ==
  pc[p] \in {"check", "remove"} /\ stale[p] # None /\ stale[p] = lock.owner

\* What .reclaim is there to prevent.
TwoReclaim == \E p, q \in Procs \ dead : p # q /\ Reclaiming(p) /\ Reclaiming(q)

Next ==
  /\ \E p \in Procs : Step(p) \/ Crash(p)
  /\ contested' = (contested \/ TwoReclaim')

Spec == Init /\ [][Next]_vars

-----------------------------------------------------------------------------
(* Properties *)

Places == {"idle", "mkdir", "read owner", "kill", "claim", "check", "unclaim", "mkdir again", "own",
           "read", "append", "write", "remove", "rest", "reread", "busy", "done"}

\* A process that reclaims a lock has its owner's name, one inside has a section to run.
TypeOK ==
  /\ meta \in Meta /\ log \in Seq(Nat)
  /\ lock \in [exists : BOOLEAN, owner : Owners \cup {None}, claim : Procs \cup {None}]
  /\ dead \subseteq Mortal /\ contested \in BOOLEAN
  /\ pc \in [Procs -> Places] /\ todo \in [Procs -> Seq(Sections)]
  /\ seen \in [Procs -> Meta] /\ passed \in [Procs -> BOOLEAN]
  /\ current \in [Procs -> Meta] /\ nextSeq \in [Procs -> Nat]
  /\ stale \in [Procs -> Owners \cup {None}]
  /\ \A p \in Procs \ dead :
       /\ pc[p] \in {"kill", "claim", "check", "mkdir again"} => stale[p] # None
       /\ pc[p] \in {"own", "read", "append", "write"} => stale[p] = None /\ todo[p] # <<>>

\* Processes inside the critical section, up to the removal of their own lock.
Holding(p) ==
  \/ pc[p] \in {"own", "read", "append", "write"}
  \/ pc[p] \in {"remove", "rest"} /\ stale[p] = None

\* No two live processes are inside at once.
MutualExclusion ==
  \A p, q \in Procs : Holding(p) /\ Holding(q) /\ {p, q} \cap dead = {} => p = q

\* "Writers are serialized by a per-task lock with dead-owner reclaim" (README.md).
\* The one way to two writers is two reclaimers of one lock: short of that, whoever
\* dies and whoever reclaims, one live process is inside.
ExclusiveUnlessContested == contested \/ MutualExclusion

\* "Contention is explicit, never a lost write" (monitor-tasks.ts, above withTaskLock):
\* short of two reclaimers, what a process is about to write or to append was made from
\* the metadata and the log as they still are.
NeverLostWrite ==
  contested \/ \A p \in Procs \ dead :
                  /\ pc[p] = "write" => current[p] = meta
                  /\ pc[p] = "append" => nextSeq[p] = Len(log)

\* A verdict belongs to the checkpoint it stands beside: the checks ran outside the
\* lock, and a checkpoint, a stop or a completion in between makes them stale.
VerdictIsCurrent ==
  contested \/ (meta.verification # None => meta.verification.of = meta.checkpoint)

\* For one who sees the record alone the commands run one after the other: neither two
\* at once, nor one on a record that changed since it was read, nor one that dies
\* half-way makes anything of it that a single change does not, short of two reclaimers.
Record == INSTANCE TaskRecord
ImplementsRecord == Record!Init /\ [][contested' \/ Record!Next]_Record!rvars

\* What a command detached stays detached until a command attaches it.
DetachStays ==
  [][meta.member = "detached" /\ meta'.member = "attached" =>
       \E p \in Procs : pc[p] = "write" /\ Section(p) = "attach" /\ pc'[p] # "write"]_vars
=============================================================================
