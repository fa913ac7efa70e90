-------------------------- MODULE MonitorTasksProofs --------------------------
(***************************************************************************)
(* Theorems about the lock and the records of a monitor task, for any      *)
(* number of processes, any of which may die anywhere, and any commands.   *)
(* What is said of the lock and the records holds until two live processes *)
(* are reclaiming one owner's lock at once; without a death none is.       *)
(***************************************************************************)
EXTENDS MonitorTasks, TLAPS

-----------------------------------------------------------------------------
(* What holds however many reclaim *)

Locks == [exists : BOOLEAN, owner : Owners \cup {None}, claim : Procs \cup {None}]

Shape ==
  /\ meta \in Meta /\ log \in Seq(Nat) /\ lock \in Locks
  /\ dead \subseteq Mortal /\ contested \in BOOLEAN
  /\ pc \in [Procs -> Places] /\ todo \in [Procs -> Seq(Sections)]
  /\ seen \in [Procs -> Meta] /\ passed \in [Procs -> BOOLEAN]
  /\ current \in [Procs -> Meta] /\ nextSeq \in [Procs -> Nat]
  /\ stale \in [Procs -> Owners \cup {None}]

\* A process that reclaims a lock has the name of one who is gone, and one on its way
\* to a section has one to go to.
OnWay(p) ==
  /\ pc[p] \in {"kill", "claim", "check", "mkdir again"} => stale[p] # None
  /\ stale[p] # None =>
       pc[p] \in {"kill", "claim", "check", "remove", "rest", "unclaim", "mkdir again"}
  /\ stale[p] # None /\ pc[p] # "kill" => Gone(stale[p].pid)
  /\ stale[p] # None \/ pc[p] \in {"mkdir", "read owner", "own", "read", "append", "write", "reread"} =>
       todo[p] # <<>>
  /\ pc[p] = "write" => Section(p) # "event"

BaseInv ==
  /\ Shape
  /\ ~lock.exists => lock = NoLock
  /\ \A p \in Procs \ dead : OnWay(p)

\* What q keeps of its command.
SameWork(q) ==
  /\ todo'[q] = todo[q] /\ seen'[q] = seen[q] /\ passed'[q] = passed[q]
  /\ current'[q] = current[q] /\ nextSeq'[q] = nextSeq[q]

\* A step of p alone, whose command has not ended.
Alone(p) ==
  /\ p \notin dead /\ dead' = dead /\ pc[p] \notin {"busy", "done"}
  /\ \A q \in Procs : q # p => pc'[q] = pc[q] /\ stale'[q] = stale[q]

LEMMA BaseIsTyped == BaseInv => TypeOK
BY DEF BaseInv, Shape, Locks, OnWay, TypeOK

LEMMA FreshIsMeta == FreshMeta \in Meta /\ [FreshMeta EXCEPT !.member = "attached"] \in Meta
BY DEF FreshMeta, Meta, Checkpoint, Statuses

LEMMA BaseInit == Init => BaseInv
<1> SUFFICES ASSUME Init  PROVE  BaseInv
  OBVIOUS
<1>1. meta \in Meta /\ lock = NoLock /\ NoLock \in Locks
  BY FreshIsMeta DEF Init, NoLock, Locks
<1>2. Shape
  <2>0. <<0>> \in Seq(Nat)
    OBVIOUS
  <2>1. log \in Seq(Nat) /\ dead \subseteq Mortal /\ contested \in BOOLEAN
    <3>1. log = <<0>> /\ dead = {} /\ contested = FALSE
      BY DEF Init
    <3> QED  BY <2>0, <3>1
  <2>2. pc \in [Procs -> Places] /\ passed \in [Procs -> BOOLEAN] /\ nextSeq \in [Procs -> Nat]
    BY DEF Init, Places
  <2>3. <<>> \in Seq(Sections)
    OBVIOUS
  <2>4. todo \in [Procs -> Seq(Sections)] /\ stale \in [Procs -> Owners \cup {None}]
    BY <2>3 DEF Init
  <2>5. FreshMeta \in Meta
    BY FreshIsMeta
  <2> HIDE DEF FreshMeta
  <2>6. seen \in [Procs -> Meta] /\ current \in [Procs -> Meta]
    BY <2>5 DEF Init
  <2> QED  BY <1>1, <2>1, <2>2, <2>4, <2>6 DEF Shape
<1>3. \A p \in Procs : OnWay(p)
  BY DEF Init, OnWay
<1> QED  BY <1>1, <1>2, <1>3 DEF BaseInv

\* Nobody who is gone comes back.
LEMMA NamedStaysGone ==
  ASSUME BaseInv, NEW p \in Procs, Alone(p), NEW q \in Procs,
         stale'[q] = stale[q], stale[q] # None, Gone(stale[q].pid)
  PROVE  Gone(stale[q].pid)'
<1>1. stale[q].pid \in Procs
  BY DEF BaseInv, Shape, Owners
<1>2. stale[q].pid \in dead' \/ pc'[stale[q].pid] \in {"busy", "done"}
  BY <1>1 DEF Alone, Gone
<1> QED  BY <1>2 DEF Gone

LEMMA OthersOnWay ==
  ASSUME BaseInv, NEW p \in Procs, Alone(p), NEW q \in Procs \ dead, q # p, SameWork(q)
  PROVE  OnWay(q)'
<1>1. pc'[q] = pc[q] /\ stale'[q] = stale[q] /\ OnWay(q)
  BY DEF Alone, BaseInv
<1>2. stale[q] # None /\ pc[q] # "kill" => Gone(stale[q].pid)'
  BY <1>1, NamedStaysGone DEF OnWay
<1>3. Section(q)' = Section(q) /\ todo'[q] = todo[q]
  BY DEF Section, SameWork
<1> QED  BY <1>1, <1>2, <1>3 DEF OnWay

LEMMA BaseStep ==
  ASSUME BaseInv, NEW p \in Procs, Alone(p), Shape', ~lock'.exists => lock' = NoLock, OnWay(p)',
         \A q \in Procs : q # p => SameWork(q)
  PROVE  BaseInv'
<1>1. \A q \in Procs \ dead : q # p => OnWay(q)'
  BY OthersOnWay
<1> QED  BY <1>1 DEF BaseInv, Alone

\* What the steps that take and release the lock have in common.
LEMMA Moves ==
  ASSUME Shape, NEW p \in Procs \ dead, pc[p] \notin {"busy", "done"},
         NEW w \in Places, Goes(p, w),
         NEW v \in Owners \cup {None}, stale' = [stale EXCEPT ![p] = v],
         UNCHANGED <<meta, log, dead>>, UNCHANGED work \/ Refused(p),
         lock' \in Locks, contested' \in BOOLEAN
  PROVE  /\ Alone(p) /\ Shape' /\ pc'[p] = w /\ stale'[p] = v
         /\ \A q \in Procs : q # p => SameWork(q)
         /\ UNCHANGED work => SameWork(p)
<1>1. pc'[p] = w /\ pc' \in [Procs -> Places] /\ \A q \in Procs : q # p => pc'[q] = pc[q]
  BY DEF Shape, Goes
<1>2. stale'[p] = v /\ stale' \in [Procs -> Owners \cup {None}]
      /\ \A q \in Procs : q # p => stale'[q] = stale[q]
  BY DEF Shape
<1>3. Alone(p)
  BY <1>1, <1>2 DEF Alone
<1>4. CASE UNCHANGED work
  <2>1. Shape'
    BY <1>1, <1>2, <1>4 DEF Shape, work
  <2> QED  BY <1>1, <1>2, <1>3, <1>4, <2>1 DEF SameWork, work
<1>5. CASE Refused(p)
  <2>1. todo' \in [Procs -> Seq(Sections)] /\ UNCHANGED <<current, nextSeq>>
    BY <1>5 DEF Refused, Shape
  <2>2. seen' \in [Procs -> Meta] /\ passed' \in [Procs -> BOOLEAN]
    BY <1>5, FreshIsMeta DEF Refused, Shape
  <2>3. Shape'
    BY <1>1, <1>2, <2>1, <2>2 DEF Shape
  <2>4. \A q \in Procs : q # p => SameWork(q)
    BY <1>5 DEF Refused, Shape, SameWork
  <2>5. UNCHANGED work => SameWork(p)
    BY DEF work, SameWork
  <2> QED  BY <1>1, <1>2, <1>3, <2>3, <2>4, <2>5
<1> QED  BY <1>4, <1>5

\* The same for a step that keeps the owner's name.
LEMMA MovesOn ==
  ASSUME Shape, NEW p \in Procs \ dead, pc[p] \notin {"busy", "done"},
         NEW w \in Places, Goes(p, w), UNCHANGED stale,
         UNCHANGED <<meta, log, dead>>, UNCHANGED work \/ Refused(p),
         lock' \in Locks, contested' \in BOOLEAN
  PROVE  /\ Alone(p) /\ Shape' /\ pc'[p] = w /\ stale'[p] = stale[p]
         /\ \A q \in Procs : q # p => SameWork(q)
         /\ UNCHANGED work => SameWork(p)
<1>1. stale[p] \in Owners \cup {None} /\ stale' = [stale EXCEPT ![p] = stale[p]]
  BY DEF Shape
<1> QED  BY <1>1, Moves

\* A process that is over, or at nothing but the removal of a lock, needs nothing.
LEMMA OverOnWay ==
  ASSUME NEW p \in Procs, stale'[p] = None,
         pc'[p] \in {"busy", "done", "unclaim", "remove", "rest"}
  PROVE  OnWay(p)'
BY DEF OnWay

LEMMA MkdirBase ==
  ASSUME BaseInv, NEW p \in Procs, Mkdir(p), contested' \in BOOLEAN
  PROVE  BaseInv' /\ Alone(p)
<1>1. Shape /\ p \in Procs \ dead /\ pc[p] = "mkdir" /\ OnWay(p) /\ UNCHANGED <<meta, log, dead, work, stale>>
  BY DEF BaseInv, Mkdir, At
<1>2. lock' \in Locks /\ (~lock'.exists => lock' = NoLock)
  BY <1>1 DEF Mkdir, Shape, Locks, NoLock
<1>3. PICK w \in {"own", "read owner"} : Goes(p, w)
  BY DEF Mkdir
<1>4. Alone(p) /\ Shape' /\ pc'[p] = w /\ stale'[p] = stale[p] /\ \A q \in Procs : SameWork(q)
  BY <1>1, <1>2, <1>3, MovesOn DEF Places
<1>5. OnWay(p)'
  BY <1>1, <1>4 DEF OnWay, SameWork
<1> QED  BY <1>2, <1>4, <1>5, BaseStep

LEMMA ReadOwnerBase ==
  ASSUME BaseInv, NEW p \in Procs, ReadOwner(p), contested' \in BOOLEAN
  PROVE  BaseInv' /\ Alone(p)
<1>1. /\ Shape /\ p \in Procs \ dead /\ pc[p] = "read owner" /\ OnWay(p)
      /\ UNCHANGED <<meta, log, lock, dead>> /\ lock' \in Locks /\ (~lock'.exists => lock' = NoLock)
  BY DEF BaseInv, ReadOwner, At, disk, Shape
<1>2. CASE lock.owner # None
  <2>1. /\ stale' = [stale EXCEPT ![p] = lock.owner] /\ Goes(p, "kill") /\ UNCHANGED work
        /\ lock.owner \in Owners
    BY <1>1, <1>2 DEF ReadOwner, Shape, Locks
  <2>2. Alone(p) /\ Shape' /\ pc'[p] = "kill" /\ stale'[p] = lock.owner /\ \A q \in Procs : SameWork(q)
    <3>1. "kill" \in Places /\ lock.owner \in Owners \cup {None} /\ pc[p] \notin {"busy", "done"}
      BY <1>1, <2>1 DEF Places
    <3>2. /\ Alone(p) /\ Shape' /\ pc'[p] = "kill" /\ stale'[p] = lock.owner /\ SameWork(p)
          /\ \A q \in Procs : q # p => SameWork(q)
      BY <1>1, <2>1, <3>1, Moves
    <3> QED  BY <3>2
  <2>3. OnWay(p)'
    BY <1>1, <1>2, <2>2 DEF OnWay, SameWork
  <2> QED  BY <1>1, <2>2, <2>3, BaseStep
<1>3. CASE lock.owner = None
  <2>1. Goes(p, "busy") /\ Refused(p) /\ UNCHANGED stale
    BY <1>3 DEF ReadOwner, Busy
  <2>2. Alone(p) /\ Shape' /\ pc'[p] = "busy" /\ stale'[p] = None /\ \A q \in Procs : q # p => SameWork(q)
    BY <1>1, <2>1, MovesOn DEF Places, OnWay
  <2> QED  BY <1>1, <2>2, OverOnWay, BaseStep
<1> QED  BY <1>2, <1>3

LEMMA KillBase ==
  ASSUME BaseInv, NEW p \in Procs, Kill(p), contested' \in BOOLEAN
  PROVE  BaseInv' /\ Alone(p)
<1>1. /\ Shape /\ p \in Procs \ dead /\ pc[p] = "kill" /\ OnWay(p)
      /\ UNCHANGED <<meta, log, lock, dead>> /\ lock' \in Locks /\ (~lock'.exists => lock' = NoLock)
  BY DEF BaseInv, Kill, At, disk, Shape
<1>2. CASE Gone(stale[p].pid) /\ Goes(p, "claim") /\ UNCHANGED <<work, stale>>
  <2>1. Alone(p) /\ Shape' /\ pc'[p] = "claim" /\ stale'[p] = stale[p] /\ \A q \in Procs : SameWork(q)
    BY <1>1, <1>2, MovesOn DEF Places
  <2>2. Gone(stale[p].pid)'
    BY <1>1, <1>2, <2>1, NamedStaysGone DEF OnWay
  <2>3. OnWay(p)'
    BY <1>1, <2>1, <2>2 DEF OnWay, SameWork
  <2> QED  BY <1>1, <2>1, <2>3, BaseStep
<1>3. CASE Busy(p) /\ stale' = [stale EXCEPT ![p] = None]
  <2>1. Alone(p) /\ Shape' /\ pc'[p] = "busy" /\ stale'[p] = None /\ \A q \in Procs : q # p => SameWork(q)
    BY <1>1, <1>3, Moves DEF Places, Busy
  <2> QED  BY <1>1, <2>1, OverOnWay, BaseStep
<1> QED  BY <1>2, <1>3 DEF Kill

LEMMA ClaimBase ==
  ASSUME BaseInv, NEW p \in Procs, Claim(p), contested' \in BOOLEAN
  PROVE  BaseInv' /\ Alone(p)
<1>1. /\ Shape /\ p \in Procs \ dead /\ pc[p] = "claim" /\ OnWay(p)
      /\ UNCHANGED <<meta, log, dead>> /\ (~lock.exists => lock = NoLock)
  BY DEF BaseInv, Claim, At
<1>2. CASE lock.exists /\ lock.claim = None
  <2>1. lock' = [lock EXCEPT !.claim = p] /\ Goes(p, "check") /\ UNCHANGED <<work, stale>>
    BY <1>2 DEF Claim
  <2>2. lock' \in Locks /\ lock'.exists
    BY <1>1, <1>2, <2>1 DEF Shape, Locks
  <2>3. Alone(p) /\ Shape' /\ pc'[p] = "check" /\ stale'[p] = stale[p] /\ \A q \in Procs : SameWork(q)
    BY <1>1, <2>1, <2>2, MovesOn DEF Places
  <2>4. Gone(stale[p].pid)'
    BY <1>1, <2>3, NamedStaysGone DEF OnWay
  <2>5. OnWay(p)'
    BY <1>1, <2>3, <2>4 DEF OnWay, SameWork
  <2> QED  BY <2>2, <2>3, <2>5, BaseStep
<1>3. CASE ~(lock.exists /\ lock.claim = None)
  <2>1. Busy(p) /\ stale' = [stale EXCEPT ![p] = None] /\ lock' = lock /\ lock' \in Locks
    BY <1>1, <1>3 DEF Claim, Shape
  <2>2. Alone(p) /\ Shape' /\ pc'[p] = "busy" /\ stale'[p] = None /\ \A q \in Procs : q # p => SameWork(q)
    BY <1>1, <2>1, Moves DEF Places, Busy
  <2> QED  BY <1>1, <2>1, <2>2, OverOnWay, BaseStep
<1> QED  BY <1>2, <1>3

\* Steps of a reclaimer that keeps the name it found.
LEMMA ReclaimGoesOn ==
  ASSUME BaseInv, NEW p \in Procs \ dead, OnWay(p), stale[p] # None, pc[p] # "kill", Alone(p), SameWork(p),
         stale'[p] = stale[p], pc'[p] \in {"claim", "check", "remove", "rest", "unclaim", "mkdir again"}
  PROVE  OnWay(p)'
<1>1. Gone(stale[p].pid)'
  BY NamedStaysGone DEF OnWay
<1> QED  BY <1>1 DEF OnWay, SameWork

LEMMA CheckBase ==
  ASSUME BaseInv, NEW p \in Procs, Check(p), contested' \in BOOLEAN
  PROVE  BaseInv' /\ Alone(p)
<1>1. /\ Shape /\ p \in Procs \ dead /\ pc[p] = "check" /\ OnWay(p)
      /\ UNCHANGED <<meta, log, lock, dead, work>> /\ lock' \in Locks /\ (~lock'.exists => lock' = NoLock)
  BY DEF BaseInv, Check, At, disk, Shape
<1>2. CASE lock.owner = stale[p]
  <2>1. Goes(p, "remove") /\ UNCHANGED stale
    BY <1>2 DEF Check
  <2>2. Alone(p) /\ Shape' /\ pc'[p] = "remove" /\ stale'[p] = stale[p] /\ \A q \in Procs : SameWork(q)
    BY <1>1, <2>1, MovesOn DEF Places
  <2>3. OnWay(p)'
    BY <1>1, <2>2, ReclaimGoesOn DEF OnWay
  <2> QED  BY <1>1, <2>2, <2>3, BaseStep
<1>3. CASE lock.owner # stale[p]
  <2>1. Goes(p, "unclaim") /\ stale' = [stale EXCEPT ![p] = None]
    BY <1>3 DEF Check
  <2>2. Alone(p) /\ Shape' /\ pc'[p] = "unclaim" /\ stale'[p] = None /\ \A q \in Procs : q # p => SameWork(q)
    BY <1>1, <2>1, Moves DEF Places
  <2> QED  BY <1>1, <2>2, OverOnWay, BaseStep
<1> QED  BY <1>2, <1>3

LEMMA UnlinkOwnerBase ==
  ASSUME BaseInv, NEW p \in Procs, UnlinkOwner(p), contested' \in BOOLEAN
  PROVE  BaseInv' /\ Alone(p)
<1>1. /\ Shape /\ p \in Procs \ dead /\ pc[p] \in {"remove", "rest"} /\ OnWay(p) /\ lock.exists
      /\ UNCHANGED <<meta, log, dead, work, stale>> /\ lock' = [lock EXCEPT !.owner = None] /\ Goes(p, "rest")
  BY DEF BaseInv, UnlinkOwner, Removing
<1>2. lock' \in Locks /\ lock'.exists
  BY <1>1 DEF Shape, Locks
<1>3. Alone(p) /\ Shape' /\ pc'[p] = "rest" /\ stale'[p] = stale[p] /\ \A q \in Procs : SameWork(q)
  BY <1>1, <1>2, MovesOn DEF Places
<1>4. OnWay(p)'
  BY <1>1, <1>3, ReclaimGoesOn, OverOnWay
<1> QED  BY <1>2, <1>3, <1>4, BaseStep

LEMMA UnlinkClaimBase ==
  ASSUME BaseInv, NEW p \in Procs, UnlinkClaim(p), contested' \in BOOLEAN
  PROVE  BaseInv' /\ Alone(p)
<1>1. /\ Shape /\ p \in Procs \ dead /\ pc[p] \in {"remove", "rest"} /\ OnWay(p) /\ (~lock.exists => lock = NoLock)
      /\ lock.claim # None
      /\ UNCHANGED <<meta, log, dead, pc, work, stale>> /\ lock' = [lock EXCEPT !.claim = None]
  BY DEF BaseInv, UnlinkClaim, Removing
<1>2. lock' \in Locks /\ lock'.exists
  <2>1. lock.exists
    BY <1>1 DEF NoLock
  <2> QED  BY <1>1, <2>1 DEF Shape, Locks
<1>3. Goes(p, pc[p]) /\ pc[p] \in Places
  BY <1>1 DEF Shape, Goes
<1>4. Alone(p) /\ Shape' /\ pc'[p] = pc[p] /\ stale'[p] = stale[p] /\ \A q \in Procs : SameWork(q)
  BY <1>1, <1>2, <1>3, MovesOn
<1>5. OnWay(p)'
  BY <1>1, <1>4, ReclaimGoesOn, OverOnWay
<1> QED  BY <1>2, <1>4, <1>5, BaseStep

\* Where a removal leads.
LEMMA RemovedOnWay ==
  ASSUME BaseInv, NEW p \in Procs \ dead, OnWay(p), pc[p] \in {"remove", "rest"}, Alone(p), SameWork(p),
         stale'[p] = stale[p], pc'[p] = AfterRemoval(p)
  PROVE  OnWay(p)'
<1>1. CASE stale[p] # None
  BY <1>1, ReclaimGoesOn DEF AfterRemoval
<1>2. CASE stale[p] = None
  <2>1. pc'[p] \in {"done", "reread", "mkdir"} /\ (pc'[p] # "done" => todo[p] # <<>>)
    BY <1>2 DEF AfterRemoval
  <2> QED  BY <1>2, <2>1 DEF OnWay, SameWork
<1> QED  BY <1>1, <1>2

LEMMA RmdirBase ==
  ASSUME BaseInv, NEW p \in Procs, Rmdir(p), contested' \in BOOLEAN
  PROVE  BaseInv' /\ Alone(p)
<1>1. /\ Shape /\ p \in Procs \ dead /\ pc[p] = "rest" /\ OnWay(p)
      /\ UNCHANGED <<meta, log, dead, work, stale>> /\ lock' = NoLock /\ Goes(p, AfterRemoval(p))
  BY DEF BaseInv, Rmdir, At
<1>2. lock' \in Locks /\ AfterRemoval(p) \in Places
  BY <1>1 DEF NoLock, Locks, AfterRemoval, Places
<1>3. Alone(p) /\ Shape' /\ pc'[p] = AfterRemoval(p) /\ stale'[p] = stale[p] /\ \A q \in Procs : SameWork(q)
  BY <1>1, <1>2, MovesOn
<1>4. OnWay(p)'
  BY <1>1, <1>3, RemovedOnWay
<1> QED  BY <1>1, <1>3, <1>4, BaseStep

LEMMA VanishedBase ==
  ASSUME BaseInv, NEW p \in Procs, Vanished(p), contested' \in BOOLEAN
  PROVE  BaseInv' /\ Alone(p)
<1>1. /\ Shape /\ p \in Procs \ dead /\ pc[p] \in {"remove", "rest"} /\ OnWay(p)
      /\ UNCHANGED <<meta, log, lock, dead>> /\ lock' \in Locks /\ (~lock'.exists => lock' = NoLock)
  BY DEF BaseInv, Vanished, Removing, disk, Shape
<1>2. CASE Goes(p, AfterRemoval(p)) /\ UNCHANGED <<work, stale>>
  <2>1. AfterRemoval(p) \in Places
    BY DEF AfterRemoval, Places
  <2>2. Alone(p) /\ Shape' /\ pc'[p] = AfterRemoval(p) /\ stale'[p] = stale[p] /\ \A q \in Procs : SameWork(q)
    BY <1>1, <1>2, <2>1, MovesOn
  <2>3. OnWay(p)'
    BY <1>1, <2>2, RemovedOnWay
  <2> QED  BY <1>1, <2>2, <2>3, BaseStep
<1>3. CASE Goes(p, "unclaim") /\ stale' = [stale EXCEPT ![p] = None] /\ UNCHANGED work
  <2>1. Alone(p) /\ Shape' /\ pc'[p] = "unclaim" /\ stale'[p] = None /\ \A q \in Procs : q # p => SameWork(q)
    BY <1>1, <1>3, Moves DEF Places
  <2> QED  BY <1>1, <2>1, OverOnWay, BaseStep
<1>4. CASE stale[p] = None /\ Busy(p) /\ UNCHANGED stale
  <2>1. Alone(p) /\ Shape' /\ pc'[p] = "busy" /\ stale'[p] = None /\ \A q \in Procs : q # p => SameWork(q)
    BY <1>1, <1>4, MovesOn DEF Places, Busy
  <2> QED  BY <1>1, <2>1, OverOnWay, BaseStep
<1> QED  BY <1>2, <1>3, <1>4 DEF Vanished

LEMMA UnclaimBase ==
  ASSUME BaseInv, NEW p \in Procs, Unclaim(p), contested' \in BOOLEAN
  PROVE  BaseInv' /\ Alone(p)
<1>1. /\ Shape /\ p \in Procs \ dead /\ pc[p] = "unclaim" /\ OnWay(p) /\ (~lock.exists => lock = NoLock)
      /\ UNCHANGED <<meta, log, dead, stale>> /\ lock' = [lock EXCEPT !.claim = None]
  BY DEF BaseInv, Unclaim, At
<1>2. lock' \in Locks
  BY <1>1 DEF Shape, Locks
<1>3. ~lock'.exists => lock' = NoLock
  <2>1. lock'.exists = lock.exists
    BY <1>1 DEF Shape, Locks
  <2>2. lock = NoLock => lock' = NoLock
    <3>1. ASSUME lock = NoLock  PROVE  lock' = [exists |-> FALSE, owner |-> None, claim |-> None]
      BY <1>1, <3>1 DEF NoLock
    <3> QED  BY <3>1 DEF NoLock
  <2> QED  BY <1>1, <2>1, <2>2
<1>4. CASE stale[p] # None
  <2>1. Goes(p, "mkdir again") /\ UNCHANGED work
    BY <1>4 DEF Unclaim
  <2>2. Alone(p) /\ Shape' /\ pc'[p] = "mkdir again" /\ stale'[p] = stale[p] /\ \A q \in Procs : SameWork(q)
    BY <1>1, <1>2, <2>1, MovesOn DEF Places
  <2>3. OnWay(p)'
    BY <1>1, <1>4, <2>2, ReclaimGoesOn
  <2> QED  BY <1>3, <2>2, <2>3, BaseStep
<1>5. CASE stale[p] = None
  <2>1. Busy(p)
    BY <1>5 DEF Unclaim
  <2>2. Alone(p) /\ Shape' /\ pc'[p] = "busy" /\ stale'[p] = None /\ \A q \in Procs : q # p => SameWork(q)
    BY <1>1, <1>2, <1>5, <2>1, MovesOn DEF Places, Busy
  <2> QED  BY <1>3, <2>2, OverOnWay, BaseStep
<1> QED  BY <1>4, <1>5

LEMMA MkdirAgainBase ==
  ASSUME BaseInv, NEW p \in Procs, MkdirAgain(p), contested' \in BOOLEAN
  PROVE  BaseInv' /\ Alone(p)
<1>1. /\ Shape /\ p \in Procs \ dead /\ pc[p] = "mkdir again" /\ OnWay(p) /\ (~lock.exists => lock = NoLock)
      /\ UNCHANGED <<meta, log, dead>> /\ stale' = [stale EXCEPT ![p] = None]
  BY DEF BaseInv, MkdirAgain, At
<1>2. CASE ~lock.exists
  <2>1. lock' = [NoLock EXCEPT !.exists = TRUE] /\ Goes(p, "own") /\ UNCHANGED work
    BY <1>2 DEF MkdirAgain
  <2>2. lock' \in Locks /\ lock'.exists
    BY <2>1 DEF NoLock, Locks
  <2>3. Alone(p) /\ Shape' /\ pc'[p] = "own" /\ stale'[p] = None /\ \A q \in Procs : SameWork(q)
    <3>1. "own" \in Places /\ None \in Owners \cup {None} /\ pc[p] \notin {"busy", "done"}
      BY <1>1 DEF Places
    <3>2. /\ Alone(p) /\ Shape' /\ pc'[p] = "own" /\ stale'[p] = None /\ SameWork(p)
          /\ \A q \in Procs : q # p => SameWork(q)
      BY <1>1, <2>1, <2>2, <3>1, Moves
    <3> QED  BY <3>2
  <2>4. OnWay(p)'
    BY <1>1, <2>3 DEF OnWay, SameWork
  <2> QED  BY <2>2, <2>3, <2>4, BaseStep
<1>3. CASE lock.exists
  <2>1. lock' = lock /\ lock' \in Locks /\ Busy(p)
    BY <1>1, <1>3 DEF MkdirAgain, Shape
  <2>2. Alone(p) /\ Shape' /\ pc'[p] = "busy" /\ stale'[p] = None /\ \A q \in Procs : q # p => SameWork(q)
    BY <1>1, <2>1, Moves DEF Places, Busy
  <2> QED  BY <1>1, <2>1, <2>2, OverOnWay, BaseStep
<1> QED  BY <1>2, <1>3

LEMMA OwnBase ==
  ASSUME BaseInv, NEW p \in Procs, Own(p), contested' \in BOOLEAN
  PROVE  BaseInv' /\ Alone(p)
<1>1. /\ Shape /\ p \in Procs \ dead /\ pc[p] = "own" /\ OnWay(p) /\ stale[p] = None
      /\ (~lock.exists => lock = NoLock) /\ UNCHANGED <<meta, log, dead, stale>>
  BY DEF BaseInv, Own, At, OnWay
<1>2. CASE lock.exists
  <2>1. PICK at \in Stamps : lock' = [lock EXCEPT !.owner = [pid |-> p, at |-> at]]
    BY <1>2 DEF Own
  <2>2. [pid |-> p, at |-> at] \in Owners
    BY DEF Owners
  <2>3. lock' \in Locks /\ lock'.exists /\ Goes(p, "read") /\ UNCHANGED work
    BY <1>1, <1>2, <2>1, <2>2 DEF Shape, Locks, Own
  <2>4. Alone(p) /\ Shape' /\ pc'[p] = "read" /\ stale'[p] = None /\ \A q \in Procs : SameWork(q)
    BY <1>1, <2>3, MovesOn DEF Places
  <2>5. OnWay(p)'
    BY <1>1, <2>4 DEF OnWay, SameWork
  <2> QED  BY <2>3, <2>4, <2>5, BaseStep
<1>3. CASE ~lock.exists
  <2>1. lock' = lock /\ lock' \in Locks /\ Goes(p, "remove") /\ Refused(p)
    BY <1>1, <1>3 DEF Own, Shape
  <2>2. Alone(p) /\ Shape' /\ pc'[p] = "remove" /\ stale'[p] = None /\ \A q \in Procs : q # p => SameWork(q)
    BY <1>1, <2>1, MovesOn DEF Places
  <2> QED  BY <1>1, <2>1, <2>2, OverOnWay, BaseStep
<1> QED  BY <1>2, <1>3

LEMMA SectionsOfType ==
  ASSUME NEW c \in Commands
  PROVE  SectionsOf(c) \in Seq(Sections) /\ SectionsOf(c) # <<>>
<1>1. c \in {"checkpoint", "verify", "complete", "attach", "detach", "attachFailed", "snapshot", "stop"}
  BY TasksAssumption
<1>2. \A a, b, d \in Sections :
        /\ <<a>> \in Seq(Sections) /\ <<a>> # <<>>
        /\ <<a, b>> \in Seq(Sections) /\ <<a, b>> # <<>>
        /\ <<a, b, d>> \in Seq(Sections) /\ <<a, b, d>> # <<>>
  OBVIOUS
<1>3. /\ "event" \in Sections /\ "attach" \in Sections /\ "detach" \in Sections /\ "stop" \in Sections
      /\ "attachFailed" \in Sections /\ "snapshot" \in Sections /\ c \in Sections
  BY <1>1 DEF Sections
<1>4. SectionsOf(c) \in {<<"event", "attach", "event">>, <<"detach", "event">>,
                        <<"attachFailed", "event">>, <<"stop", "event", "snapshot">>, <<c>>}
  BY DEF SectionsOf
<1> QED  BY <1>2, <1>3, <1>4

\* What a section makes of the metadata is metadata.
LEMMA UpdatedType ==
  ASSUME Shape, NEW p \in Procs, Section(p) \in Sections \ {"event"}, NEW m \in Meta
  PROVE  Updated(p, m) \in Meta
<1>1. seen[p] \in Meta /\ passed[p] \in BOOLEAN
  BY DEF Shape
<1>2. Verified(p) \in Verdict
  BY <1>1 DEF Verified, Verdict, Meta
<1>3. Checkpointed(p, m) \in Meta
  <2>1. [rev |-> m.checkpoint.rev + 1, by |-> p] \in Checkpoint
    BY DEF Meta, Checkpoint
  <2> QED  BY <2>1 DEF Checkpointed, Meta, Statuses
<1>4. VerifiedMeta(p, m) \in Meta
  BY <1>2 DEF VerifiedMeta, Meta
<1>5. Completed(p, m) \in Meta
  BY <1>2 DEF Completed, Meta, Statuses
<1>6. AttachedMeta(m) \in Meta /\ DetachedMeta(p, m) \in Meta
  BY <1>1 DEF AttachedMeta, DetachedMeta, Meta
<1>7. SnapshotMeta(p, m) \in Meta
  BY <1>1 DEF SnapshotMeta, Meta
<1>8. AttachFailedMeta(m) \in Meta /\ StoppedMeta(p, m) \in Meta
  BY DEF AttachFailedMeta, StoppedMeta, Meta, Statuses
<1> QED  BY <1>3, <1>4, <1>5, <1>6, <1>7, <1>8 DEF Updated, Sections

LEMMA StartBase ==
  ASSUME BaseInv, NEW p \in Procs, Start(p), contested' \in BOOLEAN
  PROVE  BaseInv' /\ Alone(p) /\ \A q \in Procs : q # p => SameWork(q)
<1>1. Shape /\ OnWay(p) /\ (~lock.exists => lock = NoLock)
  BY DEF BaseInv, Start, At
<1>2. PICK c \in Commands :
        /\ todo' = [todo EXCEPT ![p] = SectionsOf(c)]
        /\ seen' \in {seen, [seen EXCEPT ![p] = meta]}
        /\ \E ok \in BOOLEAN : passed' = [passed EXCEPT ![p] = ok]
  BY DEF Start
<1>3. /\ pc[p] = "idle" /\ p \notin dead /\ UNCHANGED <<meta, log, lock, dead, current, nextSeq, stale>>
      /\ pc' = [pc EXCEPT ![p] = "mkdir"] /\ stale[p] = None
  BY <1>1 DEF Start, At, Goes, disk, OnWay
<1>4. pc'[p] = "mkdir" /\ pc' \in [Procs -> Places] /\ Alone(p)
  BY <1>1, <1>3 DEF Shape, Places, Alone
<1>5. todo' \in [Procs -> Seq(Sections)] /\ todo'[p] # <<>>
  BY <1>1, <1>2, SectionsOfType DEF Shape
<1>6. Shape'
  <2>1. seen' \in [Procs -> Meta]
    BY <1>1, <1>2 DEF Shape
  <2>2. passed' \in [Procs -> BOOLEAN]
    BY <1>1, <1>2 DEF Shape
  <2> QED  BY <1>1, <1>3, <1>4, <1>5, <2>1, <2>2 DEF Shape
<1>7. OnWay(p)'
  BY <1>3, <1>4, <1>5 DEF OnWay
<1>8. \A q \in Procs : q # p => SameWork(q)
  BY <1>1, <1>2, <1>3 DEF Shape, SameWork
<1> QED  BY <1>1, <1>3, <1>4, <1>6, <1>7, <1>8, BaseStep

LEMMA RereadBase ==
  ASSUME BaseInv, NEW p \in Procs, Reread(p), contested' \in BOOLEAN
  PROVE  BaseInv' /\ Alone(p) /\ \A q \in Procs : q # p => SameWork(q)
<1>1. Shape /\ OnWay(p) /\ (~lock.exists => lock = NoLock)
  BY DEF BaseInv, Reread, At
<1>2. /\ pc[p] = "reread" /\ p \notin dead
      /\ UNCHANGED <<meta, log, lock, dead, todo, passed, current, nextSeq, stale>>
      /\ pc' = [pc EXCEPT ![p] = "mkdir"] /\ seen' = [seen EXCEPT ![p] = meta]
  BY DEF Reread, At, Goes, disk
<1>3. pc'[p] = "mkdir" /\ pc' \in [Procs -> Places] /\ Alone(p)
  BY <1>1, <1>2 DEF Shape, Places, Alone
<1>4. Shape' /\ OnWay(p)'
  BY <1>1, <1>2, <1>3 DEF Shape, OnWay
<1>5. \A q \in Procs : q # p => SameWork(q)
  BY <1>1, <1>2 DEF Shape, SameWork
<1> QED  BY <1>1, <1>2, <1>3, <1>4, <1>5, BaseStep

LEMMA ReadBase ==
  ASSUME BaseInv, NEW p \in Procs, Read(p), contested' \in BOOLEAN
  PROVE  BaseInv' /\ Alone(p) /\ \A q \in Procs : q # p => SameWork(q)
<1>1. /\ Shape /\ OnWay(p) /\ p \in Procs \ dead /\ pc[p] = "read" /\ stale[p] = None /\ todo[p] # <<>>
      /\ UNCHANGED <<meta, log, lock, dead, stale>> /\ lock' \in Locks /\ (~lock'.exists => lock' = NoLock)
  BY DEF BaseInv, Read, At, disk, OnWay, Shape
<1>2. CASE Accepts(p, meta)
  <2> DEFINE ends == Section(p) \in AppendsFirst
  <2>1. /\ current' = [current EXCEPT ![p] = IF Section(p) = "event" THEN @ ELSE meta]
        /\ nextSeq' = [nextSeq EXCEPT ![p] = IF ends THEN Len(log) ELSE 0]
        /\ pc' = [pc EXCEPT ![p] = IF ends THEN "append" ELSE "write"]
        /\ UNCHANGED <<todo, seen, passed>>
    BY <1>2 DEF Read, Goes
  <2>2. /\ pc'[p] = (IF ends THEN "append" ELSE "write") /\ pc' \in [Procs -> Places] /\ Alone(p)
    BY <1>1, <2>1 DEF Shape, Places, Alone
  <2>3. current' \in [Procs -> Meta] /\ nextSeq' \in [Procs -> Nat]
    BY <1>1, <2>1 DEF Shape
  <2>4. Shape'
    BY <1>1, <2>1, <2>2, <2>3 DEF Shape
  <2>5. OnWay(p)'
    <3>1. Section(p)' = Section(p)
      BY <2>1 DEF Section
    <3> QED  BY <1>1, <2>1, <2>2, <3>1 DEF OnWay, AppendsFirst
  <2>6. \A q \in Procs : q # p => SameWork(q)
    BY <1>1, <2>1 DEF Shape, SameWork
  <2> QED  BY <1>1, <2>2, <2>4, <2>5, <2>6, BaseStep
<1>3. CASE ~Accepts(p, meta)
  <2>1. Goes(p, "remove") /\ Refused(p)
    BY <1>3 DEF Read
  <2>2. Alone(p) /\ Shape' /\ pc'[p] = "remove" /\ stale'[p] = None /\ \A q \in Procs : q # p => SameWork(q)
    BY <1>1, <2>1, MovesOn DEF Places
  <2> QED  BY <1>1, <2>2, OverOnWay, BaseStep
<1> QED  BY <1>2, <1>3

LEMMA AppendEventBase ==
  ASSUME BaseInv, NEW p \in Procs, AppendEvent(p), contested' \in BOOLEAN
  PROVE  BaseInv' /\ Alone(p) /\ \A q \in Procs : q # p => SameWork(q)
<1>1. /\ Shape /\ OnWay(p) /\ p \in Procs \ dead /\ pc[p] = "append" /\ stale[p] = None /\ todo[p] # <<>>
      /\ UNCHANGED <<meta, lock, dead, seen, passed, current, stale>>
      /\ log' = Append(log, nextSeq[p]) /\ nextSeq' = [nextSeq EXCEPT ![p] = 0]
      /\ (~lock'.exists => lock' = NoLock)
  BY DEF BaseInv, AppendEvent, At, OnWay
<1>2. log' \in Seq(Nat) /\ nextSeq' \in [Procs -> Nat]
  BY <1>1 DEF Shape
<1>3. CASE Section(p) = "event"
  <2>1. todo' = [todo EXCEPT ![p] = Tail(todo[p])] /\ pc' = [pc EXCEPT ![p] = "remove"]
    BY <1>3 DEF AppendEvent, Goes
  <2>2. pc'[p] = "remove" /\ pc' \in [Procs -> Places] /\ Alone(p)
    BY <1>1, <2>1 DEF Shape, Places, Alone
  <2>3. todo' \in [Procs -> Seq(Sections)]
    <3>1. todo[p] \in Seq(Sections)
      BY <1>1 DEF Shape
    <3>2. Tail(todo[p]) \in Seq(Sections)
      BY <1>1, <3>1
    <3> QED  BY <1>1, <2>1, <3>2 DEF Shape
  <2>4. Shape'
    BY <1>1, <1>2, <2>2, <2>3 DEF Shape
  <2>5. \A q \in Procs : q # p => SameWork(q)
    BY <1>1, <2>1 DEF Shape, SameWork
  <2> QED  BY <1>1, <2>2, <2>4, <2>5, OverOnWay, BaseStep
<1>4. CASE Section(p) # "event"
  <2>1. todo' = todo /\ pc' = [pc EXCEPT ![p] = "write"]
    BY <1>4 DEF AppendEvent, Goes
  <2>2. pc'[p] = "write" /\ pc' \in [Procs -> Places] /\ Alone(p)
    BY <1>1, <2>1 DEF Shape, Places, Alone
  <2>3. Shape'
    BY <1>1, <1>2, <2>1, <2>2 DEF Shape
  <2>4. OnWay(p)'
    <3>1. Section(p)' = Section(p)
      BY <2>1 DEF Section
    <3> QED  BY <1>1, <1>4, <2>1, <2>2, <3>1 DEF OnWay
  <2>5. \A q \in Procs : q # p => SameWork(q)
    BY <1>1, <2>1 DEF Shape, SameWork
  <2> QED  BY <1>1, <2>2, <2>3, <2>4, <2>5, BaseStep
<1> QED  BY <1>3, <1>4

\* The section of a process about to write.
LEMMA WritesSection ==
  ASSUME BaseInv, NEW p \in Procs \ dead, pc[p] = "write"
  PROVE  todo[p] # <<>> /\ todo[p] \in Seq(Sections) /\ Section(p) \in Sections \ {"event"}
<1>1. todo[p] # <<>> /\ todo[p] \in Seq(Sections) /\ Section(p) # "event"
  BY DEF BaseInv, Shape, OnWay
<1>2. Head(todo[p]) \in Sections
  BY <1>1
<1> QED  BY <1>1, <1>2 DEF Section

LEMMA WriteMetaBase ==
  ASSUME BaseInv, NEW p \in Procs, WriteMeta(p), contested' \in BOOLEAN
  PROVE  BaseInv' /\ Alone(p) /\ \A q \in Procs : q # p => SameWork(q)
<1>1. /\ Shape /\ OnWay(p) /\ p \in Procs \ dead /\ pc[p] = "write" /\ stale[p] = None
      /\ UNCHANGED <<log, lock, dead, nextSeq, stale>> /\ (~lock'.exists => lock' = NoLock)
      /\ meta' = Updated(p, current[p]) /\ todo' = [todo EXCEPT ![p] = Behind(p)]
      /\ seen' = [seen EXCEPT ![p] = FreshMeta] /\ passed' = [passed EXCEPT ![p] = FALSE]
      /\ current' = [current EXCEPT ![p] = FreshMeta] /\ pc' = [pc EXCEPT ![p] = "remove"]
  BY DEF BaseInv, WriteMeta, At, Goes, OnWay
<1>2. todo[p] # <<>> /\ todo[p] \in Seq(Sections) /\ Section(p) \in Sections \ {"event"}
  BY <1>1, WritesSection
<1>3. meta' \in Meta
  <2>1. current[p] \in Meta
    BY <1>1 DEF Shape
  <2> QED  BY <1>1, <1>2, <2>1, UpdatedType
<1>4. pc'[p] = "remove" /\ pc' \in [Procs -> Places] /\ Alone(p)
  BY <1>1 DEF Shape, Places, Alone
<1>5. todo' \in [Procs -> Seq(Sections)]
  <2>1. Tail(todo[p]) \in Seq(Sections)
    BY <1>2
  <2>2. Append(Tail(todo[p]), "event") \in Seq(Sections)
    BY <2>1 DEF Sections
  <2>3. Behind(p) \in Seq(Sections)
    BY <2>1, <2>2 DEF Behind
  <2> QED  BY <1>1, <2>3 DEF Shape
<1>6. FreshMeta \in Meta
  BY FreshIsMeta
<1>7. seen' \in [Procs -> Meta] /\ passed' \in [Procs -> BOOLEAN] /\ current' \in [Procs -> Meta]
  BY <1>1, <1>6 DEF Shape
<1>8. Shape'
  BY <1>1, <1>3, <1>4, <1>5, <1>7 DEF Shape
<1>9. \A q \in Procs : q # p => SameWork(q)
  BY <1>1 DEF Shape, SameWork
<1> QED  BY <1>1, <1>4, <1>8, <1>9, OverOnWay, BaseStep

LEMMA CrashBase ==
  ASSUME BaseInv, NEW p \in Procs, Crash(p), contested' \in BOOLEAN
  PROVE  BaseInv' /\ \A q \in Procs : q # p => SameWork(q)
<1>1. /\ Shape /\ (~lock.exists => lock = NoLock) /\ UNCHANGED <<meta, log, lock, pc>>
      /\ dead' = dead \cup {p} /\ p \in Mortal
      /\ todo' = [todo EXCEPT ![p] = <<>>]
      /\ seen' = [seen EXCEPT ![p] = FreshMeta] /\ passed' = [passed EXCEPT ![p] = FALSE]
      /\ current' = [current EXCEPT ![p] = FreshMeta] /\ nextSeq' = [nextSeq EXCEPT ![p] = 0]
      /\ stale' = [stale EXCEPT ![p] = None]
  BY DEF BaseInv, Crash, disk
<1>2. FreshMeta \in Meta /\ <<>> \in Seq(Sections)
  <2>1. <<>> \in Seq(Sections)
    OBVIOUS
  <2> QED  BY <2>1, FreshIsMeta
<1>3. todo' \in [Procs -> Seq(Sections)] /\ stale' \in [Procs -> Owners \cup {None}]
  BY <1>1, <1>2 DEF Shape
<1>4. /\ seen' \in [Procs -> Meta] /\ passed' \in [Procs -> BOOLEAN] /\ current' \in [Procs -> Meta]
      /\ nextSeq' \in [Procs -> Nat]
  BY <1>1, <1>2 DEF Shape
<1>5. Shape'
  BY <1>1, <1>3, <1>4 DEF Shape
<1>6. \A q \in Procs : q # p => SameWork(q) /\ stale'[q] = stale[q]
  BY <1>1 DEF Shape, SameWork
<1>7. ASSUME NEW q \in Procs \ dead'  PROVE  OnWay(q)'
  <2>1. q \in Procs /\ q # p /\ q \notin dead /\ OnWay(q) /\ stale'[q] = stale[q] /\ todo'[q] = todo[q] /\ pc'[q] = pc[q]
    BY <1>1, <1>6, <1>7 DEF BaseInv, SameWork
  <2>2. Section(q)' = Section(q)
    BY <2>1 DEF Section
  <2>3. Gone(stale[q].pid) => Gone(stale[q].pid)'
    BY <1>1, <2>1 DEF Gone
  <2> QED  BY <2>1, <2>2, <2>3 DEF OnWay
<1> QED  BY <1>1, <1>5, <1>6, <1>7 DEF BaseInv

LEMMA StutterBase ==
  ASSUME BaseInv, UNCHANGED vars
  PROVE  BaseInv'
<1>1. UNCHANGED <<meta, log, lock, dead, pc, todo, seen, passed, current, nextSeq, stale, contested>>
  BY DEF vars, disk, work
<1>2. Shape'
  BY <1>1 DEF BaseInv, Shape
<1>3. \A q \in Procs \ dead : OnWay(q)'
  <2>1. SUFFICES ASSUME NEW q \in Procs \ dead  PROVE OnWay(q)'
    OBVIOUS
  <2>2. Section(q)' = Section(q) /\ (Gone(stale[q].pid) => Gone(stale[q].pid)')
    BY <1>1 DEF Section, Gone
  <2> QED  BY <1>1, <2>2 DEF BaseInv, OnWay
<1> QED  BY <1>1, <1>2, <1>3 DEF BaseInv, NoLock

\* Every step keeps it.
LEMMA BaseKept ==
  ASSUME BaseInv, [Next]_vars
  PROVE  BaseInv'
<1>1. CASE Next
  <2>1. contested' \in BOOLEAN
    BY <1>1 DEF Next, BaseInv, Shape
  <2>2. ASSUME NEW p \in Procs, Step(p)  PROVE  BaseInv'
    BY <2>1, <2>2, StartBase, RereadBase, MkdirBase, ReadOwnerBase, KillBase, ClaimBase, CheckBase,
       UnclaimBase, MkdirAgainBase, OwnBase, UnlinkOwnerBase, UnlinkClaimBase, RmdirBase, VanishedBase,
       ReadBase, AppendEventBase, WriteMetaBase DEF Step
  <2> QED  BY <1>1, <2>1, <2>2, CrashBase DEF Next
<1>2. CASE UNCHANGED vars
  BY <1>2, StutterBase
<1> QED  BY <1>1, <1>2

LEMMA AlwaysBase == Spec => []BaseInv
<1>1. Init => BaseInv  BY BaseInit
<1>2. BaseInv /\ [Next]_vars => BaseInv'  BY BaseKept
<1> QED  BY <1>1, <1>2, PTL DEF Spec

-----------------------------------------------------------------------------
(* The lock, short of two reclaimers *)

Named(p) == lock.owner # None /\ lock.owner.pid = p

\* The name in the lock is that of a live process inside, or of a dead one.
OwnerOf(p) ==
  Named(p) => pc[p] \notin {"own", "rest"} /\ (p \notin dead => Holding(p))

\* A reclaimer that has begun to remove the lock still finds in it the name it checked.
ReclaimerOf(p) == pc[p] = "remove" /\ stale[p] # None => lock.owner = stale[p]

\* Whoever the lock is with: a live process inside, a reclaimer that has removed the
\* name it found, or a dead process whose lock is not reclaimed yet or never will be.
Occupant(p) ==
  \/ p \notin dead /\ Holding(p)
  \/ pc[p] = "rest"
  \/ p \in dead /\ (pc[p] = "own" \/ Named(p))

OneOccupant ==
  /\ \A p \in Procs : Occupant(p) => lock.exists
  /\ \A p, q \in Procs : Occupant(p) /\ Occupant(q) => p = q

LockInv ==
  /\ \A p \in Procs : OwnerOf(p)
  /\ \A p \in Procs \ dead : ReclaimerOf(p)
  /\ OneOccupant

LEMMA LockInvInit == Init => LockInv
BY DEF Init, LockInv, OwnerOf, ReclaimerOf, OneOccupant, Occupant, Holding, Reclaiming, Named, NoLock

LEMMA NamedOccupies ==
  ASSUME LockInv, NEW p \in Procs, Named(p)
  PROVE  Occupant(p)
BY DEF LockInv, OwnerOf, Occupant

\* The name in an occupied lock is the occupant's.
LEMMA OccupantNamed ==
  ASSUME BaseInv, LockInv, NEW p \in Procs, Occupant(p), lock.owner # None
  PROVE  Named(p)
<1>1. lock.owner.pid \in Procs
  BY DEF BaseInv, Shape, Locks, Owners
<1>2. Named(lock.owner.pid)
  BY DEF Named
<1> QED  BY <1>1, <1>2, NamedOccupies DEF LockInv, OneOccupant

\* A step that leaves the name: only what p itself has of the lock
\* can change.
LEMMA SameOwner ==
  ASSUME LockInv, NEW p \in Procs, Alone(p), lock'.owner = lock.owner,
         OwnerOf(p)', ReclaimerOf(p)',
         Occupant(p)' => lock'.exists /\ (Occupant(p) \/ ~lock.exists),
         lock.exists /\ ~lock'.exists => Occupant(p)
  PROVE  LockInv'
<1>1. ASSUME NEW q \in Procs, q # p
      PROVE  /\ Named(q)' <=> Named(q)
             /\ Holding(q)' <=> Holding(q)
             /\ Reclaiming(q)' <=> Reclaiming(q)
             /\ pc'[q] = pc[q] /\ stale'[q] = stale[q] /\ dead' = dead
  BY <1>1 DEF Alone, Named, Holding, Reclaiming
<1>2. \A q \in Procs : OwnerOf(q)'
  BY <1>1 DEF LockInv, OwnerOf
<1>3. ASSUME NEW q \in Procs \ dead', q # p  PROVE  ReclaimerOf(q)'
  <2>1. q \in Procs \ dead /\ ReclaimerOf(q)
    BY <1>1, <1>3 DEF LockInv
  <2> QED  BY <1>1, <1>3, <2>1 DEF ReclaimerOf
<1>4. \A q \in Procs : q # p => (Occupant(q)' <=> Occupant(q))
  BY <1>1 DEF Occupant
<1>5. OneOccupant'
  BY <1>4 DEF LockInv, OneOccupant
<1> QED  BY <1>2, <1>3, <1>5 DEF LockInv

\* Steps of a process that has nothing of the lock and gets nothing of it.
LEMMA OutsideKeepsLock ==
  ASSUME BaseInv, LockInv, NEW p \in Procs, Alone(p), lock'.owner = lock.owner, lock'.exists = lock.exists,
         ~Holding(p), pc[p] # "rest",
         pc'[p] \in {"mkdir", "read owner", "kill", "claim", "unclaim", "mkdir again", "busy"}
  PROVE  LockInv'
<1>1. ~Named(p)
  BY DEF LockInv, OwnerOf, Alone
<1>2. ~Named(p)' /\ dead' = dead /\ p \notin dead
  BY <1>1 DEF Named, Alone
<1>3. OwnerOf(p)' /\ ReclaimerOf(p)' /\ ~Occupant(p)'
  BY <1>2 DEF OwnerOf, ReclaimerOf, Reclaiming, Occupant, Holding
<1> QED  BY <1>3, SameOwner

\* Steps of a process inside that stays there, with the lock as it is.
LEMMA InsideKeepsLock ==
  ASSUME BaseInv, LockInv, NEW p \in Procs, Alone(p), lock' = lock,
         pc[p] \in {"read", "append", "write"}, pc'[p] \in {"append", "write", "remove"},
         stale'[p] = None
  PROVE  LockInv'
<1>1. dead' = dead /\ p \notin dead /\ Holding(p) /\ Holding(p)'
  BY DEF Alone, Holding
<1>2. OwnerOf(p)' /\ ReclaimerOf(p)'
  BY <1>1 DEF OwnerOf, ReclaimerOf, Reclaiming
<1>3. Occupant(p) /\ lock.exists
  BY <1>1 DEF Occupant, LockInv, OneOccupant
<1> QED  BY <1>2, <1>3, SameOwner

\* Whoever makes the directory is the only one in it.
LEMMA EntersLock ==
  ASSUME BaseInv, LockInv, NEW p \in Procs, Alone(p), ~lock.exists,
         lock' = [NoLock EXCEPT !.exists = TRUE], pc'[p] = "own", stale'[p] = None
  PROVE  LockInv'
<1>1. lock = NoLock
  BY DEF BaseInv
<1>2. lock'.exists /\ lock'.owner = None /\ lock.owner = None
  BY <1>1 DEF NoLock
<1>3. OwnerOf(p)' /\ ReclaimerOf(p)'
  BY <1>2 DEF OwnerOf, ReclaimerOf, Reclaiming, Named
<1> QED  BY <1>2, <1>3, SameOwner

LEMMA MkdirKeepsLock ==
  ASSUME BaseInv, LockInv, NEW p \in Procs, Mkdir(p), Alone(p)
  PROVE  LockInv'
<1>1. /\ pc[p] = "mkdir" /\ ~Holding(p) /\ stale[p] = None /\ stale'[p] = stale[p]
  BY DEF Mkdir, At, Holding, BaseInv, OnWay
<1>2. CASE ~lock.exists
  <2>1. lock' = [NoLock EXCEPT !.exists = TRUE] /\ pc'[p] = "own"
    BY <1>2 DEF Mkdir, Goes, BaseInv, Shape
  <2> QED  BY <1>1, <1>2, <2>1, EntersLock
<1>3. CASE lock.exists
  <2>1. lock' = lock /\ pc'[p] = "read owner"
    BY <1>3 DEF Mkdir, Goes, BaseInv, Shape
  <2> QED  BY <1>1, <2>1, OutsideKeepsLock
<1> QED  BY <1>2, <1>3

LEMMA MkdirAgainKeepsLock ==
  ASSUME BaseInv, LockInv, NEW p \in Procs, MkdirAgain(p), Alone(p)
  PROVE  LockInv'
<1>1. /\ pc[p] = "mkdir again" /\ ~Holding(p) /\ stale'[p] = None
  BY DEF MkdirAgain, At, Holding, BaseInv, Shape
<1>2. CASE ~lock.exists
  <2>1. lock' = [NoLock EXCEPT !.exists = TRUE] /\ pc'[p] = "own"
    BY <1>2 DEF MkdirAgain, Goes, BaseInv, Shape
  <2> QED  BY <1>1, <1>2, <2>1, EntersLock
<1>3. CASE lock.exists
  <2>1. lock' = lock /\ pc'[p] = "busy"
    BY <1>3 DEF MkdirAgain, Busy, Goes, BaseInv, Shape
  <2> QED  BY <1>1, <2>1, OutsideKeepsLock
<1> QED  BY <1>2, <1>3

LEMMA ReadOwnerKeepsLock ==
  ASSUME BaseInv, LockInv, NEW p \in Procs, ReadOwner(p) \/ Kill(p), Alone(p)
  PROVE  LockInv'
<1>1. /\ pc[p] \in {"read owner", "kill"} /\ ~Holding(p) /\ lock' = lock
      /\ pc'[p] \in {"kill", "claim", "busy"}
  BY DEF ReadOwner, Kill, Busy, Goes, At, Holding, BaseInv, Shape, disk
<1> QED  BY <1>1, OutsideKeepsLock

LEMMA ClaimKeepsLock ==
  ASSUME BaseInv, LockInv, NEW p \in Procs, Claim(p), Alone(p)
  PROVE  LockInv'
<1>1. pc[p] = "claim" /\ ~Holding(p) /\ p \notin dead /\ dead' = dead
  BY DEF Claim, At, Holding, Alone
<1>2. CASE lock.exists /\ lock.claim = None
  <2>1. lock' = [lock EXCEPT !.claim = p] /\ pc'[p] = "check" /\ stale'[p] = stale[p]
    BY <1>2 DEF Claim, Goes, BaseInv, Shape
  <2>2. lock'.exists /\ lock'.owner = lock.owner /\ lock'.claim = p
    BY <1>2, <2>1 DEF BaseInv, Shape, Locks
  <2>3. ~Named(p)
    BY <1>1 DEF LockInv, OwnerOf
  <2>4. OwnerOf(p)' /\ ReclaimerOf(p)' /\ ~Occupant(p)'
    BY <1>1, <2>1, <2>2, <2>3 DEF OwnerOf, ReclaimerOf, Occupant, Holding, Named
  <2> QED  BY <2>2, <2>4, SameOwner
<1>3. CASE ~(lock.exists /\ lock.claim = None)
  <2>1. lock' = lock /\ pc'[p] = "busy"
    BY <1>3 DEF Claim, Busy, Goes, BaseInv, Shape
  <2> QED  BY <1>1, <2>1, OutsideKeepsLock
<1> QED  BY <1>2, <1>3

LEMMA CheckKeepsLock ==
  ASSUME BaseInv, LockInv, NEW p \in Procs, Check(p), Alone(p)
  PROVE  LockInv'
<1>1. pc[p] = "check" /\ ~Holding(p) /\ p \notin dead /\ dead' = dead /\ lock' = lock /\ stale[p] # None
  BY DEF Check, At, Holding, Alone, disk, BaseInv, OnWay
<1>2. CASE lock.owner = stale[p]
  <2>1. pc'[p] = "remove" /\ stale'[p] = stale[p]
    BY <1>2 DEF Check, Goes, BaseInv, Shape
  <2>2. ~Named(p)
    BY <1>1 DEF LockInv, OwnerOf
  <2>3. OwnerOf(p)' /\ ReclaimerOf(p)' /\ ~Occupant(p)'
    BY <1>1, <1>2, <2>1, <2>2 DEF OwnerOf, ReclaimerOf, Occupant, Holding, Named
  <2> QED  BY <1>1, <2>3, SameOwner
<1>3. CASE lock.owner # stale[p]
  <2>1. pc'[p] = "unclaim"
    BY <1>3 DEF Check, Goes, BaseInv, Shape
  <2> QED  BY <1>1, <2>1, OutsideKeepsLock
<1> QED  BY <1>2, <1>3

LEMMA UnclaimKeepsLock ==
  ASSUME BaseInv, LockInv, NEW p \in Procs, Unclaim(p), Alone(p)
  PROVE  LockInv'
<1>1. pc[p] = "unclaim" /\ ~Holding(p) /\ lock' = [lock EXCEPT !.claim = None]
      /\ pc'[p] \in {"mkdir again", "busy"}
  BY DEF Unclaim, Busy, Goes, At, Holding, BaseInv, Shape
<1>2. lock'.exists = lock.exists /\ lock'.owner = lock.owner
  BY <1>1 DEF BaseInv, Shape, Locks
<1> QED  BY <1>1, <1>2, OutsideKeepsLock

\* The one who writes its name is alone in the lock, in which there is no name.
LEMMA OwnKeepsLock ==
  ASSUME BaseInv, LockInv, NEW p \in Procs, Own(p), Alone(p)
  PROVE  LockInv'
<1>1. /\ pc[p] = "own" /\ p \notin dead /\ dead' = dead /\ stale[p] = None /\ stale'[p] = None
  BY DEF Own, At, Alone, BaseInv, OnWay
<1>2. Occupant(p) /\ lock.exists
  BY <1>1 DEF Occupant, Holding, LockInv, OneOccupant
<1>3. lock.owner = None
  BY <1>1, <1>2, OccupantNamed DEF LockInv, OwnerOf
<1>4. PICK at \in Stamps : lock' = [lock EXCEPT !.owner = [pid |-> p, at |-> at]]
  BY <1>2 DEF Own
<1>5. /\ pc'[p] = "read" /\ lock'.exists /\ lock'.owner = [pid |-> p, at |-> at]
      /\ lock'.owner.pid = p
  BY <1>2, <1>4 DEF Own, Goes, BaseInv, Shape, Locks
<1>6. \A q \in Procs : OwnerOf(q)'
  BY <1>1, <1>5 DEF OwnerOf, Named, Holding
<1>7. ASSUME NEW q \in Procs \ dead'  PROVE  ReclaimerOf(q)'
  <2>1. CASE q = p
    BY <1>1, <1>5, <2>1 DEF ReclaimerOf, Reclaiming
  <2>2. CASE q # p
    <3>1. q \in Procs \ dead /\ pc'[q] = pc[q] /\ stale'[q] = stale[q] /\ OnWay(q) /\ ReclaimerOf(q)
      BY <1>1, <2>2 DEF Alone, BaseInv, LockInv
    <3>2. ~(pc'[q] = "remove" /\ stale'[q] # None)
      BY <1>3, <3>1 DEF ReclaimerOf
    <3> QED  BY <3>2 DEF ReclaimerOf
  <2> QED  BY <2>1, <2>2
<1>8. ASSUME NEW q \in Procs, Occupant(q)', q # p  PROVE  Occupant(q)
  <2>1. pc'[q] = pc[q] /\ stale'[q] = stale[q] /\ ~Named(q)'
    BY <1>5, <1>8 DEF Alone, Named
  <2> QED  BY <1>1, <1>8, <2>1 DEF Occupant, Holding
<1>9. OneOccupant'
  BY <1>2, <1>5, <1>8 DEF LockInv, OneOccupant
<1> QED  BY <1>6, <1>7, <1>9 DEF LockInv

\* The name a reclaimer removes is that of a dead process, which leaves nothing else of
\* itself in the lock.
LEMMA RemovesDead ==
  ASSUME BaseInv, LockInv, NEW p \in Procs \ dead, pc[p] = "remove", stale[p] # None
  PROVE  \E r \in dead : r \in Procs /\ r # p /\ Occupant(r) /\ pc[r] \notin {"own", "rest"}
<1> DEFINE r == stale[p].pid
<1>1. lock.owner = stale[p] /\ OnWay(p)
  BY DEF LockInv, ReclaimerOf, BaseInv
<1>2. r \in Procs
  BY DEF BaseInv, Shape, Owners
<1>3. Named(r) /\ Gone(r)
  BY <1>1 DEF Named, OnWay
<1> HIDE DEF r
<1>4. OwnerOf(r)
  BY <1>2 DEF LockInv
<1>5. r \in dead
  BY <1>3, <1>4 DEF OwnerOf, Gone, Holding
<1>6. pc[r] \notin {"own", "rest"} /\ Occupant(r)
  BY <1>2, <1>3, <1>4, NamedOccupies DEF OwnerOf
<1> QED  BY <1>2, <1>5, <1>6

LEMMA UnlinkOwnerKeepsLock ==
  ASSUME BaseInv, LockInv, NEW p \in Procs, UnlinkOwner(p), Alone(p), ~TwoReclaim
  PROVE  LockInv'
<1>1. /\ pc[p] \in {"remove", "rest"} /\ p \notin dead /\ dead' = dead /\ stale'[p] = stale[p]
      /\ lock' = [lock EXCEPT !.owner = None] /\ pc'[p] = "rest" /\ lock.exists
      /\ (pc[p] = "remove" \/ lock.owner # None)
  BY DEF UnlinkOwner, Removing, Goes, BaseInv, Shape
<1>2. lock'.exists /\ lock'.owner = None
  BY <1>1 DEF BaseInv, Shape, Locks
<1>3. pc[p] = "remove"
  <2>1. ASSUME pc[p] = "rest"  PROVE  FALSE
    <3>1. Occupant(p)
      BY <2>1 DEF Occupant
    <3>2. Named(p)
      BY <1>1, <2>1, <3>1, OccupantNamed
    <3> QED  BY <2>1, <3>2 DEF LockInv, OwnerOf
  <2> QED  BY <1>1, <2>1
<1>4. \A q \in Procs : OwnerOf(q)'
  BY <1>2 DEF OwnerOf, Named
<1>5. ASSUME NEW q \in Procs \ dead'  PROVE  ReclaimerOf(q)'
  <2>1. ASSUME pc'[q] = "remove", stale'[q] # None  PROVE  FALSE
    <3>1. q # p /\ q \in Procs \ dead
      BY <1>1, <2>1
    <3>2. pc[q] = "remove" /\ stale[q] # None /\ ReclaimerOf(q) /\ OnWay(q)
      BY <2>1, <3>1 DEF Alone, LockInv, BaseInv
    <3>3. lock.owner = stale[q] /\ Reclaiming(q) /\ Gone(stale[q].pid)
      BY <3>2 DEF ReclaimerOf, Reclaiming, OnWay
    <3>4. CASE stale[p] # None
      <4>1. ReclaimerOf(p)
        BY <1>1 DEF LockInv
      <4>2. Reclaiming(p)
        BY <1>3, <3>4, <4>1 DEF ReclaimerOf, Reclaiming
      <4> QED  BY <1>1, <3>1, <3>3, <4>2 DEF TwoReclaim
    <3>5. CASE stale[p] = None
      <4>1. Occupant(p)
        BY <1>1, <1>3, <3>5 DEF Occupant, Holding
      <4>2. Named(p)
        BY <3>2, <3>3, <4>1, OccupantNamed
      <4>3. stale[q].pid = p
        BY <3>3, <4>2 DEF Named
      <4> QED  BY <1>1, <1>3, <3>3, <4>3 DEF Gone
    <3> QED  BY <3>4, <3>5
  <2> QED  BY <2>1 DEF ReclaimerOf
<1>6. ASSUME NEW q \in Procs, Occupant(q)', q # p  PROVE  FALSE
  <2>1. pc'[q] = pc[q] /\ stale'[q] = stale[q] /\ ~Named(q)'
    BY <1>2, <1>6 DEF Alone, Named
  <2>2. (q \notin dead /\ Holding(q)) \/ pc[q] = "rest" \/ (q \in dead /\ pc[q] = "own")
    BY <1>1, <1>6, <2>1 DEF Occupant, Holding
  <2>3. Occupant(q)
    BY <2>2 DEF Occupant
  <2>4. CASE stale[p] = None
    <3>1. Occupant(p)
      BY <1>1, <1>3, <2>4 DEF Occupant, Holding
    <3> QED  BY <1>6, <2>3, <3>1 DEF LockInv, OneOccupant
  <2>5. CASE stale[p] # None
    <3>1. PICK r \in dead : r \in Procs /\ r # p /\ Occupant(r) /\ pc[r] \notin {"own", "rest"}
      BY <1>1, <1>3, <2>5, RemovesDead
    <3>2. q = r
      BY <2>3, <3>1 DEF LockInv, OneOccupant
    <3> QED  BY <2>2, <3>1, <3>2
  <2> QED  BY <2>4, <2>5
<1>7. OneOccupant'
  BY <1>2, <1>6 DEF OneOccupant
<1> QED  BY <1>4, <1>5, <1>7 DEF LockInv

LEMMA UnlinkClaimKeepsLock ==
  ASSUME BaseInv, LockInv, NEW p \in Procs, UnlinkClaim(p), Alone(p)
  PROVE  LockInv'
<1>1. /\ p \notin dead /\ dead' = dead /\ pc' = pc /\ stale' = stale /\ lock' = [lock EXCEPT !.claim = None]
  BY DEF UnlinkClaim, Removing
<1>2. lock'.exists = lock.exists /\ lock'.owner = lock.owner /\ lock'.claim = None
  BY <1>1 DEF BaseInv, Shape, Locks
<1>3. /\ Named(p)' <=> Named(p)
      /\ Holding(p)' <=> Holding(p)
  BY <1>1, <1>2 DEF Named, Holding
<1>4. OwnerOf(p)' /\ (Occupant(p)' <=> Occupant(p))
  BY <1>1, <1>3 DEF LockInv, OwnerOf, Occupant
<1>5. ReclaimerOf(p)'
  BY <1>1, <1>2 DEF LockInv, ReclaimerOf
<1> QED  BY <1>2, <1>4, <1>5, SameOwner DEF LockInv, OneOccupant

LEMMA RmdirKeepsLock ==
  ASSUME BaseInv, LockInv, NEW p \in Procs, Rmdir(p), Alone(p)
  PROVE  LockInv'
<1>1. /\ pc[p] = "rest" /\ p \notin dead /\ dead' = dead
      /\ lock = [NoLock EXCEPT !.exists = TRUE] /\ lock' = NoLock /\ pc'[p] = AfterRemoval(p)
  BY DEF Rmdir, At, Goes, BaseInv, Shape
<1>2. lock.owner = None /\ lock'.owner = None /\ ~lock'.exists /\ Occupant(p)
  BY <1>1 DEF NoLock, Occupant
<1>3. pc'[p] \in {"unclaim", "done", "reread", "mkdir"}
  BY <1>1 DEF AfterRemoval
<1>4. OwnerOf(p)' /\ ReclaimerOf(p)' /\ ~Occupant(p)'
  BY <1>1, <1>2, <1>3 DEF OwnerOf, ReclaimerOf, Reclaiming, Occupant, Holding, Named
<1> QED  BY <1>2, <1>4, SameOwner

\* Nobody else removes the lock somebody is in.
LEMMA NothingVanishes ==
  ASSUME BaseInv, LockInv, NEW p \in Procs
  PROVE  ~Vanished(p)
<1> SUFFICES ASSUME Vanished(p)  PROVE  FALSE
  OBVIOUS
<1>1. p \notin dead /\ pc[p] \in {"remove", "rest"} /\ ~lock.exists /\ lock.owner = None
  BY DEF Vanished, Removing, BaseInv, NoLock
<1>2. ~Occupant(p) /\ ReclaimerOf(p)
  BY <1>1 DEF LockInv, OneOccupant
<1> QED  BY <1>1, <1>2 DEF Occupant, Holding, ReclaimerOf

LEMMA CrashKeepsLock ==
  ASSUME BaseInv, LockInv, NEW p \in Procs, Crash(p)
  PROVE  LockInv'
<1>1. /\ dead' = dead \cup {p} /\ p \notin dead /\ lock' = lock /\ pc' = pc
      /\ stale' = [stale EXCEPT ![p] = None] /\ \A q \in Procs : q # p => stale'[q] = stale[q]
  BY DEF Crash, disk, BaseInv, Shape
<1>2. \A q \in Procs : Named(q)' <=> Named(q)
  BY <1>1 DEF Named
<1>3. \A q \in Procs : q # p => (Holding(q)' <=> Holding(q)) /\ (Reclaiming(q)' <=> Reclaiming(q))
  BY <1>1 DEF Holding, Reclaiming
<1>4. \A q \in Procs : OwnerOf(q)'
  BY <1>1, <1>2, <1>3 DEF LockInv, OwnerOf
<1>5. \A q \in Procs \ dead' : ReclaimerOf(q)'
  BY <1>1, <1>3 DEF LockInv, ReclaimerOf
<1>6. ASSUME NEW q \in Procs, Occupant(q)'  PROVE  Occupant(q)
  <2>1. CASE q # p
    BY <1>1, <1>2, <1>3, <1>6, <2>1 DEF Occupant
  <2>2. CASE q = p
    <3>1. pc[p] \in {"rest", "own"} \/ Named(p)
      BY <1>1, <1>2, <1>6, <2>2 DEF Occupant
    <3> QED  BY <1>1, <2>2, <3>1, NamedOccupies DEF Occupant, Holding
  <2> QED  BY <2>1, <2>2
<1>7. OneOccupant'
  BY <1>1, <1>6 DEF LockInv, OneOccupant
<1> QED  BY <1>4, <1>5, <1>7 DEF LockInv

-----------------------------------------------------------------------------
(* The records, short of two reclaimers *)

\* What a process inside has read is still so.
ReadOf(p) ==
  /\ pc[p] \in {"append", "write"} /\ Section(p) \in {"verify", "complete"} =>
       seen[p].checkpoint = current[p].checkpoint
  /\ pc[p] = "write" \/ (pc[p] = "append" /\ Section(p) # "event") => current[p] = meta
  /\ pc[p] = "append" => nextSeq[p] = Len(log)

\* What the section a process is about to run found when its command began, which of
\* the commands' sections come first only; and a source that was once there remains.
FoundFirst == {"verify", "complete", "detach"}
FoundOf(p) ==
  /\ \A i \in DOMAIN todo[p] : i > 1 => todo[p][i] \notin FoundFirst
  /\ pc[p] = "reread" => Section(p) \notin FoundFirst
  /\ seen[p].member # "none" => meta.member # "none"
  /\ todo[p] # <<>> =>
       /\ Section(p) \in {"verify", "complete"} => seen[p].checkpoint.rev > 0
       /\ Section(p) = "complete" => seen[p].status = "active"
       /\ Section(p) = "detach" => seen[p].member # "none"
       /\ pc[p] \in {"append", "write"} /\ Section(p) \in {"verify", "complete"} =>
            seen[p].status = current[p].status

Sound(m) == m.verification # None => m.verification.of = m.checkpoint

Safe ==
  /\ LockInv
  /\ \A p \in Procs \ dead : ReadOf(p) /\ FoundOf(p)
  /\ Sound(meta)

TasksInv == BaseInv /\ (TwoReclaim => contested) /\ (contested \/ Safe)

\* And its verdict is of its checkpoint.
LEMMA UpdatedVerdict ==
  ASSUME Shape, NEW p \in Procs, Section(p) \in Sections \ {"event"}, NEW m \in Meta,
         Sound(m),
         Section(p) \in {"verify", "complete"} => seen[p].checkpoint = m.checkpoint
  PROVE  Sound(Updated(p, m))
<1>1. seen[p] \in Meta
  BY DEF Shape
<1>2. Sound(Checkpointed(p, m))
  BY DEF Sound, Checkpointed, Meta
<1>3. Section(p) \in {"verify", "complete"} => Sound(VerifiedMeta(p, m)) /\ Sound(Completed(p, m))
  BY DEF Sound, VerifiedMeta, Completed, Verified, Meta
<1>4. Sound(AttachedMeta(m)) /\ Sound(DetachedMeta(p, m)) /\ Sound(SnapshotMeta(p, m))
  BY DEF Sound, AttachedMeta, DetachedMeta, SnapshotMeta, Meta
<1>5. Sound(AttachFailedMeta(m)) /\ Sound(StoppedMeta(p, m))
  BY DEF Sound, AttachFailedMeta, StoppedMeta, Meta
<1> QED  BY <1>2, <1>3, <1>4, <1>5 DEF Updated, Sections

\* A process that has seen nothing yet has seen no source.
LEMMA FreshHasNoSource == FreshMeta.member = "none"
  BY DEF FreshMeta

\* Nor does an empty list of sections name one.
LEMMA NothingFound == \A i \in DOMAIN <<>> : i > 1 => <<>>[i] \notin FoundFirst
<1> DEFINE s == <<>>
<1>1. s \in Seq(Sections) /\ Len(s) = 0
  OBVIOUS
<1> HIDE DEF s
<1>2. \A i \in DOMAIN s : i > 1 => s[i] \notin FoundFirst
  BY <1>1
<1> QED  BY <1>2 DEF s

\* Past its first section no command verifies, completes or detaches.
LEMMA TailFindsNothing ==
  ASSUME NEW s \in Seq(Sections), s # <<>>, \A i \in DOMAIN s : i > 1 => s[i] \notin FoundFirst,
         NEW t, t \in {Tail(s), Append(Tail(s), "event")}
  PROVE  /\ \A i \in DOMAIN t : t[i] \notin FoundFirst
         /\ t # <<>> => Head(t) \notin FoundFirst
<1>1. /\ Tail(s) \in Seq(Sections) /\ Len(Tail(s)) = Len(s) - 1
      /\ \A i \in 1 .. Len(Tail(s)) : Tail(s)[i] = s[i + 1] /\ i + 1 \in DOMAIN s
  OBVIOUS
<1>2. \A i \in 1 .. Len(Tail(s)) : Tail(s)[i] \notin FoundFirst
  <2>1. ASSUME NEW i \in 1 .. Len(Tail(s)) PROVE Tail(s)[i] \notin FoundFirst
    <3>1. i + 1 \in DOMAIN s /\ i + 1 > 1 /\ Tail(s)[i] = s[i + 1]
      BY <1>1
    <3> QED  BY <3>1
  <2> QED  BY <2>1
<1>3. "event" \notin FoundFirst /\ "event" \in Sections
  BY DEF FoundFirst, Sections
<1>4. t \in Seq(Sections) /\ \A i \in 1 .. Len(t) : t[i] \notin FoundFirst
  <2>1. CASE t = Tail(s)
    BY <1>1, <1>2, <2>1
  <2>2. CASE t = Append(Tail(s), "event")
    <3>1. /\ t \in Seq(Sections) /\ Len(t) = Len(Tail(s)) + 1
          /\ t[Len(Tail(s)) + 1] = "event"
          /\ \A i \in 1 .. Len(Tail(s)) : t[i] = Tail(s)[i]
      BY <1>1, <1>3, <2>2
    <3>2. ASSUME NEW i \in 1 .. Len(t) PROVE t[i] \notin FoundFirst
      <4>1. Len(Tail(s)) \in Nat
        BY <1>1
      <4>2. i \in 1 .. Len(Tail(s)) \/ i = Len(Tail(s)) + 1
        BY <3>1, <4>1
      <4> QED  BY <1>2, <1>3, <3>1, <4>2
    <3> QED  BY <3>1, <3>2
  <2> QED  BY <2>1, <2>2
<1>5. t # <<>> => Head(t) = t[1] /\ 1 \in 1 .. Len(t)
  BY <1>4
<1> QED  BY <1>4, <1>5

\* A command begins with a section that found what the command asks for.
LEMMA CommandFinds ==
  ASSUME NEW c \in Commands
  PROVE  /\ \A i \in DOMAIN SectionsOf(c) : i > 1 => SectionsOf(c)[i] \notin FoundFirst
         /\ SectionsOf(c) # <<>> /\ (Head(SectionsOf(c)) \in FoundFirst => Head(SectionsOf(c)) = c)
<1>1. c \in {"checkpoint", "verify", "complete", "attach", "detach", "attachFailed", "snapshot", "stop"}
  BY TasksAssumption
<1>2. CASE c \in {"checkpoint", "verify", "complete", "snapshot"}
  <2>1. SectionsOf(c) = <<c>>
    BY <1>2 DEF SectionsOf
  <2> QED  BY <2>1
<1>3. CASE c = "attach"
  BY <1>3 DEF SectionsOf, FoundFirst
<1>4. CASE c = "detach"
  BY <1>4 DEF SectionsOf, FoundFirst
<1>5. CASE c = "attachFailed"
  BY <1>5 DEF SectionsOf, FoundFirst
<1>6. CASE c = "stop"
  BY <1>6 DEF SectionsOf, FoundFirst
<1> QED  BY <1>1, <1>2, <1>3, <1>4, <1>5, <1>6

\* No section takes the source away.
LEMMA MemberStays ==
  ASSUME NEW p \in Procs, NEW m \in Meta, Section(p) \in Sections \ {"event"}, m.member # "none"
  PROVE  Updated(p, m).member # "none"
BY DEF Updated, Sections, Checkpointed, VerifiedMeta, Completed, AttachedMeta, DetachedMeta,
       SnapshotMeta, AttachFailedMeta, StoppedMeta, Meta

LEMMA SafeInit == Init => Safe
<1> SUFFICES ASSUME Init  PROVE  Safe
  OBVIOUS
<1>1. FreshMeta.verification = None /\ [FreshMeta EXCEPT !.member = "attached"].verification = None
  BY DEF FreshMeta
<1>2. Sound(meta)
  BY <1>1 DEF Init, Sound
<1>3. ASSUME NEW p \in Procs  PROVE  ReadOf(p) /\ FoundOf(p)
  <2>1. todo[p] = <<>> /\ pc[p] = "idle" /\ seen[p] = FreshMeta
    BY DEF Init
  <2>2. seen[p].member = "none"
    BY <2>1, FreshHasNoSource
  <2>3. \A i \in DOMAIN todo[p] : i > 1 => todo[p][i] \notin FoundFirst
    BY <2>1, NothingFound
  <2> QED  BY <2>1, <2>2, <2>3 DEF ReadOf, FoundOf
<1> QED  BY <1>2, <1>3, LockInvInit DEF Safe

\* A step of p leaves what the others have read and found, or p is the one inside.
LEMMA OthersKeep ==
  ASSUME BaseInv, Safe, NEW p \in Procs, Alone(p), UNCHANGED <<meta, log>> \/ Holding(p),
         meta.member # "none" => meta'.member # "none",
         \A q \in Procs : q # p => SameWork(q)
  PROVE  \A q \in Procs \ dead' : q # p => ReadOf(q)' /\ FoundOf(q)'
<1> SUFFICES ASSUME NEW q \in Procs \ dead', q # p  PROVE  ReadOf(q)' /\ FoundOf(q)'
  OBVIOUS
<1>1. pc'[q] = pc[q] /\ q \notin dead /\ p \notin dead /\ SameWork(q)
  BY DEF Alone
<1>2. ReadOf(q) /\ FoundOf(q) /\ LockInv
  BY <1>1 DEF Safe
<1>3. Section(q)' = Section(q)
  BY <1>1 DEF Section, SameWork
<1>4. FoundOf(q)'
  BY <1>1, <1>2, <1>3 DEF FoundOf, SameWork
<1>5. CASE UNCHANGED <<meta, log>>
  BY <1>1, <1>2, <1>3, <1>4, <1>5 DEF ReadOf, SameWork
<1>6. CASE Holding(p)
  <2>1. pc[q] \notin {"append", "write"}
    BY <1>1, <1>2, <1>6 DEF LockInv, OneOccupant, Occupant, Holding
  <2> QED  BY <1>1, <1>4, <2>1 DEF ReadOf
<1> QED  BY <1>5, <1>6

\* What a command is left with when it goes on outside, or is refused.
LEMMA OutsideKeepsRecords ==
  ASSUME BaseInv, Safe, NEW p \in Procs, Alone(p), UNCHANGED <<meta, log>>, LockInv',
         UNCHANGED work \/ Refused(p), pc'[p] \notin {"append", "write"},
         pc'[p] = "reread" => UNCHANGED work /\ Section(p) \notin FoundFirst
  PROVE  Safe'
<1>1. p \in Procs \ dead /\ FoundOf(p)
  BY DEF Alone, Safe
<1>2. \A q \in Procs : q # p => SameWork(q)
  BY DEF BaseInv, Shape, SameWork, work, Refused
<1>3. \A q \in Procs \ dead' : q # p => ReadOf(q)' /\ FoundOf(q)'
  BY <1>2, OthersKeep
<1>4. ReadOf(p)'
  BY DEF ReadOf
<1>5. FoundOf(p)'
  <2>1. CASE UNCHANGED work
    <3>1. todo' = todo /\ seen' = seen /\ current' = current /\ Section(p)' = Section(p)
      BY <2>1 DEF work, Section
    <3> QED  BY <1>1, <3>1 DEF FoundOf
  <2>2. CASE ~(UNCHANGED work)
    <3>1. todo'[p] = <<>> /\ seen'[p] = FreshMeta /\ pc'[p] # "reread"
      BY <2>2 DEF Refused, BaseInv, Shape
    <3>2. seen'[p].member = "none"
      BY <3>1, FreshHasNoSource
    <3>3. \A i \in DOMAIN todo'[p] : i > 1 => todo'[p][i] \notin FoundFirst
      BY <3>1, NothingFound
    <3> QED  BY <3>1, <3>2, <3>3 DEF FoundOf
  <2> QED  BY <2>1, <2>2
<1>6. Sound(meta)'
  BY DEF Safe, Sound
<1> QED  BY <1>3, <1>4, <1>5, <1>6 DEF Safe, Alone

\* The steps that take and release the lock.
LockSteps(p) ==
  \/ Mkdir(p) \/ ReadOwner(p) \/ Kill(p) \/ Claim(p) \/ Check(p) \/ Unclaim(p)
  \/ MkdirAgain(p) \/ Own(p) \/ UnlinkOwner(p) \/ UnlinkClaim(p) \/ Rmdir(p)

LEMMA LockStepsAlone ==
  ASSUME BaseInv, NEW p \in Procs, LockSteps(p), contested' \in BOOLEAN
  PROVE  Alone(p)
BY MkdirBase, ReadOwnerBase, KillBase, ClaimBase, CheckBase, UnclaimBase, MkdirAgainBase, OwnBase,
   UnlinkOwnerBase, UnlinkClaimBase, RmdirBase DEF LockSteps

LEMMA LockStepsKeepLock ==
  ASSUME BaseInv, LockInv, NEW p \in Procs, LockSteps(p), Alone(p), ~TwoReclaim
  PROVE  LockInv'
BY MkdirKeepsLock, ReadOwnerKeepsLock, ClaimKeepsLock, CheckKeepsLock, UnclaimKeepsLock,
   MkdirAgainKeepsLock, OwnKeepsLock, UnlinkOwnerKeepsLock, UnlinkClaimKeepsLock, RmdirKeepsLock
   DEF LockSteps

LEMMA LockStepsKeep ==
  ASSUME BaseInv, Safe, NEW p \in Procs, LockSteps(p), Alone(p), ~TwoReclaim
  PROVE  Safe'
<1>1. LockInv'
  BY LockStepsKeepLock DEF Safe
<1>2. CASE Rmdir(p)
  <2>1. UNCHANGED <<meta, log, work>> /\ pc'[p] = AfterRemoval(p)
    BY <1>2 DEF Rmdir, Goes, BaseInv, Shape
  <2>2. pc'[p] \notin {"append", "write"} /\ (pc'[p] = "reread" => Section(p) \notin FoundFirst)
    BY <2>1 DEF AfterRemoval, Section, FoundFirst
  <2> QED  BY <1>1, <2>1, <2>2, OutsideKeepsRecords
<1>3. CASE UnlinkClaim(p)
  <2>1. UNCHANGED <<meta, log, work>> /\ pc'[p] \in {"remove", "rest"}
    BY <1>3 DEF UnlinkClaim, Removing
  <2> QED  BY <1>1, <2>1, OutsideKeepsRecords
<1>4. CASE ~Rmdir(p) /\ ~UnlinkClaim(p)
  <2>1. /\ UNCHANGED <<meta, log>> /\ (UNCHANGED work \/ Refused(p))
        /\ \E w \in {"own", "read owner", "kill", "busy", "claim", "check", "remove", "unclaim",
                     "mkdir again", "read", "rest"} : Goes(p, w)
    BY <1>4 DEF LockSteps, Mkdir, ReadOwner, Kill, Claim, Check, Unclaim, MkdirAgain, Own, UnlinkOwner,
                Busy, disk
  <2>2. pc'[p] \notin {"append", "write", "reread"}
    BY <2>1 DEF Goes, BaseInv, Shape
  <2> QED  BY <1>1, <2>1, <2>2, OutsideKeepsRecords
<1> QED  BY <1>2, <1>3, <1>4

\* The command begins, or reads the metadata again for its snapshot.
LEMMA StartKeeps ==
  ASSUME BaseInv, Safe, NEW p \in Procs, Start(p), Alone(p),
         \A q \in Procs : q # p => SameWork(q)
  PROVE  Safe'
<1>1. FoundOf(p) /\ pc[p] = "idle" /\ pc'[p] = "mkdir" /\ UNCHANGED <<meta, log, lock>>
  BY DEF Start, At, Goes, disk, Safe, BaseInv, Shape
<1>2. LockInv'
  BY <1>1, OutsideKeepsLock DEF Safe, Holding
<1>3. PICK c \in Commands :
        /\ Startable(c, meta)
        /\ todo' = [todo EXCEPT ![p] = SectionsOf(c)]
        /\ IF c \in ReadsFirst THEN seen' = [seen EXCEPT ![p] = meta] ELSE UNCHANGED seen
  BY DEF Start
<1>4. /\ todo'[p] = SectionsOf(c)
      /\ c \in ReadsFirst => seen'[p] = meta /\ seen'[p] \in {meta, seen[p]}
      /\ c \notin ReadsFirst => seen'[p] = seen[p]
  BY <1>3 DEF BaseInv, Shape
<1>5. Section(p)' = Head(SectionsOf(c))
  BY <1>4 DEF Section
<1>6. Section(p)' \in FoundFirst => Section(p)' = c /\ seen'[p] = meta
  BY <1>4, <1>5, CommandFinds DEF FoundFirst, ReadsFirst
<1>7. /\ Section(p)' \in {"verify", "complete"} => meta.checkpoint.rev > 0 /\ seen'[p] = meta
      /\ Section(p)' = "complete" => meta.status = "active"
      /\ Section(p)' = "detach" => meta.member = "attached" /\ seen'[p] = meta
  BY <1>3, <1>6 DEF Startable, FoundFirst
<1>8. seen'[p].member # "none" => meta'.member # "none"
  <2>1. meta' = meta /\ (seen[p].member # "none" => meta.member # "none")
    BY <1>1 DEF FoundOf
  <2> QED  BY <1>4, <2>1
<1>9. FoundOf(p)' /\ ReadOf(p)'
  BY <1>1, <1>4, <1>7, <1>8, CommandFinds DEF FoundOf, ReadOf
<1>10. \A q \in Procs \ dead' : q # p => ReadOf(q)' /\ FoundOf(q)'
  BY <1>1, OthersKeep
<1> QED  BY <1>1, <1>2, <1>9, <1>10 DEF Safe, Sound

LEMMA RereadKeeps ==
  ASSUME BaseInv, Safe, NEW p \in Procs, Reread(p), Alone(p),
         \A q \in Procs : q # p => SameWork(q)
  PROVE  Safe'
<1>1. /\ FoundOf(p) /\ pc[p] = "reread" /\ pc'[p] = "mkdir" /\ seen'[p] = meta /\ todo' = todo
      /\ UNCHANGED <<meta, log, lock>>
  BY DEF Reread, At, Goes, disk, Safe, BaseInv, Shape
<1>2. LockInv'
  BY <1>1, OutsideKeepsLock DEF Safe, Holding
<1>3. FoundOf(p)' /\ ReadOf(p)'
  BY <1>1 DEF FoundOf, ReadOf, Section, FoundFirst
<1>4. \A q \in Procs \ dead' : q # p => ReadOf(q)' /\ FoundOf(q)'
  BY <1>1, OthersKeep
<1> QED  BY <1>1, <1>2, <1>3, <1>4 DEF Safe, Sound

\* The process inside reads what there is; or its command is refused.
LEMMA ReadKeeps ==
  ASSUME BaseInv, Safe, NEW p \in Procs, Read(p), Alone(p),
         \A q \in Procs : q # p => SameWork(q)
  PROVE  Safe'
<1>1. /\ FoundOf(p) /\ pc[p] = "read" /\ stale'[p] = None /\ UNCHANGED <<meta, log, lock>>
      /\ pc'[p] \in {"append", "write", "remove"}
  BY DEF Read, At, Goes, disk, Safe, BaseInv, Shape, OnWay
<1>2. LockInv'
  BY <1>1, InsideKeepsLock DEF Safe
<1>3. CASE Accepts(p, meta)
  <2> DEFINE ends == Section(p) \in AppendsFirst
  <2>1. /\ current' = [current EXCEPT ![p] = IF Section(p) = "event" THEN @ ELSE meta]
        /\ nextSeq' = [nextSeq EXCEPT ![p] = IF ends THEN Len(log) ELSE 0]
        /\ Goes(p, IF ends THEN "append" ELSE "write")
        /\ UNCHANGED <<todo, seen, passed>>
    BY <1>3 DEF Read
  <2>2. /\ pc'[p] = (IF ends THEN "append" ELSE "write")
        /\ current'[p] = (IF Section(p) = "event" THEN current[p] ELSE meta)
        /\ nextSeq'[p] = (IF ends THEN Len(log) ELSE 0)
    BY <2>1 DEF Goes, BaseInv, Shape
  <2>3. Section(p)' = Section(p)
    BY <2>1 DEF Section
  <2>4. Section(p) \in {"verify", "complete"} =>
          seen[p].checkpoint = meta.checkpoint /\ seen[p].status = meta.status
    BY <1>3 DEF Accepts
  <2>5. ReadOf(p)'
    BY <1>1, <2>1, <2>2, <2>3, <2>4 DEF ReadOf, AppendsFirst
  <2>6. FoundOf(p)'
    BY <1>1, <2>1, <2>2, <2>3, <2>4 DEF FoundOf
  <2>7. \A q \in Procs \ dead' : q # p => ReadOf(q)' /\ FoundOf(q)'
    BY <1>1, OthersKeep
  <2> QED  BY <1>1, <1>2, <2>5, <2>6, <2>7 DEF Safe, Sound
<1>4. CASE ~Accepts(p, meta)
  <2>1. Refused(p) /\ pc'[p] = "remove"
    BY <1>4 DEF Read, Goes, BaseInv, Shape
  <2> QED  BY <1>1, <1>2, <2>1, OutsideKeepsRecords
<1> QED  BY <1>3, <1>4

LEMMA AppendEventKeeps ==
  ASSUME BaseInv, Safe, NEW p \in Procs, AppendEvent(p), Alone(p),
         \A q \in Procs : q # p => SameWork(q)
  PROVE  Safe'
<1>1. /\ FoundOf(p) /\ ReadOf(p) /\ pc[p] = "append" /\ stale'[p] = None /\ todo[p] # <<>>
      /\ UNCHANGED <<meta, lock, seen, current>> /\ Holding(p)
  BY DEF AppendEvent, At, Safe, BaseInv, OnWay, Holding
<1>2. \A q \in Procs \ dead' : q # p => ReadOf(q)' /\ FoundOf(q)'
  BY <1>1, OthersKeep
<1>3. CASE Section(p) = "event"
  <2>1. pc'[p] = "remove" /\ todo'[p] = Tail(todo[p]) /\ todo[p] \in Seq(Sections)
    BY <1>3 DEF AppendEvent, Goes, BaseInv, Shape
  <2>2. LockInv'
    BY <1>1, <2>1, InsideKeepsLock DEF Safe
  <2>3. /\ \A i \in DOMAIN todo'[p] : todo'[p][i] \notin FoundFirst
        /\ todo'[p] # <<>> => Head(todo'[p]) \notin FoundFirst
    BY <1>1, <2>1, TailFindsNothing DEF FoundOf
  <2>4. FoundOf(p)' /\ ReadOf(p)'
    BY <1>1, <2>1, <2>3 DEF FoundOf, ReadOf, Section, FoundFirst
  <2> QED  BY <1>1, <1>2, <2>2, <2>4 DEF Safe, Sound
<1>4. CASE Section(p) # "event"
  <2>1. pc'[p] = "write" /\ todo' = todo
    BY <1>4 DEF AppendEvent, Goes, BaseInv, Shape
  <2>2. LockInv'
    BY <1>1, <2>1, InsideKeepsLock DEF Safe
  <2>3. Section(p)' = Section(p)
    BY <2>1 DEF Section
  <2>4. FoundOf(p)' /\ ReadOf(p)'
    BY <1>1, <1>4, <2>1, <2>3 DEF FoundOf, ReadOf
  <2> QED  BY <1>1, <1>2, <2>2, <2>4 DEF Safe, Sound
<1> QED  BY <1>3, <1>4

LEMMA WriteMetaKeeps ==
  ASSUME BaseInv, Safe, NEW p \in Procs, WriteMeta(p), Alone(p),
         \A q \in Procs : q # p => SameWork(q)
  PROVE  Safe'
<1>1. /\ FoundOf(p) /\ ReadOf(p) /\ pc[p] = "write" /\ p \in Procs \ dead /\ stale'[p] = None
      /\ UNCHANGED <<log, lock>> /\ meta' = Updated(p, current[p]) /\ Holding(p)
  BY DEF WriteMeta, At, Safe, BaseInv, OnWay, Holding
<1>2. pc'[p] = "remove" /\ todo'[p] = Behind(p) /\ seen'[p] = FreshMeta
  BY DEF WriteMeta, Goes, BaseInv, Shape
<1>3. LockInv'
  BY <1>1, <1>2, InsideKeepsLock DEF Safe
<1>4. todo[p] # <<>> /\ todo[p] \in Seq(Sections) /\ Section(p) \in Sections \ {"event"}
  BY <1>1, WritesSection
<1>5. current[p] = meta /\ meta \in Meta /\ meta' = Updated(p, meta)
  BY <1>1 DEF ReadOf, BaseInv, Shape
<1>6. Sound(meta')
  BY <1>1, <1>4, <1>5, UpdatedVerdict DEF ReadOf, Safe, BaseInv
<1>7. meta.member # "none" => meta'.member # "none"
  BY <1>4, <1>5, MemberStays
<1>8. \A q \in Procs \ dead' : q # p => ReadOf(q)' /\ FoundOf(q)'
  BY <1>1, <1>7, OthersKeep
<1>9. /\ \A i \in DOMAIN todo'[p] : todo'[p][i] \notin FoundFirst
      /\ todo'[p] # <<>> => Head(todo'[p]) \notin FoundFirst
  <2>1. Behind(p) \in {Tail(todo[p]), Append(Tail(todo[p]), "event")}
    BY DEF Behind
  <2> QED  BY <1>1, <1>2, <1>4, <2>1, TailFindsNothing DEF FoundOf
<1>10. FoundOf(p)' /\ ReadOf(p)'
  <2>1. seen'[p].member = "none"
    BY <1>2, FreshHasNoSource
  <2>2. todo'[p] # <<>> => Section(p)' \notin FoundFirst
    BY <1>9 DEF Section
  <2> QED  BY <1>2, <1>9, <2>1, <2>2 DEF FoundOf, FoundFirst, ReadOf
<1> QED  BY <1>3, <1>6, <1>8, <1>10 DEF Safe, Sound

LEMMA CrashKeeps ==
  ASSUME BaseInv, Safe, NEW p \in Procs, Crash(p), \A q \in Procs : q # p => SameWork(q)
  PROVE  Safe'
<1>1. LockInv'
  BY CrashKeepsLock DEF Safe
<1>2. UNCHANGED <<meta, log, pc>> /\ dead' = dead \cup {p}
  BY DEF Crash, disk
<1>3. ASSUME NEW q \in Procs \ dead'  PROVE  ReadOf(q)' /\ FoundOf(q)'
  <2>1. q \in Procs \ dead /\ SameWork(q) /\ ReadOf(q) /\ FoundOf(q)
    BY <1>2, <1>3 DEF Safe
  <2>2. Section(q)' = Section(q)
    BY <2>1 DEF Section, SameWork
  <2> QED  BY <1>2, <2>1, <2>2 DEF ReadOf, FoundOf, SameWork
<1> QED  BY <1>1, <1>2, <1>3 DEF Safe, Sound

\* Every step short of two reclaimers keeps them.
LEMMA StepKeepsSafe ==
  ASSUME BaseInv, Safe, Next, ~TwoReclaim
  PROVE  Safe'
<1>1. contested' \in BOOLEAN
  BY DEF Next, BaseInv, Shape
<1>2. ASSUME NEW p \in Procs, Step(p)  PROVE  Safe'
  <2>1. CASE LockSteps(p)
    BY <1>1, <2>1, LockStepsAlone, LockStepsKeep
  <2>2. CASE Vanished(p)
    BY <2>2, NothingVanishes DEF Safe
  <2>3. CASE Start(p)
    BY <1>1, <2>3, StartBase, StartKeeps
  <2>4. CASE Reread(p)
    BY <1>1, <2>4, RereadBase, RereadKeeps
  <2>5. CASE Read(p)
    BY <1>1, <2>5, ReadBase, ReadKeeps
  <2>6. CASE AppendEvent(p)
    BY <1>1, <2>6, AppendEventBase, AppendEventKeeps
  <2>7. CASE WriteMeta(p)
    BY <1>1, <2>7, WriteMetaBase, WriteMetaKeeps
  <2> QED  BY <1>2, <2>1, <2>2, <2>3, <2>4, <2>5, <2>6, <2>7 DEF Step, LockSteps
<1>3. ASSUME NEW p \in Procs, Crash(p)  PROVE  Safe'
  BY <1>1, <1>3, CrashBase, CrashKeeps
<1> QED  BY <1>2, <1>3 DEF Next

LEMMA StutterKeepsSafe ==
  ASSUME Safe, UNCHANGED vars
  PROVE  Safe'
<1>1. UNCHANGED <<meta, log, lock, dead, pc, todo, seen, passed, current, nextSeq, stale>>
  BY DEF vars, disk, work
<1>2. LockInv'
  <2>1. /\ \A p \in Procs : OwnerOf(p)' /\ (Occupant(p)' <=> Occupant(p))
        /\ \A p \in Procs \ dead : ReclaimerOf(p)'
    BY <1>1 DEF Safe, LockInv, OwnerOf, Occupant, ReclaimerOf, Reclaiming, Holding, Named
  <2> QED  BY <1>1, <2>1 DEF Safe, LockInv, OneOccupant
<1>3. \A p \in Procs \ dead : ReadOf(p)' /\ FoundOf(p)'
  BY <1>1 DEF Safe, ReadOf, FoundOf, Section
<1> QED  BY <1>1, <1>2, <1>3 DEF Safe, Sound

LEMMA StepKeeps ==
  ASSUME TasksInv, [Next]_vars
  PROVE  TasksInv' /\ (~contested => Safe')
<1>1. BaseInv'
  BY BaseKept DEF TasksInv
<1>2. CASE Next
  <2>1. contested' = (contested \/ TwoReclaim')
    BY <1>2 DEF Next
  <2>2. ~contested => Safe'
    BY <1>2, StepKeepsSafe DEF TasksInv
  <2> QED  BY <1>1, <2>1, <2>2 DEF TasksInv, BaseInv, Shape
<1>3. CASE UNCHANGED vars
  <2>1. contested' = contested /\ (TwoReclaim' => TwoReclaim)
    BY <1>3 DEF vars, disk, work, TwoReclaim, Reclaiming
  <2>2. ~contested => Safe'
    BY <1>3, StutterKeepsSafe DEF TasksInv
  <2> QED  BY <1>1, <2>1, <2>2 DEF TasksInv
<1> QED  BY <1>2, <1>3

\* A write makes one change of the record as it is.
LEMMA WriteIsOneChange ==
  ASSUME BaseInv, Safe, NEW p \in Procs, WriteMeta(p)
  PROVE  [Record!Next]_Record!rvars
<1>1. /\ pc[p] = "write" /\ p \in Procs \ dead /\ log' = log /\ meta' = Updated(p, current[p])
  BY DEF WriteMeta, At
<1>2. ReadOf(p) /\ FoundOf(p)
  BY <1>1 DEF Safe
<1>3. current[p] = meta /\ meta \in Meta /\ seen[p] \in Meta /\ passed[p] \in BOOLEAN
  BY <1>1, <1>2 DEF ReadOf, BaseInv, Shape
<1>4. todo[p] # <<>> /\ Section(p) \in Sections \ {"event"}
  BY <1>1, WritesSection
<1>5. meta' = Updated(p, meta) /\ log' = log
  BY <1>1, <1>3
<1>6. CASE Section(p) = "checkpoint"
  <2>1. Record!Checkpoint(p)
    BY <1>5, <1>6 DEF Updated, Checkpointed, Record!Checkpoint, Record!Makes
  <2> QED  BY <2>1 DEF Record!Next
<1>7. CASE Section(p) \in {"verify", "complete"}
  <2>1. /\ seen[p].checkpoint = meta.checkpoint /\ seen[p].status = meta.status
        /\ seen[p].checkpoint.rev > 0 /\ (Section(p) = "complete" => seen[p].status = "active")
    BY <1>1, <1>2, <1>3, <1>4, <1>7 DEF ReadOf, FoundOf
  <2>2. Verified(p) = [of |-> meta.checkpoint, passed |-> passed[p]]
    BY <2>1 DEF Verified
  <2>3. CASE Section(p) = "verify"
    <3>1. Record!Verify(passed[p])
      BY <1>5, <2>1, <2>2, <2>3 DEF Updated, VerifiedMeta, Record!Verify, Record!Makes
    <3> QED  BY <1>3, <3>1 DEF Record!Next
  <2>4. CASE Section(p) = "complete"
    <3>1. Record!Complete(p, passed[p])
      BY <1>5, <2>1, <2>2, <2>4 DEF Updated, Completed, Record!Complete, Record!Makes
    <3> QED  BY <1>3, <3>1 DEF Record!Next
  <2> QED  BY <1>7, <2>3, <2>4
<1>8. CASE Section(p) = "attach"
  <2>1. Record!Attach
    BY <1>5, <1>8 DEF Updated, AttachedMeta, Record!Attach, Record!Makes
  <2> QED  BY <2>1 DEF Record!Next
<1>9. CASE Section(p) = "detach"
  <2>1. Record!Detach(seen[p].copied) /\ seen[p].copied \in BOOLEAN
    BY <1>2, <1>3, <1>4, <1>5, <1>9
       DEF FoundOf, Updated, DetachedMeta, Record!Detach, Record!Makes, Meta
  <2> QED  BY <2>1 DEF Record!Next
<1>10. CASE Section(p) = "snapshot"
  <2>1. CASE seen[p].member = "none"
    BY <1>5, <1>10, <2>1 DEF Updated, SnapshotMeta, Record!rvars
  <2>2. CASE seen[p].member # "none"
    <3>1. seen[p].member \in {"attached", "detached"} /\ meta.member # "none"
      BY <1>2, <1>3, <2>2 DEF FoundOf, Meta
    <3>2. Record!Snapshot(seen[p].member)
      BY <1>5, <1>10, <2>2, <3>1 DEF Updated, SnapshotMeta, Record!Snapshot, Record!Makes
    <3> QED  BY <3>1, <3>2 DEF Record!Next
  <2> QED  BY <2>1, <2>2
<1>11. CASE Section(p) = "attachFailed"
  <2>1. meta' = [meta EXCEPT !.status = IF meta.member = "none" THEN "blocked" ELSE meta.status]
    BY <1>5, <1>11 DEF Updated, AttachFailedMeta
  <2>2. CASE meta.member = "none"
    <3>1. Record!Block
      BY <1>5, <2>1, <2>2 DEF Record!Block, Record!Makes
    <3> QED  BY <3>1 DEF Record!Next
  <2>3. CASE meta.member # "none"
    <3>1. meta' = meta
      BY <1>3, <2>1, <2>3 DEF Meta
    <3> QED  BY <1>5, <3>1 DEF Record!rvars
  <2> QED  BY <2>2, <2>3
<1>12. CASE Section(p) = "stop"
  <2>1. Record!Stop(p)
    BY <1>5, <1>12 DEF Updated, StoppedMeta, Record!Stop, Record!Makes
  <2> QED  BY <2>1 DEF Record!Next
<1> QED  BY <1>4, <1>6, <1>7, <1>8, <1>9, <1>10, <1>11, <1>12 DEF Sections

\* Every step short of two reclaimers is a step of the record, or leaves it.
LEMMA StepIsOneChange ==
  ASSUME TasksInv, [Next]_vars
  PROVE  [contested' \/ Record!Next]_Record!rvars
<1>1. CASE contested'
  BY <1>1
<1>2. CASE UNCHANGED vars
  BY <1>2 DEF vars, disk, Record!rvars
<1>3. CASE ~contested' /\ Next
  <2>1. BaseInv /\ Safe
    BY <1>3 DEF Next, TasksInv
  <2>2. ASSUME NEW p \in Procs, AppendEvent(p)  PROVE  Record!Event
    <3>1. pc[p] = "append" /\ p \in Procs \ dead /\ log' = Append(log, nextSeq[p]) /\ meta' = meta
      BY <2>2 DEF AppendEvent, At
    <3>2. nextSeq[p] = Len(log)
      BY <2>1, <3>1 DEF Safe, ReadOf
    <3> QED  BY <3>1, <3>2 DEF Record!Event
  <2>3. ASSUME NEW p \in Procs, Step(p) \/ Crash(p), ~AppendEvent(p), ~WriteMeta(p)
        PROVE  UNCHANGED <<meta, log>>
    BY <2>3 DEF Step, Crash, Start, Reread, Mkdir, ReadOwner, Kill, Claim, Check, Unclaim, MkdirAgain,
                Own, UnlinkOwner, UnlinkClaim, Rmdir, Vanished, Read, disk
  <2>4. ASSUME NEW p \in Procs, WriteMeta(p)  PROVE  [Record!Next]_Record!rvars
    BY <2>1, <2>4, WriteIsOneChange
  <2> QED  BY <1>3, <2>2, <2>3, <2>4 DEF Next, Record!Next, Record!rvars
<1> QED  BY <1>1, <1>2, <1>3

-----------------------------------------------------------------------------
(* What it gives *)

\* The invariant the theorems follow from: however many processes die and reclaim, the
\* lock and the records are in order until two live ones reclaim one owner's lock.
THEOREM TasksInvariant == Spec => []TasksInv
<1>1. Init => TasksInv
  BY BaseInit, SafeInit DEF TasksInv, Init, TwoReclaim, Reclaiming
<1>2. TasksInv /\ [Next]_vars => TasksInv'  BY StepKeeps
<1> QED  BY <1>1, <1>2, PTL DEF Spec

\* Every reachable state of the task's files and of the processes on them is typed,
\* however many reclaim.
THEOREM TypeCorrect == Spec => []TypeOK
<1>1. BaseInv => TypeOK  BY BaseIsTyped
<1> QED  BY <1>1, AlwaysBase, PTL

\* withTaskLock with its reclaim admits one live process at a time, however many die and
\* however their reclaims overlap, until two live processes reclaim one owner's lock.
THEOREM LockExcludes == Spec => []ExclusiveUnlessContested
<1>1. TasksInv => ExclusiveUnlessContested
  BY DEF TasksInv, Safe, LockInv, OneOccupant, Occupant, ExclusiveUnlessContested, MutualExclusion
<1> QED  BY <1>1, TasksInvariant, PTL

\* What a process writes or appends was made from the records as they still are, until
\* two live processes reclaim one owner's lock.
THEOREM NoWriteLost == Spec => []NeverLostWrite
<1>1. BaseInv => \A p \in Procs \ dead : pc[p] = "write" => Section(p) # "event"
  BY DEF BaseInv, OnWay
<1>2. TasksInv => NeverLostWrite
  BY <1>1 DEF TasksInv, Safe, ReadOf, NeverLostWrite
<1> QED  BY <1>2, TasksInvariant, PTL

\* The verdict beside a checkpoint is of that checkpoint, though the checks ran outside
\* the lock, until two live processes reclaim one owner's lock.
THEOREM VerdictStaysCurrent == Spec => []VerdictIsCurrent
<1>1. TasksInv => VerdictIsCurrent  BY DEF TasksInv, Safe, Sound, VerdictIsCurrent
<1> QED  BY <1>1, TasksInvariant, PTL

\* For one who sees the record alone, the commands of any number of processes run one
\* after the other until two live ones reclaim one owner's lock: the events are numbered
\* without a gap and every change is made from the record as it is.
THEOREM RecordImplemented == Spec => ImplementsRecord
<1>1. Init => Record!Init
  BY DEF Init, FreshMeta, Record!Init
<1>2. TasksInv /\ [Next]_vars => [contested' \/ Record!Next]_Record!rvars
  BY StepIsOneChange
<1> QED  BY <1>1, <1>2, TasksInvariant, PTL DEF Spec, ImplementsRecord

\* A process that has released the lock and ended is taken for a dead owner too, by one
\* that read its name before; yet where nobody dies, nobody ever gets to reclaim a lock,
\* and one process at most is inside.
THEOREM NoDeathNoContest ==
  ASSUME Mortal = {}
  PROVE  Spec => [](~contested /\ MutualExclusion)
<1>1. BaseInv /\ Safe => ~TwoReclaim
  <2>1. SUFFICES ASSUME BaseInv, Safe, NEW p \in Procs, Reclaiming(p)  PROVE  FALSE
    BY DEF TwoReclaim
  <2>2. dead = {} /\ OnWay(p) /\ stale[p] # None /\ pc[p] # "kill" /\ lock.owner = stale[p]
    BY <2>1 DEF BaseInv, Shape, Reclaiming
  <2>3. stale[p].pid \in Procs /\ Gone(stale[p].pid) /\ Named(stale[p].pid)
    BY <2>1, <2>2 DEF BaseInv, Shape, Owners, OnWay, Named
  <2>4. OwnerOf(stale[p].pid)
    BY <2>1, <2>3 DEF Safe, LockInv
  <2> QED  BY <2>2, <2>3, <2>4 DEF OwnerOf, Gone, Holding
<1>2. TasksInv /\ ~contested /\ [Next]_vars => ~contested'
  <2> SUFFICES ASSUME TasksInv, ~contested, [Next]_vars  PROVE  ~contested'
    OBVIOUS
  <2>1. BaseInv' /\ Safe'
    BY StepKeeps DEF TasksInv
  <2>2. ~TwoReclaim'
    BY <1>1, <2>1, PTL
  <2> QED  BY <2>2 DEF Next, vars
<1>3. Init => ~contested
  BY DEF Init
<1>4. Spec => []~contested
  BY <1>2, <1>3, TasksInvariant, PTL DEF Spec
<1>5. ExclusiveUnlessContested /\ ~contested => MutualExclusion
  BY DEF ExclusiveUnlessContested
<1> QED  BY <1>4, <1>5, LockExcludes, PTL
=============================================================================
