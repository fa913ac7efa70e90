------------------------ MODULE DaemonSingletonProofs ------------------------
(***************************************************************************)
(* Proofs about DaemonSingleton, for any processes and any number of stops *)
(* and crashes. OwnerInv is inductive: who has the port is claiming or     *)
(* serving and nobody else is, only the port's owner listens, and what a   *)
(* claiming process has written so far nobody has overwritten.             *)
(***************************************************************************)
EXTENDS DaemonSingleton, SequenceTheorems, TLAPS

\* What is left of a claim.
ClaimsLeft == {<<"lock", "socket", "pid">>, <<"socket", "pid">>, <<"pid">>}

\* The port's owner, and only it, claims or serves.
PortOwned ==
  \A p \in Procs : pc[p] \in {"claiming", "serving"} <=> port = p

\* Only daemons come to the gate.
DaemonsBind == \A p \in Procs : pc[p] = "binding" => p \in Daemons

OwnerListens == \A p \in listening : port = p

\* A file the claim has written is the owner's own, or gone.
ClaimKept ==
  \A p \in Procs : pc[p] = "claiming" =>
    /\ todo[p] \in ClaimsLeft
    /\ \A f \in Files : (\A i \in DOMAIN todo[p] : todo[p][i] # f) => file[f] \in {p, None}

ServedKept ==
  \A p \in Procs : pc[p] = "serving" => \A f \in Files : file[f] \in {p, None}

OwnerInv == TypeOK /\ DaemonsBind /\ PortOwned /\ OwnerListens /\ ClaimKept /\ ServedKept
-----------------------------------------------------------------------------
\* Nobody has the port at the start, and there are no files.
LEMMA InitHolds == Init => OwnerInv
BY SingletonAssumption DEF Init, OwnerInv, TypeOK, DaemonsBind, PortOwned, OwnerListens, ClaimKept, ServedKept, Daemons, Procs, Files

\* The three files and the order in which a claim writes them.
LEMMA OneClaim ==
  ASSUME NEW t \in ClaimsLeft
  PROVE  /\ t \in Seq(Files) /\ t # <<>> /\ Head(t) \in Files
         /\ Tail(t) \in Seq(Files)
         /\ Tail(t) # <<>> => Tail(t) \in ClaimsLeft
         /\ \A f \in Files : f # Head(t) /\ (\A i \in DOMAIN Tail(t) : Tail(t)[i] # f)
                              => \A i \in DOMAIN t : t[i] # f
<1>1. CASE t = <<"lock", "socket", "pid">>
  BY <1>1 DEF ClaimsLeft, Files
<1>2. CASE t = <<"socket", "pid">>
  BY <1>2 DEF ClaimsLeft, Files
<1>3. CASE t = <<"pid">>
  BY <1>3 DEF ClaimsLeft, Files
<1> QED  BY <1>1, <1>2, <1>3 DEF ClaimsLeft

\* A claim begins with all three files still to write.
LEMMA Orders ==
  /\ ClearOrder \in Seq(Files) /\ <<"socket", "pid">> \in Seq(Files) /\ <<>> \in Seq(Files)
  /\ LockFirst \in Seq(Files) /\ LockFirst \in ClaimsLeft
  /\ \A f \in Files : \E i \in DOMAIN LockFirst : LockFirst[i] = f
<1>1. /\ ClearOrder \in Seq(Files) /\ <<"socket", "pid">> \in Seq(Files) /\ <<>> \in Seq(Files)
      /\ LockFirst \in Seq(Files) /\ LockFirst \in ClaimsLeft
  BY DEF ClearOrder, LockFirst, ClaimsLeft, Files
<1>2. /\ DOMAIN LockFirst = 1 .. 3
      /\ LockFirst[1] = "lock" /\ LockFirst[2] = "socket" /\ LockFirst[3] = "pid"
  BY DEF LockFirst
<1> QED  BY <1>1, <1>2 DEF Files

\* Every action keeps OwnerInv.
LEMMA StepHolds == OwnerInv /\ [Next]_vars => OwnerInv'
<1> SUFFICES ASSUME OwnerInv, [Next]_vars PROVE OwnerInv'
  OBVIOUS
<1> USE SingletonAssumption DEF OwnerInv, TypeOK, DaemonsBind, PortOwned, OwnerListens, Procs, Daemons
<1>1. ASSUME NEW p \in Procs, Begin(p) PROVE OwnerInv'
  <2>1. TypeOK'
    BY <1>1 DEF Begin, GoesTo
  <2>2. DaemonsBind'
    BY <1>1 DEF Begin, GoesTo
  <2>3. PortOwned'
    BY <1>1 DEF Begin, GoesTo
  <2>4. OwnerListens'
    BY <1>1 DEF Begin, GoesTo
  <2>5. ClaimKept'
    BY <1>1 DEF Begin, GoesTo, ClaimKept, ServedKept
  <2>6. ServedKept'
    BY <1>1 DEF Begin, GoesTo, ClaimKept, ServedKept
  <2> QED  BY <2>1, <2>2, <2>3, <2>4, <2>5, <2>6
<1>2. ASSUME NEW p \in Procs, ProbeHeld(p) PROVE OwnerInv'
  <2>1. TypeOK'
    BY <1>2 DEF ProbeHeld, GoesTo, Healed
  <2>2. DaemonsBind'
    BY <1>2 DEF ProbeHeld, GoesTo, Healed
  <2>3. PortOwned'
    BY <1>2 DEF ProbeHeld, GoesTo, Healed
  <2>4. OwnerListens'
    BY <1>2 DEF ProbeHeld, GoesTo, Healed
  <2>5. ClaimKept'
    BY <1>2 DEF ProbeHeld, GoesTo, Healed, ClaimKept, ServedKept
  <2>6. ServedKept'
    BY <1>2 DEF ProbeHeld, GoesTo, Healed, ClaimKept, ServedKept
  <2> QED  BY <2>1, <2>2, <2>3, <2>4, <2>5, <2>6
<1>3. ASSUME NEW p \in Procs, ProbeFree(p) PROVE OwnerInv'
  <2>1. TypeOK'
    <3>1. \E s \in Seq(Files) : todo' \in {todo, [todo EXCEPT ![p] = s]}
      BY <1>3, Orders DEF ProbeFree
    <3>2. todo' \in [Procs -> Seq(Files)]
      BY <3>1
    <3> QED  BY <1>3, <3>2 DEF ProbeFree, GoesTo
  <2>2. DaemonsBind'
    BY <1>3 DEF ProbeFree, GoesTo
  <2>3. PortOwned'
    BY <1>3 DEF ProbeFree, GoesTo
  <2>4. OwnerListens'
    BY <1>3 DEF ProbeFree, GoesTo
  <2>5. ClaimKept'
    BY <1>3 DEF ProbeFree, GoesTo, ClaimKept, ServedKept
  <2>6. ServedKept'
    BY <1>3 DEF ProbeFree, GoesTo, ClaimKept, ServedKept
  <2> QED  BY <2>1, <2>2, <2>3, <2>4, <2>5, <2>6
<1>4. ASSUME NEW p \in Procs, Unlink(p) PROVE OwnerInv'
  <2>1. TypeOK'
    BY <1>4 DEF Unlink
  <2>2. DaemonsBind'
    BY <1>4 DEF Unlink
  <2>3. PortOwned'
    BY <1>4 DEF Unlink
  <2>4. OwnerListens'
    BY <1>4 DEF Unlink
  <2>5. ClaimKept'
    BY <1>4 DEF Unlink, ClaimKept, ServedKept
  <2>6. ServedKept'
    BY <1>4 DEF Unlink, ClaimKept, ServedKept
  <2> QED  BY <2>1, <2>2, <2>3, <2>4, <2>5, <2>6
<1>5. ASSUME NEW p \in Procs, Spawn(p) PROVE OwnerInv'
  <2>1. TypeOK'
    BY <1>5 DEF Spawn
  <2>2. DaemonsBind'
    BY <1>5 DEF Spawn
  <2>3. PortOwned'
    BY <1>5 DEF Spawn
  <2>4. OwnerListens'
    BY <1>5 DEF Spawn
  <2>5. ClaimKept'
    BY <1>5 DEF Spawn, ClaimKept, ServedKept
  <2>6. ServedKept'
    BY <1>5 DEF Spawn, ClaimKept, ServedKept
  <2> QED  BY <2>1, <2>2, <2>3, <2>4, <2>5, <2>6
<1>6. ASSUME NEW p \in Procs, Waited(p) PROVE OwnerInv'
  <2>1. TypeOK'
    BY <1>6 DEF Waited, GoesTo
  <2>2. DaemonsBind'
    BY <1>6 DEF Waited, GoesTo
  <2>3. PortOwned'
    BY <1>6 DEF Waited, GoesTo
  <2>4. OwnerListens'
    BY <1>6 DEF Waited, GoesTo
  <2>5. ClaimKept'
    BY <1>6 DEF Waited, GoesTo, ClaimKept, ServedKept
  <2>6. ServedKept'
    BY <1>6 DEF Waited, GoesTo, ClaimKept, ServedKept
  <2> QED  BY <2>1, <2>2, <2>3, <2>4, <2>5, <2>6
<1>7. ASSUME NEW p \in Procs, Relay(p) PROVE OwnerInv'
  <2>1. TypeOK'
    BY <1>7 DEF Relay, GoesTo
  <2>2. DaemonsBind'
    BY <1>7 DEF Relay, GoesTo
  <2>3. PortOwned'
    BY <1>7 DEF Relay, GoesTo
  <2>4. OwnerListens'
    BY <1>7 DEF Relay, GoesTo
  <2>5. ClaimKept'
    BY <1>7 DEF Relay, GoesTo, ClaimKept, ServedKept
  <2>6. ServedKept'
    BY <1>7 DEF Relay, GoesTo, ClaimKept, ServedKept
  <2> QED  BY <2>1, <2>2, <2>3, <2>4, <2>5, <2>6
<1>8. ASSUME NEW p \in Procs, BindPort(p) PROVE OwnerInv'
  <2>1. TypeOK'
    <3>1. todo' \in {todo, [todo EXCEPT ![p] = LockFirst]}
      BY <1>8 DEF BindPort
    <3>2. todo' \in [Procs -> Seq(Files)]
      BY <3>1, Orders
    <3> QED  BY <1>8, <3>2 DEF BindPort, GoesTo
  <2>2. DaemonsBind'
    BY <1>8 DEF BindPort, GoesTo
  <2>3. PortOwned'
    BY <1>8 DEF BindPort, GoesTo
  <2>4. OwnerListens'
    BY <1>8 DEF BindPort, GoesTo
  <2>5. ClaimKept'
    <3>1. CASE port = None
      <4>1. todo'[p] = LockFirst /\ \A q \in Procs : pc'[q] = "claiming" => q = p
        BY <1>8, <3>1 DEF BindPort, GoesTo
      <4> QED  BY <4>1, Orders DEF ClaimKept
    <3>2. CASE port # None
      BY <1>8, <3>2 DEF BindPort, GoesTo, ClaimKept
    <3> QED  BY <3>1, <3>2
  <2>6. ServedKept'
    BY <1>8 DEF BindPort, GoesTo, ServedKept
  <2> QED  BY <2>1, <2>2, <2>3, <2>4, <2>5, <2>6
<1>9. ASSUME NEW p \in Procs, Claim(p) PROVE OwnerInv'
  <2> DEFINE t == todo[p]
  <2>0. /\ pc[p] = "claiming" /\ port = p /\ t \in ClaimsLeft
        /\ file' = [file EXCEPT ![Head(t)] = p]
        /\ todo' = [todo EXCEPT ![p] = Tail(t)]
        /\ pc' = [pc EXCEPT ![p] = IF Tail(t) = <<>> THEN "serving" ELSE "claiming"]
        /\ listening' \in {listening, listening \cup {p}}
        /\ UNCHANGED <<port, saw, downs>>
    BY <1>9 DEF Claim, GoesTo, ClaimKept
  <2> HIDE DEF t
  <2>a. /\ Head(t) \in Files /\ Tail(t) \in Seq(Files)
        /\ Tail(t) # <<>> => Tail(t) \in ClaimsLeft
        /\ \A f \in Files : f # Head(t) /\ (\A i \in DOMAIN Tail(t) : Tail(t)[i] # f)
                             => \A i \in DOMAIN t : t[i] # f
    BY <2>0, OneClaim
  <2>1. TypeOK'
    BY <2>0, <2>a
  <2>2. DaemonsBind'
    BY <2>0
  <2>3. PortOwned'
    BY <2>0
  <2>4. OwnerListens'
    BY <2>0
  <2>b. \A f \in Files : (\A i \in DOMAIN Tail(t) : Tail(t)[i] # f) => file'[f] \in {p, None}
    BY <2>0, <2>a DEF ClaimKept, t
  <2>5. ClaimKept'
    BY <2>0, <2>a, <2>b DEF ClaimKept
  <2>6. ServedKept'
    <3>1. Tail(t) = <<>> => DOMAIN Tail(t) = {}
      OBVIOUS
    <3> QED  BY <2>0, <2>b, <3>1 DEF ServedKept
  <2> QED  BY <2>1, <2>2, <2>3, <2>4, <2>5, <2>6
<1>10. ASSUME NEW p \in Procs, Tick(p) PROVE OwnerInv'
  <2>1. TypeOK'
    BY <1>10 DEF Tick, Healed
  <2>2. DaemonsBind'
    BY <1>10 DEF Tick, Healed
  <2>3. PortOwned'
    BY <1>10 DEF Tick, Healed
  <2>4. OwnerListens'
    BY <1>10 DEF Tick, Healed
  <2>5. ClaimKept'
    BY <1>10 DEF Tick, Healed, ClaimKept, ServedKept
  <2>6. ServedKept'
    BY <1>10 DEF Tick, Healed, ClaimKept, ServedKept
  <2> QED  BY <2>1, <2>2, <2>3, <2>4, <2>5, <2>6
<1>11. ASSUME NEW p \in Procs, Shutdown(p) PROVE OwnerInv'
  <2>1. TypeOK'
    BY <1>11 DEF Shutdown, GoesTo, ClearOrder, Files
  <2>2. DaemonsBind'
    BY <1>11 DEF Shutdown, GoesTo, ClearOrder
  <2>3. PortOwned'
    BY <1>11 DEF Shutdown, GoesTo, ClearOrder
  <2>4. OwnerListens'
    BY <1>11 DEF Shutdown, GoesTo, ClearOrder
  <2>5. ClaimKept'
    BY <1>11 DEF Shutdown, GoesTo, ClearOrder, ClaimKept, ServedKept
  <2>6. ServedKept'
    BY <1>11 DEF Shutdown, GoesTo, ClearOrder, ClaimKept, ServedKept
  <2> QED  BY <2>1, <2>2, <2>3, <2>4, <2>5, <2>6
<1>12. ASSUME NEW p \in Procs, Left(p) PROVE OwnerInv'
  <2>1. TypeOK'
    BY <1>12 DEF Left, GoesTo
  <2>2. DaemonsBind'
    BY <1>12 DEF Left, GoesTo
  <2>3. PortOwned'
    BY <1>12 DEF Left, GoesTo
  <2>4. OwnerListens'
    BY <1>12 DEF Left, GoesTo
  <2>5. ClaimKept'
    BY <1>12 DEF Left, GoesTo, ClaimKept, ServedKept
  <2>6. ServedKept'
    BY <1>12 DEF Left, GoesTo, ClaimKept, ServedKept
  <2> QED  BY <2>1, <2>2, <2>3, <2>4, <2>5, <2>6
<1>13. ASSUME NEW p \in Procs, RelayEnds(p) PROVE OwnerInv'
  <2>1. TypeOK'
    BY <1>13 DEF RelayEnds, GoesTo
  <2>2. DaemonsBind'
    BY <1>13 DEF RelayEnds, GoesTo
  <2>3. PortOwned'
    BY <1>13 DEF RelayEnds, GoesTo
  <2>4. OwnerListens'
    BY <1>13 DEF RelayEnds, GoesTo
  <2>5. ClaimKept'
    BY <1>13 DEF RelayEnds, GoesTo, ClaimKept, ServedKept
  <2>6. ServedKept'
    BY <1>13 DEF RelayEnds, GoesTo, ClaimKept, ServedKept
  <2> QED  BY <2>1, <2>2, <2>3, <2>4, <2>5, <2>6
<1>14. ASSUME NEW p \in Procs, Crash(p) PROVE OwnerInv'
  <2>1. TypeOK'
    BY <1>14 DEF Crash, GoesTo, Alive
  <2>2. DaemonsBind'
    BY <1>14 DEF Crash, GoesTo, Alive
  <2>3. PortOwned'
    BY <1>14 DEF Crash, GoesTo, Alive
  <2>4. OwnerListens'
    BY <1>14 DEF Crash, GoesTo, Alive
  <2>5. ClaimKept'
    BY <1>14 DEF Crash, GoesTo, Alive, ClaimKept, ServedKept
  <2>6. ServedKept'
    BY <1>14 DEF Crash, GoesTo, Alive, ClaimKept, ServedKept
  <2> QED  BY <2>1, <2>2, <2>3, <2>4, <2>5, <2>6
<1>15. CASE UNCHANGED vars
  BY <1>15 DEF vars, ClaimKept, ServedKept
<1> QED  BY <1>1, <1>2, <1>3, <1>4, <1>5, <1>6, <1>7, <1>8, <1>9, <1>10, <1>11, <1>12, <1>13, <1>14, <1>15 DEF Next, Starting

\* The inductive invariant holds throughout, so each of its parts does: whoever has the
\* port is the one process past its claim, whatever the others clear or write.
THEOREM OwnerInvariant == Spec => []OwnerInv
<1>1. OwnerInv /\ [Next]_vars => OwnerInv'
  BY StepHolds
<1> QED  BY InitHolds, <1>1, PTL DEF Spec

\* Type correctness.
THEOREM TypeCorrect == Spec => []TypeOK
<1>1. OwnerInv => TypeOK
  BY DEF OwnerInv
<1> QED  BY OwnerInvariant, <1>1, PTL

\* However many processes start, stop and crash in whatever order, the CLI's socket
\* and the extensions' port never lead to two daemons.
THEOREM NoSplitBrain == Spec => []SocketLeadsToOwner
<1>1. OwnerInv => SocketLeadsToOwner
  BY DEF OwnerInv, OwnerListens, SocketLeadsToOwner
<1> QED  BY OwnerInvariant, <1>1, PTL

\* A serving daemon never finds another's files in place of its own.
THEOREM NoForeignFiles == Spec => []FilesOwnOrMissing
<1>1. OwnerInv => FilesOwnOrMissing
  BY DEF OwnerInv, PortOwned, ServedKept, FilesOwnOrMissing, Procs
<1> QED  BY OwnerInvariant, <1>1, PTL
\* Both: one daemon behind the two doors, serving with files of its own.
THEOREM OneDaemon == Spec => []OneOwner
BY NoSplitBrain, NoForeignFiles, PTL DEF OneOwner
=============================================================================
