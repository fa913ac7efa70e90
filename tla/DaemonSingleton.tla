--------------------------- MODULE DaemonSingleton ---------------------------
(***************************************************************************)
(* Who is the daemon: processes that start, probe the WebSocket port,      *)
(* clear and write the runtime files, stop and crash, on one machine       *)
(* (daemon/index.ts, daemon/lifecycle.ts, shared/daemon-health.ts), and    *)
(* the CLI's ensureDaemon (cli/daemon-spawn.ts), which starts one.         *)
(*                                                                         *)
(* Each process runs one handler at a time, but between any two of its     *)
(* system calls the others run. A runtime file is named by the process it  *)
(* was written by; the socket's path by the process whose listener it is   *)
(* (or was). Process ids are not reused, and a foreign program on the port *)
(* and an installation under way are not modelled.                         *)
(***************************************************************************)
EXTENDS Naturals, Sequences

CONSTANTS
  Standalones,   \* processes started with --standalone
  Natives,       \* processes the browser starts for native messaging
  Clis,          \* CLI commands
  MaxDowns,      \* bound on stops and crashes
  None

Daemons == Standalones \cup Natives
Procs   == Daemons \cup Clis

ASSUME SingletonAssumption ==
  /\ None \notin Procs /\ MaxDowns \in Nat
  /\ Standalones \cap Natives = {} /\ Daemons \cap Clis = {}

Files == {"socket", "pid", "lock"}

VARIABLES
  port,        \* the process that has bound the WebSocket port
  file,        \* the runtime files
  listening,   \* processes that listen for CLI sockets
  pc,          \* how far a process is
  todo,        \* the files it has still to unlink, or to write, in this order
  saw,         \* readPidState found a pid file that is not its own
  downs

vars == <<port, file, listening, pc, todo, saw, downs>>

TypeOK ==
  /\ port \in Daemons \cup {None}
  /\ file \in [Files -> Daemons \cup {None}]
  /\ listening \subseteq Daemons
  /\ pc \in [Procs -> {"off", "spawned", "probing", "spawning", "waiting", "relaying", "relay",
                       "binding", "claiming", "serving", "leaving", "exited"}]
  /\ todo \in [Procs -> Seq(Files)]
  /\ saw \in [Procs -> BOOLEAN]
  /\ downs \in 0 .. MaxDowns

Init ==
  /\ port = None
  /\ file = [f \in Files |-> None]
  /\ listening = {}
  /\ pc = [p \in Procs |-> "off"]
  /\ todo = [p \in Procs |-> <<>>]
  /\ saw = [p \in Procs |-> FALSE]
  /\ downs = 0

-----------------------------------------------------------------------------
Alive(p) == pc[p] \notin {"off", "exited"}

\* The pid file names a live process and the socket's path exists.
Ready == file["pid"] # None /\ Alive(file["pid"]) /\ file["socket"] # None

GoesTo(p, place) == pc' = [pc EXCEPT ![p] = place]
ClearOrder == <<"socket", "pid", "lock">>

\* What a live owner makes of its files while it answers a probe or on its tick. Of
\* the socket it asks only whether the path exists.
HealedFaulty(p) == [f \in Files |-> IF f # "socket" THEN p ELSE file[f]]
Healed(p) == [f \in Files |-> IF f = "socket" /\ file[f] # None THEN file[f] ELSE p]

-----------------------------------------------------------------------------
(* Starting *)

\* The browser starts a native host, or a user a CLI command; a standalone daemon
\* was spawned. It reads the pid file before anything else.
Begin(p) ==
  /\ pc[p] = IF p \in Standalones THEN "spawned" ELSE "off"
  /\ saw' = [saw EXCEPT ![p] = file["pid"] # None]
  /\ GoesTo(p, IF p \in Clis /\ Ready THEN "exited" ELSE "probing")
  /\ UNCHANGED <<port, file, listening, todo, downs>>

\* The probe finds the port held. Its owner heals the files if it can answer yet.
ProbeHeld(p) ==
  /\ pc[p] = "probing" /\ port # None
  /\ file' = IF pc[port] = "serving" THEN Healed(port) ELSE file
  /\ GoesTo(p, IF p \in Natives THEN "relaying" ELSE "exited")
  /\ UNCHANGED <<port, listening, todo, saw, downs>>

\* The probe finds the port free; what is decided now is done later.
ProbeFree(p) ==
  /\ pc[p] = "probing" /\ port = None
  /\ \/ /\ p \in Clis /\ Ready
        /\ GoesTo(p, "exited")
        /\ UNCHANGED todo
     \/ /\ p \in Clis /\ ~Ready
        /\ GoesTo(p, "spawning")
        /\ todo' = [todo EXCEPT ![p] = <<"socket", "pid">>]
     \/ /\ p \in Daemons
        /\ GoesTo(p, IF p \in Standalones THEN "binding" ELSE "spawning")
        /\ todo' = [todo EXCEPT ![p] = IF saw[p] THEN ClearOrder ELSE <<>>]
  /\ UNCHANGED <<port, file, listening, saw, downs>>

\* clearDaemonRuntimeFiles, one file at a time.
Unlink(p) ==
  /\ pc[p] \in {"spawning", "binding", "leaving"} /\ todo[p] # <<>>
  /\ file' = [file EXCEPT ![Head(todo[p])] = None]
  /\ todo' = [todo EXCEPT ![p] = Tail(@)]
  /\ UNCHANGED <<port, listening, pc, saw, downs>>

\* spawnDetachedStandaloneDaemon, and the CLI's spawn.
Spawn(p) ==
  /\ pc[p] = "spawning" /\ todo[p] = <<>>
  /\ \E q \in Standalones :
       /\ pc[q] = "off"
       /\ pc' = [pc EXCEPT ![p] = "waiting", ![q] = "spawned"]
  /\ UNCHANGED <<port, file, listening, todo, saw, downs>>

\* waitForDaemonReady, and the CLI's wait for the socket, until something is there
\* or the time is up; a native host then serves itself.
WaitedThenBindsFaulty(p) ==
  /\ pc[p] = "waiting"
  /\ \/ Ready /\ GoesTo(p, "relaying")
     \/ ~Ready /\ GoesTo(p, "binding")
  /\ UNCHANGED <<port, file, listening, todo, saw, downs>>
Waited(p) ==
  /\ pc[p] = "waiting"
  /\ \/ p \in Natives /\ Ready /\ GoesTo(p, "relaying")
     \/ p \in Natives /\ ~Ready /\ GoesTo(p, "binding")
     \/ p \in Clis /\ GoesTo(p, "exited")
  /\ UNCHANGED <<port, file, listening, todo, saw, downs>>

\* startNativeRelay: connecting to the socket's path.
Relay(p) ==
  /\ pc[p] = "relaying"
  /\ GoesTo(p, IF file["socket"] \in listening THEN "relay" ELSE "exited")
  /\ UNCHANGED <<port, file, listening, todo, saw, downs>>

\* The singleton gate.
LockFirst == <<"lock", "socket", "pid">>
BindAfterClaimFaulty(p) ==
  /\ pc[p] = "binding" /\ todo[p] = <<>>
  /\ todo' = [todo EXCEPT ![p] = LockFirst]
  /\ GoesTo(p, "claiming")
  /\ port' = IF port = None THEN p ELSE port
  /\ UNCHANGED <<file, listening, saw, downs>>
ExitOnHeldFileFaulty(p) ==
  /\ pc[p] = "binding" /\ todo[p] = <<>>
  /\ IF port = None /\ file["lock"] = None
     THEN /\ port' = p
          /\ GoesTo(p, "claiming")
          /\ todo' = [todo EXCEPT ![p] = LockFirst]
     ELSE /\ GoesTo(p, "exited")
          /\ UNCHANGED <<port, todo>>
  /\ UNCHANGED <<file, listening, saw, downs>>
BindPort(p) ==
  /\ pc[p] = "binding" /\ todo[p] = <<>>
  /\ \/ /\ port = None
        /\ port' = p
        /\ GoesTo(p, "claiming")
        /\ todo' = [todo EXCEPT ![p] = LockFirst]
     \/ /\ port # None
        /\ GoesTo(p, "exited")
        /\ UNCHANGED <<port, todo>>
  /\ UNCHANGED <<file, listening, saw, downs>>

\* Writing the lock, listening (over a leftover path), writing the pid.
Claim(p) ==
  /\ pc[p] = "claiming" /\ todo[p] # <<>>
  /\ file' = [file EXCEPT ![Head(todo[p])] = p]
  /\ listening' = IF Head(todo[p]) = "socket" THEN listening \cup {p} ELSE listening
  /\ todo' = [todo EXCEPT ![p] = Tail(@)]
  /\ GoesTo(p, IF Tail(todo[p]) = <<>> THEN "serving" ELSE "claiming")
  /\ UNCHANGED <<port, saw, downs>>

-----------------------------------------------------------------------------
(* Serving and ending *)

Tick(p) ==
  /\ pc[p] = "serving"
  /\ file' = Healed(p)
  /\ UNCHANGED <<port, listening, pc, todo, saw, downs>>

\* gracefulShutdown; stop() may unlink the path itself. The exit hook clears the
\* files once more.
ShutdownKeepsListeningFaulty(p) ==
  /\ pc[p] = "serving" /\ downs < MaxDowns
  /\ downs' = downs + 1
  /\ port' = None
  /\ todo' = [todo EXCEPT ![p] = ClearOrder \o ClearOrder]
  /\ GoesTo(p, "leaving")
  /\ UNCHANGED <<file, saw, listening>>
Shutdown(p) ==
  /\ pc[p] = "serving" /\ downs < MaxDowns
  /\ downs' = downs + 1
  /\ listening' = listening \ {p}
  /\ file' \in {file, [file EXCEPT !["socket"] = None]}
  /\ port' = None
  /\ todo' = [todo EXCEPT ![p] = ClearOrder \o ClearOrder]
  /\ GoesTo(p, "leaving")
  /\ UNCHANGED saw

Left(p) ==
  /\ pc[p] = "leaving" /\ todo[p] = <<>>
  /\ GoesTo(p, "exited")
  /\ UNCHANGED <<port, file, listening, todo, saw, downs>>

\* A relay ends with its daemon, or with the browser.
RelayEnds(p) ==
  /\ pc[p] = "relay"
  /\ GoesTo(p, "exited")
  /\ UNCHANGED <<port, file, listening, todo, saw, downs>>

Crash(p) ==
  /\ p \in Daemons /\ Alive(p) /\ downs < MaxDowns
  /\ downs' = downs + 1
  /\ GoesTo(p, "exited")
  /\ port' = IF port = p THEN None ELSE port
  /\ listening' = listening \ {p}
  /\ UNCHANGED <<file, todo, saw>>

-----------------------------------------------------------------------------
Starting(p) ==
  \/ ProbeHeld(p) \/ ProbeFree(p) \/ Unlink(p) \/ Spawn(p) \/ Waited(p) \/ Relay(p)
  \/ BindPort(p) \/ Claim(p) \/ Left(p) \/ (p \in Standalones /\ Begin(p))

Next ==
  \E p \in Procs : Begin(p) \/ Starting(p) \/ Tick(p) \/ Shutdown(p) \/ RelayEnds(p) \/ Crash(p)

\* What was started goes on, and an owner's tick comes round.
Fairness == \A p \in Procs : WF_vars(Starting(p)) /\ WF_vars(Tick(p))

Spec     == Init /\ [][Next]_vars
FairSpec == Spec /\ Fairness

-----------------------------------------------------------------------------
(* Properties *)

\* No split brain (lifecycle.ts:274-276): where the CLI's socket path leads to a
\* listener, it leads to the process that has the extensions' port.
SocketLeadsToOwner == file["socket"] \in listening => file["socket"] = port

\* The files of a serving daemon are its own or missing, never another's, although
\* processes that lost a race, leave or start clear and write them too: that is why
\* the owner may heal its socket by asking only whether the path exists.
FilesOwnOrMissing ==
  \A p \in Daemons : pc[p] = "serving" => port = p /\ \A f \in Files : file[f] \in {p, None}

\* However starts, stops and crashes meet, one daemon is behind both doors, and what it
\* serves with is its own.
OneOwner == SocketLeadsToOwner /\ FilesOwnOrMissing

\* Whoever clears what, a daemon that goes on serving has all its files in the end.
SelfHeals ==
  \A p \in Daemons :
    <>[](pc[p] = "serving") => <>[](\A f \in Files : file[f] = p)

\* Starting daemons never all give way: after one has started, one serves, unless
\* some process stopped or crashed meanwhile.
StartsOne ==
  \A n \in 0 .. MaxDowns :
    (downs = n /\ \E p \in Daemons : pc[p] = "probing")
      ~> (downs > n \/ \E q \in Daemons : pc[q] = "serving")

\* "a starting daemon ... relays or exits while the port is held and never clears the
\* owner's files" (ARCHITECTURE.md:299).
OwnersFilesNotCleared ==
  [][\A p \in Daemons : Unlink(p) /\ pc[p] # "leaving" /\ port # None
       => file[Head(todo[p])] # port]_vars
=============================================================================
