# Interceptor: specifications, model checking and proofs

This directory holds TLA+ specifications of Interceptor, the program in `../src`: a daemon
through which a command line drives the user's browsers, macOS, CDP applications, runtime
agents and iOS devices. The specifications cover what is hard to test in it: the routing and
answering of requests, the links that break underneath them, the start-up race of the daemon,
and the state that outlives a call: monitor sessions, task files that several processes work
on, named tab groups. They are checked with TLC on small instances, and every safety
property that holds there is proved with TLAPS for all values of the constants.

Paths below are relative to `../src`. `PROJECT.json` maps every definition to the lines it
translates, lists the runs, a mutation of the code for each property that the run must
detect, the hazards and the theorems.

## 1. Inventory

### How the parts interact

```
 CLI --unix socket--+                                +-- native port --+
 MCP --CLI          +--> daemon (one event loop) ----+-- WebSocket ----+--> extension worker
 runtime agent --WS-+     |         |       |        +-- native relay -+       |
                          |         |       +-- CDP, iOS, vault, OS input      +--> tabs
                    unix socket     +-- WebSocket <-- appex <-one-shot- Safari background page
                          v
                  interceptor-bridge (Swift)
```

A CLI command sends one length-prefixed request and waits for one answer. The daemon routes it
to a browser (by WebSocket, native relay or stdout), to the bridge, or to a surface of its own;
a browser answers with a response of the same id. Everything is a callback on one event loop
in the daemon and one in the extension, so the interleavings are between callbacks: what one of
them has checked before an `await`, a timer or a reply may no longer hold after it.

### Components

| Component | State | Operations | Hard | Correct when |
|---|---|---|---|---|
| Request broker, `daemon/index.ts` | `pendingRequests` with timers, `timedOutRequests`, `wsOutboundQueues` | accept, dispatch, reply, timeout, OS input, drain, shutdown | sends that drop or throw; answers late, twice or after the shutdown; waits for the vault | every accepted request is answered, once; it reaches the context it names or none |
| Context routing, `daemon/context-registration.ts`, `outbound-routing.ts` | `extensionWsMap`, ids on sockets, `nativeAgentMeta`, relay slot | claim, register, release, validate | claims, moves and closes in any order | both sides of the map agree; no slot or id leads to a closed socket |
| Socket writer and framing, `daemon/socket-write.ts` | queued tails, reader's buffer | write, drain, release, parse | partial writes, split headers, oversize frames | the stream is a FIFO of whole frames; nothing waits without a drain due |
| Bridge link, `daemon/index.ts` | `bridgeSocket`, `bridgePending`, `bridgeBuffer`, dial and spawn flags | connect, spawn, send, receive, close, retry | check-then-act over `await`; two connections; shared buffer | every request answered, at most once; none left in flight after a close |
| Start-up, `daemon/lifecycle.ts`, `cli/daemon-spawn.ts` | port, pid, socket and lock file | probe, clear, bind, claim, heal, stop | time of check, time of use between processes; crashes | one daemon behind both doors; its files come back |
| Extension transport, `background/transport.ts` | `nativePort`, `wsChannel`, `activeTransport`, readiness, eight timers, recovery queue | connect, handshake, register, keep alive, lose, restart | stale timers and flags of earlier connections | active means usable; ready means registered; nothing waits beside an open channel |
| Message dispatch, `background/message-dispatch.ts` | `messageQueue`, `pendingRequests` | park, drain, execute, time out | parked with nobody to drain; second answers | nothing stays parked beside a channel |
| Safari relay, `background/safari-native-relay.ts`, the appex | outbound queue, exchange, actor's socket, inbound frames | enqueue, exchange, splice, deliver | queue changes during the exchange; half-sent batches | order kept both ways; no loss short of overflow; commands run once |
| Binary sink, `daemon/index.ts:1549-1748` | open sinks, temp files | open, frame, close, abort | repeated or lost frames, failed writes | a promoted file is whole |
| Spin watchdog, `daemon/spin-watchdog.ts` | consecutive busy ticks | tick, exit | a request in no table | it never ends a daemon with work |
| Vault and credentials, `daemon/secrets.ts` | vault, grants | grant, deliver, redact | expiry against delivery | a value goes only where its grant says |
| CDP surface, `daemon/cdp/` | command table, attached apps | attach, send, close | answer against timeout against close | each command settles once |
| iOS surface, `daemon/ios/` | runner channels, launches in flight | ensure, register, send, tear down | dedup over `await`, superseded launches | one runner per device |
| Monitor sessions, `capabilities/monitor.ts`, `syncSessionMetaFromEvent` in the daemon | `sessions`, `activeSessionByTab`, attachments, `pendingChildTabs`; the daemon's session.json | start, stop, pause; hand over on commit, replacement, focus; end on removal | what a handler read before an `await` used after it; several calls on one tab | a tab leads to the session attached there; the record follows the session |
| Monitor tasks, `shared/monitor-tasks.ts` | metadata file, event log, `.mutation.lock` with owner and reclaim | lock, reclaim, checkpoint, verify, complete, attach, detach, snapshot, stop | several processes on the same files, which may die; an owner that is gone and one that has ended look the same | one process inside, no lost update, a verdict of its checkpoint, until two reclaim one owner's lock |
| Tab groups and lifecycle, `tab-group.ts`, `tab-lifecycle.ts` | `namedGroups` and its stored copy, `groupAddChains`, activity stamps | hydrate, look up, add, purge, sweep | browser calls between check and use; the user; worker restarts | one group per label; every add ends; no tab in use swept |
| Screenshot rule, `screenshot-cors.ts` | count per tab | install, uninstall | overlapping screenshots | rule present while counted |

CLI parsing, the MCP adapter, content scripts, the other browser capabilities, the extension
fabric, the Swift domains and the installers keep no state that concurrent actors share, or are
calls into the operating system; they are listed in `PROJECT.json` with the reason each is left
out.

## 2. Modules

| Module | Models | Composition |
|---|---|---|
| `Broker` | request broker and context routing | implements `RequestService` |
| `RequestService` | what a requester may rely on: accepted requests are ended, and how often | abstract |
| `SocketStream` | one direction of a daemon socket: writer, kernel, reader | implements `FrameChannel` |
| `FrameChannel` | a FIFO of frames that may end | abstract |
| `BridgeLink` | daemon's side of the bridge, with `Transport.swift` and the bridge process as environment | requests cross whole: `SocketStream` is why |
| `DaemonSingleton` | start-up and stop of daemons, native hosts and CLI commands over the port and the files | |
| `ExtensionTransport` | both channels of the extension and its request queue | the other end of `Broker`'s sockets |
| `SafariRelay` | the page's relay client and the appex's actor | the Safari lane in place of `ExtensionTransport` |
| `MonitorSession` | the extension's monitor sessions and the daemon's record of each | on `BrowserTabs`; events arrive in order: `SocketStream` is why |
| `BrowserTabs` | the tabs, which the sessions and the groups of one service worker share | |
| `MonitorTasks` | one task on disk, its lock and the processes that work on it | implements `TaskRecord` |
| `TaskRecord` | a task's metadata and event numbers, changed by whole commands | abstract |
| `TabGroups` | named tab groups, the sweep of idle ones, the browser and the user | on `BrowserTabs` |
| `MC*` | model values, and symmetry where sets are interchangeable | |
| `*Proofs` | theorems of the module they are named after; `ServiceWorkerProofs` those of `MonitorSession` and `TabGroups` | |

Names of state follow the code. An operator called `...Faulty`, before the definition it is a
variant of, is a plausible bug; none is reachable from a specification.

**Broker.** One action per handler; a handler that awaits is two. `AcceptGated` is the wait for
the vault (index.ts:725-746, 774-828), after which `Dispatch` decides the transport on the state
it finds. `Dispatch` is `sendNativeMessage` (1425-1525) with its calls: a WebSocket send is
`sent`, `dropped` (ws.send returns 0) or `throws`, then the relay, stdout, or the queue, whose
oldest entry gives way; `DrainQueues` is part of every registration. CDP, iOS and vault answers, which
resolve a promise of their own, are `AcceptDirect` / `DirectDone`. `RegisterExtension` takes any context
id, a runtime one too, as index.ts:2176-2188 does; that a runtime agent's socket sends no extension
registration is what the agents do, not what the daemon checks. A response runs
`handleNativeMessage` (1250-1326), including the OS-input branch, in which the request stays
pending while `osRunning` counts the inputs in progress, and `timedOutRequests`. `Shutdown` is
gracefulShutdown (2396-2415).

**SocketStream.** Frames are sequences of numbered bytes with a header; the kernel takes any
prefix of what it is given up to `SNDBUF`. `DrainWrite` is one turn of drainSocketQueue's loop.
The reader's `Data` and `Parse` follow index.ts:1826-1843, with the drop of its buffer on an oversize header.

**BridgeLink.** `Route` is sendToBridge up to the await of connectBridge, `Opened`, `DialFails`,
`SpawnReturns` and `SpawnCooldown` its continuations. Connections are slots, reused when closed.
A response is two pieces, so that a connection can close or another open inside it.

**DaemonSingleton.** One action per system call another process can come between: reading,
probing, unlinking each file, spawning, binding, claiming, healing. Other processes see files as
the process that wrote them, which is what they hold (pid, socket inode).

**ExtensionTransport.** transport.ts's module variables are one record `t`, and its functions
operators on it, so that an action composes them as the callback calls them. Only what the
channels' state depends on is kept of a reply: whether posting throws, and what waits in the recovery queue.
What the daemon knows of the current socket (`asked`, `known`, `wedged`) is environment. Hosts
without native messaging and `context_conflict`'s retry text are left out. A second registration sent before the first is answered is
answered once.

**SafariRelay.** The page and the actor are two processes; an exchange is the call between them,
and everything the page does during the long poll interleaves with the actor's steps.

**MonitorSession.** A handler of monitor.ts that awaits is several actions, and what it keeps over
the wait is in `start`, `focus` or `stop`: `StartCalled`, `StartArmed` and `Started` are
monitor_start (748-834) around armMonitorForTab; `FocusActivated`, `FocusGrouped` and
`FocusSwitches` are handleFocusActivated (504-545); `StopCalled` and `StopDisarmed` are
monitor_stop (864-907). `Created`, `Committed`, `HistoryUpdated`, `Replaced`, `Removed` and
`ContentEvent` are the listeners. A tab opens in a step of its own (`TabOpens`; `birth`
keeps its opener) and its onCreated comes later: after onActivated of the same tab, or during the waits of
handleFocusActivated, as the comment at 521 says; its commits, its replacement and its removal come after it. So
`FocusGrouped` has the recheck at 522 and the wait at 530, and `FocusSwitches` has none before 545, as
in the code. `current` stays after a session is deleted, as the object does
that a call still holds. `meta` is the daemon's session.json: each event that a step sends is applied
in the step, with the key attachmentFromEvent makes of it (index.ts:862-878), which is not
always the attachment's own: a detach may carry a document the attach did not, and then leaves
the entry; so `MetaFollows` speaks of the tab, not of the document. Subframes, event
numbers and counts, and the re-arming of documents after the first are left out.

**MonitorTasks.** An action is a system call of withTaskLock (533-572) or of a write under it, so
that another process can come between any two: `Mkdir`, and where the directory is there `ReadOwner`, `Kill`,
`Claim`, `Check` and the removal of reclaimDeadTaskLock, its finally (`Unclaim`) and `MkdirAgain`; the owner file
(`Own`), the read and the writes inside, and the removal at the end. A removal is rmSync's unlinks and its
rmdir (`UnlinkOwner`, `UnlinkClaim`, `Rmdir`, `Vanished`), in the order in which the directory lists the
files. An owner is a process and a time (`Stamps`), compared as a pair (543). A process is gone (`Gone`) when
it died, and may be when its command has ended: so a reclaimer can have read an owner that released the lock and
exited since, and put its claim in the lock of a successor. That a pid is used again is left out. `todo` holds
the critical sections a command still enters (`SectionsOf`), `seen` the metadata
it read before it asked for the lock, which checkpoint, verify and complete compare inside
(`Accepts`) and detach and snapshot write back. Any process may die anywhere, with the lock held. The auxiliary
`contested` says whether two live processes have been reclaiming one owner's lock at once (`TwoReclaim`).
`TaskRecord` is what is left of this for one who sees the two files: a checkpoint, a verdict, an end, each
made at once from the record as it is. It allows what the code allows and no more: a detach and
a snapshot write back a source that was there, though its member field may be out of date.

**TabGroups.** A caller of ensureNamedGroup is at one of its awaits (`op`); adds of one label
wait in `chain` (tab-group.ts:247), the running one first, and one that ends takes the first off. The browser is a part of the model: a tab group exists while
a tab is in it, its onRemoved event is on its way in `removed`, a call on what is gone
throws. `hydrated` is set before the read of the storage returns, as in the code, so that the second caller
goes on with what is there. The sweep (tab-lifecycle.ts:262-336) lists the groups (`SweepLists`), takes the counts
of tabs and the window in front once (`SweepCounts`), then goes from group to group with what it took. Which tab of a
window is active, and which window has the focus if any is known to, is chosen where it is asked for
(`Fronts`): a window that has tabs has one active tab, which guard G2 spares when the focus is there or
unknown. A restart of the worker ends every call and keeps the stored copy.

## 3. Runs

| Run | Instance | Question |
|---|---|---|
| `broker_core` | 2 sockets claiming 2 contexts, 2 relays, stdio, 1 OS request of the CLI, 1 WebSocket request, dropping sends | `RoutingSound`, `InFlightSound`, `NamedContextHonoured`; implements `RequestService` |
| `broker_faulty_links` | 2 agents over 2 runtime contexts, 1 relay, an OS request and an internal call, throwing sends, 2 replies each, queue cap 1 | queues, agents, at-most-once, every request ended |
| `stream_core` | 4 frames of 3 or 5 bytes of which the longer is over the limit of 4, header 2, buffer 3 | FIFO of whole frames up to an oversized one, each read in the end |
| `bridge_core` | 2 requests, 2 connections, 1 outage | answered once, nothing forgotten, ended |
| `singleton_core` | 2 standalone daemons, 1 native host, 1 CLI command, 2 stops or crashes | one owner of port and files, healing, a daemon in the end |
| `extension_core` | 2 ports, 2 sockets, 1 request per channel, 1 fault | readiness, recovery queue, active transport, reconnects |
| `safari_core` | 3 messages, 2 commands, 2 failures, queue cap 2 | order, loss, duplicates, progress |
| `monitor_session` | 2 sessions, 2 tabs, 2 documents, 1 focus call, 1 stop | tables agree, the daemon's record follows, a waiting child's first commit attaches its session there and nowhere else |
| `monitor_session_dead` | 1 session, 3 tabs | violated: a tab leads to a session that is gone |
| `monitor_tasks` | 3 processes, each of which may die, the commands checkpoint, complete, detach and stop | one live process inside and no lost write, until two live processes reclaim one owner's lock; implements `TaskRecord` likewise |
| `tab_groups` | 1 label, 2 tabs, 2 group ids, a lookup, the sweep, 1 user tab, 1 restart | one group per label, every add ends |
| `tab_groups_last` | 2 labels, 2 tabs in one window, the user's tab in a second one that has the focus; nothing else moves once the sweep has begun | violated: the sweep closes a window's last tab |

Several invariants are conjunctions of parts, each about one way to fail: `RoutingSound` (both sides of the context map agree; the relay
slot is open), `InFlightSound` (an accepted request is answered or in flight; a pending one has
its timer; one that waits for the vault is in no queue), `StreamSound` (bytes conserved, drain
due, whole frames in order), `OneOwner` (port, socket and files belong to one process, or the
files to none), `ChannelsSound` (readiness, recovery queue, active transport), `OutboundSound`
(no loss short of an overflow; order, and no duplicate without a failure, through overflows too), `NothingForgotten` (what waits for the
bridge is held; what is in flight has a connection).

**Why the bounds are enough.** Conflicts are between two of a kind: two sockets for a context,
two contexts for a socket, two relays, two connections, two processes past a probe, a port's
timer and its successor, two sessions on one tab, two adds of one label; each instance has those two and, where a third party interferes
(the native host and the CLI in `singleton_core`; in `monitor_tasks` the owner that is gone, its successor
and a reclaimer that still has the first one's name), it too. Queue caps are 1 or 2 so that they overflow with the
messages there are. In `stream_core` a frame is longer than the kernel buffer and the header
longer than a byte, so every split occurs. What is bounded is named: `MaxCrashes`, `MaxDowns`,
`MaxFaults`, `MaxFailures`, `MaxFrames`, `MaxMessages`, `MaxCommands`, `MaxRestarts`, `ReplyCopies`; after the bound the
environment is quiet, which is when the liveness properties speak. Symmetry is used in
`broker_core`, `monitor_tasks`, `tab_groups_last` and the two runs of `MonitorSession`, which check no liveness.
In `monitor_tasks` every process may die, and two times let an owner's record differ from another's by its time. The commands attach, verify,
snapshot alone and attachFailed are left to the proof, which is for all eight; stop has the snapshot as its last section.
`tab_groups_last` has the only ACTION_CONSTRAINT, `UndisturbedSweep`: it removes behaviours from a run that looks
for one, so that the violation shown is not one of a user or a restart.

`CHECK_DEADLOCK FALSE` stands where the system may stop: a broker that has shut down, processes
that have exited, a stream that is closed, tabs and ids that are used up, an environment that
has used up its faults. `extension_core` checks for deadlock.

**Disagreements that are runs.** (1) `tab_groups_last`: guard G5 of the sweep, never the last tab of
a window, is judged by counts taken before the first group was closed (tab-lifecycle.ts:274-336),
so two idle groups that share a window empty it, when the focus is known to be in another window; when
it is in that window, or not known, guard G2 (135) keeps the window's active tab. (2) `monitor_session_dead`: monitor_stop clears
the tab it read before its wait; a session that moved meanwhile leaves its new tab behind, where
start is refused and stop reads `sessions.get(sid)!` of a session that is gone.

**Disagreements that are stated but not run.** Each property below is defined in its module, and
TLC finds it violated when it is added to the module's configuration.

| Property | Against | What happens |
|---|---|---|
| `SafariRelay!OnlyExchangedRemoved` | safari-native-relay.ts:97 | the splice at 99 counts from a front that a full queue has moved (`QUEUE_CAP = 1`); short of that it is exact (theorem `SplicedExactly`) |
| `SafariRelay!ParkedCommandsRun` | safari-native-relay.ts:39 | after one failed exchange nothing turns the transport on again while the appex keeps its socket |
| `DaemonSingleton!OwnersFilesNotCleared` | ARCHITECTURE.md:299 | bootstrapDaemonRole clears files on a probe that is out of date; `SelfHeals` shows the owner restores them |
| `ExtensionTransport!ParkedOnlyUnconnected` | message-dispatch.ts:112 | losing the native port sets the active transport to none beside a registered WebSocket |
| `MonitorTasks!DetachStays` | the order of commands | a snapshot that read the source before a detach writes it back as attached (commands attach, detach, snapshot) |
| `TabGroups!NoStaleEntry` | tab-group.ts, purge on close | a group closed between the title and the registration of its creation is registered after its event was handled |
| `MonitorTasks!MutualExclusion` | README.md:605, ARCHITECTURE.md:151 | with one death: the process dies with the lock held, two others find it gone, and both pass the check at 543 in turn, the second once the first one's rmSync has unlinked `.reclaim` and not yet `owner.json`; both remove the lock and both enter. The `finally` at 549, which removes a `.reclaim` whoever made it, leads there as well |
| `MonitorSession!FocusNeverTakesChild` | ARCHITECTURE.md:101 | onCreated during the waits at 518 or 530: the recheck at 522 sees the first, nothing the second, and the switch at 545 takes the tab a child session was to have |

### Fairness

Weak fairness, of what the runtime drives: timers that fire, promises of the OS and of the vault
that settle, drain, data and close events that are delivered, processes whose start-up goes on
and whose ten-second tick recurs. Nothing is assumed of clients, browsers, peers or users: they
may never answer, connect or send.

- `Broker`: each request's timeout, the end of its OS input, the vault's answer, the direct call's end.
- `SocketStream`: drain, its writes, data, parse. A peer may die, which `EveryFrameRead` allows for.
- `BridgeLink`: timers, the dial's outcome, close and data events, a started bridge listens
  (launchd and waitForBridgeSocket), but not that it answers.
- `DaemonSingleton`: every process's next start-up step and a daemon's tick (keepAliveForever, index.ts:2481-2488).
- `ExtensionTransport`: of the WebSocket's side only, keepalive and reconnect timers, socket
  events, storage. For `ParkedOnlyUnconnected` the module has a specification that assumes more, so that its counterexample
  is not one of neglect: the native side's timers and events, the alarm, a host that answers, actions that end.
- `SafariRelay`: the exchange goes on; a send on a cancelled socket throws.
- `TabGroups`: an add whose turn it is goes on, since the browser answers what it is asked.
- `MonitorSession` and `MonitorTasks` assume none: a content script need not answer and a process
  may be stopped for good, and what is checked of them is safety.

## 4. Proofs

| Module | Theorem | Result |
|---|---|---|
| `BrokerProofs` | `TypeCorrect`, `RoutingHolds`, `InFlightHolds`, `PlainOnce`, `AgentsSound`, `QueuesSound`, `NeverCrossed` | six invariants and one action property of the broker |
| | `ContextHonoured` | a named context reaches its browser or nobody, where no send throws |
| | `ServiceImplemented`, `AnswersFinal` | the broker refines `RequestService`, so answers are final |
| | `OnceInvariant` | no request is handed over twice |
| | `ContextsSound`, `SlotSound`, `RequestInvariant`, `NeverLost`, `DeadlineHeld`, `QueueInvariant` | their parts, and the invariants behind them |
| `SocketStreamProofs` | `TypeCorrect`, `StreamHolds`, `Refinement` | the stream loses nothing, is never stuck, and refines `FrameChannel` |
| | `StreamLosesNothing`, `QueueArmed`, `WholeInOrder` | the parts of `StreamHolds` |
| `DaemonSingletonProofs` | `TypeCorrect`, `OneDaemon` | one owner, whose files are its own or gone |
| | `OwnerInvariant`, `NoSplitBrain`, `NoForeignFiles` | the invariant, and the parts of `OneDaemon` |
| `ServiceWorkerProofs` | `TypeCorrect`, `TablesStayAgreed`, `RecordFollows`, `ChildrenFirst` | the invariants of the sessions, and that a waiting child's first commit attaches its session there and nowhere else |
| | `SessionInvariant` | the inductive invariant |
| | `TabGroupsTyped`, `OneGroup` | typed calls and tables; a label is carried by one group at most |
| | `TabGroupsInvariant` | the inductive invariant |
| `MonitorTasksProofs` | `TypeCorrect`, `LockExcludes`, `NoWriteLost`, `VerdictStaysCurrent` | until two live processes reclaim one owner's lock: one inside, no lost update, verdicts current |
| | `RecordImplemented` | on the same condition the tasks' processes refine `TaskRecord` |
| | `NoDeathNoContest` | no two live processes reclaim one owner's lock while no process dies |
| | `TasksInvariant` | the inductive invariant |
| `BridgeLinkProofs` | `TypeCorrect`, `OneAnswer`, `NoneForgotten` | no request to the bridge is answered twice or left on no way to its answer |
| | `LinkInvariant` | the inductive invariant |
| `ExtensionTransportProofs` | `TypeCorrect`, `BeliefsTrue` | what the service worker believes of its channels is true |
| | `TransportInvariant` | the inductive invariant |
| `SafariRelayProofs` | `TypeCorrect`, `OutboundHolds`, `CommandsInOrder` | no message lost short of an overflow, none out of order and none repeated without a failure, overflow or not; commands once and in order |
| | `SplicedExactly` | short of an overflow, a successful exchange takes off the queue just what it sent |
| | `RelayInvariant` | the inductive invariant |

They hold for any sets of sockets, ports, contexts, requests, processes, tabs and sessions, any frame sizes, caps and
bounds that satisfy the assumptions on the constants: `BrokerAssumption` (sorts of sockets and
requests are subsets, `NoCtx`, `NoWs`, `NoRelay` are not members, no socket is a relay or
stdout, the cap is positive),
`StreamAssumption` (a header has a byte, a frame is longer than its header, sizes are naturals),
`SingletonAssumption` (`None` is no process; a process is of one kind), `SessionAssumption`
(`None` is no tab, document, session, attachment or key; managed tabs are tabs), `GroupsAssumption` (`None` is no label,
group, window or tab, and tabs, lookups, groups and `Sweep` are told apart), `TasksAssumption` (`None` is no
process and no owner record, the mortal processes are processes, commands are among the eight), `BridgeAssumption` (`Timer` is no
request, `None` no request, connection or timer), `TransportAssumption` (a request belongs to one channel,
`None` is no port or socket, there are a port and a socket, the caps are positive) and `SafariAssumption`
(bounds are naturals, caps positive). Three theorems have a
hypothesis more, which TLC shows to be needed:

- `ContextHonoured`: no send throws. One that does is tried again on the next lane, which may
  lead to another browser; `NeverCrossed` says what is left then, that it is no other context's socket.
- `ServiceImplemented` and `AnswersFinal`: a browser answers a delivered request once, or no
  request asks for an input event. A second response to one that does starts a second input event, whose end
  answers again.

- *Broker.* `ContextMapSound` and `RelaySlotOpen` are inductive with `TypeOK`; each is
  disturbed only by registrations and closes (`ContextSteps`). The request properties are not:
  that a reply finds its request unanswered needs that a pending request has no answer yet, and
  that a dispatch does, that a request in an earlier phase has none. `RequestInv` says what a
  phase implies for the answers, the table and the timer, and the request properties follow from it.
  `DispatchOutcomes` reduces sendNativeMessage's outcomes to the three that matter.
  `AgentsSound` rests on `ContextMapSound`: two open sockets have no id in common, so an agent's close or
  move takes away no other's metadata.
  `QueueInv` adds to `QueueSound` that a queued request is dispatched and an undispatched one is
  unsent: so a request enters a queue when it is in none, and a drain appends to empty logs.
  `NeverCrossed` follows: a drain of a context's key sends what carries that key or no context.
  `ContextHonoured` uses the same (`DrainHonoured`) and that a dispatch without a throwing send stops at
  the first lane. For the refinement of `RequestService`, `OnceInv` bounds what can still come back: a request is
  handed over once (`DispatchOnce`), so the responses in flight and the inputs in progress together are no
  more than its deliveries, and one whose input runs is pending without a timer. Every handler then maps to
  the service's answer of a request not yet answered, or to a stutter.
- *SocketStream.* The invariant `StreamInv` says the bytes in the reader's buffer, the kernel
  and the queue are, in this order, the run of bytes after the last frame read. `RunIs`, `Split`
  and `Ends` are about such runs; `WriteKeeps`, `DrainKeeps`, `DataKeeps` and `ParseKeeps` are one per handler. That a
  header read is that of the next frame (`HeadedIsNext`) gives `WholeInOrder` and the step simulation of `Refinement`.
- *DaemonSingleton.* `SocketLeadsToOwner` alone is not inductive: it needs that the port's
  holder is alive and past its claim, that only it listens, and that what a claim in progress has
  written stays its own or is removed. These are the parts of `OwnerInv`; the argument is that the bind of
  the port, which is atomic, orders the claims (`OneClaim`, `Orders`).
- *MonitorSession.* `TablesAgree` is not inductive: a focus switch or a stop goes on with a session
  it read before its wait, and that session could be recorded anew in between. `StartedOnce` says
  it cannot, since a session id is recorded by one call, over by then; `CallsSound` says what a waiting call keeps was there.
  `ChildrenFirst` needs that the first commit in a waiting tab makes an attachment no other has: `SeenInv` says
  that of a tab the worker has seen no document but those it has had, whether in an attachment, a waiting
  start or a focus call, and that a tab a child waits for has had none. `SwitchKeeps` is the one lemma about hand-overs that the commit,
  the replacement and the focus switch share, `EndKeeps` the one about ends.
- *TabGroups.* `OneGroupPerLabel` is about a check (`query`, no such title) and an act (the title
  set) with two awaits between them, and about every other step coming there: the user's, the sweep's, a restart, a
  lookup's. `Turns` is the argument of the chain: an add that runs is the first of its label's chain, one that waits
  is in it, and a chain has one first; so of two adds about to create a group of a label one is not there.
  `GroupInv` says what the first knows: while it is about to create or to title a group, its label is carried by none, and
  an id not given out has neither tabs nor a title. All steps but the titling leave a label with no more
  groups than it had (`Shrinks`, `BrowserShrinks`), and `CreatorsStep` says how an add comes before its creation.
  `AddSteps` and `GoesTo` reduce the nine places of an add to begin, go on and end.
- *MonitorTasks.* `TasksInv` is `BaseInv`, which holds however many reclaim, that `contested` records `TwoReclaim`, and
  either `contested` or `Safe`. `Safe` needs a single *occupant* of the lock (`Occupant`, `OneOccupant`): a live
  process inside, one that has unlinked the owner file and removes the rest, or a dead one whose name is in the lock or that died
  before it wrote it. `LockInv` adds that a live process named in the lock is inside, and that a reclaimer at its removal
  finds the name it checked. A reclaimer passes `Check` only
  where its name is the lock's, so a claim in a successor's lock goes no further, and the removal of
  a claim by the `finally` of another harms only where two have the lock's own name, which is
  `TwoReclaim`. Without a death a name in a lock is that of a process at work (`NoDeathNoContest`), so nobody passes `Check`.
  `NeverLostWrite` and `VerdictIsCurrent` follow with
  `ReadOf`: what a process inside has read is still so. For the refinement of `TaskRecord` it is not enough
  that the write is made from the current metadata: the change must be one the record allows, which a command decided
  before it had the lock. `FoundInv` says what became of that: what the section about to run
  found when its command began is still there (a source, a checkpoint), or was compared under the lock (an
  active task). `WriteIsOneChange` goes through the writes by section. `VerdictIsCurrent` follows
  from the refinement too, and has no run of its own.
- *BridgeLink.* `RequestInv` says where a request can be: nowhere yet, answered once, held by one
  dial or by the one spawn, or in flight; `DialAwaited` and `OneSpawn` that no dial and no spawn goes on
  unawaited. So whatever ends a wait finds the request unanswered (`AnswerKeeps`), and what begins one
  finds it free (`DialKeeps`, `ConnectKeeps`). Three lemmas carry the steps that leave a request as it is.
- *ExtensionTransport.* `ChannelsSound` needs that a handshake in progress is that of the current
  port (`Sound`): otherwise a late pong would make a replaced port's transport active. Each function of
  transport.ts gets a lemma of its own (`ClearKeeps`, `DialKeeps`, `MarkKeeps`, ...): from a sound
  state it makes a sound one, and opens no channel unless it drains the recovery queue.
- *SafariRelay.* A failed exchange is repeated with whatever the queue has become, and an
  overflow moves the queue on while an exchange is out. So the invariant is about runs of numbers:
  the queue is the run up to the newest message, the batch a run that begins at `Oldest`, what is left of it
  starts at `Upcoming`, and all in between was handed over (`QueueShape`, `BatchShape`, `SentShape`). That
  a repetition finds its predecessors handed over already is `OlderFirst`. Commands rise along
  `executed`, `parked`, the reply and `inbound` (`CommandOrder`); `RisingJoin` and `BelowJoin` let a step
  move one from a sequence to the next. `Room` shows that refusals do not run out of numbers.

Only model-checked: the liveness properties (`EventuallyAnswered`, `EveryRequestAnswered`,
`EveryMessageLeaves`, `EveryFrameRead`, `SelfHeals`, `StartsOne`, `ChannelRecovers`, `AddsEnd`), since liveness under
fairness is beyond the prover; and the two violations.

## 5. Not modelled

Wall-clock lengths (a timer fires at any time after it is armed), contents of messages, logging
and event files, redaction, the Windows variants of the paths. The surfaces behind Broker's direct
path (CDP, iOS, vault) are one step there and have no module of their own. Memory growth is bounded by
the environment. The hazards with a note in `PROJECT.json` are those no property covers.

- *Monitor*: subframes, event counts and numbers, the re-arming of content scripts, the
  resolution of a tab by its group; of tasks, what is derived from the files (timelines,
  transcripts, quality reports, exports, repair).
- *Tab groups*: the default group, whose adds are chained the same way; titles after a change of
  brand; windows that cannot hold groups.
- *Message dispatch*: the choice of the target tab and the managed-tab gate, one decision on what
  the browser says at the time.
- *Binary sink*: one ordered connection delivers the frames; what is left are I/O errors.
- *Spin watchdog*: a heuristic over processor time. *Screenshot rule*: a count per tab around one call.
- *Secrets*: grants expire by wall-clock time, and redaction is text. The wait for the vault is
  in `Broker`.
- *iOS and CDP surfaces, OS input, Swift domains*: protocols of devices, applications and
  frameworks outside the repository; their calls are Broker's direct path.
- *Content scripts, CLI, MCP server, extension fabric, installers*: no state shared by concurrent actors.

The map covers a small share of the repository's lines. Most of them are built bundles of the
extension (`extension/dist-mv2`, `extension/background.js`, `extension/content.js`) that repeat
sources mapped here or DOM code, commands of the CLI that parse and print, byte formats of
devices, and derived reports: text and data rather than control.

## 6. What could follow

The composition of `Broker` and `ExtensionTransport`, for a rename that conflicts (each side is
modelled, the agreement of both is not); an abstract specification of the relay (a queue that
may lose what it reports) that `SafariRelay` implements, and of the singleton (a lock with a holder) that
`DaemonSingleton` implements; a model of `ios/channel.ts` and `cdp/` as implementations of one command table.
