------------------------------ MODULE TabGroups ------------------------------
(***************************************************************************)
(* The named tab groups of the extension's service worker                  *)
(* (background/tab-group.ts) and the sweep that closes the tabs of idle    *)
(* ones (background/tab-lifecycle.ts), with the browser they call, the     *)
(* user who opens and closes tabs, and a worker that is stopped and        *)
(* started again.                                                          *)
(*                                                                         *)
(* A function of the worker runs from one await to the next. A call of the *)
(* browser takes effect in the step that awaits it; where what it returned *)
(* can be out of date when the worker goes on, that is a step of its own.  *)
(* A write of chrome.storage is issued with the change it saves.           *)
(* Left out: the default group, colours, windows that cannot hold groups.  *)
(***************************************************************************)
EXTENDS Naturals, Sequences, FiniteSets, BrowserTabs

CONSTANTS
  Labels,       \* names of groups
  Groups,       \* group ids, each given to one group
  Windows,
  Lookups,      \* calls of ensureNamedGroup that add nothing
  UserTabs,     \* tabs the user may open, close, pin or type into
  MaxRestarts,  \* bound on the restarts of the worker
  Sweep         \* stands for the sweep among the callers of hydrateNamedGroups

Callers == Tabs \cup Lookups \cup Groups \cup {Sweep}

ASSUME GroupsAssumption ==
  /\ None \notin Labels \cup Groups \cup Windows \cup Tabs
  /\ Tabs \cap (Lookups \cup Groups) = {} /\ Lookups \cap Groups = {}
  /\ Sweep \notin Tabs \cup Lookups \cup Groups
  /\ UserTabs \subseteq Tabs /\ MaxRestarts \in Nat

VARIABLES
  \* browser
  window,       \* the window of an open tab, else None
  groupOf,      \* the group a tab is in
  title,        \* the label in a group's title
  spent,        \* tab and group ids that have been used
  held,         \* tabs that are pinned or audible
  dirty,        \* tabs with unsaved input
  removed,      \* groups whose onRemoved event is on its way
  \* worker
  namedGroups, hydrated,
  stored,       \* its copy in chrome.storage.session
  read,         \* what the hydration in progress has been given
  op,           \* where a caller is, for which label, with which group
  chain,        \* groupAddChains: the adds of a label, the first one running
  sweep,        \* the sweep in progress
  idle,         \* labels whose last activity is longer ago than the policy allows
  restarts

tabState   == <<window, groupOf, title, spent, held, dirty, removed>>
memory     == <<namedGroups, hydrated, stored, read>>
groupsVars == <<tabState, memory, op, chain, sweep, idle, restarts>>

Asleep == [pc |-> "none", label |-> None, group |-> None]
NoSweep == [pc |-> "none", todo |-> {}, focused |-> None, counts |-> [w \in Windows |-> 0],
            label |-> None, closing |-> {}]

GroupsInit ==
  /\ window = [t \in Tabs |-> None] /\ groupOf = [t \in Tabs |-> None]
  /\ title = [g \in Groups |-> None] /\ spent = {} /\ held = {} /\ dirty = {} /\ removed = {}
  /\ namedGroups = [l \in Labels |-> None] /\ hydrated = FALSE
  /\ stored = [l \in Labels |-> None] /\ read = [l \in Labels |-> None]
  /\ op = [c \in Callers |-> Asleep] /\ chain = [l \in Labels |-> <<>>]
  /\ sweep = NoSweep /\ idle = {} /\ restarts = 0

-----------------------------------------------------------------------------
(* The browser *)

Open     == {t \in Tabs : window[t] # None}
Exists(g) == \E t \in Tabs : groupOf[t] = g
In(w)    == {t \in Tabs : window[t] = w}

\* The active tab of each window: the user may turn to any at any time.
Fronts == {f \in [Windows -> Tabs \cup {None}] :
             \A w \in Windows : f[w] \in IF In(w) = {} THEN {None} ELSE In(w)}

\* Closing tabs; a group goes with its last one.
CloseTabs(S) ==
  /\ window' = [t \in Tabs |-> IF t \in S THEN None ELSE window[t]]
  /\ groupOf' = [t \in Tabs |-> IF t \in S THEN None ELSE groupOf[t]]
  /\ removed' = removed \cup {g \in Groups : Exists(g) /\ \A t \in Tabs : groupOf'[t] # g}
  /\ held' = held \ S /\ dirty' = dirty \ S
  /\ UNCHANGED <<title, spent>>

\* A new window takes an id that nothing remembers.
OpenTab(t, w) ==
  /\ t \notin spent
  /\ In(w) = {} => sweep.counts[w] = 0 /\ sweep.focused # w
  /\ window' = [window EXCEPT ![t] = w]
  /\ spent' = spent \cup {t}
  /\ UNCHANGED <<groupOf, title, held, dirty, removed>>

\* tabs.group: the tab leaves the group it was in, and goes to the window of the new one.
PutInto(t, g) ==
  /\ groupOf' = [groupOf EXCEPT ![t] = g]
  /\ window' = [window EXCEPT ![t] =
                  IF Exists(g) THEN window[CHOOSE u \in Tabs : groupOf[u] = g] ELSE @]
  /\ UNCHANGED <<title, held, dirty, removed>>

UserOpens(t, w) ==
  /\ t \in UserTabs
  /\ OpenTab(t, w)
  /\ UNCHANGED <<memory, op, chain, sweep, idle, restarts>>

UserCloses(t) ==
  /\ t \in UserTabs \cap Open
  /\ CloseTabs({t})
  /\ UNCHANGED <<memory, op, chain, sweep, idle, restarts>>

UserHolds(t) ==
  /\ t \in UserTabs \cap Open
  /\ \/ held' = held \cup {t} /\ UNCHANGED dirty
     \/ dirty' = dirty \cup {t} /\ UNCHANGED held
  /\ UNCHANGED <<window, groupOf, title, spent, removed, memory, op, chain, sweep, idle, restarts>>

-----------------------------------------------------------------------------
(* hydrateNamedGroups, persistNamedGroups, ensureNamedGroup *)

Is(c, where) == op[c].pc = where
At(c, where, g) == op' = [op EXCEPT ![c].pc = where, ![c].group = g]

Save(registry) == namedGroups' = registry /\ stored' = registry

\* The flag is set before the read returns: whoever comes second does not wait.
StartHydration(c) ==
  /\ ~hydrated
  /\ hydrated' = TRUE
  /\ read' = stored
  /\ At(c, "hydrating", op[c].group)
  /\ UNCHANGED <<namedGroups, stored>>

Hydrated == [l \in Labels |-> IF read[l] # None THEN read[l] ELSE namedGroups[l]]

LookUpAlwaysGetsFaulty(c, registry) == At(c, "get", registry[op[c].label])
\* The registered group, to be asked for, or a search by title.
LookUp(c, registry) ==
  LET known == registry[op[c].label] IN
  At(c, IF known # None THEN "get" ELSE "query", known)

EnsureNamedGroup(c) ==
  \/ StartHydration(c)
  \/ /\ hydrated
     /\ LookUp(c, namedGroups)
     /\ UNCHANGED memory

Hydrate(c) ==
  /\ c \in Tabs \cup Lookups /\ Is(c, "hydrating")
  /\ namedGroups' = Hydrated
  /\ LookUp(c, Hydrated)
  /\ UNCHANGED <<tabState, hydrated, stored, read, chain, sweep, idle, restarts>>

\* What a resolved group is for: an add joins it.
Resolve(c, g) == IF c \in Tabs THEN At(c, "join", g) ELSE At(c, "done", None)

Get(c) ==
  /\ Is(c, "get")
  /\ \/ /\ Exists(op[c].group)
        /\ Resolve(c, op[c].group)
     \/ /\ ~Exists(op[c].group)
        /\ At(c, "gone", None)
  /\ UNCHANGED <<tabState, memory, chain, sweep, idle, restarts>>

\* purgeNamedGroupEntry, of whatever the label leads to by now
Gone(c) ==
  /\ Is(c, "gone")
  /\ Save([namedGroups EXCEPT ![op[c].label] = None])
  /\ At(c, "query", None)
  /\ UNCHANGED <<tabState, hydrated, read, chain, sweep, idle, restarts>>

Titled(l) == {g \in Groups : Exists(g) /\ title[g] = l}

Query(c) ==
  /\ Is(c, "query")
  /\ \/ \E g \in Titled(op[c].label) : At(c, "found", g)
     \/ /\ Titled(op[c].label) = {}
        /\ At(c, IF c \in Tabs THEN "create" ELSE "done", None)
  /\ UNCHANGED <<tabState, memory, chain, sweep, idle, restarts>>

Found(c) ==
  /\ Is(c, "found")
  /\ Save([namedGroups EXCEPT ![op[c].label] = op[c].group])
  /\ Resolve(c, op[c].group)
  /\ UNCHANGED <<tabState, hydrated, read, chain, sweep, idle, restarts>>

\* isTabInNamedGroup and the others that only look.
LookupCalled(c) ==
  /\ Is(c, "none")
  /\ \E l \in Labels : op' = [op EXCEPT ![c] = [pc |-> "called", label |-> l, group |-> None]]
  /\ UNCHANGED <<tabState, memory, chain, sweep, idle, restarts>>

LookupStarts(c) ==
  /\ c \in Lookups /\ Is(c, "called")
  /\ EnsureNamedGroup(c)
  /\ UNCHANGED <<tabState, chain, sweep, idle, restarts>>

-----------------------------------------------------------------------------
(* addTabToNamedGroup *)

\* tab_create: the tab is opened, the group's activity recorded and its add put
\* behind the others of its label.
TabCreate(t, l, w) ==
  /\ OpenTab(t, w)
  /\ op' = [op EXCEPT ![t] = [pc |-> "queued", label |-> l, group |-> None]]
  /\ chain' = [chain EXCEPT ![l] = Append(@, t)]
  /\ idle' = idle \ {l}
  /\ UNCHANGED <<memory, sweep, restarts>>

UnchainedFaulty(t) ==
  /\ Is(t, "queued")
  /\ EnsureNamedGroup(t)
  /\ UNCHANGED <<tabState, chain, sweep, idle, restarts>>
AddStarts(t) ==
  /\ Is(t, "queued") /\ Head(chain[op[t].label]) = t
  /\ EnsureNamedGroup(t)
  /\ UNCHANGED <<tabState, chain, sweep, idle, restarts>>

\* The add that ends is the first of its label.
FirstGone(t) == Tail(chain[op[t].label])

\* The add returns, and the next of the label begins.
Finish(t) ==
  /\ At(t, "done", None)
  /\ chain' = [chain EXCEPT ![op[t].label] = FirstGone(t)]

Create(t) ==
  /\ Is(t, "create")
  /\ \/ /\ t \in Open
        /\ \E g \in Groups \ spent :
             /\ PutInto(t, g)
             /\ spent' = spent \cup {g}
             /\ At(t, "title", g)
        /\ UNCHANGED chain
     \/ /\ t \notin Open
        /\ Finish(t)
        /\ UNCHANGED tabState
  /\ UNCHANGED <<memory, sweep, idle, restarts>>

StuckFaulty(t) ==
  /\ Is(t, "title") /\ Exists(op[t].group)
  /\ title' = [title EXCEPT ![op[t].group] = op[t].label]
  /\ At(t, "titled", op[t].group)
  /\ UNCHANGED <<window, groupOf, spent, held, dirty, removed, memory, chain, sweep, idle, restarts>>
SetTitle(t) ==
  /\ Is(t, "title")
  /\ \/ /\ Exists(op[t].group)
        /\ title' = [title EXCEPT ![op[t].group] = op[t].label]
        /\ At(t, "titled", op[t].group)
        /\ UNCHANGED <<window, groupOf, spent, held, dirty, removed, chain>>
     \/ /\ ~Exists(op[t].group)
        /\ Finish(t)
        /\ UNCHANGED tabState
  /\ UNCHANGED <<memory, sweep, idle, restarts>>

Register(t) ==
  /\ Is(t, "titled")
  /\ Save([namedGroups EXCEPT ![op[t].label] = op[t].group])
  /\ Finish(t)
  /\ UNCHANGED <<tabState, hydrated, read, sweep, idle, restarts>>

Join(t) ==
  /\ Is(t, "join")
  /\ \/ /\ t \in Open /\ Exists(op[t].group)
        /\ PutInto(t, op[t].group)
        /\ UNCHANGED spent
        /\ Finish(t)
     \/ /\ t \notin Open \/ ~Exists(op[t].group)
        /\ Finish(t)
        /\ UNCHANGED tabState
  /\ UNCHANGED <<memory, sweep, idle, restarts>>

-----------------------------------------------------------------------------
(* tabGroups.onRemoved, and the worker *)

Purged(registry, g) == [l \in Labels |-> IF registry[l] = g THEN None ELSE registry[l]]

Purge(registry, g) ==
  \/ /\ \E l \in Labels : registry[l] = g
     /\ Save(Purged(registry, g))
  \/ /\ \A l \in Labels : registry[l] # g
     /\ namedGroups' = registry
     /\ UNCHANGED stored

GroupRemoved(g) ==
  /\ g \in removed
  /\ removed' = removed \ {g}
  /\ \/ StartHydration(g)
     \/ /\ hydrated
        /\ Purge(namedGroups, g)
        /\ UNCHANGED <<hydrated, read, op>>
  /\ UNCHANGED <<window, groupOf, title, spent, held, dirty, chain, sweep, idle, restarts>>

PurgeHydrated(g) ==
  /\ g \in Groups /\ Is(g, "hydrating")
  /\ Purge(Hydrated, g)
  /\ At(g, "done", None)
  /\ UNCHANGED <<tabState, hydrated, read, chain, sweep, idle, restarts>>

\* The worker is stopped, wherever its functions are; session storage stays.
Restart ==
  /\ restarts < MaxRestarts
  /\ restarts' = restarts + 1
  /\ namedGroups' = [l \in Labels |-> None] /\ hydrated' = FALSE
  /\ read' = [l \in Labels |-> None]
  /\ op' = [c \in Callers |-> IF c \in Tabs /\ op[c].pc # "none"
                              THEN [op[c] EXCEPT !.pc = "done", !.group = None] ELSE Asleep]
  /\ chain' = [l \in Labels |-> <<>>]
  /\ sweep' = NoSweep
  /\ UNCHANGED <<tabState, stored, idle>>

-----------------------------------------------------------------------------
(* runTabLifecycleSweep *)

TimePasses(l) ==
  /\ l \notin idle
  /\ idle' = idle \cup {l}
  /\ UNCHANGED <<tabState, memory, op, chain, sweep, restarts>>

SweepStarts ==
  /\ sweep.pc = "none" /\ ~Is(Sweep, "hydrating")
  /\ \/ StartHydration(Sweep) /\ UNCHANGED sweep
     \/ /\ hydrated
        /\ sweep' = [NoSweep EXCEPT !.pc = "list"]
        /\ UNCHANGED <<memory, op>>
  /\ UNCHANGED <<tabState, chain, idle, restarts>>

SweepHydrated ==
  /\ Is(Sweep, "hydrating")
  /\ namedGroups' = Hydrated
  /\ sweep' = [NoSweep EXCEPT !.pc = "list"]
  /\ At(Sweep, "done", None)
  /\ UNCHANGED <<tabState, hydrated, stored, read, chain, idle, restarts>>

\* The groups of the registry, after the default group has been looked up, and the
\* window that has the focus, if it can be told.
SweepLists ==
  /\ sweep.pc = "list"
  /\ LET groups == {<<l, namedGroups[l]>> : l \in {k \in Labels : namedGroups[k] # None}} IN
     \E w \in {None} \cup {v \in Windows : In(v) # {}} :
       sweep' = IF groups = {} THEN NoSweep
                ELSE [sweep EXCEPT !.pc = "count", !.todo = groups, !.focused = w]
  /\ UNCHANGED <<tabState, memory, op, chain, idle, restarts>>

\* The number of tabs of each window, once for the whole tick.
SweepCounts ==
  /\ sweep.pc = "count"
  /\ sweep' = [sweep EXCEPT !.pc = "next", !.counts = [w \in Windows |-> Cardinality(In(w))]]
  /\ UNCHANGED <<tabState, memory, op, chain, idle, restarts>>

\* selectSweepCandidates: the tab in front of the user is left alone, and the active one
\* of every window while it is not known which window that is.
Candidates(g, front) ==
  {t \in Tabs :
     /\ groupOf[t] = g /\ t \notin held
     /\ front[window[t]] = t => sweep.focused \notin {None, window[t]}}

\* Of a window that would lose all the tabs that were counted, one is kept.
Spared(S) ==
  {K \in SUBSET S :
     \A w \in Windows :
       Cardinality(K \cap In(w)) = IF sweep.counts[w] \in 1 .. Cardinality(S \cap In(w)) THEN 1 ELSE 0}

SweepGroup ==
  /\ sweep.pc = "next"
  /\ \E item \in sweep.todo :
       \E front \in Fronts : \E K \in Spared(Candidates(item[2], front)) :
         LET closing == Candidates(item[2], front) \ K IN
         IF item[1] \in idle /\ closing # {}
         THEN sweep' = [sweep EXCEPT !.pc = "inspect", !.todo = @ \ {item}, !.label = item[1],
                                     !.closing = closing]
         ELSE sweep' = [sweep EXCEPT !.todo = @ \ {item}]
  /\ UNCHANGED <<tabState, memory, op, chain, idle, restarts>>

\* The dirty tabs are kept; with nothing left the group is stamped anew.
SweepInspects ==
  /\ sweep.pc = "inspect"
  /\ IF sweep.closing \subseteq dirty
     THEN /\ sweep' = [sweep EXCEPT !.pc = "next", !.label = None, !.closing = {}]
          /\ idle' = idle \ {sweep.label}
     ELSE /\ sweep' = [sweep EXCEPT !.pc = "remove", !.closing = @ \ dirty]
          /\ UNCHANGED idle
  /\ UNCHANGED <<tabState, memory, op, chain, restarts>>

\* tabs.remove stops at a tab that is gone.
SweepRemoves ==
  /\ sweep.pc = "remove"
  /\ \/ /\ sweep.closing \subseteq Open
        /\ CloseTabs(sweep.closing)
        /\ idle' = idle \ {sweep.label}
     \/ /\ ~(sweep.closing \subseteq Open)
        /\ \E S \in SUBSET (sweep.closing \cap Open) : CloseTabs(S)
        /\ UNCHANGED idle
  /\ sweep' = [sweep EXCEPT !.pc = "next", !.label = None, !.closing = {}]
  /\ UNCHANGED <<memory, op, chain, restarts>>

SweepEnds ==
  /\ sweep.pc = "next" /\ sweep.todo = {}
  /\ sweep' = NoSweep
  /\ UNCHANGED <<tabState, memory, op, chain, idle, restarts>>

-----------------------------------------------------------------------------
AddGoesOn(t) ==
  AddStarts(t) \/ Hydrate(t) \/ Get(t) \/ Gone(t) \/ Query(t) \/ Found(t)
    \/ Create(t) \/ SetTitle(t) \/ Register(t) \/ Join(t)

GroupsNext ==
  \/ \E t \in Tabs, w \in Windows : UserOpens(t, w) \/ \E l \in Labels : TabCreate(t, l, w)
  \/ \E t \in Tabs : UserCloses(t) \/ UserHolds(t) \/ AddGoesOn(t)
  \/ \E c \in Lookups :
       LookupCalled(c) \/ LookupStarts(c) \/ Hydrate(c) \/ Get(c) \/ Gone(c) \/ Query(c) \/ Found(c)
  \/ \E g \in Groups : GroupRemoved(g) \/ PurgeHydrated(g)
  \/ \E l \in Labels : TimePasses(l)
  \/ SweepStarts \/ SweepHydrated \/ SweepLists \/ SweepCounts
  \/ SweepGroup \/ SweepInspects \/ SweepRemoves \/ SweepEnds
  \/ Restart

\* The browser answers what it is asked.
GroupsSpec     == GroupsInit /\ [][GroupsNext]_groupsVars
FairGroupsSpec == GroupsSpec /\ \A t \in Tabs : WF_groupsVars(AddGoesOn(t))

-----------------------------------------------------------------------------
(* Properties *)

Places == {"none", "called", "queued", "hydrating", "get", "gone", "query", "found", "create", "title",
           "titled", "join", "done"}
GroupsTypeOK ==
  /\ window \in [Tabs -> Windows \cup {None}] /\ groupOf \in [Tabs -> Groups \cup {None}]
  /\ title \in [Groups -> Labels \cup {None}]
  /\ spent \subseteq Tabs \cup Groups /\ held \subseteq Open /\ dirty \subseteq Open
  /\ removed \subseteq Groups
  /\ {namedGroups, stored, read} \subseteq [Labels -> Groups \cup {None}]
  /\ hydrated \in BOOLEAN
  /\ op \in [Callers -> [pc : Places, label : Labels \cup {None}, group : Groups \cup {None}]]
  /\ \A c \in Callers :
       op[c].pc \in {"get", "found", "title", "titled", "join"} => op[c].group # None
  /\ chain \in [Labels -> Seq(Tabs)]
  /\ sweep.pc \in {"none", "list", "count", "next", "inspect", "remove"}
  /\ sweep.focused \in Windows \cup {None} /\ sweep.closing \subseteq Tabs
  /\ idle \subseteq Labels /\ restarts \in 0 .. MaxRestarts

\* "Serialize adds per group key ...; the first creates, the rest join it via the
\* registry" (tab-group.ts): a label has one group, whatever closes, restarts and
\* lookups come between the calls of an add.
OneGroupPerLabel == \A l \in Labels : \A g, h \in Titled(l) : g = h

\* An add ends and lets the next one of its label begin, also when its tab or its
\* group is closed between two of its calls.
AddsEnd == \A t \in Tabs : Is(t, "queued") ~> Is(t, "done")

\* Guard G5: "never the last tab of a window (tabs.remove on it closes the window)".
LastTabKept ==
  [][sweep.pc = "remove" /\ sweep'.pc = "next" =>
       \A w \in Windows : In(w) # {} => \E t \in Tabs : window'[t] = w]_groupsVars

\* The "human closes a leftover group" guarantee: once its event has been handled,
\* no entry leads to a group that is gone.
NoStaleEntry ==
  \A l \in Labels : namedGroups[l] # None =>
    Exists(namedGroups[l]) \/ namedGroups[l] \in removed
=============================================================================
