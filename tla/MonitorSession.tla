---------------------------- MODULE MonitorSession ----------------------------
(***************************************************************************)
(* The monitor sessions of the extension's service worker                  *)
(* (background/capabilities/monitor.ts), the record the daemon keeps of    *)
(* each (syncSessionMetaFromEvent), and the browser's events that move a   *)
(* session from document to document and from tab to tab.                  *)
(*                                                                         *)
(* A handler of the worker runs from one await to the next; what it read   *)
(* before an await is kept in its call and may be out of date after it. An *)
(* event that a step sends reaches the daemon's record in that step: the   *)
(* channels keep their order.                                              *)
(* Left out: subframes, numbers and counts of events, arming and re-arming *)
(* of content scripts but for whether the first succeeds, changes of a     *)
(* tab's group. Whether a trusted action was recent enough is a choice.    *)
(***************************************************************************)
EXTENDS Naturals, SequencesExt, BrowserTabs

CONSTANTS
  Docs,         \* document ids of a tab; going back commits one again
  Ids,          \* session ids, each drawn by one call of monitor_start
  Managed,      \* tabs in a managed group
  Focuses,      \* calls of handleFocusActivated that may run at once
  Stops         \* calls of monitor_stop that may run at once

Attachment == [tab : Tabs, key : Docs \cup {None}, doc : Docs \cup {None}]
MetaKey    == Tabs \X (Docs \cup {None})

ASSUME SessionAssumption ==
  /\ None \notin Tabs \cup Docs \cup Ids
  /\ None \notin Attachment /\ None \notin MetaKey
  /\ Managed \subseteq Tabs

VARIABLES
  \* browser
  tab,          \* a tab's life
  doc,          \* the document in its top frame
  birth,        \* the opener of a tab whose onCreated the worker has not had yet
  \* worker
  sessions,     \* the sessions in the map, oldest first
  activeSessionByTab,
  current,      \* the attachment of a session, in the map or taken out of it
  paused,
  pendingChildTabs,
  start, focus, stop,  \* the calls in progress
  \* daemon
  meta          \* session.json

browser == <<tab, doc, birth>>
tables  == <<sessions, activeSessionByTab, pendingChildTabs>>
calls   == <<start, focus, stop>>
vars    == <<browser, tables, current, paused, calls, meta>>

NoCall == [pc |-> "none", tab |-> None, doc |-> None, session |-> None]
NoStop == [pc |-> "none", tab |-> None, session |-> None, attachment |-> None]

Init ==
  /\ tab \in [Tabs -> {"unborn", "open"}]
  /\ \E d \in Docs : doc = [t \in Tabs |-> IF tab[t] = "open" THEN d ELSE None]
  /\ birth = [t \in Tabs |-> None]
  /\ sessions = <<>> /\ activeSessionByTab = [t \in Tabs |-> None]
  /\ current = [s \in Ids |-> None] /\ paused = [s \in Ids |-> FALSE]
  /\ pendingChildTabs = [t \in Tabs |-> None]
  /\ start = [s \in Ids |-> NoCall] /\ focus = [f \in Focuses |-> NoCall]
  /\ stop = [x \in Stops |-> NoStop]
  /\ meta = [s \in Ids |-> [status |-> "none", active |-> None]]

-----------------------------------------------------------------------------
(* Sessions and attachments *)

Live(s) == \E i \in DOMAIN sessions : sessions[i] = s

\* getActiveSessionForTab
SessionOf(t) ==
  IF activeSessionByTab[t] # None /\ Live(activeSessionByTab[t]) THEN activeSessionByTab[t] ELSE None

Recorded(t) == SessionOf(t) # None /\ ~paused[SessionOf(t)]

\* createAttachment
Attach(t, d) == [tab |-> t, key |-> d, doc |-> d]

\* The keys of the daemon's record are made from what the event says, not from the
\* attachment's own key.
EventKey(a) == <<a.tab, a.doc>>
Detached(m, a) == IF m.active = EventKey(a) THEN [m EXCEPT !.active = None] ELSE m
Attached(m, a) == [m EXCEPT !.active = EventKey(a)]

ForgetsOldTabFaulty(s, a) ==
  /\ current' = [current EXCEPT ![s] = a]
  /\ activeSessionByTab' = [activeSessionByTab EXCEPT ![a.tab] = s]
  /\ meta' = [meta EXCEPT ![s] = Attached(Detached(@, current[s]), a)]
\* switchToAttachment; the same document again is no switch.
SwitchToAttachment(s, a) ==
  LET old == current[s] IN
  \/ /\ <<old.tab, old.key>> = <<a.tab, a.key>>
     /\ UNCHANGED <<current, activeSessionByTab, meta>>
  \/ /\ <<old.tab, old.key>> # <<a.tab, a.key>>
     /\ current' = [current EXCEPT ![s] = a]
     /\ activeSessionByTab' = [t \in Tabs |-> IF t = a.tab THEN s
                                              ELSE IF t = old.tab THEN None
                                              ELSE activeSessionByTab[t]]
     /\ meta' = [meta EXCEPT ![s] = Attached(Detached(@, old), a)]

\* sessions.delete
Deleted(s) ==
  \/ \E i \in DOMAIN sessions : sessions[i] = s /\ sessions' = RemoveAt(sessions, i)
  \/ ~Live(s) /\ UNCHANGED sessions

KeepsPendingFaulty(s) == pendingChildTabs
\* clearPendingChildTabsForSession
WithoutSession(s) == [u \in Tabs |-> IF pendingChildTabs[u] = s THEN None ELSE pendingChildTabs[u]]

\* The end of a session, told for attachment a and cleaned up for tab t and the tabs
\* that wait for it. Of its record only the attachment is read again.
End(s, t, a) ==
  /\ meta' = [meta EXCEPT ![s] = [Detached(@, a) EXCEPT !.status = "stopped"]]
  /\ Deleted(s)
  /\ activeSessionByTab' = [activeSessionByTab EXCEPT ![t] = None]
  /\ paused' = [paused EXCEPT ![s] = FALSE]

-----------------------------------------------------------------------------
(* Events of the browser. The worker gets those of one tab in their order, so a tab *)
(* whose onCreated is on its way is not heard to commit or close; onActivated, and the *)
(* answers to the worker's own calls, may come first. *)

\* A page of the opener opens a tab.
TabOpens(t, opener) ==
  /\ tab[t] = "unborn"
  /\ tab' = [tab EXCEPT ![t] = "open"]
  /\ birth' = [birth EXCEPT ![t] = opener]
  /\ UNCHANGED <<doc, tables, current, paused, calls, meta>>

\* A child of the recorded tab waits for its first commit, if a trusted action there
\* came not long before.
WaitsFor(opener) ==
  IF Recorded(opener) /\ current[SessionOf(opener)].tab = opener
  THEN {None, SessionOf(opener)} ELSE {None}

\* tabs.onCreated; one without an opener is ignored.
Created(t) ==
  /\ birth[t] # None
  /\ birth' = [birth EXCEPT ![t] = None]
  /\ \E s \in WaitsFor(birth[t]) : pendingChildTabs' = [pendingChildTabs EXCEPT ![t] = s]
  /\ UNCHANGED <<tab, doc, sessions, activeSessionByTab, current, paused, calls, meta>>

RecordedFirstFaulty(t, d) ==
  IF Recorded(t) THEN {s \in {SessionOf(t)} : current[s].doc # d}
  ELSE {s \in {pendingChildTabs[t]} : Live(s) /\ ~paused[s]}
\* The session a committed document is for, if any: the first document of a child
\* that waits, else another document than the attachment's.
Takers(t, d) ==
  IF pendingChildTabs[t] # None
  THEN {s \in {pendingChildTabs[t]} : Live(s) /\ ~paused[s]}
  ELSE {s \in {SessionOf(t)} : Recorded(t) /\ current[s].doc # d}

\* webNavigation.onCommitted
Committed(t, d) ==
  /\ tab[t] = "open" /\ birth[t] = None /\ doc[t] # d
  /\ doc' = [doc EXCEPT ![t] = d]
  /\ pendingChildTabs' = [pendingChildTabs EXCEPT ![t] = None]
  /\ \/ \E s \in Takers(t, d) : SwitchToAttachment(s, Attach(t, d))
     \/ Takers(t, d) = {} /\ UNCHANGED <<activeSessionByTab, current, meta>>
  /\ UNCHANGED <<tab, birth, sessions, paused, calls>>

\* webNavigation.onHistoryStateUpdated and onReferenceFragmentUpdated
HistoryUpdated(t) ==
  /\ tab[t] = "open" /\ doc[t] # None
  /\ Recorded(t)
  /\ current' = [current EXCEPT ![SessionOf(t)].doc = doc[t]]
  /\ UNCHANGED <<browser, tables, paused, calls, meta>>

ReplacedSilentlyFaulty(t, u) ==
  /\ tab[t] = "open" /\ birth[t] = None /\ tab[u] = "unborn"
  /\ tab' = [tab EXCEPT ![t] = "closed", ![u] = "open"]
  /\ doc' = [doc EXCEPT ![t] = None, ![u] = doc[t]]
  /\ \/ /\ Recorded(t)
        /\ current' = [current EXCEPT ![SessionOf(t)] = Attach(u, @.doc)]
        /\ activeSessionByTab' = [activeSessionByTab EXCEPT ![t] = None, ![u] = SessionOf(t)]
     \/ /\ ~Recorded(t)
        /\ UNCHANGED <<current, activeSessionByTab>>
  /\ UNCHANGED <<birth, sessions, pendingChildTabs, paused, calls, meta>>
\* webNavigation.onTabReplaced
Replaced(t, u) ==
  /\ tab[t] = "open" /\ birth[t] = None /\ tab[u] = "unborn"
  /\ tab' = [tab EXCEPT ![t] = "closed", ![u] = "open"]
  /\ doc' = [doc EXCEPT ![t] = None, ![u] = doc[t]]
  /\ \/ /\ Recorded(t)
        /\ LET s == SessionOf(t)
               a == Attach(u, current[s].doc) IN
             /\ current' = [current EXCEPT ![s] = a]
             /\ activeSessionByTab' = [activeSessionByTab EXCEPT ![t] = None, ![u] = s]
             /\ meta' = [meta EXCEPT ![s] = Attached(Detached(@, current[s]), a)]
     \/ /\ ~Recorded(t)
        /\ UNCHANGED <<current, activeSessionByTab, meta>>
  /\ UNCHANGED <<birth, sessions, pendingChildTabs, paused, calls>>

\* tabs.onRemoved
Removed(t) ==
  /\ tab[t] = "open" /\ birth[t] = None
  /\ tab' = [tab EXCEPT ![t] = "closed"] /\ doc' = [doc EXCEPT ![t] = None]
  /\ \/ /\ SessionOf(t) # None
        /\ End(SessionOf(t), t, current[SessionOf(t)])
        /\ pendingChildTabs' = [WithoutSession(SessionOf(t)) EXCEPT ![t] = None]
     \/ /\ SessionOf(t) = None
        /\ pendingChildTabs' = [pendingChildTabs EXCEPT ![t] = None]
        /\ UNCHANGED <<sessions, activeSessionByTab, paused, meta>>
  /\ UNCHANGED <<birth, current, calls>>

\* monitorRuntimeMessageListener: an event of a content script; of another document
\* than the attachment's it is refused.
ContentEvent(t) ==
  /\ tab[t] = "open" /\ doc[t] # None
  /\ Recorded(t)
  /\ LET s == SessionOf(t) IN
       /\ current[s].doc \in {None, doc[t]}
       /\ current' = [current EXCEPT ![s].doc = doc[t]]
  /\ UNCHANGED <<browser, tables, paused, calls, meta>>

-----------------------------------------------------------------------------
(* handleFocusActivated *)

\* findFirstActiveSession
FirstActive(s) ==
  \E i \in DOMAIN sessions :
    /\ sessions[i] = s /\ ~paused[s]
    /\ \A j \in 1..(i - 1) : paused[sessions[j]]

HandoffPending(t) == pendingChildTabs[t] # None

FocusActivated(f, t) ==
  /\ focus[f].pc = "none" /\ tab[t] = "open"
  /\ ~HandoffPending(t)
  /\ \E s \in Ids :
       /\ FirstActive(s) /\ current[s].tab # t
       /\ focus' = [focus EXCEPT ![f] = [pc |-> "group", tab |-> t, doc |-> None, session |-> s]]
  /\ UNCHANGED <<browser, tables, current, paused, start, stop, meta>>

\* The group is told, the hand-over asked for again, and getTopFrameContext asked for
\* the document.
FocusGrouped(f) ==
  /\ focus[f].pc = "group"
  /\ IF focus[f].tab \in Managed /\ ~HandoffPending(focus[f].tab)
     THEN focus' = [focus EXCEPT ![f].pc = "switch", ![f].doc = doc[focus[f].tab]]
     ELSE focus' = [focus EXCEPT ![f] = NoCall]
  /\ UNCHANGED <<browser, tables, current, paused, start, stop, meta>>

\* The session it read at first, whatever has become of it; whether the tab waits by
\* now is not asked again.
FocusSwitches(f) ==
  /\ focus[f].pc = "switch"
  /\ SwitchToAttachment(focus[f].session, Attach(focus[f].tab, focus[f].doc))
  /\ focus' = [focus EXCEPT ![f] = NoCall]
  /\ UNCHANGED <<browser, sessions, pendingChildTabs, paused, start, stop>>

-----------------------------------------------------------------------------
(* monitor_start, monitor_stop, monitor_pause, monitor_resume *)

StartCalled(s, t) ==
  /\ start[s].pc = "none" /\ tab[t] = "open"
  /\ activeSessionByTab[t] = None
  /\ start' = [start EXCEPT ![s] = [NoCall EXCEPT !.pc = "arm", !.tab = t]]
  /\ UNCHANGED <<browser, tables, current, paused, focus, stop, meta>>

\* The document in the tab is armed, or nothing is: one that is gone does not answer.
StartArmed(s) ==
  /\ start[s].pc = "arm"
  /\ \/ /\ tab[start[s].tab] = "open"
        /\ start' = [start EXCEPT ![s].pc = "armed", ![s].doc = doc[start[s].tab]]
     \/ start' = [start EXCEPT ![s] = [NoCall EXCEPT !.pc = "over"]]
  /\ UNCHANGED <<browser, tables, current, paused, focus, stop, meta>>

StartedUnattachedFaulty(s) ==
  /\ start[s].pc = "armed"
  /\ sessions' = Append(sessions, s)
  /\ activeSessionByTab' = [activeSessionByTab EXCEPT ![start[s].tab] = s]
  /\ meta' = [meta EXCEPT ![s].status = "active"]
  /\ start' = [start EXCEPT ![s] = [NoCall EXCEPT !.pc = "over"]]
  /\ UNCHANGED <<browser, pendingChildTabs, current, paused, focus, stop>>
\* The session is recorded, attached and told to the daemon; its tab is taken without
\* asking again.
Started(s) ==
  /\ start[s].pc = "armed"
  /\ LET t == start[s].tab
         a == Attach(t, start[s].doc) IN
       /\ sessions' = Append(sessions, s)
       /\ activeSessionByTab' = [activeSessionByTab EXCEPT ![t] = s]
       /\ current' = [current EXCEPT ![s] = a]
       /\ meta' = [meta EXCEPT ![s] = Attached([@ EXCEPT !.status = "active"], a)]
  /\ start' = [start EXCEPT ![s] = [NoCall EXCEPT !.pc = "over"]]
  /\ UNCHANGED <<browser, pendingChildTabs, paused, focus, stop>>

\* The tab a command is about: the one it names, or without a session there any
\* that has one. The map is read for the session without asking whether it is there.
Resolved(t) ==
  IF activeSessionByTab[t] # None THEN {t} ELSE {u \in Tabs : activeSessionByTab[u] # None}

StopCalled(x, t) ==
  /\ stop[x].pc = "none"
  /\ \E r \in Resolved(t) :
       LET s == activeSessionByTab[r] IN
       /\ Live(s)
       /\ stop' = [stop EXCEPT ![x] = [pc |-> "disarm", tab |-> r, session |-> s,
                                       attachment |-> current[s]]]
  /\ UNCHANGED <<browser, tables, current, paused, start, focus, meta>>

\* The attachment read before the wait, as it is by now.
LeftBy(x) ==
  LET a == stop[x].attachment
      c == current[stop[x].session] IN
  IF <<a.tab, a.key>> = <<c.tab, c.key>> THEN c ELSE a

StopDisarmed(x) ==
  /\ stop[x].pc = "disarm"
  /\ End(stop[x].session, stop[x].tab, LeftBy(x))
  /\ pendingChildTabs' = WithoutSession(stop[x].session)
  /\ stop' = [stop EXCEPT ![x] = NoStop]
  /\ UNCHANGED <<browser, current, start, focus>>

SetPaused(t, on) ==
  /\ \E r \in Resolved(t) :
       /\ Live(activeSessionByTab[r])
       /\ paused[activeSessionByTab[r]] # on
       /\ paused' = [paused EXCEPT ![activeSessionByTab[r]] = on]
  /\ UNCHANGED <<browser, tables, current, calls, meta>>

-----------------------------------------------------------------------------
Next ==
  \/ \E t \in Tabs :
       \/ \E u \in Tabs \cup {None} : TabOpens(t, u)
       \/ Created(t)
       \/ \E d \in Docs : Committed(t, d)
       \/ \E u \in Tabs : Replaced(t, u)
       \/ HistoryUpdated(t) \/ Removed(t) \/ ContentEvent(t)
       \/ \E f \in Focuses : FocusActivated(f, t)
       \/ \E s \in Ids : StartCalled(s, t)
       \/ \E x \in Stops : StopCalled(x, t)
       \/ \E on \in BOOLEAN : SetPaused(t, on)
  \/ \E f \in Focuses : FocusGrouped(f) \/ FocusSwitches(f)
  \/ \E s \in Ids : StartArmed(s) \/ Started(s)
  \/ \E x \in Stops : StopDisarmed(x)

Spec == Init /\ [][Next]_vars

-----------------------------------------------------------------------------
(* Properties *)

Call == [pc : {"none", "arm", "armed", "over", "group", "switch"},
         tab : Tabs \cup {None}, doc : Docs \cup {None}, session : Ids \cup {None}]

TypeOK ==
  /\ tab \in [Tabs -> {"unborn", "open", "closed"}] /\ doc \in [Tabs -> Docs \cup {None}]
  /\ birth \in [Tabs -> Tabs \cup {None}]
  /\ sessions \in Seq(Ids) /\ \A i, j \in DOMAIN sessions : sessions[i] = sessions[j] => i = j
  /\ activeSessionByTab \in [Tabs -> Ids \cup {None}]
  /\ current \in [Ids -> Attachment \cup {None}] /\ \A s \in Ids : Live(s) => current[s] # None
  /\ paused \in [Ids -> BOOLEAN]
  /\ pendingChildTabs \in [Tabs -> Ids \cup {None}]
  /\ start \in [Ids -> Call] /\ focus \in [Focuses -> Call]
  /\ stop \in [Stops -> [pc : {"none", "disarm"}, tab : Tabs \cup {None},
                         session : Ids \cup {None}, attachment : Attachment \cup {None}]]
  /\ meta \in [Ids -> [status : {"none", "active", "stopped"},
                       active : MetaKey \cup {None}]]

\* A tab leads to a session only if the session is attached there: no event of a tab
\* is recorded under another tab's attachment, whatever starts, hand-overs, focus
\* switches and stops run at once. And a child tab waits for a session that is there.
TablesAgree ==
  \A t \in Tabs :
    /\ SessionOf(t) # None => current[SessionOf(t)].tab = t
    /\ pendingChildTabs[t] # None => Live(pendingChildTabs[t])

\* The daemon's record of a session that is not over follows it from tab to tab,
\* though a detach may carry a document id the attach did not.
MetaFollows ==
  \A s \in Ids : Live(s) =>
    /\ meta[s].status = "active"
    /\ meta[s].active # None /\ meta[s].active[1] = current[s].tab

\* The first commit of a tab that waits as a child attaches the session it waits for
\* there and nowhere else, whichever session a start or a focus switch recorded there
\* while the tab's onCreated or its commit was on its way.
ChildTabFirst ==
  [][\A t \in Tabs : LET s == pendingChildTabs[t] IN
       doc'[t] # doc[t] /\ tab'[t] = "open" /\ s # None /\ ~paused[s] =>
         /\ activeSessionByTab'[t] = s /\ current'[s].tab = t
         /\ \A u \in Tabs \ {t} : activeSessionByTab'[u] # s]_vars

\* "the child-tab path always wins for child-tab cases" (ARCHITECTURE.md): a focus
\* switch attaches no tab that waits as a child. False of the code: a tab's onCreated
\* may come while handleFocusActivated waits for getTopFrameContext.
FocusNeverTakesChild ==
  [][\A f \in Focuses :
       focus[f].pc = "switch" /\ focus'[f].pc # "switch" => pendingChildTabs[focus[f].tab] = None]_vars

\* monitor_stop, monitor_pause and monitor_status read the session a tab leads to
\* with `sessions.get(sid)!`: it is there.
TabLeadsToSession == \A t \in Tabs : activeSessionByTab[t] # None => Live(activeSessionByTab[t])
=============================================================================
