-------------------------- MODULE ServiceWorkerProofs --------------------------
(***************************************************************************)
(* Theorems about what the background service worker of the extension      *)
(* keeps for its tabs: the monitor sessions, for any tabs, documents,      *)
(* sessions and numbers of calls that run at once, and the named tab       *)
(* groups, for any labels, tabs, groups, windows and lookups.              *)
(***************************************************************************)
EXTENDS MonitorSession, TabGroups, TLAPS

-----------------------------------------------------------------------------
(* The inductive invariant *)

\* A session is recorded by one call of monitor_start, which is over by then: what
\* still refers to the session after its end cannot refer to a later one.
StartedOnce ==
  \A s \in Ids :
    \/ Live(s) \/ current[s] # None \/ \E t \in Tabs : activeSessionByTab[t] = s
    => start[s].pc = "over"

\* What a call keeps over its waits: tabs that were there, sessions that had an
\* attachment.
CallsSound ==
  /\ \A s \in Ids : start[s].pc \in {"arm", "armed"} => start[s].tab \in Tabs
  /\ \A f \in Focuses : focus[f].pc # "none" =>
       /\ focus[f].tab \in Tabs /\ focus[f].session \in Ids
       /\ current[focus[f].session] # None
  /\ \A x \in Stops : stop[x].pc = "disarm" =>
       /\ stop[x].tab \in Tabs /\ stop[x].session \in Ids
       /\ stop[x].attachment # None /\ current[stop[x].session] # None

SessionInv == TypeOK /\ TablesAgree /\ MetaFollows /\ StartedOnce /\ CallsSound

-----------------------------------------------------------------------------
(* The helpers *)

\* sessions.delete takes out the one session and no other.
LEMMA DeletedTakesOne ==
  ASSUME TypeOK, NEW s \in Ids, Deleted(s)
  PROVE  /\ sessions' \in Seq(Ids)
         /\ \A i, j \in DOMAIN sessions' : sessions'[i] = sessions'[j] => i = j
         /\ \A u \in Ids : Live(u)' <=> Live(u) /\ u # s
<1>1. CASE ~Live(s) /\ UNCHANGED sessions
  BY <1>1 DEF TypeOK, Live
<1>2. ASSUME NEW k \in DOMAIN sessions, sessions[k] = s, sessions' = RemoveAt(sessions, k)
      PROVE  /\ sessions' \in Seq(Ids)
             /\ \A i, j \in DOMAIN sessions' : sessions'[i] = sessions'[j] => i = j
             /\ \A u \in Ids : Live(u)' <=> Live(u) /\ u # s
  <2>1. /\ sessions \in Seq(Ids) /\ k \in 1..Len(sessions)
        /\ \A i, j \in 1..Len(sessions) : sessions[i] = sessions[j] => i = j
    BY DEF TypeOK
  <2>2. /\ sessions' \in Seq(Ids) /\ Len(sessions') = Len(sessions) - 1
        /\ \A i \in 1..Len(sessions') :
             sessions'[i] = sessions[IF i < k THEN i ELSE i + 1]
    <3>1. /\ SubSeq(sessions, 1, k - 1) \in Seq(Ids) /\ Len(SubSeq(sessions, 1, k - 1)) = k - 1
          /\ \A i \in 1..(k - 1) : SubSeq(sessions, 1, k - 1)[i] = sessions[i]
      BY <2>1
    <3>2. /\ SubSeq(sessions, k + 1, Len(sessions)) \in Seq(Ids)
          /\ Len(SubSeq(sessions, k + 1, Len(sessions))) = Len(sessions) - k
          /\ \A i \in 1..(Len(sessions) - k) :
               SubSeq(sessions, k + 1, Len(sessions))[i] = sessions[k + i]
      BY <2>1
    <3> DEFINE L == SubSeq(sessions, 1, k - 1)  R == SubSeq(sessions, k + 1, Len(sessions))
    <3>3. sessions' = L \o R  BY <1>2 DEF RemoveAt
    <3> HIDE DEF L, R
    <3>4. /\ L \in Seq(Ids) /\ Len(L) = k - 1 /\ \A i \in 1..(k - 1) : L[i] = sessions[i]
          /\ R \in Seq(Ids) /\ Len(R) = Len(sessions) - k
          /\ \A i \in 1..(Len(sessions) - k) : R[i] = sessions[k + i]
      BY <3>1, <3>2 DEF L, R
    <3> QED  BY <3>3, <3>4, <2>1
  <2>3. \A i, j \in DOMAIN sessions' : sessions'[i] = sessions'[j] => i = j
    BY <2>1, <2>2
  <2>4. ASSUME NEW u \in Ids  PROVE  Live(u)' <=> Live(u) /\ u # s
    <3>1. ASSUME NEW i \in 1..Len(sessions), sessions[i] = u, u # s
          PROVE  \E j \in DOMAIN sessions' : sessions'[j] = u
      <4>1. CASE i < k   BY <3>1, <4>1, <2>1, <2>2
      <4>2. CASE i > k
        <5>1. i - 1 \in 1..Len(sessions') /\ ~(i - 1 < k)  BY <4>2, <2>1, <2>2
        <5>2. sessions'[i - 1] = u  BY <5>1, <3>1, <2>1, <2>2
        <5> QED  BY <5>1, <5>2, <2>2
      <4> QED  BY <4>1, <4>2, <3>1, <1>2, <2>1
    <3>2. ASSUME NEW j \in 1..Len(sessions'), sessions'[j] = u
          PROVE  u # s /\ \E i \in DOMAIN sessions : sessions[i] = u
      <4> DEFINE i == IF j < k THEN j ELSE j + 1
      <4>1. i \in 1..Len(sessions) /\ i # k  BY <2>1, <2>2
      <4>2. sessions[i] = u  BY <3>2, <2>2
      <4> HIDE DEF i
      <4>3. u # s  BY <4>1, <4>2, <1>2, <2>1
      <4> QED  BY <4>1, <4>2, <4>3, <2>1
    <3> QED  BY <3>1, <3>2, <2>1, <2>2 DEF Live
  <2> QED  BY <2>2, <2>3, <2>4
<1> QED  BY <1>1, <1>2 DEF Deleted

\* The tables are typed where an action reads them.
LEMMA SessionOfType ==
  ASSUME TypeOK, NEW t \in Tabs, SessionOf(t) # None
  PROVE  /\ SessionOf(t) \in Ids /\ Live(SessionOf(t)) /\ activeSessionByTab[t] = SessionOf(t)
         /\ current[SessionOf(t)] \in Attachment
BY DEF TypeOK, SessionOf

LEMMA AttachType ==
  ASSUME NEW t \in Tabs, NEW d \in Docs \cup {None}
  PROVE  Attach(t, d) \in Attachment /\ Attach(t, d).tab = t
BY DEF Attach, Attachment

\* A hand-over takes the old tab from the session and gives it the new one, and the
\* daemon's record with it.
LEMMA SwitchKeeps ==
  ASSUME SessionInv, NEW s \in Ids, current[s] # None, NEW a \in Attachment,
         SwitchToAttachment(s, a), UNCHANGED sessions
  PROVE  /\ activeSessionByTab' \in [Tabs -> Ids \cup {None}]
         /\ \A t \in Tabs : activeSessionByTab'[t] \in {activeSessionByTab[t], None, s}
         /\ current' \in [Ids -> Attachment \cup {None}]
         /\ \A u \in Ids : current'[u] = None <=> current[u] = None
         /\ \A t \in Tabs : SessionOf(t)' # None => current'[SessionOf(t)'].tab = t
         /\ meta' \in [Ids -> [status : {"none", "active", "stopped"}, active : MetaKey \cup {None}]]
         /\ MetaFollows'
<1> USE SessionAssumption
<1>1. /\ current[s] \in Attachment /\ current[s].tab \in Tabs /\ a.tab \in Tabs
      /\ EventKey(a) \in MetaKey /\ EventKey(a)[1] = a.tab /\ a # None
  BY DEF SessionInv, TypeOK, Attachment, EventKey, MetaKey
<1>2. \A u \in Ids : Live(u)' <=> Live(u)
  BY DEF Live
<1>3. CASE UNCHANGED <<current, activeSessionByTab, meta>>
  <2>1. \A t \in Tabs : SessionOf(t)' = SessionOf(t)
    BY <1>2, <1>3 DEF SessionOf, Live
  <2>2. MetaFollows'
    BY <1>2, <1>3 DEF SessionInv, MetaFollows
  <2> QED  BY <1>3, <2>1, <2>2 DEF SessionInv, TypeOK, TablesAgree
<1>4. ASSUME current' = [current EXCEPT ![s] = a],
             activeSessionByTab' = [t \in Tabs |-> IF t = a.tab THEN s
                                                    ELSE IF t = current[s].tab THEN None
                                                    ELSE activeSessionByTab[t]],
             meta' = [meta EXCEPT ![s] = Attached(Detached(@, current[s]), a)]
      PROVE  /\ activeSessionByTab' \in [Tabs -> Ids \cup {None}]
             /\ \A t \in Tabs : activeSessionByTab'[t] \in {activeSessionByTab[t], None, s}
             /\ current' \in [Ids -> Attachment \cup {None}]
             /\ \A u \in Ids : current'[u] = None <=> current[u] = None
             /\ \A t \in Tabs : SessionOf(t)' # None => current'[SessionOf(t)'].tab = t
             /\ meta' \in [Ids -> [status : {"none", "active", "stopped"}, active : MetaKey \cup {None}]]
             /\ MetaFollows'
  <2>1. activeSessionByTab' \in [Tabs -> Ids \cup {None}]
    BY <1>4 DEF SessionInv, TypeOK
  <2>2. \A t \in Tabs : activeSessionByTab'[t] \in {activeSessionByTab[t], None, s}
    BY <1>4
  <2>3. /\ current' \in [Ids -> Attachment \cup {None}]
        /\ \A u \in Ids : current'[u] = None <=> current[u] = None
    BY <1>1, <1>4 DEF SessionInv, TypeOK
  <2>4. ASSUME NEW t \in Tabs, SessionOf(t)' # None
        PROVE  current'[SessionOf(t)'].tab = t
    <3>1. SessionOf(t)' = activeSessionByTab'[t] /\ Live(activeSessionByTab[t])'
      BY <2>4 DEF SessionOf, Live
    <3>2. CASE t = a.tab
      <4>1. SessionOf(t)' = s  BY <3>1, <3>2, <1>4
      <4> QED  BY <4>1, <3>2, <1>4 DEF SessionInv, TypeOK
    <3>3. CASE t # a.tab
      <4>1. t # current[s].tab /\ activeSessionByTab'[t] = activeSessionByTab[t]
        BY <3>1, <3>3, <2>4, <1>4
      <4>2. SessionOf(t) = activeSessionByTab[t] /\ SessionOf(t) # None
        BY <4>1, <3>1, <2>4, <1>2 DEF SessionOf, SessionInv, TypeOK, Live
      <4>3. current[SessionOf(t)].tab = t
        BY <4>2 DEF SessionInv, TablesAgree
      <4> QED  BY <4>1, <4>2, <4>3, <3>1, <1>4 DEF SessionInv, TypeOK
    <3> QED  BY <3>2, <3>3
  <2>5. meta'[s].active = EventKey(a) /\ meta'[s].status = meta[s].status
    BY <1>1, <1>4 DEF SessionInv, TypeOK, Attached, Detached
  <2>6. meta' \in [Ids -> [status : {"none", "active", "stopped"}, active : MetaKey \cup {None}]]
    <3> DEFINE M == [status : {"none", "active", "stopped"}, active : MetaKey \cup {None}]
    <3>1. meta \in [Ids -> M]  BY DEF SessionInv, TypeOK
    <3>2. Detached(meta[s], current[s]) \in M  BY <3>1 DEF Detached
    <3>3. Attached(Detached(meta[s], current[s]), a) \in M  BY <3>2, <1>1 DEF Attached
    <3> HIDE DEF M
    <3>4. meta' \in [Ids -> M]  BY <3>1, <3>3, <1>4
    <3> QED  BY <3>4 DEF M
  <2>7. MetaFollows'
    <3> SUFFICES ASSUME NEW u \in Ids, Live(u)'
                 PROVE  /\ meta'[u].status = "active"
                        /\ meta'[u].active # None /\ meta'[u].active[1] = current'[u].tab
      BY DEF MetaFollows
    <3>1. CASE u = s
      BY <3>1, <2>5, <1>1, <1>2, <1>4 DEF SessionInv, TypeOK, MetaFollows
    <3>2. CASE u # s
      BY <3>2, <1>2, <1>4 DEF SessionInv, TypeOK, MetaFollows
    <3> QED  BY <3>1, <3>2
  <2> QED  BY <2>1, <2>2, <2>3, <2>4, <2>6, <2>7
<1> QED  BY <1>3, <1>4 DEF SwitchToAttachment

\* The end of a session leaves the others and their record alone.
LEMMA EndKeeps ==
  ASSUME SessionInv, NEW s \in Ids, NEW t \in Tabs, NEW a \in Attachment, End(s, t, a),
         pendingChildTabs' \in [Tabs -> Ids \cup {None}],
         \A u \in Tabs : /\ pendingChildTabs'[u] \in {pendingChildTabs[u], None}
                         /\ pendingChildTabs'[u] # s,
         UNCHANGED <<current, start>>
  PROVE  /\ sessions' \in Seq(Ids)
         /\ \A i, j \in DOMAIN sessions' : sessions'[i] = sessions'[j] => i = j
         /\ \A u \in Ids : Live(u)' => Live(u)
         /\ activeSessionByTab' \in [Tabs -> Ids \cup {None}]
         /\ paused' \in [Ids -> BOOLEAN]
         /\ meta' \in [Ids -> [status : {"none", "active", "stopped"}, active : MetaKey \cup {None}]]
         /\ TablesAgree' /\ MetaFollows' /\ StartedOnce'
<1> USE SessionAssumption
<1>1. Deleted(s)  BY DEF End
<1>2. /\ sessions' \in Seq(Ids)
      /\ \A i, j \in DOMAIN sessions' : sessions'[i] = sessions'[j] => i = j
      /\ \A u \in Ids : Live(u)' <=> Live(u) /\ u # s
  BY <1>1, DeletedTakesOne DEF SessionInv
<1>3. /\ activeSessionByTab' \in [Tabs -> Ids \cup {None}]
      /\ \A u \in Tabs : activeSessionByTab'[u] \in {activeSessionByTab[u], None}
      /\ paused' \in [Ids -> BOOLEAN]
  BY DEF End, SessionInv, TypeOK
<1>5. /\ meta' \in [Ids -> [status : {"none", "active", "stopped"}, active : MetaKey \cup {None}]]
      /\ \A u \in Ids \ {s} : meta'[u] = meta[u]
  <2> DEFINE M == [status : {"none", "active", "stopped"}, active : MetaKey \cup {None}]
             m == [Detached(meta[s], a) EXCEPT !.status = "stopped"]
  <2>1. meta \in [Ids -> M]  BY DEF SessionInv, TypeOK
  <2>2. m \in M  BY <2>1 DEF Detached
  <2>3. meta' = [meta EXCEPT ![s] = m]  BY DEF End
  <2> HIDE DEF M, m
  <2>4. meta' \in [Ids -> M] /\ \A u \in Ids \ {s} : meta'[u] = meta[u]
    BY <2>1, <2>2, <2>3
  <2> QED  BY <2>4 DEF M
<1>6. TablesAgree'
  <2> SUFFICES ASSUME NEW u \in Tabs
               PROVE  /\ SessionOf(u)' # None => current'[SessionOf(u)'].tab = u
                      /\ pendingChildTabs'[u] # None => Live(pendingChildTabs[u])'
    BY DEF TablesAgree
  <2>1. SessionOf(u)' # None => SessionOf(u)' = SessionOf(u)
    <3>1. ASSUME activeSessionByTab'[u] # None, Live(activeSessionByTab[u])'
          PROVE  activeSessionByTab'[u] = activeSessionByTab[u] /\ Live(activeSessionByTab[u])
      <4>1. activeSessionByTab'[u] = activeSessionByTab[u] /\ activeSessionByTab[u] \in Ids
        BY <1>3, <3>1
      <4>2. (\E i \in DOMAIN sessions' : sessions'[i] = activeSessionByTab[u]) => Live(activeSessionByTab[u])
        BY <4>1, <1>2 DEF Live
      <4> QED  BY <4>1, <4>2, <3>1 DEF Live
    <3> QED  BY <3>1 DEF SessionOf
  <2>2. ASSUME pendingChildTabs'[u] # None  PROVE  Live(pendingChildTabs[u])'
    <3>1. pendingChildTabs'[u] = pendingChildTabs[u] /\ Live(pendingChildTabs[u])
      BY <2>2 DEF SessionInv, TablesAgree
    <3>2. pendingChildTabs[u] \in Ids /\ pendingChildTabs[u] # s
      BY <3>1, <2>2 DEF SessionInv, TypeOK
    <3>3. Live(pendingChildTabs[u]) => \E i \in DOMAIN sessions' : sessions'[i] = pendingChildTabs[u]
      BY <3>2, <1>2 DEF Live
    <3> QED  BY <3>1, <3>3 DEF Live
  <2> QED  BY <2>1, <2>2 DEF SessionInv, TablesAgree
<1>7. MetaFollows'
  BY <1>2, <1>5 DEF SessionInv, MetaFollows
<1>8. StartedOnce'
  BY <1>2, <1>3 DEF SessionInv, StartedOnce
<1> QED  BY <1>2, <1>3, <1>5, <1>6, <1>7, <1>8

\* clearPendingChildTabsForSession leaves no tab that waits for the session.
LEMMA WithoutSessionClears ==
  ASSUME TypeOK, NEW s \in Ids
  PROVE  /\ WithoutSession(s) \in [Tabs -> Ids \cup {None}]
         /\ \A u \in Tabs : /\ WithoutSession(s)[u] \in {pendingChildTabs[u], None}
                            /\ WithoutSession(s)[u] # s
BY SessionAssumption DEF TypeOK, WithoutSession

-----------------------------------------------------------------------------
(* The inductive invariant holds *)

LEMMA InvHolds == Init => SessionInv
BY SessionAssumption DEF Init, SessionInv, TypeOK, TablesAgree, MetaFollows, StartedOnce, CallsSound,
   Live, SessionOf, Call, NoCall, NoStop, Attachment, MetaKey

\* A step that leaves the sessions and tables alone but for the document of an attachment.
LEMMA DocumentKeeps ==
  ASSUME SessionInv, UNCHANGED <<sessions, activeSessionByTab, paused, pendingChildTabs, meta>>,
         current' \in [Ids -> Attachment \cup {None}],
         \A s \in Ids : /\ current'[s] = None <=> current[s] = None
                        /\ current[s] # None => current'[s].tab = current[s].tab,
         \A s \in Ids : start[s].pc = "over" => start'[s].pc = "over"
  PROVE  TablesAgree' /\ MetaFollows' /\ StartedOnce'
<1>1. \A s \in Ids : Live(s)' <=> Live(s)
  BY DEF Live
<1>2. TablesAgree'
  <2> SUFFICES ASSUME NEW t \in Tabs
               PROVE  /\ SessionOf(t)' # None => current'[SessionOf(t)'].tab = t
                      /\ pendingChildTabs'[t] # None => Live(pendingChildTabs[t])'
    BY DEF TablesAgree
  <2>1. SessionOf(t)' = SessionOf(t)
    BY DEF SessionOf, Live
  <2>2. SessionOf(t) # None => current'[SessionOf(t)].tab = t
    BY SessionOfType, SessionAssumption DEF SessionInv, TablesAgree, TypeOK
  <2>3. pendingChildTabs[t] # None => Live(pendingChildTabs[t])'
    BY DEF SessionInv, TablesAgree, Live
  <2> QED  BY <2>1, <2>2, <2>3
<1>3. MetaFollows'
  BY <1>1 DEF SessionInv, TypeOK, MetaFollows
<1>4. StartedOnce'
  BY <1>1 DEF SessionInv, StartedOnce
<1> QED  BY <1>2, <1>3, <1>4

LEMMA TabOpensKeeps ==
  ASSUME SessionInv, NEW t \in Tabs, NEW u \in Tabs \cup {None}, TabOpens(t, u)
  PROVE  SessionInv'
<1> USE SessionAssumption
<1>1. TablesAgree' /\ MetaFollows' /\ StartedOnce'
  BY DocumentKeeps DEF TabOpens, tables, calls, SessionInv, TypeOK
<1>2. TypeOK' /\ CallsSound'
  BY DEF TabOpens, tables, calls, SessionInv, TypeOK, CallsSound, Live
<1> QED  BY <1>1, <1>2 DEF SessionInv

LEMMA CreatedKeeps ==
  ASSUME SessionInv, NEW t \in Tabs, Created(t)
  PROVE  SessionInv'
<1> USE SessionAssumption
<1>1. PICK s \in WaitsFor(birth[t]) : pendingChildTabs' = [pendingChildTabs EXCEPT ![t] = s]
  BY DEF Created
<1>2. s = None \/ (s \in Ids /\ Live(s))
  BY SessionOfType DEF WaitsFor, Recorded, SessionInv, TypeOK, Created
<1>3. \A v \in Ids : Live(v)' <=> Live(v)
  BY DEF Created, Live
<1>4. TypeOK'
  BY <1>1, <1>2 DEF SessionInv, TypeOK, Created, calls, Live
<1>5. TablesAgree'
  <2> SUFFICES ASSUME NEW v \in Tabs
               PROVE  /\ SessionOf(v)' # None => current'[SessionOf(v)'].tab = v
                      /\ pendingChildTabs'[v] # None => Live(pendingChildTabs[v])'
    BY DEF TablesAgree
  <2>1. SessionOf(v)' = SessionOf(v)
    BY DEF Created, SessionOf, Live
  <2>2. pendingChildTabs'[v] # None => Live(pendingChildTabs[v])'
    BY <1>1, <1>2 DEF SessionInv, TypeOK, TablesAgree, Created, Live
  <2> QED  BY <2>1, <2>2 DEF SessionInv, TablesAgree, Created
<1>6. MetaFollows' /\ StartedOnce'
  BY <1>3 DEF Created, calls, SessionInv, MetaFollows, StartedOnce
<1>7. CallsSound'
  BY <1>1 DEF Created, calls, SessionInv, TypeOK, CallsSound
<1> QED  BY <1>4, <1>5, <1>6, <1>7 DEF SessionInv

LEMMA CommittedKeeps ==
  ASSUME SessionInv, NEW t \in Tabs, NEW d \in Docs, Committed(t, d)
  PROVE  SessionInv'
<1> USE SessionAssumption
<1>1. \A v \in Ids : Live(v)' <=> Live(v)
  BY DEF Committed, Live
<1>2. \A v \in Tabs : pendingChildTabs'[v] \in {pendingChildTabs[v], None}
  BY DEF Committed, SessionInv, TypeOK
<1>3. \A v \in Tabs : pendingChildTabs'[v] # None => Live(pendingChildTabs[v])'
  <2> SUFFICES ASSUME NEW v \in Tabs, pendingChildTabs'[v] # None
               PROVE  Live(pendingChildTabs[v])'
    OBVIOUS
  <2>1. pendingChildTabs'[v] = pendingChildTabs[v] /\ Live(pendingChildTabs[v])
    BY <1>2 DEF SessionInv, TablesAgree
  <2> QED  BY <2>1 DEF Committed, Live
<1>4. /\ activeSessionByTab' \in [Tabs -> Ids \cup {None}]
      /\ current' \in [Ids -> Attachment \cup {None}]
      /\ \A u \in Ids : current'[u] = None <=> current[u] = None
      /\ \A v \in Tabs : SessionOf(v)' # None => current'[SessionOf(v)'].tab = v
      /\ meta' \in [Ids -> [status : {"none", "active", "stopped"}, active : MetaKey \cup {None}]]
      /\ MetaFollows' /\ StartedOnce'
  <2>1. ASSUME NEW s \in Takers(t, d), SwitchToAttachment(s, Attach(t, d))
        PROVE  <1>4!:
    <3>1. s \in Ids /\ Live(s)
      <4>1. CASE pendingChildTabs[t] # None
        BY <4>1, <2>1 DEF Takers, SessionInv, TypeOK
      <4>2. CASE pendingChildTabs[t] = None
        BY <4>2, <2>1, SessionOfType DEF Takers, Recorded, SessionInv
      <4> QED  BY <4>1, <4>2
    <3>2. current[s] # None /\ start[s].pc = "over"
      BY <3>1 DEF SessionInv, TypeOK, StartedOnce
    <3>3. /\ activeSessionByTab' \in [Tabs -> Ids \cup {None}]
          /\ \A v \in Tabs : activeSessionByTab'[v] \in {activeSessionByTab[v], None, s}
          /\ current' \in [Ids -> Attachment \cup {None}]
          /\ \A u \in Ids : current'[u] = None <=> current[u] = None
          /\ \A v \in Tabs : SessionOf(v)' # None => current'[SessionOf(v)'].tab = v
          /\ meta' \in [Ids -> [status : {"none", "active", "stopped"}, active : MetaKey \cup {None}]]
          /\ MetaFollows'
      BY <2>1, <3>1, <3>2, AttachType, SwitchKeeps DEF Committed
    <3>4. StartedOnce'
      BY <3>2, <3>3, <1>1 DEF StartedOnce, SessionInv, Committed, calls
    <3> QED  BY <3>3, <3>4
  <2>2. CASE UNCHANGED <<activeSessionByTab, current, meta>>
    <3>1. \A v \in Tabs : SessionOf(v)' = SessionOf(v)
      BY <2>2 DEF Committed, SessionOf, Live
    <3>2. MetaFollows' /\ StartedOnce'
      BY <2>2, <1>1 DEF Committed, calls, SessionInv, MetaFollows, StartedOnce
    <3> QED  BY <2>2, <3>1, <3>2 DEF SessionInv, TypeOK, TablesAgree
  <2> QED  BY <2>1, <2>2 DEF Committed
<1>5. TypeOK'
  BY <1>1, <1>4 DEF SessionInv, TypeOK, Committed, calls
<1>6. TablesAgree'
  BY <1>3, <1>4 DEF TablesAgree
<1>7. CallsSound'
  BY <1>2, <1>4 DEF Committed, calls, SessionInv, TypeOK, CallsSound
<1> QED  BY <1>4, <1>5, <1>6, <1>7 DEF SessionInv

LEMMA HistoryUpdatedKeeps ==
  ASSUME SessionInv, NEW t \in Tabs, HistoryUpdated(t) \/ ContentEvent(t)
  PROVE  SessionInv'
<1> USE SessionAssumption
<1> DEFINE s == SessionOf(t)
<1>1. /\ s \in Ids /\ current[s] \in Attachment
      /\ current' = [current EXCEPT ![s].doc = doc[t]] /\ doc[t] \in Docs
      /\ UNCHANGED <<browser, tables, paused, calls, meta>>
  BY SessionOfType DEF HistoryUpdated, ContentEvent, Recorded, SessionInv, TypeOK
<1> HIDE DEF s
<1>2. /\ current' \in [Ids -> Attachment \cup {None}]
      /\ \A u \in Ids : /\ current'[u] = None <=> current[u] = None
                        /\ current[u] # None => current'[u].tab = current[u].tab
  <2> DEFINE b == [current[s] EXCEPT !.doc = doc[t]]
  <2>1. b \in Attachment /\ b.tab = current[s].tab /\ b # None
    BY <1>1 DEF Attachment
  <2>2. current' = [current EXCEPT ![s] = b]
    BY <1>1
  <2>3. current \in [Ids -> Attachment \cup {None}] /\ current[s] # None
    BY <1>1 DEF SessionInv, TypeOK
  <2> HIDE DEF b
  <2> QED  BY <1>1, <2>1, <2>2, <2>3
<1>3. TablesAgree' /\ MetaFollows' /\ StartedOnce'
  BY <1>1, <1>2, DocumentKeeps DEF tables, calls
<1>4. TypeOK'
  BY <1>1, <1>2 DEF SessionInv, TypeOK, tables, calls, browser, Live
<1>5. CallsSound'
  BY <1>1, <1>2 DEF SessionInv, CallsSound, tables, calls, browser
<1> QED  BY <1>3, <1>4, <1>5 DEF SessionInv

LEMMA ReplacedKeeps ==
  ASSUME SessionInv, NEW t \in Tabs, NEW u \in Tabs, Replaced(t, u)
  PROVE  SessionInv'
<1> USE SessionAssumption
<1>1. CASE ~Recorded(t) /\ UNCHANGED <<current, activeSessionByTab, meta>>
  <2>1. TablesAgree' /\ MetaFollows' /\ StartedOnce'
    BY <1>1, DocumentKeeps DEF Replaced, calls, SessionInv, TypeOK
  <2>2. TypeOK' /\ CallsSound'
    BY <1>1 DEF Replaced, calls, SessionInv, TypeOK, CallsSound, Live
  <2> QED  BY <2>1, <2>2 DEF SessionInv
<1>2. CASE Recorded(t)
  <2> DEFINE s == SessionOf(t)
             a == Attach(u, current[s].doc)
  <2>1. /\ s \in Ids /\ Live(s) /\ activeSessionByTab[t] = s /\ s # None
        /\ current[s] \in Attachment /\ current[s].doc \in Docs \cup {None}
    BY <1>2, SessionOfType DEF Recorded, SessionInv, Attachment
  <2>2. a \in Attachment /\ a.tab = u /\ a # None
    BY <2>1, AttachType
  <2>3. EventKey(a) \in MetaKey /\ EventKey(a)[1] = u /\ EventKey(a) # None
    BY <2>2 DEF EventKey, MetaKey, Attachment
  <2>4. /\ current' = [current EXCEPT ![s] = a]
        /\ activeSessionByTab' = [activeSessionByTab EXCEPT ![t] = None, ![u] = s]
        /\ meta' = [meta EXCEPT ![s] = Attached(Detached(@, current[s]), a)]
        /\ UNCHANGED <<sessions, pendingChildTabs, paused, calls>>
        /\ tab' = [tab EXCEPT ![t] = "closed", ![u] = "open"]
        /\ doc' = [doc EXCEPT ![t] = None, ![u] = doc[t]]
    BY <1>2 DEF Replaced
  <2> HIDE DEF s, a
  <2>5. /\ current' \in [Ids -> Attachment \cup {None}] /\ current'[s] = a
        /\ \A v \in Ids \ {s} : current'[v] = current[v]
        /\ \A v \in Ids : current'[v] = None <=> current[v] = None
    BY <2>1, <2>2, <2>4 DEF SessionInv, TypeOK
  <2>6. \A v \in Ids : Live(v)' <=> Live(v)
    BY <2>4 DEF Live
  <2>7. meta' \in [Ids -> [status : {"none", "active", "stopped"}, active : MetaKey \cup {None}]]
    <3> DEFINE M == [status : {"none", "active", "stopped"}, active : MetaKey \cup {None}]
    <3>1. meta \in [Ids -> M]  BY DEF SessionInv, TypeOK
    <3>2. Detached(meta[s], current[s]) \in M  BY <2>1, <3>1 DEF Detached
    <3>3. Attached(Detached(meta[s], current[s]), a) \in M  BY <3>2, <2>3 DEF Attached
    <3> HIDE DEF M
    <3>4. meta' \in [Ids -> M]  BY <3>1, <3>3, <2>4
    <3> QED  BY <3>4 DEF M
  <2>8. MetaFollows'
    <3> SUFFICES ASSUME NEW v \in Ids, Live(v)'
                 PROVE  /\ meta'[v].status = "active"
                        /\ meta'[v].active # None /\ meta'[v].active[1] = current'[v].tab
      BY DEF MetaFollows
    <3>1. CASE v = s
      <4>1. meta'[s].active = EventKey(a) /\ meta'[s].status = meta[s].status
        BY <2>1, <2>4 DEF SessionInv, TypeOK, Attached, Detached
      <4> QED  BY <3>1, <4>1, <2>1, <2>2, <2>3, <2>5 DEF SessionInv, MetaFollows
    <3>2. CASE v # s
      BY <3>2, <2>4, <2>5, <2>6 DEF SessionInv, TypeOK, MetaFollows
    <3> QED  BY <3>1, <3>2
  <2>9. TablesAgree'
    <3> SUFFICES ASSUME NEW v \in Tabs
                 PROVE  /\ SessionOf(v)' # None => current'[SessionOf(v)'].tab = v
                        /\ pendingChildTabs'[v] # None => Live(pendingChildTabs[v])'
      BY DEF TablesAgree
    <3>1. pendingChildTabs'[v] # None => Live(pendingChildTabs[v])'
      BY <2>4 DEF SessionInv, TablesAgree, Live
    <3>2. CASE v = u
      <4>1. SessionOf(v)' = s
        BY <3>2, <2>1, <2>4, <2>6 DEF SessionOf, Live, SessionInv, TypeOK
      <4> QED  BY <3>1, <3>2, <4>1, <2>2, <2>5
    <3>3. CASE v # u /\ v = t
      <4>1. SessionOf(v)' = None
        BY <3>3, <2>4 DEF SessionOf, SessionInv, TypeOK
      <4> QED  BY <3>1, <4>1
    <3>4. CASE v # u /\ v # t
      <4>1. SessionOf(v)' = SessionOf(v)
        BY <3>4, <2>4 DEF SessionOf, Live, SessionInv, TypeOK
      <4>2. SessionOf(v) # None => SessionOf(v) \in Ids /\ SessionOf(v) # s
        BY <3>4, <2>1, SessionOfType DEF SessionInv, TablesAgree, s
      <4> QED  BY <3>1, <4>1, <4>2, <2>5 DEF SessionInv, TablesAgree
    <3> QED  BY <3>2, <3>3, <3>4
  <2>10. StartedOnce'
    BY <2>1, <2>4, <2>5, <2>6 DEF SessionInv, TypeOK, StartedOnce, calls
  <2>11. TypeOK' /\ CallsSound'
    <3>1. TypeOK'
      <4>1. \A v \in Ids : Live(v)' => current'[v] # None
        BY <2>5, <2>6 DEF SessionInv, TypeOK
      <4>2. /\ tab' \in [Tabs -> {"unborn", "open", "closed"}] /\ doc' \in [Tabs -> Docs \cup {None}]
            /\ birth' \in [Tabs -> Tabs \cup {None}] /\ activeSessionByTab' \in [Tabs -> Ids \cup {None}]
        <5>1. birth' = birth /\ doc[t] \in Docs \cup {None}
          BY DEF Replaced, SessionInv, TypeOK
        <5> QED  BY <5>1, <2>1, <2>4 DEF SessionInv, TypeOK
      <4> QED  BY <2>4, <2>5, <2>7, <4>1, <4>2 DEF SessionInv, TypeOK, calls
    <3>2. CallsSound'
      BY <2>4, <2>5 DEF SessionInv, TypeOK, CallsSound, calls
    <3> QED  BY <3>1, <3>2
  <2> QED  BY <2>8, <2>9, <2>10, <2>11 DEF SessionInv
<1> QED  BY <1>1, <1>2 DEF Replaced

LEMMA RemovedKeeps ==
  ASSUME SessionInv, NEW t \in Tabs, Removed(t)
  PROVE  SessionInv'
<1> USE SessionAssumption
<1>1. CASE SessionOf(t) # None /\ End(SessionOf(t), t, current[SessionOf(t)])
  <2>1. SessionOf(t) \in Ids /\ current[SessionOf(t)] \in Attachment
    BY <1>1, SessionOfType DEF SessionInv
  <2>2. /\ UNCHANGED <<current, start, focus, stop>>
        /\ pendingChildTabs' = [WithoutSession(SessionOf(t)) EXCEPT ![t] = None]
    BY <1>1 DEF Removed, calls
  <2>5. /\ pendingChildTabs' \in [Tabs -> Ids \cup {None}]
        /\ \A u \in Tabs : /\ pendingChildTabs'[u] \in {pendingChildTabs[u], None}
                            /\ pendingChildTabs'[u] # SessionOf(t)
    BY <1>1, <2>1, <2>2, WithoutSessionClears DEF SessionInv
  <2>3. /\ sessions' \in Seq(Ids)
        /\ \A i, j \in DOMAIN sessions' : sessions'[i] = sessions'[j] => i = j
        /\ \A u \in Ids : Live(u)' => Live(u)
        /\ activeSessionByTab' \in [Tabs -> Ids \cup {None}]
        /\ paused' \in [Ids -> BOOLEAN]
        /\ meta' \in [Ids -> [status : {"none", "active", "stopped"}, active : MetaKey \cup {None}]]
        /\ TablesAgree' /\ MetaFollows' /\ StartedOnce'
    BY <1>1, <2>1, <2>2, <2>5, EndKeeps
  <2>4. TypeOK' /\ CallsSound'
    BY <2>2, <2>3, <2>5 DEF SessionInv, TypeOK, CallsSound, Removed
  <2> QED  BY <2>3, <2>4 DEF SessionInv
<1>2. CASE SessionOf(t) = None
  <2>1. /\ pendingChildTabs' = [pendingChildTabs EXCEPT ![t] = None]
        /\ UNCHANGED <<sessions, activeSessionByTab, paused, meta, current, calls>>
    BY <1>2 DEF Removed
  <2>2. TablesAgree'
    <3> SUFFICES ASSUME NEW v \in Tabs
                 PROVE  /\ SessionOf(v)' # None => current'[SessionOf(v)'].tab = v
                        /\ pendingChildTabs'[v] # None => Live(pendingChildTabs[v])'
      BY DEF TablesAgree
    <3>1. SessionOf(v)' = SessionOf(v)
      BY <2>1 DEF SessionOf, Live
    <3>2. pendingChildTabs'[v] # None => Live(pendingChildTabs[v])'
      BY <2>1 DEF SessionInv, TypeOK, TablesAgree, Live
    <3> QED  BY <3>1, <3>2, <2>1 DEF SessionInv, TablesAgree
  <2>3. MetaFollows' /\ StartedOnce'
    BY <2>1 DEF SessionInv, MetaFollows, StartedOnce, Live, calls
  <2>4. TypeOK' /\ CallsSound'
    BY <2>1 DEF SessionInv, TypeOK, CallsSound, Removed, Live, calls
  <2> QED  BY <2>2, <2>3, <2>4 DEF SessionInv
<1> QED  BY <1>1, <1>2 DEF Removed

\* Steps that touch a call in progress only.
LEMMA CallKeeps ==
  ASSUME SessionInv, UNCHANGED <<browser, tables, current, meta>>, paused' \in [Ids -> BOOLEAN],
         start' \in [Ids -> Call], focus' \in [Focuses -> Call],
         stop' \in [Stops -> [pc : {"none", "disarm"}, tab : Tabs \cup {None},
                              session : Ids \cup {None}, attachment : Attachment \cup {None}]],
         \A s \in Ids : start[s].pc = "over" => start'[s].pc = "over",
         CallsSound'
  PROVE  SessionInv'
<1> USE SessionAssumption
<1>1. \A s \in Ids : Live(s)' <=> Live(s)
  BY DEF tables, Live
<1>2. TypeOK'
  BY <1>1 DEF SessionInv, TypeOK, browser, tables
<1>3. TablesAgree'
  <2> SUFFICES ASSUME NEW v \in Tabs
               PROVE  /\ SessionOf(v)' # None => current'[SessionOf(v)'].tab = v
                      /\ pendingChildTabs'[v] # None => Live(pendingChildTabs[v])'
    BY DEF TablesAgree
  <2>1. SessionOf(v)' = SessionOf(v)
    BY DEF SessionOf, Live, tables
  <2> QED  BY <2>1 DEF SessionInv, TablesAgree, tables, Live
<1>4. MetaFollows' /\ StartedOnce'
  BY <1>1 DEF SessionInv, MetaFollows, StartedOnce, tables
<1> QED  BY <1>2, <1>3, <1>4 DEF SessionInv

LEMMA FocusKeeps ==
  ASSUME SessionInv, NEW f \in Focuses,
         (\E t \in Tabs : FocusActivated(f, t)) \/ FocusGrouped(f)
  PROVE  SessionInv'
<1> USE SessionAssumption
<1>1. UNCHANGED <<browser, tables, current, paused, start, stop, meta>>
  BY DEF FocusActivated, FocusGrouped
<1>2. CASE \E t \in Tabs : FocusActivated(f, t)
  <2>1. PICK t \in Tabs, s \in Ids :
          /\ tab[t] = "open" /\ FirstActive(s)
          /\ focus' = [focus EXCEPT ![f] = [pc |-> "group", tab |-> t, doc |-> None, session |-> s]]
    BY <1>2 DEF FocusActivated
  <2>2. current[s] # None
    BY <2>1 DEF FirstActive, Live, SessionInv, TypeOK
  <2>3. focus' \in [Focuses -> Call]
    BY <2>1 DEF SessionInv, TypeOK, Call
  <2>4. CallsSound'
    BY <1>1, <2>1, <2>2 DEF SessionInv, TypeOK, CallsSound, browser, tables
  <2> QED  BY <1>1, <2>3, <2>4, CallKeeps DEF SessionInv, TypeOK
<1>3. CASE FocusGrouped(f)
  <2>1. /\ focus[f] \in Call /\ focus[f].pc = "group"
        /\ focus[f].tab \in Tabs /\ doc[focus[f].tab] \in Docs \cup {None}
    BY <1>3 DEF FocusGrouped, SessionInv, CallsSound, TypeOK
  <2>2. CASE pendingChildTabs[focus[f].tab] = None /\
             focus' = [focus EXCEPT ![f].pc = "switch", ![f].doc = doc[focus[f].tab]]
    <3> DEFINE c == [focus[f] EXCEPT !.pc = "switch", !.doc = doc[focus[f].tab]]
    <3>1. c \in Call /\ c.tab = focus[f].tab /\ c.session = focus[f].session /\ c.pc = "switch"
      BY <2>1 DEF Call
    <3>2. focus' = [focus EXCEPT ![f] = c]
      BY <2>2
    <3> HIDE DEF c
    <3>3. focus' \in [Focuses -> Call]
      BY <3>1, <3>2 DEF SessionInv, TypeOK
    <3>4. CallsSound'
      BY <1>1, <2>1, <2>2, <3>1, <3>2 DEF SessionInv, TypeOK, CallsSound, browser, tables
    <3> QED  BY <1>1, <3>3, <3>4, CallKeeps DEF SessionInv, TypeOK
  <2>3. CASE focus' = [focus EXCEPT ![f] = NoCall]
    <3>1. focus' \in [Focuses -> Call]
      BY <2>3 DEF SessionInv, TypeOK, Call, NoCall
    <3>2. CallsSound'
      BY <1>1, <2>3 DEF SessionInv, TypeOK, CallsSound, browser, tables, NoCall
    <3> QED  BY <1>1, <3>1, <3>2, CallKeeps DEF SessionInv, TypeOK
  <2> QED  BY <1>3, <2>2, <2>3 DEF FocusGrouped, HandoffPending
<1> QED  BY <1>2, <1>3

LEMMA FocusSwitchesKeeps ==
  ASSUME SessionInv, NEW f \in Focuses, FocusSwitches(f)
  PROVE  SessionInv'
<1> USE SessionAssumption
<1> DEFINE s == focus[f].session
           a == Attach(focus[f].tab, focus[f].doc)
<1>1. /\ s \in Ids /\ current[s] # None /\ a \in Attachment
      /\ SwitchToAttachment(s, a) /\ focus' = [focus EXCEPT ![f] = NoCall]
      /\ UNCHANGED <<browser, sessions, pendingChildTabs, paused, start, stop>>
  <2>1. focus[f].tab \in Tabs /\ s \in Ids /\ current[s] # None
    BY DEF FocusSwitches, SessionInv, CallsSound
  <2>2. focus[f].doc \in Docs \cup {None}
    BY DEF SessionInv, TypeOK, Call
  <2> QED  BY <2>1, <2>2, AttachType DEF FocusSwitches
<1> HIDE DEF s, a
<1>2. /\ activeSessionByTab' \in [Tabs -> Ids \cup {None}]
      /\ \A t \in Tabs : activeSessionByTab'[t] \in {activeSessionByTab[t], None, s}
      /\ current' \in [Ids -> Attachment \cup {None}]
      /\ \A u \in Ids : current'[u] = None <=> current[u] = None
      /\ \A t \in Tabs : SessionOf(t)' # None => current'[SessionOf(t)'].tab = t
      /\ meta' \in [Ids -> [status : {"none", "active", "stopped"}, active : MetaKey \cup {None}]]
      /\ MetaFollows'
  BY <1>1, SwitchKeeps
<1>3. \A v \in Ids : Live(v)' <=> Live(v)
  BY <1>1 DEF Live
<1>4. StartedOnce'
  BY <1>1, <1>2, <1>3 DEF SessionInv, StartedOnce
<1>5. TablesAgree'
  BY <1>1, <1>2 DEF SessionInv, TablesAgree, Live
<1>6. TypeOK'
  BY <1>1, <1>2, <1>3 DEF SessionInv, TypeOK, browser, Call, NoCall
<1>7. CallsSound'
  BY <1>1, <1>2 DEF SessionInv, TypeOK, CallsSound, browser, NoCall
<1> QED  BY <1>2, <1>4, <1>5, <1>6, <1>7 DEF SessionInv

LEMMA StartCallKeeps ==
  ASSUME SessionInv, NEW s \in Ids, (\E t \in Tabs : StartCalled(s, t)) \/ StartArmed(s)
  PROVE  SessionInv'
<1> USE SessionAssumption
<1>1. /\ UNCHANGED <<browser, tables, current, paused, focus, stop, meta>>
      /\ start[s].pc \in {"none", "arm"}
  BY DEF StartCalled, StartArmed
<1>2. PICK c \in Call : /\ start' = [start EXCEPT ![s] = c]
                        /\ c.pc \in {"arm", "armed"} => c.tab \in Tabs
  <2>1. CASE \E t \in Tabs : StartCalled(s, t)
    <3>1. PICK t \in Tabs : start' = [start EXCEPT ![s] = [NoCall EXCEPT !.pc = "arm", !.tab = t]]
      BY <2>1 DEF StartCalled
    <3>2. /\ [NoCall EXCEPT !.pc = "arm", !.tab = t] \in Call
          /\ [NoCall EXCEPT !.pc = "arm", !.tab = t].tab = t
      BY DEF NoCall, Call
    <3> QED  BY <3>1, <3>2
  <2>2. CASE StartArmed(s)
    <3>1. start[s] \in Call /\ start[s].tab \in Tabs
      BY <2>2 DEF StartArmed, SessionInv, TypeOK, CallsSound
    <3>2. doc[start[s].tab] \in Docs \cup {None}
      BY <3>1 DEF SessionInv, TypeOK
    <3>3. CASE start' = [start EXCEPT ![s].pc = "armed", ![s].doc = doc[start[s].tab]]
      <4> DEFINE c == [start[s] EXCEPT !.pc = "armed", !.doc = doc[start[s].tab]]
      <4>1. c \in Call /\ c.tab \in Tabs  BY <3>1, <3>2 DEF Call
      <4>2. start' = [start EXCEPT ![s] = c]  BY <3>3
      <4> QED  BY <4>1, <4>2
    <3>4. CASE start' = [start EXCEPT ![s] = [NoCall EXCEPT !.pc = "over"]]
      <4>1. [NoCall EXCEPT !.pc = "over"] \in Call /\ [NoCall EXCEPT !.pc = "over"].pc = "over"
        BY DEF NoCall, Call
      <4> QED  BY <3>4, <4>1
    <3> QED  BY <2>2, <3>3, <3>4 DEF StartArmed
  <2> QED  BY <2>1, <2>2
<1>3. start' \in [Ids -> Call]
  BY <1>2 DEF SessionInv, TypeOK
<1>4. \A u \in Ids : start[u].pc = "over" => start'[u].pc = "over"
  BY <1>1, <1>2 DEF SessionInv, TypeOK
<1>5. CallsSound'
  BY <1>1, <1>2 DEF SessionInv, TypeOK, CallsSound, browser, tables
<1> QED  BY <1>1, <1>3, <1>4, <1>5, CallKeeps DEF SessionInv, TypeOK

LEMMA StartedKeeps ==
  ASSUME SessionInv, NEW s \in Ids, Started(s)
  PROVE  SessionInv'
<1> USE SessionAssumption
<1> DEFINE t == start[s].tab
           a == Attach(t, start[s].doc)
<1>1. /\ start[s].pc = "armed" /\ t \in Tabs /\ a \in Attachment /\ a.tab = t
      /\ sessions' = Append(sessions, s)
      /\ activeSessionByTab' = [activeSessionByTab EXCEPT ![t] = s]
      /\ current' = [current EXCEPT ![s] = a]
      /\ meta' = [meta EXCEPT ![s] = Attached([@ EXCEPT !.status = "active"], a)]
      /\ start' = [start EXCEPT ![s] = [NoCall EXCEPT !.pc = "over"]]
      /\ UNCHANGED <<browser, pendingChildTabs, paused, focus, stop>>
  <2>1. start[s].pc = "armed" /\ t \in Tabs
    BY DEF Started, SessionInv, CallsSound
  <2>2. start[s].doc \in Docs \cup {None}
    BY DEF SessionInv, TypeOK, Call
  <2> QED  BY <2>1, <2>2, AttachType DEF Started
<1>2. EventKey(a) \in MetaKey /\ EventKey(a)[1] = t /\ EventKey(a) # None /\ a # None
  BY <1>1 DEF EventKey, MetaKey, Attachment
<1> HIDE DEF t, a
<1>3. ~Live(s) /\ current[s] = None /\ \A v \in Tabs : activeSessionByTab[v] # s
  BY <1>1 DEF SessionInv, StartedOnce
<1>4. /\ sessions' \in Seq(Ids)
      /\ \A i, j \in DOMAIN sessions' : sessions'[i] = sessions'[j] => i = j
      /\ \A u \in Ids : Live(u)' <=> Live(u) \/ u = s
  <2>1. sessions \in Seq(Ids) /\ \A i \in 1..Len(sessions) : sessions[i] # s
    BY <1>3 DEF SessionInv, TypeOK, Live
  <2>2. /\ sessions' \in Seq(Ids) /\ Len(sessions') = Len(sessions) + 1
        /\ \A i \in 1..Len(sessions) : sessions'[i] = sessions[i]
        /\ sessions'[Len(sessions) + 1] = s
    BY <1>1, <2>1
  <2>3. \A i, j \in DOMAIN sessions' : sessions'[i] = sessions'[j] => i = j
    <3>1. \A i, j \in 1..Len(sessions) : sessions[i] = sessions[j] => i = j
      BY <2>1 DEF SessionInv, TypeOK
    <3>2. DOMAIN sessions' = 1..Len(sessions) \cup {Len(sessions) + 1}
      BY <2>1, <2>2
    <3> QED  BY <3>1, <3>2, <2>1, <2>2
  <2>4. \A u \in Ids : Live(u)' <=> Live(u) \/ u = s
    BY <2>1, <2>2 DEF Live
  <2> QED  BY <2>2, <2>3, <2>4
<1>5. /\ current' \in [Ids -> Attachment \cup {None}] /\ current'[s] = a
      /\ \A u \in Ids \ {s} : current'[u] = current[u]
      /\ activeSessionByTab' \in [Tabs -> Ids \cup {None}]
  BY <1>1 DEF SessionInv, TypeOK
<1>6. /\ meta' \in [Ids -> [status : {"none", "active", "stopped"}, active : MetaKey \cup {None}]]
      /\ meta'[s].status = "active" /\ meta'[s].active = EventKey(a)
      /\ \A u \in Ids \ {s} : meta'[u] = meta[u]
  <2> DEFINE M == [status : {"none", "active", "stopped"}, active : MetaKey \cup {None}]
             m == Attached([meta[s] EXCEPT !.status = "active"], a)
  <2>1. meta \in [Ids -> M]  BY DEF SessionInv, TypeOK
  <2>2. m \in M /\ m.status = "active" /\ m.active = EventKey(a)
    BY <2>1, <1>2 DEF Attached
  <2>3. meta' = [meta EXCEPT ![s] = m]  BY <1>1
  <2> HIDE DEF M, m
  <2>4. /\ meta' \in [Ids -> M] /\ meta'[s] = m /\ \A u \in Ids \ {s} : meta'[u] = meta[u]
    BY <2>1, <2>2, <2>3
  <2> QED  BY <2>2, <2>4 DEF M
<1>7. TablesAgree'
  <2> SUFFICES ASSUME NEW v \in Tabs
               PROVE  /\ SessionOf(v)' # None => current'[SessionOf(v)'].tab = v
                      /\ pendingChildTabs'[v] # None => Live(pendingChildTabs[v])'
    BY DEF TablesAgree
  <2>1. pendingChildTabs'[v] # None => Live(pendingChildTabs[v])'
    <3>1. pendingChildTabs[v] # None => pendingChildTabs[v] \in Ids /\ Live(pendingChildTabs[v])
      BY DEF SessionInv, TypeOK, TablesAgree
    <3> QED  BY <3>1, <1>1, <1>4 DEF Live
  <2>2. CASE v = t
    <3>1. SessionOf(v)' \in {s, None}
      BY <2>2, <1>1 DEF SessionOf, SessionInv, TypeOK
    <3> QED  BY <3>1, <2>1, <2>2, <1>1, <1>5
  <2>3. CASE v # t
    <3>1. activeSessionByTab'[v] = activeSessionByTab[v] /\ activeSessionByTab[v] # s
      BY <2>3, <1>1, <1>3 DEF SessionInv, TypeOK
    <3>2. SessionOf(v)' = SessionOf(v) /\ SessionOf(v) # s
      BY <3>1, <1>4 DEF SessionOf, SessionInv, TypeOK, Live
    <3>3. SessionOf(v) # None => SessionOf(v) \in Ids
      BY SessionOfType DEF SessionInv
    <3> QED  BY <3>2, <3>3, <2>1, <1>5 DEF SessionInv, TablesAgree
  <2> QED  BY <2>2, <2>3
<1>8. MetaFollows'
  BY <1>1, <1>2, <1>4, <1>5, <1>6 DEF SessionInv, MetaFollows
<1>9. [NoCall EXCEPT !.pc = "over"] \in Call /\ [NoCall EXCEPT !.pc = "over"].pc = "over"
  BY DEF NoCall, Call
<1>10. /\ start' \in [Ids -> Call] /\ start'[s].pc = "over"
       /\ \A u \in Ids \ {s} : start'[u] = start[u]
  BY <1>1, <1>9 DEF SessionInv, TypeOK
<1>11. StartedOnce'
  BY <1>1, <1>4, <1>5, <1>10 DEF SessionInv, TypeOK, StartedOnce
<1>12. TypeOK'
  BY <1>1, <1>2, <1>4, <1>5, <1>6, <1>10 DEF SessionInv, TypeOK, browser
<1>13. CallsSound'
  BY <1>1, <1>2, <1>5, <1>10 DEF SessionInv, TypeOK, CallsSound, browser
<1> QED  BY <1>7, <1>8, <1>11, <1>12, <1>13 DEF SessionInv

LEMMA StopKeeps ==
  ASSUME SessionInv, NEW x \in Stops, (\E t \in Tabs : StopCalled(x, t)) \/ StopDisarmed(x)
  PROVE  SessionInv'
<1> USE SessionAssumption
<1>1. CASE \E t \in Tabs : StopCalled(x, t)
  <2>1. PICK t \in Tabs : StopCalled(x, t)
    BY <1>1
  <2>2. Resolved(t) \subseteq {u \in Tabs : activeSessionByTab[u] # None}
    BY DEF Resolved
  <2>3. PICK r \in Tabs :
          /\ activeSessionByTab[r] # None /\ Live(activeSessionByTab[r])
          /\ stop' = [stop EXCEPT ![x] = [pc |-> "disarm", tab |-> r, session |-> activeSessionByTab[r],
                                         attachment |-> current[activeSessionByTab[r]]]]
    BY <2>1, <2>2 DEF StopCalled
  <2>4. /\ activeSessionByTab[r] \in Ids /\ current[activeSessionByTab[r]] \in Attachment
    BY <2>3 DEF SessionInv, TypeOK
  <2>5. UNCHANGED <<browser, tables, current, paused, start, focus, meta>>
    BY <2>1 DEF StopCalled
  <2>6. stop' \in [Stops -> [pc : {"none", "disarm"}, tab : Tabs \cup {None},
                             session : Ids \cup {None}, attachment : Attachment \cup {None}]]
    BY <2>3, <2>4 DEF SessionInv, TypeOK
  <2>7. CallsSound'
    BY <2>3, <2>4, <2>5 DEF SessionInv, TypeOK, CallsSound, browser, tables
  <2> QED  BY <2>5, <2>6, <2>7, CallKeeps DEF SessionInv, TypeOK
<1>2. CASE StopDisarmed(x)
  <2>1. /\ stop[x].session \in Ids /\ stop[x].tab \in Tabs
        /\ stop[x].attachment \in Attachment /\ current[stop[x].session] \in Attachment
    BY <1>2 DEF StopDisarmed, SessionInv, TypeOK, CallsSound
  <2>2. LeftBy(x) \in Attachment
    BY <2>1 DEF LeftBy
  <2>3. /\ End(stop[x].session, stop[x].tab, LeftBy(x))
        /\ pendingChildTabs' = WithoutSession(stop[x].session)
        /\ stop' = [stop EXCEPT ![x] = NoStop] /\ UNCHANGED <<browser, current, start, focus>>
    BY <1>2 DEF StopDisarmed
  <2>7. /\ pendingChildTabs' \in [Tabs -> Ids \cup {None}]
        /\ \A u \in Tabs : /\ pendingChildTabs'[u] \in {pendingChildTabs[u], None}
                            /\ pendingChildTabs'[u] # stop[x].session
    BY <2>1, <2>3, WithoutSessionClears DEF SessionInv
  <2>4. /\ sessions' \in Seq(Ids)
        /\ \A i, j \in DOMAIN sessions' : sessions'[i] = sessions'[j] => i = j
        /\ \A u \in Ids : Live(u)' => Live(u)
        /\ activeSessionByTab' \in [Tabs -> Ids \cup {None}]
        /\ paused' \in [Ids -> BOOLEAN]
        /\ meta' \in [Ids -> [status : {"none", "active", "stopped"}, active : MetaKey \cup {None}]]
        /\ TablesAgree' /\ MetaFollows' /\ StartedOnce'
    BY <2>1, <2>2, <2>3, <2>7, EndKeeps
  <2>5. TypeOK'
    BY <2>3, <2>4, <2>7 DEF SessionInv, TypeOK, browser, NoStop
  <2>6. CallsSound'
    BY <2>3, <2>4 DEF SessionInv, TypeOK, CallsSound, browser, NoStop
  <2> QED  BY <2>4, <2>5, <2>6 DEF SessionInv
<1> QED  BY <1>1, <1>2

LEMMA PausedKeeps ==
  ASSUME SessionInv, NEW t \in Tabs, NEW on \in BOOLEAN, SetPaused(t, on)
  PROVE  SessionInv'
<1>1. paused' \in [Ids -> BOOLEAN]
  BY DEF SetPaused, SessionInv, TypeOK
<1>2. UNCHANGED <<browser, tables, current, calls, meta>>
  BY DEF SetPaused
<1>3. CallsSound'
  BY <1>2 DEF SessionInv, CallsSound, browser, tables, calls
<1> QED  BY <1>1, <1>2, <1>3, CallKeeps DEF calls, SessionInv, TypeOK

\* Nothing happens.
LEMMA StutterKeeps ==
  ASSUME SessionInv, UNCHANGED vars
  PROVE  SessionInv'
<1>1. CallsSound'
  BY DEF vars, browser, tables, calls, SessionInv, CallsSound
<1> QED  BY <1>1, CallKeeps DEF vars, calls, SessionInv, TypeOK

LEMMA StepKeeps == SessionInv /\ [Next]_vars => SessionInv'
<1> SUFFICES ASSUME SessionInv, [Next]_vars  PROVE SessionInv'
  OBVIOUS
<1>1. CASE \E t \in Tabs : Created(t) \/ \E u \in Tabs \cup {None} : TabOpens(t, u)
  BY <1>1, CreatedKeeps, TabOpensKeeps
<1>2. CASE \E t \in Tabs, d \in Docs : Committed(t, d)  BY <1>2, CommittedKeeps
<1>3. CASE \E t, u \in Tabs : Replaced(t, u)  BY <1>3, ReplacedKeeps
<1>4. CASE \E t \in Tabs : HistoryUpdated(t) \/ ContentEvent(t)  BY <1>4, HistoryUpdatedKeeps
<1>5. CASE \E t \in Tabs : Removed(t)  BY <1>5, RemovedKeeps
<1>6. CASE \E f \in Focuses : (\E t \in Tabs : FocusActivated(f, t)) \/ FocusGrouped(f)
  BY <1>6, FocusKeeps
<1>7. CASE \E f \in Focuses : FocusSwitches(f)  BY <1>7, FocusSwitchesKeeps
<1>8. CASE \E s \in Ids : (\E t \in Tabs : StartCalled(s, t)) \/ StartArmed(s)
  BY <1>8, StartCallKeeps
<1>9. CASE \E s \in Ids : Started(s)  BY <1>9, StartedKeeps
<1>10. CASE \E x \in Stops : (\E t \in Tabs : StopCalled(x, t)) \/ StopDisarmed(x)
  BY <1>10, StopKeeps
<1>11. CASE \E t \in Tabs, on \in BOOLEAN : SetPaused(t, on)  BY <1>11, PausedKeeps
<1>12. CASE UNCHANGED vars  BY <1>12, StutterKeeps
<1> QED
  BY <1>1, <1>2, <1>3, <1>4, <1>5, <1>6, <1>7, <1>8, <1>9, <1>10, <1>11, <1>12 DEF Next

\* The invariant the theorems follow from.
THEOREM SessionInvariant == Spec => []SessionInv
BY InvHolds, StepKeeps, PTL DEF Spec

-----------------------------------------------------------------------------
(* What it gives *)

\* Every reachable state of the worker and of the daemon's record is typed; in
\* particular a session in the map has an attachment and is there once.
THEOREM TypeCorrect == Spec => []TypeOK
<1>1. SessionInv => TypeOK  BY DEF SessionInv
<1> QED  BY <1>1, SessionInvariant, PTL

\* A tab leads only to a session that is attached there, and a child waits only for a
\* session that is there, whatever calls and events overlap.
THEOREM TablesStayAgreed == Spec => []TablesAgree
<1>1. SessionInv => TablesAgree  BY DEF SessionInv
<1> QED  BY <1>1, SessionInvariant, PTL

\* The daemon's record of a running session names the tab it is attached to.
THEOREM RecordFollows == Spec => []MetaFollows
<1>1. SessionInv => MetaFollows  BY DEF SessionInv
<1> QED  BY <1>1, SessionInvariant, PTL

\* A document id that the worker has for a tab is one the tab has had: none before its
\* first commit.
Seen(t, d) == tab[t] # "unborn" /\ (tab[t] = "open" /\ doc[t] = None => d = None)

\* Attachments and calls name what was seen, and a tab that waits as a child, or will
\* when its onCreated comes, has no document yet: its first commit finds no attachment
\* with its key.
AttachedSeen ==
  \A s \in Ids : current[s] # None =>
    Seen(current[s].tab, current[s].key) /\ Seen(current[s].tab, current[s].doc)
StartsSeen == \A s \in Ids : start[s].pc \in {"arm", "armed"} => Seen(start[s].tab, start[s].doc)
FocusesSeen == \A f \in Focuses : focus[f].pc # "none" => Seen(focus[f].tab, focus[f].doc)
WaitingFresh ==
  \A t \in Tabs :
    /\ tab[t] = "unborn" => doc[t] = None
    /\ pendingChildTabs[t] # None \/ birth[t] # None => tab[t] # "unborn" /\ doc[t] = None

SeenInv == AttachedSeen /\ StartsSeen /\ FocusesSeen /\ WaitingFresh

\* What was seen stays seen.
LEMMA SeenStays ==
  ASSUME SessionInv, [Next]_vars, NEW t \in Tabs, NEW d, Seen(t, d)
  PROVE  Seen(t, d)'
<1>1. UNCHANGED <<tab, doc>> => Seen(t, d)'
  BY DEF Seen
<1>2. ASSUME NEW u \in Tabs, NEW v \in Tabs \cup {None}, TabOpens(u, v)  PROVE Seen(t, d)'
  BY <1>2 DEF TabOpens, Seen, SessionInv, TypeOK
<1>3. ASSUME NEW u \in Tabs, NEW e \in Docs, Committed(u, e)  PROVE Seen(t, d)'
  BY <1>3, SessionAssumption DEF Committed, Seen, SessionInv, TypeOK
<1>4. ASSUME NEW u \in Tabs, NEW v \in Tabs, Replaced(u, v)  PROVE Seen(t, d)'
  BY <1>4 DEF Replaced, Seen, SessionInv, TypeOK
<1>5. ASSUME NEW u \in Tabs, Removed(u)  PROVE Seen(t, d)'
  BY <1>5 DEF Removed, Seen, SessionInv, TypeOK
<1>6. ASSUME NEW u \in Tabs, Created(u)  PROVE Seen(t, d)'
  BY <1>1, <1>6 DEF Created
<1>7. ASSUME NEW u \in Tabs, HistoryUpdated(u) \/ ContentEvent(u)  PROVE Seen(t, d)'
  BY <1>1, <1>7 DEF HistoryUpdated, ContentEvent, browser
<1>8. ASSUME NEW f \in Focuses, (\E u \in Tabs : FocusActivated(f, u)) \/ FocusGrouped(f) \/ FocusSwitches(f)
      PROVE Seen(t, d)'
  BY <1>1, <1>8 DEF FocusActivated, FocusGrouped, FocusSwitches, browser
<1>9. ASSUME NEW s \in Ids, (\E u \in Tabs : StartCalled(s, u)) \/ StartArmed(s) \/ Started(s)
      PROVE Seen(t, d)'
  BY <1>1, <1>9 DEF StartCalled, StartArmed, Started, browser
<1>10. ASSUME NEW x \in Stops, (\E u \in Tabs : StopCalled(x, u)) \/ StopDisarmed(x)  PROVE Seen(t, d)'
  BY <1>1, <1>10 DEF StopCalled, StopDisarmed, browser
<1>11. ASSUME NEW u \in Tabs, NEW on \in BOOLEAN, SetPaused(u, on)  PROVE Seen(t, d)'
  BY <1>1, <1>11 DEF SetPaused, browser
<1>12. UNCHANGED vars => Seen(t, d)'
  BY <1>1 DEF vars, browser
<1> QED
  BY <1>2, <1>3, <1>4, <1>5, <1>6, <1>7, <1>8, <1>9, <1>10, <1>11, <1>12 DEF Next

\* A step after which every attachment and call is one of before, or is seen.
LEMMA SeenCarried ==
  ASSUME SessionInv, SeenInv, [Next]_vars,
         \A s \in Ids : \/ current'[s] = current[s] \/ current'[s] = None
                        \/ Seen(current[s].tab, current[s].key)' /\ Seen(current[s].tab, current[s].doc)',
         \A s \in Ids : \/ start'[s] = start[s] \/ start'[s].pc \notin {"arm", "armed"}
                        \/ Seen(start[s].tab, start[s].doc)',
         \A f \in Focuses : \/ focus'[f] = focus[f] \/ focus'[f].pc = "none"
                            \/ Seen(focus[f].tab, focus[f].doc)',
         WaitingFresh'
  PROVE  SeenInv'
<1>1. AttachedSeen'
  <2> SUFFICES ASSUME NEW s \in Ids, current'[s] # None
               PROVE  Seen(current[s].tab, current[s].key)' /\ Seen(current[s].tab, current[s].doc)'
    BY DEF AttachedSeen
  <2>1. CASE current'[s] = current[s]
    <3>1. current[s].tab \in Tabs
      BY <2>1 DEF SessionInv, TypeOK, Attachment
    <3>2. Seen(current[s].tab, current[s].key) /\ Seen(current[s].tab, current[s].doc)
      BY <2>1 DEF SeenInv, AttachedSeen
    <3> DEFINE t == current[s].tab  k == current[s].key  d == current[s].doc
    <3>3. t' = t /\ k' = k /\ d' = d
      BY <2>1
    <3> HIDE DEF t, k, d
    <3>4. Seen(t, k) /\ Seen(t, d) /\ t \in Tabs
      BY <3>1, <3>2 DEF t, k, d
    <3>5. /\ tab'[t] # "unborn"
          /\ tab'[t] = "open" /\ doc'[t] = None => k = None /\ d = None
      BY <3>4, SeenStays DEF Seen
    <3> QED  BY <3>5, <2>1 DEF Seen, t, k, d
  <2> QED  BY <2>1
<1>2. StartsSeen'
  <2> SUFFICES ASSUME NEW s \in Ids, start'[s].pc \in {"arm", "armed"}
               PROVE  Seen(start[s].tab, start[s].doc)'
    BY DEF StartsSeen
  <2>1. CASE start'[s] = start[s]
    <3> DEFINE t == start[s].tab  d == start[s].doc
    <3>1. t \in Tabs /\ Seen(t, d)
      BY <2>1 DEF SessionInv, CallsSound, SeenInv, StartsSeen
    <3> HIDE DEF t, d
    <3>2. tab'[t] # "unborn" /\ (tab'[t] = "open" /\ doc'[t] = None => d = None)
      BY <3>1, SeenStays DEF Seen
    <3> QED  BY <3>2, <2>1 DEF Seen, t, d
  <2> QED  BY <2>1
<1>3. FocusesSeen'
  <2> SUFFICES ASSUME NEW f \in Focuses, focus'[f].pc # "none"
               PROVE  Seen(focus[f].tab, focus[f].doc)'
    BY DEF FocusesSeen
  <2>1. CASE focus'[f] = focus[f]
    <3> DEFINE t == focus[f].tab  d == focus[f].doc
    <3>1. t \in Tabs /\ Seen(t, d)
      BY <2>1 DEF SessionInv, CallsSound, SeenInv, FocusesSeen
    <3> HIDE DEF t, d
    <3>2. tab'[t] # "unborn" /\ (tab'[t] = "open" /\ doc'[t] = None => d = None)
      BY <3>1, SeenStays DEF Seen
    <3> QED  BY <3>2, <2>1 DEF Seen, t, d
  <2> QED  BY <2>1
<1> QED  BY <1>1, <1>2, <1>3 DEF SeenInv

\* A switch to what was seen leaves attachments that were seen.
LEMMA SwitchSeen ==
  ASSUME SessionInv, NEW s \in Ids, NEW a \in Attachment, SwitchToAttachment(s, a),
         Seen(a.tab, a.key)' /\ Seen(a.tab, a.doc)'
  PROVE  \A u \in Ids : \/ current'[u] = current[u]
                        \/ Seen(current[u].tab, current[u].key)' /\ Seen(current[u].tab, current[u].doc)'
<1>1. CASE UNCHANGED current
  BY <1>1
<1>2. CASE current' = [current EXCEPT ![s] = a]
  <2>1. current'[s] = a /\ \A u \in Ids \ {s} : current'[u] = current[u]
    BY <1>2 DEF SessionInv, TypeOK
  <2> QED  BY <2>1 DEF Seen
<1> QED  BY <1>1, <1>2 DEF SwitchToAttachment

LEMMA SeenHolds == Init => SeenInv
BY SessionAssumption DEF Init, SeenInv, AttachedSeen, StartsSeen, FocusesSeen, WaitingFresh, NoCall

LEMMA SeenStep ==
  ASSUME SessionInv, SeenInv, [Next]_vars
  PROVE  SeenInv'
<1> USE SessionAssumption
<1>0. WaitingFresh /\ TypeOK /\ CallsSound /\ FocusesSeen /\ StartsSeen
  BY DEF SeenInv, SessionInv
<1>1. ASSUME NEW t \in Tabs, NEW u \in Tabs \cup {None}, TabOpens(t, u)  PROVE SeenInv'
  <2>1. WaitingFresh'
    BY <1>0, <1>1 DEF TabOpens, tables, TypeOK, WaitingFresh
  <2>2. UNCHANGED <<current, start, focus>>
    BY <1>1 DEF TabOpens, calls
  <2> QED  BY <2>1, <2>2, SeenCarried
<1>2. ASSUME NEW t \in Tabs, Created(t)  PROVE SeenInv'
  <2>1. PICK s \in WaitsFor(birth[t]) : pendingChildTabs' = [pendingChildTabs EXCEPT ![t] = s]
    BY <1>2 DEF Created
  <2>2. WaitingFresh'
    BY <1>0, <1>2, <2>1 DEF Created, TypeOK, WaitingFresh
  <2>3. UNCHANGED <<current, start, focus>>
    BY <1>2 DEF Created, calls
  <2> QED  BY <2>2, <2>3, SeenCarried
<1>3. ASSUME NEW t \in Tabs, NEW d \in Docs, Committed(t, d)  PROVE SeenInv'
  <2>1. WaitingFresh'
    BY <1>0, <1>3 DEF Committed, TypeOK, WaitingFresh
  <2>2. tab'[t] = "open" /\ doc'[t] = d /\ UNCHANGED <<start, focus>>
    BY <1>0, <1>3 DEF Committed, TypeOK, calls
  <2>3. CASE UNCHANGED current
    BY <2>1, <2>2, <2>3, SeenCarried
  <2>4. ASSUME NEW s \in Takers(t, d), SwitchToAttachment(s, Attach(t, d))  PROVE SeenInv'
    <3>1. s \in Ids
      BY <2>4, SessionOfType DEF Takers, Recorded, SessionInv, TypeOK
    <3>2. Attach(t, d) \in Attachment
      BY AttachType
    <3>3. Seen(t, d)'
      BY <2>2 DEF Seen
    <3>4. Seen(Attach(t, d).tab, Attach(t, d).key)' /\ Seen(Attach(t, d).tab, Attach(t, d).doc)'
      BY <3>3 DEF Attach, Seen
    <3>5. \A u \in Ids : \/ current'[u] = current[u]
                         \/ Seen(current[u].tab, current[u].key)' /\ Seen(current[u].tab, current[u].doc)'
      BY <2>4, <3>1, <3>2, <3>4, SwitchSeen
    <3> QED  BY <2>1, <2>2, <3>5, SeenCarried
  <2> QED  BY <1>3, <2>3, <2>4 DEF Committed
<1>4. ASSUME NEW t \in Tabs, HistoryUpdated(t) \/ ContentEvent(t)  PROVE SeenInv'
  <2>1. PICK s \in Ids :
        /\ s # None /\ current[s] \in Attachment /\ current[s].tab = t
        /\ current' = [current EXCEPT ![s].doc = doc[t]] /\ tab[t] = "open" /\ doc[t] \in Docs
        /\ UNCHANGED <<browser, tables, paused, calls, meta>>
    BY <1>0, <1>4, SessionOfType DEF HistoryUpdated, ContentEvent, Recorded, SessionInv, TypeOK, TablesAgree
  <2>2. WaitingFresh'
    BY <1>0, <2>1 DEF WaitingFresh, browser, tables
  <2>3. Seen(t, current[s].key)
    BY <2>1 DEF SeenInv, AttachedSeen
  <2>4. \A u \in Ids \ {s} : current'[u] = current[u]
    BY <2>1, <1>0 DEF TypeOK
  <2>5. /\ current'[s].tab = t /\ current'[s].doc = doc[t] /\ current'[s].key = current[s].key
    BY <2>1, <1>0 DEF TypeOK, Attachment
  <2>6. Seen(current[s].tab, current[s].key)' /\ Seen(current[s].tab, current[s].doc)'
    BY <2>1, <2>3, <2>5 DEF Seen, browser
  <2> QED  BY <2>1, <2>2, <2>4, <2>6, SeenCarried DEF calls
<1>5. ASSUME NEW t \in Tabs, NEW u \in Tabs, Replaced(t, u)  PROVE SeenInv'
  <2>1. WaitingFresh'
    BY <1>0, <1>5 DEF Replaced, TypeOK, WaitingFresh
  <2>2. UNCHANGED <<start, focus>>
    BY <1>5 DEF Replaced, calls
  <2>3. CASE UNCHANGED current
    BY <2>1, <2>2, <2>3, SeenCarried
  <2>4. CASE Recorded(t)
    <3>1. PICK s, a :
          /\ s \in Ids /\ s # None /\ a = Attach(u, current[s].doc) /\ current[s] \in Attachment /\ current[s].tab = t
          /\ current' = [current EXCEPT ![s] = a]
      BY <1>5, <2>4, SessionOfType DEF Replaced, Recorded, SessionInv, TablesAgree
    <3>2. /\ tab[t] = "open" /\ tab'[u] = "open" /\ doc'[u] = doc[t]
      BY <1>0, <1>5 DEF Replaced, TypeOK
    <3>3. doc[t] = None => current[s].doc = None
      BY <3>1, <3>2 DEF SeenInv, AttachedSeen, Seen
    <3>4. a.tab = u /\ a.key = current[s].doc /\ a.doc = current[s].doc
      BY <3>1 DEF Attach
    <3>5. current'[s] = a /\ \A v \in Ids \ {s} : current'[v] = current[v]
      BY <3>1, <1>0 DEF TypeOK
    <3>6. Seen(current[s].tab, current[s].key)' /\ Seen(current[s].tab, current[s].doc)'
      BY <3>2, <3>3, <3>4, <3>5 DEF Seen
    <3> QED  BY <2>1, <2>2, <3>5, <3>6, SeenCarried
  <2> QED  BY <1>5, <2>3, <2>4 DEF Replaced
<1>6. ASSUME NEW t \in Tabs, Removed(t)  PROVE SeenInv'
  <2>1. \A u \in Tabs : pendingChildTabs'[u] \in {pendingChildTabs[u], None}
    <3>1. CASE SessionOf(t) # None
      BY <1>0, <1>6, <3>1, SessionOfType, WithoutSessionClears DEF Removed
    <3>2. CASE SessionOf(t) = None
      BY <1>0, <1>6, <3>2 DEF Removed, TypeOK
    <3> QED  BY <3>1, <3>2
  <2>2. WaitingFresh'
    BY <1>0, <1>6, <2>1 DEF Removed, TypeOK, WaitingFresh
  <2>3. UNCHANGED <<current, start, focus>>
    BY <1>6 DEF Removed, calls
  <2> QED  BY <2>2, <2>3, SeenCarried
<1>7. ASSUME NEW f \in Focuses, NEW t \in Tabs, FocusActivated(f, t)  PROVE SeenInv'
  <2>1. WaitingFresh' /\ UNCHANGED <<current, start>>
    BY <1>0, <1>7 DEF FocusActivated, browser, tables, WaitingFresh
  <2>2. PICK s \in Ids : focus' = [focus EXCEPT ![f] = [pc |-> "group", tab |-> t, doc |-> None, session |-> s]]
    BY <1>7 DEF FocusActivated
  <2>3. /\ focus'[f].tab = t /\ focus'[f].doc = None /\ tab'[t] = "open"
        /\ \A g \in Focuses \ {f} : focus'[g] = focus[g]
    BY <1>0, <1>7, <2>2 DEF FocusActivated, TypeOK, browser
  <2>4. Seen(focus[f].tab, focus[f].doc)'
    BY <2>3 DEF Seen
  <2> QED  BY <2>1, <2>3, <2>4, SeenCarried
<1>8. ASSUME NEW f \in Focuses, FocusGrouped(f)  PROVE SeenInv'
  <2>1. WaitingFresh' /\ UNCHANGED <<current, start, tab, doc>>
    BY <1>0, <1>8 DEF FocusGrouped, browser, tables, WaitingFresh
  <2>2. \A g \in Focuses \ {f} : focus'[g] = focus[g]
    BY <1>0, <1>8 DEF FocusGrouped, TypeOK
  <2>3. focus'[f].pc = "none" \/ Seen(focus[f].tab, focus[f].doc)'
    <3>1. CASE focus' = [focus EXCEPT ![f] = NoCall]
      BY <1>0, <3>1 DEF TypeOK, NoCall
    <3>2. CASE focus' = [focus EXCEPT ![f].pc = "switch", ![f].doc = doc[focus[f].tab]]
      <4>1. focus'[f].tab = focus[f].tab /\ focus'[f].doc = doc[focus[f].tab]
        BY <1>0, <3>2 DEF TypeOK, Call
      <4>2. Seen(focus[f].tab, focus[f].doc)
        BY <1>0, <1>8 DEF FocusGrouped, FocusesSeen
      <4> QED  BY <4>1, <4>2, <2>1 DEF Seen
    <3> QED  BY <1>8, <3>1, <3>2 DEF FocusGrouped
  <2> QED  BY <2>1, <2>2, <2>3, SeenCarried
<1>9. ASSUME NEW f \in Focuses, FocusSwitches(f)  PROVE SeenInv'
  <2>1. PICK s, a :
        /\ s = focus[f].session /\ a = Attach(focus[f].tab, focus[f].doc)
        /\ WaitingFresh' /\ UNCHANGED <<tab, doc, start>>
        /\ focus' = [focus EXCEPT ![f] = NoCall] /\ SwitchToAttachment(s, a)
    BY <1>0, <1>9 DEF FocusSwitches, browser, WaitingFresh
  <2>2. /\ focus[f].tab \in Tabs /\ s \in Ids /\ focus[f].doc \in Docs \cup {None}
        /\ Seen(focus[f].tab, focus[f].doc)
    BY <1>0, <1>9, <2>1 DEF FocusSwitches, FocusesSeen, CallsSound, TypeOK, Call
  <2>3. a \in Attachment /\ a.tab = focus[f].tab /\ a.key = focus[f].doc /\ a.doc = focus[f].doc
    BY <2>1, <2>2, AttachType DEF Attach
  <2>4. Seen(a.tab, a.key)' /\ Seen(a.tab, a.doc)'
    BY <2>1, <2>2, <2>3 DEF Seen
  <2>5. \A u \in Ids : \/ current'[u] = current[u]
                       \/ Seen(current[u].tab, current[u].key)' /\ Seen(current[u].tab, current[u].doc)'
    BY <2>1, <2>2, <2>3, <2>4, SwitchSeen
  <2>6. \A g \in Focuses : focus'[g] = focus[g] \/ focus'[g].pc = "none"
    BY <1>0, <2>1 DEF TypeOK, NoCall
  <2> QED  BY <2>1, <2>5, <2>6, SeenCarried
<1>10. ASSUME NEW s \in Ids, NEW t \in Tabs, StartCalled(s, t)  PROVE SeenInv'
  <2>1. WaitingFresh' /\ UNCHANGED <<current, focus>>
    BY <1>0, <1>10 DEF StartCalled, browser, tables, WaitingFresh
  <2>2. /\ start'[s].tab = t /\ start'[s].doc = None /\ tab'[t] = "open"
        /\ \A u \in Ids \ {s} : start'[u] = start[u]
    BY <1>0, <1>10 DEF StartCalled, TypeOK, browser, NoCall
  <2>3. Seen(start[s].tab, start[s].doc)'
    BY <2>2 DEF Seen
  <2> QED  BY <2>1, <2>2, <2>3, SeenCarried
<1>11. ASSUME NEW s \in Ids, StartArmed(s)  PROVE SeenInv'
  <2>1. WaitingFresh' /\ UNCHANGED <<current, focus, tab, doc>>
    BY <1>0, <1>11 DEF StartArmed, browser, tables, WaitingFresh
  <2>2. \A u \in Ids \ {s} : start'[u] = start[u]
    BY <1>0, <1>11 DEF StartArmed, TypeOK
  <2>3. start'[s].pc \notin {"arm", "armed"} \/ Seen(start[s].tab, start[s].doc)'
    <3>1. CASE start' = [start EXCEPT ![s] = [NoCall EXCEPT !.pc = "over"]]
      BY <1>0, <3>1 DEF TypeOK, NoCall
    <3>2. CASE start' = [start EXCEPT ![s].pc = "armed", ![s].doc = doc[start[s].tab]]
      <4>1. start'[s].tab = start[s].tab /\ start'[s].doc = doc[start[s].tab]
        BY <1>0, <3>2 DEF TypeOK, Call
      <4>2. Seen(start[s].tab, start[s].doc)
        BY <1>0, <1>11 DEF StartArmed, StartsSeen
      <4> QED  BY <4>1, <4>2, <2>1 DEF Seen
    <3> QED  BY <1>11, <3>1, <3>2 DEF StartArmed
  <2> QED  BY <2>1, <2>2, <2>3, SeenCarried
<1>12. ASSUME NEW s \in Ids, Started(s)  PROVE SeenInv'
  <2>1. PICK a :
        /\ a = Attach(start[s].tab, start[s].doc)
        /\ WaitingFresh' /\ UNCHANGED <<tab, doc, focus>>
        /\ current' = [current EXCEPT ![s] = a]
        /\ start' = [start EXCEPT ![s] = [NoCall EXCEPT !.pc = "over"]]
    BY <1>0, <1>12 DEF Started, browser, WaitingFresh
  <2>2. Seen(start[s].tab, start[s].doc)
    BY <1>0, <1>12 DEF Started, StartsSeen
  <2>3. Seen(a.tab, a.key)' /\ Seen(a.tab, a.doc)'
    BY <2>1, <2>2 DEF Seen, Attach
  <2>4. current'[s] = a /\ \A u \in Ids \ {s} : current'[u] = current[u]
    BY <1>0, <2>1 DEF TypeOK
  <2>5. Seen(current[s].tab, current[s].key)' /\ Seen(current[s].tab, current[s].doc)'
    BY <2>3, <2>4 DEF Seen
  <2>6. \A u \in Ids : start'[u] = start[u] \/ start'[u].pc \notin {"arm", "armed"}
    BY <1>0, <2>1 DEF TypeOK, NoCall
  <2> QED  BY <2>1, <2>4, <2>5, <2>6, SeenCarried
<1>13. ASSUME NEW x \in Stops, (\E t \in Tabs : StopCalled(x, t)) \/ StopDisarmed(x)  PROVE SeenInv'
  <2>1. UNCHANGED <<current, start, focus, tab, doc, birth>>
    BY <1>13 DEF StopCalled, StopDisarmed, browser
  <2>2. \A u \in Tabs : pendingChildTabs'[u] \in {pendingChildTabs[u], None}
    BY <1>0, <1>13, WithoutSessionClears DEF StopCalled, StopDisarmed, tables, CallsSound
  <2>3. WaitingFresh'
    BY <1>0, <2>1, <2>2 DEF WaitingFresh
  <2> QED  BY <2>1, <2>3, SeenCarried
<1>14. ASSUME UNCHANGED vars \/ \E t \in Tabs, on \in BOOLEAN : SetPaused(t, on)  PROVE SeenInv'
  <2>1. UNCHANGED <<current, start, focus, tab, doc, birth, pendingChildTabs>>
    BY <1>14 DEF SetPaused, vars, browser, tables, calls
  <2>2. WaitingFresh'
    BY <1>0, <2>1 DEF WaitingFresh
  <2> QED  BY <2>1, <2>2, SeenCarried
<1> QED
  BY <1>1, <1>2, <1>3, <1>4, <1>5, <1>6, <1>7, <1>8, <1>9, <1>10, <1>11, <1>12, <1>13, <1>14 DEF Next

\* The document of an open tab changes when the browser commits one there, or when the
\* tab takes over from another.
LEMMA DocumentChanges ==
  ASSUME SessionInv, [Next]_vars, NEW t \in Tabs, doc'[t] # doc[t], tab'[t] = "open"
  PROVE  (\E d \in Docs : Committed(t, d)) \/ tab[t] = "unborn"
<1>0. UNCHANGED doc => FALSE
  OBVIOUS
<1>1. ASSUME NEW u \in Tabs, NEW v \in Tabs \cup {None}, TabOpens(u, v)  PROVE FALSE
  BY <1>0, <1>1 DEF TabOpens
<1>2. ASSUME NEW u \in Tabs, NEW d \in Docs, Committed(u, d)  PROVE u = t
  BY <1>2 DEF Committed, SessionInv, TypeOK
<1>3. ASSUME NEW u \in Tabs, NEW v \in Tabs, Replaced(u, v)  PROVE tab[t] = "unborn"
  BY <1>3 DEF Replaced, SessionInv, TypeOK
<1>4. ASSUME NEW u \in Tabs, Removed(u)  PROVE FALSE
  BY <1>4 DEF Removed, SessionInv, TypeOK
<1>5. ASSUME NEW u \in Tabs, Created(u)  PROVE FALSE
  BY <1>0, <1>5 DEF Created
<1>6. ASSUME NEW u \in Tabs, HistoryUpdated(u) \/ ContentEvent(u)  PROVE FALSE
  BY <1>0, <1>6 DEF HistoryUpdated, ContentEvent, browser
<1>7. ASSUME NEW f \in Focuses, (\E u \in Tabs : FocusActivated(f, u)) \/ FocusGrouped(f) \/ FocusSwitches(f)
      PROVE FALSE
  BY <1>0, <1>7 DEF FocusActivated, FocusGrouped, FocusSwitches, browser
<1>8. ASSUME NEW s \in Ids, (\E u \in Tabs : StartCalled(s, u)) \/ StartArmed(s) \/ Started(s)
      PROVE FALSE
  BY <1>0, <1>8 DEF StartCalled, StartArmed, Started, browser
<1>9. ASSUME NEW x \in Stops, (\E u \in Tabs : StopCalled(x, u)) \/ StopDisarmed(x)  PROVE FALSE
  BY <1>0, <1>9 DEF StopCalled, StopDisarmed, browser
<1>10. ASSUME NEW u \in Tabs, NEW on \in BOOLEAN, SetPaused(u, on)  PROVE FALSE
  BY <1>0, <1>10 DEF SetPaused, browser
<1>11. UNCHANGED vars => FALSE
  BY <1>0 DEF vars, browser
<1> QED
  BY <1>1, <1>2, <1>3, <1>4, <1>5, <1>6, <1>7, <1>8, <1>9, <1>10, <1>11 DEF Next

\* The first commit of a waiting child attaches its session there and nowhere else.
LEMMA CommitTakesChild ==
  ASSUME SessionInv, SeenInv, NEW t \in Tabs, NEW d \in Docs, Committed(t, d),
         pendingChildTabs[t] # None, ~paused[pendingChildTabs[t]]
  PROVE  /\ activeSessionByTab'[t] = pendingChildTabs[t] /\ current'[pendingChildTabs[t]].tab = t
         /\ \A u \in Tabs \ {t} : activeSessionByTab'[u] # pendingChildTabs[t]
<1> USE SessionAssumption
<1> DEFINE s == pendingChildTabs[t]
           a == Attach(t, d)
<1>1. /\ s \in Ids /\ Live(s) /\ s # None /\ current[s] \in Attachment
      /\ tab[t] = "open" /\ doc[t] = None
  BY DEF SessionInv, TypeOK, TablesAgree, SeenInv, WaitingFresh, Committed
<1>2. Takers(t, d) = {s}
  BY <1>1 DEF Takers
<1>3. SwitchToAttachment(s, a)
  BY <1>1, <1>2 DEF Committed
<1>4. <<current[s].tab, current[s].key>> # <<a.tab, a.key>>
  <2>1. current[s].tab = t => current[s].key = None
    BY <1>1 DEF SeenInv, AttachedSeen, Seen
  <2>2. a.tab = t /\ a.key = d
    BY DEF Attach
  <2> QED  BY <2>1, <2>2, <1>1
<1>5. a.tab = t
  BY DEF Attach
<1> HIDE DEF s, a
<1>6. /\ current' = [current EXCEPT ![s] = a]
      /\ activeSessionByTab' = [u \in Tabs |-> IF u = a.tab THEN s
                                               ELSE IF u = current[s].tab THEN None
                                               ELSE activeSessionByTab[u]]
  BY <1>3, <1>4 DEF SwitchToAttachment
<1>7. ASSUME NEW u \in Tabs, u # t, activeSessionByTab'[u] = s  PROVE FALSE
  <2>1. u # current[s].tab /\ activeSessionByTab[u] = s
    BY <1>5, <1>6, <1>7, <1>1
  <2>2. SessionOf(u) = s
    BY <2>1, <1>1 DEF SessionOf
  <2> QED  BY <2>1, <2>2, <1>1 DEF SessionInv, TablesAgree
<1>8. activeSessionByTab'[t] = s /\ current'[s].tab = t
  BY <1>1, <1>5, <1>6 DEF SessionInv, TypeOK
<1> QED  BY <1>7, <1>8 DEF s

\* The first commit of a tab that waits as a child attaches the session it waits for
\* there and nowhere else, though the tab's onCreated comes late, and a start or a focus
\* switch has recorded another session, or the same one, there.
THEOREM ChildrenFirst == Spec => ChildTabFirst
<1>1. SessionInv /\ SeenInv /\ [Next]_vars =>
        [\A t \in Tabs : LET s == pendingChildTabs[t] IN
           doc'[t] # doc[t] /\ tab'[t] = "open" /\ s # None /\ ~paused[s] =>
             /\ activeSessionByTab'[t] = s /\ current'[s].tab = t
             /\ \A u \in Tabs \ {t} : activeSessionByTab'[u] # s]_vars
  <2> SUFFICES ASSUME SessionInv, SeenInv, [Next]_vars, NEW t \in Tabs,
                      doc'[t] # doc[t], tab'[t] = "open",
                      pendingChildTabs[t] # None, ~paused[pendingChildTabs[t]]
               PROVE  /\ activeSessionByTab'[t] = pendingChildTabs[t]
                      /\ current'[pendingChildTabs[t]].tab = t
                      /\ \A u \in Tabs \ {t} : activeSessionByTab'[u] # pendingChildTabs[t]
    BY Zenon
  <2>1. tab[t] # "unborn"
    BY DEF SeenInv, WaitingFresh
  <2>2. PICK d \in Docs : Committed(t, d)
    BY <2>1, DocumentChanges
  <2> QED  BY <2>2, CommitTakesChild
<1>2. Init => SeenInv  BY SeenHolds
<1>3. SessionInv /\ SeenInv /\ [Next]_vars => SeenInv'  BY SeenStep
<1> QED  BY <1>1, <1>2, <1>3, SessionInvariant, PTL DEF ChildTabFirst, Spec

-----------------------------------------------------------------------------
(* The named tab groups, which the same service worker keeps for the same  *)
(* tabs: module TabGroups                                                  *)

\* What is known of each part of the state: a tab in a group is open, and a call that is
\* on its way has the label it is for.
BrowserType ==
  /\ window \in [Tabs -> Windows \cup {None}] /\ groupOf \in [Tabs -> Groups \cup {None}]
  /\ title \in [Groups -> Labels \cup {None}]
  /\ spent \subseteq Tabs \cup Groups /\ held \subseteq Open /\ dirty \subseteq Open
  /\ removed \subseteq Groups
  /\ \A u \in Tabs : groupOf[u] # None => window[u] # None
Registry   == [Labels -> Groups \cup {None}]
MemoryType ==
  namedGroups \in Registry /\ stored \in Registry /\ read \in Registry /\ hydrated \in BOOLEAN
CallRecord   == [pc : Places, label : Labels \cup {None}, group : Groups \cup {None}]
CallOk(c) ==
  /\ op[c].pc \in {"get", "found", "title", "titled", "join"} => op[c].group # None
  /\ c \in Tabs \cup Lookups /\ op[c].pc \notin {"none", "done"} => op[c].label \in Labels
OpType == op \in [Callers -> CallRecord] /\ \A c \in Callers : CallOk(c)
SweepType ==
  /\ sweep.pc \in {"none", "list", "count", "next", "inspect", "remove"} /\ sweep.closing \subseteq Tabs
  /\ sweep.focused \in Windows \cup {None}
  /\ sweep = [pc |-> sweep.pc, todo |-> sweep.todo, focused |-> sweep.focused,
              counts |-> sweep.counts, label |-> sweep.label, closing |-> sweep.closing]
GroupsType ==
  /\ BrowserType /\ MemoryType /\ OpType /\ SweepType
  /\ chain \in [Labels -> Seq(Tabs)]
  /\ idle \subseteq Labels /\ restarts \in 0 .. MaxRestarts

\* Closing tabs, as far as types go.
LEMMA CloseTabsType ==
  ASSUME BrowserType, NEW S \in SUBSET Tabs, CloseTabs(S)
  PROVE  BrowserType'
BY DEF BrowserType, CloseTabs, Open

\* Putting an open tab into a group: the window it moves to is that of an open tab.
LEMMA PutIntoType ==
  ASSUME BrowserType, NEW u \in Open, NEW g \in Groups, PutInto(u, g),
         spent' \in SUBSET (Tabs \cup Groups)
  PROVE  BrowserType'
<1>1. u \in Tabs /\ window[u] # None /\ g # None
  BY GroupsAssumption DEF Open
<1> DEFINE w == IF Exists(g) THEN window[CHOOSE x \in Tabs : groupOf[x] = g] ELSE window[u]
<1>2. w \in Windows \cup {None} /\ w # None
  <2>1. CASE Exists(g)
    <3>1. PICK x \in Tabs : groupOf[x] = g
      BY <2>1 DEF Exists
    <3> DEFINE y == CHOOSE x_1 \in Tabs : groupOf[x_1] = g
    <3>2. y \in Tabs /\ groupOf[y] = g
      BY <3>1
    <3>3. window[y] # None /\ window[y] \in Windows \cup {None}
      BY <1>1, <3>2 DEF BrowserType
    <3> QED  BY <2>1, <3>3
  <2>2. CASE ~Exists(g)
    BY <1>1, <2>2 DEF BrowserType
  <2> QED  BY <2>1, <2>2
<1>3. window' = [window EXCEPT ![u] = w] /\ groupOf' = [groupOf EXCEPT ![u] = g]
  BY DEF PutInto
<1>4. title' = title /\ held' = held /\ dirty' = dirty /\ removed' = removed
  BY DEF PutInto
<1> HIDE DEF w
<1>5. /\ window' \in [Tabs -> Windows \cup {None}] /\ groupOf' \in [Tabs -> Groups \cup {None}]
      /\ \A x \in Tabs : window'[x] = IF x = u THEN w ELSE window[x]
      /\ \A x \in Tabs : groupOf'[x] = IF x = u THEN g ELSE groupOf[x]
  BY <1>1, <1>2, <1>3 DEF BrowserType
<1> QED  BY <1>1, <1>2, <1>4, <1>5 DEF BrowserType, Open

\* The browser's side keeps its type, and its tabs in groups stay open.
LEMMA BrowserKept ==
  ASSUME GroupsType, [GroupsNext]_groupsVars
  PROVE  BrowserType'
<1> USE DEF GroupsType
<1>1. ASSUME NEW u \in Tabs, NEW w \in Windows, OpenTab(u, w) PROVE BrowserType'
  BY <1>1, GroupsAssumption DEF OpenTab, BrowserType, Open
<1>2. ASSUME NEW u \in Tabs, UserHolds(u) PROVE BrowserType'
  BY <1>2 DEF UserHolds, BrowserType, Open
<1>3. ASSUME NEW u \in Tabs, Create(u) PROVE BrowserType'
  <2>1. ASSUME NEW g \in Groups, PutInto(u, g), u \in Open, spent' = spent \cup {g}
        PROVE  BrowserType'
    BY <2>1, PutIntoType DEF BrowserType
  <2>2. CASE UNCHANGED tabState
    BY <2>2 DEF tabState, BrowserType, Open
  <2> QED  BY <1>3, <2>1, <2>2 DEF Create
<1>4. ASSUME NEW u \in Tabs, Join(u) PROVE BrowserType'
  <2>1. op[u] \in CallRecord /\ op[u].group # None
    BY <1>4 DEF Join, OpType, CallOk, Is, Callers
  <2>2. op[u].group \in Groups
    BY <2>1 DEF CallRecord
  <2>3. CASE PutInto(u, op[u].group) /\ u \in Open /\ spent' = spent
    BY <2>2, <2>3, PutIntoType DEF BrowserType
  <2>4. CASE UNCHANGED tabState
    BY <2>4 DEF tabState, BrowserType, Open
  <2> QED  BY <1>4, <2>3, <2>4 DEF Join
<1>5. ASSUME NEW u \in Tabs, SetTitle(u) PROVE BrowserType'
  <2>1. op[u] \in CallRecord
    BY DEF OpType, Callers
  <2>2. op[u].label \in Labels \cup {None}
    BY <2>1 DEF CallRecord
  <2>3. CASE UNCHANGED tabState
    BY <2>3 DEF tabState, BrowserType, Open
  <2>4. CASE title' = [title EXCEPT ![op[u].group] = op[u].label]
             /\ UNCHANGED <<window, groupOf, spent, held, dirty, removed>>
    BY <2>2, <2>4 DEF BrowserType, Open
  <2> QED  BY <1>5, <2>3, <2>4 DEF SetTitle
<1>6. ASSUME NEW g \in Groups, GroupRemoved(g) PROVE BrowserType'
  BY <1>6 DEF GroupRemoved, BrowserType, Open
<1>7. ASSUME NEW S \in SUBSET Tabs, CloseTabs(S) PROVE BrowserType'
  BY <1>7, CloseTabsType
<1>8. CASE SweepRemoves
  <2>1. sweep.closing \subseteq Tabs
    BY DEF SweepType
  <2> QED  BY <1>7, <1>8, <2>1 DEF SweepRemoves
<1>9. CASE UNCHANGED tabState
  BY <1>9 DEF tabState, BrowserType, Open
<1>10. \/ \E u \in Tabs, w \in Windows : OpenTab(u, w)
       \/ \E u \in Tabs : \/ CloseTabs({u}) \/ UserHolds(u)
                          \/ Create(u) \/ Join(u) \/ SetTitle(u)
       \/ \E g \in Groups : GroupRemoved(g)
       \/ SweepRemoves
       \/ UNCHANGED tabState
  BY DEF GroupsNext, groupsVars, UserOpens, TabCreate, UserCloses, AddGoesOn, AddStarts,
         Hydrate, Get, Gone, Query, Found, Register, LookupCalled, LookupStarts,
         PurgeHydrated, TimePasses, SweepStarts, SweepHydrated, SweepLists, SweepCounts, SweepGroup,
         SweepInspects, SweepEnds, Restart
<1> QED  BY <1>1, <1>2, <1>3, <1>4, <1>5, <1>6, <1>7, <1>8, <1>9, <1>10

\* Hydration merges what was stored into the registry.
LEMMA HydratedType ==
  ASSUME MemoryType
  PROVE  Hydrated \in Registry
BY DEF MemoryType, Registry, Hydrated

\* Purging a group leaves a registry.
LEMMA PurgeType ==
  ASSUME MemoryType, NEW reg \in Registry, NEW g \in Groups, Purge(reg, g)
  PROVE  namedGroups' \in Registry /\ stored' \in Registry
BY DEF MemoryType, Registry, Purge, Purged, Save

\* The registry, what is stored of it and what a hydration has read keep their types.
LEMMA MemoryKept ==
  ASSUME GroupsType, [GroupsNext]_groupsVars
  PROVE  MemoryType'
<1> USE DEF GroupsType
<1>1. ASSUME NEW c, StartHydration(c) PROVE MemoryType'
  BY <1>1 DEF StartHydration, MemoryType
<1>2. ASSUME namedGroups' = Hydrated, UNCHANGED <<hydrated, stored, read>> PROVE MemoryType'
  BY <1>2, HydratedType DEF MemoryType
<1>3. ASSUME NEW c \in Tabs \cup Lookups, NEW g \in Groups \cup {None},
             Save([namedGroups EXCEPT ![op[c].label] = g]), UNCHANGED <<hydrated, read>>
      PROVE  MemoryType'
  BY <1>3 DEF Save, MemoryType, Registry
<1>4. ASSUME NEW c \in Tabs \cup Lookups PROVE op[c].group \in Groups \cup {None}
  <2>1. op[c] \in CallRecord
    BY DEF OpType, Callers
  <2> QED  BY <2>1 DEF CallRecord
<1>5. ASSUME NEW c \in Tabs \cup Lookups, Gone(c) \/ Found(c) PROVE MemoryType'
  BY <1>3, <1>4, <1>5 DEF Gone, Found
<1>6. ASSUME NEW c \in Tabs, Register(c) PROVE MemoryType'
  BY <1>3, <1>4, <1>6 DEF Register
<1>7. ASSUME NEW g \in Groups, NEW reg \in Registry, Purge(reg, g), UNCHANGED <<hydrated, read>>
      PROVE  MemoryType'
  BY <1>7, PurgeType DEF MemoryType
<1>8. ASSUME NEW g \in Groups, GroupRemoved(g) \/ PurgeHydrated(g) PROVE MemoryType'
  BY <1>1, <1>7, <1>8, HydratedType DEF GroupRemoved, PurgeHydrated, MemoryType
<1>9. CASE Restart
  BY <1>9 DEF Restart, MemoryType, Registry
<1>10. CASE UNCHANGED memory
  BY <1>10 DEF memory, MemoryType
<1>11. \/ \E c \in Tabs \cup Lookups : Gone(c) \/ Found(c)
       \/ \E c \in Callers : StartHydration(c)
       \/ namedGroups' = Hydrated /\ UNCHANGED <<hydrated, stored, read>>
       \/ \E c \in Tabs : Register(c)
       \/ \E g \in Groups : GroupRemoved(g) \/ PurgeHydrated(g)
       \/ Restart
       \/ UNCHANGED memory
  <2>1. ASSUME NEW c \in Tabs \cup Lookups, AddStarts(c) \/ LookupStarts(c)
        PROVE  StartHydration(c) \/ UNCHANGED memory
    BY <2>1 DEF AddStarts, LookupStarts, EnsureNamedGroup
  <2>2. CASE SweepStarts
    BY <2>2 DEF SweepStarts, Callers
  <2> QED
    BY <2>1, <2>2
       DEF GroupsNext, groupsVars, Callers, AddGoesOn, Hydrate, SweepHydrated, UserOpens,
           TabCreate, UserCloses, UserHolds, Get, Query, LookupCalled, Create,
           SetTitle, Join, TimePasses, SweepLists, SweepCounts, SweepGroup, SweepInspects, SweepRemoves,
           SweepEnds
<1> QED  BY <1>1, <1>2, <1>5, <1>6, <1>8, <1>9, <1>10, <1>11

-----------------------------------------------------------------------------
\* A call that goes on: to where, with which group, and nobody else moves.
LEMMA AtMoves ==
  ASSUME OpType, NEW c \in Callers, NEW where \in Places, NEW g \in Groups \cup {None},
         At(c, where, g)
  PROVE  /\ op'[c] = [pc |-> where, label |-> op[c].label, group |-> g]
         /\ \A x \in Callers : x # c => op'[x] = op[x]
         /\ op' \in [Callers -> CallRecord]
BY DEF OpType, CallRecord, At

\* So its type is kept, when the group goes with the place.
LEMMA AtType ==
  ASSUME OpType, NEW c \in Callers, NEW where \in Places, NEW g \in Groups \cup {None},
         At(c, where, g),
         where \in {"get", "found", "title", "titled", "join"} => g # None,
         c \in Tabs \cup Lookups /\ where # "done" => op[c].label \in Labels
  PROVE  OpType'
<1>1. /\ op'[c].pc = where /\ op'[c].group = g /\ op'[c].label = op[c].label
      /\ \A x \in Callers : x # c => op'[x] = op[x]
      /\ op' \in [Callers -> CallRecord]
  <2>1. /\ op'[c] = [pc |-> where, label |-> op[c].label, group |-> g]
        /\ \A x \in Callers : x # c => op'[x] = op[x]
        /\ op' \in [Callers -> CallRecord]
    BY AtMoves
  <2> QED  BY <2>1
<1>2. CallOk(c)'
  BY <1>1 DEF CallOk
<1>3. ASSUME NEW x \in Callers, x # c PROVE CallOk(x)'
  BY <1>1, <1>3 DEF CallOk, OpType
<1> QED  BY <1>1, <1>2, <1>3 DEF OpType

\* Looking a label up leads to a group that is known, or to a search.
LEMMA LookUpMoves ==
  ASSUME OpType, NEW c \in Tabs \cup Lookups, NEW reg \in Registry, op[c].label \in Labels,
         LookUp(c, reg)
  PROVE  \E where \in {"get", "query"}, g \in Groups \cup {None} :
           At(c, where, g) /\ (where = "get" => g # None)
BY DEF LookUp, Registry

\* Where a step takes a call that is on its way: everything the calls of the worker do
\* to op, by the place they are at.
GoesTo(c, places) ==
  \E where \in places, g \in Groups \cup {None} :
    /\ At(c, where, g)
    /\ where \in {"get", "found", "title", "titled", "join"} => g # None

\* Where each step takes the call that takes it.
LEMMA CallMoves ==
  ASSUME GroupsType, NEW c \in Tabs \cup Lookups
  PROVE  /\ AddStarts(c) \/ LookupStarts(c) =>
              op[c].label \in Labels /\ GoesTo(c, {"hydrating", "get", "query"})
         /\ Hydrate(c) => op[c].label \in Labels /\ GoesTo(c, {"get", "query"})
         /\ Get(c) => op[c].label \in Labels /\ GoesTo(c, {"join", "done", "gone"})
         /\ Gone(c) => op[c].label \in Labels /\ GoesTo(c, {"query"})
         /\ Query(c) => op[c].label \in Labels /\ GoesTo(c, {"found", "create", "done"})
         /\ Found(c) => op[c].label \in Labels /\ GoesTo(c, {"join", "done"})
         /\ Create(c) => op[c].label \in Labels /\ GoesTo(c, {"title", "done"})
         /\ SetTitle(c) => op[c].label \in Labels /\ GoesTo(c, {"titled", "done"})
         /\ Register(c) => op[c].label \in Labels /\ GoesTo(c, {"done"})
         /\ Join(c) => op[c].label \in Labels /\ GoesTo(c, {"done"})
<1> USE DEF GroupsType
<1>1. c \in Callers /\ op[c] \in CallRecord /\ op[c].group \in Groups \cup {None} /\ CallOk(c)
  BY DEF OpType, CallRecord, Callers
<1>2. None \notin Groups
  BY GroupsAssumption
<1> USE <1>1, <1>2
<1>3. op[c].pc \notin {"none", "done"} => op[c].label \in Labels
  BY DEF CallOk
<1>4. AddStarts(c) \/ LookupStarts(c) => GoesTo(c, {"hydrating", "get", "query"})
  <2>1. ASSUME EnsureNamedGroup(c), op[c].label \in Labels
        PROVE  GoesTo(c, {"hydrating", "get", "query"})
    BY <2>1, LookUpMoves DEF EnsureNamedGroup, StartHydration, MemoryType, GoesTo
  <2> QED  BY <1>3, <2>1 DEF AddStarts, LookupStarts, Is
<1>5. Hydrate(c) => GoesTo(c, {"get", "query"})
  BY <1>3, HydratedType, LookUpMoves DEF Hydrate, Is, GoesTo
<1>6. Get(c) => GoesTo(c, {"join", "done", "gone"})
  BY DEF Get, Is, Resolve, CallOk, GoesTo
<1>7. Gone(c) => GoesTo(c, {"query"})
  BY DEF Gone, GoesTo
<1>8. Query(c) => GoesTo(c, {"found", "create", "done"})
  BY DEF Query, Titled, GoesTo
<1>9. Found(c) => GoesTo(c, {"join", "done"})
  BY DEF Found, Is, Resolve, CallOk, GoesTo
<1>10. Create(c) => GoesTo(c, {"title", "done"})
  BY DEF Create, Finish, GoesTo
<1>11. SetTitle(c) => GoesTo(c, {"titled", "done"})
  BY DEF SetTitle, Is, Finish, CallOk, GoesTo
<1>12. Register(c) \/ Join(c) => GoesTo(c, {"done"})
  BY DEF Register, Join, Is, Finish, CallOk, GoesTo
<1>13. \/ AddStarts(c) \/ LookupStarts(c) \/ Hydrate(c) \/ Get(c) \/ Gone(c)
       \/ Query(c) \/ Found(c) \/ Create(c) \/ SetTitle(c) \/ Register(c) \/ Join(c)
       => op[c].pc \notin {"none", "done"}
  BY DEF AddStarts, LookupStarts, Hydrate, Get, Gone, Query, Found, Create,
         SetTitle, Register, Join, Is
<1> QED  BY <1>3, <1>4, <1>5, <1>6, <1>7, <1>8, <1>9, <1>10, <1>11, <1>12, <1>13

\* A call that goes on keeps the calls typed.
LEMMA GoesToType ==
  ASSUME OpType, NEW c \in Tabs \cup Lookups, op[c].label \in Labels,
         NEW places \in SUBSET Places, GoesTo(c, places)
  PROVE  OpType'
<1>1. c \in Callers
  BY DEF Callers
<1> QED  BY <1>1, AtType DEF GoesTo

\* A step of some call, of an add or a lookup.
Goes(c) ==
  \/ AddStarts(c) \/ LookupStarts(c) \/ Hydrate(c) \/ Get(c) \/ Gone(c) \/ Query(c)
  \/ Found(c) \/ Create(c) \/ SetTitle(c) \/ Register(c) \/ Join(c)

\* What can change where the calls are.
LEMMA OpSteps ==
  ASSUME [GroupsNext]_groupsVars
  PROVE  \/ \E c \in Tabs \cup Lookups : Goes(c)
         \/ \E c \in Lookups : LookupCalled(c)
         \/ \E u \in Tabs, l \in Labels, w \in Windows : TabCreate(u, l, w)
         \/ (\E c \in Groups \cup {Sweep} : StartHydration(c) \/ At(c, "done", None))
              /\ UNCHANGED chain
         \/ Restart
         \/ UNCHANGED <<op, chain>>
BY DEF GroupsNext, groupsVars, AddGoesOn, Goes, UserOpens, UserCloses, UserHolds,
       GroupRemoved, PurgeHydrated, TimePasses, SweepStarts, SweepHydrated, SweepLists, SweepCounts,
       SweepGroup, SweepInspects, SweepRemoves, SweepEnds

\* The calls keep their types, their labels and the groups they are about.
LEMMA OpKept ==
  ASSUME GroupsType, [GroupsNext]_groupsVars
  PROVE  OpType'
<1> USE DEF GroupsType
<1>1. ASSUME NEW c \in Tabs \cup Lookups, Goes(c) PROVE OpType'
  <2>1. \E places \in SUBSET Places : op[c].label \in Labels /\ GoesTo(c, places)
    <3> DEFINE All == {"hydrating", "get", "gone", "query", "found", "create", "title", "titled",
                       "join", "done"}
    <3>1. All \in SUBSET Places
      BY DEF Places
    <3>2. op[c].label \in Labels /\ GoesTo(c, All)
      BY <1>1, CallMoves DEF Goes, GoesTo
    <3> QED  BY <3>1, <3>2
  <2> QED  BY <2>1, GoesToType
<1>2. ASSUME NEW c \in Callers, NEW where \in {"called", "queued"}, NEW l \in Labels,
             op' = [op EXCEPT ![c] = [pc |-> where, label |-> l, group |-> None]]
      PROVE  OpType'
  <2>1. /\ op'[c] = [pc |-> where, label |-> l, group |-> None]
        /\ \A x \in Callers : x # c => op'[x] = op[x]
        /\ op' \in [Callers -> CallRecord]
    BY <1>2 DEF OpType, CallRecord, Places
  <2>2. op'[c].pc = where /\ op'[c].label = l
    BY <2>1
  <2>3. CallOk(c)'
    BY <2>2 DEF CallOk
  <2>4. ASSUME NEW x \in Callers, x # c PROVE CallOk(x)'
    BY <2>1, <2>4 DEF CallOk, OpType
  <2> QED  BY <2>1, <2>3, <2>4 DEF OpType
<1>3. ASSUME NEW c \in Groups \cup {Sweep}, StartHydration(c) \/ At(c, "done", None)
      PROVE  OpType'
  <2>1. c \in Callers /\ c \notin Tabs \cup Lookups
    BY GroupsAssumption DEF Callers
  <2>2. op[c].group \in Groups \cup {None}
    <3>1. op[c] \in CallRecord
      BY <2>1 DEF OpType
    <3> QED  BY <3>1 DEF CallRecord
  <2>3. At(c, "hydrating", op[c].group) \/ At(c, "done", None)
    BY <1>3 DEF StartHydration
  <2>4. {"hydrating", "done"} \subseteq Places
    BY DEF Places
  <2> QED  BY <2>1, <2>2, <2>3, <2>4, AtType
<1>4. CASE Restart
  <2>1. ASSUME NEW c \in Callers
        PROVE  op'[c] \in CallRecord /\ op'[c].pc \in {"none", "done"}
    <3>1. op[c] \in CallRecord
      BY DEF OpType
    <3>2. op'[c] = [op[c] EXCEPT !.pc = "done", !.group = None] \/ op'[c] = Asleep
      BY <1>4 DEF Restart
    <3>3. {"none", "done"} \subseteq Places
      BY DEF Places
    <3>4. CASE op'[c] = [op[c] EXCEPT !.pc = "done", !.group = None]
      BY <3>1, <3>3, <3>4 DEF CallRecord
    <3>5. CASE op'[c] = Asleep
      BY <3>3, <3>5 DEF CallRecord, Asleep
    <3> QED  BY <3>2, <3>4, <3>5
  <2>2. op' \in [Callers -> CallRecord]
    BY <1>4, <2>1 DEF Restart
  <2>3. \A c \in Callers : CallOk(c)'
    BY <2>1 DEF CallOk
  <2> QED  BY <2>2, <2>3 DEF OpType
<1>5. CASE UNCHANGED op
  BY <1>5 DEF OpType, CallOk
<1>6. Tabs \subseteq Callers /\ Lookups \subseteq Callers
  BY DEF Callers
<1> QED  BY <1>1, <1>2, <1>3, <1>4, <1>5, <1>6, OpSteps DEF LookupCalled, TabCreate

\* The sweep keeps the tabs it means to close and its shape.
LEMMA SweepKept ==
  ASSUME GroupsType, [GroupsNext]_groupsVars
  PROVE  SweepType'
<1> USE DEF GroupsType, SweepType
<1>1. CASE UNCHANGED sweep
  BY <1>1
<1>2. CASE sweep' = NoSweep
  BY <1>2 DEF NoSweep
<1>3. CASE sweep' = [NoSweep EXCEPT !.pc = "list"]
  BY <1>3 DEF NoSweep
<1>4. CASE SweepLists \/ SweepCounts
  <2>1. \/ sweep' = NoSweep
        \/ \E groups, w : /\ w \in Windows \cup {None}
                          /\ sweep' = [sweep EXCEPT !.pc = "count", !.todo = groups, !.focused = w]
        \/ \E f : sweep' = [sweep EXCEPT !.pc = "next", !.counts = f]
    BY <1>4, Zenon DEF SweepLists, SweepCounts
  <2> QED  BY <1>2, <2>1
<1>5. CASE SweepGroup
  BY <1>5 DEF SweepGroup, Candidates
<1>6. CASE SweepInspects \/ SweepRemoves
  BY <1>6 DEF SweepInspects, SweepRemoves
<1>7. \/ UNCHANGED sweep \/ sweep' = NoSweep
      \/ sweep' = [NoSweep EXCEPT !.pc = "list"] \/ SweepLists \/ SweepCounts
      \/ SweepGroup \/ SweepInspects \/ SweepRemoves
  BY DEF GroupsNext, groupsVars, AddGoesOn, UserOpens, UserCloses, UserHolds, TabCreate,
         AddStarts, Hydrate, Get, Gone, Query, Found, Create, SetTitle,
         Register, Join, LookupCalled, LookupStarts, GroupRemoved, PurgeHydrated,
         TimePasses, SweepStarts, SweepHydrated, SweepEnds, Restart
<1> QED  BY <1>1, <1>2, <1>3, <1>4, <1>5, <1>6, <1>7

-----------------------------------------------------------------------------
\* The adds of a label take turns: one that waits is in its label's chain, one that runs
\* is the first of it.
Running == {"hydrating", "get", "gone", "query", "found", "create", "title", "titled", "join"}
TurnOf(u) ==
  /\ Is(u, "queued") => \E i \in DOMAIN chain[op[u].label] : chain[op[u].label][i] = u
  /\ op[u].pc \in Running => chain[op[u].label] # <<>> /\ Head(chain[op[u].label]) = u
Turns == \A u \in Tabs : TurnOf(u)

ChainType == chain \in [Labels -> Seq(Tabs)]

\* A step of an add begins it, takes it further, or ends it and lets the next begin.
AddBegins(u) == Is(u, "queued") /\ Head(chain[op[u].label]) = u
                /\ GoesTo(u, {"hydrating", "get", "query"}) /\ UNCHANGED chain
AddMoves(u)  == op[u].pc \in Running /\ GoesTo(u, Running) /\ UNCHANGED chain
AddEnds(u)   == op[u].pc \in Running /\ GoesTo(u, {"done"})
                /\ chain' = [chain EXCEPT ![op[u].label] = Tail(chain[op[u].label])]

\* Every step of an add is one of the three.
LEMMA AddSteps ==
  ASSUME GroupsType, NEW u \in Tabs, AddGoesOn(u)
  PROVE  op[u].label \in Labels /\ (AddBegins(u) \/ AddMoves(u) \/ AddEnds(u))
<1>1. op[u].label \in Labels
  BY CallMoves DEF AddGoesOn
<1>2. CASE AddStarts(u)
  BY <1>2, CallMoves DEF AddStarts, AddBegins
<1>3. CASE Hydrate(u) \/ Gone(u)
  BY <1>3, CallMoves DEF Hydrate, Gone, Is, AddMoves, Running, GoesTo
<1>4. CASE Get(u) \/ Query(u) \/ Found(u)
  <2>1. op[u].pc \in Running /\ UNCHANGED chain
    BY <1>4 DEF Get, Query, Found, Is, Running
  <2>2. op[u].group \in Groups \cup {None} /\ CallOk(u) /\ None \notin Groups
    <3>1. u \in Callers /\ op[u] \in CallRecord /\ CallOk(u)
      BY DEF GroupsType, OpType, Callers
    <3> QED  BY <3>1, GroupsAssumption DEF CallRecord
  <2>3. Get(u) => GoesTo(u, Running)
    BY <2>2 DEF Get, Resolve, Is, CallOk, GoesTo, Running
  <2>4. Query(u) => GoesTo(u, Running)
    BY <2>2 DEF Query, Titled, GoesTo, Running
  <2>5. Found(u) => GoesTo(u, Running)
    BY <2>2 DEF Found, Resolve, Is, CallOk, GoesTo, Running
  <2> QED  BY <1>1, <1>4, <2>1, <2>3, <2>4, <2>5 DEF AddMoves
<1>5. CASE Create(u)
  <2>1. op[u].pc \in Running
    BY <1>5 DEF Create, Is, Running
  <2>2. CASE UNCHANGED chain /\ \E g \in Groups \ spent : At(u, "title", g)
    BY <1>1, <2>1, <2>2, GroupsAssumption DEF AddMoves, GoesTo, Running
  <2>3. CASE Finish(u)
    BY <1>1, <2>1, <2>3 DEF AddEnds, GoesTo, Finish, FirstGone
  <2> QED  BY <1>5, <2>2, <2>3 DEF Create
<1>6. CASE SetTitle(u)
  <2>1. op[u].pc \in Running /\ Is(u, "title")
    BY <1>6 DEF SetTitle, Is, Running
  <2>2. op[u].group \in Groups /\ op[u].group # None
    <3>1. u \in Callers /\ op[u] \in CallRecord /\ CallOk(u)
      BY DEF GroupsType, OpType, Callers
    <3> QED  BY <2>1, <3>1 DEF CallRecord, CallOk, Is
  <2>3. CASE UNCHANGED chain /\ At(u, "titled", op[u].group)
    BY <1>1, <2>1, <2>2, <2>3 DEF AddMoves, GoesTo, Running
  <2>4. CASE Finish(u)
    BY <1>1, <2>1, <2>4 DEF AddEnds, GoesTo, Finish, FirstGone
  <2> QED  BY <1>6, <2>3, <2>4 DEF SetTitle
<1>7. CASE Register(u) \/ Join(u)
  <2>1. op[u].pc \in Running
    BY <1>7 DEF Register, Join, Is, Running
  <2>2. chain' = [chain EXCEPT ![op[u].label] = Tail(chain[op[u].label])]
    BY <1>7 DEF Register, Join, Finish, FirstGone
  <2>3. GoesTo(u, {"done"})
    BY <1>7, CallMoves
  <2> QED  BY <1>1, <2>1, <2>2, <2>3 DEF AddEnds
<1> QED  BY <1>2, <1>3, <1>4, <1>5, <1>6, <1>7, <1>1 DEF AddGoesOn

\* What a step of an add does to its call.
LEMMA GoesToOp ==
  ASSUME OpType, NEW u \in Tabs, NEW places \in SUBSET Places, GoesTo(u, places)
  PROVE  /\ op'[u].pc \in places /\ op'[u].label = op[u].label
         /\ \A x \in Callers : x # u => op'[x] = op[x]
<1>1. u \in Callers
  BY DEF Callers
<1>2. PICK where \in places, g \in Groups \cup {None} : At(u, where, g)
  BY DEF GoesTo
<1>3. /\ op'[u] = [pc |-> where, label |-> op[u].label, group |-> g]
      /\ \A x \in Callers : x # u => op'[x] = op[x]
  BY <1>1, <1>2, AtMoves
<1> QED  BY <1>3

\* The add at the head of a chain that ends makes room for the next.
LEMMA TailKeeps ==
  ASSUME NEW q \in Seq(Tabs), q # <<>>, NEW x \in Tabs, x # Head(q),
         NEW i \in DOMAIN q, q[i] = x
  PROVE  \E j \in DOMAIN Tail(q) : Tail(q)[j] = x
<1>1. i # 1 /\ i \in 1 .. Len(q)
  OBVIOUS
<1>2. i - 1 \in DOMAIN Tail(q) /\ Tail(q)[i - 1] = q[i]
  BY <1>1
<1> QED  BY <1>2

\* An add that joins a chain is in it, and those that were there stay, the first one first.
LEMMA AppendKeeps ==
  ASSUME NEW q \in Seq(Tabs), NEW x \in Tabs, NEW y \in Tabs
  PROVE  /\ Append(q, x) \in Seq(Tabs)
         /\ \E j \in DOMAIN Append(q, x) : Append(q, x)[j] = x
         /\ (\E i \in DOMAIN q : q[i] = y) => \E j \in DOMAIN Append(q, x) : Append(q, x)[j] = y
         /\ q # <<>> => Append(q, x) # <<>> /\ Head(Append(q, x)) = Head(q)
<1>1. Append(q, x) \in Seq(Tabs) /\ Len(Append(q, x)) = Len(q) + 1
      /\ Append(q, x)[Len(q) + 1] = x /\ \A i \in 1 .. Len(q) : Append(q, x)[i] = q[i]
  OBVIOUS
<1>2. Len(q) + 1 \in DOMAIN Append(q, x) /\ \A i \in DOMAIN q : i \in DOMAIN Append(q, x)
  BY <1>1
<1>3. q # <<>> => Append(q, x) # <<>> /\ Head(Append(q, x)) = Head(q)
  BY <1>1
<1> QED  BY <1>1, <1>2, <1>3

\* The turns are kept: the chain of a label is the adds that wait behind the one that runs.
LEMMA TurnsKept ==
  ASSUME GroupsType, Turns, [GroupsNext]_groupsVars
  PROVE  Turns' /\ ChainType'
<1> USE DEF ChainType
<1>0. /\ ChainType /\ OpType /\ Tabs \subseteq Callers
      /\ \A u \in Tabs : op[u].pc \in Places \ {"none", "done"} => op[u].label \in Labels
  BY DEF GroupsType, OpType, CallOk, Callers
<1>1. ASSUME NEW u \in Tabs, op[u].label \in Labels, AddBegins(u) PROVE Turns' /\ ChainType'
  <2>1. {"hydrating", "get", "query"} \in SUBSET Places
    BY DEF Places
  <2>2. /\ op'[u].pc \in {"hydrating", "get", "query"} /\ op'[u].label = op[u].label
        /\ \A x \in Tabs : x # u => op'[x] = op[x]
        /\ chain' = chain
    BY <1>0, <1>1, <2>1, GoesToOp DEF AddBegins
  <2>3. chain[op[u].label] # <<>> /\ Head(chain[op[u].label]) = u
    BY <1>0, <1>1 DEF AddBegins, Turns, TurnOf
  <2>4. TurnOf(u)'
    BY <2>2, <2>3 DEF TurnOf, Is
  <2>5. \A x \in Tabs : x # u => TurnOf(x)'
    BY <2>2 DEF Turns, TurnOf, Is
  <2> QED  BY <1>0, <2>2, <2>4, <2>5 DEF Turns
<1>2. ASSUME NEW u \in Tabs, op[u].label \in Labels, AddMoves(u) PROVE Turns' /\ ChainType'
  <2>1. Running \in SUBSET Places
    BY DEF Places, Running
  <2>2. /\ op'[u].pc \in Running /\ op'[u].label = op[u].label
        /\ \A x \in Tabs : x # u => op'[x] = op[x]
        /\ chain' = chain
    BY <1>0, <1>2, <2>1, GoesToOp DEF AddMoves
  <2>3. TurnOf(u)'
    BY <1>2, <2>2 DEF AddMoves, Turns, TurnOf, Is, Running
  <2>4. \A x \in Tabs : x # u => TurnOf(x)'
    BY <2>2 DEF Turns, TurnOf, Is
  <2> QED  BY <1>0, <2>2, <2>3, <2>4 DEF Turns
<1>3. ASSUME NEW u \in Tabs, op[u].label \in Labels, AddEnds(u) PROVE Turns' /\ ChainType'
  <2> DEFINE l == op[u].label
  <2>1. {"done"} \in SUBSET Places
    BY DEF Places
  <2>2. /\ op'[u].pc = "done" /\ op'[u].label = op[u].label
        /\ \A x \in Tabs : x # u => op'[x] = op[x]
    BY <1>0, <1>3, <2>1, GoesToOp DEF AddEnds
  <2>3. chain[l] \in Seq(Tabs) /\ chain[l] # <<>> /\ Head(chain[l]) = u
    BY <1>0, <1>3 DEF AddEnds, Turns, TurnOf
  <2>4. Tail(chain[l]) \in Seq(Tabs)
    BY <2>3
  <2>5. /\ chain' \in [Labels -> Seq(Tabs)] /\ chain'[l] = Tail(chain[l])
        /\ \A k \in Labels : k # l => chain'[k] = chain[k]
    BY <1>0, <1>3, <2>4 DEF AddEnds
  <2>6. TurnOf(u)'
    BY <2>2 DEF TurnOf, Is, Running
  <2>7. ASSUME NEW x \in Tabs, x # u PROVE TurnOf(x)'
    <3>1. op'[x] = op[x] /\ TurnOf(x)
      BY <2>2, <2>7 DEF Turns
    <3>2. CASE op[x].pc \in Running
      <4>1. op[x].label \in Labels /\ op[x].label # l
        BY <1>0, <2>3, <2>7, <3>1, <3>2 DEF TurnOf, Places, Running
      <4> QED  BY <2>5, <3>1, <3>2, <4>1 DEF TurnOf, Is, Running
    <3>3. CASE Is(x, "queued")
      <4>1. op[x].label \in Labels
        BY <1>0, <3>3 DEF Is, Places
      <4>2. CASE op[x].label # l
        BY <2>5, <3>1, <3>3, <4>1, <4>2 DEF TurnOf, Is, Running
      <4>3. CASE op[x].label = l
        <5>1. PICK i \in DOMAIN chain[l] : chain[l][i] = x
          BY <3>1, <3>3, <4>3 DEF TurnOf
        <5>2. \E j \in DOMAIN Tail(chain[l]) : Tail(chain[l])[j] = x
          BY <2>3, <2>7, <5>1, TailKeeps
        <5> QED  BY <2>5, <3>1, <3>3, <4>3, <5>2 DEF TurnOf, Is, Running
      <4> QED  BY <4>2, <4>3
    <3>4. CASE op[x].pc \notin Running /\ ~Is(x, "queued")
      BY <3>1, <3>4 DEF TurnOf, Is
    <3> QED  BY <3>2, <3>3, <3>4
  <2> QED  BY <2>5, <2>6, <2>7 DEF Turns
<1>4. ASSUME NEW u \in Tabs, NEW l \in Labels, NEW w \in Windows, TabCreate(u, l, w)
      PROVE  Turns' /\ ChainType'
  <2>1. /\ op' = [op EXCEPT ![u] = [pc |-> "queued", label |-> l, group |-> None]]
        /\ chain' = [chain EXCEPT ![l] = Append(@, u)]
    BY <1>4 DEF TabCreate
  <2>2. op'[u].pc = "queued" /\ op'[u].label = l /\ \A x \in Tabs : x # u => op'[x] = op[x]
    BY <1>0, <2>1 DEF OpType
  <2>3. /\ chain' \in [Labels -> Seq(Tabs)] /\ chain'[l] = Append(chain[l], u)
        /\ \A k \in Labels : k # l => chain'[k] = chain[k]
    BY <1>0, <2>1, AppendKeeps
  <2>4. chain[l] \in Seq(Tabs)
    BY <1>0
  <2>5. TurnOf(u)'
    <3>1. \E j \in DOMAIN Append(chain[l], u) : Append(chain[l], u)[j] = u
      BY <2>4, AppendKeeps
    <3> QED  BY <2>2, <2>3, <3>1 DEF TurnOf, Is, Running
  <2>6. ASSUME NEW x \in Tabs, x # u PROVE TurnOf(x)'
    <3>1. op'[x] = op[x] /\ TurnOf(x)
      BY <2>2, <2>6 DEF Turns
    <3>2. /\ (\E i \in DOMAIN chain[l] : chain[l][i] = x) => \E j \in DOMAIN chain'[l] : chain'[l][j] = x
          /\ chain[l] # <<>> => chain'[l] # <<>> /\ Head(chain'[l]) = Head(chain[l])
      <4>1. /\ (\E i \in DOMAIN chain[l] : chain[l][i] = x) =>
                 \E j \in DOMAIN Append(chain[l], u) : Append(chain[l], u)[j] = x
            /\ chain[l] # <<>> =>
                 Append(chain[l], u) # <<>> /\ Head(Append(chain[l], u)) = Head(chain[l])
        BY <2>4, AppendKeeps
      <4> QED  BY <2>3, <4>1, Zenon
    <3>3. CASE op[x].pc \in Running \/ Is(x, "queued")
      <4>1. op[x].label \in Labels
        BY <1>0, <3>3 DEF Is, Places, Running
      <4> QED  BY <2>3, <3>1, <3>2, <4>1 DEF TurnOf, Is
    <3>4. CASE op[x].pc \notin Running /\ ~Is(x, "queued")
      BY <3>1, <3>4 DEF TurnOf, Is
    <3> QED  BY <3>3, <3>4
  <2> QED  BY <2>3, <2>5, <2>6 DEF Turns
<1>5. CASE Restart
  <2>1. \A u \in Tabs : op'[u].pc \in {"none", "done"}
    <3>1. ASSUME NEW u \in Tabs PROVE op'[u].pc \in {"none", "done"}
      <4>1. op[u] \in CallRecord
        BY <1>0 DEF OpType
      <4>2. op'[u] = [op[u] EXCEPT !.pc = "done", !.group = None] \/ op'[u] = Asleep
        BY <1>0, <1>5 DEF Restart
      <4>3. CASE op'[u] = [op[u] EXCEPT !.pc = "done", !.group = None]
        BY <4>1, <4>3 DEF CallRecord
      <4>4. CASE op'[u] = Asleep
        BY <4>4 DEF Asleep
      <4> QED  BY <4>2, <4>3, <4>4
    <3> QED  BY <3>1
  <2>2. Turns'
    BY <2>1 DEF Turns, TurnOf, Is, Running
  <2>3. ChainType'
    <3>1. chain' = [l \in Labels |-> <<>>]
      BY <1>5 DEF Restart
    <3> QED  BY <3>1
  <2> QED  BY <2>2, <2>3
<1>6. CASE chain' = chain /\ \A u \in Tabs : op'[u] = op[u]
  BY <1>0, <1>6 DEF Turns, TurnOf, Is
<1>7. ASSUME NEW c \in Lookups \cup Groups \cup {Sweep}, NEW where, NEW g, At(c, where, g)
      PROVE  \A u \in Tabs : op'[u] = op[u]
  BY <1>0, <1>7, GroupsAssumption DEF At, OpType
<1>8. ASSUME NEW c \in Lookups,
             LookupStarts(c) \/ Hydrate(c) \/ Get(c) \/ Gone(c) \/ Query(c) \/ Found(c)
      PROVE  chain' = chain /\ \A u \in Tabs : op'[u] = op[u]
  <2>1. \E where, g : At(c, where, g)
    BY <1>8, CallMoves DEF GoesTo
  <2>2. chain' = chain
    BY <1>8 DEF LookupStarts, Hydrate, Get, Gone, Query, Found
  <2> QED  BY <1>7, <2>1, <2>2
<1>9. ASSUME NEW c \in Lookups, LookupCalled(c) PROVE chain' = chain /\ \A u \in Tabs : op'[u] = op[u]
  BY <1>0, <1>9, GroupsAssumption DEF LookupCalled, OpType
<1>10. ASSUME NEW g \in Groups, GroupRemoved(g) \/ PurgeHydrated(g)
       PROVE  chain' = chain /\ \A u \in Tabs : op'[u] = op[u]
  BY <1>7, <1>10 DEF GroupRemoved, PurgeHydrated, StartHydration
<1>11. ASSUME SweepStarts \/ SweepHydrated PROVE chain' = chain /\ \A u \in Tabs : op'[u] = op[u]
  BY <1>7, <1>11 DEF SweepStarts, SweepHydrated, StartHydration
<1>12. \/ \E u \in Tabs : AddGoesOn(u) \/ \E l \in Labels, w \in Windows : TabCreate(u, l, w)
       \/ \E c \in Lookups :
            \/ LookupCalled(c) \/ LookupStarts(c) \/ Hydrate(c) \/ Get(c) \/ Gone(c)
            \/ Query(c) \/ Found(c)
       \/ \E g \in Groups : GroupRemoved(g) \/ PurgeHydrated(g)
       \/ SweepStarts \/ SweepHydrated \/ Restart
       \/ UNCHANGED <<op, chain>>
  BY DEF GroupsNext, groupsVars, UserOpens, UserCloses, UserHolds, TimePasses, SweepLists, SweepCounts, SweepGroup,
         SweepInspects, SweepRemoves, SweepEnds
<1>13. ASSUME NEW u \in Tabs, AddGoesOn(u) PROVE Turns' /\ ChainType'
  BY <1>1, <1>2, <1>3, <1>13, AddSteps
<1> QED  BY <1>4, <1>5, <1>6, <1>8, <1>9, <1>10, <1>11, <1>12, <1>13

-----------------------------------------------------------------------------
\* A group id that was not given out has neither tabs nor a title; the add about to
\* create or to title a group is of a label that no group carries; and a label has one.
GroupInv ==
  /\ \A g \in Groups : g \notin spent => ~Exists(g) /\ title[g] = None
  /\ \A u \in Tabs : op[u].pc \in {"create", "title"} => Titled(op[u].label) = {}
  /\ \A l \in Labels : \A g, h \in Titled(l) : g = h

\* A step that gives no group a title or its first tab leaves no label with more groups.
Shrinks ==
  /\ title' = title /\ spent \subseteq spent'
  /\ \A g \in Groups : Exists(g)' => Exists(g) \/ (g \in spent' \ spent)

\* After such a step a label is carried by no group that did not carry it.
LEMMA ShrinksTitled ==
  ASSUME GroupInv, Shrinks, NEW l \in Labels
  PROVE  Titled(l)' \subseteq Titled(l)
BY GroupsAssumption DEF GroupInv, Shrinks, Titled

\* Every step of the browser but the titling of a group is of that kind.
LEMMA BrowserShrinks ==
  ASSUME GroupsType, [GroupsNext]_groupsVars
  PROVE  Shrinks \/ \E u \in Tabs : SetTitle(u)
<1>1. ASSUME UNCHANGED <<groupOf, title, spent>> PROVE Shrinks
  BY <1>1 DEF Shrinks, Exists
<1>2. ASSUME NEW u \in Tabs, NEW w \in Windows, OpenTab(u, w) PROVE Shrinks
  BY <1>2 DEF OpenTab, Shrinks, Exists
<1>3. ASSUME NEW S, CloseTabs(S) PROVE Shrinks
  BY <1>3, GroupsAssumption DEF CloseTabs, Shrinks, Exists
<1>4. ASSUME NEW u \in Tabs, Create(u) PROVE Shrinks
  <2>1. CASE UNCHANGED tabState
    <3>1. UNCHANGED <<groupOf, title, spent>>
      BY <2>1 DEF tabState
    <3> QED  BY <1>1, <3>1
  <2>2. ASSUME NEW g \in Groups \ spent, PutInto(u, g), spent' = spent \cup {g} PROVE Shrinks
    <3>1. groupOf' = [groupOf EXCEPT ![u] = g] /\ title' = title
      BY <2>2 DEF PutInto
    <3>2. \A x \in Tabs : groupOf'[x] = IF x = u THEN g ELSE groupOf[x]
      BY <3>1 DEF GroupsType, BrowserType
    <3> QED  BY <2>2, <3>1, <3>2 DEF Shrinks, Exists
  <2> QED  BY <1>4, <2>1, <2>2 DEF Create
<1>5. ASSUME NEW u \in Tabs, Join(u) PROVE Shrinks
  <2>1. CASE UNCHANGED tabState
    <3>1. UNCHANGED <<groupOf, title, spent>>
      BY <2>1 DEF tabState
    <3> QED  BY <1>1, <3>1
  <2>2. CASE PutInto(u, op[u].group) /\ Exists(op[u].group) /\ spent' = spent
    <3>1. groupOf' = [groupOf EXCEPT ![u] = op[u].group] /\ title' = title
      BY <2>2 DEF PutInto
    <3>2. \A x \in Tabs : groupOf'[x] = IF x = u THEN op[u].group ELSE groupOf[x]
      BY <3>1 DEF GroupsType, BrowserType
    <3> QED  BY <2>2, <3>1, <3>2 DEF Shrinks, Exists
  <2> QED  BY <1>5, <2>1, <2>2 DEF Join
<1>6. \/ \E u \in Tabs, w \in Windows : OpenTab(u, w)
      \/ \E u \in Tabs : Create(u) \/ Join(u) \/ SetTitle(u)
      \/ \E S : CloseTabs(S)
      \/ UNCHANGED <<groupOf, title, spent>>
  BY DEF GroupsNext, groupsVars, tabState, AddGoesOn, UserOpens, UserCloses, UserHolds,
         TabCreate, AddStarts, Hydrate, Get, Gone, Query, Found, Register,
         LookupCalled, LookupStarts, GroupRemoved, PurgeHydrated, TimePasses,
         SweepStarts, SweepHydrated, SweepLists, SweepCounts, SweepGroup, SweepInspects, SweepRemoves,
         SweepEnds, Restart
<1> QED  BY <1>1, <1>2, <1>3, <1>4, <1>5, <1>6

\* Who is about to create or to title a group after a step was so before it, or has just
\* found that no group carries its label.
LEMMA CreatorsStep ==
  ASSUME GroupsType, [GroupsNext]_groupsVars, NEW u \in Tabs,
         op'[u].pc \in {"create", "title"}
  PROVE  /\ op'[u].label = op[u].label /\ op[u].label \in Labels
         /\ \/ op[u].pc \in {"create", "title"}
            \/ Titled(op[u].label) = {} /\ UNCHANGED tabState
<1>0. /\ OpType /\ Tabs \subseteq Callers
      /\ op[u].pc \notin {"none", "done"} => op[u].label \in Labels
  BY DEF GroupsType, OpType, CallOk, Callers
<1>1. CASE op'[u] = op[u]
  BY <1>0, <1>1
<1>2. ASSUME NEW v \in Tabs, v # u, NEW places \in SUBSET Places, GoesTo(v, places)
      PROVE  op'[u] = op[u]
  BY <1>0, <1>2, GoesToOp
<1>3. ASSUME NEW c \in Lookups \cup Groups \cup {Sweep}, NEW where, NEW g, At(c, where, g)
      PROVE  op'[u] = op[u]
  BY <1>0, <1>3, GroupsAssumption DEF At, OpType
<1>4. ASSUME NEW places \in SUBSET Places, GoesTo(u, places)
      PROVE  op'[u].pc \in places /\ op'[u].label = op[u].label
  BY <1>0, <1>4, GoesToOp
<1>5. CASE AddGoesOn(u)
  <2> DEFINE places == {"hydrating", "get", "query", "join", "done", "gone", "found", "titled"}
  <2>1. places \in SUBSET Places /\ {"found", "create", "done"} \in SUBSET Places
        /\ {"title", "done"} \in SUBSET Places
    BY DEF Places
  <2>2. op[u].label \in Labels
    BY <1>5, CallMoves DEF AddGoesOn
  <2>3. CASE Query(u)
    <3>1. GoesTo(u, {"found", "create", "done"})
      BY <2>3, CallMoves
    <3>2. op'[u].label = op[u].label /\ op'[u].pc = "create"
      BY <1>4, <2>1, <3>1
    <3>3. Titled(op[u].label) = {} \/ \E g \in Groups : At(u, "found", g)
      BY <2>3 DEF Query, Titled
    <3>4. ASSUME NEW g \in Groups, At(u, "found", g) PROVE FALSE
      <4>1. op'[u] = [pc |-> "found", label |-> op[u].label, group |-> g]
        BY <1>0, <3>4, AtMoves DEF Places
      <4> QED  BY <3>2, <4>1
    <3> QED  BY <2>2, <2>3, <3>2, <3>3, <3>4 DEF Query
  <2>4. CASE Create(u)
    <3>1. GoesTo(u, {"title", "done"})
      BY <2>4, CallMoves
    <3> QED  BY <1>4, <2>1, <2>2, <2>4, <3>1 DEF Create, Is
  <2>5. CASE ~Query(u) /\ ~Create(u)
    <3>1. GoesTo(u, places)
      BY <1>5, <2>5, CallMoves DEF AddGoesOn, GoesTo
    <3> QED  BY <1>4, <2>1, <3>1
  <2> QED  BY <2>3, <2>4, <2>5
<1>6. ASSUME NEW v \in Tabs, v # u, AddGoesOn(v) PROVE op'[u] = op[u]
  <2> DEFINE All == {"hydrating", "get", "gone", "query", "found", "create", "title", "titled",
                     "join", "done"}
  <2>1. All \in SUBSET Places
    BY DEF Places
  <2>2. GoesTo(v, All)
    BY <1>6, CallMoves DEF AddGoesOn, GoesTo
  <2> QED  BY <1>2, <1>6, <2>1, <2>2
<1>7. ASSUME NEW c \in Lookups,
             LookupStarts(c) \/ Hydrate(c) \/ Get(c) \/ Gone(c) \/ Query(c) \/ Found(c)
      PROVE  op'[u] = op[u]
  BY <1>3, <1>7, CallMoves DEF GoesTo
<1>8. ASSUME NEW v \in Tabs, NEW l \in Labels, NEW w \in Windows, TabCreate(v, l, w)
      PROVE  op'[u] = op[u]
  <2>1. op' = [op EXCEPT ![v] = [pc |-> "queued", label |-> l, group |-> None]]
    BY <1>8 DEF TabCreate
  <2>2. op'[v].pc = "queued"
    BY <1>0, <2>1 DEF OpType
  <2> QED  BY <1>0, <2>1, <2>2 DEF OpType
<1>9. ASSUME NEW c \in Lookups, LookupCalled(c) PROVE op'[u] = op[u]
  BY <1>0, <1>9, GroupsAssumption DEF LookupCalled, OpType
<1>10. ASSUME NEW g \in Groups, GroupRemoved(g) \/ PurgeHydrated(g) PROVE op'[u] = op[u]
  BY <1>3, <1>10 DEF GroupRemoved, PurgeHydrated, StartHydration
<1>11. ASSUME SweepStarts \/ SweepHydrated PROVE op'[u] = op[u]
  BY <1>3, <1>11 DEF SweepStarts, SweepHydrated, StartHydration
<1>12. ASSUME Restart PROVE FALSE
  <2>1. op[u] \in CallRecord
    BY <1>0 DEF OpType
  <2>2. op'[u] = [op[u] EXCEPT !.pc = "done", !.group = None] \/ op'[u] = Asleep
    BY <1>0, <1>12 DEF Restart
  <2>3. CASE op'[u] = [op[u] EXCEPT !.pc = "done", !.group = None]
    BY <2>1, <2>3 DEF CallRecord
  <2>4. CASE op'[u] = Asleep
    BY <2>4 DEF Asleep
  <2> QED  BY <2>2, <2>3, <2>4
<1>13. \/ \E v \in Tabs : AddGoesOn(v) \/ \E l \in Labels, w \in Windows : TabCreate(v, l, w)
       \/ \E c \in Lookups :
            \/ LookupCalled(c) \/ LookupStarts(c) \/ Hydrate(c) \/ Get(c) \/ Gone(c)
            \/ Query(c) \/ Found(c)
       \/ \E g \in Groups : GroupRemoved(g) \/ PurgeHydrated(g)
       \/ SweepStarts \/ SweepHydrated \/ Restart
       \/ UNCHANGED op
  BY DEF GroupsNext, groupsVars, UserOpens, UserCloses, UserHolds, TimePasses, SweepLists, SweepCounts, SweepGroup,
         SweepInspects, SweepRemoves, SweepEnds
<1> QED  BY <1>1, <1>5, <1>6, <1>7, <1>8, <1>9, <1>10, <1>11, <1>12, <1>13

\* One group per label is kept: only the add at the head of a label's chain titles a
\* group with it, and it looked for one first.
LEMMA GroupsKept ==
  ASSUME GroupsType, Turns, GroupInv, [GroupsNext]_groupsVars
  PROVE  GroupInv'
<1>1. CASE Shrinks
  <2>1. \A l \in Labels : Titled(l)' \subseteq Titled(l)
    BY <1>1, ShrinksTitled
  <2>2. \A g \in Groups : g \notin spent' => ~Exists(g)' /\ title'[g] = None
    BY <1>1 DEF Shrinks, GroupInv
  <2>3. ASSUME NEW u \in Tabs, op'[u].pc \in {"create", "title"} PROVE Titled(op[u].label)' = {}
    <3>1. PICK l \in Labels : l = op[u].label /\ l = op'[u].label
      BY <2>3, CreatorsStep
    <3>2. Titled(l) = {}
      BY <2>3, <3>1, CreatorsStep DEF GroupInv
    <3>3. Titled(l)' = {}
      BY <2>1, <3>2
    <3> QED  BY <3>1, <3>3
  <2>4. \A l \in Labels : \A g, h \in Titled(l)' : g = h
    BY <2>1 DEF GroupInv
  <2> QED  BY <2>2, <2>3, <2>4 DEF GroupInv
<1>2. ASSUME NEW v \in Tabs, SetTitle(v), ~Shrinks PROVE GroupInv'
  <2>0. PICK l, n : l = op[v].label /\ n = op[v].group
    OBVIOUS
  <2>1. /\ Exists(n) /\ title' = [title EXCEPT ![n] = l]
        /\ UNCHANGED <<groupOf, spent>> /\ op[v].pc = "title"
    <3>1. ~UNCHANGED tabState
      BY <1>2 DEF tabState, Shrinks, Exists
    <3> QED  BY <1>2, <2>0, <3>1 DEF SetTitle, Is
  <2>2. l \in Labels /\ n \in Groups /\ Titled(l) = {}
    <3>1. v \in Callers /\ op[v] \in CallRecord /\ CallOk(v)
      BY DEF GroupsType, OpType, Callers
    <3>2. op[v].label \in Labels /\ op[v].group \in Groups
      BY <2>1, <3>1 DEF CallRecord, CallOk
    <3>3. Titled(op[v].label) = {}
      BY <2>1 DEF GroupInv
    <3> QED  BY <2>0, <3>2, <3>3
  <2>3. \A g \in Groups : title'[g] = (IF g = n THEN l ELSE title[g]) /\ (Exists(g)' <=> Exists(g))
    BY <2>1, <2>2 DEF Exists, GroupsType, BrowserType
  <2>4. n \in spent
    BY <2>1, <2>2 DEF GroupInv
  <2>5. Titled(l)' \subseteq {n}
    <3>1. \A g \in Groups : Exists(g)' /\ title'[g] = l => g = n
      BY <2>2, <2>3 DEF Titled
    <3> QED  BY <3>1 DEF Titled
  <2>6. \A k \in Labels : k # l => Titled(k)' \subseteq Titled(k)
    BY <2>3 DEF Titled
  <2>7. \A g \in Groups : g \notin spent' => ~Exists(g)' /\ title'[g] = None
    BY <2>1, <2>3, <2>4 DEF GroupInv
  <2>8. ASSUME NEW u \in Tabs, op'[u].pc \in {"create", "title"} PROVE Titled(op[u].label)' = {}
    <3>1. PICK k \in Labels : k = op[u].label /\ k = op'[u].label
      BY <2>8, CreatorsStep
    <3>2. op[u].pc \in {"create", "title"}
      <4>1. ~UNCHANGED tabState
        BY <1>2 DEF tabState, Shrinks, Exists
      <4> QED  BY <2>8, <4>1, CreatorsStep
    <3>3. u # v
      <4>1. OpType /\ {"titled", "done"} \in SUBSET Places
        BY DEF GroupsType, Places
      <4>2. op'[v].pc \in {"titled", "done"}
        BY <1>2, <4>1, CallMoves, GoesToOp
      <4> QED  BY <2>8, <4>2
    <3>4. k # l
      <4>1. op[u].pc \in Running /\ op[v].pc \in Running
        BY <2>1, <3>2 DEF Running
      <4>2. Head(chain[op[u].label]) = u /\ Head(chain[op[v].label]) = v
        BY <4>1 DEF Turns, TurnOf
      <4>3. op[u].label # op[v].label
        BY <3>3, <4>2
      <4> QED  BY <2>0, <3>1, <4>3
    <3>5. Titled(k) = {}
      BY <3>1, <3>2 DEF GroupInv
    <3>6. Titled(k)' = {}
      BY <2>6, <3>4, <3>5
    <3> QED  BY <3>1, <3>6
  <2>9. \A k \in Labels : \A g, h \in Titled(k)' : g = h
    <3>1. ASSUME NEW k \in Labels, NEW g \in Titled(k)', NEW h \in Titled(k)' PROVE g = h
      <4>1. CASE k = l
        BY <2>5, <3>1, <4>1
      <4>2. CASE k # l
        BY <2>6, <3>1, <4>2 DEF GroupInv
      <4> QED  BY <4>1, <4>2
    <3> QED  BY <3>1
  <2> QED  BY <2>7, <2>8, <2>9 DEF GroupInv
<1> QED  BY <1>1, <1>2, BrowserShrinks

\* The inductive invariant of the tab groups.
TabGroupsInv == GroupsType /\ Turns /\ GroupInv

\* It holds when the worker first starts: no group, no call.
LEMMA TabGroupsInit ==
  ASSUME GroupsInit
  PROVE  TabGroupsInv
<1> USE GroupsAssumption DEF GroupsInit
<1>1. BrowserType /\ MemoryType
  BY DEF BrowserType, MemoryType, Registry, Open
<1>2. OpType
  <2>1. Asleep \in CallRecord /\ Asleep.pc = "none"
    BY DEF Asleep, CallRecord, Places
  <2> QED  BY <2>1 DEF OpType, CallOk
<1>3. SweepType
  BY DEF SweepType, NoSweep
<1>4. chain \in [Labels -> Seq(Tabs)] /\ idle \subseteq Labels /\ restarts \in 0 .. MaxRestarts
  OBVIOUS
<1>5. \A u \in Tabs : op[u].pc = "none"
  BY DEF Asleep, Callers
<1>6. Turns
  BY <1>5 DEF Turns, TurnOf, Is, Running
<1>7. GroupInv
  BY <1>5 DEF GroupInv, Exists, Titled
<1> QED  BY <1>1, <1>2, <1>3, <1>4, <1>6, <1>7 DEF TabGroupsInv, GroupsType

\* The marks of idle labels and the count of restarts.
LEMMA RestKept ==
  ASSUME GroupsType, [GroupsNext]_groupsVars
  PROVE  idle' \subseteq Labels /\ restarts' \in 0 .. MaxRestarts
<1>1. idle \subseteq Labels /\ restarts \in 0 .. MaxRestarts /\ MaxRestarts \in Nat
  BY GroupsAssumption DEF GroupsType
<1>2. \/ idle' \subseteq idle \/ \E l \in Labels : idle' = idle \cup {l}
  BY DEF GroupsNext, groupsVars, AddGoesOn, UserOpens, UserCloses, UserHolds, TabCreate,
         AddStarts, Hydrate, Get, Gone, Query, Found, Create, SetTitle,
         Register, Join, LookupCalled, LookupStarts, GroupRemoved, PurgeHydrated,
         TimePasses, SweepStarts, SweepHydrated, SweepLists, SweepCounts, SweepGroup, SweepInspects,
         SweepRemoves, SweepEnds, Restart
<1>3. restarts' = restarts \/ (restarts < MaxRestarts /\ restarts' = restarts + 1)
  BY DEF GroupsNext, groupsVars, AddGoesOn, UserOpens, UserCloses, UserHolds, TabCreate,
         AddStarts, Hydrate, Get, Gone, Query, Found, Create, SetTitle,
         Register, Join, LookupCalled, LookupStarts, GroupRemoved, PurgeHydrated,
         TimePasses, SweepStarts, SweepHydrated, SweepLists, SweepCounts, SweepGroup, SweepInspects,
         SweepRemoves, SweepEnds, Restart
<1> QED  BY <1>1, <1>2, <1>3

\* The parts together are inductive, wherever the adds, lookups, events and sweeps of the
\* worker are, whoever closes tabs, and however often it restarts.
THEOREM TabGroupsInvariant == GroupsSpec => []TabGroupsInv
<1>1. GroupsInit => TabGroupsInv
  BY TabGroupsInit
<1>2. TabGroupsInv /\ [GroupsNext]_groupsVars => TabGroupsInv'
  <2> SUFFICES ASSUME TabGroupsInv, [GroupsNext]_groupsVars
               PROVE  TabGroupsInv'
    OBVIOUS
  <2>1. GroupsType /\ Turns /\ GroupInv
    BY DEF TabGroupsInv
  <2>2. BrowserType' /\ MemoryType' /\ OpType' /\ SweepType'
    BY <2>1, BrowserKept, MemoryKept, OpKept, SweepKept
  <2>3. Turns' /\ ChainType'
    BY <2>1, TurnsKept
  <2>4. idle' \subseteq Labels /\ restarts' \in 0 .. MaxRestarts
    BY <2>1, RestKept
  <2>5. GroupInv'
    BY <2>1, GroupsKept
  <2> QED  BY <2>2, <2>3, <2>4, <2>5 DEF TabGroupsInv, GroupsType, ChainType
<1> QED  BY <1>1, <1>2, PTL DEF GroupsSpec

\* Every variable of the tab groups keeps its type; no call that needs a group is ever
\* without one, and what is pinned or dirty is open.
THEOREM TabGroupsTyped == GroupsSpec => []GroupsTypeOK
<1>1. TabGroupsInv => GroupsTypeOK
  BY DEF TabGroupsInv, GroupsType, BrowserType, MemoryType, Registry, OpType, CallRecord, CallOk,
         SweepType, GroupsTypeOK
<1> QED  BY <1>1, TabGroupsInvariant, PTL

\* For any labels, tabs, groups, windows and lookups, and any number of restarts, a label
\* has at most one group: serializeGroupAdd lets one add of a label search and create at
\* a time, and what others do between its calls only takes groups away.
THEOREM OneGroup == GroupsSpec => []OneGroupPerLabel
<1>1. TabGroupsInv => OneGroupPerLabel
  BY DEF TabGroupsInv, GroupInv, OneGroupPerLabel
<1> QED  BY <1>1, TabGroupsInvariant, PTL
=============================================================================
