----------------------- MODULE CampaignLifecycle_proofs -----------------------
(***************************************************************************)
(* Type correctness of CampaignLifecycle, and that racing and dying calls  *)
(* can neither put an unprepared campaign live nor, unless they die        *)
(* themselves, hide a status from the event log.                           *)
(***************************************************************************)
EXTENDS CampaignLifecycle, TLAPS

\* What a status says about the past of the row that has it.
Before(s) ==
    IF s \in Live THEN {"planning", "booking", "ready"}
    ELSE IF s = "ready" THEN {"planning", "booking"}
    ELSE IF s = "booking" THEN {"planning"} ELSE {}

\* The strengthening.  A row's status is in its history, which is empty before
\* the row exists; a call that is about to
\* write was validated against a status in that history; and the history of a
\* row is closed under Before.  The second part is what survives a race: the
\* status that the call read may be gone, but not the fact that the row had it.
Held ==
    \A c \in Campaigns :
        IF status[c] = Missing THEN been[c] = {} ELSE status[c] \in been[c]
Validated ==
    \A t \in Threads : work[t].pc = "write" =>
        /\ <<work[t].from, work[t].to>> \in Rules
        /\ work[t].from \in been[work[t].campaign]
Grounded == \A c \in Campaigns : \A s \in been[c] : Before(s) \subseteq been[c]
Inv == TypeOK /\ Held /\ Validated /\ Grounded

--------------------------------------------------------------------------------
\* The methods move campaigns to statuses: Target in CampaignStore's wrappers.
LEMMA TargetsAreStatuses == \A m \in Methods : Target[m] \in Statuses
  BY ParametersAssumption DEF Target, Statuses

\* No rule of the automation state machine skips a stage.
LEMMA RulesSkipNothing ==
  ASSUME NEW from, NEW to, <<from, to>> \in Rules
  PROVE  Before(to) \subseteq Before(from) \cup {from}
  BY DEF Rules, Before, Live

\* A created campaign has no past to account for.
LEMMA DraftNeedsNothing == Before("draft") = {}
  BY DEF Before, Live

\* Every step keeps the types.
LEMMA TypeStep == TypeOK /\ [Next]_vars => TypeOK'
<1> SUFFICES ASSUME TypeOK, [Next]_vars PROVE TypeOK'
  OBVIOUS
<1> USE ParametersAssumption DEF TypeOK, Calls, Changes, Idle, Missing
<1>1. ASSUME NEW t \in Threads, NEW c \in Campaigns, CreateCampaign(t, c) PROVE TypeOK'
  BY <1>1 DEF CreateCampaign, Call, Statuses
<1>2. ASSUME NEW t \in Threads, NEW c \in Campaigns, NEW m \in Methods,
             BeginTransition(t, c, m) PROVE TypeOK'
  <2>1. Target[m] \in Statuses /\ m \in DOMAIN Target
    BY TargetsAreStatuses, ParametersAssumption
  <2>2. Call("write", c, status[c], Target[m]) \in Calls
    BY <2>1, <1>2 DEF BeginTransition, Call
  <2>. QED
    BY <2>2, <1>2 DEF BeginTransition
<1>3. ASSUME NEW t \in Threads, UpdateStatus(t) PROVE TypeOK'
  <2>1. work[t] \in Calls
    BY <1>3 DEF UpdateStatus
  <2>2. [work[t] EXCEPT !.pc = "emit"] \in Calls
    BY <2>1
  <2>. QED
    BY <2>1, <2>2, <1>3 DEF UpdateStatus
<1>4. ASSUME NEW t \in Threads, EmitEvent(t) PROVE TypeOK'
  <2>1. work[t] \in Calls
    BY <1>4 DEF EmitEvent
  <2>. QED
    BY <2>1, <1>4 DEF EmitEvent, Announced
<1>5. ASSUME NEW t \in Threads, Crash(t) PROVE TypeOK'
  <2>1. work[t] \in Calls
    BY <1>5 DEF Crash
  <2>2. Announced(work[t]) \in Changes
    BY <2>1 DEF Announced
  <2>3. work' \in [Threads -> {Idle} \cup Calls] /\ crashes' \in 0 .. MaxCrashes
    BY <1>5 DEF Crash
  <2>4. lost' \in [Campaigns -> SUBSET Changes]
    BY <2>1, <2>2, <1>5 DEF Crash
  <2>. QED
    BY <2>3, <2>4, <1>5 DEF Crash
<1>6. CASE UNCHANGED vars
  BY <1>6 DEF vars
<1>. QED
  BY <1>1, <1>2, <1>3, <1>4, <1>5, <1>6 DEF Next

\* CampaignStore only ever holds well-formed campaigns, events and calls.
THEOREM TypeCorrect == Spec => []TypeOK
<1>1. Init => TypeOK
  BY ParametersAssumption DEF Init, TypeOK
<1>. QED
  BY <1>1, TypeStep, PTL DEF Spec

--------------------------------------------------------------------------------
\* Every step keeps the strengthening.
LEMMA InvStep == Inv /\ [Next]_vars => Inv'
<1> SUFFICES ASSUME Inv, [Next]_vars PROVE Inv'
  OBVIOUS
<1>0. TypeOK'
  BY TypeStep DEF Inv
<1> USE DEF Inv, Held, Validated, Grounded
<1>1. ASSUME NEW t \in Threads, NEW c \in Campaigns, CreateCampaign(t, c)
      PROVE  Held' /\ Validated' /\ Grounded'
  <2>1. /\ been[c] = {}
        /\ been' = [been EXCEPT ![c] = {"draft"}]
        /\ status' = [status EXCEPT ![c] = "draft"]
    BY <1>1 DEF CreateCampaign
  <2>2. Held' /\ Grounded'
    BY <2>1, DraftNeedsNothing DEF TypeOK, Missing
  <2>3. ASSUME NEW u \in Threads, work'[u].pc = "write"
        PROVE  /\ <<work'[u].from, work'[u].to>> \in Rules
               /\ work'[u].from \in been'[work'[u].campaign]
    <3>1. u # t /\ work'[u] = work[u]
      BY <2>3, <1>1 DEF CreateCampaign, Call, TypeOK
    <3>2. work[u].campaign \in Campaigns
      BY <2>3, <3>1 DEF TypeOK, Calls, Idle
    <3>. QED
      BY <2>1, <2>3, <3>1, <3>2 DEF TypeOK
  <2>. QED
    BY <2>2, <2>3
<1>2. ASSUME NEW t \in Threads, NEW c \in Campaigns, NEW m \in Methods,
             BeginTransition(t, c, m)
      PROVE  Held' /\ Validated' /\ Grounded'
  BY <1>2 DEF BeginTransition, Permitted, Call, TypeOK
<1>3. ASSUME NEW t \in Threads, UpdateStatus(t) PROVE Held' /\ Validated' /\ Grounded'
  <2> DEFINE c == work[t].campaign
  <2>1. work[t] \in Calls
    BY <1>3 DEF UpdateStatus, TypeOK, Idle
  <2>2. /\ c \in Campaigns
        /\ been' = [been EXCEPT ![c] = @ \cup {work[t].to}]
        /\ status' = [status EXCEPT ![c] = work[t].to]
        /\ work' = [work EXCEPT ![t].pc = "emit"]
    BY <2>1, <1>3 DEF UpdateStatus, Calls
  <2>3. Before(work[t].to) \subseteq been[c]
    <3>1. <<work[t].from, work[t].to>> \in Rules /\ work[t].from \in been[c]
      BY <1>3 DEF UpdateStatus
    <3>2. Before(work[t].from) \subseteq been[c]
      BY <2>2, <3>1
    <3>3. Before(work[t].to) \subseteq Before(work[t].from) \cup {work[t].from}
      BY <3>1, RulesSkipNothing
    <3>. QED
      BY <3>1, <3>2, <3>3
  <2>4. \A d \in Campaigns : been[d] \subseteq been'[d]
    BY <2>2 DEF TypeOK
  <2>5. Grounded'
    BY <2>2, <2>3, <2>4 DEF TypeOK
  <2>6. Held'
    <3>1. work[t].to # Missing
      BY <2>1 DEF Calls, Statuses, Missing
    <3>. QED
      BY <2>2, <2>4, <3>1 DEF TypeOK
  <2>7. Validated'
    BY <2>2, <2>4 DEF TypeOK, Calls, Idle
  <2>. QED
    BY <2>5, <2>6, <2>7
<1>4. ASSUME NEW t \in Threads, EmitEvent(t) PROVE Held' /\ Validated' /\ Grounded'
  BY <1>4 DEF EmitEvent, Idle, TypeOK
<1>5. ASSUME NEW t \in Threads, Crash(t) PROVE Held' /\ Validated' /\ Grounded'
  BY <1>5 DEF Crash, Idle, TypeOK
<1>6. CASE UNCHANGED vars
  BY <1>6 DEF vars, TypeOK
<1>. QED
  BY <1>0, <1>1, <1>2, <1>3, <1>4, <1>5, <1>6 DEF Next

\* A campaign is only ever live after it was planned, booked and made ready,
\* for any number of racing threads and any crashes between the locked sections
\* of transition_campaign_status.
THEOREM LiveIsPrepared == Spec => []LiveWasPrepared
<1>1. Init => Inv
  BY ParametersAssumption DEF Init, Inv, TypeOK, Held, Validated, Grounded, Idle, Missing
<1>2. Inv => LiveWasPrepared
  <2> SUFFICES ASSUME Inv, NEW c \in Campaigns, status[c] \in Live
               PROVE  {"planning", "booking", "ready"} \subseteq been[c]
    BY DEF LiveWasPrepared
  <2>1. status[c] \in been[c]
    BY DEF Inv, Held, Live, Missing
  <2>. QED
    BY <2>1 DEF Inv, Grounded, Before
<1>. QED
  BY <1>1, <1>2, InvStep, PTL DEF Spec

--------------------------------------------------------------------------------
\* What a call about to write needs to be explained itself: its source is in the
\* history, so the event it will record names a status that the row had.
LEMMA ExplainedStep ==
  Inv /\ StatusesAreExplained /\ [Next]_vars => StatusesAreExplained'
<1> SUFFICES ASSUME Inv, StatusesAreExplained, [Next]_vars,
                    NEW c \in Campaigns, NEW s \in been'[c]
             PROVE  \E e \in events'[c] \cup Announcing(c)' \cup lost'[c] :
                        e.to = s /\ e.from \in been'[c] \cup {Missing}
  BY DEF StatusesAreExplained
<1> USE DEF Announcing, Announced
<1>0. s \in been[c] => \E e \in events[c] \cup Announcing(c) \cup lost[c] :
                          e.to = s /\ e.from \in been[c] \cup {Missing}
  BY DEF StatusesAreExplained
<1>1. ASSUME NEW t \in Threads, NEW d \in Campaigns, CreateCampaign(t, d)
      PROVE  \E e \in events'[c] \cup Announcing(c)' \cup lost'[c] :
                 e.to = s /\ e.from \in been'[c] \cup {Missing}
  <2>1. CASE c = d
    <3>1. /\ s = "draft" /\ work'[t].pc = "emit" /\ work'[t].campaign = c
          /\ work'[t].to = "draft" /\ work'[t].from = Missing
      BY <2>1, <1>1 DEF CreateCampaign, Call, Inv, TypeOK
    <3>2. [from |-> Missing, to |-> "draft"] \in Announcing(c)'
      BY <3>1
    <3>. QED
      BY <3>1, <3>2
  <2>2. CASE c # d
    <3>1. been'[c] = been[c] /\ events'[c] = events[c] /\ lost' = lost
      BY <2>2, <1>1 DEF CreateCampaign, Inv, TypeOK
    <3>2. \A u \in Threads : u # t => work'[u] = work[u]
      BY <1>1 DEF CreateCampaign, Inv, TypeOK
    <3>3. work[t].pc # "emit"
      BY <1>1 DEF CreateCampaign, Idle
    <3>4. Announcing(c) \subseteq Announcing(c)'
      BY <3>2, <3>3
    <3>. QED
      BY <3>1, <3>4, <1>0
  <2>. QED
    BY <2>1, <2>2
<1>2. ASSUME NEW t \in Threads, NEW d \in Campaigns, NEW m \in Methods,
             BeginTransition(t, d, m)
      PROVE  \E e \in events'[c] \cup Announcing(c)' \cup lost'[c] :
                 e.to = s /\ e.from \in been'[c] \cup {Missing}
  <2>1. \A u \in Threads : u # t => work'[u] = work[u]
    BY <1>2 DEF BeginTransition, Inv, TypeOK
  <2>2. work[t].pc # "emit"
    BY <1>2 DEF BeginTransition, Idle
  <2>3. Announcing(c) \subseteq Announcing(c)'
    BY <2>1, <2>2
  <2>. QED
    BY <2>3, <1>0, <1>2 DEF BeginTransition
<1>3. ASSUME NEW t \in Threads, UpdateStatus(t)
      PROVE  \E e \in events'[c] \cup Announcing(c)' \cup lost'[c] :
                 e.to = s /\ e.from \in been'[c] \cup {Missing}
  <2>0. work[t] \in Calls /\ work[t].pc = "write"
    BY <1>3 DEF UpdateStatus, Inv, TypeOK, Idle
  <2>1. \A u \in Threads : u # t => work'[u] = work[u]
    BY <1>3 DEF UpdateStatus, Inv, TypeOK
  <2>2. Announcing(c) \subseteq Announcing(c)'
    BY <2>0, <2>1
  <2>3. been[c] \subseteq been'[c] /\ events'[c] = events[c] /\ lost' = lost
    BY <1>3 DEF UpdateStatus, Inv, TypeOK
  <2>4. CASE s \in been[c]
    BY <2>2, <2>3, <2>4, <1>0
  <2>5. CASE s \notin been[c]
    <3>1. c = work[t].campaign /\ s = work[t].to
      BY <2>5, <1>3, <2>0 DEF UpdateStatus, Inv, TypeOK, Calls
    <3>2. /\ work'[t].pc = "emit" /\ work'[t].campaign = c
          /\ work'[t].to = s /\ work'[t].from = work[t].from
      BY <3>1, <1>3, <2>0 DEF UpdateStatus, Inv, TypeOK, Calls
    <3>3. [from |-> work[t].from, to |-> s] \in Announcing(c)'
      BY <3>2
    <3>4. work[t].from \in been'[c]
      BY <3>1, <2>0, <2>3 DEF Inv, Validated
    <3>. DEFINE e == [from |-> work[t].from, to |-> s]
    <3>5. e \in Announcing(c)' /\ e.to = s /\ e.from \in been'[c]
      BY <3>3, <3>4
    <3>. QED
      BY <3>5
  <2>. QED
    BY <2>4, <2>5
<1>4. ASSUME NEW t \in Threads, EmitEvent(t)
      PROVE  \E e \in events'[c] \cup Announcing(c)' \cup lost'[c] :
                 e.to = s /\ e.from \in been'[c] \cup {Missing}
  <2>0. work[t] \in Calls
    BY <1>4 DEF EmitEvent, Inv, TypeOK, Idle
  <2>1. \A u \in Threads : u # t => work'[u] = work[u]
    BY <1>4 DEF EmitEvent, Inv, TypeOK
  <2>2. been' = been /\ events[c] \subseteq events'[c] /\ lost' = lost
    BY <1>4 DEF EmitEvent, Inv, TypeOK
  <2>3. work[t].campaign = c => Announced(work[t]) \in events'[c]
    BY <1>4, <2>0 DEF EmitEvent, Inv, TypeOK, Calls
  <2>4. Announcing(c) \subseteq events'[c] \cup Announcing(c)'
    BY <2>1, <2>3
  <2>. QED
    BY <2>2, <2>4, <1>0
<1>5. ASSUME NEW t \in Threads, Crash(t)
      PROVE  \E e \in events'[c] \cup Announcing(c)' \cup lost'[c] :
                 e.to = s /\ e.from \in been'[c] \cup {Missing}
  <2>1. work[t] \in Calls
    BY <1>5 DEF Crash, Inv, TypeOK
  <2>2. \A u \in Threads : u # t => work'[u] = work[u]
    BY <1>5 DEF Crash, Inv, TypeOK
  <2>3. been' = been /\ events' = events /\ lost[c] \subseteq lost'[c]
    BY <2>1, <1>5 DEF Crash, Inv, TypeOK, Calls
  <2>4. work[t].pc = "emit" /\ work[t].campaign = c => Announced(work[t]) \in lost'[c]
    BY <2>1, <1>5 DEF Crash, Inv, TypeOK, Calls
  <2>5. Announcing(c) \subseteq lost'[c] \cup Announcing(c)'
    BY <2>2, <2>4
  <2>. QED
    BY <2>3, <2>5, <1>0
<1>6. CASE UNCHANGED vars
  BY <1>6, <1>0 DEF vars
<1>. QED
  BY <1>1, <1>2, <1>3, <1>4, <1>5, <1>6 DEF Next

\* No race hides a status from campaign_events: for any number of threads, each
\* status a campaign ever had is announced by an event out of a status that it
\* had too, unless the call that wrote it died before its event.
THEOREM EveryStatusIsExplained == Spec => []StatusesAreExplained
<1>1. Init => Inv /\ StatusesAreExplained
  BY ParametersAssumption
     DEF Init, Inv, TypeOK, Held, Validated, Grounded, Idle, Missing, StatusesAreExplained
<1>2. Inv /\ StatusesAreExplained /\ [Next]_vars => Inv' /\ StatusesAreExplained'
  BY InvStep, ExplainedStep
<1>. QED
  BY <1>1, <1>2, PTL DEF Spec
================================================================================
