-------------------------- MODULE CampaignLifecycle --------------------------
(***************************************************************************)
(* The lifecycle of campaigns in CampaignStore: create_campaign and the    *)
(* methods over transition_campaign_status, called from several threads.   *)
(* A transition takes the store's lock three times, to read the row, to    *)
(* write it and to record the event, and other threads run in between.     *)
(*                                                                         *)
(* Abstractions.  A campaign is its status; the events of a campaign are   *)
(* the set of its (from, to) pairs, without their order or number.         *)
(* update_campaign and update_campaign_status called directly bypass the   *)
(* state machine by design and no code of the repository calls them so.    *)
(***************************************************************************)
EXTENDS Naturals

CONSTANTS
    MaxCrashes, \* bound: calls that die between two locked sections
    Campaigns,
    Threads,
    Methods     \* the lifecycle methods that callers use

Statuses == {"draft", "planning", "booking", "ready", "active", "paused",
             "pacing_hold", "completed", "canceled"}
Missing  == "none"
Terminal == {"completed", "canceled"}
Live     == {"active", "paused", "pacing_hold", "completed"}

\* _build_campaign_automation_rules.
Rules ==
    {<<"draft", "planning">>, <<"planning", "booking">>, <<"booking", "ready">>,
     <<"ready", "active">>, <<"active", "completed">>}
    \cup {"planning", "booking", "ready", "active", "paused", "pacing_hold"} \X {"canceled"}
    \cup {"booking", "ready"} \X {"planning"}
    \cup {"active"} \X {"paused", "pacing_hold"}
    \cup {<<"paused", "active">>, <<"pacing_hold", "active">>, <<"pacing_hold", "paused">>}

\* The lifecycle methods and their targets; hold_campaign stands for a caller
\* that passes PACING_HOLD to transition_campaign_status itself.
Target ==
    [start_planning |-> "planning", start_booking |-> "booking", mark_ready |-> "ready",
     activate_campaign |-> "active", pause_campaign |-> "paused",
     resume_campaign |-> "active", complete_campaign |-> "completed",
     cancel_campaign |-> "canceled", hold_campaign |-> "pacing_hold"]

ASSUME ParametersAssumption == Methods \subseteq DOMAIN Target /\ MaxCrashes \in Nat

VARIABLES
    status,     \* campaigns.status, Missing before the row exists
    been,       \* history: the statuses the row has had
    events,     \* campaign_events: the (from, to) pairs
    lost,       \* history: the pairs whose event died with its call
    crashes,    \* history: how many calls died
    work        \* the call in progress on each thread

vars == <<status, been, events, lost, crashes, work>>

Idle == [pc |-> "idle"]
Call(pc, c, from, to) == [pc |-> pc, campaign |-> c, from |-> from, to |-> to]

Init ==
    /\ status = [c \in Campaigns |-> Missing]
    /\ been = [c \in Campaigns |-> {}]
    /\ events = [c \in Campaigns |-> {}] /\ lost = [c \in Campaigns |-> {}]
    /\ crashes = 0
    /\ work = [t \in Threads |-> Idle]

--------------------------------------------------------------------------------
\* save_campaign inserts the draft; _emit_event("campaign.created") is to come.
CreateCampaign(t, c) ==
    /\ work[t] = Idle /\ status[c] = Missing
    /\ status' = [status EXCEPT ![c] = "draft"]
    /\ been' = [been EXCEPT ![c] = {"draft"}]
    /\ work' = [work EXCEPT ![t] = Call("emit", c, Missing, "draft")]
    /\ UNCHANGED <<events, lost, crashes>>

\* Mutant: the machine is not consulted.
AnyMove(from, to) == TRUE
\* _BaseStateMachine.transition; the default rules have no guards.
Permitted(from, to) == <<from, to>> \in Rules

\* get_campaign and the check of the transient machine.  An unknown campaign and
\* a refused transition raise and change nothing.
BeginTransition(t, c, m) ==
    /\ work[t] = Idle /\ status[c] # Missing
    /\ Permitted(status[c], Target[m])
    /\ work' = [work EXCEPT ![t] = Call("write", c, status[c], Target[m])]
    /\ UNCHANGED <<status, been, events, lost, crashes>>

\* update_campaign_status writes whatever the row says by now.
UpdateStatus(t) ==
    /\ work[t].pc = "write"
    /\ status' = [status EXCEPT ![work[t].campaign] = work[t].to]
    /\ been' = [been EXCEPT ![work[t].campaign] = @ \cup {work[t].to}]
    /\ work' = [work EXCEPT ![t].pc = "emit"]
    /\ UNCHANGED <<events, lost, crashes>>

\* Mutant: the event reports the row as it is when the event is written.
RowNow(w) == [from |-> w.from, to |-> status[w.campaign]]
\* Mutant: the two statuses are exchanged.
AnnouncedSwapped(w) == [from |-> w.to, to |-> w.from]
\* The event reports the statuses of the call.
Announced(w) == [from |-> w.from, to |-> w.to]

EmitEvent(t) ==
    /\ work[t].pc = "emit"
    /\ events' = [events EXCEPT ![work[t].campaign] = @ \cup {Announced(work[t])}]
    /\ work' = [work EXCEPT ![t] = Idle]
    /\ UNCHANGED <<status, been, lost, crashes>>

\* The process dies, or a statement raises, before the call is over.
Crash(t) ==
    /\ work[t] # Idle /\ crashes < MaxCrashes
    /\ crashes' = crashes + 1
    /\ lost' = IF work[t].pc = "emit"
               THEN [lost EXCEPT ![work[t].campaign] = @ \cup {Announced(work[t])}]
               ELSE lost
    /\ work' = [work EXCEPT ![t] = Idle]
    /\ UNCHANGED <<status, been, events>>

Next ==
    \E t \in Threads :
        \/ \E c \in Campaigns :
             CreateCampaign(t, c) \/ \E m \in Methods : BeginTransition(t, c, m)
        \/ UpdateStatus(t) \/ EmitEvent(t) \/ Crash(t)

Spec == Init /\ [][Next]_vars

--------------------------------------------------------------------------------
(* Properties.                                                             *)

Calls ==
    [pc : {"write", "emit"}, campaign : Campaigns,
     from : {Missing} \cup Statuses, to : Statuses]
Changes == [from : {Missing} \cup Statuses, to : Statuses]

\* Type invariant.
TypeOK ==
    /\ status \in [Campaigns -> {Missing} \cup Statuses]
    /\ been \in [Campaigns -> SUBSET Statuses]
    /\ crashes \in 0 .. MaxCrashes
    /\ events \in [Campaigns -> SUBSET Changes] /\ lost \in [Campaigns -> SUBSET Changes]
    /\ work \in [Threads -> {Idle} \cup Calls]

\* A campaign that is or was live has been planned, booked and made ready
\* before, whatever calls raced or died: every write was validated against a
\* status that the row really had.
LiveWasPrepared ==
    \A c \in Campaigns :
        status[c] \in Live => {"planning", "booking", "ready"} \subseteq been[c]

\* The calls on c that have written the row and not yet recorded the event.
Announcing(c) == {Announced(work[t]) : t \in {u \in Threads :
                    work[u].pc = "emit" /\ work[u].campaign = c}}

\* Every status a campaign ever had is explained by an event out of a status that
\* it had too.  The event is recorded, about to be, or died with the call that
\* wrote the status: a race alone hides nothing.
StatusesAreExplained ==
    \A c \in Campaigns : \A s \in been[c] :
        \E e \in events[c] \cup Announcing(c) \cup lost[c] :
            e.to = s /\ e.from \in been[c] \cup {Missing}

\* Completed and canceled campaigns stay so.
TerminalIsFinal ==
    [][\A c \in Campaigns : status[c] \in Terminal => status'[c] = status[c]]_vars
================================================================================
