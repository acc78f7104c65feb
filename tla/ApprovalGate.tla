----------------------------- MODULE ApprovalGate -----------------------------
(***************************************************************************)
(* The human approval gates of the campaign pipeline: ApprovalGate over    *)
(* the approval_requests table.  Each gate (one per process that builds    *)
(* one) answers from a private cache that it fills from the table when it  *)
(* is constructed and whenever a request is missing from it.  Pipelines    *)
(* wait on a request by polling their gate, reviewers decide at any gate.  *)
(*                                                                         *)
(* Abstractions.  Reviewer, notes, stage, context and times are left out;  *)
(* requests are ordered as they were saved, which stands for requested_at. *)
(* The methods of a gate hold no await between reading the cache and       *)
(* writing the table, and a gate's cache is private to its process, so     *)
(* each method is one step.  The bus only records the events.              *)
(***************************************************************************)
EXTENDS Naturals, Sequences

CONSTANTS
    Gates,          \* ApprovalGate instances sharing one database
    Requests,       \* approval_request_ids
    Limit,          \* list_approval_requests' default limit (100)
    StoreMayFail    \* UPDATE approval_requests may raise

ASSUME ParametersAssumption == Limit \in Nat \ {0} /\ StoreMayFail \in BOOLEAN

Decisions == {"approved", "rejected"}
Status    == {"pending"} \cup Decisions
Missing   == "none"

VARIABLES
    rows,       \* status of each row of approval_requests, Missing before it exists
    order,      \* the rows in the order they were saved
    cache,      \* self._requests of each gate
    waits,      \* the wait_for_approval call of each gate on each request
    tried,      \* history: the decisions reviewers made, also in calls that failed
    told        \* history: the decisions record_approval returned from without an error

ghosts == <<tried, told>>
vars   == <<rows, order, cache, waits, tried, told>>

\* __init__ of every gate, over an empty table.
Init ==
    /\ rows = [r \in Requests |-> Missing] /\ order = <<>>
    /\ cache = [g \in Gates |-> [r \in Requests |-> Missing]]
    /\ waits = [g \in Gates |-> [r \in Requests |-> "idle"]]
    /\ tried = [r \in Requests |-> {}] /\ told = [r \in Requests |-> <<>>]

--------------------------------------------------------------------------------
(* Reading through the cache.                                              *)

\* list_approval_requests: ORDER BY requested_at DESC LIMIT.
NewestOf(n) == {order[i] : i \in {k \in 1 .. Len(order) : k + n > Len(order)}}
\* Mutant: one request too few is read.
NewestButOne == NewestOf(Limit - 1)
Newest == NewestOf(Limit)

\* _load_from_db replaces the entries of the rows it reads and keeps the others.
Loaded(entries) == [r \in Requests |-> IF r \in Newest THEN rows[r] ELSE entries[r]]

\* What the lookup of r leaves in the cache: it is reloaded on a miss only.
View(g, r) == IF cache[g][r] = Missing THEN Loaded(cache[g]) ELSE cache[g]

\* is_approved and get_approval_request, or a decision that record_approval
\* refuses: nothing but the reload remains of them.
Lookup(g, r) ==
    /\ cache[g][r] = Missing
    /\ cache' = [cache EXCEPT ![g] = View(g, r)]
    /\ UNCHANGED <<rows, order, waits, ghosts>>

--------------------------------------------------------------------------------
(* Requests and decisions.                                                 *)

\* request_approval: the id is fresh; a failing INSERT changes nothing.
RequestApproval(g, r) ==
    /\ rows[r] = Missing
    /\ rows' = [rows EXCEPT ![r] = "pending"]
    /\ order' = Append(order, r)
    /\ cache' = [cache EXCEPT ![g][r] = "pending"]
    /\ UNCHANGED <<waits, ghosts>>

\* Mutant: a decided request may be decided again.
Known(status) == status # Missing
Undecided(status) == status = "pending"

\* Mutant: the decision is not kept in memory.
Forgotten(entries, r, d) == entries
Remembered(entries, r, d) == [entries EXCEPT ![r] = d]

\* Mutant: the decision is never written.
SavedNowhere(r, d) == rows
Saved(r, d) == [rows EXCEPT ![r] = d]

\* Mutant: a failed write is swallowed and the reviewer is told all is well.
AnsweredAnyway(r, d, stored) == [told EXCEPT ![r] = Append(@, d)]
Answered(r, d, stored) == IF stored THEN [told EXCEPT ![r] = Append(@, d)] ELSE told

\* record_approval: the cached request is decided before the row is, so the
\* decision stays in memory when the UPDATE raises.
RecordApproval(g, r, d) ==
    LET view == View(g, r) IN
    /\ Undecided(view[r])
    /\ cache' = [cache EXCEPT ![g] = Remembered(view, r, d)]
    /\ tried' = [tried EXCEPT ![r] = @ \cup {d}]
    /\ \E stored \in (IF StoreMayFail THEN BOOLEAN ELSE {TRUE}) :
         /\ rows' = IF stored THEN Saved(r, d) ELSE rows
         /\ told' = Answered(r, d, stored)
    /\ UNCHANGED <<order, waits>>

--------------------------------------------------------------------------------
(* Waiting.                                                                *)

\* Mutant: whatever is not pending counts as approved.
OutcomeIfKnown(status) == IF status \in Decisions THEN "approved" ELSE "waiting"
\* Mutant: the status is returned without asking whether it is decided.
RawStatus(status) == status
Outcome(status) == IF status \in Decisions THEN status ELSE "waiting"

\* One turn of the polling loop; the first is taken before any sleep.  At most
\* one caller waits on a request at a gate, and none after its verdict.
Look(g, r) ==
    /\ cache' = [cache EXCEPT ![g] = View(g, r)]
    /\ waits' = [waits EXCEPT ![g][r] = Outcome(View(g, r)[r])]
    /\ UNCHANGED <<rows, order, ghosts>>

StartWait(g, r) == waits[g][r] \in {"idle", "timed_out"} /\ Look(g, r)
Poll(g, r)      == waits[g][r] = "waiting" /\ Look(g, r)

\* Mutant: the deadline is only tested for a request that exists.
ExpireKnown(g, r) ==
    /\ waits[g][r] = "waiting" /\ cache[g][r] # Missing
    /\ waits' = [waits EXCEPT ![g][r] = "timed_out"]
    /\ UNCHANGED <<rows, order, cache, ghosts>>

\* The deadline passed during the last sleep; the status is not read again.
Expire(g, r) ==
    /\ waits[g][r] = "waiting"
    /\ waits' = [waits EXCEPT ![g][r] = "timed_out"]
    /\ UNCHANGED <<rows, order, cache, ghosts>>

\* The process of g restarts: its waiters are gone and a new gate is built.
Restart(g) ==
    /\ cache' = [cache EXCEPT ![g] = Loaded([r \in Requests |-> Missing])]
    /\ waits' = [waits EXCEPT ![g] = [r \in Requests |->
                    IF waits[g][r] = "waiting" THEN "idle" ELSE waits[g][r]]]
    /\ UNCHANGED <<rows, order, ghosts>>

Next ==
    \E g \in Gates :
        \/ Restart(g)
        \/ \E r \in Requests :
             \/ Lookup(g, r) \/ RequestApproval(g, r)
             \/ \E d \in Decisions : RecordApproval(g, r, d)
             \/ StartWait(g, r) \/ Poll(g, r) \/ Expire(g, r)

Spec == Init /\ [][Next]_vars

\* The event loop wakes every sleeping waiter and its deadline comes.
FairSpec == Spec /\ \A g \in Gates, r \in Requests : WF_vars(Expire(g, r))

--------------------------------------------------------------------------------
(* Properties.                                                             *)

\* Type invariant: rows and caches hold statuses, a wait holds its progress.
TypeOK ==
    /\ rows \in [Requests -> {Missing} \cup Status]
    /\ order \in Seq(Requests)
    /\ cache \in [Gates -> [Requests -> {Missing} \cup Status]]
    /\ waits \in [Gates -> [Requests -> {"idle", "waiting", "timed_out"} \cup Decisions]]
    /\ tried \in [Requests -> SUBSET Decisions] /\ told \in [Requests -> Seq(Decisions)]

\* A request is decided at most once, whatever gates are rebuilt in between:
\* record_approval refuses a request that is already decided.
DecidedOnce == \A r \in Requests : Len(told[r]) <= 1

\* The verdict a pipeline acted upon is the one the table keeps.
VerdictIsRecorded ==
    \A g \in Gates, r \in Requests :
        waits[g][r] \in Decisions => rows[r] = waits[g][r]

\* A pipeline never gets a verdict that no reviewer gave, at any gate and whatever
\* writes fail: caches lag behind the reviewers and never invent a decision.
VerdictWasGiven ==
    \A g \in Gates, r \in Requests :
        waits[g][r] \in Decisions => waits[g][r] \in tried[r]

\* A pending request can be decided at some gate, also after restarts: it is
\* cached there or found by the reload that record_approval falls back to.
StillDecidable ==
    \A r \in Requests : rows[r] = "pending" => \E g \in Gates : View(g, r)[r] = "pending"

\* Through any restarts, a request can be decided as long as it is pending and
\* never after that.
DecidableOnce == DecidedOnce /\ StillDecidable

\* What a reviewer was told is durable: the table has the last decision that
\* record_approval returned from, and no decision that it did not.
ReviewerIsTold ==
    \A r \in Requests :
        IF told[r] = <<>> THEN rows[r] \notin Decisions
                          ELSE rows[r] = told[r][Len(told[r])]

\* Nobody starts to wait for a decision that the table already has: the first
\* poll answers it.
NoBlindWait ==
    [][\A g \in Gates, r \in Requests :
          waits[g][r] # "waiting" /\ waits'[g][r] = "waiting" => rows[r] \notin Decisions]_vars

\* Every wait ends, for requests that do not exist too.
WaitEnds ==
    \A g \in Gates, r \in Requests : waits[g][r] = "waiting" ~> waits[g][r] # "waiting"
================================================================================
