------------------------------ MODULE BookingFlow ------------------------------
(***************************************************************************)
(* One booking job: the HTTP endpoints, the booking service and the        *)
(* DealBookingFlow it drives.  The kickoff researches the channels         *)
(* concurrently and holds the recommendations for approval; approval       *)
(* requests then execute the bookings, POST /approve on the event loop and *)
(* POST /approve-all on a worker thread that leaves the loop free.         *)
(*                                                                         *)
(* Abstractions.  A crew's free text is the set of items parsed from it; a *)
(* recommendation is its channel, product, cost and impressions.  Booking  *)
(* one recommendation is a single step: the whole of what a MultiSeller    *)
(* run (or the Meta API) may do with it is that the counterparty holds a   *)
(* deal, that the flow learns of it, both or neither.  Audience planning   *)
(* never fails the flow and is left out, as are progress, errors, events.  *)
(***************************************************************************)
EXTENDS Integers, FiniteSets, FiniteSetsExt

CONSTANTS
    Channels,       \* channels with a research crew
    Branding,       \* the one channel whose research announces itself
    Social,         \* channels booked through the Meta API
    Items,          \* what crews may propose: [product, cost, impressions]
    MaxItems,       \* how many items one crew proposes at most
    Allocations,    \* the budget splits the portfolio crew may return
    Budget,         \* campaign_brief["budget"]
    Requests,       \* approval requests
    Wants,          \* Wants[r]: approved_product_ids, or None for approve-all
    Itself,         \* the approve_all call that an auto_approve job makes by itself
    AutoApprove,    \* the values of auto_approve that jobs carry
    StoreMayFail,   \* the best-effort writes to the DealStore may fail
    None            \* Python's None

Products == {i.product : i \in Items}
Threads  == Requests \cup {Itself}

ASSUME ItemsAssumption ==
    \A i \in Items : i.cost \in Nat /\ i.impressions \in Nat
ASSUME AllocationsAssumption == Allocations \subseteq [Channels -> Nat]
ASSUME ParametersAssumption ==
    /\ IsFiniteSet(Channels) /\ Social \subseteq Channels
    /\ Budget \in Nat /\ MaxItems \in Nat
    /\ \A r \in Requests : Wants[r] = None \/ Wants[r] \subseteq Products
    /\ Itself \notin Requests /\ None \notin Threads
    /\ AutoApprove \in (SUBSET BOOLEAN) \ {{}} /\ StoreMayFail \in BOOLEAN

MinOf(x, y) == IF x < y THEN x ELSE y

\* Mutant: every line is clamped to the campaign budget.
CampaignLimit(split, ch) == Budget

\* validate_and_clamp_recommendation: a line costs at most what its channel
\* was allocated, or the campaign budget when it was allocated nothing.
CostLimit(split, ch) == IF split[ch] > 0 THEN split[ch] ELSE Budget
Clamped(ch, i, limit) ==
    [channel |-> ch, product |-> i.product, impressions |-> i.impressions,
     cost |-> MinOf(i.cost, limit)]

Rec == {Clamped(ch, i, CostLimit(al, ch)) : ch \in Channels, i \in Items, al \in Allocations}
ASSUME NoneAssumption ==
    None \notin Rec /\ None \notin {"awaiting_approval", "booked", "failed", "success"}

VARIABLES
    up,         \* the process is alive
    job,        \* job["status"]
    saved,      \* status of the job's row in the jobs table
    loop,       \* the request that occupies the event loop, or None
    step,       \* where kickoff is
    flow,       \* state.execution_status
    alloc,      \* state.budget_allocations
    research,   \* progress of each research crew
    found,      \* state.channel_recommendations; None where there is no entry
    pending,    \* state.pending_approvals
    status,     \* rec.status
    worker,     \* the approval executing on each thread
    lines,      \* state.booked_lines: [rec, by]
    deals,      \* deals held by sellers and by Meta (external): [rec, by, known]
    rows,       \* status of the recommendation's row in the deals table
    records     \* booking_records rows: [rec, by]

kickoff  == <<step, alloc, research, found, pending>>
store    == <<rows, records>>
vars     == <<up, job, saved, loop, step, flow, alloc, research, found, pending,
              status, worker, lines, deals, rows, records>>

Idle == [pc |-> "idle", ids |-> {}, todo |-> {}, results |-> {}, current |-> None,
         outcome |-> None]

Init ==
    /\ up = TRUE /\ job = "pending" /\ saved = "pending" /\ loop = None
    /\ step = "queued" /\ flow = "initialized"
    /\ alloc = [ch \in Channels |-> 0]
    /\ research = [ch \in Channels |-> "waiting"]
    /\ found = [ch \in Channels |-> None]
    /\ pending = {} /\ status = [r \in Rec |-> None]
    /\ worker = [t \in Threads |-> Idle]
    /\ lines = {} /\ deals = {}
    /\ rows = [r \in Rec |-> None] /\ records = {}

\* persist_job and the other best-effort writes never raise.
Persist(s)  == saved' \in IF StoreMayFail THEN {s, saved} ELSE {s}
Written(new, old) == IF StoreMayFail THEN {new, old} ELSE {new}

--------------------------------------------------------------------------------
(* The kickoff.                                                            *)

StartJob ==
    /\ up /\ step = "queued"
    /\ job' = "running" /\ Persist("running")
    /\ step' = "brief"
    /\ UNCHANGED <<up, loop, flow, alloc, research, found, pending, status,
                   worker, lines, deals, store>>

\* validation_failed cannot happen to a job of POST /bookings, whose request
\* model demands every field and a positive budget; a CLI brief may lack them.
ReceiveBrief ==
    /\ up /\ step = "brief"
    /\ \/ flow' = "brief_received" /\ step' = "allocate"
       \/ flow' = "validation_failed" /\ step' = "skip"
    /\ UNCHANGED <<up, job, saved, loop, alloc, research, found, pending, status,
                   worker, lines, deals, store>>

AllocateBudget ==
    /\ up /\ step = "allocate"
    /\ \/ flow' = "budget_allocated" /\ step' = "research" /\ alloc' \in Allocations
       \/ flow' = "failed" /\ step' = "skip" /\ UNCHANGED alloc
    /\ UNCHANGED <<up, job, saved, loop, research, found, pending, status,
                   worker, lines, deals, store>>

\* "skipped" after a failed allocation, "no_budget" without an allocation.
ResearchSkipped(ch) ==
    /\ up /\ step \in {"research", "skip"} /\ research[ch] = "waiting"
    /\ step = "skip" \/ alloc[ch] = 0
    /\ research' = [research EXCEPT ![ch] = "done"]
    /\ UNCHANGED <<up, job, saved, loop, step, flow, alloc, found, pending, status,
                   worker, lines, deals, store>>

ResearchStarts(ch) ==
    /\ up /\ step = "research" /\ research[ch] = "waiting" /\ alloc[ch] > 0
    /\ research' = [research EXCEPT ![ch] = "running"]
    /\ flow' = IF ch = Branding THEN "researching" ELSE flow
    /\ UNCHANGED <<up, job, saved, loop, step, alloc, found, pending, status,
                   worker, lines, deals, store>>

\* The crew's items cross the clamp, or the crew fails and leaves no entry.
ResearchEnds(ch) ==
    /\ up /\ step = "research" /\ research[ch] = "running"
    /\ research' = [research EXCEPT ![ch] = "done"]
    /\ \/ UNCHANGED found
       \/ \E items \in {S \in SUBSET Items : IsFiniteSet(S) /\ Cardinality(S) <= MaxItems} :
             found' = [found EXCEPT ![ch] =
                         {Clamped(ch, i, CostLimit(alloc, ch)) : i \in items}]
    /\ UNCHANGED <<up, job, saved, loop, step, flow, alloc, pending, status,
                   worker, lines, deals, store>>

Active   == {ch \in Channels : alloc[ch] > 0}
Reported == {ch \in Channels : found[ch] # None}
\* Mutants: consolidation fires after the first crew, as it did with or_; it
\* waits until every crew has reported.
SomeReady     == \E ch \in Channels : research[ch] = "done"
EveryReported == \A ch \in Channels : found[ch] # None

Ready    == \A ch \in Channels : research[ch] = "done"

\* The flow cannot be built, or kickoff raises: the job fails.
KickoffRaises ==
    /\ up /\ step \in {"brief", "allocate", "research", "skip"}
    /\ step' = "raised"
    /\ job' = "failed" /\ Persist("failed")
    /\ UNCHANGED <<up, loop, flow, alloc, research, found, pending, status,
                   worker, lines, deals, store>>

\* Every recommendation is held for approval and gets a row; when an active
\* channel has not reported, nothing happens at all.
Consolidate ==
    /\ up /\ step \in {"research", "skip"} /\ Ready
    /\ step' = "returned"
    /\ IF Active \subseteq Reported
       THEN LET recs == UNION {found[ch] : ch \in Reported}
            IN  /\ pending' = recs
                /\ flow' = "awaiting_approval"
                /\ status' = [r \in Rec |-> IF r \in recs THEN "pending_approval"
                                            ELSE status[r]]
                /\ \E kept \in IF StoreMayFail THEN SUBSET recs ELSE {recs} :
                      rows' = [r \in Rec |-> IF r \in kept THEN "awaiting_approval"
                                             ELSE rows[r]]
       ELSE UNCHANGED <<pending, flow, status, rows>>
    /\ UNCHANGED <<up, job, saved, loop, alloc, research, found, worker, lines,
                   deals, records>>

AllIds == {r.product : r \in pending}
Begin(ids) == [Idle EXCEPT !.pc = "marking", !.ids = ids, !.todo = pending]

\* execute_booking resumes on the event loop when kickoff has returned; nothing
\* reads the job's auto_approve before.
KickoffReturns ==
    /\ up /\ step = "returned" /\ loop = None
    /\ step' = "handed_over"
    /\ \/ /\ TRUE \in AutoApprove
          /\ worker' = [worker EXCEPT ![Itself] = Begin(AllIds)]
          /\ UNCHANGED <<job, saved>>
       \/ /\ FALSE \in AutoApprove
          /\ job' = "awaiting_approval" /\ Persist("awaiting_approval")
          /\ UNCHANGED worker
    /\ UNCHANGED <<up, loop, flow, alloc, research, found, pending, status,
                   lines, deals, store>>

--------------------------------------------------------------------------------
(* The approval endpoints.  Both check job["status"] on the event loop;    *)
(* neither changes it before the bookings have been executed.              *)

OnLoop(t) == t \in Requests /\ Wants[t] # None

RequestApproval(r) ==
    /\ up /\ loop = None /\ worker[r].pc = "idle"
    /\ job = "awaiting_approval"
    /\ worker' = [worker EXCEPT ![r] = Begin(IF Wants[r] = None THEN AllIds ELSE Wants[r])]
    /\ loop' = IF OnLoop(r) THEN r ELSE None
    /\ UNCHANGED <<up, job, saved, kickoff, flow, status, lines, deals, store>>

\* approve_recommendations marks the shared recommendations one by one.
Mark(t, r) ==
    /\ up /\ worker[t].pc = "marking" /\ r \in worker[t].todo
    /\ status' = [status EXCEPT ![r] = IF r.product \in worker[t].ids
                                       THEN "approved" ELSE "rejected"]
    /\ worker' = [worker EXCEPT ![t].todo = @ \ {r}]
    /\ UNCHANGED <<up, job, saved, loop, kickoff, flow, lines, deals, store>>

MarkingDone(t) ==
    /\ up /\ worker[t].pc = "marking" /\ worker[t].todo = {}
    /\ flow' = "executing_bookings"
    /\ worker' = [worker EXCEPT ![t].pc = "selecting"]
    /\ UNCHANGED <<up, job, saved, loop, kickoff, status, lines, deals, store>>

\* Mutants: what is executed is everything that was held, not what was
\* approved; nothing is deduplicated; the ceiling is applied line by line.
AllHeld               == pending
NotDeduped(chosen, recs) == chosen = recs
LineExceeds(recs)     == \E r \in recs : r.cost > Budget

ApprovedNow == {r \in pending : status[r] = "approved"}

\* One recommendation per product: one with the most impressions.
IsDeduped(chosen, recs) ==
    /\ chosen \subseteq recs
    /\ \A r \in recs : \E c \in chosen : c.product = r.product
    /\ \A c \in chosen, r \in recs :
          c.product = r.product =>
              c.impressions >= r.impressions /\ (r \in chosen => r = c)

Cost(recs) == MapThenSumSet(LAMBDA r : r.cost, recs)

\* enforce_spend_ceiling on the approved total.
ExceedsCeiling(recs) == Cost(recs) > Budget

Stop(t, outcome, status1) ==
    /\ flow' = status1
    /\ worker' = [worker EXCEPT ![t].pc = "reporting", ![t].outcome = outcome]

SelectApproved(t) ==
    /\ up /\ worker[t].pc = "selecting"
    /\ \E chosen \in SUBSET ApprovedNow :
          /\ IsDeduped(chosen, ApprovedNow)
          /\ IF chosen = {} THEN Stop(t, "success", "completed")
             ELSE IF ExceedsCeiling(chosen) THEN Stop(t, "rejected", "failed")
             ELSE /\ worker' = [worker EXCEPT ![t].pc = "booking", ![t].todo = chosen]
                  /\ UNCHANGED flow
    /\ UNCHANGED <<up, job, saved, loop, kickoff, status, lines, deals, store>>

MetaRecs(t)   == {r \in worker[t].todo : r.channel \in Social}

\* Social recommendations come first, each recorded before the next is booked;
\* then every other one is taken through the orchestrator.
Bookable(t, r) == r \in worker[t].todo /\ (MetaRecs(t) # {} => r \in MetaRecs(t))

\* The counterparty may hold a deal the flow does not learn of: an ad-less Meta
\* campaign, a seller's deal behind a lost reply.
BookOne(t, r) ==
    /\ up /\ worker[t].pc = "booking" /\ Bookable(t, r)
    /\ \E learned, orphaned \in BOOLEAN :
          /\ r.channel \in Social => ~(learned /\ orphaned)
          /\ deals' = deals
                \cup (IF learned  THEN {[rec |-> r, by |-> t, known |-> TRUE]} ELSE {})
                \cup (IF orphaned THEN {[rec |-> r, by |-> t, known |-> FALSE]} ELSE {})
          /\ worker' = [worker EXCEPT
                ![t].todo = @ \ {r},
                ![t].results = @ \cup {[rec |-> r, booked |-> learned]},
                ![t].pc = IF r.channel \in Social \/ worker[t].todo = {r}
                          THEN "recording" ELSE "booking"]
    /\ UNCHANGED <<up, job, saved, loop, kickoff, flow, status, lines, store>>

\* update_deal_status: the state machine accepts nothing from "booked" or
\* "failed" to either of them; "awaiting_approval" is not one of its states,
\* and a row in it accepts anything.
Updated(r, new) == IF rows[r] = "awaiting_approval" THEN new ELSE rows[r]

RecordFailure(t, r) ==
    /\ up /\ worker[t].pc = "recording" /\ worker[t].current = None
    /\ [rec |-> r, booked |-> FALSE] \in worker[t].results
    /\ worker' = [worker EXCEPT ![t].results = @ \ {[rec |-> r, booked |-> FALSE]}]
    /\ \E s \in Written(Updated(r, "failed"), rows[r]) : rows' = [rows EXCEPT ![r] = s]
    /\ UNCHANGED <<up, job, saved, loop, kickoff, flow, status, lines, deals, records>>

\* The booked line and its booking record, then the status of the row.
\* Mutant: the booking record is not written.
KeepNoRecord(t, r) == UNCHANGED records
KeepRecord(t, r) ==
    IF rows[r] = None THEN UNCHANGED records
    ELSE records' \in Written(records \cup {[rec |-> r, by |-> t]}, records)

RecordLine(t, r) ==
    /\ up /\ worker[t].pc = "recording" /\ worker[t].current = None
    /\ [rec |-> r, booked |-> TRUE] \in worker[t].results
    /\ lines' = lines \cup {[rec |-> r, by |-> t]}
    /\ KeepRecord(t, r)
    /\ worker' = [worker EXCEPT ![t].results = @ \ {[rec |-> r, booked |-> TRUE]},
                                ![t].current = r]
    /\ UNCHANGED <<up, job, saved, loop, kickoff, flow, status, deals, rows>>

RecordStatus(t) ==
    /\ up /\ worker[t].pc = "recording" /\ worker[t].current # None
    /\ LET r == worker[t].current
       IN  \E s \in Written(Updated(r, "booked"), rows[r]) : rows' = [rows EXCEPT ![r] = s]
    /\ worker' = [worker EXCEPT ![t].current = None]
    /\ UNCHANGED <<up, job, saved, loop, kickoff, flow, status, lines, deals, records>>

\* Mutant: the execution moves on before every result has been recorded.
RecordedEarly(t) == up /\ worker[t].pc = "recording" /\ worker[t].current = None

Recorded(t) ==
    /\ up /\ worker[t].pc = "recording"
    /\ worker[t].current = None /\ worker[t].results = {}

BookRest(t) ==
    /\ Recorded(t) /\ worker[t].todo # {}
    /\ worker' = [worker EXCEPT ![t].pc = "booking"]
    /\ UNCHANGED <<up, job, saved, loop, kickoff, flow, status, lines, deals, store>>

\* "success" as soon as the flow has any booked line at all.
Conclude(t) ==
    /\ Recorded(t) /\ worker[t].todo = {}
    /\ IF lines # {} THEN Stop(t, "success", "completed") ELSE Stop(t, "failed", "failed")
    /\ UNCHANGED <<up, job, saved, loop, kickoff, status, lines, deals, store>>

\* Mutants: the outcome is stored as the status; every outcome completes the
\* job; a request waits for the event loop it occupies itself.
RawOutcome(t) == worker[t].outcome
Completed(t)  == "completed"
LoopFree(t)   == loop = None

\* The booking service resumes on the event loop.  An auto_approve job is
\* completed whatever the outcome.
JobStatus(t) ==
    IF t = Itself \/ worker[t].outcome = "success" THEN "completed" ELSE "failed"

Resumes(t) == loop = IF OnLoop(t) THEN t ELSE None

Report(t) ==
    /\ up /\ worker[t].pc = "reporting" /\ Resumes(t)
    /\ job' = JobStatus(t) /\ Persist(JobStatus(t))
    /\ loop' = None
    /\ worker' = [worker EXCEPT ![t].pc = "done"]
    /\ UNCHANGED <<up, kickoff, flow, status, lines, deals, store>>

\* The process dies: the jobs registry and the live flow die with it, and no
\* start-up code reads the jobs table back.
Crash ==
    /\ up /\ up' = FALSE
    /\ UNCHANGED <<job, saved, loop, kickoff, flow, status, worker, lines, deals, store>>

Kickoff ==
    \/ StartJob \/ ReceiveBrief \/ AllocateBudget
    \/ \E ch \in Channels : ResearchSkipped(ch) \/ ResearchStarts(ch) \/ ResearchEnds(ch)
    \/ Consolidate \/ KickoffReturns

Execute(t) ==
    \/ \E r \in pending : \/ Mark(t, r) \/ BookOne(t, r)
                          \/ RecordFailure(t, r) \/ RecordLine(t, r)
    \/ MarkingDone(t) \/ SelectApproved(t) \/ RecordStatus(t)
    \/ BookRest(t) \/ Conclude(t) \/ Report(t)

Next ==
    \/ Kickoff \/ KickoffRaises
    \/ \E r \in Requests : RequestApproval(r)
    \/ \E t \in Threads : Execute(t)
    \/ Crash

Spec == Init /\ [][Next]_vars

\* Every crew, seller and store call returns, and the scheduler starves no
\* thread.  Nobody is obliged to send an approval, and nothing must raise or
\* crash.
FairSpec == Spec /\ WF_vars(Kickoff) /\ \A t \in Threads : WF_vars(Execute(t))

--------------------------------------------------------------------------------
(* Properties.                                                             *)

Pcs == {"idle", "marking", "selecting", "booking", "recording", "reporting", "done"}
Worker == [pc : Pcs, ids : SUBSET Products, todo : SUBSET Rec,
           results : SUBSET [rec : Rec, booked : BOOLEAN], current : Rec \cup {None},
           outcome : {None, "success", "failed", "rejected"}]
JobStatuses == {"pending", "running", "awaiting_approval", "completed", "failed"}

\* Type invariant.
TypeOK ==
    /\ up \in BOOLEAN /\ job \in JobStatuses /\ saved \in JobStatuses
    /\ loop \in Requests \cup {None}
    /\ step \in {"queued", "brief", "allocate", "research", "skip", "raised", "returned",
                "handed_over"}
    /\ flow \in {"initialized", "brief_received", "validation_failed", "budget_allocated",
                 "researching", "awaiting_approval", "executing_bookings", "completed",
                 "failed"}
    /\ alloc \in [Channels -> Nat]
    /\ research \in [Channels -> {"waiting", "running", "done"}]
    /\ \A ch \in Channels : found[ch] = None \/ found[ch] \subseteq Rec
    /\ pending \subseteq Rec
    /\ status \in [Rec -> {None, "pending_approval", "approved", "rejected"}]
    /\ \A t \in Threads : worker[t] \in Worker
    /\ lines \subseteq [rec : Rec, by : Threads]
    /\ deals \subseteq [rec : Rec, by : Threads, known : BOOLEAN]
    /\ rows \in [Rec -> {None, "awaiting_approval", "booked", "failed"}]
    /\ records \subseteq [rec : Rec, by : Threads]

Accepted(t) == worker[t].pc # "idle"

\* Nothing is ever booked, not even a deal the buyer loses track of, unless an
\* operator approved that product or the job approves everything by itself.
ApprovedOnly ==
    \A d \in deals : \E t \in Threads : Accepted(t) /\ d.rec.product \in worker[t].ids

\* "So the same inventory is never booked twice": one booked line per product.
BookedOnce == \A x, y \in lines : x.rec.product = y.rec.product => x = y

\* The bookings of a job never cost more, at the approved prices, than the
\* campaign's budget, although the crews' proposals and the channel
\* allocations may add up to more.
WithinBudget == MapThenSumSet(LAMBDA x : x.rec.cost, lines) <= Budget

\* Approval and booking wait for every crew (consolidation is an and_ of all
\* five), and what a crew proposed is held for approval in full.
ConsolidatesAll ==
    pending # {} => /\ \A ch \in Channels : research[ch] = "done"
                    /\ pending = UNION {found[ch] : ch \in Reported}

\* No recommendation costs more than its channel was allocated.
WithinAllocation == \A r \in pending : alloc[r.channel] > 0 /\ r.cost <= alloc[r.channel]

\* The deals table runs behind the booking records, never ahead: a row says
\* "booked" only when its record is in, wherever the process dies.
BookedRowHasRecord == \A r \in Rec : rows[r] = "booked" => \E x \in records : x.rec = r

\* When the jobs table says the job is over, every deal the flow knows of has
\* been recorded and its row says so.
SavedJobIsComplete ==
    saved \in {"completed", "failed"} =>
        \A d \in deals : d.known =>
            [rec |-> d.rec, by |-> d.by] \in records /\ rows[d.rec] = "booked"

\* The three stores agree wherever the process dies: rows do not run ahead of
\* records, and a saved outcome does not run ahead of either.
RecordsAgree == BookedRowHasRecord /\ SavedJobIsComplete

\* However executions overlap, and whatever the store loses, each one accounts
\* for exactly the deals it learned of.
BookingsReported ==
    \A t \in Threads : worker[t].pc \in {"reporting", "done"} =>
        {d.rec : d \in {e \in deals : e.by = t /\ e.known}}
            = {x.rec : x \in {y \in lines : y.by = t}}

\* "completed" means deals booked, or no recommendations approved.
CompletedMeansBooked ==
    job = "completed" => lines # {} \/ ApprovedNow = {}

\* A request that was accepted is answered.
ApprovalAnswered ==
    \A r \in Requests : Accepted(r) ~> (worker[r].pc = "done" \/ ~up)

\* Every job leaves "running": it is held for approval, or finished.
JobLeavesRunning == <>(job \in {"awaiting_approval", "completed", "failed"} \/ ~up)
================================================================================
