--------------------------- MODULE BookingFlow_proofs ---------------------------
(***************************************************************************)
(* What holds of a booking job for every set of channels, items and        *)
(* approval requests: its types, that nothing is booked without approval   *)
(* and before every crew is done, and that executions account for what     *)
(* they learned; and what serialized approvals add to that.                *)
(***************************************************************************)
EXTENDS BookingFlow, FiniteData_proofs

\* The strengthening of the type invariant: functions have their domains, and crews are
\* at work under one of the splits that the portfolio crew may return.
Formed ==
    /\ worker = [t \in Threads |-> worker[t]]
    /\ found = [ch \in Channels |-> found[ch]]
    /\ step = "research" => alloc \in Allocations
Typed == TypeOK /\ Formed

--------------------------------------------------------------------------------
(* Types.                                                                  *)

\* One worker changes, and is still a worker.
LEMMA WorkerChanges ==
  ASSUME Typed, NEW t \in Threads, NEW w \in Worker, worker' = [worker EXCEPT ![t] = w]
  PROVE  /\ \A u \in Threads : worker'[u] \in Worker
         /\ worker' = [u \in Threads |-> worker'[u]]
         /\ worker'[t] = w
         /\ \A u \in Threads : u # t => worker'[u] = worker[u]
  BY DEF Typed, TypeOK, Formed

\* What an approval starts with.
LEMMA BeginTypes ==
  ASSUME pending \subseteq Rec, NEW ids \in SUBSET Products
  PROVE  /\ Begin(ids) \in Worker
         /\ Begin(ids).pc = "marking" /\ Begin(ids).ids = ids /\ Begin(ids).todo = pending
         /\ Begin(ids).results = {} /\ Begin(ids).current = None
  BY DEF Begin, Idle, Worker, Pcs

\* The research of a channel is about that channel's items, at a cost that its
\* allocation allows.
LEMMA ClampedTypes ==
  ASSUME alloc \in Allocations, NEW ch \in Channels, NEW items \in SUBSET Items
  PROVE  {Clamped(ch, i, CostLimit(alloc, ch)) : i \in items} \subseteq Rec
  BY DEF Rec

\* The products of recommendations are products of items.
LEMMA RecProducts == \A r \in Rec : r.product \in Products
  BY DEF Rec, Clamped, Products

\* The initial states.
LEMMA StartsTyped == Init => Typed
<1> SUFFICES ASSUME Init PROVE Typed
  OBVIOUS
<1>1. Idle \in Worker
  BY DEF Idle, Worker, Pcs
<1>2. TypeOK
  BY <1>1 DEF Init, TypeOK, JobStatuses
<1>3. Formed
  BY DEF Init, Formed
<1>. QED
  BY <1>2, <1>3 DEF Typed
\* The steps of the kickoff keep the types.
LEMMA KickoffTyped == Typed /\ (Kickoff \/ KickoffRaises) => Typed'
<1> SUFFICES ASSUME Typed, Kickoff \/ KickoffRaises PROVE Typed'
  OBVIOUS
<1>. TypeOK /\ Formed
  BY DEF Typed
<1>. USE DEF kickoff, store
<1>1. CASE StartJob
  BY <1>1 DEF StartJob, Persist, TypeOK, Formed, Typed, JobStatuses
<1>2. CASE ReceiveBrief
  BY <1>2 DEF ReceiveBrief, TypeOK, Formed, Typed
<1>3. CASE AllocateBudget
  BY <1>3, AllocationsAssumption DEF AllocateBudget, TypeOK, Formed, Typed
<1>4. ASSUME NEW ch \in Channels, ResearchSkipped(ch) \/ ResearchStarts(ch) PROVE Typed'
  BY <1>4 DEF ResearchSkipped, ResearchStarts, TypeOK, Formed, Typed
<1>5. ASSUME NEW ch \in Channels, ResearchEnds(ch) PROVE Typed'
  <2>1. /\ found' = [c \in Channels |-> found'[c]]
        /\ \A c \in Channels : found'[c] = None \/ found'[c] \subseteq Rec
    <3>1. CASE UNCHANGED found
      BY <3>1 DEF TypeOK, Formed
    <3>2. ASSUME NEW items \in SUBSET Items,
                 found' = [found EXCEPT ![ch] =
                             {Clamped(ch, i, CostLimit(alloc, ch)) : i \in items}]
          PROVE  /\ found' = [c \in Channels |-> found'[c]]
                 /\ \A c \in Channels : found'[c] = None \/ found'[c] \subseteq Rec
      <4>1. {Clamped(ch, i, CostLimit(alloc, ch)) : i \in items} \subseteq Rec
        BY <1>5, ClampedTypes DEF ResearchEnds, Formed
      <4>. QED
        BY <3>2, <4>1 DEF TypeOK, Formed
    <3>. QED
      BY <1>5, <3>1, <3>2 DEF ResearchEnds
  <2>. QED
    BY <1>5, <2>1 DEF ResearchEnds, TypeOK, Formed, Typed
<1>6. CASE Consolidate
  <2> DEFINE recs == UNION {found[ch] : ch \in Reported}
  <2>1. recs \subseteq Rec
    BY DEF Reported, TypeOK
  <2>2. /\ pending' \subseteq Rec /\ flow' \in {flow, "awaiting_approval"}
        /\ status' \in [Rec -> {None, "pending_approval", "approved", "rejected"}]
        /\ rows' \in [Rec -> {None, "awaiting_approval", "booked", "failed"}]
    <3>1. CASE Active \subseteq Reported
      <4>1. /\ pending' = recs /\ flow' = "awaiting_approval"
            /\ status' = [r \in Rec |-> IF r \in recs THEN "pending_approval" ELSE status[r]]
            /\ \E kept : rows' = [r \in Rec |-> IF r \in kept THEN "awaiting_approval"
                                                ELSE rows[r]]
        BY <1>6, <3>1 DEF Consolidate
      <4>. QED
        BY <2>1, <4>1 DEF TypeOK
    <3>2. CASE ~(Active \subseteq Reported)
      BY <1>6, <3>2 DEF Consolidate, TypeOK
    <3>. QED
      BY <3>1, <3>2
  <2>. QED
    BY <1>6, <2>2 DEF Consolidate, TypeOK, Formed, Typed
<1>7. CASE KickoffReturns
  <2>1. \A u \in Threads : worker'[u] \in Worker
    <3>1. AllIds \in SUBSET Products
      BY RecProducts DEF AllIds, TypeOK
    <3>2. pending \subseteq Rec
      BY DEF TypeOK
    <3>3. Begin(AllIds) \in Worker /\ Itself \in Threads
      BY <3>1, <3>2, BeginTypes DEF Threads
    <3>4. worker' = [worker EXCEPT ![Itself] = Begin(AllIds)] \/ worker' = worker
      BY <1>7 DEF KickoffReturns
    <3>. QED
      BY <3>3, <3>4, WorkerChanges DEF TypeOK
  <2>2. worker' = [t \in Threads |-> worker'[t]]
    BY <1>7 DEF KickoffReturns, Formed
  <2>. QED
    BY <1>7, <2>1, <2>2 DEF KickoffReturns, Persist, TypeOK, Formed, Typed, JobStatuses
<1>8. CASE KickoffRaises
  BY <1>8 DEF KickoffRaises, Persist, TypeOK, Formed, Typed, JobStatuses
<1>. QED
  BY <1>1, <1>2, <1>3, <1>4, <1>5, <1>6, <1>7, <1>8 DEF Kickoff
\* What an approval request asks for.
Asked(r) == IF Wants[r] = None THEN AllIds ELSE Wants[r]

\* An approval request starts one execution, on the products it names.
LEMMA RequestBegins ==
  ASSUME Typed, NEW r \in Requests, RequestApproval(r)
  PROVE  /\ Begin(Asked(r)) \in Worker /\ Asked(r) \in SUBSET Products
         /\ worker' = [worker EXCEPT ![r] = Begin(Asked(r))]
         /\ loop' \in Requests \cup {None}
<1>1. Asked(r) \in SUBSET Products
  BY RecProducts, ParametersAssumption DEF Asked, AllIds, Typed, TypeOK
<1>2. Begin(Asked(r)) \in Worker
  BY <1>1, BeginTypes DEF Typed, TypeOK
<1>. QED
  BY <1>1, <1>2 DEF RequestApproval, OnLoop, Asked

\* The steps of an execution keep the types.
LEMMA ExecutionTyped ==
  ASSUME Typed, NEW t \in Threads, Execute(t)
  PROVE  Typed'
<1>. TypeOK /\ Formed
  BY DEF Typed
<1>. USE DEF kickoff, store
<1> DEFINE w == worker[t]
<1>1. w \in Worker
  BY DEF TypeOK
\* A step of t that leaves the kickoff alone, and whose other results are of their types.
<1>2. ASSUME UNCHANGED kickoff, UNCHANGED up,
             job' \in JobStatuses, saved' \in JobStatuses, loop' \in Requests \cup {None},
             flow' \in {flow, "executing_bookings", "completed", "failed"},
             status' \in [Rec -> {None, "pending_approval", "approved", "rejected"}],
             rows' \in [Rec -> {None, "awaiting_approval", "booked", "failed"}],
             lines' \subseteq [rec : Rec, by : Threads],
             deals' \subseteq [rec : Rec, by : Threads, known : BOOLEAN],
             records' \subseteq [rec : Rec, by : Threads],
             NEW new \in Worker, worker' = [worker EXCEPT ![t] = new]
      PROVE  Typed'
  <2>1. /\ \A u \in Threads : worker'[u] \in Worker
        /\ worker' = [u \in Threads |-> worker'[u]]
    BY <1>2, WorkerChanges
  <2>. QED
    BY <1>2, <2>1 DEF TypeOK, Formed, Typed
<1>3. ASSUME NEW r \in pending, Mark(t, r) PROVE Typed'
  <2>1. [w EXCEPT !.todo = @ \ {r}] \in Worker
    BY <1>1 DEF Worker
  <2>2. status' \in [Rec -> {None, "pending_approval", "approved", "rejected"}]
    BY <1>3 DEF Mark, TypeOK
  <2>. QED
    BY <1>2, <1>3, <2>1, <2>2 DEF Mark, TypeOK
<1>4. CASE MarkingDone(t)
  <2>1. [w EXCEPT !.pc = "selecting"] \in Worker
    BY <1>1 DEF Worker, Pcs
  <2>. QED
    BY <1>2, <1>4, <2>1 DEF MarkingDone, TypeOK
<1>5. ASSUME NEW outcome \in {"success", "failed", "rejected"},
             NEW status1 \in {"completed", "failed"}, Stop(t, outcome, status1),
             UNCHANGED <<up, job, saved, loop, kickoff, status, lines, deals, store>>
      PROVE  Typed'
  <2>1. [w EXCEPT !.pc = "reporting", !.outcome = outcome] \in Worker
    BY <1>1 DEF Worker, Pcs
  <2>. QED
    BY <1>2, <1>5, <2>1 DEF Stop, TypeOK
<1>6. CASE SelectApproved(t)
  <2>1. UNCHANGED <<up, job, saved, loop, kickoff, status, lines, deals, store>>
    BY <1>6 DEF SelectApproved
  <2>2. PICK chosen \in SUBSET ApprovedNow :
          \/ Stop(t, "success", "completed") \/ Stop(t, "rejected", "failed")
          \/ /\ worker' = [worker EXCEPT ![t].pc = "booking", ![t].todo = chosen]
             /\ UNCHANGED flow
    BY <1>6 DEF SelectApproved
  <2>3. chosen \subseteq Rec
    BY DEF ApprovedNow, TypeOK
  <2>4. [w EXCEPT !.pc = "booking", !.todo = chosen] \in Worker
    BY <1>1, <2>3 DEF Worker, Pcs
  <2>5. CASE /\ worker' = [worker EXCEPT ![t].pc = "booking", ![t].todo = chosen]
             /\ UNCHANGED flow
    <3>1. worker' = [worker EXCEPT ![t] = [w EXCEPT !.pc = "booking", !.todo = chosen]]
      BY <2>5
    <3>. QED
      BY <1>2, <2>1, <2>4, <2>5, <3>1 DEF TypeOK
  <2>. QED
    BY <1>5, <2>1, <2>2, <2>5
<1>7. ASSUME NEW r \in pending, BookOne(t, r) PROVE Typed'
  <2>1. PICK learned \in BOOLEAN, orphaned \in BOOLEAN :
          /\ deals' = deals
                \cup (IF learned  THEN {[rec |-> r, by |-> t, known |-> TRUE]} ELSE {})
                \cup (IF orphaned THEN {[rec |-> r, by |-> t, known |-> FALSE]} ELSE {})
          /\ worker' = [worker EXCEPT
                ![t].todo = @ \ {r},
                ![t].results = @ \cup {[rec |-> r, booked |-> learned]},
                ![t].pc = IF r.channel \in Social \/ worker[t].todo = {r}
                          THEN "recording" ELSE "booking"]
    BY <1>7 DEF BookOne
  <2> DEFINE pc == IF r.channel \in Social \/ worker[t].todo = {r} THEN "recording" ELSE "booking"
             results == w.results \cup {[rec |-> r, booked |-> learned]}
  <2>2. r \in Rec /\ pc \in Pcs /\ results \subseteq [rec : Rec, booked : BOOLEAN]
    BY <1>1 DEF Worker, Pcs, TypeOK
  <2>3. [w EXCEPT !.todo = @ \ {r}, !.results = results, !.pc = pc] \in Worker
    <3>. HIDE DEF pc, results
    <3>. QED
      BY <1>1, <2>2 DEF Worker
  <2>4. deals' \subseteq [rec : Rec, by : Threads, known : BOOLEAN]
    <3>1. deals \subseteq [rec : Rec, by : Threads, known : BOOLEAN]
      BY DEF TypeOK
    <3>2. \A b \in BOOLEAN : [rec |-> r, by |-> t, known |-> b] \in
                               [rec : Rec, by : Threads, known : BOOLEAN]
      BY <2>2
    <3>. QED
      BY <2>1, <3>1, <3>2
  <2>5. worker' = [worker EXCEPT ![t] =
                     [w EXCEPT !.todo = @ \ {r}, !.results = results, !.pc = pc]]
    BY <2>1
  <2>. QED
    BY <1>2, <1>7, <2>3, <2>4, <2>5 DEF BookOne, TypeOK
<1>8. ASSUME NEW r \in Rec, NEW s \in {rows[r], "booked", "failed"},
             rows' = [rows EXCEPT ![r] = s]
      PROVE  rows' \in [Rec -> {None, "awaiting_approval", "booked", "failed"}]
  BY <1>8 DEF TypeOK
<1>9. ASSUME NEW r \in pending, RecordFailure(t, r) PROVE Typed'
  <2>1. [w EXCEPT !.results = @ \ {[rec |-> r, booked |-> FALSE]}] \in Worker
    BY <1>1 DEF Worker
  <2>2. r \in Rec /\ \E s \in {rows[r], "booked", "failed"} : rows' = [rows EXCEPT ![r] = s]
    BY <1>9 DEF RecordFailure, Written, Updated, TypeOK
  <2>. QED
    BY <1>2, <1>8, <1>9, <2>1, <2>2 DEF RecordFailure, TypeOK
<1>10. ASSUME NEW r \in pending, RecordLine(t, r) PROVE Typed'
  <2>1. r \in Rec
    BY DEF TypeOK
  <2>2. [w EXCEPT !.results = @ \ {[rec |-> r, booked |-> TRUE]}, !.current = r] \in Worker
    BY <1>1, <2>1 DEF Worker
  <2>3. records' \subseteq [rec : Rec, by : Threads]
    BY <1>10, <2>1 DEF RecordLine, KeepRecord, Written, TypeOK
  <2>4. worker' = [worker EXCEPT ![t] =
                     [w EXCEPT !.results = @ \ {[rec |-> r, booked |-> TRUE]}, !.current = r]]
    BY <1>10 DEF RecordLine
  <2>5. lines' \subseteq [rec : Rec, by : Threads]
    BY <1>10, <2>1 DEF RecordLine, TypeOK
  <2>. QED
    BY <1>2, <1>10, <2>2, <2>3, <2>4, <2>5 DEF RecordLine, TypeOK
<1>11. CASE RecordStatus(t)
  <2>1. w.current \in Rec
    BY <1>1, <1>11 DEF RecordStatus, Worker
  <2>2. [w EXCEPT !.current = None] \in Worker
    BY <1>1 DEF Worker
  <2>3. \E s \in {rows[w.current], "booked", "failed"} : rows' = [rows EXCEPT ![w.current] = s]
    BY <1>11 DEF RecordStatus, Written, Updated
  <2>. QED
    BY <1>2, <1>8, <1>11, <2>1, <2>2, <2>3 DEF RecordStatus, TypeOK
<1>12. CASE BookRest(t)
  <2>1. [w EXCEPT !.pc = "booking"] \in Worker
    BY <1>1 DEF Worker, Pcs
  <2>. QED
    BY <1>2, <1>12, <2>1 DEF BookRest, TypeOK
<1>13. CASE Conclude(t)
  BY <1>5, <1>13 DEF Conclude
<1>14. CASE Report(t)
  <2>1. [w EXCEPT !.pc = "done"] \in Worker
    BY <1>1 DEF Worker, Pcs
  <2>2. job' \in JobStatuses /\ saved' \in JobStatuses /\ loop' = None
    BY <1>14 DEF Report, JobStatus, JobStatuses, Persist, TypeOK
  <2>. QED
    BY <1>2, <1>14, <2>1, <2>2 DEF Report, TypeOK
<1>. QED
  BY <1>3, <1>4, <1>6, <1>7, <1>9, <1>10, <1>11, <1>12, <1>13, <1>14 DEF Execute

\* Every step keeps the types.
LEMMA StaysTyped == Typed /\ [Next]_vars => Typed'
<1> SUFFICES ASSUME Typed, [Next]_vars PROVE Typed'
  OBVIOUS
<1>1. ASSUME NEW r \in Requests, RequestApproval(r) PROVE Typed'
  <2>1. /\ \A u \in Threads : worker'[u] \in Worker
        /\ worker' = [u \in Threads |-> worker'[u]]
    BY <1>1, RequestBegins, WorkerChanges DEF Threads
  <2>. QED
    BY <1>1, <2>1, RequestBegins DEF RequestApproval, kickoff, store, Typed, TypeOK, Formed
<1>2. CASE Crash
  BY <1>2 DEF Crash, kickoff, store, Typed, TypeOK, Formed
<1>3. CASE UNCHANGED vars
  BY <1>3 DEF vars, Typed, TypeOK, Formed
<1>. QED
  BY <1>1, <1>2, <1>3, KickoffTyped, ExecutionTyped DEF Next

\* The job, its flow, the recommendations, the executions and the stores keep their types.
THEOREM JobTypes == Spec => []TypeOK
<1>1. Typed => TypeOK
  BY DEF Typed
<1>. QED
  BY StartsTyped, StaysTyped, <1>1, PTL DEF Spec
--------------------------------------------------------------------------------
(* Consolidation.                                                          *)

\* The strengthening: before the kickoff is over, nothing is pending.
NothingPendingYet == step \notin {"returned", "handed_over"} => pending = {}
HeldInv == Typed /\ NothingPendingYet /\ ConsolidatesAll

\* Nothing is held before every crew reported, and then all that they proposed.
LEMMA StaysHeld == HeldInv /\ [Next]_vars => NothingPendingYet' /\ ConsolidatesAll'
<1> SUFFICES ASSUME HeldInv, [Next]_vars PROVE NothingPendingYet' /\ ConsolidatesAll'
  OBVIOUS
<1>. USE DEF kickoff, HeldInv, NothingPendingYet, ConsolidatesAll, Reported
<1>1. CASE UNCHANGED kickoff
  BY <1>1
<1>2. CASE StartJob \/ ReceiveBrief \/ AllocateBudget
  BY <1>2 DEF StartJob, ReceiveBrief, AllocateBudget
<1>3. ASSUME NEW ch \in Channels,
             ResearchSkipped(ch) \/ ResearchStarts(ch) \/ ResearchEnds(ch)
      PROVE  NothingPendingYet' /\ ConsolidatesAll'
  BY <1>3 DEF ResearchSkipped, ResearchStarts, ResearchEnds
<1>4. CASE Consolidate
  <2>1. CASE Active \subseteq Reported
    BY <1>4, <2>1 DEF Consolidate, Ready
  <2>2. CASE ~(Active \subseteq Reported)
    BY <1>4, <2>2 DEF Consolidate
  <2>. QED
    BY <2>1, <2>2
<1>5. CASE KickoffReturns
  BY <1>5 DEF KickoffReturns
<1>6. CASE KickoffRaises
  BY <1>6 DEF KickoffRaises
<1>7. ASSUME NEW t \in Threads, Execute(t) PROVE UNCHANGED kickoff
  BY <1>7 DEF Execute, Mark, MarkingDone, SelectApproved, BookOne, RecordFailure, RecordLine,
              RecordStatus, BookRest, Conclude, Report
<1>. QED
  BY <1>1, <1>2, <1>3, <1>4, <1>5, <1>6, <1>7
  DEF Next, Kickoff, RequestApproval, Crash, vars

\* Approval and booking wait for every crew, and nothing that a crew proposed is dropped or
\* added on the way to the operator, for any channels and whatever fails.
THEOREM AllIsHeldForApproval == Spec => []ConsolidatesAll
<1>1. Init => HeldInv
  BY StartsTyped DEF Init, HeldInv, NothingPendingYet, ConsolidatesAll
<1>2. HeldInv /\ [Next]_vars => HeldInv'
  BY StaysTyped, StaysHeld DEF HeldInv
<1>3. HeldInv => ConsolidatesAll
  BY DEF HeldInv
<1>. QED
  BY <1>1, <1>2, <1>3, PTL DEF Spec

--------------------------------------------------------------------------------
(* Approval.                                                               *)

\* A product that some execution was given to book.
Given(r) == \E t \in Threads : Accepted(t) /\ r.product \in worker[t].ids

\* The strengthening: executions begin when the kickoff is over; what is marked as approved,
\* or about to be booked, was given to some execution, although executions mark the same
\* recommendations at the same time.
NobodyYet ==
    step # "handed_over" => job # "awaiting_approval" /\ \A t \in Threads : ~Accepted(t)
MarksWereGiven == \A r \in pending : status[r] = "approved" => Given(r)
PlansWereGiven ==
    \A t \in Threads : worker[t].pc \in {"booking", "recording"} =>
        \A r \in worker[t].todo : Given(r)
GivenInv == Typed /\ NobodyYet /\ MarksWereGiven /\ PlansWereGiven /\ ApprovedOnly

\* A step of an execution changes its own record only; what it was asked to book stays, and
\* it never becomes idle again.
OwnOnly(t) ==
    /\ Accepted(t) /\ worker'[t].pc # "idle" /\ worker'[t].ids = worker[t].ids
    /\ \A u \in Threads : u # t => worker'[u] = worker[u]
    /\ UNCHANGED kickoff /\ UNCHANGED up

\* A step of an execution touches its own record only.
LEMMA OwnStep ==
  ASSUME Typed, NEW t \in Threads, Execute(t)
  PROVE  OwnOnly(t)
<1> DEFINE w == worker[t]
<1>0. w \in Worker /\ worker = [u \in Threads |-> worker[u]]
  BY DEF Typed, TypeOK, Formed
<1>. USE <1>0 DEF OwnOnly
<1>1. ASSUME NEW r \in pending, Mark(t, r) PROVE OwnOnly(t)
  BY <1>1 DEF Mark, Accepted, Worker
<1>2. ASSUME NEW r \in pending, BookOne(t, r) PROVE OwnOnly(t)
  <2>1. PICK learned \in BOOLEAN :
          worker' = [worker EXCEPT
                ![t].todo = @ \ {r},
                ![t].results = @ \cup {[rec |-> r, booked |-> learned]},
                ![t].pc = IF r.channel \in Social \/ worker[t].todo = {r}
                          THEN "recording" ELSE "booking"]
    BY <1>2 DEF BookOne
  <2> DEFINE pc == IF r.channel \in Social \/ worker[t].todo = {r} THEN "recording" ELSE "booking"
             results == w.results \cup {[rec |-> r, booked |-> learned]}
             new == [w EXCEPT !.todo = @ \ {r}, !.results = results, !.pc = pc]
  <2>2. worker' = [worker EXCEPT ![t] = new]
    BY <2>1
  <2>3. new.ids = w.ids /\ new.pc # "idle"
    <3>1. pc # "idle"
      OBVIOUS
    <3>2. new.pc = pc /\ new.ids = w.ids
      <4>. HIDE DEF pc, results
      <4>. QED
        BY DEF Worker
    <3>. QED
      BY <3>1, <3>2
  <2>4. worker'[t] = new /\ \A u \in Threads : u # t => worker'[u] = worker[u]
    <3>. HIDE DEF new
    <3>. QED
      BY <2>2
  <2>. QED
    BY <1>2, <2>3, <2>4 DEF BookOne, Accepted
<1>3. ASSUME NEW r \in pending, RecordFailure(t, r) PROVE OwnOnly(t)
  BY <1>3 DEF RecordFailure, Accepted, Worker
<1>4. ASSUME NEW r \in pending, RecordLine(t, r) PROVE OwnOnly(t)
  <2> DEFINE new == [w EXCEPT !.results = @ \ {[rec |-> r, booked |-> TRUE]}, !.current = r]
  <2>1. worker' = [worker EXCEPT ![t] = new]
    BY <1>4 DEF RecordLine
  <2>2. new.ids = w.ids /\ new.pc = w.pc
    BY DEF Worker
  <2>3. worker'[t] = new /\ \A u \in Threads : u # t => worker'[u] = worker[u]
    <3>. HIDE DEF new
    <3>. QED
      BY <2>1
  <2>. QED
    BY <1>4, <2>2, <2>3 DEF RecordLine, Accepted
<1>5. CASE MarkingDone(t) \/ RecordStatus(t) \/ BookRest(t) \/ Report(t)
  BY <1>5 DEF MarkingDone, RecordStatus, BookRest, Report, Recorded, Accepted, Worker
<1>6. CASE SelectApproved(t)
  BY <1>6 DEF SelectApproved, Stop, Accepted, Worker
<1>7. CASE Conclude(t)
  BY <1>7 DEF Conclude, Recorded, Stop, Accepted, Worker
<1>. QED
  BY <1>1, <1>2, <1>3, <1>4, <1>5, <1>6, <1>7 DEF Execute

\* What was given stays given, and the kickoff hands over before anybody executes.
LEMMA GivenStays ==
  ASSUME Typed, NobodyYet, [Next]_vars
  PROVE  NobodyYet' /\ \A r : Given(r) => Given(r)'
<1>. USE DEF kickoff, NobodyYet, Given, Accepted
<1>1. ASSUME NEW t \in Threads, Execute(t) PROVE NobodyYet' /\ \A r : Given(r) => Given(r)'
  BY <1>1, OwnStep DEF OwnOnly
<1>2. ASSUME NEW q \in Requests, RequestApproval(q)
      PROVE  NobodyYet' /\ \A r : Given(r) => Given(r)'
  <2>1. q \in Threads /\ worker[q].pc = "idle" /\ UNCHANGED kickoff /\ step = "handed_over"
    BY <1>2 DEF RequestApproval, Threads
  <2>2. \A u \in Threads : u # q => worker'[u] = worker[u]
    BY <1>2, <2>1, RequestBegins, WorkerChanges
  <2>. QED
    BY <2>1, <2>2
<1>3. CASE KickoffReturns
  <2>1. step' = "handed_over" /\ \A t \in Threads : worker[t].pc = "idle"
    BY <1>3 DEF KickoffReturns
  <2>. QED
    BY <2>1
<1>4. CASE UNCHANGED worker /\ step # "handed_over" /\ job' # "awaiting_approval"
  BY <1>4
<1>5. CASE UNCHANGED <<worker, step, job>>
  BY <1>5
<1>6. StartJob \/ KickoffRaises => UNCHANGED worker /\ step # "handed_over" /\ job' # "awaiting_approval"
  BY DEF StartJob, KickoffRaises
<1>7. ReceiveBrief \/ AllocateBudget \/ Consolidate
        => UNCHANGED worker /\ step # "handed_over" /\ job' # "awaiting_approval"
  BY DEF ReceiveBrief, AllocateBudget, Consolidate
<1>8. \A ch \in Channels : ResearchSkipped(ch) \/ ResearchStarts(ch) \/ ResearchEnds(ch)
        => UNCHANGED <<worker, step, job>>
  BY DEF ResearchSkipped, ResearchStarts, ResearchEnds
<1>9. Crash \/ UNCHANGED vars => UNCHANGED <<worker, step, job>>
  BY DEF Crash, vars
<1>. QED
  BY <1>1, <1>2, <1>3, <1>4, <1>5, <1>6, <1>7, <1>8, <1>9 DEF Next, Kickoff

\* Every step keeps marks, plans and deals within what was given.
LEMMA StaysGiven == GivenInv /\ [Next]_vars => MarksWereGiven' /\ PlansWereGiven' /\ ApprovedOnly'
<1> SUFFICES ASSUME GivenInv, [Next]_vars
             PROVE  MarksWereGiven' /\ PlansWereGiven' /\ ApprovedOnly'
  OBVIOUS
<1>. Typed /\ NobodyYet /\ MarksWereGiven /\ PlansWereGiven /\ ApprovedOnly
  BY DEF GivenInv
<1>0. \A r : Given(r) => Given(r)'
  BY GivenStays
<1>1. ApprovedOnly <=> \A d \in deals : Given(d.rec)
  BY DEF ApprovedOnly, Given
<1>2. ApprovedOnly' <=> \A d \in deals' : Given(d.rec)'
  BY DEF ApprovedOnly, Given
<1>3. ASSUME \A r \in pending' : status'[r] = "approved" =>
                 (r \in pending /\ status[r] = "approved") \/ Given(r)
      PROVE  MarksWereGiven'
  BY <1>0, <1>3 DEF MarksWereGiven
<1>4. ASSUME \A t \in Threads : worker'[t].pc \in {"booking", "recording"} =>
               \A r \in worker'[t].todo : Given(r)
      PROVE  PlansWereGiven'
  BY <1>0, <1>4 DEF PlansWereGiven
<1>5. ASSUME \A d \in deals' : d \in deals \/ Given(d.rec) PROVE ApprovedOnly'
  BY <1>0, <1>1, <1>2, <1>5
<1>. HIDE DEF Given
<1>6. ASSUME NEW t \in Threads, Execute(t)
      PROVE  MarksWereGiven' /\ PlansWereGiven' /\ ApprovedOnly'
  <2> DEFINE w == worker[t]
  <2>0. /\ w \in Worker /\ w.pc # "idle" /\ pending \subseteq Rec /\ UNCHANGED pending
        /\ worker = [u \in Threads |-> worker[u]]
        /\ status \in [Rec -> {None, "pending_approval", "approved", "rejected"}]
    BY <1>6, OwnStep DEF OwnOnly, Accepted, Typed, TypeOK, Formed, kickoff
  <2>1. ASSUME w.pc \in {"booking", "recording"} \/ worker'[t].pc \notin {"booking", "recording"},
               worker'[t].todo \subseteq w.todo
        PROVE  PlansWereGiven'
    <3>1. \A u \in Threads : u # t => worker'[u] = worker[u]
      BY <1>6, OwnStep DEF OwnOnly
    <3>. QED
      BY <1>4, <2>1, <3>1 DEF PlansWereGiven
  <2>2. CASE \E r \in pending : Mark(t, r)
    <3>1. PICK r \in pending : Mark(t, r)
      BY <2>2
    <3>2. status' = [status EXCEPT ![r] = IF r.product \in w.ids THEN "approved" ELSE "rejected"]
      BY <3>1 DEF Mark
    <3>3. r.product \in w.ids => Given(r)
      BY <2>0 DEF Given, Accepted
    <3>4. MarksWereGiven'
      BY <1>3, <2>0, <3>2, <3>3
    <3>5. worker'[t] = [w EXCEPT !.todo = @ \ {r}] /\ w.pc = "marking" /\ UNCHANGED deals
      BY <2>0, <3>1 DEF Mark
    <3>6. worker'[t].pc = "marking"
      BY <2>0, <3>5 DEF Worker
    <3>7. worker'[t].todo \subseteq w.todo
      BY <2>0, <3>5 DEF Worker
    <3>. QED
      BY <1>5, <2>1, <3>4, <3>5, <3>6, <3>7
  <2>3. CASE \E r \in pending : BookOne(t, r)
    <3>1. PICK r \in pending : BookOne(t, r)
      BY <2>3
    <3>2. w.pc = "booking" /\ r \in w.todo /\ UNCHANGED status
      BY <3>1 DEF BookOne, Bookable
    <3>3. Given(r)
      BY <3>2 DEF PlansWereGiven
    <3>4. \A d \in deals' : d \in deals \/ d.rec = r
      BY <3>1 DEF BookOne
    <3>5. worker'[t].todo \subseteq w.todo
      <4>1. PICK results, pc : worker' = [worker EXCEPT ![t].todo = @ \ {r},
                                          ![t].results = results, ![t].pc = pc]
        BY <3>1 DEF BookOne
      <4>2. worker' = [worker EXCEPT ![t] =
                         [w EXCEPT !.todo = @ \ {r}, !.results = results, !.pc = pc]]
        BY <4>1
      <4>. QED
        BY <2>0, <4>2 DEF Worker
    <3>. QED
      BY <1>3, <1>5, <2>0, <2>1, <3>2, <3>3, <3>4, <3>5
  <2>4. CASE \E r \in pending : RecordFailure(t, r) \/ RecordLine(t, r)
    <3>1. PICK r \in pending : RecordFailure(t, r) \/ RecordLine(t, r)
      BY <2>4
    <3>2. w.pc = "recording" /\ UNCHANGED <<status, deals>>
      BY <3>1 DEF RecordFailure, RecordLine
    <3>3. worker'[t].todo = w.todo
      BY <2>0, <3>1 DEF RecordFailure, RecordLine, Worker
    <3>. QED
      BY <1>3, <1>5, <2>0, <2>1, <3>2, <3>3
  <2>5. CASE MarkingDone(t) \/ RecordStatus(t) \/ BookRest(t) \/ Conclude(t) \/ Report(t)
    <3>1. UNCHANGED <<status, deals>> /\ worker'[t].todo = w.todo
      BY <2>0, <2>5 DEF MarkingDone, RecordStatus, BookRest, Conclude, Stop, Report, Worker, store
    <3>2. w.pc \in {"booking", "recording"} \/ worker'[t].pc \notin {"booking", "recording"}
      BY <2>0, <2>5 DEF MarkingDone, RecordStatus, BookRest, Recorded, Conclude, Stop, Report, Worker
    <3>. QED
      BY <1>3, <1>5, <2>0, <2>1, <3>1, <3>2
  <2>6. CASE SelectApproved(t)
    <3>1. UNCHANGED <<status, deals>>
      BY <2>6 DEF SelectApproved
    <3>2. \A r \in ApprovedNow : Given(r)
      BY <2>0 DEF ApprovedNow, MarksWereGiven
    <3>3. PICK chosen \in SUBSET ApprovedNow :
            \/ Stop(t, "success", "completed") \/ Stop(t, "rejected", "failed")
            \/ worker' = [worker EXCEPT ![t].pc = "booking", ![t].todo = chosen]
      BY <2>6 DEF SelectApproved
    <3>4. CASE Stop(t, "success", "completed") \/ Stop(t, "rejected", "failed")
      <4>1. worker'[t].todo = w.todo /\ worker'[t].pc = "reporting"
        BY <2>0, <3>4 DEF Stop, Worker
      <4>. QED
        BY <1>3, <1>5, <2>0, <2>1, <3>1, <4>1
    <3>5. CASE worker' = [worker EXCEPT ![t].pc = "booking", ![t].todo = chosen]
      <4>1. worker' = [worker EXCEPT ![t] = [w EXCEPT !.pc = "booking", !.todo = chosen]]
        BY <3>5
      <4>2. worker'[t].todo = chosen /\ \A u \in Threads : u # t => worker'[u] = worker[u]
        BY <2>0, <4>1 DEF Worker
      <4>3. PlansWereGiven'
        BY <1>4, <3>2, <4>2 DEF PlansWereGiven
      <4>. QED
        BY <1>3, <1>5, <2>0, <3>1, <4>3
    <3>. QED
      BY <3>3, <3>4, <3>5
  <2>. QED
    BY <1>6, <2>2, <2>3, <2>4, <2>5, <2>6 DEF Execute
<1>7. ASSUME \A r \in pending' : status'[r] = "approved" =>
                 r \in pending /\ status[r] = "approved",
             \A u \in Threads : worker'[u] = worker[u] \/ worker'[u].pc = "marking",
             UNCHANGED deals
      PROVE  MarksWereGiven' /\ PlansWereGiven' /\ ApprovedOnly'
  <2>1. PlansWereGiven'
    BY <1>4, <1>7 DEF PlansWereGiven
  <2>. QED
    BY <1>3, <1>5, <1>7, <2>1
<1>8. ASSUME NEW q \in Requests, RequestApproval(q)
      PROVE  MarksWereGiven' /\ PlansWereGiven' /\ ApprovedOnly'
  <2>1. \A u \in Threads : worker'[u] = worker[u] \/ worker'[u].pc = "marking"
    <3>1. q \in Threads
      BY DEF Threads
    <3>2. Begin(Asked(q)).pc = "marking"
      BY DEF Begin, Idle
    <3>3. worker'[q] = Begin(Asked(q)) /\ \A u \in Threads : u # q => worker'[u] = worker[u]
      BY <1>8, <3>1, RequestBegins, WorkerChanges
    <3>. QED
      BY <3>2, <3>3
  <2>. QED
    BY <1>7, <1>8, <2>1 DEF RequestApproval, kickoff
<1>9. CASE KickoffReturns
  <2>1. \A u \in Threads : worker'[u] = worker[u] \/ worker'[u].pc = "marking"
    <3>1. worker = [u \in Threads |-> worker[u]]
      BY DEF Typed, Formed
    <3>2. Begin(AllIds).pc = "marking"
      BY DEF Begin, Idle
    <3>3. worker' = worker \/ worker' = [worker EXCEPT ![Itself] = Begin(AllIds)]
      BY <1>9 DEF KickoffReturns
    <3>. QED
      BY <3>1, <3>2, <3>3
  <2>. QED
    BY <1>7, <1>9, <2>1 DEF KickoffReturns
<1>10. CASE Consolidate
  <2>1. UNCHANGED <<worker, deals>>
    BY <1>10 DEF Consolidate
  <2>2. \A r \in pending' : status'[r] = "approved" => r \in pending /\ status[r] = "approved"
    <3>1. \/ UNCHANGED <<pending, status>>
          \/ status' = [r \in Rec |-> IF r \in pending' THEN "pending_approval" ELSE status[r]]
      BY <1>10 DEF Consolidate
    <3>2. pending' \subseteq Rec
      BY StaysTyped DEF Typed, TypeOK
    <3>. QED
      BY <3>1, <3>2
  <2>. QED
    BY <1>7, <2>1, <2>2
<1>11. CASE UNCHANGED <<pending, status, worker, deals>>
  BY <1>7, <1>11
<1>12. StartJob \/ KickoffRaises \/ ReceiveBrief \/ AllocateBudget
         => UNCHANGED <<pending, status, worker, deals>>
  BY DEF StartJob, KickoffRaises, ReceiveBrief, AllocateBudget
<1>13. \A ch \in Channels : ResearchSkipped(ch) \/ ResearchStarts(ch) \/ ResearchEnds(ch)
         => UNCHANGED <<pending, status, worker, deals>>
  BY DEF ResearchSkipped, ResearchStarts, ResearchEnds
<1>14. Crash \/ UNCHANGED vars => UNCHANGED <<pending, status, worker, deals>>
  BY DEF Crash, vars, kickoff
<1>. QED
  BY <1>6, <1>8, <1>9, <1>10, <1>11, <1>12, <1>13, <1>14 DEF Next, Kickoff

\* Nothing is ever booked that no approval named: however executions overlap, and although
\* each marks the recommendations that the others are selecting from, a deal's product was
\* asked for by an accepted approval or by an auto-approving job.
THEOREM NothingBookedUnapproved == Spec => []ApprovedOnly
<1>1. Init => GivenInv
  BY StartsTyped DEF Init, GivenInv, NobodyYet, MarksWereGiven, PlansWereGiven, ApprovedOnly,
     Accepted, Idle
<1>2. GivenInv /\ [Next]_vars => GivenInv'
  BY StaysTyped, StaysGiven, GivenStays DEF GivenInv
<1>3. GivenInv => ApprovedOnly
  BY DEF GivenInv
<1>. QED
  BY <1>1, <1>2, <1>3, PTL DEF Spec

--------------------------------------------------------------------------------
(* Accounting.                                                             *)

HasDeal(t, r) == \E d \in deals : d.rec = r /\ d.by = t /\ d.known
HasLine(t, r) == \E x \in lines : x.rec = r /\ x.by = t
Awaits(t, r)  == [rec |-> r, booked |-> TRUE] \in worker[t].results

\* The strengthening: a deal that an execution learned of is a line of its own, or a result
\* that it has yet to record; outside booking and recording there are no such results.
Accounts(t) ==
    /\ \A r \in Rec : HasDeal(t, r) <=> HasLine(t, r) \/ Awaits(t, r)
    /\ worker[t].pc \notin {"booking", "recording"} => worker[t].results = {}
AccountsInv == Typed /\ NobodyYet /\ \A t \in Threads : Accounts(t)

\* A step of the execution on t keeps its own accounts.
LEMMA OwnAccounts ==
  ASSUME Typed, NEW t \in Threads, Accounts(t), Execute(t)
  PROVE  Accounts(t)'
<1> DEFINE w == worker[t]
<1>0. /\ w \in Worker /\ worker = [u \in Threads |-> worker[u]] /\ pending \subseteq Rec
      /\ deals \subseteq [rec : Rec, by : Threads, known : BOOLEAN]
      /\ lines \subseteq [rec : Rec, by : Threads]
  BY DEF Typed, TypeOK, Formed
<1>. USE <1>0 DEF Accounts
<1>1. ASSUME UNCHANGED <<deals, lines>>, worker'[t].results = w.results,
             worker'[t].pc \notin {"booking", "recording"} => w.results = {}
      PROVE  Accounts(t)'
  BY <1>1 DEF HasDeal, HasLine, Awaits
<1>2. ASSUME NEW r \in pending, Mark(t, r) PROVE Accounts(t)'
  BY <1>1, <1>2 DEF Mark, Worker
<1>3. ASSUME NEW r \in pending, BookOne(t, r) PROVE Accounts(t)'
  <2>1. PICK learned \in BOOLEAN, orphaned \in BOOLEAN, pc \in {"recording", "booking"} :
          /\ deals' = deals
                \cup (IF learned  THEN {[rec |-> r, by |-> t, known |-> TRUE]} ELSE {})
                \cup (IF orphaned THEN {[rec |-> r, by |-> t, known |-> FALSE]} ELSE {})
          /\ worker' = [worker EXCEPT
                ![t].todo = @ \ {r},
                ![t].results = @ \cup {[rec |-> r, booked |-> learned]},
                ![t].pc = pc]
          /\ UNCHANGED lines
    BY <1>3 DEF BookOne
  <2> DEFINE results == w.results \cup {[rec |-> r, booked |-> learned]}
             new == [w EXCEPT !.todo = @ \ {r}, !.results = results, !.pc = pc]
  <2>2. worker' = [worker EXCEPT ![t] = new]
    BY <2>1
  <2>3. new.results = results /\ new.pc = pc
    <3>. HIDE DEF results
    <3>. QED
      BY DEF Worker
  <2>4. worker'[t] = new
    <3>. HIDE DEF new
    <3>. QED
      BY <2>2
  <2>5. \A q \in Rec : HasDeal(t, q)' <=> HasDeal(t, q) \/ (q = r /\ learned)
    <3>1. CASE learned
      <4> DEFINE d0 == [rec |-> r, by |-> t, known |-> TRUE]
      <4>1. d0 \in deals' /\ deals \subseteq deals'
        BY <2>1, <3>1
      <4>2. d0.rec = r /\ d0.by = t /\ d0.known
        OBVIOUS
      <4>3. HasDeal(t, r)'
        <5>. HIDE DEF d0
        <5>. QED
          BY <4>1, <4>2 DEF HasDeal
      <4>4. \A d \in deals' : d \in deals \/ d.rec = r
        BY <2>1
      <4>. QED
        BY <3>1, <4>1, <4>3, <4>4 DEF HasDeal
    <3>2. CASE ~learned
      BY <2>1, <3>2 DEF HasDeal
    <3>. QED
      BY <3>1, <3>2
  <2>6. \A q \in Rec : Awaits(t, q)' <=> Awaits(t, q) \/ (q = r /\ learned)
    <3>1. worker'[t].results = w.results \cup {[rec |-> r, booked |-> learned]}
      BY <2>3, <2>4
    <3>2. \A q : [rec |-> q, booked |-> TRUE] = [rec |-> r, booked |-> learned]
                   <=> q = r /\ learned
      <4>1. ASSUME NEW q, [rec |-> q, booked |-> TRUE] = [rec |-> r, booked |-> learned]
            PROVE  q = r /\ learned
        <5>1. [rec |-> q, booked |-> TRUE].rec = [rec |-> r, booked |-> learned].rec
          BY <4>1
        <5>2. [rec |-> q, booked |-> TRUE].booked = [rec |-> r, booked |-> learned].booked
          BY <4>1
        <5>. QED
          BY <5>1, <5>2
      <4>2. ASSUME learned PROVE learned = TRUE
        BY <4>2
      <4>. QED
        BY <4>1, <4>2
    <3>. QED
      BY <3>1, <3>2 DEF Awaits
  <2>7. \A q \in Rec : HasLine(t, q)' <=> HasLine(t, q)
    BY <2>1 DEF HasLine
  <2>. QED
    BY <2>3, <2>4, <2>5, <2>6, <2>7
<1>4. ASSUME NEW r \in pending, RecordFailure(t, r) PROVE Accounts(t)'
  <2>1. /\ worker'[t].results = w.results \ {[rec |-> r, booked |-> FALSE]}
        /\ worker'[t].pc = "recording" /\ UNCHANGED <<deals, lines>>
    BY <1>4 DEF RecordFailure, Worker
  <2>2. \A q : [rec |-> q, booked |-> TRUE] # [rec |-> r, booked |-> FALSE]
    <3>1. \A q : [rec |-> q, booked |-> TRUE].booked # [rec |-> r, booked |-> FALSE].booked
      OBVIOUS
    <3>. QED
      BY <3>1
  <2>. QED
    BY <2>1, <2>2 DEF HasDeal, HasLine, Awaits
<1>5. ASSUME NEW r \in pending, RecordLine(t, r) PROVE Accounts(t)'
  <2> DEFINE results == w.results \ {[rec |-> r, booked |-> TRUE]}
             new == [w EXCEPT !.results = results, !.current = r]
  <2>1. worker' = [worker EXCEPT ![t] = new]
    BY <1>5 DEF RecordLine
  <2>2. new.results = results /\ new.pc = w.pc
    <3>. HIDE DEF results
    <3>. QED
      BY DEF Worker
  <2>3. worker'[t] = new
    <3>. HIDE DEF new
    <3>. QED
      BY <2>1
  <2>4. /\ lines' = lines \cup {[rec |-> r, by |-> t]} /\ UNCHANGED deals
        /\ w.pc = "recording" /\ Awaits(t, r)
    BY <1>5 DEF RecordLine, Awaits
  <2>5. \A q \in Rec : HasLine(t, q)' <=> HasLine(t, q) \/ q = r
    <3> DEFINE x0 == [rec |-> r, by |-> t]
    <3>1. x0 \in lines' /\ lines \subseteq lines' /\ \A x \in lines' : x \in lines \/ x.rec = r
      BY <2>4
    <3>2. x0.rec = r /\ x0.by = t
      OBVIOUS
    <3>. HIDE DEF x0
    <3>3. HasLine(t, r)'
      BY <3>1, <3>2 DEF HasLine
    <3>. QED
      BY <3>1, <3>3 DEF HasLine
  <2>6. \A q \in Rec : Awaits(t, q)' <=> Awaits(t, q) /\ q # r
    <3>1. \A q : [rec |-> q, booked |-> TRUE] = [rec |-> r, booked |-> TRUE] <=> q = r
      <4>1. ASSUME NEW q, [rec |-> q, booked |-> TRUE] = [rec |-> r, booked |-> TRUE]
            PROVE  q = r
        <5>1. [rec |-> q, booked |-> TRUE].rec = [rec |-> r, booked |-> TRUE].rec
          BY <4>1
        <5>. QED
          BY <5>1
      <4>. QED
        BY <4>1
    <3>. QED
      BY <2>2, <2>3, <3>1 DEF Awaits
  <2>7. \A q \in Rec : HasDeal(t, q)' <=> HasDeal(t, q)
    BY <2>4 DEF HasDeal
  <2>. QED
    BY <2>2, <2>3, <2>4, <2>5, <2>6, <2>7
<1>6. CASE MarkingDone(t) \/ BookRest(t)
  BY <1>1, <1>6 DEF MarkingDone, BookRest, Recorded, Worker, store
<1>7. CASE RecordStatus(t)
  BY <1>1, <1>7 DEF RecordStatus, Worker
<1>8. CASE SelectApproved(t)
  <2>1. w.results = {} /\ UNCHANGED <<deals, lines>>
    BY <1>8 DEF SelectApproved
  <2>2. worker'[t].results = w.results
    BY <1>8 DEF SelectApproved, Stop, Worker
  <2>. QED
    BY <1>1, <2>1, <2>2
<1>9. CASE Conclude(t)
  <2>1. w.results = {} /\ UNCHANGED <<deals, lines>> /\ worker'[t].results = w.results
    BY <1>9 DEF Conclude, Recorded, Stop, Worker
  <2>. QED
    BY <1>1, <2>1
<1>10. CASE Report(t)
  BY <1>1, <1>10 DEF Report, Worker
<1>. QED
  BY <1>2, <1>3, <1>4, <1>5, <1>6, <1>7, <1>8, <1>9, <1>10 DEF Execute

\* A step of one execution touches no other execution's accounts.
LEMMA OthersAccounts ==
  ASSUME Typed, NEW t \in Threads, NEW u \in Threads, u # t, Accounts(u), Execute(t)
  PROVE  Accounts(u)'
<1>1. worker'[u] = worker[u]
  BY OwnStep DEF OwnOnly
<1>2. \A r \in Rec : HasDeal(u, r)' <=> HasDeal(u, r)
  <2>1. \/ UNCHANGED deals
        \/ \E new : deals' = deals \cup new /\ \A d \in new : d.by = t
    <3>1. ASSUME NEW r \in pending, BookOne(t, r)
          PROVE  \E new : deals' = deals \cup new /\ \A d \in new : d.by = t
      <4>1. PICK learned \in BOOLEAN, orphaned \in BOOLEAN :
              deals' = deals
                \cup (IF learned  THEN {[rec |-> r, by |-> t, known |-> TRUE]} ELSE {})
                \cup (IF orphaned THEN {[rec |-> r, by |-> t, known |-> FALSE]} ELSE {})
        BY <3>1 DEF BookOne
      <4> DEFINE new == (IF learned  THEN {[rec |-> r, by |-> t, known |-> TRUE]} ELSE {})
                \cup (IF orphaned THEN {[rec |-> r, by |-> t, known |-> FALSE]} ELSE {})
      <4>2. deals' = deals \cup new /\ \A d \in new : d.by = t
        BY <4>1
      <4>. QED
        BY <4>2
    <3>2. ~(\E r \in pending : BookOne(t, r)) => UNCHANGED deals
      BY DEF Execute, Mark, RecordFailure, RecordLine, MarkingDone, SelectApproved, RecordStatus,
             BookRest, Conclude, Report
    <3>. QED
      BY <3>1, <3>2
  <2>. QED
    BY <2>1 DEF HasDeal
<1>3. \A r \in Rec : HasLine(u, r)' <=> HasLine(u, r)
  <2>1. UNCHANGED lines \/ \E r : lines' = lines \cup {[rec |-> r, by |-> t]}
    BY DEF Execute, Mark, BookOne, RecordFailure, RecordLine, MarkingDone, SelectApproved,
           RecordStatus, BookRest, Conclude, Report
  <2>. QED
    BY <2>1 DEF HasLine
<1>. QED
  BY <1>1, <1>2, <1>3 DEF Accounts, Awaits

\* Every step keeps every account.
LEMMA StaysAccounted == AccountsInv /\ [Next]_vars => \A t \in Threads : Accounts(t)'
<1> SUFFICES ASSUME AccountsInv, [Next]_vars, NEW u \in Threads PROVE Accounts(u)'
  OBVIOUS
<1>. Typed /\ NobodyYet /\ Accounts(u)
  BY DEF AccountsInv
<1>1. ASSUME NEW t \in Threads, Execute(t) PROVE Accounts(u)'
  BY <1>1, OwnAccounts, OthersAccounts
<1>2. ASSUME UNCHANGED <<deals, lines>>,
             worker'[u] = worker[u] \/ (worker[u].pc = "idle" /\ worker'[u].results = {})
      PROVE  Accounts(u)'
  BY <1>2 DEF Accounts, HasDeal, HasLine, Awaits
<1>3. ASSUME NEW q \in Requests, RequestApproval(q) PROVE Accounts(u)'
  <2>1. q \in Threads /\ worker[q].pc = "idle" /\ UNCHANGED <<deals, lines>>
    BY <1>3 DEF RequestApproval, Threads
  <2>2. Begin(Asked(q)).results = {}
    BY DEF Begin, Idle
  <2>3. worker'[q] = Begin(Asked(q)) /\ (u # q => worker'[u] = worker[u])
    BY <1>3, <2>1, RequestBegins, WorkerChanges
  <2>. QED
    BY <1>2, <2>1, <2>2, <2>3
<1>4. CASE KickoffReturns
  <2>1. worker[u].pc = "idle" /\ UNCHANGED <<deals, lines>>
    BY <1>4 DEF KickoffReturns, NobodyYet, Accepted
  <2>2. worker'[u] = worker[u] \/ worker'[u].results = {}
    <3>1. worker = [v \in Threads |-> worker[v]]
      BY DEF Typed, Formed
    <3>2. Begin(AllIds).results = {}
      BY DEF Begin, Idle
    <3>3. worker' = worker \/ worker' = [worker EXCEPT ![Itself] = Begin(AllIds)]
      BY <1>4 DEF KickoffReturns
    <3>. QED
      BY <3>1, <3>2, <3>3
  <2>. QED
    BY <1>2, <2>1, <2>2
<1>5. CASE UNCHANGED <<worker, deals, lines>>
  BY <1>2, <1>5
<1>6. StartJob \/ KickoffRaises \/ ReceiveBrief \/ AllocateBudget \/ Consolidate
        => UNCHANGED <<worker, deals, lines>>
  BY DEF StartJob, KickoffRaises, ReceiveBrief, AllocateBudget, Consolidate
<1>7. \A ch \in Channels : ResearchSkipped(ch) \/ ResearchStarts(ch) \/ ResearchEnds(ch)
        => UNCHANGED <<worker, deals, lines>>
  BY DEF ResearchSkipped, ResearchStarts, ResearchEnds
<1>8. Crash \/ UNCHANGED vars => UNCHANGED <<worker, deals, lines>>
  BY DEF Crash, vars
<1>. QED
  BY <1>1, <1>3, <1>4, <1>5, <1>6, <1>7, <1>8 DEF Next, Kickoff

\* Each execution accounts for exactly the deals it learned of, however executions overlap and
\* whatever the store loses.
THEOREM ExecutionsAccount == Spec => []BookingsReported
<1>1. Init => AccountsInv
  BY StartsTyped DEF Init, AccountsInv, NobodyYet, Accepted, Accounts, HasDeal, HasLine, Awaits, Idle
<1>2. AccountsInv /\ [Next]_vars => AccountsInv'
  BY StaysTyped, StaysAccounted, GivenStays DEF AccountsInv
<1>3. AccountsInv => BookingsReported
  <2> SUFFICES ASSUME AccountsInv, NEW t \in Threads, worker[t].pc \in {"reporting", "done"}
               PROVE  {d.rec : d \in {e \in deals : e.by = t /\ e.known}}
                        = {x.rec : x \in {y \in lines : y.by = t}}
    BY DEF BookingsReported
  <2>1. \A r \in Rec : HasDeal(t, r) <=> HasLine(t, r)
    BY DEF AccountsInv, Accounts, Awaits
  <2>2. /\ deals \subseteq [rec : Rec, by : Threads, known : BOOLEAN]
        /\ lines \subseteq [rec : Rec, by : Threads]
    BY DEF AccountsInv, Typed, TypeOK
  <2>. QED
    BY <2>1, <2>2 DEF HasDeal, HasLine
<1>. QED
  BY <1>1, <1>2, <1>3, PTL DEF Spec

--------------------------------------------------------------------------------
(* Serialized approvals: every approval names its products, so that its    *)
(* execution holds the event loop, and no job approves itself.             *)

Serialized == (\A q \in Requests : Wants[q] # None) /\ AutoApprove = {FALSE}

\* The strengthening: there is at most one execution ever, since it holds the loop until the
\* job's status says that it is over; what it still has to book, to record and has booked are
\* of distinct products.
Alone ==
    \A t \in Threads : Accepted(t) =>
        /\ \A u \in Threads : Accepted(u) => u = t
        /\ IF worker[t].pc = "done" THEN job # "awaiting_approval" ELSE loop = t
Distinct(recs) == \A a, b \in recs : a.product = b.product => a = b
Held(t) == worker[t].todo \cup {x.rec : x \in worker[t].results} \cup {x.rec : x \in lines}
OneEach == \A t \in Threads : worker[t].pc \in {"booking", "recording"} => Distinct(Held(t))
LinesFollow == \A x \in lines : worker[x.by].pc \notin {"idle", "marking", "selecting"}
OnceInv == AccountsInv /\ Alone /\ OneEach /\ LinesFollow /\ BookedOnce

\* A second approval finds the loop taken or the job over.
LEMMA StaysAlone ==
  ASSUME Serialized, Typed, NobodyYet, Alone, [Next]_vars
  PROVE  Alone'
<1>1. ASSUME NEW t \in Threads, Execute(t) PROVE Alone'
  <2>1. OwnOnly(t) /\ worker[t].pc # "done"
    <3>1. worker[t].pc # "done"
      BY <1>1 DEF Execute, Mark, BookOne, RecordFailure, RecordLine, MarkingDone, SelectApproved,
                  RecordStatus, BookRest, Recorded, Conclude, Report
    <3>. QED
      BY <1>1, <3>1, OwnStep
  <2>2. loop = t /\ \A u \in Threads : Accepted(u) => u = t
    BY <2>1 DEF Alone, OwnOnly
  <2>3. \A u \in Threads : Accepted(u)' => u = t
    BY <2>1, <2>2 DEF OwnOnly, Accepted
  <2>4. IF worker'[t].pc = "done" THEN job' # "awaiting_approval" ELSE loop' = t
    <3>1. CASE Report(t)
      <4>1. worker'[t].pc = "done" /\ job' # "awaiting_approval"
        BY <3>1 DEF Report, JobStatus, Typed, TypeOK, Formed, Worker
      <4>. QED
        BY <4>1
    <3>2. CASE \E r \in pending : Mark(t, r)
      BY <2>1, <2>2, <3>2 DEF Mark, Typed, TypeOK, Formed, Worker
    <3>3. CASE \E r \in pending : BookOne(t, r)
      <4>1. PICK r \in pending : BookOne(t, r)
        BY <3>3
      <4>2. PICK learned \in BOOLEAN, pc \in {"recording", "booking"} :
              /\ UNCHANGED loop
              /\ worker' = [worker EXCEPT ![t].todo = @ \ {r},
                                          ![t].results = @ \cup {[rec |-> r, booked |-> learned]},
                                          ![t].pc = pc]
        BY <4>1 DEF BookOne
      <4>3. worker'[t].pc # "done"
        BY <4>2 DEF Typed, TypeOK, Formed, Worker
      <4>. QED
        BY <2>2, <4>2, <4>3
    <3>4. CASE \E r \in pending : RecordFailure(t, r) \/ RecordLine(t, r)
      BY <2>1, <2>2, <3>4 DEF RecordFailure, RecordLine, Typed, TypeOK, Formed, Worker
    <3>5. CASE MarkingDone(t) \/ RecordStatus(t) \/ BookRest(t)
      BY <2>1, <2>2, <3>5 DEF MarkingDone, RecordStatus, BookRest, Typed, TypeOK, Formed, Worker
    <3>6. CASE SelectApproved(t)
      BY <2>1, <2>2, <3>6 DEF SelectApproved, Stop, Typed, TypeOK, Formed, Worker
    <3>7. CASE Conclude(t)
      BY <2>1, <2>2, <3>7 DEF Conclude, Stop, Typed, TypeOK, Formed, Worker
    <3>. QED
      BY <1>1, <3>1, <3>2, <3>3, <3>4, <3>5, <3>6, <3>7 DEF Execute
  <2>. QED
    BY <2>3, <2>4 DEF Alone
<1>2. ASSUME NEW q \in Requests, RequestApproval(q) PROVE Alone'
  <2>1. q \in Threads /\ loop = None /\ job = "awaiting_approval" /\ loop' = q
    BY <1>2 DEF RequestApproval, OnLoop, Serialized, Threads
  <2>2. \A t \in Threads : ~Accepted(t)
    BY <2>1, ParametersAssumption DEF Alone
  <2>3. \A t \in Threads : t # q => worker'[t] = worker[t]
    BY <1>2, <2>1, RequestBegins, WorkerChanges
  <2>4. worker'[q].pc = "marking"
    <3>1. Begin(Asked(q)).pc = "marking"
      BY DEF Begin, Idle
    <3>. QED
      BY <1>2, <2>1, <3>1, RequestBegins, WorkerChanges
  <2>. QED
    BY <2>1, <2>2, <2>3, <2>4 DEF Alone, Accepted
<1>3. CASE UNCHANGED <<worker, job, loop>>
  BY <1>3 DEF Alone, Accepted
<1>4. CASE UNCHANGED worker /\ step # "handed_over"
  BY <1>4 DEF Alone, NobodyYet, Accepted
<1>5. KickoffReturns => UNCHANGED worker /\ step # "handed_over"
  BY DEF KickoffReturns, Serialized
<1>6. StartJob \/ KickoffRaises \/ ReceiveBrief \/ AllocateBudget \/ Consolidate
        => UNCHANGED worker /\ step # "handed_over"
  BY DEF StartJob, KickoffRaises, ReceiveBrief, AllocateBudget, Consolidate
<1>7. \A ch \in Channels : ResearchSkipped(ch) \/ ResearchStarts(ch) \/ ResearchEnds(ch)
        => UNCHANGED <<worker, job, loop>>
  BY DEF ResearchSkipped, ResearchStarts, ResearchEnds
<1>8. Crash \/ UNCHANGED vars => UNCHANGED <<worker, job, loop>>
  BY DEF Crash, vars
<1>. QED
  BY <1>1, <1>2, <1>3, <1>4, <1>5, <1>6, <1>7, <1>8 DEF Next, Kickoff

\* While an execution books and records, what it holds only shrinks.
LEMMA HoldsLess ==
  ASSUME Typed, NEW t \in Threads, Execute(t), worker[t].pc \in {"booking", "recording"}
  PROVE  Held(t)' \subseteq Held(t)
<1> DEFINE w == worker[t]
<1>0. w \in Worker /\ worker = [u \in Threads |-> worker[u]]
  BY DEF Typed, TypeOK, Formed
<1>. USE <1>0
<1>1. CASE \E r \in pending : BookOne(t, r)
  <2>1. PICK r \in pending : BookOne(t, r)
    BY <1>1
  <2>2. PICK learned \in BOOLEAN, pc \in {"recording", "booking"} :
          worker' = [worker EXCEPT ![t].todo = @ \ {r},
                                   ![t].results = @ \cup {[rec |-> r, booked |-> learned]},
                                   ![t].pc = pc]
    BY <2>1 DEF BookOne
  <2>3. r \in w.todo /\ UNCHANGED lines
    BY <2>1 DEF BookOne, Bookable
  <2> DEFINE results == w.results \cup {[rec |-> r, booked |-> learned]}
             new == [w EXCEPT !.todo = @ \ {r}, !.results = results, !.pc = pc]
  <2>4. worker' = [worker EXCEPT ![t] = new]
    BY <2>2
  <2>5. new.results = results /\ new.todo = w.todo \ {r}
    <3>. HIDE DEF results
    <3>. QED
      BY DEF Worker
  <2>6. worker'[t] = new
    <3>. HIDE DEF new
    <3>. QED
      BY <2>4
  <2>7. \A x \in worker'[t].results : x \in w.results \/ x.rec = r
    BY <2>5, <2>6
  <2>8. worker'[t].todo \subseteq w.todo
    BY <2>5, <2>6
  <2>. QED
    BY <2>3, <2>7, <2>8 DEF Held
<1>2. CASE \E r \in pending : RecordFailure(t, r)
  <2>1. worker'[t].todo = w.todo /\ worker'[t].results \subseteq w.results /\ UNCHANGED lines
    BY <1>2 DEF RecordFailure, Worker
  <2>. QED
    BY <2>1 DEF Held
<1>3. CASE \E r \in pending : RecordLine(t, r)
  <2>1. PICK r \in pending : RecordLine(t, r)
    BY <1>3
  <2> DEFINE res == [rec |-> r, booked |-> TRUE]
             results == w.results \ {res}
             new == [w EXCEPT !.results = results, !.current = r]
  <2>2. worker' = [worker EXCEPT ![t] = new]
    BY <2>1 DEF RecordLine
  <2>3. new.results = results /\ new.todo = w.todo
    <3>. HIDE DEF results
    <3>. QED
      BY DEF Worker
  <2>4. worker'[t] = new
    <3>. HIDE DEF new
    <3>. QED
      BY <2>2
  <2>5. lines' = lines \cup {[rec |-> r, by |-> t]} /\ res \in w.results /\ res.rec = r
    BY <2>1 DEF RecordLine
  <2>6. r \in {x.rec : x \in w.results}
    <3>. HIDE DEF res
    <3>. QED
      BY <2>5
  <2>7. \A x \in lines' : x \in lines \/ x.rec = r
    BY <2>5
  <2>. QED
    BY <2>3, <2>4, <2>6, <2>7 DEF Held
<1>4. CASE RecordStatus(t) \/ BookRest(t)
  <2>1. worker'[t].todo = w.todo /\ worker'[t].results = w.results /\ UNCHANGED lines
    BY <1>4 DEF RecordStatus, BookRest, Worker
  <2>. QED
    BY <2>1 DEF Held
<1>5. CASE Conclude(t)
  <2>1. worker'[t].todo = w.todo /\ worker'[t].results = w.results /\ UNCHANGED lines
    BY <1>5 DEF Conclude, Stop, Worker
  <2>. QED
    BY <2>1 DEF Held
<1>. QED
  BY <1>1, <1>2, <1>3, <1>4, <1>5
  DEF Execute, Mark, MarkingDone, SelectApproved, Report

\* An execution of an approval that is alone books one deal of a product.
LEMMA OwnOnce ==
  ASSUME OnceInv, NEW t \in Threads, Execute(t)
  PROVE  OneEach' /\ LinesFollow' /\ BookedOnce'
<1> DEFINE w == worker[t]
<1>0. /\ AccountsInv /\ Alone /\ OneEach /\ LinesFollow /\ BookedOnce
      /\ Typed /\ NobodyYet /\ Accounts(t)
  BY DEF OnceInv, AccountsInv
<1>1. /\ w \in Worker /\ worker = [u \in Threads |-> worker[u]] /\ pending \subseteq Rec
      /\ lines \subseteq [rec : Rec, by : Threads] /\ OwnOnly(t)
  BY <1>0, OwnStep DEF Typed, TypeOK, Formed
<1>2. \A u \in Threads : u # t => worker[u].pc = "idle" /\ worker'[u].pc = "idle"
  BY <1>0, <1>1 DEF Alone, OwnOnly, Accepted
<1>3. \A x \in lines : x.by = t
  BY <1>0, <1>1, <1>2 DEF LinesFollow
<1>4. w.pc \in {"marking", "selecting"} => lines = {}
  BY <1>0, <1>3 DEF LinesFollow
<1>5. /\ \A x \in lines' : x \in lines \/ (x.by = t /\ \E r \in Rec : x = [rec |-> r, by |-> t])
      /\ UNCHANGED lines \/ w.pc = "recording"
  <2>1. UNCHANGED lines \/ \E r \in pending : RecordLine(t, r)
    BY DEF Execute, Mark, BookOne, RecordFailure, MarkingDone, SelectApproved, RecordStatus,
           BookRest, Conclude, Report
  <2>2. ASSUME NEW r \in pending, RecordLine(t, r)
        PROVE  lines' = lines \cup {[rec |-> r, by |-> t]} /\ w.pc = "recording" /\ r \in Rec
    BY <1>1, <2>2 DEF RecordLine
  <2>3. ASSUME NEW r \in pending, RecordLine(t, r)
        PROVE  \A x \in lines' : x \in lines \/ (x.by = t /\ \E q \in Rec : x = [rec |-> q, by |-> t])
    BY <2>2, <2>3
  <2>. QED
    BY <2>1, <2>2, <2>3
<1>6. UNCHANGED lines \/ w.pc = "recording"
  BY <1>5
<1>7. w.pc \notin {"marking", "selecting"} => worker'[t].pc \notin {"idle", "marking", "selecting"}
  <2>1. ASSUME NEW r \in pending, BookOne(t, r) PROVE worker'[t].pc \in {"recording", "booking"}
    <3>1. PICK learned \in BOOLEAN, pc \in {"recording", "booking"} :
              worker' = [worker EXCEPT ![t].todo = @ \ {r},
                                       ![t].results = @ \cup {[rec |-> r, booked |-> learned]},
                                       ![t].pc = pc]
      BY <2>1 DEF BookOne
    <3>. QED
      BY <1>1, <3>1 DEF Worker
  <2>2. ASSUME NEW r \in pending, RecordFailure(t, r) \/ RecordLine(t, r)
        PROVE  worker'[t].pc = "recording"
    BY <1>1, <2>2 DEF RecordFailure, RecordLine, Worker
  <2>3. RecordStatus(t) \/ BookRest(t) \/ Report(t)
          => worker'[t].pc \in {"recording", "booking", "done"}
    BY <1>1 DEF RecordStatus, BookRest, Report, Worker
  <2>4. Conclude(t) => worker'[t].pc = "reporting"
    BY <1>1 DEF Conclude, Stop, Worker
  <2>. QED
    BY <2>1, <2>2, <2>3, <2>4 DEF Execute, Mark, MarkingDone, SelectApproved
<1>8. LinesFollow'
  <2>1. \A x \in lines' : x.by = t
    BY <1>3, <1>5
  <2>2. CASE lines' = {}
    BY <2>2 DEF LinesFollow
  <2>3. CASE lines' # {}
    <3>1. w.pc \notin {"marking", "selecting"}
      BY <1>4, <1>6, <2>3
    <3>. QED
      BY <1>7, <2>1, <3>1 DEF LinesFollow
  <2>. QED
    BY <2>2, <2>3
<1>9. CASE w.pc \in {"booking", "recording"}
  <2>1. Distinct(Held(t)) /\ Held(t)' \subseteq Held(t)
    BY <1>0, <1>9, HoldsLess DEF OneEach
  <2>2. Distinct(Held(t)')
    BY <2>1 DEF Distinct
  <2>3. OneEach'
    BY <1>2, <2>2 DEF OneEach, Distinct
  <2>4. \A x \in lines' : x.rec \in Held(t)'
    BY DEF Held
  <2>5. \A x, y \in lines' : x.rec.product = y.rec.product => x.rec = y.rec
    BY <2>2, <2>4 DEF Distinct
  <2>6. \A x \in lines' : x = [rec |-> x.rec, by |-> t]
    BY <1>1, <1>3, <1>5
  <2>7. BookedOnce'
    <3>1. ASSUME NEW x \in lines', NEW y \in lines', x.rec.product = y.rec.product
          PROVE  x = y
      BY <2>5, <2>6, <3>1
    <3>. QED
      BY <3>1 DEF BookedOnce
  <2>. QED
    BY <1>8, <2>3, <2>7
<1>10. CASE w.pc \notin {"booking", "recording"}
  <2>1. UNCHANGED lines
    BY <1>6, <1>10
  <2>2. BookedOnce'
    BY <1>0, <2>1 DEF BookedOnce
  <2>3. CASE w.pc # "selecting" \/ worker'[t].pc # "booking"
    <3>1. worker'[t].pc \notin {"booking", "recording"}
      <4>1. \/ (\E r \in pending : Mark(t, r)) \/ MarkingDone(t) \/ SelectApproved(t) \/ Report(t)
        BY <1>10 DEF Execute, BookOne, RecordFailure, RecordLine, RecordStatus, BookRest,
                     Recorded, Conclude
      <4>2. SelectApproved(t) => w.pc = "selecting" /\ worker'[t].pc \in {"reporting", "booking"}
        BY <1>1 DEF SelectApproved, Stop, Worker
      <4>. QED
        BY <1>1, <2>3, <4>1, <4>2 DEF Mark, MarkingDone, Report, Worker
    <3>. QED
      BY <1>2, <1>8, <2>2, <3>1 DEF OneEach
  <2>4. CASE w.pc = "selecting" /\ worker'[t].pc = "booking"
    <3>1. SelectApproved(t)
      BY <2>4 DEF Execute, Mark, MarkingDone, BookOne, RecordFailure, RecordLine, RecordStatus,
                  BookRest, Recorded, Conclude, Report
    <3>2. PICK chosen \in SUBSET ApprovedNow :
            /\ IsDeduped(chosen, ApprovedNow)
            /\ \/ Stop(t, "success", "completed") \/ Stop(t, "rejected", "failed")
               \/ worker' = [worker EXCEPT ![t].pc = "booking", ![t].todo = chosen]
      BY <3>1 DEF SelectApproved
    <3>3. worker' = [worker EXCEPT ![t] = [w EXCEPT !.pc = "booking", !.todo = chosen]]
      BY <1>1, <2>4, <3>2 DEF Stop, Worker
    <3>4. worker'[t].todo = chosen /\ worker'[t].results = {} /\ lines' = {}
      BY <1>0, <1>1, <1>4, <2>1, <2>4, <3>3 DEF Accounts, Worker
    <3>5. Held(t)' = chosen
      BY <3>4 DEF Held
    <3>6. Distinct(chosen)
      BY <3>2 DEF IsDeduped, Distinct
    <3>7. OneEach'
      BY <1>2, <3>5, <3>6 DEF OneEach, Distinct
    <3>. QED
      BY <1>8, <2>2, <3>7
  <2>. QED
    BY <2>3, <2>4
<1>. QED
  BY <1>9, <1>10

\* At the start nothing is booked.
LEMMA StartsOnce == Init => OnceInv
  BY StartsTyped DEF Init, OnceInv, AccountsInv, NobodyYet, Accepted, Accounts, HasDeal, HasLine,
     Awaits, Idle, Alone, OneEach, LinesFollow, BookedOnce

\* Serialized, a step books no product a second time.
LEMMA StaysOnce == ASSUME Serialized PROVE OnceInv /\ [Next]_vars => OnceInv'
<1> SUFFICES ASSUME OnceInv, [Next]_vars PROVE OnceInv'
  OBVIOUS
<1>1. AccountsInv /\ Typed /\ NobodyYet /\ Alone
  BY DEF OnceInv, AccountsInv
<1>2. AccountsInv' /\ Alone'
  BY <1>1, StaysTyped, StaysAccounted, GivenStays, StaysAlone DEF AccountsInv
<1>3. OneEach /\ LinesFollow /\ BookedOnce
  BY DEF OnceInv
<1>4. ASSUME NEW t \in Threads, Execute(t) PROVE OneEach' /\ LinesFollow' /\ BookedOnce'
  BY <1>4, OwnOnce
<1>5. ASSUME UNCHANGED <<worker, lines>> PROVE OneEach' /\ LinesFollow' /\ BookedOnce'
  <2>1. \A t \in Threads : Held(t)' = Held(t)
    BY <1>5 DEF Held
  <2>2. OneEach'
    BY <1>3, <1>5, <2>1 DEF OneEach, Distinct
  <2>3. LinesFollow'
    BY <1>3, <1>5 DEF LinesFollow
  <2>4. BookedOnce'
    BY <1>3, <1>5 DEF BookedOnce
  <2>. QED
    BY <2>2, <2>3, <2>4
<1>6. ASSUME NEW q \in Requests, RequestApproval(q)
      PROVE  OneEach' /\ LinesFollow' /\ BookedOnce'
  <2>1. q \in Threads /\ worker[q].pc = "idle" /\ UNCHANGED lines
    BY <1>6 DEF RequestApproval, Threads
  <2>2. Begin(Asked(q)).pc = "marking"
    BY DEF Begin, Idle
  <2>3. worker'[q].pc = "marking" /\ \A u \in Threads : u # q => worker'[u] = worker[u]
    BY <1>1, <1>6, <2>1, <2>2, RequestBegins, WorkerChanges
  <2>4. \A x \in lines : x.by \in Threads /\ x.by # q
    BY <1>1, <1>3, <2>1 DEF LinesFollow, Typed, TypeOK
  <2>. QED
    BY <1>3, <2>1, <2>3, <2>4 DEF OneEach, LinesFollow, BookedOnce, Held
<1>7. StartJob \/ KickoffRaises \/ ReceiveBrief \/ AllocateBudget \/ Consolidate \/ KickoffReturns
        => UNCHANGED <<worker, lines>>
  BY DEF StartJob, KickoffRaises, ReceiveBrief, AllocateBudget, Consolidate, KickoffReturns,
         Serialized
<1>8. \A ch \in Channels : ResearchSkipped(ch) \/ ResearchStarts(ch) \/ ResearchEnds(ch)
        => UNCHANGED <<worker, lines>>
  BY DEF ResearchSkipped, ResearchStarts, ResearchEnds
<1>9. Crash \/ UNCHANGED vars => UNCHANGED <<worker, lines>>
  BY DEF Crash, vars
<1>10. \/ \E t \in Threads : Execute(t)
       \/ \E q \in Requests : RequestApproval(q)
       \/ UNCHANGED <<worker, lines>>
  BY <1>7, <1>8, <1>9 DEF Next, Kickoff
<1>11. OneEach' /\ LinesFollow' /\ BookedOnce'
  BY <1>4, <1>5, <1>6, <1>10
<1>. QED
  BY <1>2, <1>11 DEF OnceInv

\* Where approvals are serialized, however often and with whatever they are asked, the same
\* inventory is never booked twice.
THEOREM SerializedBookOnce == ASSUME Serialized PROVE Spec => []BookedOnce
<1>1. OnceInv /\ [Next]_vars => OnceInv'
  BY StaysOnce
<1>2. OnceInv => BookedOnce
  BY DEF OnceInv
<1>. QED
  BY StartsOnce, <1>1, <1>2, PTL DEF Spec

--------------------------------------------------------------------------------
(* What the stores say of the job.                                         *)

\* The record of the execution on t after its step.
Becomes(t, pc, todo, results, current, outcome) ==
    /\ worker'[t].pc = pc /\ worker'[t].todo = todo /\ worker'[t].results = results
    /\ worker'[t].current = current /\ worker'[t].outcome = outcome

\* What each step of an execution leaves of its record.
Selects(t, chosen) ==
    LET w == worker[t]
    IN  /\ IsDeduped(chosen, ApprovedNow)
        /\ \/ chosen = {} /\ Becomes(t, "reporting", w.todo, w.results, w.current, "success")
           \/ /\ ExceedsCeiling(chosen)
              /\ Becomes(t, "reporting", w.todo, w.results, w.current, "rejected")
           \/ /\ ~ExceedsCeiling(chosen)
              /\ Becomes(t, "booking", chosen, w.results, w.current, w.outcome)
Books(t, r) ==
    LET w == worker[t]
    IN  \E learned \in BOOLEAN, pc \in {"recording", "booking"} :
           Becomes(t, pc, w.todo \ {r}, w.results \cup {[rec |-> r, booked |-> learned]},
                   w.current, w.outcome)

\* What each step of an execution does to its own record.
LEMMA OwnRecord ==
  ASSUME Typed, NEW t \in Threads
  PROVE  LET w == worker[t] IN
         /\ \A r : Mark(t, r) => Becomes(t, "marking", w.todo \ {r}, w.results, w.current, w.outcome)
         /\ MarkingDone(t) => Becomes(t, "selecting", w.todo, w.results, w.current, w.outcome)
         /\ SelectApproved(t) => \E chosen \in SUBSET ApprovedNow : Selects(t, chosen)
         /\ \A r : BookOne(t, r) => Books(t, r)
         /\ \A r : RecordFailure(t, r) =>
               Becomes(t, "recording", w.todo, w.results \ {[rec |-> r, booked |-> FALSE]},
                       None, w.outcome)
         /\ \A r : RecordLine(t, r) =>
               Becomes(t, "recording", w.todo, w.results \ {[rec |-> r, booked |-> TRUE]},
                       r, w.outcome)
         /\ RecordStatus(t) => Becomes(t, "recording", w.todo, w.results, None, w.outcome)
         /\ BookRest(t) => Becomes(t, "booking", w.todo, w.results, w.current, w.outcome)
         /\ Conclude(t) => \E outcome \in {"success", "failed"} :
               /\ outcome = "success" => lines # {}
               /\ Becomes(t, "reporting", w.todo, w.results, w.current, outcome)
         /\ Report(t) => Becomes(t, "done", w.todo, w.results, w.current, w.outcome)
<1> DEFINE w == worker[t]
<1>0. w \in Worker /\ worker = [u \in Threads |-> worker[u]]
  BY DEF Typed, TypeOK, Formed
<1>1. ASSUME NEW r, Mark(t, r)
      PROVE  Becomes(t, "marking", w.todo \ {r}, w.results, w.current, w.outcome)
  BY <1>0, <1>1 DEF Mark, Becomes, Worker
<1>2. MarkingDone(t) => Becomes(t, "selecting", w.todo, w.results, w.current, w.outcome)
  BY <1>0 DEF MarkingDone, Becomes, Worker
<1>3. ASSUME NEW outcome, NEW status1, Stop(t, outcome, status1)
      PROVE  Becomes(t, "reporting", w.todo, w.results, w.current, outcome)
  BY <1>0, <1>3 DEF Stop, Becomes, Worker
<1>4. ASSUME SelectApproved(t) PROVE \E chosen \in SUBSET ApprovedNow : Selects(t, chosen)
  <2>1. PICK chosen \in SUBSET ApprovedNow :
          /\ IsDeduped(chosen, ApprovedNow)
          /\ IF chosen = {} THEN Stop(t, "success", "completed")
             ELSE IF ExceedsCeiling(chosen) THEN Stop(t, "rejected", "failed")
             ELSE /\ worker' = [worker EXCEPT ![t].pc = "booking", ![t].todo = chosen]
                  /\ UNCHANGED flow
    BY <1>4 DEF SelectApproved
  <2>2. ASSUME worker' = [worker EXCEPT ![t].pc = "booking", ![t].todo = chosen]
        PROVE  Becomes(t, "booking", chosen, w.results, w.current, w.outcome)
    <3>1. worker' = [worker EXCEPT ![t] = [w EXCEPT !.pc = "booking", !.todo = chosen]]
      BY <2>2
    <3>. QED
      BY <1>0, <3>1 DEF Becomes, Worker
  <2>. QED
    BY <1>3, <2>1, <2>2 DEF Selects
<1>5. ASSUME NEW r, BookOne(t, r) PROVE Books(t, r)
  <2>1. PICK learned \in BOOLEAN, pc \in {"recording", "booking"} :
          worker' = [worker EXCEPT
                ![t].todo = @ \ {r},
                ![t].results = @ \cup {[rec |-> r, booked |-> learned]},
                ![t].pc = pc]
    BY <1>5 DEF BookOne
  <2> DEFINE results == w.results \cup {[rec |-> r, booked |-> learned]}
             new == [w EXCEPT !.todo = @ \ {r}, !.results = results, !.pc = pc]
  <2>2. worker' = [worker EXCEPT ![t] = new]
    BY <2>1
  <2>3. /\ new.pc = pc /\ new.todo = w.todo \ {r} /\ new.results = results
        /\ new.current = w.current /\ new.outcome = w.outcome
    <3>. HIDE DEF results
    <3>. QED
      BY <1>0 DEF Worker
  <2>4. worker'[t] = new
    <3>. HIDE DEF new
    <3>. QED
      BY <1>0, <2>2
  <2>. QED
    BY <2>3, <2>4 DEF Books, Becomes
<1>6. ASSUME NEW r, RecordFailure(t, r)
      PROVE  Becomes(t, "recording", w.todo, w.results \ {[rec |-> r, booked |-> FALSE]},
                     None, w.outcome)
  BY <1>0, <1>6 DEF RecordFailure, Becomes, Worker
<1>7. ASSUME NEW r, RecordLine(t, r)
      PROVE  Becomes(t, "recording", w.todo, w.results \ {[rec |-> r, booked |-> TRUE]},
                     r, w.outcome)
  <2> DEFINE results == w.results \ {[rec |-> r, booked |-> TRUE]}
             new == [w EXCEPT !.results = results, !.current = r]
  <2>1. worker' = [worker EXCEPT ![t] = new] /\ w.pc = "recording"
    BY <1>7 DEF RecordLine
  <2>2. /\ new.pc = w.pc /\ new.todo = w.todo /\ new.results = results
        /\ new.current = r /\ new.outcome = w.outcome
    <3>. HIDE DEF results
    <3>. QED
      BY <1>0 DEF Worker
  <2>3. worker'[t] = new
    <3>. HIDE DEF new
    <3>. QED
      BY <1>0, <2>1
  <2>. QED
    BY <2>1, <2>2, <2>3 DEF Becomes
<1>8. RecordStatus(t) => Becomes(t, "recording", w.todo, w.results, None, w.outcome)
  BY <1>0 DEF RecordStatus, Becomes, Worker
<1>9. BookRest(t) => Becomes(t, "booking", w.todo, w.results, w.current, w.outcome)
  BY <1>0 DEF BookRest, Becomes, Worker
<1>10. Conclude(t) => \E outcome \in {"success", "failed"} :
         /\ outcome = "success" => lines # {}
         /\ Becomes(t, "reporting", w.todo, w.results, w.current, outcome)
  BY <1>3 DEF Conclude
<1>11. Report(t) => Becomes(t, "done", w.todo, w.results, w.current, w.outcome)
  BY <1>0 DEF Report, Becomes, Worker
<1>. QED
  BY <1>1, <1>2, <1>4, <1>5, <1>6, <1>7, <1>8, <1>9, <1>10, <1>11

\* The strengthening: between a booked line and its row, the execution that records it has
\* its record in the table, unless the recommendation never got a row.
RecordedFirst ==
    \A t \in Threads : worker[t].current # None =>
        /\ worker[t].pc = "recording"
        /\ \/ rows[worker[t].current] = None
           \/ [rec |-> worker[t].current, by |-> t] \in records
RowsInv == Typed /\ NobodyYet /\ RecordedFirst /\ BookedRowHasRecord

\* A step of an execution writes the record first, and no row that had none.
LEMMA OwnRows ==
  ASSUME StoreMayFail = FALSE, RowsInv, NEW t \in Threads, Execute(t)
  PROVE  RecordedFirst' /\ BookedRowHasRecord'
<1> DEFINE w == worker[t]
<1>0. /\ Typed /\ RecordedFirst /\ BookedRowHasRecord /\ pending \subseteq Rec
      /\ rows \in [Rec -> {None, "awaiting_approval", "booked", "failed"}]
      /\ w \in Worker /\ NoneAssumption
  BY NoneAssumption DEF RowsInv, Typed, TypeOK
<1>1. \A u \in Threads : u # t => worker'[u] = worker[u]
  BY <1>0, OwnStep DEF OwnOnly
<1>2. ASSUME worker'[t].current # None => w.current = worker'[t].current /\ worker'[t].pc = "recording",
             UNCHANGED store
      PROVE  RecordedFirst' /\ BookedRowHasRecord'
  BY <1>0, <1>1, <1>2 DEF RecordedFirst, BookedRowHasRecord, store
<1>3. ASSUME NEW r \in pending, Mark(t, r) PROVE RecordedFirst' /\ BookedRowHasRecord'
  BY <1>0, <1>2, <1>3, OwnRecord DEF Mark, Becomes, RecordedFirst
<1>4. CASE MarkingDone(t)
  BY <1>0, <1>2, <1>4, OwnRecord DEF MarkingDone, Becomes, RecordedFirst
<1>5. CASE SelectApproved(t)
  <2>1. UNCHANGED store /\ w.current = None
    BY <1>0, <1>5 DEF SelectApproved, RecordedFirst
  <2>2. worker'[t].current = w.current
    BY <1>0, <1>5, OwnRecord DEF Selects, Becomes
  <2>. QED
    BY <1>2, <2>1, <2>2
<1>6. ASSUME NEW r \in pending, BookOne(t, r) PROVE RecordedFirst' /\ BookedRowHasRecord'
  <2>1. UNCHANGED store /\ w.current = None
    BY <1>0, <1>6 DEF BookOne, RecordedFirst
  <2>2. worker'[t].current = w.current
    BY <1>0, <1>6, OwnRecord DEF Books, Becomes
  <2>. QED
    BY <1>2, <2>1, <2>2
\* A row that is updated stays within what its execution may say.
<1>7. ASSUME NEW r \in Rec, NEW new \in {"booked", "failed"},
             rows' = [rows EXCEPT ![r] = Updated(r, new)], UNCHANGED records,
             new = "booked" => rows[r] = None \/ \E x \in records : x.rec = r,
             worker'[t].current = None
      PROVE  RecordedFirst' /\ BookedRowHasRecord'
  <2>1. \A q \in Rec : rows'[q] = IF q = r THEN Updated(r, new) ELSE rows[q]
    BY <1>0, <1>7
  <2>2. \A q \in Rec : rows[q] = None => rows'[q] = None
    BY <1>0, <2>1 DEF Updated, NoneAssumption
  <2>3. RecordedFirst'
    <3>1. \A u \in Threads : worker[u].current # None => worker[u].current \in Rec
      BY <1>0 DEF Typed, TypeOK, Worker
    <3>. QED
      BY <1>0, <1>1, <1>7, <2>2, <3>1 DEF RecordedFirst
  <2>4. BookedRowHasRecord'
    <3>1. \A q \in Rec : rows'[q] = "booked" =>
            rows[q] = "booked" \/ (q = r /\ new = "booked" /\ rows[r] = "awaiting_approval")
      BY <1>0, <1>7, <2>1 DEF Updated
    <3>. QED
      BY <1>0, <1>7, <3>1 DEF BookedRowHasRecord, NoneAssumption
  <2>. QED
    BY <2>3, <2>4
<1>8. ASSUME NEW r \in pending, RecordFailure(t, r) PROVE RecordedFirst' /\ BookedRowHasRecord'
  <2>1. rows' = [rows EXCEPT ![r] = Updated(r, "failed")] /\ UNCHANGED records
    BY <1>8 DEF RecordFailure, Written
  <2>2. worker'[t].current = None
    BY <1>0, <1>8, OwnRecord DEF Becomes
  <2>. QED
    BY <1>0, <1>7, <2>1, <2>2
<1>9. ASSUME NEW r \in pending, RecordLine(t, r) PROVE RecordedFirst' /\ BookedRowHasRecord'
  <2> DEFINE x0 == [rec |-> r, by |-> t]
  <2>1. UNCHANGED rows /\ records \subseteq records' /\ (rows[r] = None \/ x0 \in records')
    BY <1>9 DEF RecordLine, KeepRecord, Written
  <2>2. worker'[t].current = r /\ worker'[t].pc = "recording"
    BY <1>0, <1>9, OwnRecord DEF Becomes
  <2>3. RecordedFirst'
    BY <1>0, <1>1, <2>1, <2>2 DEF RecordedFirst
  <2>4. BookedRowHasRecord'
    BY <1>0, <2>1 DEF BookedRowHasRecord
  <2>. QED
    BY <2>3, <2>4
<1>10. CASE RecordStatus(t)
  <2> DEFINE r == w.current
  <2>1. r # None /\ r \in Rec
    BY <1>0, <1>10 DEF RecordStatus, Worker
  <2>2. rows' = [rows EXCEPT ![r] = Updated(r, "booked")] /\ UNCHANGED records
    BY <1>10 DEF RecordStatus, Written
  <2>3. worker'[t].current = None
    BY <1>0, <1>10, OwnRecord DEF Becomes
  <2>4. rows[r] = None \/ [rec |-> r, by |-> t] \in records
    BY <1>0, <2>1 DEF RecordedFirst
  <2>5. [rec |-> r, by |-> t].rec = r
    OBVIOUS
  <2>. HIDE DEF r
  <2>. QED
    BY <1>7, <2>1, <2>2, <2>3, <2>4, <2>5
<1>11. CASE BookRest(t)
  BY <1>0, <1>2, <1>11, OwnRecord DEF BookRest, Recorded, Becomes
<1>12. CASE Conclude(t)
  <2>1. UNCHANGED store /\ w.current = None
    BY <1>12 DEF Conclude, Recorded
  <2>2. worker'[t].current = w.current
    BY <1>0, <1>12, OwnRecord DEF Becomes
  <2>. QED
    BY <1>2, <2>1, <2>2
<1>13. CASE Report(t)
  BY <1>0, <1>2, <1>13, OwnRecord DEF Report, Becomes, RecordedFirst
<1>. QED
  BY <1>3, <1>4, <1>5, <1>6, <1>8, <1>9, <1>10, <1>11, <1>12, <1>13 DEF Execute

\* What an approval request and a job that approves itself do to the executions: one that was
\* idle begins.
Starts(u) ==
    /\ worker[u].pc = "idle" /\ worker'[u].pc = "marking" /\ worker'[u].results = {}
    /\ worker'[u].current = None /\ worker'[u].outcome = None /\ worker'[u].todo = pending

\* An approval or a kickoff leaves every execution as it was, or starts it.
LEMMA OthersBegin ==
  ASSUME Typed, NobodyYet, (\E q \in Requests : RequestApproval(q)) \/ KickoffReturns
  PROVE  \A u \in Threads : worker'[u] = worker[u] \/ Starts(u)
<1>1. \A ids : /\ Begin(ids).pc = "marking" /\ Begin(ids).results = {}
               /\ Begin(ids).current = None /\ Begin(ids).outcome = None
               /\ Begin(ids).todo = pending
  BY DEF Begin, Idle
<1>2. ASSUME NEW q \in Requests, RequestApproval(q)
      PROVE  \A u \in Threads : worker'[u] = worker[u] \/ Starts(u)
  <2>1. q \in Threads /\ worker[q].pc = "idle"
    BY <1>2 DEF RequestApproval, Threads
  <2>2. worker'[q] = Begin(Asked(q)) /\ \A u \in Threads : u # q => worker'[u] = worker[u]
    BY <1>2, <2>1, RequestBegins, WorkerChanges
  <2>. QED
    BY <1>1, <2>1, <2>2 DEF Starts
<1>3. CASE KickoffReturns
  <2>1. \A u \in Threads : worker[u].pc = "idle"
    BY <1>3 DEF KickoffReturns, NobodyYet, Accepted
  <2>2. worker = [v \in Threads |-> worker[v]]
    BY DEF Typed, Formed
  <2>3. worker' = worker \/ worker' = [worker EXCEPT ![Itself] = Begin(AllIds)]
    BY <1>3 DEF KickoffReturns
  <2>. QED
    BY <1>1, <2>1, <2>2, <2>3 DEF Starts
<1>. QED
  BY <1>2, <1>3

\* The steps that change neither the executions nor what they book and store.
Elsewhere ==
    \/ StartJob \/ ReceiveBrief \/ AllocateBudget \/ KickoffRaises \/ Crash \/ UNCHANGED vars
    \/ \E ch \in Channels : ResearchSkipped(ch) \/ ResearchStarts(ch) \/ ResearchEnds(ch)

\* The steps that touch neither rows nor executions, and the ones that may.
LEMMA StepsElsewhere ==
  /\ Elsewhere => UNCHANGED <<pending, status, worker, lines, deals, rows, records>>
  /\ [Next]_vars => \/ Elsewhere \/ Consolidate \/ KickoffReturns
                    \/ \E q \in Requests : RequestApproval(q)
                    \/ \E t \in Threads : Execute(t)
<1>1. Elsewhere => UNCHANGED <<pending, status, worker, lines, deals, rows, records>>
  <2>1. StartJob \/ ReceiveBrief \/ AllocateBudget \/ KickoffRaises
          => UNCHANGED <<pending, status, worker, lines, deals, rows, records>>
    BY DEF StartJob, ReceiveBrief, AllocateBudget, KickoffRaises, store
  <2>2. Crash \/ UNCHANGED vars
          => UNCHANGED <<pending, status, worker, lines, deals, rows, records>>
    BY DEF Crash, vars, kickoff, store
  <2>3. \A ch \in Channels : ResearchSkipped(ch) \/ ResearchStarts(ch) \/ ResearchEnds(ch)
          => UNCHANGED <<pending, status, worker, lines, deals, rows, records>>
    BY DEF ResearchSkipped, ResearchStarts, ResearchEnds, store
  <2>. QED
    BY <2>1, <2>2, <2>3 DEF Elsewhere
<1>. QED
  BY <1>1 DEF Elsewhere, Next, Kickoff

\* Where the store does not fail, a step leaves rows and records in step.
LEMMA StaysRows == ASSUME StoreMayFail = FALSE PROVE RowsInv /\ [Next]_vars => RowsInv'
<1> SUFFICES ASSUME RowsInv, [Next]_vars PROVE RowsInv'
  OBVIOUS
<1>0. Typed /\ NobodyYet /\ RecordedFirst /\ BookedRowHasRecord
  BY DEF RowsInv
<1>1. Typed' /\ NobodyYet'
  BY <1>0, StaysTyped, GivenStays
<1>2. CASE Elsewhere
  <2>1. RecordedFirst' /\ BookedRowHasRecord'
    BY <1>0, <1>2, StepsElsewhere DEF RecordedFirst, BookedRowHasRecord
  <2>. QED
    BY <1>1, <2>1 DEF RowsInv
<1>3. CASE Consolidate
  <2>1. UNCHANGED <<worker, records>> /\ \A t \in Threads : worker[t].pc = "idle"
    BY <1>0, <1>3 DEF Consolidate, NobodyYet, Accepted
  <2>2. \A r \in Rec : rows'[r] = "booked" => rows[r] = "booked"
    BY <1>0, <1>3 DEF Consolidate, Typed, TypeOK
  <2>3. RecordedFirst' /\ BookedRowHasRecord'
    BY <1>0, <2>1, <2>2 DEF RecordedFirst, BookedRowHasRecord
  <2>. QED
    BY <1>1, <2>3 DEF RowsInv
<1>4. CASE (\E q \in Requests : RequestApproval(q)) \/ KickoffReturns
  <2>1. UNCHANGED <<rows, records>>
    BY <1>4 DEF RequestApproval, KickoffReturns, store
  <2>2. \A u \in Threads : worker'[u] = worker[u] \/ worker'[u].current = None
    BY <1>0, <1>4, OthersBegin DEF Starts
  <2>3. RecordedFirst' /\ BookedRowHasRecord'
    BY <1>0, <2>1, <2>2 DEF RecordedFirst, BookedRowHasRecord
  <2>. QED
    BY <1>1, <2>3 DEF RowsInv
<1>5. ASSUME NEW t \in Threads, Execute(t) PROVE RowsInv'
  BY <1>1, <1>5, OwnRows DEF RowsInv
<1>. QED
  BY <1>2, <1>3, <1>4, <1>5, StepsElsewhere

\* With a store that keeps what it is given, and however executions overlap, a row says
\* "booked" only when its record is in, wherever the process dies.
THEOREM RowsFollowRecords == ASSUME StoreMayFail = FALSE PROVE Spec => []BookedRowHasRecord
<1>1. Init => RowsInv
  <2> SUFFICES ASSUME Init PROVE RowsInv
    OBVIOUS
  <2>1. \A r \in Rec : rows[r] # "booked"
    BY NoneAssumption DEF Init
  <2>2. \A t \in Threads : worker[t].current = None /\ worker[t].pc = "idle"
    BY DEF Init, Idle
  <2>. QED
    BY <2>1, <2>2, StartsTyped DEF Init, RowsInv, NobodyYet, Accepted, RecordedFirst,
                                   BookedRowHasRecord
<1>2. RowsInv /\ [Next]_vars => RowsInv'
  BY StaysRows
<1>3. RowsInv => BookedRowHasRecord
  BY DEF RowsInv
<1>. QED
  BY <1>1, <1>2, <1>3, PTL DEF Spec

\* Serialized approvals: the job reports only what is in the store.
\* The strengthening: the jobs table repeats the job, which is over only when its one execution
\* is; until that execution has recorded what became of a recommendation, the row waits, and
\* nothing is recorded twice; a booked line has its record, and its row says "booked" as soon
\* as the execution has turned to something else.
JobOver == job \in {"completed", "failed"} => \A t \in Threads : worker[t].pc \in {"idle", "done"}
Open(t) == worker[t].todo \cup {x.rec : x \in worker[t].results}
RowsWait(t) ==
    LET w == worker[t]
    IN  /\ \A r \in Open(t) \cup {w.current} : r # None => rows[r] = "awaiting_approval"
        /\ w.todo \cup {x.rec : x \in w.results} \subseteq Rec
        /\ w.current \notin Open(t)
        /\ \A x \in w.results : x.rec \notin w.todo
        /\ \A x, y \in w.results : x.rec = y.rec => x = y
PlansWait ==
    \A t \in Threads : worker[t].pc \in {"booking", "recording"} => RowsWait(t)
StartsWait ==
    (\A t \in Threads : worker[t].pc \in {"idle", "marking", "selecting"}) =>
        \A r \in pending : rows[r] = "awaiting_approval"
LinesSettle ==
    \A x \in lines : x \in records /\ (rows[x.rec] = "booked" \/ worker[x.by].current = x.rec)
SettledInv ==
    /\ OnceInv /\ RecordedFirst /\ BookedRowHasRecord
    /\ saved = job /\ JobOver /\ PlansWait /\ StartsWait /\ LinesSettle

\* While one execution is at work, the others are idle, and all lines are its own.
LEMMA AtWork ==
  ASSUME SettledInv, NEW t \in Threads, Execute(t)
  PROVE  /\ \A u \in Threads : u # t => worker[u].pc = "idle" /\ worker'[u] = worker[u]
         /\ \A x \in lines : x.by = t
         /\ worker[t].pc \in {"booking", "recording"} => RowsWait(t)
         /\ worker[t].pc \in {"marking", "selecting"} =>
              lines = {} /\ \A r \in pending : rows[r] = "awaiting_approval"
         /\ worker[t].pc \notin {"booking", "recording"} => worker[t].results = {}
         /\ worker[t].pc # "recording" => worker[t].current = None
<1>1. /\ OwnOnly(t) /\ Alone /\ LinesFollow /\ Accounts(t) /\ Typed
  BY OwnStep DEF SettledInv, OnceInv, AccountsInv
<1>2. \A u \in Threads : u # t => worker[u].pc = "idle" /\ worker'[u] = worker[u]
  BY <1>1 DEF OwnOnly, Alone, Accepted
<1>3. \A x \in lines : x.by = t
  BY <1>1, <1>2 DEF LinesFollow, Typed, TypeOK
<1>4. worker[t].pc \in {"marking", "selecting"} =>
        lines = {} /\ \A r \in pending : rows[r] = "awaiting_approval"
  BY <1>1, <1>2, <1>3 DEF LinesFollow, SettledInv, StartsWait
<1>. QED
  BY <1>1, <1>2, <1>3, <1>4 DEF SettledInv, PlansWait, RecordedFirst, Accounts

\* A step of the one execution leaves the rest of what it holds waiting.
LEMMA OwnSettles ==
  ASSUME StoreMayFail = FALSE, SettledInv, NEW t \in Threads, Execute(t)
  PROVE  PlansWait' /\ StartsWait' /\ LinesSettle'
<1> DEFINE w == worker[t]
<1>0. /\ Typed /\ pending \subseteq Rec /\ UNCHANGED pending
      /\ rows \in [Rec -> {None, "awaiting_approval", "booked", "failed"}]
      /\ w \in Worker /\ lines \subseteq [rec : Rec, by : Threads]
      /\ LinesSettle /\ NoneAssumption
  BY NoneAssumption, OwnStep DEF SettledInv, OnceInv, AccountsInv, OwnOnly, kickoff, Typed, TypeOK
<1>1. /\ \A u \in Threads : u # t => worker[u].pc = "idle" /\ worker'[u] = worker[u]
      /\ \A x \in lines : x.by = t
      /\ w.pc \in {"booking", "recording"} => RowsWait(t)
      /\ w.pc \in {"marking", "selecting"} =>
           lines = {} /\ \A r \in pending : rows[r] = "awaiting_approval"
      /\ w.pc \notin {"booking", "recording"} => w.results = {}
      /\ w.pc # "recording" => w.current = None
  BY AtWork
\* It is enough to look at this execution.
<1>2. ASSUME worker'[t].pc \in {"booking", "recording"} => RowsWait(t)'
      PROVE  PlansWait'
  BY <1>1, <1>2 DEF PlansWait
<1>3. ASSUME worker'[t].pc \notin {"marking", "selecting"}, worker'[t].pc # "idle"
      PROVE  StartsWait'
  BY <1>3 DEF StartsWait
\* Steps that store nothing, and lose nothing of what is recorded at the moment.
<1>4. ASSUME UNCHANGED <<lines, rows, records>>, worker'[t].current = w.current
      PROVE  LinesSettle'
  BY <1>0, <1>1, <1>4 DEF LinesSettle
<1>5. ASSUME NEW r \in pending, Mark(t, r) PROVE PlansWait' /\ StartsWait' /\ LinesSettle'
  <2>1. /\ UNCHANGED <<lines, rows, records>> /\ w.pc = "marking"
        /\ worker'[t].pc = "marking" /\ worker'[t].current = w.current
    BY <1>0, <1>5, OwnRecord DEF Mark, Becomes, store
  <2>. QED
    BY <1>0, <1>1, <1>2, <1>4, <2>1 DEF StartsWait
<1>6. CASE MarkingDone(t)
  <2>1. /\ UNCHANGED <<lines, rows, records>> /\ w.pc = "marking"
        /\ worker'[t].pc = "selecting" /\ worker'[t].current = w.current
    BY <1>0, <1>6, OwnRecord DEF MarkingDone, Becomes, store
  <2>. QED
    BY <1>0, <1>1, <1>2, <1>4, <2>1 DEF StartsWait
<1>7. CASE SelectApproved(t)
  <2>1. UNCHANGED <<lines, rows, records>> /\ w.pc = "selecting"
    BY <1>7 DEF SelectApproved, store
  <2>2. PICK chosen \in SUBSET ApprovedNow : Selects(t, chosen)
    BY <1>0, <1>7, OwnRecord
  <2>3. chosen \subseteq pending
    BY DEF ApprovedNow
  <2>4. CASE worker'[t].pc = "booking"
    <3>1. worker'[t].todo = chosen /\ worker'[t].results = {} /\ worker'[t].current = None
      BY <1>1, <2>1, <2>2, <2>4 DEF Selects, Becomes
    <3>2. RowsWait(t)'
      BY <1>0, <1>1, <2>1, <2>3, <3>1 DEF RowsWait, Open
    <3>. QED
      BY <1>1, <1>2, <1>3, <1>4, <2>1, <2>4, <3>1, <3>2
  <2>5. CASE worker'[t].pc # "booking"
    <3>1. worker'[t].pc = "reporting" /\ worker'[t].current = w.current
      BY <2>2, <2>5 DEF Selects, Becomes
    <3>. QED
      BY <1>2, <1>3, <1>4, <2>1, <3>1
  <2>. QED
    BY <2>4, <2>5
<1>8. ASSUME NEW r \in pending, BookOne(t, r) PROVE PlansWait' /\ StartsWait' /\ LinesSettle'
  <2>1. UNCHANGED <<lines, rows, records>> /\ w.pc = "booking" /\ r \in w.todo
    BY <1>8 DEF BookOne, Bookable, store
  <2>2. PICK learned \in BOOLEAN, pc \in {"recording", "booking"} :
           Becomes(t, pc, w.todo \ {r}, w.results \cup {[rec |-> r, booked |-> learned]},
                   w.current, w.outcome)
    BY <1>0, <1>8, OwnRecord DEF Books
  <2> DEFINE x0 == [rec |-> r, booked |-> learned]
  <2>3. /\ worker'[t].todo = w.todo \ {r} /\ worker'[t].results = w.results \cup {x0}
        /\ worker'[t].current = w.current /\ worker'[t].pc = pc /\ w.current = None
    BY <1>1, <2>1, <2>2 DEF Becomes
  <2>4. x0.rec = r
    OBVIOUS
  <2>. HIDE DEF x0
  <2>5. RowsWait(t)
    BY <1>1, <2>1
  <2>6. RowsWait(t)'
    BY <1>0, <2>1, <2>3, <2>4, <2>5 DEF RowsWait, Open
  <2>. QED
    BY <1>2, <1>3, <1>4, <2>1, <2>3, <2>6
<1>9. ASSUME NEW r \in pending, RecordFailure(t, r)
      PROVE  PlansWait' /\ StartsWait' /\ LinesSettle'
  <2> DEFINE x0 == [rec |-> r, booked |-> FALSE]
  <2>1. /\ w.pc = "recording" /\ w.current = None /\ x0 \in w.results
        /\ rows' = [rows EXCEPT ![r] = Updated(r, "failed")] /\ UNCHANGED <<lines, records>>
    BY <1>9 DEF RecordFailure, Written
  <2>2. /\ worker'[t].todo = w.todo /\ worker'[t].results = w.results \ {x0}
        /\ worker'[t].current = None /\ worker'[t].pc = "recording"
    BY <1>0, <1>9, OwnRecord DEF Becomes
  <2>3. x0.rec = r /\ r \in Rec
    BY <1>0
  <2>. HIDE DEF x0
  <2>4. \A q \in Rec : q # r => rows'[q] = rows[q]
    BY <1>0, <2>1
  <2>5. RowsWait(t)
    BY <1>1, <2>1
  <2>6. r \notin Open(t)'
    BY <2>1, <2>2, <2>3, <2>5 DEF RowsWait, Open
  <2>7. RowsWait(t)'
    BY <1>0, <2>1, <2>2, <2>3, <2>4, <2>5, <2>6 DEF RowsWait, Open
  <2>8. \A x \in lines : x.rec \in Rec /\ x.rec # None /\ x \in records /\ rows[x.rec] = "booked"
    BY <1>0, <1>1, <2>1 DEF LinesSettle, NoneAssumption
  <2>9. rows[r] = "awaiting_approval"
    BY <1>0, <2>1, <2>3, <2>5 DEF RowsWait, Open, NoneAssumption
  <2>10. LinesSettle'
    BY <2>1, <2>4, <2>8, <2>9 DEF LinesSettle
  <2>. QED
    BY <1>2, <1>3, <2>2, <2>7, <2>10
<1>10. ASSUME NEW r \in pending, RecordLine(t, r) PROVE PlansWait' /\ StartsWait' /\ LinesSettle'
  <2> DEFINE x0 == [rec |-> r, booked |-> TRUE]
             l0 == [rec |-> r, by |-> t]
  <2>1. /\ w.pc = "recording" /\ w.current = None /\ x0 \in w.results /\ UNCHANGED rows
        /\ lines' = lines \cup {l0} /\ KeepRecord(t, r)
    BY <1>10 DEF RecordLine
  <2>2. /\ worker'[t].todo = w.todo /\ worker'[t].results = w.results \ {x0}
        /\ worker'[t].current = r /\ worker'[t].pc = "recording"
    BY <1>0, <1>10, OwnRecord DEF Becomes
  <2>3. x0.rec = r /\ r \in Rec /\ l0.rec = r /\ l0.by = t
    BY <1>0
  <2>4. RowsWait(t)
    BY <1>1, <2>1
  <2>5. rows[r] = "awaiting_approval"
    <3>. HIDE DEF x0
    <3>. QED
      BY <1>0, <2>1, <2>3, <2>4 DEF RowsWait, Open, NoneAssumption
  <2>6. records' = records \cup {l0}
    BY <1>0, <2>1, <2>5 DEF KeepRecord, Written, NoneAssumption
  <2>. HIDE DEF x0, l0
  <2>7. r \notin Open(t)'
    BY <2>1, <2>2, <2>3, <2>4 DEF RowsWait, Open
  <2>8. Open(t)' \subseteq Open(t)
    BY <2>2 DEF Open
  <2>9. RowsWait(t)'
    BY <2>1, <2>2, <2>3, <2>4, <2>5, <2>7, <2>8 DEF RowsWait, Open
  <2>10. \A x \in lines : x \in records /\ rows[x.rec] = "booked"
    BY <1>0, <1>1, <2>1 DEF LinesSettle, NoneAssumption
  <2>11. LinesSettle'
    BY <2>1, <2>2, <2>3, <2>6, <2>10 DEF LinesSettle
  <2>. QED
    BY <1>2, <1>3, <2>2, <2>9, <2>11
<1>11. CASE RecordStatus(t)
  <2> DEFINE r == w.current
  <2>1. /\ w.pc = "recording" /\ r # None /\ r \in Rec
        /\ rows' = [rows EXCEPT ![r] = Updated(r, "booked")] /\ UNCHANGED <<lines, records>>
    BY <1>0, <1>11 DEF RecordStatus, Written, Worker
  <2>2. /\ worker'[t].todo = w.todo /\ worker'[t].results = w.results
        /\ worker'[t].current = None /\ worker'[t].pc = "recording"
    BY <1>0, <1>11, OwnRecord DEF Becomes
  <2>3. RowsWait(t)
    BY <1>1, <2>1
  <2>4. \A q \in Rec : rows'[q] = IF q = r THEN "booked" ELSE rows[q]
    BY <1>0, <2>1, <2>3 DEF RowsWait, Updated
  <2>5. r \notin Open(t) /\ Open(t)' = Open(t) /\ Open(t) \subseteq Rec
    BY <2>2, <2>3 DEF RowsWait, Open
  <2>6. RowsWait(t)'
    BY <1>0, <2>2, <2>3, <2>4, <2>5 DEF RowsWait, Open, NoneAssumption
  <2>7. LinesSettle'
    BY <1>0, <1>1, <2>1, <2>4 DEF LinesSettle
  <2>. QED
    BY <1>2, <1>3, <2>2, <2>6, <2>7
<1>12. CASE BookRest(t)
  <2>1. /\ UNCHANGED <<lines, rows, records>> /\ w.pc = "recording"
        /\ worker'[t].todo = w.todo /\ worker'[t].results = w.results
        /\ worker'[t].current = w.current /\ worker'[t].pc = "booking"
    BY <1>0, <1>12, OwnRecord DEF BookRest, Recorded, Becomes, store
  <2>2. RowsWait(t)'
    BY <1>1, <2>1 DEF RowsWait, Open
  <2>. QED
    BY <1>2, <1>3, <1>4, <2>1, <2>2
<1>13. CASE Conclude(t) \/ Report(t)
  <2>1. /\ UNCHANGED <<lines, rows, records>> /\ worker'[t].current = w.current
        /\ worker'[t].pc \in {"reporting", "done"}
    BY <1>0, <1>13, OwnRecord DEF Conclude, Report, Becomes, store
  <2>. QED
    BY <1>2, <1>3, <1>4, <2>1
<1>. QED
  BY <1>5, <1>6, <1>7, <1>8, <1>9, <1>10, <1>11, <1>12, <1>13 DEF Execute

\* The job is over only when its execution is.
LEMMA StaysOver ==
  ASSUME Serialized, StoreMayFail = FALSE, SettledInv, [Next]_vars
  PROVE  saved' = job' /\ JobOver'
<1>0. Typed /\ NobodyYet /\ Alone /\ saved = job /\ JobOver
  BY DEF SettledInv, OnceInv, AccountsInv
<1>1. ASSUME NEW t \in Threads, Execute(t) PROVE saved' = job' /\ JobOver'
  <2>1. \A u \in Threads : u # t => worker'[u].pc = "idle"
    BY <1>1, AtWork
  <2>2. CASE Report(t)
    <3>1. worker'[t].pc = "done"
      BY <1>0, <2>2, OwnRecord DEF Becomes
    <3>2. saved' = job'
      BY <2>2 DEF Report, Persist
    <3>. QED
      BY <2>1, <3>1, <3>2 DEF JobOver
  <2>3. CASE ~Report(t)
    <3>1. UNCHANGED <<job, saved>>
      BY <1>1, <2>3 DEF Execute, Mark, BookOne, RecordFailure, RecordLine, MarkingDone,
                        SelectApproved, RecordStatus, BookRest, Conclude
    <3>2. worker[t].pc \notin {"idle", "done"}
      BY <1>1, <2>3 DEF Execute, Mark, BookOne, RecordFailure, RecordLine, MarkingDone,
                        SelectApproved, RecordStatus, BookRest, Recorded, Conclude
    <3>3. job' \notin {"completed", "failed"}
      BY <1>0, <3>1, <3>2 DEF JobOver
    <3>. QED
      BY <1>0, <3>1, <3>3 DEF JobOver
  <2>. QED
    BY <2>2, <2>3
<1>2. ASSUME NEW q \in Requests, RequestApproval(q) PROVE saved' = job' /\ JobOver'
  BY <1>0, <1>2 DEF RequestApproval, JobOver
<1>3. CASE KickoffReturns
  BY <1>3 DEF KickoffReturns, Serialized, Persist, JobOver
<1>4. CASE StartJob \/ KickoffRaises
  <2>1. saved' = job' /\ UNCHANGED worker /\ step # "handed_over"
    BY <1>4 DEF StartJob, KickoffRaises, Persist
  <2>. QED
    BY <1>0, <2>1 DEF NobodyYet, Accepted, JobOver
<1>5. CASE UNCHANGED <<job, saved, worker>>
  BY <1>0, <1>5 DEF JobOver
<1>6. ReceiveBrief \/ AllocateBudget \/ Consolidate \/ Crash \/ UNCHANGED vars
        => UNCHANGED <<job, saved, worker>>
  BY DEF ReceiveBrief, AllocateBudget, Consolidate, Crash, vars
<1>7. \A ch \in Channels : ResearchSkipped(ch) \/ ResearchStarts(ch) \/ ResearchEnds(ch)
        => UNCHANGED <<job, saved, worker>>
  BY DEF ResearchSkipped, ResearchStarts, ResearchEnds
<1>. QED
  BY <1>1, <1>2, <1>3, <1>4, <1>5, <1>6, <1>7 DEF Next, Kickoff

\* Every step leaves what is planned waiting, and what is booked recorded.
LEMMA StaysSettled ==
  ASSUME Serialized, StoreMayFail = FALSE, SettledInv, [Next]_vars
  PROVE  PlansWait' /\ StartsWait' /\ LinesSettle'
<1>0. /\ Typed /\ NobodyYet /\ LinesFollow /\ RecordedFirst
      /\ PlansWait /\ StartsWait /\ LinesSettle
  BY DEF SettledInv, OnceInv, AccountsInv
<1>1. ASSUME NEW t \in Threads, Execute(t) PROVE PlansWait' /\ StartsWait' /\ LinesSettle'
  BY <1>1, OwnSettles
<1>2. CASE Elsewhere
  BY <1>0, <1>2, StepsElsewhere DEF PlansWait, RowsWait, Open, StartsWait, LinesSettle
<1>3. CASE (\E q \in Requests : RequestApproval(q)) \/ KickoffReturns
  <2>1. UNCHANGED <<pending, lines, rows, records>>
    BY <1>3 DEF RequestApproval, KickoffReturns, kickoff, store
  <2>2. \A u \in Threads : worker'[u] = worker[u] \/ Starts(u)
    BY <1>0, <1>3, OthersBegin
  <2>3. PlansWait'
    BY <1>0, <2>1, <2>2 DEF PlansWait, RowsWait, Open, Starts
  <2>4. StartsWait'
    BY <1>0, <2>1, <2>2 DEF StartsWait, Starts
  <2>5. LinesSettle'
    <3>1. \A x \in lines : x.by \in Threads /\ worker[x.by].pc # "idle"
      BY <1>0 DEF LinesFollow, Typed, TypeOK
    <3>. QED
      BY <1>0, <2>1, <2>2, <3>1 DEF LinesSettle, Starts
  <2>. QED
    BY <2>3, <2>4, <2>5
<1>4. CASE Consolidate
  <2>1. UNCHANGED worker /\ UNCHANGED lines /\ \A t \in Threads : worker[t].pc = "idle"
    BY <1>0, <1>4 DEF Consolidate, NobodyYet, Accepted
  <2>2. lines = {}
    BY <1>0, <2>1 DEF LinesFollow, Typed, TypeOK
  <2>3. \A r \in pending' : rows'[r] = "awaiting_approval"
    <3>1. CASE Active \subseteq Reported
      <4>1. rows' = [r \in Rec |-> IF r \in pending' THEN "awaiting_approval" ELSE rows[r]]
        BY <1>4, <3>1 DEF Consolidate
      <4>2. pending' \subseteq Rec
        BY <1>0, StaysTyped DEF Typed, TypeOK
      <4>. QED
        BY <4>1, <4>2
    <3>2. CASE ~(Active \subseteq Reported)
      <4>1. UNCHANGED <<pending, rows>>
        BY <1>4, <3>2 DEF Consolidate
      <4>. QED
        BY <1>0, <2>1, <4>1 DEF StartsWait
    <3>. QED
      BY <3>1, <3>2
  <2>. QED
    BY <2>1, <2>2, <2>3 DEF PlansWait, StartsWait, LinesSettle
<1>. QED
  BY <1>1, <1>2, <1>3, <1>4, StepsElsewhere

\* Where approvals are serialized and the store keeps what it is given, the three stores agree
\* wherever the process dies: no row is ahead of its record, and a job that the jobs table
\* calls finished has every deal that it knows of recorded, with its row.
THEOREM SerializedRecordsAgree ==
  ASSUME Serialized, StoreMayFail = FALSE
  PROVE  Spec => []RecordsAgree
<1>1. Init => SettledInv
  <2> SUFFICES ASSUME Init PROVE SettledInv
    OBVIOUS
  <2>1. \A r \in Rec : rows[r] # "booked"
    BY NoneAssumption DEF Init
  <2>2. \A t \in Threads : worker[t].current = None /\ worker[t].pc = "idle"
    BY DEF Init, Idle
  <2>3. RecordedFirst /\ BookedRowHasRecord
    BY <2>1, <2>2 DEF RecordedFirst, BookedRowHasRecord
  <2>. QED
    BY <2>2, <2>3, StartsOnce DEF Init, SettledInv, JobOver, PlansWait, StartsWait, LinesSettle
<1>2. SettledInv /\ [Next]_vars => SettledInv'
  <2> SUFFICES ASSUME SettledInv, [Next]_vars PROVE SettledInv'
    OBVIOUS
  <2>1. OnceInv' /\ RowsInv
    BY StaysOnce DEF SettledInv, RowsInv, OnceInv, AccountsInv
  <2>2. RecordedFirst' /\ BookedRowHasRecord'
    BY <2>1, StaysRows DEF RowsInv
  <2>3. saved' = job' /\ JobOver'
    BY StaysOver
  <2>4. PlansWait' /\ StartsWait' /\ LinesSettle'
    BY StaysSettled
  <2>. QED
    BY <2>1, <2>2, <2>3, <2>4 DEF SettledInv
<1>3. SettledInv => RecordsAgree
  <2> SUFFICES ASSUME SettledInv, saved \in {"completed", "failed"},
                      NEW d \in deals, d.known
               PROVE  [rec |-> d.rec, by |-> d.by] \in records /\ rows[d.rec] = "booked"
    BY DEF SettledInv, RecordsAgree, SavedJobIsComplete
  <2>1. d.by \in Threads /\ d.rec \in Rec /\ lines \subseteq [rec : Rec, by : Threads]
    BY DEF SettledInv, OnceInv, AccountsInv, Typed, TypeOK
  <2>2. worker[d.by].pc \in {"idle", "done"} /\ Accounts(d.by)
    BY <2>1 DEF SettledInv, JobOver, OnceInv, AccountsInv
  <2>3. HasLine(d.by, d.rec)
    BY <2>1, <2>2 DEF Accounts, HasDeal, Awaits
  <2>4. PICK x \in lines : x.rec = d.rec /\ x.by = d.by
    BY <2>3 DEF HasLine
  <2>5. x = [rec |-> d.rec, by |-> d.by]
    BY <2>1, <2>4
  <2>6. worker[x.by].current = None
    BY <2>1, <2>2, <2>4 DEF SettledInv, RecordedFirst
  <2>. QED
    BY <2>1, <2>4, <2>5, <2>6, NoneAssumption DEF SettledInv, LinesSettle
<1>. QED
  BY <1>1, <1>2, <1>3, PTL DEF Spec

\* The strengthening: an execution succeeds with deals booked or nothing approved, and only a
\* successful one completes the job.
SuccessMeans ==
    \A t \in Threads : worker[t].outcome = "success" =>
        worker[t].pc \in {"reporting", "done"} /\ (lines # {} \/ ApprovedNow = {})
CompletedBy ==
    job = "completed" => \E t \in Threads : worker[t].outcome = "success" /\ worker[t].pc = "done"
CompleteInv == Typed /\ NobodyYet /\ Alone /\ SuccessMeans /\ CompletedBy

\* An execution that ends well makes its job completed only with what it approved booked.
LEMMA OwnSuccess ==
  ASSUME CompleteInv, NEW t \in Threads, Execute(t)
  PROVE  SuccessMeans' /\ CompletedBy'
<1> DEFINE w == worker[t]
<1>0. /\ Typed /\ NobodyYet /\ Alone /\ SuccessMeans /\ CompletedBy /\ OwnOnly(t)
      /\ UNCHANGED pending /\ NoneAssumption
  BY OwnStep, NoneAssumption DEF CompleteInv, OwnOnly, kickoff
<1>1. \A u \in Threads : u # t => worker[u].pc = "idle" /\ worker'[u] = worker[u]
  BY <1>0 DEF OwnOnly, Alone, Accepted
<1>2. \A u \in Threads : u # t => worker'[u].outcome # "success"
  BY <1>0, <1>1 DEF SuccessMeans
<1>3. lines \subseteq lines'
  BY DEF Execute, Mark, BookOne, RecordFailure, RecordLine, MarkingDone, SelectApproved,
         RecordStatus, BookRest, Conclude, Report
<1>4. (\E r \in pending : Mark(t, r)) \/ UNCHANGED ApprovedNow
  BY <1>0 DEF Execute, BookOne, RecordFailure, RecordLine, MarkingDone, SelectApproved,
              RecordStatus, BookRest, Conclude, Report, ApprovedNow
<1>5. CASE Report(t)
  <2>1. /\ w.pc = "reporting" /\ worker'[t].outcome = w.outcome /\ worker'[t].pc = "done"
    BY <1>0, <1>5, OwnRecord DEF Report, Becomes
  <2>2. t # Itself
    <3>1. loop = t
      BY <1>0, <2>1 DEF Alone, OwnOnly
    <3>. QED
      BY <1>0, <3>1, ParametersAssumption DEF Typed, TypeOK, Threads
  <2>3. job' = "completed" => w.outcome = "success"
    BY <1>5, <2>2 DEF Report, JobStatus
  <2>4. UNCHANGED ApprovedNow
    BY <1>0, <1>5 DEF Report, ApprovedNow
  <2>. QED
    BY <1>0, <1>2, <1>3, <2>1, <2>3, <2>4 DEF SuccessMeans, CompletedBy
<1>6. CASE ~Report(t)
  <2>1. UNCHANGED job /\ w.pc # "done"
    BY <1>6 DEF Execute, Mark, BookOne, RecordFailure, RecordLine, MarkingDone, SelectApproved,
                RecordStatus, BookRest, Recorded, Conclude
  <2>2. job # "completed"
    BY <1>0, <1>1, <2>1 DEF CompletedBy
  <2>3. ASSUME worker'[t].outcome = "success" PROVE worker'[t].pc = "reporting"
               /\ (lines' # {} \/ ApprovedNow' = {})
    <3>1. w.outcome # "success"
      <4>1. w.pc \notin {"reporting", "done"}
        BY <1>6 DEF Execute, Mark, BookOne, RecordFailure, RecordLine, MarkingDone,
                    SelectApproved, RecordStatus, BookRest, Recorded, Conclude
      <4>. QED
        BY <1>0, <4>1 DEF SuccessMeans
    <3>2. ASSUME NEW r PROVE ~Mark(t, r) /\ ~BookOne(t, r) /\ ~RecordFailure(t, r) /\ ~RecordLine(t, r)
      <4>1. /\ Mark(t, r) => worker'[t].outcome = w.outcome
            /\ BookOne(t, r) => worker'[t].outcome = w.outcome
            /\ RecordFailure(t, r) => worker'[t].outcome = w.outcome
            /\ RecordLine(t, r) => worker'[t].outcome = w.outcome
        BY <1>0, OwnRecord DEF Books, Becomes
      <4>. QED
        BY <2>3, <3>1, <4>1
    <3>3. ~MarkingDone(t) /\ ~RecordStatus(t) /\ ~BookRest(t)
      BY <1>0, <2>3, <3>1, OwnRecord DEF Becomes
    <3>4. SelectApproved(t) \/ Conclude(t)
      BY <1>6, <3>2, <3>3 DEF Execute
    <3>5. UNCHANGED <<lines, ApprovedNow>>
      BY <1>0, <3>4 DEF SelectApproved, Conclude, ApprovedNow
    <3>6. CASE SelectApproved(t)
      <4>1. PICK chosen \in SUBSET ApprovedNow : Selects(t, chosen)
        BY <1>0, <3>6, OwnRecord
      <4>2. chosen = {} /\ IsDeduped(chosen, ApprovedNow) /\ worker'[t].pc = "reporting"
        BY <1>0, <2>3, <3>1, <4>1 DEF Selects, Becomes
      <4>3. ApprovedNow = {}
        BY <4>2 DEF IsDeduped
      <4>. QED
        BY <3>5, <4>2, <4>3
    <3>7. CASE Conclude(t)
      <4>1. PICK outcome \in {"success", "failed"} :
              /\ outcome = "success" => lines # {}
              /\ Becomes(t, "reporting", w.todo, w.results, w.current, outcome)
        BY <1>0, <3>7, OwnRecord
      <4>. QED
        BY <2>3, <3>5, <4>1 DEF Becomes
    <3>. QED
      BY <3>4, <3>6, <3>7
  <2>. QED
    BY <1>2, <2>1, <2>2, <2>3 DEF SuccessMeans, CompletedBy
<1>. QED
  BY <1>5, <1>6

\* Where approvals are serialized, "completed" means deals booked or nothing approved,
\* whatever the store loses.
THEOREM SerializedCompletion == ASSUME Serialized PROVE Spec => []CompletedMeansBooked
<1>1. Init => CompleteInv
  BY StartsTyped, NoneAssumption
  DEF Init, CompleteInv, NobodyYet, Accepted, Idle, Alone, SuccessMeans, CompletedBy
<1>2. CompleteInv /\ [Next]_vars => CompleteInv'
  <2> SUFFICES ASSUME CompleteInv, [Next]_vars PROVE CompleteInv'
    OBVIOUS
  <2>0. Typed /\ NobodyYet /\ Alone /\ SuccessMeans /\ CompletedBy /\ NoneAssumption
    BY NoneAssumption DEF CompleteInv
  <2>1. Typed' /\ NobodyYet' /\ Alone'
    BY <2>0, StaysTyped, GivenStays, StaysAlone
  <2>2. ASSUME NEW t \in Threads, Execute(t) PROVE SuccessMeans' /\ CompletedBy'
    BY <2>2, OwnSuccess
  <2>3. ASSUME \A u \in Threads : worker[u].pc = "idle", job' # "completed",
               \A u \in Threads : worker'[u] = worker[u] \/ Starts(u)
        PROVE  SuccessMeans' /\ CompletedBy'
    <3>1. \A u \in Threads : worker'[u].outcome # "success"
      BY <2>0, <2>3 DEF SuccessMeans, Starts, NoneAssumption
    <3>. QED
      BY <2>3, <3>1 DEF SuccessMeans, CompletedBy
  <2>4. ASSUME Consolidate \/ KickoffReturns PROVE SuccessMeans' /\ CompletedBy'
    <3>1. step # "handed_over"
      BY <2>4 DEF Consolidate, KickoffReturns
    <3>2. \A u \in Threads : worker[u].pc = "idle"
      BY <2>0, <3>1 DEF NobodyYet, Accepted
    <3>3. ~(\E u \in Threads : worker[u].outcome = "success" /\ worker[u].pc = "done")
      BY <3>2
    <3>4. job' # "completed"
      BY <2>0, <2>4, <3>3 DEF Consolidate, KickoffReturns, Serialized, CompletedBy
    <3>5. \A u \in Threads : worker'[u] = worker[u] \/ Starts(u)
      BY <2>0, <2>4, OthersBegin DEF Consolidate
    <3>. QED
      BY <2>3, <3>2, <3>4, <3>5 DEF Starts
  <2>5. ASSUME NEW q \in Requests, RequestApproval(q) PROVE SuccessMeans' /\ CompletedBy'
    <3>1. job' # "completed" /\ UNCHANGED <<lines, pending, status>>
      BY <2>5 DEF RequestApproval, kickoff
    <3>2. \A u \in Threads : worker'[u] = worker[u] \/ Starts(u)
      BY <2>0, <2>5, OthersBegin
    <3>3. UNCHANGED ApprovedNow
      BY <3>1 DEF ApprovedNow
    <3>. QED
      BY <2>0, <3>1, <3>2, <3>3 DEF SuccessMeans, CompletedBy, Starts, NoneAssumption
  <2>6. ASSUME Elsewhere PROVE SuccessMeans' /\ CompletedBy'
    <3>1. UNCHANGED <<worker, lines>> /\ UNCHANGED ApprovedNow
      BY <2>6, StepsElsewhere DEF ApprovedNow
    <3>2. job' = "completed" => job = "completed"
      <4>1. StartJob \/ ReceiveBrief \/ AllocateBudget \/ KickoffRaises \/ Crash \/ UNCHANGED vars
              => (job' = "completed" => job = "completed")
        BY DEF StartJob, ReceiveBrief, AllocateBudget, KickoffRaises, Crash, vars
      <4>2. \A ch \in Channels : ResearchSkipped(ch) \/ ResearchStarts(ch) \/ ResearchEnds(ch)
              => UNCHANGED job
        BY DEF ResearchSkipped, ResearchStarts, ResearchEnds
      <4>. QED
        BY <2>6, <4>1, <4>2 DEF Elsewhere
    <3>3. SuccessMeans'
      BY <2>0, <3>1 DEF SuccessMeans
    <3>4. CompletedBy'
      BY <2>0, <3>1, <3>2 DEF CompletedBy
    <3>. QED
      BY <3>3, <3>4
  <2>. QED
    BY <2>1, <2>2, <2>4, <2>5, <2>6, StepsElsewhere DEF CompleteInv
<1>3. CompleteInv => CompletedMeansBooked
  BY DEF CompleteInv, SuccessMeans, CompletedBy, CompletedMeansBooked
<1>. QED
  BY <1>1, <1>2, <1>3, PTL DEF Spec

--------------------------------------------------------------------------------
(* The budget.                                                             *)

\* What the booked lines of a job cost, as WithinBudget sums it.
LinesCost(recs) == MapThenSumSet(LAMBDA x : x.rec.cost, recs)

\* The sums of the model are sums.
LEMMA CostIsSum ==
  ASSUME NEW S, IsFiniteSet(S), \A r \in S : r.cost \in Nat
  PROVE  \E g : IsSum(g, [r \in S |-> r.cost], S) /\ Cost(S) = g[S]
<1> DEFINE f == [r \in S |-> r.cost]
           Eq(g) == g = [T \in SUBSET S |-> IF T = {} THEN 0
                          ELSE (CHOOSE x \in T : TRUE).cost + g[T \ {CHOOSE x \in T : TRUE}]]
           it == CHOOSE g : Eq(g)
<1>1. ASSUME NEW g PROVE Eq(g) <=> IsSum(g, f, S)
  <2>1. \A T \in SUBSET S : T # {} => f[Some(T)] = (CHOOSE x \in T : TRUE).cost
    BY SomeIsIn DEF Some
  <2>. QED
    BY <2>1 DEF IsSum, Some
<1>2. \E g : Eq(g)
  <2> HIDE DEF Eq, f
  <2>. QED
    BY <1>1, SumExists
<1>3. Eq(it)
  <2> HIDE DEF Eq
  <2>. QED
    BY <1>2
<1>4. Cost(S) = it[S]
  BY DEF Cost, MapThenSumSet, MapThenFoldSet
<1>. QED
  <2> HIDE DEF Eq, it
  <2>. QED
    BY <1>1, <1>3, <1>4

\* The cost of booked lines is a sum, so the lemmas about sums apply.
LEMMA LinesCostIsSum ==
  ASSUME NEW S, IsFiniteSet(S), \A r \in S : r.rec.cost \in Nat
  PROVE  \E g : IsSum(g, [r \in S |-> r.rec.cost], S) /\ LinesCost(S) = g[S]
<1> DEFINE f == [r \in S |-> r.rec.cost]
           Eq(g) == g = [T \in SUBSET S |-> IF T = {} THEN 0
                          ELSE (CHOOSE x \in T : TRUE).rec.cost + g[T \ {CHOOSE x \in T : TRUE}]]
           it == CHOOSE g : Eq(g)
<1>1. ASSUME NEW g PROVE Eq(g) <=> IsSum(g, f, S)
  <2>1. \A T \in SUBSET S : T # {} => f[Some(T)] = (CHOOSE x \in T : TRUE).rec.cost
    BY SomeIsIn DEF Some
  <2>. QED
    BY <2>1 DEF IsSum, Some
<1>2. \E g : Eq(g)
  <2> HIDE DEF Eq, f
  <2>. QED
    BY <1>1, SumExists
<1>3. Eq(it)
  <2> HIDE DEF Eq
  <2>. QED
    BY <1>2
<1>4. LinesCost(S) = it[S]
  BY DEF LinesCost, MapThenSumSet, MapThenFoldSet
<1>. QED
  <2> HIDE DEF Eq, it
  <2>. QED
    BY <1>1, <1>3, <1>4

\* The cost of recommendations is a natural number.
LEMMA CostType ==
  ASSUME NEW S, IsFiniteSet(S), \A r \in S : r.cost \in Nat
  PROVE  Cost(S) \in Nat
<1> DEFINE f == [r \in S |-> r.cost]
<1>1. PICK g : IsSum(g, f, S) /\ Cost(S) = g[S]
  BY CostIsSum
<1>2. Naturals(f, S)
  BY DEF Naturals
<1>. HIDE DEF f
<1>3. \A T \in SUBSET S : g[T] \in Nat
  BY <1>1, <1>2, SumType
<1>. QED
  BY <1>1, <1>3

\* Fewer recommendations cost no more.
LEMMA FewerCostLess ==
  ASSUME NEW U, IsFiniteSet(U), \A r \in U : r.cost \in Nat, NEW T \in SUBSET U
  PROVE  Cost(T) <= Cost(U)
<1> DEFINE f == [r \in U |-> r.cost]
           k == [r \in T |-> r.cost]
           m == [r \in T |-> r]
<1>1. IsFiniteSet(T)
  BY FS_Subset
<1>2. PICK g : IsSum(g, f, U) /\ Cost(U) = g[U]
  BY CostIsSum
<1>3. PICK h : IsSum(h, k, T) /\ Cost(T) = h[T]
  BY <1>1, CostIsSum
<1>4. Naturals(f, U) /\ Naturals(k, T)
  BY DEF Naturals
<1>5. /\ m \in [T -> U] /\ \A x, y \in T : m[x] = m[y] => x = y
      /\ \A x \in T : f[m[x]] = k[x]
  OBVIOUS
<1>6. {m[x] : x \in T} = T
  OBVIOUS
<1>. HIDE DEF f, k, m
<1>7. h[T] = g[T]
  <2>1. \A V \in SUBSET T : h[V] = g[{m[x] : x \in V}]
    BY <1>1, <1>2, <1>3, <1>4, <1>5, SumImage
  <2>. QED
    BY <1>6, <2>1
<1>8. g[T] <= g[U]
  <2>1. \A V \in SUBSET U : \A W \in SUBSET V : g[W] <= g[V]
    BY <1>2, <1>4, SumMonotone
  <2>. QED
    BY <2>1
<1>. QED
  BY <1>2, <1>3, <1>7, <1>8

\* The lines that one execution booked cost what their recommendations cost.
LEMMA LinesCostTheirs ==
  ASSUME NEW t, NEW L, IsFiniteSet(L),
         \A x \in L : x = [rec |-> x.rec, by |-> t] /\ x.rec.cost \in Nat
  PROVE  LinesCost(L) = Cost({x.rec : x \in L})
<1> DEFINE R == {x.rec : x \in L}
           m == [x \in L |-> x.rec]
           f == [x \in L |-> x.rec.cost]
           k == [r \in R |-> r.cost]
<1>1. R = {m[x] : x \in L}
  OBVIOUS
<1>2. IsFiniteSet(R)
  <2> HIDE DEF m, R
  <2>. QED
    BY <1>1, FiniteImage
<1>3. PICK g : IsSum(g, f, L) /\ LinesCost(L) = g[L]
  BY LinesCostIsSum
<1>4. PICK h : IsSum(h, k, R) /\ Cost(R) = h[R]
  <2>1. \A r \in R : r.cost \in Nat
    OBVIOUS
  <2> HIDE DEF R
  <2>. QED
    BY <1>2, <2>1, CostIsSum
<1>5. Naturals(f, L) /\ Naturals(k, R)
  BY DEF Naturals
<1>6. \A x, y \in L : m[x] = m[y] => x = y
  <2> SUFFICES ASSUME NEW x \in L, NEW y \in L, x.rec = y.rec PROVE x = y
    OBVIOUS
  <2>1. x = [rec |-> x.rec, by |-> t] /\ y = [rec |-> y.rec, by |-> t]
    OBVIOUS
  <2>. QED
    BY <2>1
<1>7. m \in [L -> R] /\ \A x \in L : k[m[x]] = f[x]
  OBVIOUS
<1>. HIDE DEF R, m, f, k
<1>8. \A V \in SUBSET L : g[V] = h[{m[x] : x \in V}]
  BY <1>2, <1>3, <1>4, <1>5, <1>6, <1>7, SumImage
<1>9. g[L] = h[R]
  BY <1>1, <1>8
<1>. QED
  BY <1>3, <1>4, <1>9 DEF R

\* A recommendation's cost is that of its item, clamped.
LEMMA RecCosts == \A r \in Rec : r.cost \in Nat
<1> SUFFICES ASSUME NEW ch \in Channels, NEW i \in Items, NEW al \in Allocations
             PROVE  Clamped(ch, i, CostLimit(al, ch)).cost \in Nat
  BY DEF Rec
<1>1. i.cost \in Nat /\ CostLimit(al, ch) \in Nat
  BY ItemsAssumption, AllocationsAssumption, ParametersAssumption DEF CostLimit
<1>. QED
  BY <1>1 DEF Clamped, MinOf

\* The strengthening: crews propose finitely many items, so that there are finitely many
\* recommendations and lines; and all that an execution still holds, to book, to record and
\* booked, is within the budget, which the ceiling checked when it was chosen.
Finite ==
    /\ \A ch \in Channels : found[ch] = None \/ IsFiniteSet(found[ch])
    /\ IsFiniteSet(pending) /\ IsFiniteSet(lines)
HeldWithin ==
    \A t \in Threads : worker[t].pc \in {"booking", "recording"} =>
        \A held : held = Held(t) => held \subseteq pending /\ Cost(held) <= Budget
LinesWithin == \A booked : booked = lines => LinesCost(booked) <= Budget
SpendInv == OnceInv /\ Finite /\ HeldWithin /\ LinesWithin

\* What the crews found, what is held and what is booked stays finite.
LEMMA StaysFinite == Typed /\ Finite /\ [Next]_vars => Finite'
<1> SUFFICES ASSUME Typed, Finite, [Next]_vars PROVE Finite'
  OBVIOUS
<1>1. CASE UNCHANGED <<found, pending, lines>>
  BY <1>1 DEF Finite
<1>2. ASSUME NEW t \in Threads, Execute(t) PROVE Finite'
  <2>1. UNCHANGED <<found, pending>>
    BY <1>2, OwnStep DEF OwnOnly, kickoff
  <2>2. UNCHANGED lines \/ \E x : lines' = lines \cup {x}
    BY <1>2 DEF Execute, Mark, BookOne, RecordFailure, RecordLine, MarkingDone, SelectApproved,
                RecordStatus, BookRest, Conclude, Report
  <2>3. IsFiniteSet(lines')
    BY <2>2, FS_AddElement DEF Finite
  <2>. QED
    BY <2>1, <2>3 DEF Finite
<1>3. ASSUME NEW ch \in Channels, ResearchEnds(ch) PROVE Finite'
  <2>1. UNCHANGED <<pending, lines>>
    BY <1>3 DEF ResearchEnds
  <2>2. CASE UNCHANGED found
    BY <1>1, <2>1, <2>2
  <2>3. ASSUME NEW items \in SUBSET Items, IsFiniteSet(items),
               found' = [found EXCEPT ![ch] =
                           {Clamped(ch, i, CostLimit(alloc, ch)) : i \in items}]
        PROVE  Finite'
    <3> DEFINE m == [i \in items |-> Clamped(ch, i, CostLimit(alloc, ch))]
    <3>1. {m[i] : i \in items} = {Clamped(ch, i, CostLimit(alloc, ch)) : i \in items}
      OBVIOUS
    <3>2. IsFiniteSet({m[i] : i \in items})
      <4> HIDE DEF m
      <4>. QED
        BY <2>3, FiniteImage
    <3>3. \A c \in Channels : found'[c] = IF c = ch THEN {m[i] : i \in items} ELSE found[c]
      BY <2>3, <3>1 DEF Typed, Formed
    <3>. HIDE DEF m
    <3>. QED
      BY <2>1, <3>2, <3>3 DEF Finite
  <2>. QED
    BY <1>3, <2>2, <2>3 DEF ResearchEnds
<1>4. CASE Consolidate
  <2>1. UNCHANGED <<found, lines>>
    BY <1>4 DEF Consolidate
  <2>2. CASE Active \subseteq Reported
    <3> DEFINE C == {found[ch] : ch \in Reported}
    <3>1. pending' = UNION C
      BY <1>4, <2>2 DEF Consolidate
    <3>2. IsFiniteSet(Reported)
      BY ParametersAssumption, FS_Subset DEF Reported
    <3>3. IsFiniteSet(C)
      BY <3>2, FiniteImage
    <3>4. \A T \in C : IsFiniteSet(T)
      BY DEF Reported, Finite
    <3>5. IsFiniteSet(UNION C)
      <4> HIDE DEF C
      <4>. QED
        BY <3>3, <3>4, FS_UNION
    <3>. QED
      BY <2>1, <3>1, <3>5 DEF Finite
  <2>3. CASE ~(Active \subseteq Reported)
    <3>1. UNCHANGED pending
      BY <1>4, <2>3 DEF Consolidate
    <3>. QED
      BY <1>1, <2>1, <3>1
  <2>. QED
    BY <2>2, <2>3
<1>5. StartJob \/ ReceiveBrief \/ AllocateBudget \/ KickoffRaises \/ KickoffReturns
        => UNCHANGED <<found, pending, lines>>
  BY DEF StartJob, ReceiveBrief, AllocateBudget, KickoffRaises, KickoffReturns
<1>6. \A ch \in Channels : ResearchSkipped(ch) \/ ResearchStarts(ch)
        => UNCHANGED <<found, pending, lines>>
  BY DEF ResearchSkipped, ResearchStarts
<1>7. (\E q \in Requests : RequestApproval(q)) \/ Crash \/ UNCHANGED vars
        => UNCHANGED <<found, pending, lines>>
  BY DEF RequestApproval, Crash, vars, kickoff
<1>. QED
  BY <1>1, <1>2, <1>3, <1>4, <1>5, <1>6, <1>7 DEF Next, Kickoff

\* An execution that is alone keeps what it holds within the budget.
LEMMA OwnBudget ==
  ASSUME SpendInv, NEW t \in Threads, Execute(t)
  PROVE  HeldWithin' /\ LinesWithin'
<1> DEFINE w == worker[t]
<1>0. /\ Typed /\ Alone /\ LinesFollow /\ Accounts(t) /\ Finite /\ HeldWithin /\ LinesWithin
      /\ UNCHANGED pending /\ pending \subseteq Rec
      /\ lines \subseteq [rec : Rec, by : Threads] /\ OwnOnly(t)
  BY OwnStep DEF SpendInv, OnceInv, AccountsInv, Typed, TypeOK, OwnOnly, kickoff
<1>1. \A u \in Threads : u # t => worker[u].pc = "idle" /\ worker'[u] = worker[u]
  BY <1>0 DEF OwnOnly, Alone, Accepted
<1>2. \A x \in lines : x.by = t
  BY <1>0, <1>1 DEF LinesFollow
\* It is enough to look at this execution.
<1>3. ASSUME worker'[t].pc \in {"booking", "recording"} =>
               Held(t)' \subseteq pending /\ Cost(Held(t)') <= Budget
      PROVE  HeldWithin'
  <2>1. \A u \in Threads : u # t => worker'[u].pc = "idle"
    BY <1>1
  <2>. QED
    BY <1>0, <1>3, <2>1 DEF HeldWithin
<1>4. \A S \in SUBSET pending : IsFiniteSet(S) /\ \A r \in S : r.cost \in Nat
  BY <1>0, RecCosts, FS_Subset DEF Finite
<1>5. ASSUME UNCHANGED lines PROVE LinesWithin'
  BY <1>0, <1>5 DEF LinesWithin
<1>6. CASE w.pc \in {"booking", "recording"}
  <2>1. Held(t)' \subseteq Held(t) /\ Held(t) \subseteq pending /\ Cost(Held(t)) <= Budget
    BY <1>0, <1>6, HoldsLess DEF HeldWithin
  <2>2. \A S \in SUBSET Held(t) : Cost(S) <= Cost(Held(t))
    BY <1>4, <2>1, FewerCostLess
  <2>3. Budget \in Nat /\ Cost(Held(t)) \in Nat
    <3>1. IsFiniteSet(Held(t)) /\ \A r \in Held(t) : r.cost \in Nat
      BY <1>4, <2>1
    <3>. QED
      BY <3>1, CostType, ParametersAssumption
  <2>4. \A S \in SUBSET Held(t) : Cost(S) <= Budget
    <3> SUFFICES ASSUME NEW S \in SUBSET Held(t) PROVE Cost(S) <= Budget
      OBVIOUS
    <3>1. Cost(S) \in Nat
      BY <1>4, <2>1, CostType
    <3>. QED
      BY <2>1, <2>2, <2>3, <3>1
  <2>5. HeldWithin'
    BY <1>3, <2>1, <2>4
  <2>6. LinesWithin'
    <3>1. CASE UNCHANGED lines
      BY <1>5, <3>1
    <3>2. ASSUME NEW r \in pending, RecordLine(t, r) PROVE LinesWithin'
      <4>1. lines' = lines \cup {[rec |-> r, by |-> t]} /\ r \in Rec
        BY <1>0, <3>2 DEF RecordLine
      <4>2. \A x \in lines' : x = [rec |-> x.rec, by |-> t] /\ x.rec \in Rec
        BY <1>0, <1>2, <4>1
      <4>3. IsFiniteSet(lines')
        BY <1>0, <4>1, FS_AddElement DEF Finite
      <4>4. LinesCost(lines') = Cost({x.rec : x \in lines'})
        BY <4>2, <4>3, RecCosts, LinesCostTheirs
      <4>5. {x.rec : x \in lines'} \in SUBSET Held(t)
        BY <2>1 DEF Held
      <4>6. Cost({x.rec : x \in lines'}) <= Budget
        BY <2>4, <4>5
      <4>. QED
        BY <4>4, <4>6 DEF LinesWithin
    <3>3. UNCHANGED lines \/ \E r \in pending : RecordLine(t, r)
      BY DEF Execute, Mark, BookOne, RecordFailure, MarkingDone, SelectApproved, RecordStatus,
             BookRest, Conclude, Report
    <3>. QED
      BY <3>1, <3>2, <3>3
  <2>. QED
    BY <2>5, <2>6
<1>7. CASE w.pc \notin {"booking", "recording"}
  <2>1. (\E r \in pending : Mark(t, r)) \/ MarkingDone(t) \/ SelectApproved(t) \/ Report(t)
    BY <1>7 DEF Execute, BookOne, RecordFailure, RecordLine, RecordStatus, BookRest, Recorded,
                Conclude
  <2>2. UNCHANGED lines
    BY <2>1 DEF Mark, MarkingDone, SelectApproved, Report
  <2>3. CASE worker'[t].pc \notin {"booking", "recording"}
    BY <1>3, <1>5, <2>2, <2>3
  <2>4. CASE worker'[t].pc \in {"booking", "recording"}
    <3>1. SelectApproved(t)
      BY <1>0, <2>1, <2>4, OwnRecord DEF Becomes
    <3>2. PICK chosen \in SUBSET ApprovedNow : Selects(t, chosen)
      BY <1>0, <3>1, OwnRecord
    <3>3. worker'[t].todo = chosen /\ worker'[t].results = w.results /\ ~ExceedsCeiling(chosen)
      BY <2>4, <3>2 DEF Selects, Becomes
    <3>4. w.results = {} /\ lines' = {}
      BY <1>0, <1>2, <1>7, <2>2, <3>1 DEF SelectApproved, Accounts, LinesFollow
    <3>5. Held(t)' = chosen
      BY <3>3, <3>4 DEF Held
    <3>6. chosen \subseteq pending
      BY DEF ApprovedNow
    <3>7. Cost(chosen) \in Nat /\ Budget \in Nat
      BY <1>4, <3>6, CostType, ParametersAssumption
    <3>8. Cost(chosen) <= Budget
      BY <3>3, <3>7 DEF ExceedsCeiling
    <3>. QED
      BY <1>3, <1>5, <2>2, <3>5, <3>6, <3>8
  <2>. QED
    BY <2>3, <2>4
<1>. QED
  BY <1>6, <1>7

\* Where approvals are serialized, the bookings of a job never cost more than the campaign's
\* budget, for any number of channels, crews' proposals and approvals, whatever they propose
\* and however the budget was split.
THEOREM SerializedWithinBudget == ASSUME Serialized PROVE Spec => []WithinBudget
<1>1. Init => SpendInv
  <2> SUFFICES ASSUME Init PROVE SpendInv
    OBVIOUS
  <2>1. Finite
    BY FS_EmptySet DEF Init, Finite
  <2>2. HeldWithin
    BY DEF Init, HeldWithin, Idle
  <2>3. LinesWithin
    <3>1. PICK g : IsSum(g, [x \in {} |-> x.rec.cost], {}) /\ LinesCost({}) = g[{}]
      BY FS_EmptySet, LinesCostIsSum
    <3>2. g[{}] = 0
      BY <3>1 DEF IsSum
    <3>. QED
      BY <3>1, <3>2, ParametersAssumption DEF Init, LinesWithin
  <2>. QED
    BY <2>1, <2>2, <2>3, StartsOnce DEF SpendInv
<1>2. SpendInv /\ [Next]_vars => SpendInv'
  <2> SUFFICES ASSUME SpendInv, [Next]_vars PROVE SpendInv'
    OBVIOUS
  <2>0. OnceInv /\ Finite /\ HeldWithin /\ LinesWithin /\ Typed /\ NobodyYet
    BY DEF SpendInv, OnceInv, AccountsInv
  <2>1. OnceInv' /\ Finite'
    BY <2>0, StaysOnce, StaysFinite
  <2>2. ASSUME NEW t \in Threads, Execute(t) PROVE HeldWithin' /\ LinesWithin'
    BY <2>2, OwnBudget
  <2>3. ASSUME UNCHANGED <<worker, pending, lines>> PROVE HeldWithin' /\ LinesWithin'
    <3>1. \A t \in Threads : Held(t)' = Held(t)
      BY <2>3 DEF Held
    <3>. QED
      BY <2>0, <2>3, <3>1 DEF HeldWithin, LinesWithin
  <2>4. ASSUME Consolidate PROVE HeldWithin' /\ LinesWithin'
    <3>1. UNCHANGED <<worker, lines>> /\ \A t \in Threads : worker[t].pc = "idle"
      BY <2>0, <2>4 DEF Consolidate, NobodyYet, Accepted
    <3>. QED
      BY <2>0, <3>1 DEF HeldWithin, LinesWithin
  <2>5. ASSUME (\E q \in Requests : RequestApproval(q)) \/ KickoffReturns
        PROVE  HeldWithin' /\ LinesWithin'
    <3>1. UNCHANGED <<pending, lines>>
      BY <2>5 DEF RequestApproval, KickoffReturns, kickoff
    <3>2. \A u \in Threads : worker'[u] = worker[u] \/ worker'[u].pc = "marking"
      BY <2>0, <2>5, OthersBegin DEF Starts
    <3>3. \A u \in Threads : worker'[u] = worker[u] => Held(u)' = Held(u)
      BY <3>1 DEF Held
    <3>4. HeldWithin'
      BY <2>0, <3>1, <3>2, <3>3 DEF HeldWithin
    <3>. QED
      BY <2>0, <3>1, <3>4 DEF LinesWithin
  <2>6. HeldWithin' /\ LinesWithin'
    BY <2>2, <2>3, <2>4, <2>5, StepsElsewhere
  <2>. QED
    BY <2>1, <2>6 DEF SpendInv
<1>3. SpendInv => WithinBudget
  BY DEF SpendInv, LinesWithin, LinesCost, WithinBudget
<1>. QED
  BY <1>1, <1>2, <1>3, PTL DEF Spec
================================================================================
