--------------------------- MODULE ApprovalGate_proofs ---------------------------
(***************************************************************************)
(* What holds of the approval gates for any number of gates and requests,  *)
(* any limit, and whatever updates of the table fail; that one gate,       *)
(* however often it is rebuilt, lets no request be decided twice; and that *)
(* it lets each be decided once, if a reload can read them all.            *)
(***************************************************************************)
EXTENDS ApprovalGate, FiniteSetTheorems, TLAPS

\* The strengthening of VerdictWasGiven: every decision anywhere was made by a reviewer.
DecisionsWereMade ==
    \A r \in Requests :
        /\ rows[r] \in Decisions => rows[r] \in tried[r]
        /\ \A g \in Gates : cache[g][r] \in Decisions => cache[g][r] \in tried[r]
GatesInv == TypeOK /\ DecisionsWereMade /\ VerdictWasGiven /\ ReviewerIsTold

\* The strengthening of DecidedOnce for one gate: what it takes for undecided is so.
NotBehind ==
    \A r \in Requests :
        /\ rows[r] \in Decisions => \A g \in Gates : cache[g][r] # "pending"
        /\ told[r] # <<>> => rows[r] \in Decisions
OneGateInv == TypeOK /\ NotBehind /\ DecidedOnce

\* The strengthening of StillDecidable: the rows are listed once each, and no gate knows of
\* a request or a decision that the table does not have.
EachListedOnce ==
    /\ \A i, j \in 1 .. Len(order) : order[i] = order[j] => i = j
    /\ \A i \in 1 .. Len(order) : rows[order[i]] # Missing
    /\ \A r \in Requests : rows[r] # Missing => \E i \in 1 .. Len(order) : order[i] = r
NotAhead ==
    \A g \in Gates, r \in Requests :
        /\ rows[r] = Missing => cache[g][r] = Missing
        /\ rows[r] = "pending" => cache[g][r] \in {Missing, "pending"}
InStepInv == TypeOK /\ EachListedOnce /\ NotAhead

--------------------------------------------------------------------------------
\* The statuses are different from each other and from Missing.
LEMMA StatusesDiffer == Missing \notin Status /\ "pending" \notin Decisions
  BY DEF Missing, Status, Decisions

\* A lookup gives statuses, each from the cache or from the table.
LEMMA ViewTypes ==
  ASSUME TypeOK, NEW g \in Gates, NEW r \in Requests
  PROVE  /\ View(g, r) \in [Requests -> {Missing} \cup Status]
         /\ \A s \in Requests : View(g, r)[s] \in {cache[g][s], rows[s]}
         /\ cache[g][r] # Missing => View(g, r) = cache[g]
  BY DEF View, Loaded, TypeOK

\* Every step keeps the types.
LEMMA TypeStep == TypeOK /\ [Next]_vars => TypeOK'
<1> SUFFICES ASSUME TypeOK, [Next]_vars PROVE TypeOK'
  OBVIOUS
<1>. USE DEF TypeOK, ghosts
<1>1. ASSUME NEW g \in Gates, Restart(g) PROVE TypeOK'
  <2>1. Loaded([r \in Requests |-> Missing]) \in [Requests -> {Missing} \cup Status]
    BY DEF Loaded
  <2>. QED
    BY <1>1, <2>1 DEF Restart
<1>2. ASSUME NEW g \in Gates, NEW r \in Requests, Lookup(g, r) PROVE TypeOK'
  BY <1>2, ViewTypes DEF Lookup
<1>3. ASSUME NEW g \in Gates, NEW r \in Requests, RequestApproval(g, r) PROVE TypeOK'
  BY <1>3 DEF RequestApproval, Status
<1>4. ASSUME NEW g \in Gates, NEW r \in Requests, NEW d \in Decisions, RecordApproval(g, r, d)
      PROVE  TypeOK'
  <2>1. Remembered(View(g, r), r, d) \in [Requests -> {Missing} \cup Status]
    <3>1. View(g, r) \in [Requests -> {Missing} \cup Status] /\ d \in Status
      BY ViewTypes DEF Status
    <3>. QED
      BY <3>1 DEF Remembered
  <2>2. /\ cache' = [cache EXCEPT ![g] = Remembered(View(g, r), r, d)]
        /\ tried' = [tried EXCEPT ![r] = @ \cup {d}]
        /\ rows' = rows \/ rows' = Saved(r, d)
        /\ told' = told \/ told' = [told EXCEPT ![r] = Append(@, d)]
        /\ UNCHANGED <<order, waits>>
    <3>1. PICK stored \in BOOLEAN :
            /\ rows' = IF stored THEN Saved(r, d) ELSE rows
            /\ told' = Answered(r, d, stored)
      BY <1>4 DEF RecordApproval
    <3>. QED
      BY <1>4, <3>1 DEF RecordApproval, Answered
  <2>3. rows' \in [Requests -> {Missing} \cup Status]
    BY <2>2 DEF Saved, Status
  <2>4. told' \in [Requests -> Seq(Decisions)]
    <3>1. Append(told[r], d) \in Seq(Decisions)
      OBVIOUS
    <3>. QED
      BY <2>2, <3>1
  <2>. QED
    BY <2>1, <2>2, <2>3, <2>4
<1>5. ASSUME NEW g \in Gates, NEW r \in Requests, StartWait(g, r) \/ Poll(g, r) PROVE TypeOK'
  <2>1. Outcome(View(g, r)[r]) \in {"waiting"} \cup Decisions
    BY DEF Outcome
  <2>2. Look(g, r)
    BY <1>5 DEF StartWait, Poll
  <2>3. waits' \in [Gates -> [Requests -> {"idle", "waiting", "timed_out"} \cup Decisions]]
    BY <2>1, <2>2 DEF Look
  <2>. QED
    BY <2>2, <2>3, ViewTypes DEF Look
<1>6. ASSUME NEW g \in Gates, NEW r \in Requests, Expire(g, r) PROVE TypeOK'
  BY <1>6 DEF Expire
<1>7. CASE UNCHANGED vars
  BY <1>7 DEF vars
<1>. QED
  BY <1>1, <1>2, <1>3, <1>4, <1>5, <1>6, <1>7 DEF Next

\* Every step keeps what is known of the decisions.
LEMMA DecisionsStep ==
  GatesInv /\ [Next]_vars => DecisionsWereMade' /\ VerdictWasGiven' /\ ReviewerIsTold'
<1> SUFFICES ASSUME GatesInv, [Next]_vars
             PROVE  DecisionsWereMade' /\ VerdictWasGiven' /\ ReviewerIsTold'
  OBVIOUS
<1>. TypeOK /\ DecisionsWereMade /\ VerdictWasGiven /\ ReviewerIsTold
  BY DEF GatesInv
<1>. USE DEF ghosts
\* A step that only moves statuses between the table and the caches, and verdicts to waits.
<1>1. ASSUME UNCHANGED <<rows, tried, told>>,
             \A g \in Gates, r \in Requests : cache'[g][r] \in {Missing, cache[g][r], rows[r]},
             \A g \in Gates, r \in Requests : waits'[g][r] \in Decisions =>
                 waits'[g][r] \in {waits[g][r], cache[g][r], rows[r]}
      PROVE  DecisionsWereMade' /\ VerdictWasGiven' /\ ReviewerIsTold'
  BY <1>1, StatusesDiffer DEF DecisionsWereMade, VerdictWasGiven, ReviewerIsTold, Status
<1>2. ASSUME NEW g \in Gates, Restart(g)
      PROVE  DecisionsWereMade' /\ VerdictWasGiven' /\ ReviewerIsTold'
  <2>1. \A r \in Requests : Loaded([s \in Requests |-> Missing])[r] \in {Missing, rows[r]}
    BY DEF Loaded
  <2>. QED
    BY <1>1, <1>2, <2>1 DEF Restart, TypeOK, Decisions
<1>3. ASSUME NEW g \in Gates, NEW r \in Requests, Lookup(g, r)
      PROVE  DecisionsWereMade' /\ VerdictWasGiven' /\ ReviewerIsTold'
  BY <1>1, <1>3, ViewTypes DEF Lookup, TypeOK
<1>4. ASSUME NEW g \in Gates, NEW r \in Requests, RequestApproval(g, r)
      PROVE  DecisionsWereMade' /\ VerdictWasGiven' /\ ReviewerIsTold'
  BY <1>4, StatusesDiffer
  DEF RequestApproval, TypeOK, DecisionsWereMade, VerdictWasGiven, ReviewerIsTold, Missing,
      Decisions
<1>5. ASSUME NEW g \in Gates, NEW r \in Requests, NEW d \in Decisions, RecordApproval(g, r, d)
      PROVE  DecisionsWereMade' /\ VerdictWasGiven' /\ ReviewerIsTold'
  <2>1. PICK stored \in BOOLEAN :
          /\ rows' = IF stored THEN Saved(r, d) ELSE rows
          /\ told' = Answered(r, d, stored)
    BY <1>5 DEF RecordApproval
  <2>2. /\ tried' = [tried EXCEPT ![r] = @ \cup {d}] /\ waits' = waits
        /\ cache' = [cache EXCEPT ![g] = Remembered(View(g, r), r, d)]
    BY <1>5 DEF RecordApproval
  <2>3. \A s \in Requests : Remembered(View(g, r), r, d)[s] \in
          IF s = r THEN {d} ELSE {cache[g][s], rows[s]}
    BY ViewTypes DEF Remembered
  <2>4. DecisionsWereMade' /\ VerdictWasGiven'
    <3>1. \A s \in Requests : /\ tried[s] \subseteq tried'[s] /\ (s = r => d \in tried'[s])
                              /\ rows'[s] \in {rows[s]} \cup IF s = r THEN {d} ELSE {}
      BY <2>1, <2>2 DEF TypeOK, Saved
    <3>2. \A h \in Gates, s \in Requests :
            cache'[h][s] \in {cache[h][s], rows[s]} \cup IF s = r THEN {d} ELSE {}
      BY <2>2, <2>3 DEF TypeOK
    <3>. HIDE DEF TypeOK
    <3>3. DecisionsWereMade'
      BY <3>1, <3>2 DEF DecisionsWereMade
    <3>4. VerdictWasGiven'
      BY <2>2, <3>1 DEF VerdictWasGiven
    <3>. QED
      BY <3>3, <3>4
  <2>5. ReviewerIsTold'
    <3>1. CASE stored
      <4>1. /\ told' = [told EXCEPT ![r] = Append(told[r], d)] /\ rows' = [rows EXCEPT ![r] = d]
            /\ told[r] \in Seq(Decisions)
        BY <2>1, <3>1 DEF Answered, Saved, TypeOK
      <4>2. Append(told[r], d) # <<>>
            /\ Append(told[r], d)[Len(Append(told[r], d))] = d
        BY <4>1
      <4>. QED
        BY <4>1, <4>2 DEF ReviewerIsTold, TypeOK
    <3>2. CASE ~stored
      BY <2>1, <3>2 DEF Answered, ReviewerIsTold
    <3>. QED
      BY <3>1, <3>2
  <2>. QED
    BY <2>4, <2>5
<1>6. ASSUME NEW g \in Gates, NEW r \in Requests, StartWait(g, r) \/ Poll(g, r)
      PROVE  DecisionsWereMade' /\ VerdictWasGiven' /\ ReviewerIsTold'
  <2>1. Outcome(View(g, r)[r]) \in Decisions => Outcome(View(g, r)[r]) \in {cache[g][r], rows[r]}
    BY ViewTypes DEF Outcome, Decisions
  <2>2. Look(g, r)
    BY <1>6 DEF StartWait, Poll
  <2>3. \A h \in Gates, s \in Requests : waits'[h][s] \in Decisions =>
          waits'[h][s] \in {waits[h][s], cache[h][s], rows[s]}
    BY <2>1, <2>2 DEF Look, TypeOK
  <2>4. \A h \in Gates, s \in Requests : cache'[h][s] \in {Missing, cache[h][s], rows[s]}
    BY <2>2, ViewTypes DEF Look, TypeOK
  <2>. QED
    BY <1>1, <2>2, <2>3, <2>4 DEF Look
<1>7. ASSUME NEW g \in Gates, NEW r \in Requests, Expire(g, r)
      PROVE  DecisionsWereMade' /\ VerdictWasGiven' /\ ReviewerIsTold'
  BY <1>1, <1>7 DEF Expire, TypeOK, Decisions
<1>8. CASE UNCHANGED vars
  BY <1>1, <1>8 DEF vars
<1>. QED
  BY <1>2, <1>3, <1>4, <1>5, <1>6, <1>7, <1>8 DEF Next

\* The initial states: nothing requested, nothing decided.
LEMMA GatesStart == Init => GatesInv
  BY StatusesDiffer DEF Init, GatesInv, TypeOK, DecisionsWereMade, VerdictWasGiven,
                        ReviewerIsTold, Status, Decisions, Missing

\* Rows, caches and waits hold statuses, whatever the gates do and the table refuses.
THEOREM GateTypes == Spec => []TypeOK
<1>1. Init => TypeOK
  BY GatesStart DEF GatesInv
<1>. QED
  BY <1>1, TypeStep, PTL DEF Spec

\* No pipeline ever acts on a verdict that no reviewer gave, at any gate, through restarts
\* and failing updates, although caches go stale.
THEOREM NoVerdictIsInvented == Spec => []VerdictWasGiven
<1>1. GatesInv /\ [Next]_vars => GatesInv'
  BY TypeStep, DecisionsStep DEF GatesInv
<1>2. GatesInv => VerdictWasGiven
  BY DEF GatesInv
<1>. QED
  BY GatesStart, <1>1, <1>2, PTL DEF Spec

\* What reviewers were told is what the table has: record_approval returns only when its
\* update is done, and a failed one is never told as a decision.
THEOREM ReviewersAreTold == Spec => []ReviewerIsTold
<1>1. GatesInv /\ [Next]_vars => GatesInv'
  BY TypeStep, DecisionsStep DEF GatesInv
<1>2. GatesInv => ReviewerIsTold
  BY DEF GatesInv
<1>. QED
  BY GatesStart, <1>1, <1>2, PTL DEF Spec
\* Every step of the one gate keeps it ahead of the table.
LEMMA OneGateStep ==
  ASSUME NEW g, Gates = {g}, OneGateInv, [Next]_vars
  PROVE  NotBehind' /\ DecidedOnce'
<1>. TypeOK /\ NotBehind /\ DecidedOnce /\ g \in Gates
  BY DEF OneGateInv
<1>. USE DEF ghosts
\* A step that decides nothing, and shows the gate nothing but the table.
<1>1. ASSUME told' = told, \A r \in Requests : rows'[r] = rows[r],
             \A r \in Requests : cache'[g][r] \in {Missing, cache[g][r], rows[r]}
      PROVE  NotBehind' /\ DecidedOnce'
  BY <1>1, StatusesDiffer DEF NotBehind, DecidedOnce, Missing, Decisions
<1>2. CASE Restart(g)
  <2>1. \A r \in Requests : Loaded([s \in Requests |-> Missing])[r] \in {Missing, rows[r]}
    BY DEF Loaded
  <2>. QED
    BY <1>1, <1>2, <2>1 DEF Restart, TypeOK
<1>3. ASSUME NEW r \in Requests, Lookup(g, r) \/ StartWait(g, r) \/ Poll(g, r)
      PROVE  NotBehind' /\ DecidedOnce'
  BY <1>1, <1>3, ViewTypes DEF Lookup, StartWait, Poll, Look, TypeOK
<1>4. ASSUME NEW r \in Requests, RequestApproval(g, r) PROVE NotBehind' /\ DecidedOnce'
  BY <1>4 DEF RequestApproval, TypeOK, NotBehind, DecidedOnce, Decisions, Missing
<1>5. ASSUME NEW r \in Requests, NEW d \in Decisions, RecordApproval(g, r, d)
      PROVE  NotBehind' /\ DecidedOnce'
  <2>1. PICK stored \in BOOLEAN :
          /\ rows' = IF stored THEN Saved(r, d) ELSE rows
          /\ told' = Answered(r, d, stored)
    BY <1>5 DEF RecordApproval
  <2>2. rows[r] \notin Decisions
    <3>1. View(g, r)[r] = "pending" /\ View(g, r)[r] \in {cache[g][r], rows[r]}
      BY <1>5, ViewTypes DEF RecordApproval, Undecided
    <3>. QED
      BY <3>1, StatusesDiffer DEF NotBehind
  <2>3. told[r] = <<>>
    BY <2>2 DEF NotBehind
  <2>4. \A s \in Requests : cache'[g][s] \in IF s = r THEN {d} ELSE {cache[g][s], rows[s]}
    BY <1>5, ViewTypes DEF RecordApproval, Remembered, TypeOK
  <2>5. CASE stored
    <3>1. told' = [told EXCEPT ![r] = Append(<<>>, d)] /\ rows' = [rows EXCEPT ![r] = d]
      BY <2>1, <2>3, <2>5 DEF Answered, Saved
    <3>2. Len(Append(<<>>, d)) = 1
      OBVIOUS
    <3>3. NotBehind'
      BY <2>4, <3>1, StatusesDiffer DEF NotBehind, TypeOK
    <3>. QED
      BY <3>1, <3>2, <3>3 DEF DecidedOnce, TypeOK
  <2>6. CASE ~stored
    <3>1. told' = told /\ rows' = rows
      BY <2>1, <2>6 DEF Answered
    <3>. QED
      BY <2>2, <2>4, <3>1, StatusesDiffer DEF NotBehind, DecidedOnce
  <2>. QED
    BY <2>5, <2>6
<1>6. ASSUME NEW r \in Requests, Expire(g, r) PROVE NotBehind' /\ DecidedOnce'
  BY <1>1, <1>6 DEF Expire, TypeOK
<1>7. CASE UNCHANGED vars
  BY <1>1, <1>7 DEF vars
<1>. QED
  BY <1>2, <1>3, <1>4, <1>5, <1>6, <1>7 DEF Next

\* One gate lets no request be decided twice, however often its process restarts and
\* whichever updates fail: a gate that knows of a request at all knows when it was decided.
THEOREM OneGateDecidesOnce ==
  ASSUME NEW g, Gates = {g}
  PROVE  Spec => []DecidedOnce
<1>1. Init => OneGateInv
  BY GatesStart DEF Init, OneGateInv, GatesInv, NotBehind, DecidedOnce, Decisions, Missing
<1>2. OneGateInv /\ [Next]_vars => OneGateInv'
  BY TypeStep, OneGateStep DEF OneGateInv
<1>3. OneGateInv => DecidedOnce
  BY DEF OneGateInv
<1>. QED
  BY <1>1, <1>2, <1>3, PTL DEF Spec

--------------------------------------------------------------------------------
\* No more rows are listed than there are requests.
LEMMA ListedBound ==
  ASSUME TypeOK, EachListedOnce, IsFiniteSet(Requests)
  PROVE  Len(order) <= Cardinality(Requests)
<1>1. Len(order) \in Nat /\ order \in Seq(Requests)
  BY DEF TypeOK
<1>2. order \in Injection(1 .. Len(order), Requests)
  BY <1>1 DEF EachListedOnce, Injection, IsInjective
<1>3. Cardinality(1 .. Len(order)) <= Cardinality(Requests)
  BY <1>2, FS_Injection
<1>4. Cardinality(1 .. Len(order)) = Len(order)
  <2>1. 1 \in Int /\ Len(order) \in Int /\ (1 > Len(order) => Len(order) = 0)
        /\ Len(order) - 1 + 1 = Len(order)
    BY <1>1
  <2>2. Cardinality(1 .. Len(order)) =
          IF 1 > Len(order) THEN 0 ELSE Len(order) - 1 + 1
    BY <2>1, FS_Interval
  <2>. QED
    BY <2>1, <2>2
<1>. QED
  BY <1>3, <1>4

\* A reload that may read as many rows as there are reads them all.
LEMMA AllAreRead ==
  ASSUME TypeOK, EachListedOnce, Len(order) <= Limit, NEW r \in Requests, rows[r] # Missing
  PROVE  r \in Newest
<1>1. PICK i \in 1 .. Len(order) : order[i] = r
  BY DEF EachListedOnce
<1>2. Len(order) \in Nat /\ Limit \in Nat
  BY ParametersAssumption DEF TypeOK
<1>3. i + Limit > Len(order)
  BY <1>2
<1>. QED
  BY <1>1, <1>3 DEF Newest, NewestOf

\* Where the updates succeed, every step of any gate leaves the rows listed, and the one
\* gate no further than the table.
LEMMA InStepStep ==
  ASSUME NEW g, Gates = {g}, StoreMayFail = FALSE, InStepInv, [Next]_vars
  PROVE  EachListedOnce' /\ NotAhead'
<1>. TypeOK /\ EachListedOnce /\ NotAhead /\ g \in Gates
  BY DEF InStepInv
<1>. USE DEF ghosts
\* A step that leaves the table alone, and shows the gate nothing but the table.
<1>1. ASSUME UNCHANGED <<rows, order>>,
             \A r \in Requests : cache'[g][r] \in {Missing, cache[g][r], rows[r]}
      PROVE  EachListedOnce' /\ NotAhead'
  BY <1>1 DEF EachListedOnce, NotAhead
<1>2. CASE Restart(g)
  <2>1. \A r \in Requests : Loaded([s \in Requests |-> Missing])[r] \in {Missing, rows[r]}
    BY DEF Loaded
  <2>. QED
    BY <1>1, <1>2, <2>1 DEF Restart, TypeOK
<1>3. ASSUME NEW r \in Requests, Lookup(g, r) \/ StartWait(g, r) \/ Poll(g, r)
      PROVE  EachListedOnce' /\ NotAhead'
  BY <1>1, <1>3, ViewTypes DEF Lookup, StartWait, Poll, Look, TypeOK
<1>4. ASSUME NEW r \in Requests, RequestApproval(g, r)
      PROVE  EachListedOnce' /\ NotAhead'
  <2>1. NotAhead'
    BY <1>4 DEF RequestApproval, NotAhead, TypeOK
  <2>2. /\ order \in Seq(Requests) /\ order' = Append(order, r) /\ rows[r] = Missing
        /\ \A s \in Requests : rows'[s] = IF s = r THEN "pending" ELSE rows[s]
    BY <1>4 DEF RequestApproval, TypeOK
  <2>3. /\ Len(order) \in Nat /\ Len(order') = Len(order) + 1 /\ order'[Len(order) + 1] = r
        /\ \A i \in 1 .. Len(order) : order'[i] = order[i] /\ order[i] \in Requests
    BY <2>2
  <2>4. \A i \in 1 .. Len(order) : order[i] # r
    BY <2>2 DEF EachListedOnce
  <2>5. \A i, j \in 1 .. Len(order') : order'[i] = order'[j] => i = j
    BY <2>3, <2>4 DEF EachListedOnce
  <2>6. \A i \in 1 .. Len(order') : rows'[order'[i]] # Missing
    BY <2>2, <2>3 DEF EachListedOnce, Missing
  <2>7. ASSUME NEW s \in Requests, rows'[s] # Missing
        PROVE  \E i \in 1 .. Len(order') : order'[i] = s
    BY <2>2, <2>3, <2>7 DEF EachListedOnce
  <2>. QED
    BY <2>1, <2>5, <2>6, <2>7 DEF EachListedOnce
<1>5. ASSUME NEW r \in Requests, NEW d \in Decisions, RecordApproval(g, r, d)
      PROVE  EachListedOnce' /\ NotAhead'
  <2>1. rows' = [rows EXCEPT ![r] = d] /\ order' = order
    BY <1>5 DEF RecordApproval, Saved
  <2>2. View(g, r)[r] = "pending" /\ View(g, r)[r] \in {cache[g][r], rows[r]}
    BY <1>5, ViewTypes DEF RecordApproval, Undecided
  <2>3. \A s \in Requests : cache'[g][s] \in IF s = r THEN {d} ELSE {cache[g][s], rows[s]}
    BY <1>5, ViewTypes DEF RecordApproval, Remembered, TypeOK
  <2>4. NotAhead'
    BY <2>1, <2>3, StatusesDiffer DEF NotAhead, TypeOK
  <2>5. View(g, r)[r] # Missing /\ d # Missing
    BY <2>2, StatusesDiffer DEF Missing, Status
  <2>6. EachListedOnce'
    <3>1. \A s \in Requests : (rows'[s] = Missing) <=> (rows[s] = Missing)
      <4>1. rows[r] # Missing
        BY <2>2 DEF NotAhead, Missing
      <4>. QED
        BY <2>1, <2>5, <4>1 DEF TypeOK
    <3>2. \A i \in 1 .. Len(order) : order[i] \in Requests
      BY DEF TypeOK
    <3>. QED
      BY <2>1, <3>1, <3>2 DEF EachListedOnce
  <2>. QED
    BY <2>4, <2>6
<1>6. ASSUME NEW r \in Requests, Expire(g, r) PROVE EachListedOnce' /\ NotAhead'
  BY <1>1, <1>6 DEF Expire, TypeOK
<1>7. CASE UNCHANGED vars
  BY <1>1, <1>7 DEF vars
<1>. QED
  BY <1>2, <1>3, <1>4, <1>5, <1>6, <1>7 DEF Next

\* One gate whose updates succeed lets every request be decided, as long as it is pending
\* and never again, provided that a reload may read as many rows as there are requests.
THEOREM OneGateDecidesEach ==
  ASSUME NEW g, Gates = {g}, StoreMayFail = FALSE,
         IsFiniteSet(Requests), Cardinality(Requests) <= Limit
  PROVE  Spec => []DecidableOnce
<1>1. Init => InStepInv
  <2>1. Init => TypeOK
    BY GatesStart DEF GatesInv
  <2>. QED
    BY <2>1 DEF Init, InStepInv, EachListedOnce, NotAhead, Missing
<1>2. InStepInv /\ [Next]_vars => InStepInv'
  BY TypeStep, InStepStep DEF InStepInv
<1>3. InStepInv => StillDecidable
  <2>. SUFFICES ASSUME InStepInv, NEW r \in Requests, rows[r] = "pending"
                PROVE  View(g, r)[r] = "pending"
    BY DEF StillDecidable
  <2>1. Len(order) \in Nat /\ Limit \in Nat /\ Cardinality(Requests) \in Nat
    BY ParametersAssumption, FS_CardinalityType DEF InStepInv, TypeOK
  <2>2. Len(order) <= Limit
    BY <2>1, ListedBound DEF InStepInv
  <2>3. r \in Newest
    BY <2>2, AllAreRead DEF InStepInv, Missing
  <2>4. cache[g][r] = "pending" \/ cache[g][r] = Missing
    BY DEF InStepInv, NotAhead
  <2>. QED
    BY <2>3, <2>4 DEF View, Loaded, Missing
<1>4. Spec => []DecidedOnce
  BY OneGateDecidesOnce
<1>5. DecidedOnce /\ StillDecidable => DecidableOnce
  BY DEF DecidableOnce
<1>. QED
  BY <1>1, <1>2, <1>3, <1>4, <1>5, PTL DEF Spec
================================================================================
