---------------------------- MODULE DealLifecycle ----------------------------
(***************************************************************************)
(* The rows that DealsClient keeps in the deals table for the quotes and   *)
(* deals of one seller: book_deal saves a deal as booked, get_deal asks    *)
(* the seller for its status and records the answer through                *)
(* update_deal_status, which consults the deal state machine and then logs *)
(* the change in status_transitions.  Several calls may be under way.      *)
(*                                                                         *)
(* Abstractions.  Prices, terms and metadata are left out; a row is the    *)
(* deal or quote it was saved for, and its status.  Rows are ordered as    *)
(* they were saved, which stands for created_at.  The local row id is      *)
(* stable, so finding it and updating its row are one step.                *)
(***************************************************************************)
EXTENDS Integers, Sequences, FiniteSets

CONSTANTS
    Deals,          \* deals booked with the seller
    Quotes,         \* quotes requested from the same seller
    Threads,        \* concurrent calls of the client
    Limit,          \* list_deals' default limit (50)
    MaxHistory,     \* bound: status changes of one deal
    None            \* Python's None

\* The statuses of DealResponse, and the moves of an honest seller (external).
SellerStatuses == {"proposed", "active", "rejected", "expired", "completed"}
SellerMoves ==
    {"proposed"} \X {"active", "rejected", "expired"} \cup {<<"active", "completed">>}

\* BuyerDealStatus and _build_deal_rules.
BuyerDealStatus ==
    {"quoted", "negotiating", "accepted", "booking", "booked", "delivering", "completed",
     "failed", "cancelled", "expired", "makegood_pending", "partially_canceled"}
Rules ==
    ({"quoted"} \X {"negotiating", "accepted", "failed", "cancelled", "expired"})
    \cup ({"negotiating"} \X {"accepted", "quoted", "failed", "cancelled", "expired"})
    \cup ({"accepted"} \X {"booking", "cancelled"})
    \cup ({"booking"} \X {"booked", "failed", "cancelled"})
    \cup ({"booked"} \X {"delivering", "cancelled", "partially_canceled"})
    \cup ({"delivering"} \X {"completed", "failed", "cancelled", "makegood_pending"})
    \cup ({"makegood_pending"} \X {"delivering", "completed", "failed"})
    \cup ({"partially_canceled"} \X {"delivering", "cancelled"})

VARIABLES
    seller,     \* the status the seller gives each deal (external)
    row,        \* status of the deal's row, None where there is none
    order,      \* the rows of this seller, quotes included, oldest first
    history,    \* status_transitions of each deal's row: [from, to]
    work        \* the call in progress on each thread

vars == <<seller, row, order, history, work>>

Idle == [pc |-> "idle"]

Init ==
    /\ seller = [d \in Deals |-> None] /\ row = [d \in Deals |-> None]
    /\ order = <<>> /\ history = [d \in Deals |-> <<>>]
    /\ work = [t \in Threads |-> Idle]

\* A call that has changed the row of d and not yet logged it.
Recording(d, from, to) == [pc |-> "record", deal |-> d, from |-> from, to |-> to]

--------------------------------------------------------------------------------
\* request_quote saves a row for the quote; nothing updates it later.
PersistQuote(q) ==
    /\ \A i \in 1 .. Len(order) : order[i] # q
    /\ order' = Append(order, q)
    /\ UNCHANGED <<seller, row, history, work>>

\* book_deal: the seller's answer is saved as booked whatever its status is.
\* _persist_deal is best effort: the deal may be left without a row.
BookDeal(t, d) ==
    /\ work[t] = Idle /\ seller[d] = None
    /\ \E s \in {"proposed", "active"} : seller' = [seller EXCEPT ![d] = s]
    /\ \/ /\ row' = [row EXCEPT ![d] = "booked"] /\ order' = Append(order, d)
          /\ work' = [work EXCEPT ![t] = Recording(d, None, "booked")]
       \/ UNCHANGED <<row, order, work>>
    /\ UNCHANGED history

\* The seller's side moves on (external).
SellerMovesOn(d) ==
    /\ \E s \in SellerStatuses :
         <<seller[d], s>> \in SellerMoves /\ seller' = [seller EXCEPT ![d] = s]
    /\ UNCHANGED <<row, order, history, work>>

\* Status changes under way or logged.
Changes(d) ==
    Len(history[d]) + Cardinality({t \in Threads : work[t] # Idle /\ work[t].deal = d})

\* get_deal: the seller answers with the status it has now.
GetDeal(t, d) ==
    /\ work[t] = Idle /\ seller[d] # None /\ Changes(d) < MaxHistory
    /\ work' = [work EXCEPT ![t] = [pc |-> "answered", deal |-> d, status |-> seller[d]]]
    /\ UNCHANGED <<seller, row, order, history>>

\* list_deals(seller_url): ORDER BY created_at DESC LIMIT.
ListedOf(n) == {order[i] : i \in {k \in 1 .. Len(order) : k + n > Len(order)}}
\* Mutant: one row too few.
ListedButOne == ListedOf(Limit - 1)
Listed == ListedOf(Limit)

\* update_deal_status validates only when it knows both statuses.
Accepted(from, to) ==
    {from, to} \subseteq BuyerDealStatus => <<from, to>> \in Rules

\* Mutant: the row is read after it was written.
LogTarget(d, from, to) == Recording(d, to, to)
\* Mutant: the two statuses are exchanged.
LogSwapped(d, from, to) == Recording(d, to, from)
Log(d, from, to) == Recording(d, from, to)

\* _update_stored_deal_status: the deal's row is sought among those listed, and
\* update_deal_status rewrites it, also with the status that it has.
Update(t) ==
    LET d == work[t].deal  s == work[t].status IN
    /\ work[t].pc = "answered" /\ d \in Listed /\ Accepted(row[d], s)
    /\ row' = [row EXCEPT ![d] = s]
    /\ work' = [work EXCEPT ![t] = Log(d, row[d], s)]
    /\ UNCHANGED <<seller, order, history>>

\* There is no such row, or the state machine refuses the move.
Ignore(t) ==
    /\ work[t].pc = "answered"
    /\ \/ work[t].deal \notin Listed
       \/ ~Accepted(row[work[t].deal], work[t].status)
    /\ work' = [work EXCEPT ![t] = Idle]
    /\ UNCHANGED <<seller, row, order, history>>

\* record_status_transition, after the lock was given back.
RecordTransition(t) ==
    /\ work[t].pc = "record"
    /\ history' = [history EXCEPT ![work[t].deal] =
                      Append(@, [from |-> work[t].from, to |-> work[t].to])]
    /\ work' = [work EXCEPT ![t] = Idle]
    /\ UNCHANGED <<seller, row, order>>

Next ==
    \/ \E q \in Quotes : PersistQuote(q)
    \/ \E d \in Deals : SellerMovesOn(d)
    \/ \E t \in Threads :
         \/ \E d \in Deals : BookDeal(t, d) \/ GetDeal(t, d)
         \/ Update(t) \/ Ignore(t) \/ RecordTransition(t)

Spec == Init /\ [][Next]_vars

--------------------------------------------------------------------------------
(* Properties.                                                             *)

StoredStatuses == {"booked"} \cup SellerStatuses
\* A row is booked when it is created and enters the seller's statuses later.
Changed == [from : {None}, to : {"booked"}] \cup [from : StoredStatuses, to : SellerStatuses]

\* Type invariant.
TypeOK ==
    /\ seller \in [Deals -> {None} \cup SellerStatuses]
    /\ row \in [Deals -> {None} \cup StoredStatuses]
    /\ order \in Seq(Deals \cup Quotes)
    /\ history \in [Deals -> Seq(Changed)]
    /\ work \in [Threads -> {Idle}
                    \cup [pc : {"answered"}, deal : Deals, status : SellerStatuses]
                    \cup {Recording(d, c.from, c.to) : d \in Deals, c \in Changed}]

Logged(d, field, s) == Cardinality({i \in 1 .. Len(history[d]) : history[d][i][field] = s})
BeingLogged(d, field, s) ==
    Cardinality({t \in Threads : work[t].pc = "record" /\ work[t].deal = d
                                 /\ work[t][field] = s})
Entries(d, field, s) == Logged(d, field, s) + BeingLogged(d, field, s)

\* The status history explains the row, in whatever order overlapping calls wrote
\* it: the deal entered each status as often as it left it, and once more the one
\* that it has.
HistoryAccounts ==
    \A d \in Deals, s \in StoredStatuses :
        Entries(d, "to", s) - Entries(d, "from", s) = IF row[d] = s THEN 1 ELSE 0

\* An answer about a deal that has a row finds the row, as long as the seller has
\* no more rows than a listing returns; with more of them, quotes saved later hide
\* the deal from its answers.
AnswerFindsRow ==
    Len(order) <= Limit => \A t \in Threads :
        work[t].pc = "answered" /\ row[work[t].deal] # None => work[t].deal \in Listed
================================================================================
