------------------------------- MODULE BuyerDesk -------------------------------
(***************************************************************************)
(* What the MCP server's tools and the deal library's template tools       *)
(* change, from several processes over one database and one key file:      *)
(* seller keys, an order, an approval request, negotiations and templates. *)
(* Every call opens its stores, reads, decides, writes and closes them.    *)
(*                                                                         *)
(* Abstractions.  One order, one approval request, and of each kind of     *)
(* template the newest.  A key is held or not.  The tools that only read   *)
(* are the views at the end.  Every call has passed _require_operator      *)
(* (OperatorKeys).                                                         *)
(***************************************************************************)
EXTENDS Integers, FiniteSets

CONSTANTS
    Sessions,       \* processes in which tools are called
    DeskSellers,    \* seller URLs
    Statuses,       \* order statuses that transition_order is called with
    Initial,        \* the status of the order at first
    MaxCalls        \* bound: calls begun

ASSUME DeskAssumption == MaxCalls \in Nat /\ Initial \in Statuses

\* Scoring weights, by what _validate_scoring_weights makes of them.
Weights == {"none", "empty", "valid", "invalid"}
NoTemplate == "no template"
Templates == {"template", "dealTemplate"}

VARIABLES
    shared,     \* what the tools read and write, by resource
    meant,      \* the same, had each call run alone (history)
    disturbed,  \* resources on which two calls overlapped or one died (history)
    opened,     \* deals that the tools saved: their status, whether the first round of
                \* the negotiation is there, and what became of the call
    session,    \* the call under way of each process
    calls       \* calls begun

deskVars == <<shared, meant, disturbed, opened, session, calls>>

Resources == {"keys", "order", "approval", "template", "dealTemplate"}
NoSession == [pc |-> "idle"]
\* An unreadable key file.
Torn == {"torn"}

NoDeal == [status |-> "none", round |-> FALSE, told |-> FALSE]
\* create_approval_requests_table, and the tables of the other stores.
Fresh == [keys |-> {}, order |-> Initial, approval |-> "pending", template |-> NoTemplate,
          dealTemplate |-> NoTemplate]
DeskInit ==
    /\ shared = Fresh /\ meant = Fresh /\ disturbed = {} /\ calls = 0
    /\ opened = [n \in 1 .. MaxCalls |-> NoDeal]
    /\ session = [s \in Sessions |-> NoSession]

\* ApiKeyStore._load, in every call: a file that cannot be read counts as empty.
LoadKeys == IF shared.keys = Torn THEN {} ELSE shared.keys
\* OrderStore.get_order.
GetOrder == shared.order
ReadResource(r) ==
    CASE r = "keys" -> LoadKeys [] r = "order" -> GetOrder
      [] r = "deals" -> "nothing" [] OTHER -> shared[r]

Busy(r) == \E s \in Sessions : session[s].pc # "idle" /\ session[s].on = r
\* A call begins: it reads the resource that it will change.
Call(s, r, change) ==
    /\ session[s] = NoSession /\ calls < MaxCalls /\ calls' = calls + 1
    /\ session' = [session EXCEPT ![s] = [pc |-> "read", on |-> r, saw |-> ReadResource(r),
                                          change |-> change, nth |-> calls']]
    /\ disturbed' = IF Busy(r) THEN disturbed \cup ({r} \cap Resources) ELSE disturbed
    /\ UNCHANGED <<shared, meant, opened>>

--------------------------------------------------------------------------------
(* The tools, as they begin.                                               *)

CreateApiKey(s) == \E seller \in DeskSellers : Call(s, "keys", [to |-> seller, add |-> TRUE])
RevokeApiKey(s) == \E seller \in DeskSellers : Call(s, "keys", [to |-> seller, add |-> FALSE])

\* Any status goes: the order's state machine is not asked.
TransitionOrder(s) == \E to \in Statuses : Call(s, "order", [to |-> to])

\* The decision may be neither word.
ApproveOrReject(s) ==
    \E to \in {"approved", "rejected", "other"} : Call(s, "approval", [to |-> to])

\* The MCP tool takes the weights of a supply path as they are given.
CreateTemplate(s) ==
    \/ \E w \in Weights : Call(s, "template", [how |-> "mcp", to |-> w])
    \/ Call(s, "dealTemplate", [how |-> "mcp", to |-> "valid"])

\* ManageSupplyPathTemplateTool and ManageDealTemplateTool: of their actions read and
\* list change nothing, and another word, or no JSON, is refused.
Changes     == {"create", "update", "delete"}
SpoTool(s)  == \E how \in Changes, w \in Weights : Call(s, "template", [how |-> how, to |-> w])
DealTool(s) == \E how \in Changes : Call(s, "dealTemplate", [how |-> how, to |-> "valid"])

StartNegotiation(s)        == Call(s, "deals", [how |-> "negotiate"])
InstantiateFromTemplate(s) == Call(s, "dealTemplate", [how |-> "instantiate"])

--------------------------------------------------------------------------------
(* What they refuse, with nothing written.                                 *)

\* remove_key: there is no such key.
KeyMissing(saw, c) == ~c.add /\ c.to \notin saw
\* approve_or_reject: the decision is no decision, or the request is decided.
NoDecision(saw, c) == saw # "pending" \/ c.to = "other"
\* _validate_scoring_weights, which create leaves out for empty weights and update for
\* none; the deal tool's templates have no weights.
SpoCreateRefused(c) == c.how = "create" /\ c.to = "invalid"
SpoUpdateRefused(c) == c.how = "update" /\ c.to \in {"empty", "invalid"}
BadWeights(c)       == SpoCreateRefused(c) \/ SpoUpdateRefused(c)
\* No such template: an update, a deletion, or a deal made from none.
NoneToUpdate(saw, c) == saw = NoTemplate /\ c.how = "update"
NoneToDelete(saw, c) == saw = NoTemplate /\ c.how = "delete"
NoneToBook(saw, c)   == saw = NoTemplate /\ c.how = "instantiate"
NoneThere(saw, c)    == NoneToUpdate(saw, c) \/ NoneToDelete(saw, c) \/ NoneToBook(saw, c)

\* Mutant: a decided request is not refused.
RefusedIfWordless(r, saw, c) ==
    \/ r = "keys" /\ KeyMissing(saw, c)
    \/ r = "approval" /\ c.to = "other"
    \/ r \in Templates /\ (BadWeights(c) \/ NoneThere(saw, c))
\* Mutant: a template's weights are not validated.
RefusedUnweighed(r, saw, c) ==
    \/ r = "keys" /\ KeyMissing(saw, c)
    \/ r = "approval" /\ NoDecision(saw, c)
    \/ r \in Templates /\ NoneThere(saw, c)
RefusedCall(r, saw, c) ==
    \/ r = "keys" /\ KeyMissing(saw, c)
    \/ r = "approval" /\ NoDecision(saw, c)
    \/ r \in Templates /\ (BadWeights(c) \/ NoneThere(saw, c))

\* What a call goes by when it writes: what it saw, or for a template, whose tools read
\* nothing first, the row as it is.
Basis(c) == IF c.on \in Templates /\ c.change.how # "instantiate" THEN shared[c.on] ELSE c.saw

Refuse(s) ==
    LET c == session[s] IN
    /\ c.pc = "read" /\ RefusedCall(c.on, Basis(c), c.change)
    /\ session' = [session EXCEPT ![s] = NoSession]
    /\ UNCHANGED <<shared, meant, disturbed, opened, calls>>

--------------------------------------------------------------------------------
(* What they write.                                                        *)

\* The whole file, or the whole order, as this call saw it and changed it.
KeysWritten(saw, c) == IF c.add THEN saw \cup {c.to} ELSE saw \ {c.to}
OrderWritten(c)     == c.to
\* The row of the approval request, whatever it says by now.
ApprovalWritten(c)  == c.to
\* save_, update_ and delete_ of the two template stores; an update writes the columns
\* it is given and leaves the others alone.
SpoSaved(c)   == IF c.how \in {"mcp", "create"} THEN {c.to} ELSE {}
SpoUpdated(c) == IF c.how = "update" THEN {c.to} ELSE {}
SpoWritten(c) == CHOOSE t \in {NoTemplate} \cup Weights :
                    t \in SpoSaved(c) \cup SpoUpdated(c) \/ (c.how = "delete" /\ t = NoTemplate)
DealTemplateSaved(c)   == IF c.how \in {"mcp", "create"} THEN {"valid"} ELSE {}
DealTemplateUpdated(c) == IF c.how = "update" THEN {"valid"} ELSE {}
DealTemplateWritten(c) == IF DealTemplateSaved(c) \cup DealTemplateUpdated(c) = {}
                          THEN NoTemplate ELSE "valid"
Written(r, saw, c) ==
    CASE r = "keys" -> KeysWritten(saw, c)
      [] r = "order" -> OrderWritten(c)
      [] r = "approval" -> ApprovalWritten(c)
      [] r = "template" -> SpoWritten(c)
      [] r = "dealTemplate" -> DealTemplateWritten(c)

MakesDeal(c) == c.on = "deals" \/ (c.on = "dealTemplate" /\ c.change.how = "instantiate")

\* ApiKeyStore._save: write_text truncates the file first.
TruncateKeys(s) ==
    LET c == session[s] IN
    /\ c.pc = "read" /\ c.on = "keys" /\ ~RefusedCall("keys", c.saw, c.change)
    /\ shared' = [shared EXCEPT !.keys = Torn]
    /\ session' = [session EXCEPT ![s].pc = "truncated"]
    /\ UNCHANGED <<meant, disturbed, opened, calls>>

WriteResource(s) ==
    LET c == session[s]  r == c.on IN
    /\ c.pc = "truncated" \/ (c.pc = "read" /\ c.on # "keys")
    /\ ~RefusedCall(r, Basis(c), c.change) /\ ~MakesDeal(c)
    /\ shared' = [shared EXCEPT ![r] = Written(r, c.saw, c.change)]
    /\ meant' = [meant EXCEPT ![r] = IF RefusedCall(r, meant[r], c.change) THEN meant[r]
                                     ELSE Written(r, meant[r], c.change)]
    /\ session' = [session EXCEPT ![s] = NoSession]
    /\ UNCHANGED <<disturbed, opened, calls>>

\* start_negotiation saves the deal, and then its first round.
SaveNegotiating(s) ==
    LET c == session[s] IN
    /\ c.pc = "read" /\ c.on = "deals"
    /\ opened' = [opened EXCEPT ![c.nth].status = "negotiating"]
    /\ session' = [session EXCEPT ![s].pc = "saved"]
    /\ UNCHANGED <<shared, meant, disturbed, calls>>
\* Mutant: the call returns without saving the round.
SaveNoRound(s) ==
    /\ session[s].pc = "saved"
    /\ opened' = [opened EXCEPT ![session[s].nth].told = TRUE]
    /\ session' = [session EXCEPT ![s] = NoSession]
    /\ UNCHANGED <<shared, meant, disturbed, calls>>
SaveRound(s) ==
    /\ session[s].pc = "saved"
    /\ opened' = [opened EXCEPT ![session[s].nth] = [status |-> "negotiating",
                                                     round |-> TRUE, told |-> TRUE]]
    /\ session' = [session EXCEPT ![s] = NoSession]
    /\ UNCHANGED <<shared, meant, disturbed, calls>>

\* instantiate_from_template saves a deal that is booked at once.
SaveBooked(s) ==
    LET c == session[s] IN
    /\ c.pc = "read" /\ c.on = "dealTemplate" /\ MakesDeal(c)
    /\ ~RefusedCall(c.on, Basis(c), c.change)
    /\ opened' = [opened EXCEPT ![c.nth] = [status |-> "booked", round |-> FALSE, told |-> TRUE]]
    /\ session' = [session EXCEPT ![s] = NoSession]
    /\ UNCHANGED <<shared, meant, disturbed, calls>>

\* The database refuses the write and the tool reports it, or the process dies.
DeskFails(s) ==
    /\ session[s].pc # "idle"
    /\ disturbed' = IF session[s].pc = "truncated" THEN disturbed \cup {"keys"} ELSE disturbed
    /\ session' = [session EXCEPT ![s] = NoSession]
    /\ UNCHANGED <<shared, meant, opened, calls>>

DeskNext ==
    \E s \in Sessions :
        \/ CreateApiKey(s) \/ RevokeApiKey(s) \/ TransitionOrder(s) \/ ApproveOrReject(s)
        \/ CreateTemplate(s) \/ SpoTool(s) \/ DealTool(s)
        \/ StartNegotiation(s) \/ InstantiateFromTemplate(s)
        \/ Refuse(s) \/ TruncateKeys(s) \/ WriteResource(s)
        \/ SaveNegotiating(s) \/ SaveRound(s) \/ SaveBooked(s) \/ DeskFails(s)

DeskSpec == DeskInit /\ [][DeskNext]_deskVars

--------------------------------------------------------------------------------
(* Views: the tools and endpoints that only read.                          *)

\* list_api_keys: the sellers, each with its key masked.
ListApiKeys == LoadKeys
\* OrderStore.list_orders: all orders, or those of a status.
OrdersOf(filter) == IF filter \in {"any", shared.order} THEN {shared.order} ELSE {}
\* list_orders and GET /orders; get_order_status; GET /orders/{id}/audit, whose
\* transitions are the stored order's, to which transition_order adds none.
ListOrders(filter)    == OrdersOf(filter)
ListBuyerOrders(filter) == OrdersOf(filter)
GetOrderStatus == GetOrder
OrderAudit     == [current |-> GetOrder, transitions |-> 0]
\* list_pending_approvals, by the status pending.
ListPendingApprovals == {r \in {"approval"} : shared[r] = "pending"}
\* The template tools' read and list, the stores' listings and list_templates.
SpoListed      == {shared.template} \ {NoTemplate}
DealTemplates  == {shared.dealTemplate} \ {NoTemplate}
ListTemplates(type) ==
    (IF type \in {"any", "deal"} THEN {<<"deal", t>> : t \in DealTemplates} ELSE {})
    \cup (IF type \in {"any", "supply_path"} THEN {<<"spo", t>> : t \in SpoListed} ELSE {})
\* get_negotiation_history.
Rounds(n) == IF opened[n].round THEN {1} ELSE {}
\* get_negotiation_status, list_active_negotiations and get_deal_performance.
NegotiationStatus(n)  == [status |-> opened[n].status, rounds |-> Rounds(n)]
ActiveNegotiations    == {NegotiationStatus(n) :
                             n \in {m \in 1 .. MaxCalls : opened[m].status = "negotiating"}}
DealPerformance(n)    == [status |-> opened[n].status, rounds |-> Cardinality(Rounds(n))]

--------------------------------------------------------------------------------
(* Properties.                                                             *)

\* Type invariant of the desk.
DeskTypeOK ==
    /\ shared.keys \in (SUBSET DeskSellers) \cup {Torn} /\ GetOrderStatus \in Statuses
    /\ shared.approval \in {"pending", "approved", "rejected"}
    /\ {shared.template, shared.dealTemplate} \subseteq Weights \cup {NoTemplate}
    /\ disturbed \subseteq Resources /\ calls \in 0 .. MaxCalls
    /\ opened \in [1 .. MaxCalls -> [status : {"none", "negotiating", "booked"},
                                     round : BOOLEAN, told : BOOLEAN]]
    /\ \A s \in Sessions : session[s] # NoSession =>
         session[s].pc \in {"read", "truncated", "saved"}
           /\ session[s].on \in Resources \cup {"deals"}

\* As long as no two calls on a resource overlapped and none died while it rewrote the
\* file, what the tools show of the resource is what the acknowledged calls made of it,
\* one after the other: no seller's key is lost to a call about another, no decision
\* replaces a decision.  And a negotiation that was reported as started is listed, and
\* shown with its first round.
CallsAreSequential ==
    /\ "keys" \notin disturbed /\ (\A s \in Sessions : session[s].pc # "truncated") =>
         ListApiKeys = meant.keys
    /\ "order" \notin disturbed => ListOrders(meant.order) = ListBuyerOrders("any")
    /\ "approval" \notin disturbed => (ListPendingApprovals # {} <=> meant.approval = "pending")
    /\ disturbed \cap Templates = {} =>
         ListTemplates("any") = {<<"deal", t>> : t \in {meant.dealTemplate} \ {NoTemplate}}
                                \cup {<<"spo", t>> : t \in {meant.template} \ {NoTemplate}}
    /\ \A n \in 1 .. MaxCalls :
         opened[n].told /\ opened[n].status = "negotiating" =>
            /\ NegotiationStatus(n).rounds = {1} /\ DealPerformance(n).rounds = 1
            /\ NegotiationStatus(n) \in ActiveNegotiations

\* A call of the template tool never leaves weights that do not sum to one, whatever it
\* overlaps with.
WeightsStayValid ==
    [][\A s \in Sessions :
         session[s].pc = "read" /\ session[s].on = "template" /\ session[s].change.how # "mcp"
           /\ session'[s] = NoSession /\ shared'.template # shared.template =>
             shared'.template # "invalid"]_deskVars

\* A decided approval request keeps its decision, unless two calls overlapped on it.
DecisionsStand ==
    [][shared.approval # "pending" /\ "approval" \notin disturbed =>
         shared'.approval = shared.approval]_deskVars

\* The template tool's documentation: scoring weights must sum to 1.0.
WeightsAreValidated == shared.template # "invalid"

\* The audit endpoint: the local audit trail of an order accounts for its status.
AuditTrailAccounts == OrderAudit.current # Initial => OrderAudit.transitions > 0

\* An approval request that is decided stays decided the way it was.
DeskDecidesOnce == [][shared.approval # "pending" => shared'.approval = shared.approval]_deskVars
================================================================================
