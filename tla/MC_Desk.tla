--------------------------------- MODULE MC_Desk ---------------------------------
(***************************************************************************)
(* Instances of the modules about what the operator's desk keeps: operator *)
(* keys, the audit trail, the deal library, the tools' records, the        *)
(* database itself, the pacing of a campaign, the rows of the deals table  *)
(* and the approval gates of several processes.                            *)
(*                                                                         *)
(* As in MC_Parties, they share no variable, and a behaviour is one of one *)
(* component, the variable part.                                           *)
(***************************************************************************)
EXTENDS OperatorKeys, AuditTrail, DealLibrary, BuyerDesk, Bootstrap, Pacing, TLC

CONSTANTS o1, o2, o3, o4, blank, b1, b2, g1, g2, r1, d1, q1, t1, t2, t3, none

VARIABLES
    part,
    gateRows, gateOrder, gateCache, gateWaits, gateTried, gateTold,
    dealSeller, dealRow, dealOrder, dealHistory, dealWork

Parts == {"keys", "audit", "library", "desk", "schema", "wizard", "pacing", "gates", "rows"}

\* Two gates over one table whose updates may fail, and a request. (ag_single has more
\* requests than a reload reads.)
Gate == INSTANCE ApprovalGate WITH
    Gates <- {g1, g2}, Requests <- {r1}, Limit <- 1, StoreMayFail <- TRUE,
    rows <- gateRows, order <- gateOrder, cache <- gateCache, waits <- gateWaits,
    tried <- gateTried, told <- gateTold

\* Three calls at a time on a deal, in a listing that a quote may hide it from.
DealRow == INSTANCE DealLifecycle WITH
    Deals <- {d1}, Quotes <- {q1}, Threads <- {t1, t2, t3}, Limit <- 1, MaxHistory <- 3,
    None <- none,
    seller <- dealSeller, row <- dealRow, order <- dealOrder, history <- dealHistory,
    work <- dealWork

tableVars == <<gateRows, gateOrder, gateCache, gateWaits, gateTried, gateTold,
               dealSeller, dealRow, dealOrder, dealHistory, dealWork>>
allDeskVars == <<keyVars, auditVars, libVars, deskVars, bootVars, pacingVars, tableVars>>

DesksInit ==
    /\ part \in Parts
    /\ KeysInit /\ AuditInit /\ LibInit /\ DeskInit /\ BootInit /\ PacingInit
    /\ Gate!Init /\ DealRow!Init
    /\ part # "library" => listing = <<>> /\ pages
    /\ part # "schema" => columns = {"none"}

KeysStep ==
    /\ part = "keys" /\ KeysNext
    /\ UNCHANGED <<auditVars, libVars, deskVars, bootVars, pacingVars, tableVars>>
AuditStep ==
    /\ part = "audit" /\ AuditNext
    /\ UNCHANGED <<keyVars, libVars, deskVars, bootVars, pacingVars, tableVars>>
LibStep ==
    /\ part = "library" /\ LibNext
    /\ UNCHANGED <<keyVars, auditVars, deskVars, bootVars, pacingVars, tableVars>>
DeskStep ==
    /\ part = "desk" /\ DeskNext
    /\ UNCHANGED <<keyVars, auditVars, libVars, bootVars, pacingVars, tableVars>>
\* Bootstrap in two parts, the database and the setup wizard.
BootStep ==
    /\ part \in {"schema", "wizard"} /\ BootNext
    /\ part = "schema" => UNCHANGED <<wizard, answers>>
    /\ part = "wizard" => UNCHANGED schemaVars
    /\ UNCHANGED <<keyVars, auditVars, libVars, deskVars, pacingVars, tableVars>>
PaceStep ==
    /\ part = "pacing" /\ PacingNext
    /\ UNCHANGED <<keyVars, auditVars, libVars, deskVars, bootVars, tableVars>>

GateStep ==
    /\ part = "gates" /\ Gate!Next
    /\ UNCHANGED <<keyVars, auditVars, libVars, deskVars, bootVars, pacingVars>>
    /\ UNCHANGED <<dealSeller, dealRow, dealOrder, dealHistory, dealWork>>
RowStep ==
    /\ part = "rows" /\ DealRow!Next
    /\ UNCHANGED <<keyVars, auditVars, libVars, deskVars, bootVars, pacingVars>>
    /\ UNCHANGED <<gateRows, gateOrder, gateCache, gateWaits, gateTried, gateTold>>

DesksNext ==
    /\ \/ KeysStep \/ AuditStep \/ LibStep \/ DeskStep \/ BootStep \/ PaceStep
       \/ GateStep \/ RowStep
    /\ UNCHANGED part

DesksSpec == DesksInit /\ [][DesksNext]_<<part, allDeskVars>>

--------------------------------------------------------------------------------
(* The instances.                                                          *)

\* DealLibrary: offers with and without an id, sold or not, in statuses and of types
\* that are known or not; listings with repetitions, and files with a blank line.
Offered(id, named, sold, type, status, ends) ==
    [id |-> id, named |-> named, sold |-> sold, type |-> type, status |-> status, ends |-> ends]
MCShape ==
       o1 :> Offered("d1", TRUE, TRUE, "pg", "active", TRUE)
    @@ o2 :> Offered("d2", TRUE, TRUE, "none", "paused", FALSE)
    @@ o3 :> Offered(NoId, TRUE, TRUE, "odd", "odd", TRUE)
    @@ o4 :> Offered(NoId, TRUE, FALSE, "pd", "active", FALSE)
MCListings == {<<>>, <<o1, o1>>, <<o1, o2, o1>>, <<o3, o2, o1>>}
MCTexts ==
    {[known |-> FALSE, lines |-> <<o1>>], [known |-> TRUE, lines |-> <<o1, blank, o2>>],
     [known |-> TRUE, lines |-> <<o4, o2, o2>>]}

\* Pacing: two channels of unequal budgets.
MCAllocation == b1 :> 60 @@ b2 :> 40

--------------------------------------------------------------------------------
(* What the run checks.                                                    *)

\* Type invariant: every component's, where it moves.
DesksTypeOK ==
    CASE part = "keys"    -> KeysTypeOK
      [] part = "audit"   -> AuditTypeOK
      [] part = "library" -> LibTypeOK
      [] part = "desk"    -> DeskTypeOK
      [] part \in {"schema", "wizard"} -> BootTypeOK
      [] part = "pacing"  -> PacingTypeOK
      [] part = "gates"   -> Gate!TypeOK
      [] part = "rows"    -> DealRow!TypeOK

\* What was acknowledged is kept: an event that an audited emitter was told of is found
\* later, on the bus or in the fallback log, what the tools show is what their acknowledged
\* calls did, one after the other, and a database that opened has every table and column,
\* whoever else was killed while opening it.
AcknowledgedIsKept ==
    /\ part = "audit" => AuditedIsFound
    /\ part = "desk" => CallsAreSequential
    /\ part = "schema" => OpenedIsComplete

\* What the deal library says it has, it has whole: a fetch of a partner's listing that
\* does not say that it stopped has every deal of it, an import has saved all that it
\* counted, and the pages of the library show all of it.
StoresAreWhole == part = "library" => FetchIsComplete /\ ImportIsWhole /\ PagesShowAll

\* What the operator decided stands: an approval request keeps its decision, the template
\* tool stores no weights it refuses, and the setup wizard detects nothing over an answer.
DecisionsHold == DecisionsStand /\ WeightsStayValid /\ AnswersStand

\* However many gates share the table and whichever of its updates fail, no pipeline acts
\* on a verdict that no reviewer gave, and a reviewer was told of a decision exactly when
\* the table has it.
ReviewersAreHeeded == part = "gates" => Gate!VerdictWasGiven /\ Gate!ReviewerIsTold

\* The status history explains each row of the deals table, in whatever order overlapping
\* calls wrote it, and an answer finds its row while the listing is long enough.
RowsAreExplained == part = "rows" => DealRow!HistoryAccounts /\ DealRow!AnswerFindsRow

\* Reallocations take from a channel what it can spare, and every reading of a pacing
\* snapshot agrees on the campaign's state.
PacingIsSound == part = "pacing" => ReallocationsAreSound /\ VerdictsCohere
================================================================================
