----------------------------- MODULE OpenDirect -----------------------------
(***************************************************************************)
(* OpenDirectClient and the tools that use it: a catalogue page read item  *)
(* by item, an availability check in two dialects, and the requests that   *)
(* change the seller's book even when their answers are lost, late or      *)
(* unreadable.                                                             *)
(*                                                                         *)
(* Abstractions.  An item of the catalogue is what becomes of it, an       *)
(* entity of the book is its kind and status, and a seller that cannot     *)
(* apply a request refuses it.                                             *)
(***************************************************************************)
EXTENDS Naturals, FiniteSets, Sequences, SequencesExt, Subsequences

CONSTANTS
    CatalogueItems, \* the items a catalogue page may hold
    ItemShape,      \* [item -> "ok", "dear", "other_format", "unreadable", "unconvertible"]
    AskedProduct,   \* the product whose availability is asked for
    OtherProducts,  \* products a collection answer may also hold
    NoProduct,
    MaxPage,        \* bound on the items of a page
    MaxSent         \* bound on the requests sent

ASSUME OpenDirectAssumption ==
    /\ NoProduct \notin OtherProducts /\ AskedProduct \notin OtherProducts
    /\ MaxPage \in Nat /\ MaxSent \in Nat
    /\ ItemShape \in [CatalogueItems -> {"ok", "dear", "other_format", "unreadable", "unconvertible"}]

VARIABLES
    page,       \* the catalogue page the seller answered with
    listing,    \* what the client made of it
    avails,     \* the availability check: dialects tried, and the record reported
    book,       \* the seller's accounts, orders, lines and creatives
    wire,       \* requests the seller has not handled yet
    waiting,    \* the request somebody awaits, with its answer
    reports,    \* what the callers were told
    sent        \* requests made

catalogueVars == <<page, listing, avails>>
bookVars == <<book, wire, waiting, reports, sent>>
odVars == <<catalogueVars, bookVars>>

NotWaiting == [op |-> "none", of |-> 0, id |-> 0, answer |-> "none"]
Unread == [at |-> "unread", products |-> <<>>, rejects |-> <<>>]

OdInit ==
    /\ page = <<>> /\ listing = Unread
    /\ avails = [at |-> "idle", spec |-> FALSE, tries |-> 0, record |-> NoProduct]
    /\ book = <<>> /\ wire = {} /\ waiting = NotWaiting /\ reports = <<>> /\ sent = 0

-----------------------------------------------------------------------------
(* The catalogue.                                                          *)

Shaped(items, shapes) == Picked(items, {i \in DOMAIN items : ItemShape[items[i]] \in shapes})

\* _filter_wire_products, and from_wire_product of what is left.
FilterWireProducts(items) == Shaped(items, {"ok", "dear", "unconvertible"})
FromWireProducts(items) == Shaped(items, {"ok", "dear"})
\* _product_reject_record, of an item that does not validate or does not convert.
\* Mutant: what does not convert leaves no record.
RejectedUnread(items) == Shaped(items, {"unreadable"})
Rejected(items) == Shaped(items, {"unreadable", "unconvertible"})

\* list_products_tolerant: a bad item is rejected on its own.
ListProductsTolerant ==
    /\ listing.at = "unread"
    /\ \E items \in SeqOf(CatalogueItems, MaxPage) :
          /\ page' = items
          /\ listing' = [at |-> "tolerant", products |-> FromWireProducts(items),
                         rejects |-> Rejected(items)]
    /\ UNCHANGED <<avails, bookVars>>

\* _fetch_wire_products with search_products or list_products: one bad item fails the page.
FetchWireProducts(items) == [fails |-> Rejected(items) # <<>>, page |-> items]
SearchProducts(items) ==
    IF FetchWireProducts(items).fails THEN [Unread EXCEPT !.at = "failed"]
    ELSE [at |-> "strict", products |-> FromWireProducts(FilterWireProducts(items)), rejects |-> <<>>]

\* ProductSearchTool: the price bounds are applied to what came back.
ProductSearch ==
    /\ listing.at = "unread"
    /\ \E items \in SeqOf(CatalogueItems, MaxPage), bounded \in BOOLEAN :
          /\ page' = items
          /\ listing' = IF bounded /\ SearchProducts(items).at = "strict"
                        THEN [at |-> "bounded", products |-> Shaped(items, {"ok"}), rejects |-> <<>>]
                        ELSE SearchProducts(items)
    /\ UNCHANGED <<avails, bookVars>>

\* check_avails: the spec dialect when the client knows its account, and one legacy
\* request (_post_legacy_avails) when the seller answers it with 422.
CheckAvails ==
    /\ avails.at = "idle"
    /\ \E spec \in BOOLEAN :
          avails' = [avails EXCEPT !.at = "asked", !.spec = spec, !.tries = 1]
    /\ UNCHANGED <<page, listing, bookVars>>

PostLegacyAvails ==
    /\ avails.at = "asked" /\ avails.spec
    /\ avails' = [avails EXCEPT !.spec = FALSE, !.tries = @ + 1]
    /\ UNCHANGED <<page, listing, bookVars>>

\* The first record that echoes the product, else the first record.
FirstRecord(records) == IF records # <<>> THEN records[1] ELSE NoProduct
Matching(records) ==
    IF AskedProduct \in ToSet(records) THEN AskedProduct ELSE FirstRecord(records)

\* AvailsCheckTool: a collection, or the legacy form, which is always about the asked
\* product; an empty collection is a ValueError.
AvailsAnswered ==
    /\ avails.at = "asked"
    /\ \/ \E records \in SeqOf(OtherProducts \cup {AskedProduct}, 2) :
             avails' = [avails EXCEPT !.at = IF records = <<>> THEN "failed"
                                             ELSE IF AskedProduct \in ToSet(records)
                                             THEN "conformant" ELSE "foreign",
                                      !.record = Matching(records)]
       \/ avails' = [avails EXCEPT !.at = "conformant", !.record = AskedProduct]
       \/ avails' = [avails EXCEPT !.at = "failed"]
    /\ UNCHANGED <<page, listing, bookVars>>

-----------------------------------------------------------------------------
(* The book.                                                               *)

\* A request makes an entity of a kind or moves one from some statuses to another.
Creates(kind, status) == [op |-> "create", kind |-> kind, from |-> {}, to |-> status]
CreateAccount  == Creates("account", "Active")
CreateOrder    == Creates("order", "Active")
CreateLine     == Creates("line", "Draft")
CreateCreative == Creates("creative", "Active")
Moves(op, kind, from, to) == [op |-> op, kind |-> kind, from |-> from, to |-> to]
UpdateOrder == Moves("update", "order", {"Active"}, "Active")
ReserveLine == Moves("reserve", "line", {"Draft"}, "Reserved")
BookLine    == Moves("book", "line", {"Reserved"}, "Booked")
CancelLine  == Moves("cancel", "line", {"Draft", "Reserved", "Booked"}, "Canceled")
Creations == {CreateAccount, CreateOrder, CreateLine, CreateCreative}
Updates   == {UpdateOrder, ReserveLine, BookLine, CancelLine}

Send(request, of) ==
    /\ waiting = NotWaiting /\ sent < MaxSent
    /\ sent' = sent + 1
    /\ waiting' = [op |-> request.op, of |-> of, id |-> sent + 1, answer |-> "none"]
    /\ wire' = wire \cup {[id |-> sent + 1, of |-> of, does |-> request]}
    /\ UNCHANGED <<book, reports, catalogueVars>>
OfKind(kind) == {i \in DOMAIN book : book[i].kind = kind}

\* The tools: arguments are parsed before anything is sent, and no tool knows whether an
\* earlier request of its own came through.
CreateOrderTool == Send(CreateOrder, 0)
CreateLineTool  == OfKind("order") # {} /\ Send(CreateLine, 0)
ReserveLineTool == \E line \in OfKind("line") : Send(ReserveLine, line)
BookLineTool    == \E line \in OfKind("line") : Send(BookLine, line)
\* Calls of the client that no tool makes.
ClientCall ==
    \/ Send(CreateAccount, 0) \/ Send(CreateCreative, 0)
    \/ \E order \in OfKind("order") : Send(UpdateOrder, order)
    \/ \E line \in OfKind("line") : Send(CancelLine, line)

\* The seller (external) handles a request, at once or long after the caller gave up.
ApiAnswers(r, answer, of) ==
    waiting' = IF waiting.id = r.id THEN [waiting EXCEPT !.answer = answer, !.of = of] ELSE waiting
SellerHandles(r) ==
    /\ wire' = wire \ {r}
    /\ \/ /\ r.does \in Creations
          /\ book' = Append(book, [kind |-> r.does.kind, status |-> r.does.to])
          /\ ApiAnswers(r, "done", Len(book) + 1)
       \/ /\ r.does \in Updates /\ book[r.of].status \in r.does.from
          /\ book' = [book EXCEPT ![r.of].status = r.does.to]
          /\ ApiAnswers(r, "done", r.of)
       \/ /\ r.does \in Updates => book[r.of].status \notin r.does.from
          /\ ApiAnswers(r, "refused", r.of)
          /\ UNCHANGED book
    /\ UNCHANGED <<reports, sent, catalogueVars>>

\* _request and raise_for_status(): an error status is an error.
\* Mutant: the status of the answer is not looked at.
ReportedAnyway(answer) == "success"
Reported(answer) == IF answer = "done" THEN "success" ELSE "error"

Report(verdict) ==
    /\ reports' = Append(reports, [op |-> waiting.op, of |-> waiting.of, verdict |-> verdict])
    /\ waiting' = NotWaiting
    /\ UNCHANGED <<book, wire, sent, catalogueVars>>

CallAnswers == waiting.answer # "none" /\ Report(Reported(waiting.answer))
\* model_validate of the body raises: a ValueError, which the creating tools tell as a
\* bad date, though the seller has done what it was asked.
AnswerUnreadable == waiting.answer = "done" /\ Report("error")
\* A timeout or a dropped connection: the request may still be on its way.
AnswerLost == waiting.op # "none" /\ Report("error")

OdNext ==
    \/ ListProductsTolerant \/ ProductSearch \/ CheckAvails \/ PostLegacyAvails \/ AvailsAnswered
    \/ CreateOrderTool \/ CreateLineTool \/ ReserveLineTool \/ BookLineTool \/ ClientCall
    \/ \E r \in wire : SellerHandles(r)
    \/ CallAnswers \/ AnswerUnreadable \/ AnswerLost

OdSpec == OdInit /\ [][OdNext]_odVars

-----------------------------------------------------------------------------
\* Type invariant of the OpenDirect client.
OdTypeOK ==
    /\ page \in Seq(CatalogueItems)
    /\ listing.at \in {"unread", "tolerant", "strict", "bounded", "failed"}
    /\ avails.at \in {"idle", "asked", "conformant", "foreign", "failed"}
    /\ avails.record \in OtherProducts \cup {AskedProduct, NoProduct}
    /\ \A i \in DOMAIN book :
          /\ book[i].kind \in {"account", "order", "line", "creative"}
          /\ book[i].status \in {"Active", "Draft", "Reserved", "Booked", "Canceled"}
    /\ \A r \in wire : r.does \in Creations \cup Updates /\ r.of \in 0 .. Len(book)
    /\ waiting.answer \in {"none", "done", "refused"}
    /\ \A i \in DOMAIN reports : reports[i].verdict \in {"success", "error"}
    /\ sent \in 0 .. MaxSent

(* A page accounts for every item, an availability check makes at most two *)
(* requests and reports the asked product whenever the seller answered for *)
(* it.                                                                     *)
PageAccounts ==
    /\ listing.at \in {"tolerant", "strict"} =>
          Len(page) = Len(listing.products) + Len(listing.rejects)
                        + Len(Shaped(page, {"other_format"}))
    /\ avails.tries <= 2
    /\ avails.at = "conformant" => avails.record = AskedProduct

Told(op, of, verdict) ==
    \E i \in DOMAIN reports : reports[i] = [op |-> op, of |-> of, verdict |-> verdict]

(* What a caller was told is done was done by the seller, and only a later *)
(* cancellation takes it back; and an entity nobody was told of goes back  *)
(* to a creation whose answer was lost, late or unreadable.                *)
ReportsAreTrue ==
    /\ \A i \in DOMAIN book :
          /\ Told("reserve", i, "success") => book[i].status \in {"Reserved", "Booked", "Canceled"}
          /\ Told("book", i, "success") => book[i].status \in {"Booked", "Canceled"}
          /\ Told("cancel", i, "success") => book[i].status = "Canceled"
    /\ \A i \in DOMAIN reports : reports[i].verdict = "success" => reports[i].of \in DOMAIN book
    /\ Cardinality({e \in DOMAIN book : ~Told("create", e, "success")})
         <= Cardinality({i \in DOMAIN reports : reports[i].op = "create"
                                                /\ reports[i].verdict = "error"})
              + (IF waiting.op = "create" THEN 1 ELSE 0)
=============================================================================
