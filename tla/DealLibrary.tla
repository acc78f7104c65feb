------------------------------ MODULE DealLibrary ------------------------------
(***************************************************************************)
(* The deal library: deals imported from an SSP page by page, or from a    *)
(* CSV text, or entered by hand, each saved as two rows (the deal, and     *)
(* what the portfolio knows of it), and read back by the portfolio tools.  *)
(*                                                                         *)
(* Abstractions.  An offer is a deal as an SSP, a line of a text or a form *)
(* words it; of its fields the id, the name, the type, the status and the  *)
(* end of the flight are kept.  Several imports overlap only in the        *)
(* library, where each of their writes is a statement of its own: one      *)
(* importer is modelled.                                                   *)
(***************************************************************************)
EXTENDS Integers, Sequences, FiniteSets, SequencesExt, Subsequences

CONSTANTS
    Offers,         \* offers
    Shape,          \* what each says: its id or NoId, and whether it names the deal (named)
                    \* and a seller (sold), its type, status, and whether it ends soon
    NoId,
    Listings,       \* the listings an SSP may start with: sequences of offers
    Texts,          \* CSV texts: whether a column of the header is known, and the lines
    Blank,          \* an empty line
    Filters,        \* status filters: "all", a status, or a word that is none
    PageSize,       \* page_size
    MaxPages,       \* _MAX_PAGES, and the bound on the pages of a source that has none
    OverFetch,      \* the 200 rows that list_portfolio fetches beyond its page
    MaxImports      \* bound: imports begun

OfferTypes    == {"pg", "pd", "pa", "none", "odd"}
OfferStatuses == {"active", "paused", "odd"}
ASSUME LibraryAssumption ==
    /\ {PageSize, MaxPages} \subseteq Nat \ {0} /\ {OverFetch, MaxImports} \subseteq Nat
    /\ \A o \in Offers : Shape[o].type \in OfferTypes /\ Shape[o].status \in OfferStatuses
    /\ Listings \subseteq Seq(Offers) /\ Filters \subseteq OfferStatuses \cup {"all"}
    /\ Texts \subseteq [known : BOOLEAN, lines : Seq(Offers \cup {Blank})]

\* The connectors by their registry names; Index Exchange may leave out the total.
Sources == {"index_exchange", "index_untotalled", "pubmatic", "magnite"}
IsIndex(source) == source \in {"index_exchange", "index_untotalled"}

VARIABLES
    listing,    \* what the SSP lists now (external)
    pages,      \* whether its API heeds the page number (external)
    import,     \* the import under way, or the last one
    library,    \* rows: which import wrote each, its deal, and whether its portfolio
                \* metadata is there
    imports     \* imports begun

libVars == <<listing, pages, import, library, imports>>

NoImport == [pc |-> "none"]
\* SSPFetchResult, and ImportResult.
Begun(source, pc) ==
    [pc |-> pc, source |-> source, filter |-> "all", page |-> 0, got |-> <<>>, total |-> 0,
     failed |-> 0, skipped |-> 0, saved |-> 0, stopped |-> FALSE,
     steady |-> TRUE, listed |-> listing]

LibInit ==
    /\ listing \in Listings /\ pages \in BOOLEAN
    /\ import = NoImport /\ library = {} /\ imports = 0

--------------------------------------------------------------------------------
(* Reading an offer: the deal it makes, in a set that is empty if it is    *)
(* rejected.                                                               *)

DealOf(s, type, status) ==
    {[id |-> s.id, type |-> type, status |-> status, ends |-> s.ends, valued |-> FALSE]}

\* IndexExchangeConnector._normalize_deal: the class must be known.
IndexDeal(s) ==
    IF s.id = NoId \/ ~s.named \/ s.type \in {"none", "odd"} THEN {}
    ELSE DealOf(s, s.type, IF s.status = "active" THEN "active" ELSE "paused")
\* PubMaticConnector._normalize_deal: no type is a private auction.
PubMaticDeal(s) ==
    IF s.id = NoId \/ ~s.named \/ s.type = "odd" THEN {}
    ELSE DealOf(s, IF s.type = "none" THEN "pa" ELSE s.type,
                IF s.status = "odd" THEN "imported" ELSE s.status)
\* MagniteConnector._normalize_deal: the name may be missing, the status is not read.
MagniteDeal(s) ==
    IF s.id = NoId \/ s.type \in {"none", "odd"} THEN {} ELSE DealOf(s, s.type, "imported")

\* _normalize_deal_type, for a cell that is not empty.
CellType(type) == IF type = "odd" THEN {} ELSE {type}
\* _parse_row: an id or a name, a seller, and no unknown type; no type is a preferred deal.
ParseRow(s) ==
    IF (s.id = NoId /\ ~s.named) \/ ~s.sold THEN {}
    ELSE IF s.type = "none" THEN DealOf(s, "pd", "imported")
         ELSE UNION {DealOf(s, type, "imported") : type \in CellType(s.type)}

\* _validate_entry: the fields it complains of.
ValidateEntry(s) ==
    {f \in {"display_name", "deal_type", "status"} :
        CASE f = "display_name" -> ~s.named
          [] f = "deal_type"    -> s.type = "odd"
          [] f = "status"       -> s.status = "odd"}
\* _build_deal_data: a deal entered by hand is the only one whose price is saved as such.
BuildDealData(s) ==
    [id |-> s.id, type |-> IF s.type = "none" THEN "pd" ELSE s.type, status |-> s.status,
     ends |-> s.ends, valued |-> TRUE]
\* create_manual_deal: the deal, or none.
ManualDeal(s) == IF ValidateEntry(s) = {} THEN {BuildDealData(s)} ELSE {}

\* The deals that a page or a text, already read, adds to those seen: each that is not rejected,
\* and of those with an id the first alone, unless repetitions are let through.
Sift(read, seen, once) ==
    LET good    == {i \in DOMAIN read : read[i] # {}}
        Deal(i) == CHOOSE d \in read[i] : TRUE
        skipped == {i \in good : once /\ Deal(i).id # NoId
                        /\ (Deal(i).id \in seen
                            \/ \E j \in good : j < i /\ Deal(j).id = Deal(i).id)}
    IN  [got |-> Picked([i \in good |-> Deal(i)], good \ skipped),
         failed |-> Cardinality(DOMAIN read \ good), skipped |-> Cardinality(skipped),
         news |-> skipped # DOMAIN read]

--------------------------------------------------------------------------------
(* Fetching.                                                               *)

Unoccupied == import.pc \in {"none", "done", "raised"}
Begin(begun) ==
    /\ Unoccupied /\ imports < MaxImports /\ imports' = imports + 1
    /\ import' = begun /\ UNCHANGED <<listing, pages, library>>
Refused == [Begun("none", "done") EXCEPT !.failed = 1, !.total = 1]

\* IndexExchangeConnector.fetch_deals checks its filters before it asks for anything.
IndexFilterOk(filter) == filter \in {"all", "active", "paused"}
\* import_deals_ssp: an unknown or unconfigured connector is refused, and so is a filter
\* that the connector does not know; the others take any.
ImportDealsSsp ==
    \E source \in Sources \cup {"unknown"}, configured \in BOOLEAN, filter \in Filters :
        Begin(IF source = "unknown" \/ ~configured \/ (IsIndex(source) /\ ~IndexFilterOk(filter))
              THEN Refused
              ELSE [Begun(source, IF source = "magnite" THEN "login" ELSE "fetching")
                      EXCEPT !.filter = filter])

\* _build_params of the two connectors that page: Index Exchange counts from 0 and
\* PubMatic from 1; a filter for all is not sent.
IndexParams   == [skip |-> import.page, status |-> {import.filter} \ {"all"}]
PubMaticParams == [skip |-> (import.page + 1) - 1, status |-> {import.filter} \ {"all"}]
\* What the SSP answers (external).
Matches(status, o) == status = {} \/ Shape[o].status \in status
Served(params) ==
    LET all  == Picked(listing, {i \in DOMAIN listing : Matches(params.status, listing[i])})
        from == IF pages THEN params.skip * PageSize ELSE 0
        rest == SubSeq(all, from + 1, Len(all))
    IN  [deals |-> SubSeq(rest, 1, IF Len(rest) < PageSize THEN Len(rest) ELSE PageSize),
         total |-> Len(all)]
\* _fetch_page, answered: the page, and with Index Exchange how many deals there are.
IndexPage    == Served(IndexParams)
PubMaticPage == Served(PubMaticParams).deals
\* _fetch_raw_deals: one answer, whatever the filter.
MagniteAnswer == listing

Took(sifted, offers, pc, stopped) ==
    import' = [import EXCEPT !.pc = pc, !.page = @ + 1, !.total = @ + Len(offers),
                             !.got = @ \o sifted.got, !.failed = @ + sifted.failed,
                             !.skipped = @ + sifted.skipped, !.stopped = stopped]
Seen == {d.id : d \in ToSet(import.got)} \ {NoId}

\* The ends of Index Exchange's paging that result.errors tells of: a page of deals that
\* were all fetched before, as if the API ignored the page number, and too many pages.
Stops(next, news) == ~news \/ next >= MaxPages
\* After a page that was not empty, there is no other: paging stops, or the total is
\* reached, or the page is short.
\* Mutant: the page about to be asked for is taken as fetched.
LastPageEarly(next, page, news) ==
    \/ Stops(next, news)
    \/ IF import.source = "index_exchange" THEN (next + 1) * PageSize >= page.total
       ELSE Len(page.deals) < PageSize
LastPage(next, page, news) ==
    \/ Stops(next, news)
    \/ IF import.source = "index_exchange" THEN next * PageSize >= page.total
       ELSE Len(page.deals) < PageSize

FetchIndex ==
    /\ import.pc = "fetching" /\ IsIndex(import.source)
    /\ LET page   == IndexPage
           read   == [i \in DOMAIN page.deals |-> IndexDeal(Shape[page.deals[i]])]
           sifted == Sift(read, Seen, TRUE)
       IN  Took(sifted, page.deals,
                IF page.deals = <<>> \/ LastPage(import.page + 1, page, sifted.news)
                THEN "saving" ELSE "fetching",
                page.deals # <<>> /\ Stops(import.page + 1, sifted.news))
    /\ UNCHANGED <<listing, pages, library, imports>>

\* PubMatic pages until a short page: without end, if the API ignores the number.
FetchPubMatic ==
    /\ import.pc = "fetching" /\ import.source = "pubmatic" /\ import.page < MaxPages
    /\ LET page == PubMaticPage
           read == [i \in DOMAIN page |-> PubMaticDeal(Shape[page[i]])]
       IN  Took(Sift(read, Seen, TRUE), page,
                IF Len(page) < PageSize THEN "saving" ELSE "fetching", FALSE)
    /\ UNCHANGED <<listing, pages, library, imports>>

\* MagniteConnector._login.
LoginMagnite ==
    /\ import.pc = "login" /\ import' = [import EXCEPT !.pc = "fetching"]
    /\ UNCHANGED <<listing, pages, library, imports>>
FetchMagnite ==
    /\ import.pc = "fetching" /\ import.source = "magnite"
    /\ LET read == [i \in DOMAIN MagniteAnswer |-> MagniteDeal(Shape[MagniteAnswer[i]])]
       IN  Took(Sift(read, {}, FALSE), MagniteAnswer, "saving", FALSE)
    /\ UNCHANGED <<listing, pages, library, imports>>

\* A network error, a refusal or a rate limit: the connector raises.
FetchFails ==
    /\ import.pc \in {"login", "fetching"} /\ import' = [import EXCEPT !.pc = "raised"]
    /\ UNCHANGED <<listing, pages, library, imports>>

\* The SSP's listing changes: a deal goes, or one comes at its end (external).
ListingChanges ==
    /\ import.pc = "fetching" /\ import.steady
    /\ \/ \E i \in 1 .. Len(listing) : listing' = RemoveAt(listing, i)
       \/ \E o \in Offers : listing' = Append(listing, o)
    /\ import' = [import EXCEPT !.steady = FALSE] /\ UNCHANGED <<pages, library, imports>>

\* _resolve_columns: no column without a known header.
ResolveColumns(text) == {c \in {"column"} : text.known}
\* _ingest_rows: blank lines do not count.
IngestRows(text) ==
    LET lines  == Picked(text.lines, {i \in DOMAIN text.lines : text.lines[i] # Blank})
        sifted == Sift([i \in DOMAIN lines |-> ParseRow(Shape[lines[i]])], {}, TRUE)
    IN  [Begun("csv", "saving") EXCEPT !.total = Len(lines), !.got = sifted.got,
            !.failed = sifted.failed, !.skipped = sifted.skipped]
\* parse_csv_string.
ParseCsv(text) ==
    IF ResolveColumns(text) = {} THEN Begun("csv", "saving") ELSE IngestRows(text)
\* import_deals_csv: the whole text is parsed before anything is saved.
ImportDealsCsv == \E text \in Texts : Begin(ParseCsv(text))

\* create_deal_manual: an entry that does not validate is refused before any write.
CreateDealManual ==
    \E o \in Offers :
        LET deal == ManualDeal(Shape[o]) IN
        Begin(IF deal = {} THEN Refused
              ELSE [Begun("manual", "saving") EXCEPT !.total = 1, !.got = SetToSeq(deal)])

--------------------------------------------------------------------------------
(* Saving.                                                                 *)

Row(n, described) == [import |-> imports, nth |-> n, deal |-> import.got[n],
                      described |-> described]

\* save_deal, for the next deal.
SaveDeal ==
    /\ import.pc = "saving" /\ import.saved < Len(import.got)
    /\ library' = library \cup {Row(import.saved + 1, FALSE)}
    /\ import' = [import EXCEPT !.pc = "describing", !.saved = @ + 1]
    /\ UNCHANGED <<listing, pages, imports>>

\* save_portfolio_metadata, for the deal just saved.
\* Mutant: the loop goes on without it.
DescribeNothing ==
    /\ import.pc = "describing" /\ import' = [import EXCEPT !.pc = "saving"]
    /\ UNCHANGED <<listing, pages, library, imports>>
SavePortfolioMetadata ==
    /\ import.pc = "describing"
    /\ library' = (library \ {Row(import.saved, FALSE)}) \cup {Row(import.saved, TRUE)}
    /\ import' = [import EXCEPT !.pc = "saving"]
    /\ UNCHANGED <<listing, pages, imports>>

\* The database refuses a write, or the process dies: what is written stays.
SaveFails ==
    /\ import.pc \in {"saving", "describing"}
    /\ import' = [import EXCEPT !.pc = "raised"]
    /\ UNCHANGED <<listing, pages, library, imports>>

\* The summary: successful, failed and skipped rows, and the ids saved.
Summarise ==
    /\ import.pc = "saving" /\ import.saved = Len(import.got)
    /\ import' = [import EXCEPT !.pc = "done"]
    /\ UNCHANGED <<listing, pages, library, imports>>

LibNext ==
    \/ ImportDealsSsp \/ FetchIndex \/ FetchPubMatic \/ LoginMagnite \/ FetchMagnite
    \/ FetchFails \/ ListingChanges \/ ImportDealsCsv \/ CreateDealManual
    \/ SaveDeal \/ SavePortfolioMetadata \/ SaveFails \/ Summarise

LibSpec == LibInit /\ [][LibNext]_libVars

--------------------------------------------------------------------------------
(* Views: the portfolio tools.                                             *)

\* DealStore.list_deals: newest first, up to a limit.
StoreList(status, limit) ==
    LET hits == {row \in library : status = {} \/ row.deal.status \in status}
        seq  == InOrder(hits, LAMBDA r, s : r.import > s.import
                                  \/ (r.import = s.import /\ r.nth > s.nth))
    IN  SubSeq(seq, 1, IF Len(seq) < limit THEN Len(seq) ELSE limit)
Everything == StoreList({}, Cardinality(library))

\* ListPortfolioTool: a page out of the rows that it fetched.
ListPortfolio(status, limit, offset) ==
    LET fetched == StoreList(status, limit + offset + OverFetch)
    IN  SubSeq(fetched, offset + 1, IF Len(fetched) < offset + limit THEN Len(fetched)
                                    ELSE offset + limit)
\* The MCP tool list_deals.
ListDeals(status, limit) == [total |-> Len(StoreList(status, limit)),
                             deals |-> StoreList(status, limit)]

\* inspect_deal: the metadata may be missing.
InspectDeal(row) == [deal |-> row.deal, metadata |-> row.described]

Tally(column) ==
    [v \in {row.deal[column] : row \in library} |->
        Cardinality({row \in library : row.deal[column] = v})]
Expiring(statuses) == {row \in library : row.deal.status \in statuses /\ row.deal.ends}
\* PortfolioSummaryTool and the MCP tool get_portfolio_summary, which differ in the
\* statuses whose deals they list as expiring.
PortfolioSummaryTool ==
    [total |-> Len(Everything), byStatus |-> Tally("status"),
     byType |-> Tally("type"),
     valued |-> Cardinality({row \in library : row.deal.valued}),
     expiring |-> Expiring({"active", "draft"})]
PortfolioSummary ==
    [total |-> Len(Everything), byStatus |-> Tally("status"),
     byType |-> Tally("type"),
     valued |-> Cardinality({row \in library : row.deal.valued}),
     expiring |-> Expiring({"active", "draft", "imported"})]

--------------------------------------------------------------------------------
(* Properties.                                                             *)

\* Type invariant of the library.
LibTypeOK ==
    /\ listing \in Seq(Offers) /\ pages \in BOOLEAN /\ imports \in 0 .. MaxImports
    /\ import = NoImport \/
         /\ import.pc \in {"login", "fetching", "saving", "describing", "done", "raised"}
         /\ import.source \in Sources \cup {"csv", "manual", "none"}
         /\ import.page \in 0 .. MaxPages /\ import.saved \in 0 .. Len(import.got)
    /\ \A row \in library :
         /\ row.import \in 1 .. MaxImports /\ row.described \in BOOLEAN
         /\ row.deal.type \in {"pg", "pd", "pa"}
         /\ row.deal.status \in {"active", "paused", "imported"}

\* A fetch from a listing that held still, over an API that heeds the page number, and
\* that does not report that it stopped paging, ends with every readable deal that matches
\* the filter, and with each once: the page boundaries neither drop a deal nor repeat one.
\* (Magnite's answer is taken as it is, the filter and the repetitions left aside.)
FetchIsComplete ==
    import.pc \in {"saving", "describing", "done"} /\ import.source \in Sources
      /\ import.steady /\ pages /\ ~import.stopped =>
        LET Deal(o) == CASE import.source = "magnite" -> MagniteDeal(Shape[o])
                         [] import.source = "pubmatic" -> PubMaticDeal(Shape[o])
                         [] OTHER -> IndexDeal(Shape[o])
            asked == {o \in ToSet(import.listed) :
                        import.source = "magnite" \/ import.filter \in {"all", Shape[o].status}}
        IN  /\ Seen = {d.id : d \in UNION {Deal(o) : o \in asked}}
            /\ import.source # "magnite" => Len(import.got) = Cardinality(Seen)

\* An import that returned has saved what it says: its counts add up to what it was
\* given, and each deal counted as successful is in the library with its metadata.  A
\* deal without metadata, which inspect_deal shows, is what an import that was cut
\* short, or is at it, left behind, and it leaves one at most.
ImportIsWhole ==
    /\ import.pc = "done" =>
         /\ import.total = Len(import.got) + import.failed + import.skipped
         /\ \A n \in 1 .. Len(import.got) : Row(n, TRUE) \in library
    /\ \A row \in library : ~InspectDeal(row).metadata =>
         (row.import = imports => import.pc \in {"describing", "raised"})
    /\ Cardinality({row \in library : ~InspectDeal(row).metadata}) <= imports
    /\ \A r1, r2 \in library : r1.import = r2.import /\ r1.nth = r2.nth => r1 = r2

\* The pages of list_portfolio partition the library, newest first: turning the pages
\* shows every deal once.  And the two summaries agree, but for imported deals about to
\* end, which the tool leaves out.
PagesShowAll ==
    /\ \A limit \in 1 .. PageSize :
         FlattenSeq([p \in 1 .. Cardinality(library) + 1 |->
                       ListPortfolio({}, limit, (p - 1) * limit)]) = Everything
    /\ Len(Everything) = Cardinality(library) /\ ToSet(Everything) = library
    /\ ListDeals({}, Cardinality(library)).total = PortfolioSummary.total
    /\ PortfolioSummaryTool.byStatus = PortfolioSummary.byStatus
    /\ \A row \in PortfolioSummary.expiring \ PortfolioSummaryTool.expiring :
         row.deal.status = "imported"

\* The deal library's guide: an import from an SSP deduplicates by seller deal id.
DeduplicatedImport ==
    import.pc = "done" /\ import.source \in Sources => Len(import.got) = Cardinality(Seen)
================================================================================
