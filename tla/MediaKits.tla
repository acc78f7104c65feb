------------------------------- MODULE MediaKits -------------------------------
(***************************************************************************)
(* MediaKitClient and the discovery tools built on it: one buyer asks      *)
(* several sellers for their packages, one after the other (a comparison)  *)
(* or all at once (an aggregate), and some of them fail.                   *)
(*                                                                         *)
(* A package is a name; what its seller sends of it is its summary, or     *)
(* with an API key its detail.                                             *)
(***************************************************************************)
EXTENDS Integers, Sequences, SequencesExt

CONSTANTS
    KitSellers,     \* seller URLs
    Packages,       \* [seller -> the sequence of packages it offers]
    StatedTotals,   \* total_packages values that sellers state; Unstated: none
    Unstated,
    MaxAsked        \* bound: URLs in one enquiry

ASSUME KitAssumption == MaxAsked \in Nat /\ Unstated \notin Nat /\ StatedTotals \subseteq Nat

VARIABLES
    enquiry,    \* the call: what it asks for, the URLs and whether there is a key
    answers,    \* by position in the URLs, what has come back
    kitReport   \* what the caller is told

kitVars == <<enquiry, answers, kitReport>>

\* How a request ends: a good answer, HTTP 400 or above, no connection or a timeout, a
\* connection that breaks later, a body that is no JSON object.
Endings == {"well", "refused", "unreachable", "broken", "garbled"}
\* Those of them that the client turns into a MediaKitError.
MediaKitErrors == {"refused", "unreachable"}
Waiting == [ending |-> "waiting", packages |-> <<>>, total |-> Unstated, detail |-> FALSE]
NothingAsked == [how |-> "nothing", urls |-> <<>>, key |-> FALSE]
NoKitReport == [kind |-> "none", entries |-> <<>>, total |-> 0]

KitInit == enquiry = NothingAsked /\ answers = <<>> /\ kitReport = NoKitReport

Enquire(how, urls) ==
    /\ enquiry = NothingAsked
    /\ \E key \in BOOLEAN : enquiry' = [how |-> how, urls |-> urls, key |-> key]
    /\ answers' = [i \in DOMAIN urls |-> Waiting]
    /\ UNCHANGED kitReport

GetMediaKit == \E s \in KitSellers : Enquire("kit", <<s>>)
ListPackages == \E s \in KitSellers : Enquire("list", <<s>>)
GetPackage == \E s \in KitSellers : Enquire("package", <<s>>)
SearchPackages == \E s \in KitSellers : Enquire("search", <<s>>)
CompareSellers == \E urls \in BoundedSeq(KitSellers, MaxAsked) : Enquire("compare", urls)
\* With no URL there is no request.
AggregateAcrossSellers ==
    \E urls \in BoundedSeq(KitSellers, MaxAsked) \ {<<>>} : Enquire("aggregate", urls)

Pending == {i \in DOMAIN answers : answers[i].ending = "waiting"}
\* A comparison asks one seller at a time, the other calls all they ask at once.
Outstanding == {i \in Pending : enquiry.how = "compare" => \A j \in Pending : i <= j}

\* _parse_package_summary, of the packages that the seller sends: all of them, or for a
\* search or a filtered list some.
Summaries(s, how) == IF how \in {"kit", "compare", "aggregate"} THEN {Packages[s]}
                     ELSE {SelectSeq(Packages[s], LAMBDA p : p \in some) :
                              some \in SUBSET Range(Packages[s])}
\* _parse_package_detail: the answer for one package, when it has an exact price.
Detailed(how, key) == IF how = "package" /\ key THEN BOOLEAN ELSE {FALSE}
\* MediaKit.total_packages: as stated, or else counted.
Total(stated, packages) == IF stated = Unstated THEN Len(packages) ELSE stated

KitAnswers(i) ==
    /\ i \in Outstanding /\ kitReport = NoKitReport
    /\ \E ps \in Summaries(enquiry.urls[i], enquiry.how),
          t \in StatedTotals \cup {Unstated}, d \in Detailed(enquiry.how, enquiry.key) :
            answers' = [answers EXCEPT ![i] = [ending |-> "well", packages |-> ps,
                                               total |-> Total(t, ps), detail |-> d]]
    /\ UNCHANGED <<enquiry, kitReport>>
KitFails(i) ==
    /\ i \in Outstanding /\ kitReport = NoKitReport
    /\ \E e \in Endings \ {"well"} : answers' = [answers EXCEPT ![i].ending = e]
    /\ UNCHANGED <<enquiry, kitReport>>

\* One seller's place in a comparison: its packages, or its error.
Compared(i) == [url |-> enquiry.urls[i], reached |-> answers[i].ending = "well",
                packages |-> answers[i].packages]
\* What is gathered from one seller: a failure counts as no packages.
Fetched(i) == [url |-> enquiry.urls[i], reached |-> answers[i].ending = "well",
               packages |-> answers[i].packages]
Counted(entries) == Len(FlattenSeq([i \in DOMAIN entries |-> entries[i].packages]))
ByUrl(of(_)) == [i \in DOMAIN enquiry.urls |-> of(i)]

\* Mutant: the first seller that fails ends the comparison.
ComparedUntilFailure ==
    /\ Pending = {} /\ enquiry.how = "compare"
    /\ LET failed == {i \in DOMAIN answers : answers[i].ending # "well"}
           upTo == CHOOSE n \in 0 .. Len(answers) :
                     /\ \A i \in 1 .. n : i \notin failed
                     /\ n < Len(answers) => n + 1 \in failed
           es == SubSeq(ByUrl(Compared), 1, upTo) IN
       kitReport' = [kind |-> "compared", entries |-> es, total |-> Counted(es)]
ReportComparison ==
    /\ Pending = {} /\ enquiry.how = "compare"
    /\ LET es == ByUrl(Compared) IN
       kitReport' = [kind |-> "compared", entries |-> es, total |-> Counted(es)]

\* The failures that aggregate_across_sellers does not catch end it at once.
Escaped == {i \in DOMAIN answers : answers[i].ending \notin MediaKitErrors \cup {"well", "waiting"}}
ReportAggregate ==
    /\ enquiry.how = "aggregate" /\ Pending = {} /\ Escaped = {}
    /\ LET es == ByUrl(Fetched) IN
       kitReport' = [kind |-> "aggregate", entries |-> es, total |-> Counted(es)]
AggregateRaises ==
    /\ enquiry.how = "aggregate" /\ Escaped # {}
    /\ kitReport' = [NoKitReport EXCEPT !.kind = "raised"]

\* get_seller_media_kit reports an error of any kind; the client's own calls raise it.
ReportKit ==
    /\ enquiry.how = "kit" /\ Pending = {}
    /\ kitReport' = IF answers[1].ending = "well"
                    THEN [kind |-> "kit", entries |-> ByUrl(Compared), total |-> answers[1].total]
                    ELSE [NoKitReport EXCEPT !.kind = "error"]
ReportPackages ==
    /\ enquiry.how \in {"list", "package", "search"} /\ Pending = {}
    /\ kitReport' = IF answers[1].ending = "well"
                    THEN [kind |-> "packages", entries |-> ByUrl(Compared),
                          total |-> Counted(ByUrl(Compared))]
                    ELSE [NoKitReport EXCEPT !.kind = "raised"]

KitReturns ==
    /\ kitReport = NoKitReport
    /\ ReportComparison \/ ReportAggregate \/ AggregateRaises \/ ReportKit \/ ReportPackages
    /\ UNCHANGED <<enquiry, answers>>

KitNext ==
    \/ GetMediaKit \/ ListPackages \/ GetPackage \/ SearchPackages
    \/ CompareSellers \/ AggregateAcrossSellers
    \/ \E i \in Outstanding : KitAnswers(i) \/ KitFails(i)
    \/ KitReturns

KitSpec == KitInit /\ [][KitNext]_kitVars

--------------------------------------------------------------------------------
(* Properties.                                                             *)

\* Type invariant of the media-kit calls.
KitTypeOK ==
    /\ enquiry.how \in {"nothing", "kit", "list", "package", "search", "compare", "aggregate"}
    /\ DOMAIN answers = DOMAIN enquiry.urls
    /\ \A i \in DOMAIN answers : answers[i].ending \in Endings \cup {"waiting"}
    /\ kitReport.kind \in {"none", "kit", "packages", "compared", "aggregate", "raised", "error"}

\* A comparison and an aggregate have an entry for every URL asked, in the order asked,
\* with the packages of exactly those sellers that answered, whatever became of the
\* others and in whatever order the answers came; and the total is their number.
SellersAreIsolated ==
    kitReport.kind \in {"compared", "aggregate"} =>
        /\ Len(kitReport.entries) = Len(enquiry.urls)
        /\ \A i \in DOMAIN enquiry.urls :
             LET e == kitReport.entries[i] IN
             /\ e.url = enquiry.urls[i] /\ e.reached = (answers[i].ending = "well")
             /\ e.packages = IF e.reached THEN Packages[e.url] ELSE <<>>
        /\ kitReport.total = Len(FlattenSeq([i \in DOMAIN answers |-> answers[i].packages]))

\* aggregate_across_sellers' docstring: sellers that fail are silently skipped.
FailuresAreSkipped == enquiry.how = "aggregate" => kitReport.kind # "raised"

\* A single kit's total is the number of packages in it.
KitTotalIsCounted == kitReport.kind = "kit" => kitReport.total = Counted(kitReport.entries)
================================================================================
