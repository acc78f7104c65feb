-------------------------------- MODULE SgpGate --------------------------------
(***************************************************************************)
(* The vendor-approval gate of the deal tools: SGPClient.check_approvals   *)
(* with its per-domain cache, its batches and its retries, and the two     *)
(* tools that share one client, RequestDealTool (which issues a deal ID or *)
(* refuses) and DiscoverInventoryTool (which lists the products left).     *)
(*                                                                         *)
(* Abstractions.  A text that may name a seller is a model value, Host is  *)
(* what urlparse finds in it.  A record is its verdict.  A backoff sleep   *)
(* takes any time; an attempt that is not over after Latency raises, as    *)
(* httpx does.  The price of a deal is in PricingDesk.                     *)
(***************************************************************************)
EXTENDS Integers, FiniteSets

CONSTANTS
    Domains,        \* normalized seller domains
    Host,           \* the domain in each text, or NoDomain
    Dotted,         \* the texts that hold a dot
    Products,       \* what each product says: [readable, domain, publisher]
    NoDomain,       \* no text, or no domain in it
    Tools,          \* the tools that share one SGPClient
    Setup,          \* what each tool is, how it was built and the product lists it meets
    ApprovalTTL,    \* cache_ttl_seconds
    Latency,        \* bound: ticks between a request and its answer (timeout)
    Batch,          \* _MAX_BATCH
    MaxRetries,     \* max_retries
    SgpHorizon      \* bound: the clock's last tick

Spelled == DOMAIN Host

ASSUME SgpAssumption ==
    /\ {ApprovalTTL, MaxRetries, Latency, SgpHorizon} \subseteq Nat
    /\ Batch \in Nat \ {0} /\ NoDomain \notin Domains \cup Spelled /\ IsFiniteSet(Domains)
    /\ Host \in [Spelled -> Domains \cup {NoDomain}] /\ Dotted \subseteq Spelled
    /\ \A p \in DOMAIN Products : Products[p] \in
         [readable : BOOLEAN, domain : Spelled \cup {NoDomain}, publisher : Spelled \cup {NoDomain}]
    /\ Setup \in [Tools -> [kind : {"request", "discover"}, enforce : BOOLEAN,
                           policy : {"allow", "warn", "block"},
                           lists : SUBSET ((SUBSET DOMAIN Products) \ {{}})]]

Verdicts == {"approved", "refused", "unknown"}
Never == -1

VARIABLES
    sgpClock,   \* time.monotonic()
    approvals,  \* _cache: the stamp and the answer kept for each domain
    check       \* the call under way of each tool

sgpVars == <<sgpClock, approvals, check>>

\* An answer of the platform: the verdict, and when it was given (history).
NoAnswer  == [verdict |-> "unknown", given |-> Never]
NoEntry   == [at |-> Never, answer |-> NoAnswer]
NoCheck   == [pc |-> "idle"]

SgpInit ==
    /\ sgpClock = 0
    /\ approvals = [d \in Domains |-> NoEntry]
    /\ check = [c \in Tools |-> NoCheck]

\* The answers of f, and those of g that f does not have.
Over(f, g) == [d \in DOMAIN f \cup DOMAIN g |-> IF d \in DOMAIN f THEN f[d] ELSE g[d]]

Put(c, r) == check' = [check EXCEPT ![c] = r] /\ UNCHANGED sgpClock

--------------------------------------------------------------------------------
(* SGPClient.                                                              *)

\* extract_product_domain: the domain fields first, then a publisher that looks like
\* a domain.
ExtractProductDomain(p) ==
    LET said == Products[p] IN
    CASE ~said.readable           -> NoDomain
      [] said.domain # NoDomain   -> said.domain
      [] said.publisher \in Dotted -> said.publisher
      [] OTHER                    -> NoDomain

\* normalize_domain: several spellings name one domain, some none.
NormalizeDomain(text) == IF text \in Spelled THEN Host[text] ELSE NoDomain

Seller(p) == NormalizeDomain(ExtractProductDomain(p))

\* Mutant: an entry of exactly the cache's age is served.
HitAtTTL(e) == e.at # Never /\ sgpClock - e.at <= ApprovalTTL
Hit(e) == e.at # Never /\ sgpClock - e.at < ApprovalTTL

\* check_approvals on the sellers of some products: the cache answers what it can, as
\* of the beginning of the call, and the rest is fetched.
CheckApprovals(c, ps, asked) ==
    LET ds   == {Seller(p) : p \in asked} \ {NoDomain}
        hits == {d \in ds : Hit(approvals[d])}
    IN  Put(c, [pc |-> IF ds = hits THEN "checked" ELSE "fetch", products |-> ps,
                want |-> ds \ hits, chunk |-> {}, attempt |-> 0, due |-> 0,
                found |-> [d \in hits |-> approvals[d].answer]])

\* Mutant: all the missing domains go into one request.
AllAtOnce(want) == {want} \ {{}}
\* What the next request may be about: _MAX_BATCH of the missing domains, or the rest.
Chunks(want) ==
    {chunk \in (SUBSET want) \ {{}} :
        Cardinality(chunk) = Batch \/ (Cardinality(chunk) < Batch /\ chunk = want)}

\* _fetch_chunk: the next domains that were not in the cache are requested.
FetchChunk(c) ==
    /\ check[c].pc = "fetch"
    /\ \E chunk \in Chunks(check[c].want) :
         Put(c, [check[c] EXCEPT !.pc = "sent", !.chunk = chunk, !.attempt = 1,
                                 !.due = sgpClock + Latency])
    /\ UNCHANGED approvals

\* The platform, whose verdicts change at any time, answers (external).
PortalAnswers(c) ==
    /\ check[c].pc = "sent"
    /\ \E a \in [check[c].chunk -> [verdict : Verdicts, given : {sgpClock}]] :
         Put(c, [check[c] EXCEPT !.pc = "answered", !.found = Over(@, a)])
    /\ UNCHANGED approvals

\* A transport error or one of the retryable statuses: the chunk is sent again after
\* a pause, max_retries times.
RetryChunk(c) ==
    /\ check[c].pc \in {"sent", "answered"} /\ check[c].attempt <= MaxRetries
    /\ Put(c, [check[c] EXCEPT !.pc = "backoff", !.attempt = @ + 1, !.due = 0,
                               !.found = [d \in DOMAIN @ \ check[c].chunk |-> @[d]]])
    /\ UNCHANGED approvals

\* _backoff ends.
Backoff(c) ==
    /\ check[c].pc = "backoff"
    /\ Put(c, [check[c] EXCEPT !.pc = "sent", !.due = sgpClock + Latency])
    /\ UNCHANGED approvals

\* _parse_chunk_response: a 404, or a domain that the answer leaves out or does not
\* resolve, is an unknown vendor; another error, or an answer that cannot be read,
\* raises.
ParseChunkResponse(answered) ==
    {answered, [d \in DOMAIN answered |-> [answered[d] EXCEPT !.verdict = "unknown"]]}

\* The answer arrives: its stamp is the time of arrival, unknown vendors are cached
\* as well, and it replaces what an overlapping call may have stored since.
ReceiveChunk(c) ==
    LET k == check[c]  rest == k.want \ k.chunk IN
    /\ k.pc = "answered"
    /\ \E parsed \in ParseChunkResponse([d \in k.chunk |-> k.found[d]]) :
         /\ approvals' = [d \in Domains |-> IF d \in k.chunk
                                            THEN [at |-> sgpClock, answer |-> parsed[d]]
                                            ELSE approvals[d]]
         /\ Put(c, [k EXCEPT !.pc = IF rest = {} THEN "checked" ELSE "fetch",
                             !.want = rest, !.chunk = {}, !.attempt = 0, !.due = 0,
                             !.found = Over(parsed, @)])

\* The last attempt failed, or the answer raised: so does check_approvals.  Chunks
\* received before stay in the cache.
LookupFails(c) ==
    /\ check[c].pc \in {"sent", "answered"} 
    /\ Put(c, [check[c] EXCEPT !.pc = "failed", !.want = {}, !.chunk = {}, !.attempt = 0,
                               !.due = 0, !.found = <<>>])
    /\ UNCHANGED approvals

--------------------------------------------------------------------------------
(* The tools.                                                              *)

Record(c, p) ==
    LET found == check[c].found IN
    IF Seller(p) \in DOMAIN found THEN found[Seller(p)] ELSE NoAnswer

\* _check_sgp_approval: does the gate let a deal on p through?
CheckSgpApproval(c, p) ==
    \/ ~Setup[c].enforce
    \/ /\ ExtractProductDomain(p) # NoDomain
       /\ \/ Record(c, p).verdict = "approved"
          \/ Record(c, p).verdict = "unknown" /\ Setup[c].policy \in {"allow", "warn"}

\* RequestDealTool._arun: a tool that does not enforce asks nobody, nor does one that
\* finds no domain.
RequestDealTool(c) ==
    /\ Setup[c].kind = "request" /\ check[c] = NoCheck
    /\ \E ps \in Setup[c].lists : \E p \in ps :
         CheckApprovals(c, {p}, IF Setup[c].enforce THEN {p} ELSE {})
    /\ UNCHANGED approvals

\* DiscoverInventoryTool._arun and _fetch_approvals.
DiscoverInventoryTool(c) ==
    /\ Setup[c].kind = "discover" /\ check[c] = NoCheck
    /\ \E ps \in Setup[c].lists :
         CheckApprovals(c, ps, {p \in ps : ExtractProductDomain(p) # NoDomain})
    /\ UNCHANGED approvals

\* _fetch_approvals: after a failed lookup a listing that does not enforce goes on
\* with no approvals; one that does raises, and lists nothing.
FetchApprovals(c) == IF Setup[c].enforce THEN {} ELSE check[c].products

\* _apply_enforcement: what is filtered out, and why.
ApplyEnforcement(c, p) ==
    CASE ~Setup[c].enforce                                          -> "listed"
      [] ~Products[p].readable                                      -> "unverifiable_blocked"
      [] ExtractProductDomain(p) = NoDomain                         -> "no_domain_blocked"
      [] Record(c, p).verdict = "unknown" /\ Setup[c].policy = "block" -> "unknown_blocked"
      [] Record(c, p).verdict = "refused"                           -> "not_approved"
      [] OTHER                                                      -> "listed"

\* _approval_line: what the listing says of p.
ApprovalLine(c, p) ==
    CASE DOMAIN check[c].found = {} \/ ~Products[p].readable        -> "none"
      [] ExtractProductDomain(p) = NoDomain                         -> "unknown"
      [] Record(c, p).verdict # "unknown"                           -> Record(c, p).verdict
      [] Setup[c].enforce /\ Setup[c].policy = "allow"              -> "none"
      [] Setup[c].enforce /\ Setup[c].policy = "warn"               -> "warning"
      [] OTHER                                                      -> "unknown"

\* _format_results: the products left, each with its line, and how many were filtered.
FormatResults(c, left) ==
    [lines |-> [p \in left |-> ApprovalLine(c, p)],
     summary |-> Cardinality(check[c].products \ left)]

\* The verdict: deals are issued, or products listed, for what passes; basis is the
\* answer that each deal rests on (history).
Conclude(c) ==
    /\ check[c].pc = "checked"
    /\ LET request == Setup[c].kind = "request"
           out == {p \in check[c].products : IF request THEN CheckSgpApproval(c, p)
                                             ELSE ApplyEnforcement(c, p) = "listed"}
       IN  Put(c, [pc |-> "done", out |-> out, at |-> sgpClock,
                   basis |-> [p \in IF request THEN out ELSE {} |-> Record(c, p)],
                   told |-> IF request THEN FormatResults(c, {}) ELSE FormatResults(c, out)])
    /\ UNCHANGED approvals

\* The lookup raised: a request is refused, and FetchApprovals says what is listed.
ConcludeFailed(c) ==
    /\ check[c].pc = "failed"
    /\ Put(c, [pc |-> "done", at |-> sgpClock, basis |-> [p \in {} |-> NoAnswer],
               out |-> FetchApprovals(c),
               told |-> [lines |-> [p \in FetchApprovals(c) |-> "none"], summary |-> 0]])
    /\ UNCHANGED approvals

ReturnFromGate(c) == check[c].pc = "done" /\ Put(c, NoCheck) /\ UNCHANGED approvals

--------------------------------------------------------------------------------
\* Time passes.  Nothing is awaited between the last answer and the verdict.
SgpTick ==
    /\ sgpClock < SgpHorizon
    /\ \A c \in Tools : /\ check[c].pc # "checked"
                        /\ check[c].pc \in {"sent", "answered"} => sgpClock < check[c].due
    /\ sgpClock' = sgpClock + 1
    /\ UNCHANGED <<approvals, check>>

SgpNext ==
    \/ SgpTick
    \/ \E c \in Tools :
         \/ RequestDealTool(c) \/ DiscoverInventoryTool(c)
         \/ FetchChunk(c) \/ PortalAnswers(c) \/ RetryChunk(c) \/ Backoff(c) \/ ReceiveChunk(c)
         \/ LookupFails(c) \/ Conclude(c) \/ ConcludeFailed(c) \/ ReturnFromGate(c)

SgpSpec == SgpInit /\ [][SgpNext]_sgpVars
--------------------------------------------------------------------------------
(* Properties.                                                             *)

KnownTime == Never .. SgpHorizon
KnownAnswer == [verdict : Verdicts, given : KnownTime]

\* Type invariant of the gate.
SgpTypeOK ==
    /\ sgpClock \in 0 .. SgpHorizon
    /\ approvals \in [Domains -> [at : KnownTime, answer : KnownAnswer]]
    /\ \A c \in Tools : LET k == check[c] IN
         \/ k = NoCheck
         \/ /\ k.pc = "done" /\ k.at \in 0 .. SgpHorizon
            /\ DOMAIN k.basis \subseteq k.out /\ k.out \subseteq DOMAIN Products
         \/ /\ k.pc \in {"fetch", "sent", "answered", "backoff", "checked", "failed"}
            /\ k.chunk \subseteq k.want /\ k.want \subseteq Domains
            /\ Cardinality(k.chunk) <= Batch
            /\ k.attempt \in 0 .. MaxRetries + 1
            /\ \A d \in DOMAIN k.found : k.found[d] \in KnownAnswer

Admits(policy) == {"approved"} \cup IF policy = "block" THEN {} ELSE {"unknown"}

\* An answer was given at most one answer's delay before a time, or less than a cache
\* lifetime more.
Recent(answer, time) ==
    /\ answer.given # Never
    /\ \/ time - answer.given <= Latency
       \/ time - answer.given < ApprovalTTL + Latency

\* A deal that an enforcing tool issues rests on an answer that its policy lets
\* through and, when the product's seller can be looked up, that the platform gave no
\* longer ago than a cache lifetime and one answer's delay, whatever overlapping calls did to
\* the cache in between.
DealRestsOnApproval ==
    \A c \in Tools : LET k == check[c] IN
        k.pc = "done" /\ Setup[c].kind = "request" /\ Setup[c].enforce =>
            \A p \in k.out :
                 /\ k.basis[p].verdict \in Admits(Setup[c].policy)
                 /\ Seller(p) # NoDomain => Recent(k.basis[p], k.at)
================================================================================
