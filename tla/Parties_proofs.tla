----------------------------- MODULE Parties_proofs -----------------------------
(***************************************************************************)
(* What holds of the buyer's dealings with other parties, for any number   *)
(* of callers, sellers, clocks and prices: first of each component, then   *)
(* of MC_Parties, in which each is a part.                                 *)
(***************************************************************************)
EXTENDS MC_Parties, FiniteData_proofs, FiniteSetTheorems, TLAPS

--------------------------------------------------------------------------------
(* SgpGate: a deal rests on a recent answer of the platform, for every     *)
(* number of tools, sellers and products, every lifetime of the cache and  *)
(* every delay of an answer.                                               *)

Asking == {"fetch", "sent", "answered", "backoff"}
Working == Asking \cup {"checked", "failed"}

\* An answer was given by now, and no longer ago than one delay before a time.
GivenBy(answer, time) ==
    answer.given \in Nat /\ answer.given <= sgpClock /\ time - answer.given <= Latency

\* What is kept in the cache was given no longer than one answer's delay before its stamp.
EntriesAreTrue ==
    \A d \in Domains : approvals[d].at # Never =>
        /\ approvals[d].at \in Nat /\ approvals[d].at <= sgpClock
        /\ GivenBy(approvals[d].answer, approvals[d].at)

\* A call has the fields that CheckApprovals gave it.
Fields == {"pc", "products", "want", "chunk", "attempt", "due", "found"}
HasFields(k) == k = [f \in Fields |-> k[f]]

\* A request under way is not overdue, it is about sellers that are not yet found, and an
\* answer on its way was given after it was sent.
RequestIsTimely(k) ==
    /\ k.pc \in Working => HasFields(k)
    /\ k.pc \in Asking => k.chunk \subseteq k.want /\ k.want \subseteq Domains
    /\ k.pc \in {"sent", "answered"} =>
         k.due \in Nat /\ sgpClock <= k.due /\ k.due <= sgpClock + Latency
    /\ k.pc = "answered" =>
         /\ k.want \cap DOMAIN k.found = k.chunk
         /\ \A d \in k.chunk : GivenBy(k.found[d], k.due)
    /\ k.pc \in {"fetch", "sent", "backoff"} => k.want \cap DOMAIN k.found = {}

\* The sellers that a request for a deal on p looks up.
Sought(c, p) == IF Setup[c].enforce THEN {Seller(p)} \ {NoDomain} ELSE {}

\* A request for a deal is about one product, so its cache hits are not kept over a wait:
\* it asks for its one seller or has found it.
OneSeller(c) ==
    LET k == check[c] IN
    Setup[c].kind = "request" /\ k.pc \in Working =>
        \E p \in DOMAIN Products :
            /\ k.products = {p}
            /\ k.pc \in Asking => k.want = Sought(c, p)
            /\ k.pc \in {"sent", "answered", "backoff"} => k.chunk = k.want
            /\ k.pc \in {"fetch", "sent", "backoff"} => DOMAIN k.found = {}
            /\ k.pc = "answered" => DOMAIN k.found = k.chunk
            /\ k.pc = "checked" => /\ DOMAIN k.found = Sought(c, p)
                                   /\ \A d \in DOMAIN k.found : Recent(k.found[d], sgpClock)

GateInv ==
    /\ sgpClock \in Nat
    /\ DOMAIN approvals = Domains
    /\ check = [c \in Tools |-> check[c]]
    /\ \A c \in Tools : /\ check[c].pc \in Working \cup {"idle", "done"}
                        /\ RequestIsTimely(check[c]) /\ OneSeller(c)
    /\ EntriesAreTrue /\ DealRestsOnApproval

--------------------------------------------------------------------------------
\* Every seller is one of the domains, or none.
LEMMA SellersAreDomains == \A p : Seller(p) \in Domains \cup {NoDomain}
  BY SgpAssumption DEF Seller, NormalizeDomain, Spelled

\* The initial states: nothing cached, nobody waiting.
LEMMA GateInit == SgpInit => GateInv
<1> SUFFICES ASSUME SgpInit PROVE GateInv
  OBVIOUS
<1>. USE DEF SgpInit
<1>1. \A c \in Tools : check[c].pc = "idle"
  BY DEF NoCheck
<1>2. \A c \in Tools : RequestIsTimely(check[c]) /\ OneSeller(c)
  BY <1>1 DEF RequestIsTimely, OneSeller, Asking, Working
<1>3. EntriesAreTrue
  BY DEF EntriesAreTrue, NoEntry
<1>4. DealRestsOnApproval
  BY <1>1 DEF DealRestsOnApproval
<1>. QED
  BY <1>1, <1>2, <1>3, <1>4 DEF GateInv

\* A step of one tool that leaves the clock alone keeps the invariant if its own call and
\* the cache do.
LEMMA OneToolMoves ==
  ASSUME GateInv, NEW c \in Tools, NEW r, Put(c, r),
         DOMAIN approvals' = Domains, EntriesAreTrue',
         r.pc \in Working \cup {"idle", "done"}, RequestIsTimely(r), OneSeller(c)',
         r.pc = "done" /\ Setup[c].kind = "request" /\ Setup[c].enforce =>
            \A p \in r.out : /\ r.basis[p].verdict \in Admits(Setup[c].policy)
                             /\ Seller(p) # NoDomain => Recent(r.basis[p], r.at)
  PROVE  GateInv'
<1>1. /\ check'[c] = r /\ sgpClock' = sgpClock
      /\ \A b \in Tools : b # c => check'[b] = check[b]
      /\ check' = [b \in Tools |-> check'[b]]
  BY DEF GateInv, Put
<1>2. \A b \in Tools : /\ check'[b].pc \in Working \cup {"idle", "done"}
                       /\ RequestIsTimely(check[b])' /\ OneSeller(b)'
  <2>1. ASSUME NEW b \in Tools, b # c
        PROVE  /\ check'[b].pc \in Working \cup {"idle", "done"}
               /\ RequestIsTimely(check[b])' /\ OneSeller(b)'
    BY <1>1, <2>1 DEF GateInv, RequestIsTimely, OneSeller, GivenBy
  <2>2. check'[c].pc \in Working \cup {"idle", "done"} /\ RequestIsTimely(check[c])'
    BY <1>1 DEF RequestIsTimely, GivenBy
  <2>. QED
    BY <2>1, <2>2
<1>3. DealRestsOnApproval'
  BY <1>1 DEF GateInv, DealRestsOnApproval
<1>. QED
  BY <1>1, <1>2, <1>3 DEF GateInv

\* The lookup begins: what the cache answers is recent, and the rest is asked for.
LEMMA LookupBegins ==
  ASSUME GateInv, NEW c \in Tools, NEW ps, NEW wanted \in SUBSET DOMAIN Products,
         CheckApprovals(c, ps, wanted), UNCHANGED approvals,
         Setup[c].kind = "request" => \E p \in DOMAIN Products :
            ps = {p} /\ wanted = IF Setup[c].enforce THEN {p} ELSE {}
  PROVE  GateInv'
<1> DEFINE ds   == {Seller(p) : p \in wanted} \ {NoDomain}
           hits == {d \in ds : Hit(approvals[d])}
           r    == [pc |-> IF ds = hits THEN "checked" ELSE "fetch", products |-> ps,
                    want |-> ds \ hits, chunk |-> {}, attempt |-> 0, due |-> 0,
                    found |-> [d \in hits |-> approvals[d].answer]]
<1>1. Put(c, r) /\ approvals' = approvals /\ sgpClock' = sgpClock /\ check'[c] = r
  BY DEF CheckApprovals, GateInv, Put
<1>2. ds \subseteq Domains
  BY SellersAreDomains
<1>3. RequestIsTimely(r)
  <2>1. HasFields(r)
    BY DEF HasFields, Fields
  <2>. QED
    BY <1>2, <2>1 DEF RequestIsTimely, Asking
<1>4. EntriesAreTrue'
  BY <1>1 DEF GateInv, EntriesAreTrue, GivenBy
<1>5. ASSUME NEW d \in hits PROVE Recent(approvals[d].answer, sgpClock)
  <2>1. /\ approvals[d].at \in Nat /\ sgpClock - approvals[d].at < ApprovalTTL
        /\ approvals[d].answer.given \in Nat
        /\ approvals[d].at - approvals[d].answer.given <= Latency
    BY <1>2, <1>5 DEF Hit, GateInv, EntriesAreTrue, GivenBy
  <2>. QED
    BY <2>1, SgpAssumption DEF Recent, Never, GateInv
<1>6. ASSUME Setup[c].kind = "request" PROVE OneSeller(c)'
  <2>1. PICK p \in DOMAIN Products : ps = {p} /\ wanted = IF Setup[c].enforce THEN {p} ELSE {}
    BY <1>6
  <2>2. ds = Sought(c, p)
    BY <2>1 DEF Sought
  <2>3. hits = {} \/ hits = ds
    BY <2>2 DEF Sought
  <2>. HIDE DEF ds, hits
  <2>4. /\ r.products = {p}
        /\ r.pc = "fetch" => r.want = Sought(c, p) /\ DOMAIN r.found = {}
        /\ r.pc = "checked" => DOMAIN r.found = Sought(c, p)
        /\ r.pc \in {"fetch", "checked"}
        /\ DOMAIN r.found = hits /\ \A d \in hits : r.found[d] = approvals[d].answer
    BY <2>1, <2>2, <2>3
  <2>. QED
    BY <1>1, <1>5, <2>4 DEF OneSeller, Asking, Working, Sought
<1>7. OneSeller(c)'
  BY <1>6 DEF OneSeller
<1>8. r.pc \in Working
  BY DEF Working, Asking
<1>9. r.pc # "done" /\ DOMAIN approvals' = Domains
  BY <1>1 DEF GateInv
<1>. HIDE DEF r
<1>. QED
  BY <1>1, <1>3, <1>4, <1>7, <1>8, <1>9, OneToolMoves
\* A chunk is sent: for a request it is all there is.
LEMMA SendKeeps ==
  ASSUME GateInv, NEW c \in Tools, FetchChunk(c) \/ Backoff(c)
  PROVE  GateInv'
<1> DEFINE k == check[c]
<1>1. PICK r : /\ Put(c, r) /\ k.pc \in {"fetch", "backoff"}
               /\ HasFields(r) /\ r.pc = "sent" /\ r.due = sgpClock + Latency
               /\ r.want = k.want /\ r.found = k.found /\ r.products = k.products
               /\ r.chunk \subseteq k.want
               /\ k.pc = "backoff" => r.chunk = k.chunk
               /\ k.pc = "fetch" => r.chunk # {}
  <2>1. CASE FetchChunk(c)
    <3>1. k.pc = "fetch" /\ HasFields(k)
      BY <2>1 DEF FetchChunk, GateInv, RequestIsTimely, Working, Asking
    <3>2. PICK chunk \in Chunks(k.want) :
            Put(c, [k EXCEPT !.pc = "sent", !.chunk = chunk, !.attempt = 1,
                             !.due = sgpClock + Latency])
      BY <2>1 DEF FetchChunk
    <3> DEFINE r == [k EXCEPT !.pc = "sent", !.chunk = chunk, !.attempt = 1,
                              !.due = sgpClock + Latency]
    <3>3. /\ HasFields(r) /\ r.pc = "sent" /\ r.due = sgpClock + Latency /\ r.chunk = chunk
          /\ r.want = k.want /\ r.found = k.found /\ r.products = k.products
      BY <3>1 DEF HasFields, Fields
    <3>4. chunk \subseteq k.want /\ chunk # {}
      BY <3>2 DEF Chunks
    <3>. HIDE DEF r
    <3>. QED
      BY <3>1, <3>2, <3>3, <3>4 DEF r
  <2>2. CASE Backoff(c)
    <3> DEFINE r == [k EXCEPT !.pc = "sent", !.due = sgpClock + Latency]
    <3>1. k.pc = "backoff" /\ HasFields(k) /\ k.chunk \subseteq k.want
      BY <2>2 DEF Backoff, GateInv, RequestIsTimely, Working, Asking
    <3>2. Put(c, r)
      BY <2>2 DEF Backoff
    <3>3. /\ HasFields(r) /\ r.pc = "sent" /\ r.due = sgpClock + Latency /\ r.chunk = k.chunk
          /\ r.want = k.want /\ r.found = k.found /\ r.products = k.products
      BY <3>1 DEF HasFields, Fields
    <3>. HIDE DEF r
    <3>. QED
      BY <3>1, <3>2, <3>3
  <2>. QED
    BY <2>1, <2>2
<1>2. /\ approvals' = approvals /\ sgpClock' = sgpClock /\ check'[c] = r
  BY <1>1 DEF FetchChunk, Backoff, Put, GateInv
<1>3. EntriesAreTrue' /\ DOMAIN approvals' = Domains
  BY <1>2 DEF GateInv, EntriesAreTrue, GivenBy
<1>4. sgpClock \in Nat /\ k.want \subseteq Domains /\ k.want \cap DOMAIN k.found = {}
  BY <1>1 DEF GateInv, RequestIsTimely, Asking
<1>5. RequestIsTimely(r)
  BY <1>1, <1>4, SgpAssumption DEF RequestIsTimely, Asking
<1>6. ASSUME Setup[c].kind = "request" PROVE OneSeller(c)'
  <2>1. PICK p \in DOMAIN Products : /\ k.products = {p} /\ k.want = Sought(c, p)
                                     /\ DOMAIN k.found = {}
                                     /\ k.pc = "backoff" => k.chunk = k.want
    BY <1>1, <1>6 DEF GateInv, OneSeller, Asking, Working
  <2>2. r.chunk = k.want
    BY <1>1, <2>1 DEF Sought
  <2>. QED
    BY <1>1, <1>2, <2>1, <2>2 DEF OneSeller, Asking, Working, Sought
<1>7. OneSeller(c)' /\ r.pc \in Working /\ r.pc # "done"
  BY <1>1, <1>6 DEF OneSeller, Working, Asking
<1>. QED
  BY <1>1, <1>3, <1>5, <1>7, OneToolMoves
\* The platform answers about the chunk, whose sellers were not yet found.
LEMMA AnswerKeeps ==
  ASSUME GateInv, NEW c \in Tools, PortalAnswers(c)
  PROVE  GateInv'
<1> DEFINE k == check[c]
<1>1. PICK a \in [k.chunk -> [verdict : Verdicts, given : {sgpClock}]] :
        Put(c, [k EXCEPT !.pc = "answered", !.found = Over(@, a)])
  BY DEF PortalAnswers
<1> DEFINE r == [k EXCEPT !.pc = "answered", !.found = Over(@, a)]
<1>2. k.pc = "sent" /\ HasFields(k) /\ k.chunk \subseteq k.want /\ k.want \subseteq Domains
      /\ k.due \in Nat /\ sgpClock <= k.due /\ k.due <= sgpClock + Latency
      /\ k.want \cap DOMAIN k.found = {} /\ sgpClock \in Nat
  BY DEF PortalAnswers, GateInv, RequestIsTimely, Working, Asking
<1>3. /\ HasFields(r) /\ r.pc = "answered" /\ r.due = k.due /\ r.chunk = k.chunk
      /\ r.want = k.want /\ r.found = Over(k.found, a) /\ r.products = k.products
  BY <1>2 DEF HasFields, Fields
<1>4. /\ DOMAIN r.found = DOMAIN k.found \cup k.chunk
      /\ \A d \in k.chunk : r.found[d] = a[d] /\ a[d].given = sgpClock
  BY <1>2, <1>3 DEF Over
<1>. HIDE DEF r
<1>5. /\ approvals' = approvals /\ sgpClock' = sgpClock /\ check'[c] = r /\ Put(c, r)
  BY <1>1 DEF PortalAnswers, Put, GateInv, r
<1>6. EntriesAreTrue' /\ DOMAIN approvals' = Domains
  BY <1>5 DEF GateInv, EntriesAreTrue, GivenBy
<1>7. RequestIsTimely(r)
  <2>1. \A d \in r.chunk : GivenBy(r.found[d], r.due)
    BY <1>2, <1>3, <1>4, SgpAssumption DEF GivenBy
  <2>2. r.want \cap DOMAIN r.found = r.chunk
    BY <1>2, <1>3, <1>4
  <2>. QED
    BY <1>2, <1>3, <2>1, <2>2 DEF RequestIsTimely, Asking
<1>8. OneSeller(c)'
  BY <1>2, <1>3, <1>4, <1>5 DEF GateInv, OneSeller, Asking, Working, Sought
<1>9. r.pc \in Working /\ r.pc # "done"
  BY <1>3 DEF Working, Asking
<1>. QED
  BY <1>5, <1>6, <1>7, <1>8, <1>9, OneToolMoves

\* The chunk will be sent again: what was answered about it is dropped.
LEMMA RetryKeeps ==
  ASSUME GateInv, NEW c \in Tools, RetryChunk(c)
  PROVE  GateInv'
<1> DEFINE k == check[c]
           left == [d \in DOMAIN k.found \ k.chunk |-> k.found[d]]
           n == k.attempt + 1
           r == [k EXCEPT !.pc = "backoff", !.attempt = n, !.due = 0, !.found = left]
<1>1. /\ k.pc \in {"sent", "answered"} /\ HasFields(k) /\ k.chunk \subseteq k.want
      /\ k.want \subseteq Domains
      /\ k.pc = "answered" => k.want \cap DOMAIN k.found = k.chunk
      /\ k.pc = "sent" => k.want \cap DOMAIN k.found = {}
  BY DEF RetryChunk, GateInv, RequestIsTimely, Working, Asking
<1>2. Put(c, r) /\ DOMAIN left = DOMAIN k.found \ k.chunk
  BY DEF RetryChunk
<1>. HIDE DEF left, n
<1>3. /\ HasFields(r) /\ r.pc = "backoff" /\ r.chunk = k.chunk
      /\ r.want = k.want /\ r.products = k.products /\ r.found = left
  <2>1. DOMAIN k = Fields
    BY <1>1 DEF HasFields
  <2>. QED
    BY <1>1, <2>1 DEF HasFields, Fields
<1>. HIDE DEF r
<1>4. /\ approvals' = approvals /\ sgpClock' = sgpClock /\ check'[c] = r
  BY <1>2 DEF RetryChunk, Put, GateInv
<1>5. EntriesAreTrue' /\ DOMAIN approvals' = Domains
  BY <1>4 DEF GateInv, EntriesAreTrue, GivenBy
<1>6. RequestIsTimely(r)
  <2>1. r.want \cap DOMAIN r.found = {}
    BY <1>1, <1>2, <1>3
  <2>. QED
    BY <1>1, <1>3, <2>1 DEF RequestIsTimely, Asking
<1>7. OneSeller(c)'
  <2>1. Setup[c].kind = "request" => \E p \in DOMAIN Products :
          k.products = {p} /\ k.want = Sought(c, p) /\ k.chunk = k.want
          /\ DOMAIN k.found \subseteq k.chunk
    BY <1>1 DEF GateInv, OneSeller, Asking, Working
  <2>. QED
    BY <1>2, <1>3, <1>4, <2>1 DEF OneSeller, Asking, Working, Sought
<1>8. r.pc \in Working /\ r.pc # "done"
  BY <1>3 DEF Working, Asking
<1>. QED
  BY <1>2, <1>5, <1>6, <1>7, <1>8, OneToolMoves

\* The answer is stamped with its arrival, at most one delay after it was given.
LEMMA ReceiveKeeps ==
  ASSUME GateInv, NEW c \in Tools, ReceiveChunk(c)
  PROVE  GateInv'
<1> DEFINE k == check[c]  rest == k.want \ k.chunk
<1>1. /\ k.pc = "answered" /\ HasFields(k) /\ k.chunk \subseteq k.want /\ k.want \subseteq Domains
      /\ k.want \cap DOMAIN k.found = k.chunk
      /\ \A d \in k.chunk : GivenBy(k.found[d], k.due)
      /\ k.due \in Nat /\ sgpClock <= k.due /\ sgpClock \in Nat
  BY DEF ReceiveChunk, GateInv, RequestIsTimely, Working, Asking
<1>2. PICK parsed \in ParseChunkResponse([d \in k.chunk |-> k.found[d]]) :
        /\ approvals' = [d \in Domains |-> IF d \in k.chunk
                                           THEN [at |-> sgpClock, answer |-> parsed[d]]
                                           ELSE approvals[d]]
        /\ Put(c, [k EXCEPT !.pc = IF rest = {} THEN "checked" ELSE "fetch",
                            !.want = rest, !.chunk = {}, !.attempt = 0, !.due = 0,
                            !.found = Over(parsed, @)])
  BY DEF ReceiveChunk
<1> DEFINE r == [k EXCEPT !.pc = IF rest = {} THEN "checked" ELSE "fetch",
                          !.want = rest, !.chunk = {}, !.attempt = 0, !.due = 0,
                          !.found = Over(parsed, @)]
<1>3. DOMAIN parsed = k.chunk /\ \A d \in k.chunk : GivenBy(parsed[d], sgpClock)
  <2> DEFINE f == [d \in k.chunk |-> k.found[d]]
  <2>1. CASE parsed = f
    BY <1>1, <2>1, SgpAssumption DEF GivenBy
  <2>2. CASE parsed = [d \in DOMAIN f |-> [f[d] EXCEPT !.verdict = "unknown"]]
    <3>1. \A d \in k.chunk : parsed[d].given = k.found[d].given
      BY <2>2
    <3>. QED
      BY <1>1, <2>2, <3>1, SgpAssumption DEF GivenBy
  <2>. QED
    BY <1>2, <2>1, <2>2 DEF ParseChunkResponse
<1>4. /\ HasFields(r) /\ r.pc = IF rest = {} THEN "checked" ELSE "fetch"
  BY <1>1 DEF HasFields, Fields
<1>5. /\ r.chunk = {} /\ r.want = rest /\ r.products = k.products
      /\ r.found = Over(parsed, k.found)
  BY <1>1 DEF HasFields, Fields
<1>6. /\ DOMAIN r.found = k.chunk \cup DOMAIN k.found
      /\ \A d \in k.chunk : r.found[d] = parsed[d]
  BY <1>3, <1>5 DEF Over
<1>7. Put(c, r)
  BY <1>2
<1>. HIDE DEF r
<1>8. sgpClock' = sgpClock /\ check'[c] = r
  BY <1>7 DEF Put, GateInv
<1>9. EntriesAreTrue' /\ DOMAIN approvals' = Domains
  BY <1>1, <1>2, <1>3, <1>8 DEF GateInv, EntriesAreTrue, GivenBy
<1>10. RequestIsTimely(r)
  BY <1>1, <1>4, <1>5, <1>6 DEF RequestIsTimely, Asking
<1>11. ASSUME Setup[c].kind = "request" PROVE OneSeller(c)'
  <2>1. PICK p \in DOMAIN Products : /\ k.products = {p} /\ k.want = Sought(c, p)
                                     /\ k.chunk = k.want /\ DOMAIN k.found = k.chunk
    BY <1>1, <1>11 DEF GateInv, OneSeller, Asking, Working
  <2>2. \A d \in k.chunk : Recent(r.found[d], sgpClock)
    BY <1>3, <1>6 DEF Recent, GivenBy, Never
  <2>. QED
    BY <1>4, <1>5, <1>6, <1>8, <2>1, <2>2 DEF OneSeller, Asking, Working, Sought, Recent
<1>12. OneSeller(c)' /\ r.pc \in Working /\ r.pc # "done"
  BY <1>4, <1>11 DEF OneSeller, Working, Asking
<1>. QED
  BY <1>7, <1>9, <1>10, <1>12, OneToolMoves
\* After a failure nothing is asked for, and nothing found.
LEMMA FailureKeeps ==
  ASSUME GateInv, NEW c \in Tools, LookupFails(c)
  PROVE  GateInv'
<1> DEFINE k == check[c]
           r == [k EXCEPT !.pc = "failed", !.want = {}, !.chunk = {}, !.attempt = 0,
                          !.due = 0, !.found = <<>>]
<1>1. k.pc \in {"sent", "answered"} /\ HasFields(k)
  BY DEF LookupFails, GateInv, RequestIsTimely, Working, Asking
<1>2. Put(c, r)
  BY DEF LookupFails
<1>3. HasFields(r) /\ r.pc = "failed" /\ r.products = k.products
  <2>1. DOMAIN k = Fields
    BY <1>1 DEF HasFields
  <2>. QED
    BY <1>1, <2>1 DEF HasFields, Fields
<1>. HIDE DEF r
<1>4. /\ approvals' = approvals /\ sgpClock' = sgpClock /\ check'[c] = r
  BY <1>2 DEF LookupFails, Put, GateInv
<1>5. EntriesAreTrue' /\ DOMAIN approvals' = Domains
  BY <1>4 DEF GateInv, EntriesAreTrue, GivenBy
<1>6. RequestIsTimely(r) /\ r.pc \in Working /\ r.pc # "done"
  BY <1>3 DEF RequestIsTimely, Asking, Working
<1>7. OneSeller(c)'
  <2>1. Setup[c].kind = "request" => \E p \in DOMAIN Products : k.products = {p}
    BY <1>1 DEF GateInv, OneSeller, Asking, Working
  <2>. QED
    BY <1>3, <1>4, <2>1 DEF OneSeller, Asking
<1>. QED
  BY <1>2, <1>5, <1>6, <1>7, OneToolMoves

\* The verdict rests on what was found, which the policy must let through.
LEMMA VerdictKeeps ==
  ASSUME GateInv, NEW c \in Tools, Conclude(c) \/ ConcludeFailed(c) \/ ReturnFromGate(c)
  PROVE  GateInv'
<1> DEFINE k == check[c]
<1>1. PICK r : /\ Put(c, r) /\ r.pc \in {"idle", "done"}
               /\ r.pc = "done" /\ Setup[c].kind = "request" /\ Setup[c].enforce =>
                    \A p \in r.out : /\ r.basis[p].verdict \in Admits(Setup[c].policy)
                                     /\ Seller(p) # NoDomain => Recent(r.basis[p], r.at)
  <2>1. CASE Conclude(c)
    <3> DEFINE request == Setup[c].kind = "request"
               out == {p \in k.products : IF request THEN CheckSgpApproval(c, p)
                                          ELSE ApplyEnforcement(c, p) = "listed"}
               r == [pc |-> "done", out |-> out, at |-> sgpClock,
                     basis |-> [p \in IF request THEN out ELSE {} |-> Record(c, p)],
                     told |-> IF request THEN FormatResults(c, {})
                              ELSE FormatResults(c, out)]
    <3>1. Put(c, r) /\ k.pc = "checked"
      BY <2>1 DEF Conclude
    <3>2. ASSUME request, Setup[c].enforce, NEW p \in out
          PROVE  /\ Record(c, p).verdict \in Admits(Setup[c].policy)
                 /\ Seller(p) # NoDomain => Recent(Record(c, p), sgpClock)
      <4>1. p \in k.products /\ CheckSgpApproval(c, p)
        BY <3>2
      <4>2. DOMAIN k.found = Sought(c, p) /\ \A d \in DOMAIN k.found : Recent(k.found[d], sgpClock)
        BY <3>1, <3>2, <4>1 DEF GateInv, OneSeller, Working
      <4>3. Record(c, p).verdict \in Admits(Setup[c].policy)
        BY <3>2, <4>1 DEF CheckSgpApproval, Admits
      <4>4. ASSUME Seller(p) # NoDomain PROVE Record(c, p) = k.found[Seller(p)]
                                              /\ Seller(p) \in DOMAIN k.found
        BY <3>2, <4>2, <4>4 DEF Record, Sought
      <4>. QED
        BY <4>2, <4>3, <4>4
    <3>3. /\ r.pc = "done" /\ r.out = out /\ r.at = sgpClock
          /\ request => \A p \in out : r.basis[p] = Record(c, p)
      OBVIOUS
    <3>. HIDE DEF r, out
    <3>. QED
      BY <3>1, <3>2, <3>3
  <2>2. CASE ConcludeFailed(c)
    <3> DEFINE r == [pc |-> "done", at |-> sgpClock, basis |-> [p \in {} |-> NoAnswer],
                     out |-> FetchApprovals(c),
                     told |-> [lines |-> [p \in FetchApprovals(c) |-> "none"], summary |-> 0]]
    <3>1. Put(c, r) /\ r.pc = "done" /\ (Setup[c].enforce => r.out = {})
      BY <2>2 DEF ConcludeFailed, FetchApprovals
    <3>. HIDE DEF r
    <3>. QED
      BY <3>1
  <2>3. CASE ReturnFromGate(c)
    BY <2>3 DEF ReturnFromGate, NoCheck
  <2>. QED
    BY <2>1, <2>2, <2>3
<1>2. /\ approvals' = approvals /\ sgpClock' = sgpClock /\ check'[c] = r
  BY <1>1 DEF Conclude, ConcludeFailed, ReturnFromGate, Put, GateInv
<1>3. EntriesAreTrue' /\ DOMAIN approvals' = Domains
  BY <1>2 DEF GateInv, EntriesAreTrue, GivenBy
<1>4. RequestIsTimely(r) /\ OneSeller(c)'
  BY <1>1, <1>2 DEF RequestIsTimely, OneSeller, Asking, Working
<1>. QED
  BY <1>1, <1>3, <1>4, OneToolMoves

\* Time passes: no request gets overdue, and nothing that was found is waiting to be used.
LEMMA TickKeeps ==
  ASSUME GateInv, SgpTick
  PROVE  GateInv'
<1>1. /\ sgpClock \in Nat /\ sgpClock' = sgpClock + 1
      /\ approvals' = approvals /\ check' = check
  BY DEF SgpTick, GateInv
<1>2. EntriesAreTrue'
  BY <1>1 DEF GateInv, EntriesAreTrue, GivenBy
<1>3. ASSUME NEW c \in Tools PROVE RequestIsTimely(check[c])'
  <2>1. /\ RequestIsTimely(check[c])
        /\ check[c].pc \in {"sent", "answered"} => sgpClock < check[c].due
    BY DEF GateInv, SgpTick
  <2>2. check[c].pc = "answered" => \A d \in check[c].chunk : GivenBy(check[c].found[d], check[c].due)'
    BY <1>1, <2>1 DEF RequestIsTimely, GivenBy
  <2>3. check[c].pc \in {"sent", "answered"} =>
          check[c].due \in Nat /\ sgpClock' <= check[c].due /\ check[c].due <= sgpClock' + Latency
    BY <1>1, <2>1, SgpAssumption DEF RequestIsTimely
  <2>. QED
    BY <1>1, <2>1, <2>2, <2>3 DEF RequestIsTimely
<1>4. ASSUME NEW c \in Tools PROVE OneSeller(c)'
  BY <1>1 DEF GateInv, SgpTick, OneSeller
<1>5. DealRestsOnApproval'
  BY <1>1 DEF GateInv, DealRestsOnApproval
<1>. QED
  BY <1>1, <1>2, <1>3, <1>4, <1>5 DEF GateInv

\* Every step of the tools, the platform and the clock keeps the invariant.
LEMMA GateStep == GateInv /\ [SgpNext]_sgpVars => GateInv'
<1> SUFFICES ASSUME GateInv, [SgpNext]_sgpVars PROVE GateInv'
  OBVIOUS
<1>1. ASSUME NEW c \in Tools, RequestDealTool(c) PROVE GateInv'
  <2>1. PICK ps \in Setup[c].lists : \E p \in ps :
          CheckApprovals(c, {p}, IF Setup[c].enforce THEN {p} ELSE {})
    BY <1>1 DEF RequestDealTool
  <2>2. PICK p \in ps : CheckApprovals(c, {p}, IF Setup[c].enforce THEN {p} ELSE {})
    BY <2>1
  <2>3. p \in DOMAIN Products
    BY <2>1, <2>2, SgpAssumption
  <2>. QED
    BY <1>1, <2>2, <2>3, LookupBegins DEF RequestDealTool
<1>2. ASSUME NEW c \in Tools, DiscoverInventoryTool(c) PROVE GateInv'
  <2>1. PICK ps \in Setup[c].lists :
          CheckApprovals(c, ps, {p \in ps : ExtractProductDomain(p) # NoDomain})
    BY <1>2 DEF DiscoverInventoryTool
  <2>2. {p \in ps : ExtractProductDomain(p) # NoDomain} \in SUBSET DOMAIN Products
    BY <2>1, SgpAssumption
  <2>3. Setup[c].kind # "request"
    BY <1>2 DEF DiscoverInventoryTool
  <2>. QED
    BY <1>2, <2>1, <2>2, <2>3, LookupBegins DEF DiscoverInventoryTool
<1>3. CASE UNCHANGED sgpVars
  BY <1>3 DEF sgpVars, GateInv, RequestIsTimely, OneSeller, EntriesAreTrue, GivenBy,
              DealRestsOnApproval
<1>. QED
  BY <1>1, <1>2, <1>3, TickKeeps, SendKeeps, AnswerKeeps, RetryKeeps, ReceiveKeeps,
     FailureKeeps, VerdictKeeps DEF SgpNext

\* Whatever the tools, the caches and the platform do, a deal that an enforcing tool issues
\* rests on a verdict its policy lets through, and that the platform gave recently: the
\* cache is stamped when an answer arrives, so a verdict may be one delay older than the
\* lifetime, and never more.
THEOREM DealsRestOnApprovals == SgpSpec => []DealRestsOnApproval
<1>1. GateInv => DealRestsOnApproval
  BY DEF GateInv
<1>. QED
  BY GateInit, GateStep, <1>1, PTL DEF SgpSpec

\* A call under way has its fields, of their types.
CallIsTyped(k) ==
    \/ k = NoCheck
    \/ /\ k.pc = "done" /\ k.at \in 0 .. SgpHorizon
       /\ DOMAIN k.basis \subseteq k.out /\ k.out \subseteq DOMAIN Products
    \/ /\ k.pc \in Working /\ HasFields(k) /\ k.products \subseteq DOMAIN Products
       /\ k.chunk \subseteq k.want /\ k.want \subseteq Domains /\ Cardinality(k.chunk) <= Batch
       /\ k.attempt \in 0 .. MaxRetries + 1
       /\ \A d \in DOMAIN k.found : k.found[d] \in KnownAnswer
GateTyped ==
    /\ sgpClock \in 0 .. SgpHorizon
    /\ approvals \in [Domains -> [at : KnownTime, answer : KnownAnswer]]
    /\ check = [c \in Tools |-> check[c]]
    /\ \A c \in Tools : CallIsTyped(check[c])

\* The typed invariant gives the types that the runs check.
LEMMA GateIsTyped == GateTyped => SgpTypeOK
BY DEF GateTyped, CallIsTyped, SgpTypeOK, Working, Asking

\* The gate starts typed.
LEMMA TypedStart == SgpInit => GateTyped
BY SgpAssumption DEF SgpInit, GateTyped, CallIsTyped, NoEntry, NoAnswer, KnownTime, KnownAnswer,
                     Verdicts, Never

\* A tool whose call stays typed keeps the gate typed, whatever it leaves in the cache of
\* approvals.
LEMMA TypedMove ==
  ASSUME GateTyped, NEW c \in Tools, NEW r, Put(c, r), CallIsTyped(r),
         approvals' \in [Domains -> [at : KnownTime, answer : KnownAnswer]]
  PROVE  GateTyped'
<1>1. /\ check'[c] = r /\ sgpClock' = sgpClock
      /\ \A b \in Tools : b # c => check'[b] = check[b]
      /\ check' = [b \in Tools |-> check'[b]]
  BY DEF GateTyped, Put
<1>2. \A b \in Tools : CallIsTyped(check[b])'
  BY <1>1 DEF GateTyped, CallIsTyped
<1>. QED
  BY <1>1, <1>2 DEF GateTyped

\* An update of a call that keeps its fields.
LEMMA TimesKnown == sgpClock \in 0 .. SgpHorizon => sgpClock \in KnownTime /\ Never \in KnownTime
BY SgpAssumption DEF KnownTime, Never

\* A call that begins, with its hits from the cache, is typed.
LEMMA LookupTyped ==
  ASSUME GateTyped, NEW c \in Tools, NEW ps \in SUBSET DOMAIN Products, NEW wanted,
         CheckApprovals(c, ps, wanted), UNCHANGED approvals
  PROVE  GateTyped'
<1> DEFINE ds   == {Seller(p) : p \in wanted} \ {NoDomain}
           hits == {d \in ds : Hit(approvals[d])}
           r    == [pc |-> IF ds = hits THEN "checked" ELSE "fetch", products |-> ps,
                    want |-> ds \ hits, chunk |-> {}, attempt |-> 0, due |-> 0,
                    found |-> [d \in hits |-> approvals[d].answer]]
<1>1. Put(c, r)
  BY DEF CheckApprovals
<1>2. ds \subseteq Domains
  BY SellersAreDomains
<1>3. \A d \in hits : approvals[d].answer \in KnownAnswer
  BY <1>2 DEF GateTyped
<1>. HIDE DEF hits, ds
<1>4. HasFields(r) /\ r.pc \in Working
  BY DEF HasFields, Fields, Working, Asking
<1>5. r.chunk = {} /\ r.want \subseteq Domains /\ r.attempt = 0 /\ r.products = ps
      /\ DOMAIN r.found = hits /\ \A d \in hits : r.found[d] = approvals[d].answer
  BY <1>2
<1>. HIDE DEF r
<1>6. Cardinality(r.chunk) <= Batch /\ 0 \in 0 .. MaxRetries + 1
  BY <1>5, FS_EmptySet, SgpAssumption
<1>7. CallIsTyped(r)
  BY <1>3, <1>4, <1>5, <1>6 DEF CallIsTyped
<1>. QED
  BY <1>1, <1>7, TypedMove DEF GateTyped

\* A call at work has all its fields.
LEMMA CallTyped ==
  ASSUME GateTyped, NEW c \in Tools, check[c].pc \in Working
  PROVE  LET k == check[c] IN
         /\ HasFields(k) /\ k.products \subseteq DOMAIN Products
         /\ k.chunk \subseteq k.want /\ k.want \subseteq Domains /\ Cardinality(k.chunk) <= Batch
         /\ k.attempt \in 0 .. MaxRetries + 1
         /\ \A d \in DOMAIN k.found : k.found[d] \in KnownAnswer
BY DEF GateTyped, CallIsTyped, NoCheck, Working, Asking

\* A chunk that is sent, or sent again after a wait, is no larger than a batch.
LEMMA SendTyped ==
  ASSUME GateTyped, NEW c \in Tools, FetchChunk(c) \/ Backoff(c)
  PROVE  GateTyped'
<1> DEFINE k == check[c]
<1>1. k.pc \in {"fetch", "backoff"} /\ UNCHANGED approvals
  BY DEF FetchChunk, Backoff
<1>2. /\ HasFields(k) /\ k.products \subseteq DOMAIN Products
      /\ k.chunk \subseteq k.want /\ k.want \subseteq Domains /\ Cardinality(k.chunk) <= Batch
      /\ k.attempt \in 0 .. MaxRetries + 1
      /\ \A d \in DOMAIN k.found : k.found[d] \in KnownAnswer
  BY <1>1, CallTyped DEF Working, Asking
<1>3. PICK r : /\ Put(c, r) /\ HasFields(r) /\ r.pc = "sent" /\ r.want = k.want
               /\ r.found = k.found /\ r.products = k.products
               /\ r.chunk \subseteq k.want /\ Cardinality(r.chunk) <= Batch
               /\ r.attempt \in 0 .. MaxRetries + 1
  <2>1. CASE FetchChunk(c)
    <3>1. PICK chunk \in Chunks(k.want) :
            Put(c, [k EXCEPT !.pc = "sent", !.chunk = chunk, !.attempt = 1,
                             !.due = sgpClock + Latency])
      BY <2>1 DEF FetchChunk
    <3> DEFINE r == [k EXCEPT !.pc = "sent", !.chunk = chunk, !.attempt = 1,
                              !.due = sgpClock + Latency]
    <3>2. /\ HasFields(r) /\ r.pc = "sent" /\ r.chunk = chunk /\ r.attempt = 1
          /\ r.want = k.want /\ r.found = k.found /\ r.products = k.products
      BY <1>2 DEF HasFields, Fields
    <3>3. chunk \subseteq k.want /\ Cardinality(chunk) <= Batch
      <4>1. Cardinality(chunk) = Batch \/ Cardinality(chunk) < Batch
        BY <3>1 DEF Chunks
      <4>2. chunk \subseteq k.want
        BY <3>1 DEF Chunks
      <4>. DEFINE n == Cardinality(chunk)
      <4>3. n \in Nat /\ (n = Batch \/ n < Batch)
        <5>1. chunk \subseteq Domains
          BY <1>2, <4>2
        <5>. QED
          BY <4>1, <5>1, SgpAssumption, FS_Subset, FS_CardinalityType
      <4>. HIDE DEF n
      <4>4. n <= Batch
        BY <4>3, SgpAssumption
      <4>. QED
        BY <4>2, <4>4 DEF n
    <3>4. 1 \in 0 .. MaxRetries + 1
      BY SgpAssumption
    <3>. HIDE DEF r
    <3>. QED
      BY <3>1, <3>2, <3>3, <3>4 DEF r
  <2>2. CASE Backoff(c)
    <3> DEFINE r == [k EXCEPT !.pc = "sent", !.due = sgpClock + Latency]
    <3>1. Put(c, r)
      BY <2>2 DEF Backoff
    <3>2. /\ HasFields(r) /\ r.pc = "sent" /\ r.chunk = k.chunk /\ r.attempt = k.attempt
          /\ r.want = k.want /\ r.found = k.found /\ r.products = k.products
      BY <1>2 DEF HasFields, Fields
    <3>. HIDE DEF r
    <3>. QED
      BY <1>2, <3>1, <3>2
  <2>. QED
    BY <2>1, <2>2
<1>. HIDE DEF k
<1>4. CallIsTyped(r)
  BY <1>2, <1>3 DEF CallIsTyped, Working, Asking
<1>. QED
  BY <1>1, <1>3, <1>4, TypedMove DEF GateTyped

\* The platform's answer, a failure and a retry leave the call typed: the number of attempts is
\* bounded by the retries.
LEMMA AnswerTyped ==
  ASSUME GateTyped, NEW c \in Tools, PortalAnswers(c) \/ RetryChunk(c) \/ LookupFails(c)
  PROVE  GateTyped'
<1> DEFINE k == check[c]
<1>1. k.pc \in {"sent", "answered"} /\ UNCHANGED approvals
  BY DEF PortalAnswers, RetryChunk, LookupFails
<1>2. /\ HasFields(k) /\ k.products \subseteq DOMAIN Products
      /\ k.chunk \subseteq k.want /\ k.want \subseteq Domains /\ Cardinality(k.chunk) <= Batch
      /\ k.attempt \in 0 .. MaxRetries + 1
      /\ \A d \in DOMAIN k.found : k.found[d] \in KnownAnswer
  BY <1>1, CallTyped DEF Working, Asking
<1>3. PICK r : /\ Put(c, r) /\ HasFields(r) /\ r.pc \in Working
               /\ r.want \subseteq Domains /\ r.products = k.products
               /\ r.chunk \subseteq r.want /\ Cardinality(r.chunk) <= Batch
               /\ r.attempt \in 0 .. MaxRetries + 1
               /\ \A d \in DOMAIN r.found : r.found[d] \in KnownAnswer
  <2>1. CASE PortalAnswers(c)
    <3>1. PICK a \in [k.chunk -> [verdict : Verdicts, given : {sgpClock}]] :
            Put(c, [k EXCEPT !.pc = "answered", !.found = Over(@, a)])
      BY <2>1 DEF PortalAnswers
    <3> DEFINE f == Over(k.found, a)  r == [k EXCEPT !.pc = "answered", !.found = f]
    <3>2. \A d \in DOMAIN f : f[d] \in KnownAnswer
      <4>1. \A d \in k.chunk : a[d] \in KnownAnswer
        BY <3>1, TimesKnown DEF KnownAnswer, GateTyped
      <4>. QED
        BY <1>2, <3>1, <4>1 DEF Over
    <3>. HIDE DEF f
    <3>3. Put(c, r)
      BY <1>2, <3>1 DEF f, HasFields, Fields
    <3>4. /\ HasFields(r) /\ r.pc = "answered" /\ r.chunk = k.chunk /\ r.attempt = k.attempt
          /\ r.want = k.want /\ r.found = f /\ r.products = k.products
      BY <1>2 DEF HasFields, Fields
    <3>. HIDE DEF r
    <3>. QED
      BY <1>2, <3>2, <3>3, <3>4 DEF Working, Asking
  <2>2. CASE RetryChunk(c)
    <3> DEFINE f == [d \in DOMAIN k.found \ k.chunk |-> k.found[d]]
               r == [k EXCEPT !.pc = "backoff", !.attempt = k.attempt + 1, !.due = 0, !.found = f]
    <3>1. Put(c, r) /\ k.attempt <= MaxRetries
      BY <1>2, <2>2 DEF RetryChunk, HasFields, Fields
    <3>2. \A d \in DOMAIN f : f[d] \in KnownAnswer
      BY <1>2
    <3>. HIDE DEF f
    <3>3. /\ HasFields(r) /\ r.pc = "backoff" /\ r.chunk = k.chunk /\ r.attempt = k.attempt + 1
          /\ r.want = k.want /\ r.found = f /\ r.products = k.products
      BY <1>2 DEF HasFields, Fields
    <3>4. k.attempt + 1 \in 0 .. MaxRetries + 1
      BY <1>2, <3>1, SgpAssumption
    <3>. HIDE DEF r
    <3>. QED
      BY <1>2, <3>1, <3>2, <3>3, <3>4 DEF Working, Asking
  <2>3. CASE LookupFails(c)
    <3> DEFINE r == [k EXCEPT !.pc = "failed", !.want = {}, !.chunk = {}, !.attempt = 0,
                              !.due = 0, !.found = <<>>]
    <3>1. Put(c, r)
      BY <2>3 DEF LookupFails
    <3>2. /\ HasFields(r) /\ r.pc = "failed" /\ r.chunk = {} /\ r.attempt = 0
          /\ r.want = {} /\ r.found = <<>> /\ r.products = k.products
      BY <1>2 DEF HasFields, Fields
    <3>4. \A d \in DOMAIN r.found : r.found[d] \in KnownAnswer
      BY <3>2
    <3>3. Cardinality({}) <= Batch /\ 0 \in 0 .. MaxRetries + 1
      BY FS_EmptySet, SgpAssumption
    <3>. HIDE DEF r
    <3>. QED
      BY <1>2, <3>1, <3>2, <3>3, <3>4 DEF Working
  <2>. QED
    BY <2>1, <2>2, <2>3
<1>. HIDE DEF k
<1>4. CallIsTyped(r)
  BY <1>2, <1>3 DEF CallIsTyped
<1>. QED
  BY <1>1, <1>3, <1>4, TypedMove DEF GateTyped

\* What a chunk's answer writes to the cache is typed, whoever waits for the rest.
LEMMA ReceiveTyped ==
  ASSUME GateInv, GateTyped, NEW c \in Tools, ReceiveChunk(c)
  PROVE  GateTyped'
<1> DEFINE k == check[c]  rest == k.want \ k.chunk
<1>1. k.pc = "answered"
  BY DEF ReceiveChunk
<1>2. /\ HasFields(k) /\ k.products \subseteq DOMAIN Products
      /\ k.chunk \subseteq k.want /\ k.want \subseteq Domains
      /\ \A d \in DOMAIN k.found : k.found[d] \in KnownAnswer
  BY <1>1, CallTyped DEF Working, Asking
<1>3. k.chunk \subseteq DOMAIN k.found
  BY <1>1 DEF GateInv, RequestIsTimely
<1> DEFINE answered == [d \in k.chunk |-> k.found[d]]
<1>4. PICK parsed \in ParseChunkResponse(answered) :
        /\ approvals' = [d \in Domains |-> IF d \in k.chunk
                                           THEN [at |-> sgpClock, answer |-> parsed[d]]
                                           ELSE approvals[d]]
        /\ Put(c, [k EXCEPT !.pc = IF rest = {} THEN "checked" ELSE "fetch",
                            !.want = rest, !.chunk = {}, !.attempt = 0, !.due = 0,
                            !.found = Over(parsed, @)])
  BY DEF ReceiveChunk
<1>5. DOMAIN parsed = k.chunk /\ \A d \in k.chunk : parsed[d] \in KnownAnswer
  <2>1. \A d \in k.chunk : answered[d] \in KnownAnswer
    BY <1>2, <1>3
  <2>2. \A x \in KnownAnswer : [x EXCEPT !.verdict = "unknown"] \in KnownAnswer
    BY DEF KnownAnswer, Verdicts
  <2>. QED
    BY <1>4, <2>1, <2>2 DEF ParseChunkResponse
<1>6. approvals' \in [Domains -> [at : KnownTime, answer : KnownAnswer]]
  BY <1>4, <1>5, TimesKnown DEF GateTyped
<1> DEFINE f == Over(parsed, k.found)
           r == [k EXCEPT !.pc = IF rest = {} THEN "checked" ELSE "fetch",
                          !.want = rest, !.chunk = {}, !.attempt = 0, !.due = 0, !.found = f]
<1>7. \A d \in DOMAIN f : f[d] \in KnownAnswer
  BY <1>2, <1>5 DEF Over
<1>. HIDE DEF f
<1>8. Put(c, r)
  BY <1>2, <1>4 DEF f, HasFields, Fields
<1>9. /\ HasFields(r) /\ r.pc \in {"checked", "fetch"} /\ r.chunk = {} /\ r.attempt = 0
      /\ r.want \subseteq k.want /\ r.found = f /\ r.products = k.products
  BY <1>2 DEF HasFields, Fields
<1>10. Cardinality({}) <= Batch /\ 0 \in 0 .. MaxRetries + 1
  BY FS_EmptySet, SgpAssumption
<1>. HIDE DEF r
<1>11. CallIsTyped(r)
  BY <1>2, <1>7, <1>9, <1>10 DEF CallIsTyped, Working, Asking
<1>. QED
  BY <1>6, <1>8, <1>11, TypedMove

\* A verdict is about products that the call was made for.
LEMMA VerdictTyped ==
  ASSUME GateTyped, NEW c \in Tools, Conclude(c) \/ ConcludeFailed(c) \/ ReturnFromGate(c)
  PROVE  GateTyped'
<1>0. UNCHANGED approvals
  BY DEF Conclude, ConcludeFailed, ReturnFromGate
<1>1. CASE Conclude(c) \/ ConcludeFailed(c)
  <2>1. check[c].products \subseteq DOMAIN Products
    BY <1>1, CallTyped DEF Conclude, ConcludeFailed, Working
  <2>2. PICK r : /\ Put(c, r) /\ r.pc = "done" /\ r.at = sgpClock
                 /\ r.out \subseteq check[c].products /\ DOMAIN r.basis \subseteq r.out
    <3>1. CASE Conclude(c)
      BY <3>1 DEF Conclude
    <3>2. CASE ConcludeFailed(c)
      BY <3>2 DEF ConcludeFailed, FetchApprovals
    <3>. QED
      BY <1>1, <3>1, <3>2
  <2>3. CallIsTyped(r)
    BY <2>1, <2>2 DEF CallIsTyped, GateTyped
  <2>. QED
    BY <1>0, <2>2, <2>3, TypedMove DEF GateTyped
<1>2. CASE ReturnFromGate(c)
  <2>1. Put(c, NoCheck) /\ CallIsTyped(NoCheck)
    BY <1>2 DEF ReturnFromGate, CallIsTyped
  <2>. QED
    BY <1>0, <2>1, TypedMove DEF GateTyped
<1>. QED
  BY <1>1, <1>2

\* Every step keeps the types of calls and cache.
LEMMA TypedStep == GateInv /\ GateTyped /\ [SgpNext]_sgpVars => GateTyped'
<1> SUFFICES ASSUME GateInv, GateTyped, [SgpNext]_sgpVars PROVE GateTyped'
  OBVIOUS
<1>1. ASSUME NEW c \in Tools, RequestDealTool(c) PROVE GateTyped'
  <2>1. PICK ps \in Setup[c].lists : \E p \in ps :
          CheckApprovals(c, {p}, IF Setup[c].enforce THEN {p} ELSE {})
    BY <1>1 DEF RequestDealTool
  <2>2. PICK p \in ps : CheckApprovals(c, {p}, IF Setup[c].enforce THEN {p} ELSE {})
    BY <2>1
  <2>3. {p} \in SUBSET DOMAIN Products
    BY <2>1, <2>2, SgpAssumption
  <2>. QED
    BY <1>1, <2>2, <2>3, LookupTyped DEF RequestDealTool
<1>2. ASSUME NEW c \in Tools, DiscoverInventoryTool(c) PROVE GateTyped'
  <2>1. PICK ps \in Setup[c].lists :
          CheckApprovals(c, ps, {p \in ps : ExtractProductDomain(p) # NoDomain})
    BY <1>2 DEF DiscoverInventoryTool
  <2>2. ps \in SUBSET DOMAIN Products
    BY <2>1, SgpAssumption
  <2>. QED
    BY <1>2, <2>1, <2>2, LookupTyped DEF DiscoverInventoryTool
<1>3. CASE SgpTick
  <2>1. sgpClock' \in 0 .. SgpHorizon
    BY <1>3, SgpAssumption DEF SgpTick, GateTyped
  <2>. QED
    BY <1>3, <2>1 DEF SgpTick, GateTyped, CallIsTyped
<1>4. CASE UNCHANGED sgpVars
  BY <1>4 DEF sgpVars, GateTyped, CallIsTyped
<1>. QED
  BY <1>1, <1>2, <1>3, <1>4, SendTyped, AnswerTyped, ReceiveTyped, VerdictTyped DEF SgpNext

--------------------------------------------------------------------------------
(* Negotiation: for every threshold strategy and every seller the exchange *)
(* is bounded, no offer exceeds the limit, and what is reported as settled *)
(* is settled with the seller too.                                         *)

\* The strengthening: there is an outcome only at the end, and a counter is sent only while
\* rounds are left.
OutcomeAtEnd == talk # "done" => result = NoResult
RoundsLeft ==
    /\ talk \in {"idle", "new", "starting"} => rounds = 0
    /\ talk = "countering" => rounds < MaxRounds
NgInv == NgTypeOK /\ OutcomeAtEnd /\ RoundsLeft /\ OffersWithinLimits /\ NothingLeftOpen

\* What is posted with each kind of message.
LEMMA WirePrices ==
  /\ ToWire("counter").buyerPrice = NextOffer
  /\ ToWire("accept").buyerPrice = ask
  /\ ToWire("reject").buyerPrice = Unset
  BY DEF ToWire

\* The next offer is a price within the limit.
LEMMA NextOfferBounded == NgTypeOK => NextOffer \in Nat /\ NextOffer <= MaxCpm
  BY NegotiationAssumption DEF NgTypeOK, NextOffer, Unset

\* What the seller is taken to have said.
LEMMA RoundTypes ==
  ASSUME NEW answer \in SellerAnswers
  PROVE  /\ NormalizeRound(answer).price \in SellerPrices \cup {0}
         /\ NormalizeRound(answer).action \in Actions
         /\ NormalizeRound(answer).action = answer.action
  BY DEF NormalizeRound, SellerAnswers

\* What the seller makes of a message.
LEMMA StandsTypes ==
  ASSUME NEW action \in Actions
  PROVE  /\ Stands(action) \in {"agreed", "rejected", "open"}
         /\ action = "accept" => Stands(action) = "agreed"
         /\ action = "reject" => Stands(action) = "rejected"
  BY DEF Stands, Actions

\* A round that is recorded keeps the invariant.
LEMMA SettledKeeps ==
  ASSUME NgInv, talk \in {"starting", "countering"}, NEW answer \in SellerAnswers,
         Settled(NormalizeRound(answer),
                 \/ talk' = "choosing" /\ UNCHANGED result
                 \/ answer.action = "reject" /\ Finish("walked_away", Unset))
  PROVE  NgInv'
<1> DEFINE round == NormalizeRound(answer)
<1>1. /\ round.price \in SellerPrices \cup {0} /\ round.action \in Actions
      /\ round.action = answer.action
  BY RoundTypes
<1>2. /\ ask' = round.price /\ rounds' = rounds + 1 /\ stands' = Stands(round.action)
      /\ UNCHANGED <<offer, previous>>
      /\ \/ round.action = "accept" /\ Finish("accepted", round.price)
         \/ talk' = "accepting" /\ UNCHANGED result
         \/ talk' = "choosing" /\ UNCHANGED result
         \/ round.action = "reject" /\ Finish("walked_away", Unset)
  BY <1>1 DEF Settled
<1>. HIDE DEF round
<1>3. rounds' \in Nat /\ rounds' <= MaxRounds
  BY <1>2, NegotiationAssumption DEF NgInv, NgTypeOK, RoundsLeft, OffersWithinLimits
<1>4. result = NoResult
  BY DEF NgInv, OutcomeAtEnd
<1>. QED
  BY <1>1, <1>2, <1>3, <1>4, StandsTypes
  DEF NgInv, NgTypeOK, OutcomeAtEnd, RoundsLeft, OffersWithinLimits, NothingLeftOpen, Finish,
      NoResult

\* Every step keeps the invariant.
LEMMA StaysSound == NgInv /\ [NgNext]_ngVars => NgInv'
<1> SUFFICES ASSUME NgInv, [NgNext]_ngVars PROVE NgInv'
  OBVIOUS
<1>. USE DEF NgInv, OutcomeAtEnd, RoundsLeft, NothingLeftOpen
<1>1. CASE SubmitProposal
  BY <1>1 DEF SubmitProposal, NgTypeOK, OffersWithinLimits
<1>2. CASE Disabled
  BY <1>2 DEF Disabled, Finish, NgTypeOK, OffersWithinLimits
<1>3. CASE StartNegotiation
  BY <1>3, WirePrices, NextOfferBounded DEF StartNegotiation, NgTypeOK, OffersWithinLimits
<1>4. CASE OpeningAnswered
  BY <1>4, SettledKeeps DEF OpeningAnswered, Settled
<1>5. CASE CounterAnswered
  BY <1>5, SettledKeeps DEF CounterAnswered, Settled
<1>6. CASE WalkAway
  BY <1>6 DEF WalkAway, NgTypeOK, OffersWithinLimits
<1>7. CASE CounterOffer
  <2>1. rounds < MaxRounds
    BY <1>7, NegotiationAssumption DEF CounterOffer, ShouldWalkAway, NgTypeOK
  <2>2. previous' \in Nat \cup {Unset}
    BY <1>7, NegotiationAssumption DEF CounterOffer, NgTypeOK
  <2>. QED
    BY <1>7, <2>1, <2>2, WirePrices, NextOfferBounded DEF CounterOffer, NgTypeOK, OffersWithinLimits
<1>8. CASE Accept
  BY <1>8, WirePrices DEF Accept, Finish, NgTypeOK, OffersWithinLimits
<1>9. CASE Decline
  BY <1>9, WirePrices DEF Decline, Finish, NgTypeOK, OffersWithinLimits
<1>10. CASE Raise
  <2>1. stands' \in {"none", "open", "agreed", "rejected", "closed"}
    BY <1>10, StandsTypes DEF Raise, NgTypeOK
  <2>. QED
    BY <1>10, <2>1 DEF Raise, Finish, NgTypeOK, OffersWithinLimits
<1>11. CASE UNCHANGED ngVars
  BY <1>11 DEF ngVars, NgTypeOK, OffersWithinLimits
<1>. QED
  BY <1>1, <1>2, <1>3, <1>4, <1>5, <1>6, <1>7, <1>8, <1>9, <1>10, <1>11 DEF NgNext

\* The initial states.
LEMMA StartsSound == NgInit => NgInv
  BY NegotiationAssumption
  DEF NgInit, NgInv, NgTypeOK, OutcomeAtEnd, RoundsLeft, OffersWithinLimits, NothingLeftOpen,
      NoResult, Unset

\* The negotiation keeps its types.
THEOREM NegotiationTypes == NgSpec => []NgTypeOK
<1>1. NgInv => NgTypeOK
  BY DEF NgInv
<1>. QED
  BY StartsSound, StaysSound, <1>1, PTL DEF NgSpec

\* For every target, limit, concession and number of rounds, and whatever the seller answers,
\* no offer of the strategy exceeds its limit and the exchange is no longer than agreed on.
THEOREM OffersStayWithinLimits == NgSpec => []OffersWithinLimits
<1>1. NgInv => OffersWithinLimits
  BY DEF NgInv
<1>. QED
  BY StartsSound, StaysSound, <1>1, PTL DEF NgSpec

\* A negotiation that is reported as accepted or abandoned is never left open with the seller.
THEOREM SettledWithBoth == NgSpec => []NothingLeftOpen
<1>1. NgInv => NothingLeftOpen
  BY DEF NgInv
<1>. QED
  BY StartsSound, StaysSound, <1>1, PTL DEF NgSpec

--------------------------------------------------------------------------------
(* Capabilities.                                                           *)

\* An entry of the cache expires no later than its lifetime after its capabilities were
\* given, since the lifetime runs from the request; a request was sent before its answer.
EntriesExpire ==
    /\ policy # NoPolicy => policy.expires <= policy.given + Lifetime(policy.age)
    /\ \A c \in Discoverers :
         /\ discovery[c].pc = "sent" => discovery[c].start <= capClock
         /\ discovery[c].pc = "answered" => discovery[c].start <= discovery[c].given
CapInv == CapTypeOK /\ EntriesExpire /\ HitsAreFresh

\* A lifetime is at most the ceiling, and at most the max-age if there is one.
LEMMA LifetimeIsCut ==
  ASSUME NEW age \in MaxAges \cup {NoHeader}
  PROVE  /\ Lifetime(age) \in Nat /\ Lifetime(age) <= Ceiling
         /\ age # NoHeader => Lifetime(age) <= age
BY CapabilityAssumption DEF Lifetime, NoHeader

\* Every step of the capability client keeps the hits fresh.
LEMMA CapStep == CapInv /\ [CapNext]_capVars => CapInv'
<1> SUFFICES ASSUME CapInv, [CapNext]_capVars PROVE CapInv'
  OBVIOUS
<1>. CapTypeOK /\ EntriesExpire /\ HitsAreFresh /\ CapHorizon \in Nat /\ Ceiling \in Nat
  BY CapabilityAssumption DEF CapInv
<1>. USE DEF CapInv
<1>1. CASE CapTick
  <2>1. UNCHANGED <<policy, discovery>> /\ capClock \in Int /\ capClock' = capClock + 1
        /\ capClock < CapHorizon
    BY <1>1 DEF CapTick, CapTypeOK
  <2>2. CapTypeOK'
    BY <2>1 DEF CapTypeOK
  <2>3. \A c \in Discoverers : discovery[c].pc = "sent" => discovery[c].start \in Nat
    BY DEF CapTypeOK, NoDiscovery
  <2>4. EntriesExpire'
    BY <2>1, <2>3 DEF EntriesExpire
  <2>5. HitsAreFresh'
    BY <2>1 DEF HitsAreFresh
  <2>. QED
    BY <2>2, <2>4, <2>5
<1>2. CASE Invalidate
  BY <1>2 DEF Invalidate, CapTypeOK, EntriesExpire, HitsAreFresh
<1>3. ASSUME NEW c \in Discoverers, DiscoverCapabilities(c) PROVE CapInv'
  <2>1. UNCHANGED <<capClock, policy>>
    BY <1>3 DEF DiscoverCapabilities
  <2>2. CASE Cached
    <3>1. /\ policy \in [caps : {"policy", "legacy", "error"}, given : 0 .. CapHorizon,
                         age : MaxAges \cup {NoHeader}, expires : Nat]
          /\ policy.expires > capClock /\ policy.expires <= policy.given + Lifetime(policy.age)
      BY <2>2 DEF Cached, CapTypeOK, EntriesExpire
    <3>. DEFINE hit == [pc |-> "hit", given |-> policy.given, age |-> policy.age, at |-> capClock]
    <3>2. discovery' = [discovery EXCEPT ![c] = hit]
      BY <1>3, <2>2 DEF DiscoverCapabilities
    <3>3. /\ hit.at - hit.given < Ceiling
          /\ hit.age # NoHeader => hit.at - hit.given < hit.age
      <4>1. policy.age \in MaxAges \cup {NoHeader}
        BY <3>1
      <4>2. /\ Lifetime(policy.age) \in Nat /\ Lifetime(policy.age) <= Ceiling
            /\ policy.age # NoHeader => Lifetime(policy.age) <= policy.age
        BY <4>1, LifetimeIsCut
      <4>3. policy.given \in Nat /\ policy.expires \in Nat /\ capClock \in Nat
        BY <3>1 DEF CapTypeOK
      <4>4. policy.age # NoHeader => policy.age \in Nat
        BY <4>1, CapabilityAssumption
      <4>. QED
        BY <3>1, <4>2, <4>3, <4>4
    <3>4. hit \in [pc : {"hit"}, given : 0 .. CapHorizon, age : MaxAges \cup {NoHeader},
                   at : 0 .. CapHorizon]
      BY <3>1 DEF CapTypeOK
    <3>5. hit.pc = "hit"
      OBVIOUS
    <3>. HIDE DEF hit
    <3>6. CapTypeOK'
      BY <2>1, <3>2, <3>4 DEF CapTypeOK
    <3>7. EntriesExpire'
      BY <2>1, <3>2, <3>5 DEF CapTypeOK, EntriesExpire
    <3>8. HitsAreFresh'
      BY <2>1, <3>2, <3>3, <3>5 DEF CapTypeOK, HitsAreFresh
    <3>. QED
      BY <3>6, <3>7, <3>8
  <2>3. CASE ~Cached
    <3>1. discovery' = [discovery EXCEPT ![c] = [pc |-> "sent", start |-> capClock]]
      BY <1>3, <2>3 DEF DiscoverCapabilities
    <3>. QED
      BY <2>1, <3>1 DEF CapTypeOK, EntriesExpire, HitsAreFresh
  <2>. QED
    BY <2>2, <2>3
<1>4. ASSUME NEW c \in Discoverers, SellerAnswersCard(c) PROVE CapInv'
  <2>1. PICK body \in CardAnswers, header \in [readable : BOOLEAN, seconds : MaxAges] :
          discovery' = [discovery EXCEPT ![c] =
             [pc |-> "answered", start |-> discovery[c].start, caps |-> Capabilities(body),
              age |-> MaxAgeFor(body, header), given |-> capClock]]
    BY <1>4 DEF SellerAnswersCard
  <2>. DEFINE k == [pc |-> "answered", start |-> discovery[c].start, caps |-> Capabilities(body),
                    age |-> MaxAgeFor(body, header), given |-> capClock]
  <2>2. k.pc = "answered" /\ k.start <= k.given
    BY <1>4 DEF SellerAnswersCard, EntriesExpire
  <2>3. discovery[c].start \in 0 .. CapHorizon
    BY <1>4 DEF SellerAnswersCard, CapTypeOK, NoDiscovery
  <2>4. k \in [pc : {"answered"}, start : 0 .. CapHorizon, given : 0 .. CapHorizon,
               caps : {"policy", "legacy", "error"}, age : MaxAges \cup {NoHeader}]
    BY <2>3 DEF CapTypeOK, Capabilities, MaxAgeFor, ParseMaxAge
  <2>. HIDE DEF k
  <2>5. discovery' = [discovery EXCEPT ![c] = k] /\ UNCHANGED <<capClock, policy>>
    BY <1>4, <2>1 DEF k, SellerAnswersCard
  <2>6. CapTypeOK'
    BY <2>4, <2>5 DEF CapTypeOK
  <2>. QED
    BY <2>2, <2>5, <2>6 DEF CapTypeOK, EntriesExpire, HitsAreFresh
<1>5. ASSUME NEW c \in Discoverers, Store(c) PROVE CapInv'
  <2>. DEFINE k == discovery[c]
  <2>1. /\ k \in [pc : {"answered"}, start : 0 .. CapHorizon, given : 0 .. CapHorizon,
                  caps : {"policy", "legacy", "error"}, age : MaxAges \cup {NoHeader}]
        /\ k.start <= k.given
    BY <1>5 DEF Store, CapTypeOK, EntriesExpire, NoDiscovery
  <2>2. /\ policy' = [caps |-> k.caps, given |-> k.given, age |-> k.age,
                      expires |-> k.start + Lifetime(k.age)]
        /\ discovery' = [discovery EXCEPT ![c] = NoDiscovery] /\ UNCHANGED capClock
    BY <1>5 DEF Store
  <2>. HIDE DEF k
  <2>3. Lifetime(k.age) \in Nat
    BY <2>1, LifetimeIsCut
  <2>4. /\ policy' \in [caps : {"policy", "legacy", "error"}, given : 0 .. CapHorizon,
                        age : MaxAges \cup {NoHeader}, expires : Nat]
        /\ policy'.expires <= policy'.given + Lifetime(policy'.age)
    BY <2>1, <2>2, <2>3
  <2>. QED
    BY <2>2, <2>4 DEF CapTypeOK, EntriesExpire, HitsAreFresh, NoDiscovery
<1>6. ASSUME NEW c \in Discoverers, UsesHit(c) PROVE CapInv'
  BY <1>6 DEF UsesHit, CapTypeOK, EntriesExpire, HitsAreFresh, NoDiscovery
<1>7. CASE UNCHANGED capVars
  BY <1>7 DEF capVars, CapTypeOK, EntriesExpire, HitsAreFresh
<1>. QED
  BY <1>1, <1>2, <1>3, <1>4, <1>5, <1>6, <1>7 DEF CapNext

\* The caches start empty.
LEMMA CapStart == CapInit => CapInv
  BY CapabilityAssumption DEF CapInit, CapInv, CapTypeOK, EntriesExpire, HitsAreFresh, NoDiscovery, NoPolicy

--------------------------------------------------------------------------------
(* The directory.                                                          *)

\* What is on a shelf arrived no later than one answer's delay after it was given, and no
\* request waits longer.
CardsArriveInTime ==
    /\ \A k \in Shelves : shelf[k].at - shelf[k].given <= AnswerDelay
    /\ \A c \in Lookers :
         lookup[c].pc \in {"sent", "answered"} => dirClock <= lookup[c].start + AnswerDelay
    /\ \A c \in Lookers :
         lookup[c].pc = "answered" => lookup[c].start <= lookup[c].given
    /\ \A c \in Lookers :
         lookup[c].pc = "sent" => lookup[c].start <= dirClock
DirInv == DirTypeOK /\ CardsArriveInTime /\ CardsAreRecent

\* Nothing on a shelf is nothing late.
LEMMA AbsentInTime == Absent.at - Absent.given <= AnswerDelay
BY DirectoryAssumption DEF Absent, NoTime

\* What a client makes of an answer is an outcome.
LEMMA OutcomesKnown ==
  ASSUME NEW k \in Asked, NEW a \in RegistryAnswers, backend \in {"iab", "aamp"}
  PROVE  DiscoveryPayload(Outcome(k, a)) \in Outcomes
BY DEF DiscoveryPayload, Outcome, Outcomes, DiscoverSellers, FetchAgentCard, RegisterBuyer,
       VerifyAgent, AampDiscoverSellers, FetchCard, AampFetchAgentCard, AampRegisterBuyer,
       AampVerifyAgent, Asked, RegistryAnswers

\* Every step of a registry client keeps what it returns recent.
LEMMA DirStep == DirInv /\ [DirNext]_dirVars => DirInv'
<1> SUFFICES ASSUME DirInv, [DirNext]_dirVars PROVE DirInv'
  OBVIOUS
<1>. DirTypeOK /\ CardsArriveInTime /\ CardsAreRecent
     /\ RegistryTTL \in Nat /\ AnswerDelay \in Nat /\ DirHorizon \in Nat
  BY DirectoryAssumption DEF DirInv
<1>. USE DEF DirInv
<1>1. CASE DirTick
  <2>1. CardsArriveInTime'
    <3>1. /\ \A c \in Lookers : lookup[c].pc \in {"sent", "answered"} =>
               lookup[c].start \in Nat /\ dirClock < lookup[c].start + AnswerDelay
          /\ dirClock \in Nat /\ dirClock' = dirClock + 1 /\ UNCHANGED <<shelf, lookup>>
      BY <1>1 DEF DirTick, DirTypeOK, NoLookup
    <3>. QED
      BY <3>1 DEF CardsArriveInTime
  <2>2. DirTypeOK' /\ CardsAreRecent'
    BY <1>1 DEF DirTick, DirTypeOK, CardsAreRecent
  <2>. QED
    BY <2>1, <2>2
<1>2. ASSUME NEW c \in Lookers, NEW k \in Asked, AskCached(c, k) PROVE DirInv'
  <2>. DEFINE got == IF k = "list" THEN GetList ELSE GetCard(k)
              e == shelf[k]
              hit == [pc |-> "done", said |-> "hit", given |-> e.given, at |-> dirClock]
              request == [pc |-> "sent", of |-> k, start |-> dirClock]
  <2>1. /\ k \in Shelves /\ got = [hit |-> Served(e), left |-> IF Served(e) THEN e ELSE Absent]
    BY <1>2 DEF AskCached, Shelves, GetList, GetCard
  <2>2. /\ shelf' = [shelf EXCEPT ![k] = IF Served(e) THEN e ELSE Absent]
        /\ lookup' = [lookup EXCEPT ![c] = IF Served(e) THEN hit ELSE request]
        /\ UNCHANGED <<backend, dirClock>>
    <3>1. got.hit = Served(e) /\ got.left = IF Served(e) THEN e ELSE Absent
      BY <2>1
    <3>2. /\ shelf' = [shelf EXCEPT ![k] = got.left]
          /\ lookup' = [lookup EXCEPT ![c] = IF got.hit THEN hit ELSE request]
          /\ UNCHANGED <<backend, dirClock>>
      BY <1>2 DEF AskCached, Look
    <3>. HIDE DEF got, hit, request, e
    <3>. QED
      BY <3>1, <3>2
  <2>3. e \in {Absent} \cup [at : 0 .. DirHorizon, given : 0 .. DirHorizon]
    BY <2>1 DEF DirTypeOK
  <2>4. shelf' \in [Shelves -> {Absent} \cup [at : 0 .. DirHorizon, given : 0 .. DirHorizon]]
        /\ \A s \in Shelves : shelf'[s] \in {Absent, shelf[s]}
    <3>. DEFINE x == IF Served(e) THEN e ELSE Absent
    <3>1. x \in {Absent} \cup [at : 0 .. DirHorizon, given : 0 .. DirHorizon] /\ x \in {Absent, e}
      BY <2>3
    <3>2. shelf' = [shelf EXCEPT ![k] = x]
      BY <2>2
    <3>3. shelf \in [Shelves -> {Absent} \cup [at : 0 .. DirHorizon, given : 0 .. DirHorizon]]
      BY DEF DirTypeOK
    <3>. HIDE DEF got, hit, request, x
    <3>. QED
      BY <2>1, <3>1, <3>2, <3>3
  <2>5. CASE Served(e)
    <3>1. /\ e \in [at : 0 .. DirHorizon, given : 0 .. DirHorizon] /\ dirClock - e.at <= RegistryTTL
          /\ e.at - e.given <= AnswerDelay
      BY <2>1, <2>3, <2>5 DEF Served, CardsArriveInTime
    <3>2. /\ hit \in [pc : {"done"}, said : Outcomes, given : 0 .. DirHorizon, at : 0 .. DirHorizon]
          /\ hit.at - hit.given <= RegistryTTL + AnswerDelay /\ hit.pc = "done"
      BY <3>1 DEF DirTypeOK, Outcomes
    <3>3. lookup' = [lookup EXCEPT ![c] = hit]
      BY <2>2, <2>5
    <3>. HIDE DEF hit, e, got
    <3>4. DirTypeOK'
      BY <2>2, <2>4, <3>2, <3>3 DEF DirTypeOK
    <3>5. CardsArriveInTime'
      <4>1. \A s \in Shelves : shelf'[s].at - shelf'[s].given <= AnswerDelay
        BY <2>4, AbsentInTime DEF CardsArriveInTime
      <4>. QED
        BY <2>2, <3>2, <3>3, <4>1 DEF DirTypeOK, CardsArriveInTime
    <3>6. CardsAreRecent'
      BY <2>2, <3>2, <3>3 DEF DirTypeOK, CardsAreRecent
    <3>. QED
      BY <3>4, <3>5, <3>6
  <2>6. CASE ~Served(e)
    <3>1. lookup' = [lookup EXCEPT ![c] = request]
      BY <2>2, <2>6
    <3>a. request \in [pc : {"sent"}, of : Asked, start : 0 .. DirHorizon]
          /\ request.pc = "sent" /\ request.start = dirClock
      BY DEF DirTypeOK
    <3>. HIDE DEF hit, e, got, request
    <3>4. DirTypeOK'
      BY <2>2, <2>4, <3>1, <3>a DEF DirTypeOK
    <3>5. CardsArriveInTime'
      <4>1. \A s \in Shelves : shelf'[s].at - shelf'[s].given <= AnswerDelay
        BY <2>4, AbsentInTime DEF CardsArriveInTime
      <4>2. dirClock <= dirClock + AnswerDelay /\ dirClock <= dirClock
        BY DEF DirTypeOK
      <4>. QED
        BY <2>2, <3>1, <3>a, <4>1, <4>2 DEF DirTypeOK, CardsArriveInTime
    <3>6. CardsAreRecent'
      BY <2>2, <3>1, <3>a DEF DirTypeOK, CardsAreRecent
    <3>. QED
      BY <3>4, <3>5, <3>6
  <2>. QED
    BY <2>5, <2>6
<1>3. ASSUME NEW c \in Lookers, NEW k \in Asked, AskAlways(c, k) PROVE DirInv'
  <2>1. /\ lookup' = [lookup EXCEPT ![c] = [pc |-> "sent", of |-> k, start |-> dirClock]]
        /\ UNCHANGED <<backend, dirClock, shelf>>
    BY <1>3 DEF AskAlways, Look
  <2>. QED
    BY <2>1 DEF DirTypeOK, CardsArriveInTime, CardsAreRecent
<1>4. ASSUME NEW c \in Lookers, DirAnswers(c) PROVE DirInv'
  <2>1. lookup[c] \in [pc : {"sent"}, of : Asked, start : 0 .. DirHorizon]
    BY <1>4 DEF DirAnswers, DirTypeOK, NoLookup
  <2>. DEFINE k == [pc |-> "answered", of |-> lookup[c].of, start |-> lookup[c].start,
                    given |-> dirClock]
  <2>2. /\ k \in [pc : {"answered"}, of : Asked, start : 0 .. DirHorizon, given : 0 .. DirHorizon]
        /\ k.pc = "answered" /\ k.start <= k.given /\ dirClock <= k.start + AnswerDelay
    BY <2>1 DEF DirTypeOK, CardsArriveInTime
  <2>3. lookup' = [lookup EXCEPT ![c] = k] /\ UNCHANGED <<backend, dirClock, shelf>>
    BY <1>4 DEF DirAnswers, Look
  <2>. HIDE DEF k
  <2>4. DirTypeOK'
    BY <2>2, <2>3 DEF DirTypeOK
  <2>. QED
    BY <2>2, <2>3, <2>4 DEF DirTypeOK, CardsArriveInTime, CardsAreRecent
<1>5. ASSUME NEW c \in Lookers, TakeAnswer(c) PROVE DirInv'
  <2>. DEFINE k == lookup[c]
  <2>1. /\ k \in [pc : {"answered"}, of : Asked, start : 0 .. DirHorizon, given : 0 .. DirHorizon]
        /\ k.start <= k.given /\ dirClock <= k.start + AnswerDelay
    BY <1>5 DEF TakeAnswer, DirTypeOK, CardsArriveInTime, NoLookup
  <2>2. PICK said \in {Outcome(k.of, a) : a \in RegistryAnswers} :
         /\ shelf' = [s \in Shelves |-> IF s \in PutCards(k.of, said)
                                        THEN [at |-> dirClock, given |-> k.given] ELSE shelf[s]]
         /\ lookup' = [lookup EXCEPT ![c] = [pc |-> "done", said |-> DiscoveryPayload(said),
                                             given |-> k.given, at |-> dirClock]]
         /\ UNCHANGED <<backend, dirClock>>
    BY <1>5 DEF TakeAnswer, Look
  <2>3. DiscoveryPayload(said) \in Outcomes
    BY <2>1, <2>2, OutcomesKnown DEF DirTypeOK
  <2>. DEFINE done == [pc |-> "done", said |-> DiscoveryPayload(said), given |-> k.given,
                       at |-> dirClock]
              card == [at |-> dirClock, given |-> k.given]
  <2>4. /\ done \in [pc : {"done"}, said : Outcomes, given : 0 .. DirHorizon, at : 0 .. DirHorizon]
        /\ done.pc = "done" /\ done.at - done.given <= AnswerDelay
        /\ card \in [at : 0 .. DirHorizon, given : 0 .. DirHorizon]
        /\ card.at - card.given <= AnswerDelay
    BY <2>1, <2>3 DEF DirTypeOK
  <2>5. /\ \A s \in Shelves : shelf'[s] \in {card, shelf[s]}
        /\ shelf' = [s \in Shelves |-> shelf'[s]]
        /\ lookup' = [lookup EXCEPT ![c] = done]
    BY <2>2
  <2>. HIDE DEF k, done, card
  <2>6. DirTypeOK'
    BY <2>2, <2>4, <2>5 DEF DirTypeOK
  <2>7. CardsArriveInTime'
    BY <2>2, <2>4, <2>5 DEF DirTypeOK, CardsArriveInTime
  <2>8. CardsAreRecent'
    <3>1. done.at - done.given <= RegistryTTL + AnswerDelay
      BY <2>4
    <3>. QED
      BY <2>4, <2>5, <3>1 DEF DirTypeOK, CardsAreRecent
  <2>. QED
    BY <2>6, <2>7, <2>8
<1>6. ASSUME NEW c \in Lookers, DirReturn(c) PROVE DirInv'
  BY <1>6 DEF DirReturn, Look, DirTypeOK, CardsArriveInTime, CardsAreRecent, NoLookup
<1>7. CASE UNCHANGED dirVars
  BY <1>7 DEF dirVars, DirTypeOK, CardsArriveInTime, CardsAreRecent
<1>. QED
  BY <1>1, <1>2, <1>3, <1>4, <1>5, <1>6, <1>7 DEF DirNext

\* The shelves start empty.
LEMMA DirStart == DirInit => DirInv
  BY DirectoryAssumption DEF DirInit, DirInv, DirTypeOK, CardsArriveInTime, CardsAreRecent,
                             NoLookup, Absent, CreateRegistryClient, NoTime

--------------------------------------------------------------------------------
(* SellerClient: all coroutines share one connection.                      *)

\* The coroutines that open or close a connection, at most one of them at a time as long as
\* no close crosses another: then what is open is what the client refers to.
Handling == {c \in Coroutines :
               coroutine[c].at \in {"connecting", "closing session", "closing transport"}}
OneHandles ==
    ~crossed =>
      /\ \A k \in transport : k = mcp /\ k # 0
      /\ \A c \in Handling : coroutine[c].on = mcp /\ mcp # 0
      /\ \A c, d \in Handling : c = d
ConnectingIsSome ==
    \A c \in Coroutines : coroutine[c].at = "connecting" => coroutine[c].on \in Clients
ClientTypes == ClientTypeOK /\ ConnectingIsSome
ConnectionInv == ClientTypes /\ OneHandles

Ats == {"idle", "connecting", "calling", "closing session", "closing transport",
        "closing a2a", "asking", "asking anew"}

\* What a coroutine's move changes.
LEMMA CoroutineMoves ==
  ASSUME ClientTypeOK, NEW c \in Coroutines, NEW at \in Ats, NEW k \in 0 .. MaxOpenings,
         Goto(c, at, k)
  PROVE  /\ coroutine' \in [Coroutines -> [at : Ats, on : 0 .. MaxOpenings]]
         /\ coroutine'[c] = [at |-> at, on |-> k]
         /\ coroutine'[c].at = at /\ coroutine'[c].on = k
         /\ \A d \in Coroutines \ {c} : coroutine'[d] = coroutine[d]
         /\ ConnectingIsSome /\ (at = "connecting" => k \in Clients) => ConnectingIsSome'
<1>. DEFINE r == [at |-> at, on |-> k]
<1>1. r \in [at : Ats, on : 0 .. MaxOpenings] /\ r.at = at /\ r.on = k
  OBVIOUS
<1>. HIDE DEF r
<1>2. coroutine \in [Coroutines -> [at : Ats, on : 0 .. MaxOpenings]]
  BY DEF ClientTypeOK, Ats
<1>3. coroutine' = [coroutine EXCEPT ![c] = r]
  BY DEF Goto, r
<1>. QED
  BY <1>1, <1>2, <1>3 DEF r, ConnectingIsSome

\* How a call ends is counted.
LEMMA CallCounted ==
  ASSUME ClientTypeOK, NEW how \in {"answered", "refused", "failed"}, Answered(how)
  PROVE  outcome' \in [answered : Nat, refused : Nat, failed : Nat]
<1>. outcome \in [answered : Nat, refused : Nat, failed : Nat]
     /\ outcome' = [outcome EXCEPT ![how] = outcome[how] + 1]
  BY DEF ClientTypeOK, Answered
<1>. CASE how = "answered"
  OBVIOUS
<1>. CASE how = "refused"
  OBVIOUS
<1>. CASE how = "failed"
  OBVIOUS
<1>. QED
  OBVIOUS

\* The A2A clients that messages make are within the bound.
LEMMA MadeIsBounded ==
  ASSUME ClientTypeOK, NEW c \in Coroutines, SendMessage(c)
  PROVE  a2a' \in [id : 0 .. MaxOpenings, made : 0 .. MaxOpenings]
<1>1. CASE UNCHANGED a2a
  BY <1>1 DEF ClientTypeOK
<1>2. CASE a2a.made < MaxOpenings /\ a2a' = [id |-> a2a.made + 1, made |-> a2a.made + 1]
  <2>1. a2a.made \in 0 .. MaxOpenings /\ MaxOpenings \in Nat
    BY SellerClientAssumption DEF ClientTypeOK
  <2>2. a2a.made + 1 \in 0 .. MaxOpenings
    BY <1>2, <2>1
  <2>. QED
    BY <1>2, <2>2
<1>. QED
  BY <1>1, <1>2 DEF SendMessage

\* A step in which c neither starts nor goes on to open or close anything.
LEMMA StaysOut ==
  ASSUME ConnectionInv, NEW c \in Coroutines, NEW at \in Ats, NEW k \in 0 .. MaxOpenings,
         Goto(c, at, k), at \in {"idle", "calling", "closing a2a", "asking", "asking anew"},
         UNCHANGED <<mcp, transport, crossed>>
  PROVE  OneHandles'
<1>. coroutine'[c].at = at /\ \A d \in Coroutines \ {c} : coroutine'[d] = coroutine[d]
  BY CoroutineMoves DEF ConnectionInv, ClientTypes
<1>1. Handling' \subseteq Handling \ {c}
  BY DEF Handling
<1>2. \A d \in Handling' : coroutine'[d] = coroutine[d]
  BY <1>1 DEF Handling
<1>. QED
  BY <1>1, <1>2 DEF ConnectionInv, OneHandles

\* Every step keeps the type of the client's state.
LEMMA ClientTypeStep == ClientTypes /\ [ClientNext]_clientVars => ClientTypes'
<1> SUFFICES ASSUME ClientTypes, [ClientNext]_clientVars PROVE ClientTypes'
  OBVIOUS
<1>. ClientTypeOK /\ ConnectingIsSome
  BY DEF ClientTypes
<1>. MaxOpenings \in Nat /\ MaxToolCalls \in Nat /\ 0 \in 0 .. MaxOpenings /\ "idle" \in Ats
  BY SellerClientAssumption DEF Ats
<1>. DEFINE CoroutineOK == coroutine' \in [Coroutines -> [at : Ats, on : 0 .. MaxOpenings]]
                           /\ ConnectingIsSome'
            OutcomeOK == outcome' \in [answered : Nat, refused : Nat, failed : Nat]
<1>a. \A c \in Coroutines : coroutine[c].at \in Ats /\ coroutine[c].on \in 0 .. MaxOpenings
  BY DEF ClientTypeOK, Ats
<1>1. ASSUME NEW c \in Coroutines, Connect(c) PROVE ClientTypes'
  <2>1. PICK k \in Clients : /\ mcp' = Registered(k)
                             /\ opening' = [opening EXCEPT ![k] = "transport"]
                             /\ Goto(c, "connecting", k)
    BY <1>1 DEF Connect
  <2>2. k \in 0 .. MaxOpenings /\ "connecting" \in Ats
    BY DEF Clients, Ats
  <2>3. CoroutineOK
    BY <2>1, <2>2, CoroutineMoves
  <2>. QED
    BY <1>1, <2>1, <2>2, <2>3 DEF Connect, ClientTypes, ClientTypeOK, a2aVars, Ats, Registered
<1>2. ASSUME NEW c \in Coroutines, EnsureProtocol(c) PROVE ClientTypes'
  <2>1. CoroutineOK
    BY <1>2, CoroutineMoves DEF EnsureProtocol, ClientTypeOK, Ats
  <2>. QED
    BY <1>2, <2>1 DEF EnsureProtocol, ClientTypes, ClientTypeOK, mcpVars, a2aVars, Ats
<1>3. ASSUME NEW c \in Coroutines, Connected(c) PROVE ClientTypes'
  <2>. DEFINE k == coroutine[c].on
  <2>1. k \in 0 .. MaxOpenings /\ {"idle", "calling"} \subseteq Ats
    BY <1>a DEF Ats
  <2>2. CASE /\ opening[k] = "transport"
             /\ opening' = [opening EXCEPT ![k] = "session"]
             /\ transport' = transport \cup {k} /\ session' = session \cup {k}
             /\ UNCHANGED <<coroutine, outcome>>
    <3>1. k \in Clients
      BY <1>3 DEF Connected, ConnectingIsSome
    <3>. QED
      BY <1>3, <2>2, <3>1 DEF Connected, ClientTypes, ConnectingIsSome, ClientTypeOK, a2aVars
  <2>3. CASE /\ opening' = [opening EXCEPT ![k] = "ready"]
             /\ Goto(c, "calling", k)
             /\ UNCHANGED <<transport, session, outcome>>
    <3>1. CoroutineOK
      BY <2>1, <2>3, CoroutineMoves
    <3>. QED
      BY <1>3, <2>3, <3>1 DEF Connected, ClientTypes, ClientTypeOK, a2aVars, Ats
  <2>4. CASE /\ opening' = [opening EXCEPT ![k] = "failed"]
             /\ Return(c) /\ Answered("failed")
             /\ UNCHANGED <<transport, session>>
    <3>1. CoroutineOK /\ OutcomeOK
      BY <2>1, <2>4, CoroutineMoves, CallCounted DEF Return
    <3>. QED
      BY <1>3, <2>4, <3>1 DEF Connected, ClientTypes, ClientTypeOK, a2aVars, Ats
  <2>. QED
    BY <1>3, <2>2, <2>3, <2>4 DEF Connected
<1>4. ASSUME NEW c \in Coroutines, CallTool(c) PROVE ClientTypes'
  <2>1. PICK how \in {"answered", "refused", "failed"} : Answered(how)
    BY <1>4 DEF CallTool, CallOutcomes
  <2>2. CoroutineOK /\ OutcomeOK
    BY <1>4, <2>1, CoroutineMoves, CallCounted DEF CallTool, Return
  <2>. QED
    BY <1>4, <2>2 DEF CallTool, ClientTypes, ClientTypeOK, mcpVars, a2aVars, Ats
<1>5. ASSUME NEW c \in Coroutines, Close(c) PROVE ClientTypes'
  <2>1. PICK at \in Ats, k \in 0 .. MaxOpenings : at # "connecting" /\ Goto(c, at, k) /\ crossed' \in BOOLEAN
    BY <1>5 DEF Close, ClientTypeOK, Ats, CloseCrosses
  <2>2. CoroutineOK
    BY <2>1, CoroutineMoves
  <2>. QED
    BY <1>5, <2>1, <2>2 DEF Close, ClientTypes, ClientTypeOK, mcpVars, a2aVars, Ats
<1>6. ASSUME NEW c \in Coroutines, SessionClosed(c) PROVE ClientTypes'
  <2>1. CoroutineOK
    BY <1>6, <1>a, CoroutineMoves DEF SessionClosed, Ats
  <2>. QED
    BY <1>6, <2>1 DEF SessionClosed, ClientTypes, ClientTypeOK, a2aVars, Ats
<1>7. ASSUME NEW c \in Coroutines, TransportClosed(c) PROVE ClientTypes'
  <2>1. PICK at \in Ats, k \in 0 .. MaxOpenings : at # "connecting" /\ Goto(c, at, k)
    BY <1>7 DEF TransportClosed, ClientTypeOK, Ats, Return
  <2>2. CoroutineOK
    BY <2>1, CoroutineMoves
  <2>3. opening' \in [Clients -> {"unused", "transport", "session", "ready", "failed", "closed"}]
    BY <1>7 DEF TransportClosed, ClientTypeOK
  <2>. QED
    BY <1>7, <2>2, <2>3 DEF TransportClosed, ClientTypes, ClientTypeOK, a2aVars, Ats
<1>8. ASSUME NEW c \in Coroutines, A2AClosed(c) PROVE ClientTypes'
  <2>1. CoroutineOK
    BY <1>8, CoroutineMoves DEF A2AClosed, Return
  <2>. QED
    BY <1>8, <2>1 DEF A2AClosed, ClientTypes, ClientTypeOK, mcpVars, Ats
<1>9. ASSUME NEW c \in Coroutines, SendMessage(c) PROVE ClientTypes'
  <2>1. a2a' \in [id : 0 .. MaxOpenings, made : 0 .. MaxOpenings]
    BY <1>9, MadeIsBounded
  <2>2. PICK at \in {"asking", "asking anew"} : Goto(c, at, a2a'.id)
    BY <1>9 DEF SendMessage
  <2>a. a2a'.id \in 0 .. MaxOpenings /\ at \in Ats /\ at # "connecting"
    BY <2>1 DEF Ats
  <2>3. CoroutineOK
    BY <2>2, <2>a, CoroutineMoves
  <2>. QED
    BY <1>9, <2>1, <2>3 DEF SendMessage, ClientTypes, ClientTypeOK, mcpVars, Ats
<1>10. ASSUME NEW c \in Coroutines, MessageAnswered(c) PROVE ClientTypes'
  <2>1. CoroutineOK /\ OutcomeOK
    BY <1>10, CoroutineMoves, CallCounted DEF MessageAnswered, Return
  <2>2. context' \in [id : Contexts \cup {NoContext}, opened : SUBSET Contexts]
    <3>1. CASE UNCHANGED context
      BY <3>1 DEF ClientTypeOK
    <3>2. ASSUME NEW x \in Contexts, context' = Kept(c, x)
          PROVE  context' \in [id : Contexts \cup {NoContext}, opened : SUBSET Contexts]
      BY <3>2 DEF ClientTypeOK, Kept
    <3>. QED
      BY <1>10, <3>1, <3>2 DEF MessageAnswered
  <2>. QED
    BY <1>10, <2>1, <2>2 DEF MessageAnswered, ClientTypes, ClientTypeOK, mcpVars, Ats
<1>11. ASSUME NEW c \in Coroutines, MessageFailed(c) PROVE ClientTypes'
  <2>1. CoroutineOK /\ OutcomeOK
    BY <1>11, CoroutineMoves, CallCounted DEF MessageFailed, Return
  <2>. QED
    BY <1>11, <2>1 DEF MessageFailed, ClientTypes, ClientTypeOK, mcpVars, a2aVars, Ats
<1>12. CASE UNCHANGED clientVars
  BY <1>12 DEF clientVars, mcpVars, a2aVars, ClientTypes, ConnectingIsSome, ClientTypeOK
<1>. QED
  BY <1>1, <1>2, <1>3, <1>4, <1>5, <1>6, <1>7, <1>8, <1>9, <1>10, <1>11, <1>12 DEF ClientNext

\* Every step keeps opening and closing in one coroutine's hands, if none crosses another.
LEMMA ConnectionStep == ConnectionInv /\ [ClientNext]_clientVars => ConnectionInv'
<1> SUFFICES ASSUME ConnectionInv, [ClientNext]_clientVars PROVE OneHandles'
  BY ClientTypeStep DEF ConnectionInv
<1>. ClientTypeOK /\ ClientTypes /\ OneHandles /\ MaxOpenings \in Nat /\ 0 \in 0 .. MaxOpenings /\ "idle" \in Ats
  BY SellerClientAssumption DEF ConnectionInv, ClientTypes, Ats
<1>a. \A c \in Coroutines : coroutine[c].at \in Ats /\ coroutine[c].on \in 0 .. MaxOpenings
  BY DEF ClientTypeOK, Ats
<1>1. ASSUME NEW c \in Coroutines, Connect(c) PROVE OneHandles'
  <2>1. PICK k \in Clients : mcp' = k /\ Goto(c, "connecting", k)
    BY <1>1 DEF Connect, Registered
  <2>2. k \in 0 .. MaxOpenings /\ "connecting" \in Ats /\ k # 0
    BY DEF Clients, Ats
  <2>3. coroutine'[c].on = k /\ \A d \in Coroutines \ {c} : coroutine'[d] = coroutine[d]
    BY <2>1, <2>2, CoroutineMoves
  <2>4. ~crossed => Handling = {} /\ transport = {}
    BY <1>1 DEF Connect, OneHandles
  <2>5. ~crossed => Handling' \subseteq {c}
    BY <2>3, <2>4 DEF Handling
  <2>. QED
    BY <1>1, <2>1, <2>2, <2>3, <2>4, <2>5 DEF Connect, OneHandles
<1>2. ASSUME NEW c \in Coroutines, EnsureProtocol(c) PROVE OneHandles'
  <2>1. "calling" \in Ats /\ mcp \in 0 .. MaxOpenings
    BY DEF ClientTypeOK, Ats
  <2>. QED
    BY <1>2, <2>1, StaysOut DEF EnsureProtocol, mcpVars
<1>3. ASSUME NEW c \in Coroutines, Connected(c) PROVE OneHandles'
  <2>. DEFINE k == coroutine[c].on
  <2>1. k \in 0 .. MaxOpenings /\ {"idle", "calling"} \subseteq Ats /\ c \in Handling
    BY <1>3, <1>a DEF Ats, Connected, Handling
  <2>2. CASE /\ transport' = transport \cup {k}
             /\ UNCHANGED coroutine
    BY <1>3, <2>1, <2>2 DEF Connected, OneHandles, Handling
  <2>3. CASE Goto(c, "calling", k) /\ UNCHANGED transport
    BY <1>3, <2>1, <2>3, StaysOut DEF Connected
  <2>4. CASE Goto(c, "idle", 0) /\ UNCHANGED transport
    BY <1>3, <2>1, <2>4, StaysOut DEF Connected
  <2>. QED
    BY <1>3, <2>2, <2>3, <2>4 DEF Connected, Return
<1>4. ASSUME NEW c \in Coroutines, CallTool(c) PROVE OneHandles'
  BY <1>4, StaysOut DEF CallTool, Return, mcpVars
<1>5. ASSUME NEW c \in Coroutines, Close(c) PROVE OneHandles'
  <2>1. CASE mcp # 0 /\ Goto(c, "closing session", mcp) /\ crossed' = (crossed \/ CloseCrosses)
    <3>1. "closing session" \in Ats /\ mcp \in 0 .. MaxOpenings
      BY DEF ClientTypeOK, Ats
    <3>2. coroutine'[c].on = mcp /\ \A d \in Coroutines \ {c} : coroutine'[d] = coroutine[d]
      BY <2>1, <3>1, CoroutineMoves
    <3>3. ~crossed' => ~crossed /\ Handling = {}
      BY <2>1 DEF CloseCrosses, Handling
    <3>4. ~crossed' => Handling' \subseteq {c}
      BY <3>2, <3>3 DEF Handling
    <3>. QED
      BY <1>5, <2>1, <3>2, <3>3, <3>4 DEF Close, OneHandles, mcpVars
  <2>2. CASE Goto(c, "closing a2a", a2a.id) /\ UNCHANGED crossed
    <3>1. "closing a2a" \in Ats /\ a2a.id \in 0 .. MaxOpenings
      BY DEF ClientTypeOK, Ats
    <3>. QED
      BY <1>5, <2>2, <3>1, StaysOut DEF Close, mcpVars
  <2>. QED
    BY <1>5, <2>1, <2>2 DEF Close
<1>6. ASSUME NEW c \in Coroutines, SessionClosed(c) PROVE OneHandles'
  <2>1. /\ "closing transport" \in Ats /\ coroutine[c].on \in 0 .. MaxOpenings /\ c \in Handling
        /\ Goto(c, "closing transport", coroutine[c].on)
        /\ UNCHANGED <<mcp, transport, crossed>>
    BY <1>6, <1>a DEF SessionClosed, Ats, Handling
  <2>2. coroutine'[c].on = coroutine[c].on /\ \A d \in Coroutines \ {c} : coroutine'[d] = coroutine[d]
    BY <2>1, CoroutineMoves
  <2>3. Handling' \subseteq Handling
    BY <2>1, <2>2 DEF Handling
  <2>. QED
    BY <2>1, <2>2, <2>3 DEF OneHandles, Handling
<1>7. ASSUME NEW c \in Coroutines, TransportClosed(c) PROVE OneHandles'
  <2>1. PICK at \in {"idle", "closing a2a"}, k \in 0 .. MaxOpenings : Goto(c, at, k)
    BY <1>7 DEF TransportClosed, ClientTypeOK, Ats, Return
  <2>2. at \in Ats /\ c \in Handling
    BY <1>7 DEF Ats, TransportClosed, Handling
  <2>3. coroutine'[c].at = at /\ \A d \in Coroutines \ {c} : coroutine'[d] = coroutine[d]
    BY <2>1, <2>2, CoroutineMoves
  <2>4. Handling' \subseteq Handling \ {c}
    BY <2>1, <2>3 DEF Handling
  <2>5. ~crossed => Handling' = {} /\ transport' = {}
    BY <1>7, <2>2, <2>4 DEF TransportClosed, OneHandles
  <2>. QED
    BY <1>7, <2>5 DEF TransportClosed, OneHandles
<1>8. ASSUME NEW c \in Coroutines, A2AClosed(c) PROVE OneHandles'
  BY <1>8, StaysOut DEF A2AClosed, Return, mcpVars
<1>9. ASSUME NEW c \in Coroutines, SendMessage(c) PROVE OneHandles'
  <2>1. a2a'.id \in 0 .. MaxOpenings
    BY <1>9, MadeIsBounded
  <2>2. PICK at \in {"asking", "asking anew"} : Goto(c, at, a2a'.id)
    BY <1>9 DEF SendMessage
  <2>3. at \in Ats
    BY DEF Ats
  <2>. QED
    BY <1>9, <2>1, <2>2, <2>3, StaysOut DEF SendMessage, mcpVars
<1>10. ASSUME NEW c \in Coroutines, MessageAnswered(c) PROVE OneHandles'
  BY <1>10, StaysOut DEF MessageAnswered, Return, mcpVars
<1>11. ASSUME NEW c \in Coroutines, MessageFailed(c) PROVE OneHandles'
  BY <1>11, StaysOut DEF MessageFailed, Return, mcpVars
<1>12. CASE UNCHANGED clientVars
  BY <1>12 DEF clientVars, mcpVars, OneHandles, Handling
<1>. QED
  BY <1>1, <1>2, <1>3, <1>4, <1>5, <1>6, <1>7, <1>8, <1>9, <1>10, <1>11, <1>12 DEF ClientNext

\* The client starts without a connection.
LEMMA ConnectionStart == ClientInit => ConnectionInv
<1> SUFFICES ASSUME ClientInit PROVE ClientTypes /\ OneHandles
  BY DEF ConnectionInv
<1>. 0 \in 0 .. MaxOpenings
  BY SellerClientAssumption
<1>1. ClientTypes
  BY DEF ClientInit, ClientTypes, ConnectingIsSome, ClientTypeOK, Idle
<1>2. Handling = {} /\ transport = {}
  BY DEF ClientInit, Handling, Idle
<1>. QED
  BY <1>1, <1>2 DEF OneHandles

\* One coroutine at a time means one connection, and the one the client refers to.
LEMMA ConnectionIsOne == ConnectionInv => OneConnection
<1> SUFFICES ASSUME ConnectionInv, ~crossed
             PROVE  Cardinality(transport) <= 1 /\ \A k \in Clients : ~Stranded(k)
  BY DEF OneConnection
<1>1. transport \subseteq {mcp}
  BY DEF ConnectionInv, OneHandles
<1>2. IsFiniteSet({mcp}) /\ Cardinality({mcp}) = 1
  BY FS_Singleton
<1>3. Cardinality(transport) <= 1
  BY <1>1, <1>2, FS_Subset
<1>. QED
  BY <1>1, <1>3 DEF Stranded

--------------------------------------------------------------------------------
(* PricingDesk: prices, and the deals that are issued at them.             *)

\* What was shown and issued has the calculator's price for the list price, volume and
\* target it was made at; a deal that the tool issued is one it admits, within the ceiling.
PricesAreCalculated ==
    /\ \A s \in shown : s.price = Cents(FinalPrice(s.cpm, s.volume, NoTarget))
    /\ \A d \in issued : d.price = Cents(FinalPrice(d.cpm, d.volume, d.target))
ToolKeepsTerms ==
    /\ \A c \in DeskCallers :
         asking[c].at = "gate" /\ asking[c].type = "PG" => asking[c].volume # 0
    /\ \A d \in issued :
         d.via = "tool" => d.price <= DealCeiling /\ (d.type = "PG" => d.volume # 0)
TermsInv == PricingTypeOK /\ IsFiniteSet(issued) /\ PricesAreCalculated /\ ToolKeepsTerms

Tiers == {"public", "seat", "agency", "advertiser"}

\* Every identity has a tier.
LEMMA TiersKnown == access.identity \in SUBSET {"seat", "agency", "advertiser"} => BuyerTier \in Tiers
<1> SUFFICES ASSUME access.identity \in SUBSET {"seat", "agency", "advertiser"}
             PROVE  BuyerTier \in Tiers
  OBVIOUS
<1>. DEFINE i == access.identity
<1>1. CASE "advertiser" \in i
  BY <1>1 DEF BuyerTier, AccessTier, Tiers
<1>2. CASE "advertiser" \notin i /\ "agency" \in i
  BY <1>2 DEF BuyerTier, AccessTier, Tiers
<1>3. CASE i = {"seat"}
  BY <1>3 DEF BuyerTier, AccessTier, Tiers
<1>4. CASE i = {}
  BY <1>4 DEF BuyerTier, AccessTier, Tiers
<1>. QED
  BY <1>1, <1>2, <1>3, <1>4

\* A price is a natural number, and at or above the floor of its list price.
LEMMA PriceAboveFloor ==
  ASSUME BuyerTier \in Tiers, NEW cpm \in Nat, NEW volume \in Nat,
         NEW target \in Nat \cup {NoTarget}
  PROVE  /\ FinalPrice(cpm, volume, target) \in Nat
         /\ FloorPrice(cpm, BuyerTier) \in Nat
         /\ FinalPrice(cpm, volume, target) >= FloorPrice(cpm, BuyerTier)
<1>. DEFINE tier == BuyerTier
            off == DiscountPercentage[tier]
            less == VolumeDiscount(volume, tier)
<1>1. off \in {0, 5, 10, 15}
  BY DEF DiscountPercentage, Tiers
<1>2. less \in {0, 5, 10}
  BY DEF VolumeDiscount
<1>. HIDE DEF tier, off, less
<1>3. /\ cpm * (100 - off) \in Nat /\ cpm * (100 - off) * 90 \in Nat
      /\ (cpm * (100 - off) * 100) \div 100 = cpm * (100 - off)
      /\ cpm * (100 - off) * (100 - less) \in Nat
      /\ cpm * (100 - off) * (100 - less) >= cpm * (100 - off) * 90
  <2>. DEFINE x == cpm * (100 - off)
  <2>1. x \in Nat
    BY <1>1
  <2>. HIDE DEF x
  <2>2. x * 90 \in Nat /\ (x * 100) \div 100 = x /\ x * (100 - less) \in Nat /\ x * (100 - less) >= x * 90
    BY <1>2, <2>1
  <2>. QED
    BY <2>1, <2>2 DEF x
<1>4. FloorPrice(cpm, tier) = cpm * (100 - off) * 90
  BY DEF FloorPrice, off
<1>5. CASE target # NoTarget /\ CanNegotiate(BuyerTier) /\ access.negotiable
  <2>1. target * 10000 \in Nat
    BY <1>5
  <2>. QED
    BY <1>3, <1>4, <1>5, <2>1 DEF FinalPrice, tier
<1>6. CASE ~(target # NoTarget /\ CanNegotiate(BuyerTier) /\ access.negotiable)
  <2>1. FinalPrice(cpm, volume, target) = (Tiered(cpm, tier) \div 100) * (100 - less)
    BY <1>6 DEF FinalPrice, tier, less
  <2>2. Tiered(cpm, tier) = cpm * (100 - off) * 100
    BY DEF Tiered, off
  <2>. QED
    BY <1>3, <1>4, <2>1, <2>2 DEF tier
<1>. QED
  BY <1>5, <1>6

\* Rounding to a cent loses at most half of it.
LEMMA CentsRound ==
  ASSUME NEW x \in Nat
  PROVE  Cents(x) \in Nat /\ Cents(x) * 10000 + 5000 >= x
BY DEF Cents

\* As long as the buyer stays who it is, so do its prices.
LEMMA SamePrices ==
  ASSUME UNCHANGED access
  PROVE  \A cpm, volume, target :
           (FinalPrice(cpm, volume, target))' = FinalPrice(cpm, volume, target)
BY DEF FinalPrice, FloorPrice, Tiered, VolumeDiscount, BuyerTier, CanNegotiate, AccessTier,
       DiscountPercentage

\* What a step leaves of the invariant when it neither shows nor issues anything.
LEMMA AskingMoves ==
  ASSUME TermsInv, asking' \in [DeskCallers -> Requests],
         listed' \in [cpm : ListPrices, version : 0 .. MaxReprices],
         UNCHANGED <<access, shown, issued>>,
         \A c \in DeskCallers : asking'[c].at = "gate" /\ asking'[c].type = "PG" => asking'[c].volume # 0
  PROVE  TermsInv'
<1>1. PricesAreCalculated'
  BY SamePrices DEF TermsInv, PricesAreCalculated, Cents
<1>. QED
  BY <1>1 DEF TermsInv, PricingTypeOK, ToolKeepsTerms

\* A price that is shown.
LEMMA PriceShown ==
  ASSUME TermsInv, NEW volume \in DealVolumes, NEW types \in SUBSET DealTypes,
         shown' = shown \cup {[Shown(volume) EXCEPT !.types = types]},
         UNCHANGED <<access, listed, asking, issued>>
  PROVE  TermsInv'
<1>. DEFINE s == [Shown(volume) EXCEPT !.types = types]
<1>1. /\ listed.cpm \in ListPrices /\ listed.cpm \in Nat /\ volume \in Nat
      /\ access.identity \in SUBSET {"seat", "agency", "advertiser"}
  BY PricingAssumption DEF TermsInv, PricingTypeOK
<1>2. Cents(FinalPrice(listed.cpm, volume, NoTarget)) \in Nat
  <2>1. BuyerTier \in Tiers
    BY <1>1, TiersKnown
  <2>2. FinalPrice(listed.cpm, volume, NoTarget) \in Nat
    BY <1>1, <2>1, PriceAboveFloor
  <2>. QED
    BY <2>2, CentsRound
<1>3. s = [cpm |-> listed.cpm, volume |-> volume, types |-> types,
           price |-> Cents(FinalPrice(listed.cpm, volume, NoTarget))]
  BY DEF Shown
<1>4. /\ s \in [cpm : ListPrices, volume : DealVolumes, types : SUBSET DealTypes, price : Nat]
      /\ s.price = Cents(FinalPrice(s.cpm, s.volume, NoTarget))
  BY <1>1, <1>2, <1>3
<1>. HIDE DEF s
<1>5. shown' = shown \cup {s}
  BY DEF s
<1>6. PricesAreCalculated'
  <2>1. \A t \in shown' : t.price = Cents(FinalPrice(t.cpm, t.volume, NoTarget))
    BY <1>4, <1>5 DEF TermsInv, PricesAreCalculated
  <2>. QED
    BY <2>1, SamePrices DEF TermsInv, PricesAreCalculated, Cents
<1>. QED
  BY <1>4, <1>5, <1>6 DEF TermsInv, PricingTypeOK, ToolKeepsTerms

\* A deal that is issued for a request.
LEMMA DealIssued ==
  ASSUME TermsInv, NEW r, NEW via \in {"tool", "client"},
         r.type \in DealTypes, r.volume \in DealVolumes, r.target \in Targets \cup {NoTarget},
         r.cpm \in ListPrices,
         Cardinality(issued) < MaxIssued, Issue(via, r),
         via = "tool" => WithinCeiling(r) /\ (r.type = "PG" => r.volume # 0),
         asking' \in [DeskCallers -> Requests],
         \A c \in DeskCallers : asking'[c].at = "gate" /\ asking'[c].type = "PG" => asking'[c].volume # 0,
         UNCHANGED <<access, listed, shown>>
  PROVE  TermsInv'
<1>. DEFINE price == Cents(FinalPrice(r.cpm, r.volume, r.target))
            d == [id |-> DealId, via |-> via, type |-> r.type, volume |-> r.volume,
                  target |-> r.target, cpm |-> r.cpm, price |-> price]
<1>1. /\ r.cpm \in Nat /\ r.volume \in Nat /\ r.target \in Nat \cup {NoTarget}
      /\ access.identity \in SUBSET {"seat", "agency", "advertiser"}
  BY PricingAssumption DEF TermsInv, PricingTypeOK
<1>2. price \in Nat
  <2>1. BuyerTier \in Tiers
    BY <1>1, TiersKnown
  <2>2. FinalPrice(r.cpm, r.volume, r.target) \in Nat
    BY <1>1, <2>1, PriceAboveFloor
  <2>. QED
    BY <2>2, CentsRound
<1>3. DealId \in 1 .. MaxIssued
  <2>1. IsFiniteSet(issued)
    BY DEF TermsInv
  <2>2. Cardinality(issued) \in Nat
    BY <2>1, FS_CardinalityType
  <2>. QED
    BY <2>2, PricingAssumption DEF DealId
<1>4. issued' = issued \cup {d}
  BY DEF Issue
<1>5. via = "tool" => price <= DealCeiling
  BY DEF WithinCeiling
<1>. HIDE DEF price
<1>6. /\ d \in [id : 1 .. MaxIssued, via : {"tool", "client"}, type : DealTypes,
                volume : DealVolumes, target : Targets \cup {NoTarget},
                cpm : ListPrices, price : Nat]
      /\ d.price = price /\ d.via = via /\ d.type = r.type /\ d.volume = r.volume
      /\ d.target = r.target /\ d.cpm = r.cpm
  BY <1>2, <1>3
<1>. HIDE DEF d
<1>7. PricesAreCalculated'
  <2>1. \A x \in issued' : x.price = Cents(FinalPrice(x.cpm, x.volume, x.target))
    BY <1>4, <1>6 DEF TermsInv, PricesAreCalculated, price
  <2>. QED
    BY <2>1, SamePrices DEF TermsInv, PricesAreCalculated, Cents
<1>8. IsFiniteSet(issued')
  BY <1>4, FS_AddElement DEF TermsInv
<1>9. ToolKeepsTerms'
  BY <1>4, <1>5, <1>6 DEF TermsInv, ToolKeepsTerms
<1>. QED
  BY <1>4, <1>6, <1>7, <1>8, <1>9 DEF TermsInv, PricingTypeOK

\* Every step keeps the terms.
LEMMA TermsStep == TermsInv /\ [PricingNext]_deskPriceVars => TermsInv'
<1> SUFFICES ASSUME TermsInv, [PricingNext]_deskPriceVars PROVE TermsInv'
  OBVIOUS
<1>. PricingTypeOK /\ ToolKeepsTerms
  BY DEF TermsInv
<1>a. \A c \in DeskCallers : asking[c].at = "gate" /\ asking[c].type = "PG" => asking[c].volume # 0
  BY DEF ToolKeepsTerms
<1>b. asking \in [DeskCallers -> Requests] /\ listed \in [cpm : ListPrices, version : 0 .. MaxReprices]
  BY DEF PricingTypeOK
<1>1. CASE Reprice
  <2>1. listed' \in [cpm : ListPrices, version : 0 .. MaxReprices]
    BY <1>1, PricingAssumption DEF Reprice, PricingTypeOK
  <2>. QED
    BY <1>1, <1>a, <1>b, <2>1, AskingMoves DEF Reprice
<1>2. ASSUME NEW v \in DealVolumes, ShowPrice(v) PROVE TermsInv'
  <2>1. DealOptions(BuyerTier) \in SUBSET DealTypes
    BY DEF DealOptions, DealTypes
  <2>2. [Shown(v) EXCEPT !.types = DealOptions(BuyerTier)] = Shown(v)
    BY DEF Shown
  <2>. QED
    BY <1>2, <2>1, <2>2, PriceShown DEF ShowPrice
<1>3. ASSUME NEW v \in DealVolumes, ClientShowsPrice(v) PROVE TermsInv'
  BY <1>3, PriceShown DEF ClientShowsPrice
<1>4. ASSUME NEW t \in DealTypes, NEW v \in DealVolumes, NEW g \in Targets \cup {NoTarget},
             NEW c \in DeskCallers, AskForDeal(c, t, v, g)
      PROVE  TermsInv'
  <2>. DEFINE r == DealRequested(t, v, g)
  <2>1. /\ r \in Requests /\ r.type = t /\ r.volume = v
        /\ asking' = [asking EXCEPT ![c] = r] /\ UNCHANGED <<access, listed, shown, issued>>
        /\ t = "PG" => v # 0
    BY <1>4, <1>b DEF AskForDeal, DealRequested, Requests, Admissible
  <2>. HIDE DEF r
  <2>2. asking' \in [DeskCallers -> Requests]
    BY <1>b, <2>1
  <2>3. \A b \in DeskCallers : asking'[b].at = "gate" /\ asking'[b].type = "PG" => asking'[b].volume # 0
    BY <1>a, <1>b, <2>1
  <2>. QED
    BY <1>b, <2>1, <2>2, <2>3, AskingMoves
<1>5. ASSUME NEW t \in DealTypes, NEW v \in DealVolumes, NEW g \in Targets \cup {NoTarget},
             ClientDeal(t, v, g)
      PROVE  TermsInv'
  <2>. DEFINE r == DealRequested(t, v, g)
  <2>1. /\ r.type = t /\ r.volume = v /\ r.target = g /\ r.cpm \in ListPrices
        /\ Cardinality(issued) < MaxIssued /\ UNCHANGED <<access, listed, asking, shown>>
        /\ Issue("client", r) \/ UNCHANGED issued
    BY <1>5, <1>b DEF ClientDeal, BuildDealData, DealRequested
  <2>. HIDE DEF r
  <2>2. CASE Issue("client", r)
    BY <1>a, <1>b, <2>1, <2>2, DealIssued
  <2>3. CASE UNCHANGED issued
    BY <1>a, <1>b, <2>1, <2>3, AskingMoves
  <2>. QED
    BY <2>1, <2>2, <2>3
<1>6. ASSUME NEW c \in DeskCallers, AskEnds(c)
      PROVE  /\ asking' \in [DeskCallers -> Requests]
             /\ \A b \in DeskCallers :
                  asking'[b].at = "gate" /\ asking'[b].type = "PG" => asking'[b].volume # 0
  BY <1>6, <1>a, <1>b DEF AskEnds, Requests
<1>7. ASSUME NEW c \in DeskCallers, Blocked(c) \/ RejectDeal(c) PROVE TermsInv'
  BY <1>7, <1>6, <1>b, AskingMoves DEF Blocked, RejectDeal
<1>8. ASSUME NEW c \in DeskCallers, CreateDeal(c) PROVE TermsInv'
  <2>. DEFINE r == asking[c]
  <2>1. r.at = "gate" /\ r \in Requests
    BY <1>8, <1>b DEF CreateDeal
  <2>2. /\ r.type \in DealTypes /\ r.volume \in DealVolumes /\ r.target \in Targets \cup {NoTarget}
        /\ r.cpm \in ListPrices
    BY <2>1 DEF Requests
  <2>3. WithinCeiling(r) /\ (r.type = "PG" => r.volume # 0)
    BY <1>8, <1>a, <2>1 DEF CreateDeal
  <2>. QED
    BY <1>8, <1>6, <2>2, <2>3, DealIssued DEF CreateDeal
<1>9. CASE UNCHANGED deskPriceVars
  BY <1>9, <1>a, <1>b, AskingMoves DEF deskPriceVars
<1>. QED
  BY <1>1, <1>2, <1>3, <1>4, <1>5, <1>7, <1>8, <1>9 DEF PricingNext

\* The desk starts with no price and no Deal ID.
LEMMA TermsStart == PricingInit => TermsInv
<1> SUFFICES ASSUME PricingInit PROVE TermsInv
  OBVIOUS
<1>1. PricingTypeOK
  BY PricingAssumption DEF PricingInit, PricingTypeOK, Requests
<1>2. IsFiniteSet(issued)
  BY FS_EmptySet DEF PricingInit
<1>. QED
  BY <1>1, <1>2 DEF PricingInit, TermsInv, PricesAreCalculated, ToolKeepsTerms

\* What is calculated alike costs alike.
LEMMA TermsAreHeld == TermsInv => DealTermsHold
<1> SUFFICES ASSUME TermsInv, NEW d \in issued
             PROVE  /\ d.via = "tool" => d.price <= DealCeiling /\ (d.type = "PG" => d.volume # 0)
                    /\ d.price * 10000 + 5000 >= FloorPrice(d.cpm, BuyerTier)
                    /\ \A s \in shown :
                         d.target = NoTarget /\ s.cpm = d.cpm /\ s.volume = d.volume => s.price = d.price
  BY DEF DealTermsHold
<1>1. /\ d.cpm \in Nat /\ d.volume \in Nat /\ d.target \in Nat \cup {NoTarget}
      /\ access.identity \in SUBSET {"seat", "agency", "advertiser"}
  BY PricingAssumption DEF TermsInv, PricingTypeOK
<1>. DEFINE final == FinalPrice(d.cpm, d.volume, d.target)
<1>2. final \in Nat /\ FloorPrice(d.cpm, BuyerTier) \in Nat /\ final >= FloorPrice(d.cpm, BuyerTier)
  BY <1>1, TiersKnown, PriceAboveFloor
<1>3. d.price = Cents(final)
  BY DEF TermsInv, PricesAreCalculated
<1>4. d.price \in Nat /\ d.price * 10000 + 5000 >= final
  BY <1>2, <1>3, CentsRound
<1>. HIDE DEF final
<1>5. d.price * 10000 + 5000 >= FloorPrice(d.cpm, BuyerTier)
  BY <1>2, <1>4
<1>6. d.via = "tool" => d.price <= DealCeiling /\ (d.type = "PG" => d.volume # 0)
  BY DEF TermsInv, ToolKeepsTerms
<1>7. \A s \in shown :
        d.target = NoTarget /\ s.cpm = d.cpm /\ s.volume = d.volume => s.price = d.price
  BY DEF TermsInv, PricesAreCalculated
<1>. QED
  BY <1>5, <1>6, <1>7

--------------------------------------------------------------------------------
(* The media kits: an answer is its seller's own, and the report is made   *)
(* of the answers as they will stay.                                       *)

Enquiries == [how : {"nothing", "kit", "list", "package", "search", "compare", "aggregate"},
              urls : Seq(KitSellers), key : BOOLEAN]
\* An answer to an enquiry that takes whole kits.
AnswerIsWhole(a, s) ==
    /\ a.ending \in Endings \cup {"waiting"}
    /\ a.packages = IF a.ending = "well" THEN Packages[s] ELSE <<>>
AnswersAreWhole ==
    enquiry.how \in {"compare", "aggregate"} =>
        \A i \in DOMAIN answers : AnswerIsWhole(answers[i], enquiry.urls[i])
AnswersArePlaced ==
    /\ answers = [i \in DOMAIN enquiry.urls |-> answers[i]]
    /\ \A i \in DOMAIN answers : answers[i].ending \in Endings \cup {"waiting"}
NothingBeforeAsking == enquiry = NothingAsked => kitReport = NoKitReport

\* kitReport tells of entries es, with their number.
Tells(report, es) == report.entries = es /\ report.total = Counted(es)
ReportIsMade ==
    kitReport.kind \in {"compared", "aggregate"} =>
        enquiry.how \in {"compare", "aggregate"} /\ Tells(kitReport, ByUrl(Compared))

KitInv ==
    /\ enquiry \in Enquiries /\ KitTypeOK
    /\ AnswersArePlaced /\ AnswersAreWhole /\ NothingBeforeAsking /\ ReportIsMade

\* The media kit client starts with nothing asked.
LEMMA KitStart == KitInit => KitInv
BY DEF KitInit, KitInv, KitTypeOK, Enquiries, AnswersArePlaced, AnswersAreWhole,
       NothingBeforeAsking, ReportIsMade, NothingAsked, NoKitReport

\* An enquiry begins with nothing answered.
LEMMA EnquiryBegins ==
  ASSUME KitInv, NEW how \in {"kit", "list", "package", "search", "compare", "aggregate"},
         NEW urls \in Seq(KitSellers), Enquire(how, urls)
  PROVE  KitInv'
<1>1. /\ enquiry' \in Enquiries /\ enquiry'.how = how /\ enquiry'.urls = urls
      /\ enquiry' # NothingAsked /\ UNCHANGED kitReport
      /\ answers' = [i \in DOMAIN urls |-> Waiting]
  BY DEF Enquire, Enquiries, NothingAsked
<1>2. kitReport = NoKitReport
  BY DEF KitInv, NothingBeforeAsking, Enquire
<1>. QED
  BY <1>1, <1>2 DEF KitInv, KitTypeOK, AnswersArePlaced, AnswersAreWhole, AnswerIsWhole,
                    NothingBeforeAsking, ReportIsMade, NoKitReport, Waiting

\* An answer comes, good or bad, while nothing is reported.
LEMMA AnswerPlaced ==
  ASSUME KitInv, kitReport = NoKitReport, UNCHANGED <<enquiry, kitReport>>,
         NEW i \in DOMAIN answers, NEW a, a.ending \in Endings,
         answers' = [answers EXCEPT ![i] = a],
         enquiry.how \in {"compare", "aggregate"} => AnswerIsWhole(a, enquiry.urls[i])
  PROVE  KitInv'
<1>1. /\ answers' = [j \in DOMAIN enquiry.urls |-> answers'[j]]
      /\ \A j \in DOMAIN answers' : answers'[j].ending \in Endings \cup {"waiting"}
      /\ DOMAIN answers' = DOMAIN enquiry.urls
  BY DEF KitInv, AnswersArePlaced
<1>2. AnswersAreWhole'
  BY DEF KitInv, AnswersArePlaced, AnswersAreWhole
<1>. QED
  BY <1>1, <1>2 DEF KitInv, KitTypeOK, AnswersArePlaced, NothingBeforeAsking, ReportIsMade,
                    NoKitReport

\* A report leaves the enquiry and its answers as they are.
LEMMA ReportMade ==
  ASSUME KitInv, UNCHANGED <<enquiry, answers>>, enquiry # NothingAsked,
         kitReport'.kind \in {"none", "kit", "packages", "compared", "aggregate", "raised", "error"},
         kitReport'.kind \in {"compared", "aggregate"} =>
            /\ enquiry.how \in {"compare", "aggregate"}
            /\ kitReport'.entries = ByUrl(Compared)
            /\ kitReport'.total = Counted(ByUrl(Compared))
  PROVE  KitInv'
<1>1. ReportIsMade'
  BY DEF ReportIsMade, Tells, Counted, ByUrl, Compared
<1>. QED
  BY <1>1 DEF KitInv, KitTypeOK, AnswersArePlaced, AnswersAreWhole, NothingBeforeAsking

\* Every step of the media-kit calls keeps that.
LEMMA KitStep == KitInv /\ [KitNext]_kitVars => KitInv'
<1> SUFFICES ASSUME KitInv, [KitNext]_kitVars PROVE KitInv'
  OBVIOUS
<1>1. CASE GetMediaKit \/ ListPackages \/ GetPackage \/ SearchPackages
  <2>1. \A s \in KitSellers : <<s>> \in Seq(KitSellers)
    OBVIOUS
  <2>. QED
    BY <1>1, <2>1, EnquiryBegins DEF GetMediaKit, ListPackages, GetPackage, SearchPackages
<1>a. BoundedSeq(KitSellers, MaxAsked) \subseteq Seq(KitSellers)
  BY KitAssumption DEF BoundedSeq, SeqOf
<1>2. CASE CompareSellers
  BY <1>2, <1>a, EnquiryBegins DEF CompareSellers
<1>3. CASE AggregateAcrossSellers
  BY <1>3, <1>a, EnquiryBegins DEF AggregateAcrossSellers
<1>4. ASSUME NEW i \in Outstanding, KitAnswers(i) PROVE KitInv'
  <2>1. PICK ps \in Summaries(enquiry.urls[i], enquiry.how), t \in StatedTotals \cup {Unstated},
             d \in Detailed(enquiry.how, enquiry.key) :
               answers' = [answers EXCEPT ![i] = [ending |-> "well", packages |-> ps,
                                                  total |-> Total(t, ps), detail |-> d]]
    BY <1>4 DEF KitAnswers
  <2>. DEFINE a == [ending |-> "well", packages |-> ps, total |-> Total(t, ps), detail |-> d]
  <2>2. /\ i \in DOMAIN answers /\ kitReport = NoKitReport /\ UNCHANGED <<enquiry, kitReport>>
        /\ a.ending \in Endings /\ answers' = [answers EXCEPT ![i] = a]
    BY <1>4, <2>1 DEF KitAnswers, Outstanding, Pending, Endings
  <2>3. enquiry.how \in {"compare", "aggregate"} => AnswerIsWhole(a, enquiry.urls[i])
    BY DEF Summaries, AnswerIsWhole, Endings
  <2>. HIDE DEF a
  <2>. QED
    BY <2>2, <2>3, AnswerPlaced
<1>5. ASSUME NEW i \in Outstanding, KitFails(i) PROVE KitInv'
  <2>1. PICK e \in Endings \ {"well"} : answers' = [answers EXCEPT ![i].ending = e]
    BY <1>5 DEF KitFails
  <2>. DEFINE a == [answers[i] EXCEPT !.ending = e]
  <2>2. /\ i \in DOMAIN answers /\ kitReport = NoKitReport /\ UNCHANGED <<enquiry, kitReport>>
        /\ answers[i].ending = "waiting" /\ answers' = [answers EXCEPT ![i] = a]
    BY <1>5, <2>1 DEF KitFails, Outstanding, Pending
  <2>3. a.ending = e /\ a.packages = answers[i].packages
    BY <2>2
  <2>4. enquiry.how \in {"compare", "aggregate"} => AnswerIsWhole(a, enquiry.urls[i])
    BY <2>2, <2>3 DEF KitInv, AnswersAreWhole, AnswerIsWhole
  <2>. HIDE DEF a
  <2>. QED
    BY <2>2, <2>3, <2>4, AnswerPlaced
<1>6. CASE KitReturns
  <2>1. UNCHANGED <<enquiry, answers>>
    BY <1>6 DEF KitReturns
  <2>2. CASE ReportComparison
    BY <2>1, <2>2, ReportMade DEF ReportComparison, NothingAsked
  <2>3. CASE ReportAggregate
    <3>1. ByUrl(Fetched) = ByUrl(Compared)
      BY DEF ByUrl, Fetched, Compared
    <3>. QED
      BY <2>1, <2>3, <3>1, ReportMade DEF ReportAggregate, NothingAsked
  <2>4. CASE AggregateRaises \/ ReportKit \/ ReportPackages
    <3>1. /\ kitReport'.kind \in {"kit", "packages", "raised", "error"}
          /\ enquiry # NothingAsked
      BY <2>4 DEF AggregateRaises, ReportKit, ReportPackages, NoKitReport, NothingAsked
    <3>. QED
      BY <2>1, <3>1, ReportMade
  <2>. QED
    BY <1>6, <2>2, <2>3, <2>4 DEF KitReturns
<1>7. CASE UNCHANGED kitVars
  BY <1>7 DEF kitVars, KitInv, KitTypeOK, AnswersArePlaced, AnswersAreWhole,
              NothingBeforeAsking, ReportIsMade, Tells, Counted, ByUrl, Compared
<1>. QED
  BY <1>1, <1>2, <1>3, <1>4, <1>5, <1>6, <1>7 DEF KitNext

\* A report that holds every answer at its seller's place loses a failing seller's entry only.
LEMMA KitsAreIsolated == KitInv => SellersAreIsolated
<1> SUFFICES ASSUME KitInv, kitReport.kind \in {"compared", "aggregate"}
             PROVE  SellersAreIsolated
  BY DEF SellersAreIsolated
<1>. DEFINE es == [i \in DOMAIN enquiry.urls |-> Compared(i)]
<1>1. /\ enquiry.how \in {"compare", "aggregate"} /\ enquiry.urls \in Seq(KitSellers)
      /\ kitReport.entries = es /\ kitReport.total = Counted(es)
  BY DEF KitInv, ReportIsMade, Tells, ByUrl, Enquiries
<1>2. DOMAIN es = DOMAIN answers /\ DOMAIN answers = DOMAIN enquiry.urls
  BY DEF KitInv, KitTypeOK
<1>3. Len(es) = Len(enquiry.urls)
  BY <1>1
<1>4. \A i \in DOMAIN enquiry.urls :
        /\ es[i].url = enquiry.urls[i] /\ es[i].reached = (answers[i].ending = "well")
        /\ es[i].packages = answers[i].packages
  BY DEF Compared
<1>5. \A i \in DOMAIN enquiry.urls :
        answers[i].packages = IF answers[i].ending = "well" THEN Packages[enquiry.urls[i]] ELSE <<>>
  BY <1>1, <1>2 DEF KitInv, AnswersAreWhole, AnswerIsWhole
<1>6. [i \in DOMAIN es |-> es[i].packages] = [i \in DOMAIN answers |-> answers[i].packages]
  BY <1>2, <1>4
<1>. HIDE DEF es
<1>7. kitReport.total = Len(FlattenSeq([i \in DOMAIN answers |-> answers[i].packages]))
  BY <1>1, <1>6 DEF Counted
<1>. QED
  BY <1>1, <1>3, <1>4, <1>5, <1>7 DEF SellersAreIsolated

--------------------------------------------------------------------------------
(* OpenDirect's book: a request is on its way at most once, what is        *)
(* answered or told as done is done, and what the book holds beyond what   *)
(* was told is paid for by an error that was told or by the call awaited.  *)

OpenOps == {"create", "update", "reserve", "book", "cancel"}
Entities == [kind : {"account", "order", "line", "creative"},
             status : {"Active", "Draft", "Reserved", "Booked", "Canceled"}]
BookTypes ==
    /\ book \in Seq(Entities) /\ sent \in Nat /\ IsFiniteSet(wire)
    /\ wire \subseteq [id : 1 .. sent, of : Nat, does : Creations \cup Updates]
    /\ waiting \in [op : OpenOps \cup {"none"}, of : Nat, id : 0 .. sent,
                    answer : {"none", "done", "refused"}]
    /\ reports \in Seq([op : OpenOps, of : Nat, verdict : {"success", "error"}])
    /\ waiting.op = "none" => waiting = NotWaiting

WireSound ==
    /\ \A r \in wire : r.does \in Updates => r.of \in DOMAIN book
    /\ \A r, q \in wire : r.id = q.id => r = q
    /\ \A r \in wire : r.id = waiting.id =>
          waiting.op = r.does.op /\ waiting.of = r.of /\ waiting.answer = "none"

\* In book b, what op asked of entity i is done, and only a cancellation took it back.
Done(b, op, i) ==
    /\ i \in DOMAIN b
    /\ op = "reserve" => b[i].status \in {"Reserved", "Booked", "Canceled"}
    /\ op = "book" => b[i].status \in {"Booked", "Canceled"}
    /\ op = "cancel" => b[i].status = "Canceled"
DoneIsDone ==
    /\ waiting.answer = "done" =>
          /\ Done(book, waiting.op, waiting.of)
          /\ waiting.op = "create" => ~Told("create", waiting.of, "success")
    /\ \A i \in DOMAIN reports :
          reports[i].verdict = "success" => Done(book, reports[i].op, reports[i].of)

Untold(b, rs) == {e \in DOMAIN b : \A i \in DOMAIN rs :
                      rs[i] # [op |-> "create", of |-> e, verdict |-> "success"]}
Mistold(rs) == {i \in DOMAIN rs : rs[i].op = "create" /\ rs[i].verdict = "error"}
Underway(ws) == {r \in ws : r.does \in Creations}
Awaited(w) == IF w.op = "create" THEN 1 ELSE 0
Balanced ==
    Cardinality(Untold(book, reports)) + Cardinality(Underway(wire))
        <= Cardinality(Mistold(reports)) + Awaited(waiting)

BookInv == BookTypes /\ WireSound /\ DoneIsDone /\ Balanced

\* What the requests do.
LEMMA RequestsKnown ==
  /\ \A d \in Creations : d.op = "create" /\ [kind |-> d.kind, status |-> d.to] \in Entities
  /\ \A d \in Updates : d.op \in {"update", "reserve", "book", "cancel"} /\ d.to \in
                           {"Active", "Reserved", "Booked", "Canceled"}
  /\ Creations \cap Updates = {}
BY DEF Creations, Updates, CreateAccount, CreateOrder, CreateLine, CreateCreative, Creates,
       UpdateOrder, ReserveLine, BookLine, CancelLine, Moves, Entities

\* What is done stays done.
LEMMA UpdateIsDone ==
  ASSUME NEW b \in Seq(Entities), NEW d \in Updates, NEW i \in DOMAIN b, b[i].status \in d.from
  PROVE  LET a == [b EXCEPT ![i].status = d.to] IN
         /\ a \in Seq(Entities) /\ DOMAIN a = DOMAIN b
         /\ Done(a, d.op, i)
         /\ \A op, j : Done(b, op, j) => Done(a, op, j)
<1>. DEFINE a == [b EXCEPT ![i].status = d.to]
<1>1. /\ DOMAIN a = DOMAIN b /\ Len(b) \in Nat /\ DOMAIN b = 1 .. Len(b)
      /\ \A j \in DOMAIN b : b[j] \in Entities
      /\ \A j \in DOMAIN b : a[j] = IF j = i THEN [b[i] EXCEPT !.status = d.to] ELSE b[j]
  OBVIOUS
<1>2. \A j \in DOMAIN b : a[j] \in Entities /\ (j = i => a[j].status = d.to)
                          /\ (j # i => a[j] = b[j])
  BY <1>1, RequestsKnown DEF Entities
<1>3. a \in Seq(Entities)
  BY <1>1, <1>2
<1>. HIDE DEF a
<1>4. Done(a, d.op, i)
  BY <1>1, <1>2 DEF Done, Updates, UpdateOrder, ReserveLine, BookLine, CancelLine, Moves
<1>5. ASSUME NEW op, NEW j, Done(b, op, j) PROVE Done(a, op, j)
  BY <1>1, <1>2, <1>5 DEF Done, Updates, UpdateOrder, ReserveLine, BookLine, CancelLine, Moves
<1>. QED
  BY <1>1, <1>3, <1>4, <1>5 DEF a

\* An entity appended to the book is created there, and what was done stays done.
LEMMA CreationIsDone ==
  ASSUME NEW b \in Seq(Entities), NEW e \in Entities
  PROVE  /\ Append(b, e) \in Seq(Entities) /\ DOMAIN Append(b, e) = DOMAIN b \cup {Len(b) + 1}
         /\ Len(b) + 1 \notin DOMAIN b /\ Done(Append(b, e), "create", Len(b) + 1)
         /\ \A op, j : Done(b, op, j) => Done(Append(b, e), op, j)
<1>1. /\ Append(b, e) \in Seq(Entities) /\ DOMAIN Append(b, e) = DOMAIN b \cup {Len(b) + 1}
      /\ Len(b) + 1 \notin DOMAIN b /\ \A j \in DOMAIN b : Append(b, e)[j] = b[j]
  OBVIOUS
<1>. QED
  BY <1>1 DEF Done

\* What the balance counts is finite.
LEMMA FiniteBooks ==
  ASSUME NEW S, NEW T, NEW b \in Seq(S), NEW rs \in Seq(T), NEW ws, IsFiniteSet(ws)
  PROVE  /\ IsFiniteSet(Untold(b, rs)) /\ IsFiniteSet(Mistold(rs)) /\ IsFiniteSet(Underway(ws))
         /\ Cardinality(Untold(b, rs)) \in Nat /\ Cardinality(Mistold(rs)) \in Nat
         /\ Cardinality(Underway(ws)) \in Nat
<1>1. IsFiniteSet(DOMAIN b) /\ IsFiniteSet(DOMAIN rs)
  BY FS_Interval
<1>. QED
  BY <1>1, FS_Subset, FS_CardinalityType DEF Untold, Mistold, Underway

\* The book starts empty and balanced.
LEMMA BookStart == OdInit => BookInv
<1> SUFFICES ASSUME OdInit PROVE BookInv
  OBVIOUS
<1>1. BookTypes /\ WireSound /\ DoneIsDone
  BY FS_EmptySet DEF OdInit, BookTypes, WireSound, DoneIsDone, NotWaiting
<1>2. Untold(book, reports) = {} /\ Underway(wire) = {} /\ Mistold(reports) = {}
  BY DEF OdInit, Untold, Underway, Mistold
<1>3. Balanced
  BY <1>2, FS_EmptySet DEF Balanced, Awaited
<1>. QED
  BY <1>1, <1>3 DEF BookInv

\* A request is sent.
LEMMA SendKeepsBook ==
  ASSUME BookInv, NEW d \in Creations \cup Updates, NEW of \in Nat,
         d \in Updates => of \in DOMAIN book, Send(d, of)
  PROVE  BookInv'
<1>. DEFINE r == [id |-> sent + 1, of |-> of, does |-> d]
<1>0. /\ sent \in Nat /\ wire \subseteq [id : 1 .. sent, of : Nat, does : Creations \cup Updates]
      /\ book \in Seq(Entities) /\ IsFiniteSet(wire)
      /\ reports \in Seq([op : OpenOps, of : Nat, verdict : {"success", "error"}])
  BY DEF BookInv, BookTypes
<1>1. /\ waiting = NotWaiting /\ sent' = sent + 1 /\ wire' = wire \cup {r}
      /\ waiting' = [op |-> d.op, of |-> of, id |-> sent + 1, answer |-> "none"]
      /\ UNCHANGED <<book, reports>>
      /\ d.op \in OpenOps
  BY RequestsKnown DEF Send, OpenOps
<1>2. r.id = sent + 1 /\ r.of = of /\ r.does = d /\ r \in [id : 1 .. sent', of : Nat, does : Creations \cup Updates]
  BY <1>0, <1>1
<1>. HIDE DEF r
<1>3. IsFiniteSet(wire') /\ (r \notin wire => Cardinality(wire') = Cardinality(wire) + 1)
  BY <1>0, <1>1, FS_AddElement
<1>4. wire' \subseteq [id : 1 .. sent', of : Nat, does : Creations \cup Updates]
  BY <1>0, <1>1, <1>2
<1>5. BookTypes'
  BY <1>0, <1>1, <1>3, <1>4 DEF BookTypes, OpenOps
<1>6. \A q \in wire : q.id # sent + 1 /\ q.id \in Nat
  BY <1>0
<1>7. WireSound'
  BY <1>0, <1>1, <1>2, <1>6 DEF BookInv, WireSound
<1>8. DoneIsDone'
  BY <1>1 DEF BookInv, DoneIsDone
<1>9. Balanced'
  <2>1. CASE d \in Creations
    <3>1. Underway(wire') = Underway(wire) \cup {r} /\ Awaited(waiting') = 1 /\ Awaited(waiting) = 0
      BY <1>1, <1>2, <2>1, RequestsKnown DEF Underway, Awaited, NotWaiting
    <3>2. Cardinality(Underway(wire')) <= Cardinality(Underway(wire)) + 1
      <4>. DEFINE U == Underway(wire)
      <4>1. IsFiniteSet(U) /\ Cardinality(U) \in Nat
        BY <1>0, FiniteBooks
      <4>. HIDE DEF U
      <4>2. Cardinality(U \cup {r}) <= Cardinality(U) + 1
        BY <4>1, FS_AddElement
      <4>. QED
        BY <3>1, <4>2 DEF U
    <3>. QED
      BY <1>0, <1>1, <1>3, <3>1, <3>2, FiniteBooks DEF BookInv, Balanced
  <2>2. CASE d \in Updates
    <3>1. Underway(wire') = Underway(wire) /\ Awaited(waiting') = 0 /\ Awaited(waiting) = 0
      BY <1>1, <1>2, <2>2, RequestsKnown DEF Underway, Awaited, NotWaiting
    <3>. QED
      BY <1>1, <3>1 DEF BookInv, Balanced
  <2>. QED
    BY <2>1, <2>2
<1>. QED
  BY <1>5, <1>7, <1>8, <1>9 DEF BookInv

\* The seller handles a request.
LEMMA HandlingKeepsBook ==
  ASSUME BookInv, NEW r \in wire, SellerHandles(r)
  PROVE  BookInv'
<1>0. /\ sent \in Nat /\ wire \subseteq [id : 1 .. sent, of : Nat, does : Creations \cup Updates]
      /\ book \in Seq(Entities) /\ IsFiniteSet(wire) /\ Len(book) \in Nat
      /\ reports \in Seq([op : OpenOps, of : Nat, verdict : {"success", "error"}])
      /\ waiting \in [op : OpenOps \cup {"none"}, of : Nat, id : 0 .. sent,
                      answer : {"none", "done", "refused"}]
      /\ r.id \in 1 .. sent /\ r.of \in Nat /\ r.does \in Creations \cup Updates
  BY DEF BookInv, BookTypes
<1>1. wire' = wire \ {r} /\ UNCHANGED <<reports, sent>>
  BY DEF SellerHandles
<1>2. IsFiniteSet(wire')
  BY <1>0, <1>1, FS_RemoveElement
<1>3. \A q \in wire' : q \in wire /\ q.id # r.id
  BY <1>1 DEF BookInv, WireSound
\* The answer reaches whoever still waits for it.
<1>4. ASSUME NEW answer \in {"done", "refused"}, NEW of \in Nat, ApiAnswers(r, answer, of)
      PROVE  /\ waiting' \in [op : OpenOps \cup {"none"}, of : Nat, id : 0 .. sent,
                              answer : {"none", "done", "refused"}]
             /\ waiting'.op = waiting.op /\ waiting'.id = waiting.id
             /\ waiting'.op = "none" => waiting' = NotWaiting
             /\ waiting' = waiting \/ (waiting'.answer = answer /\ waiting'.of = of
                                         /\ waiting.op = r.does.op /\ waiting.id = r.id)
             /\ waiting.id = r.id => waiting'.answer = answer
             /\ waiting.id # r.id => waiting' = waiting
  <2>1. CASE waiting.id = r.id
    <3>. DEFINE w == [waiting EXCEPT !.answer = answer, !.of = of]
    <3>1. /\ w \in [op : OpenOps \cup {"none"}, of : Nat, id : 0 .. sent,
                    answer : {"none", "done", "refused"}]
          /\ w.op = waiting.op /\ w.id = waiting.id /\ w.answer = answer /\ w.of = of
          /\ waiting' = w
      BY <1>0, <1>4, <2>1 DEF ApiAnswers
    <3>. HIDE DEF w
    <3>2. waiting.op = r.does.op /\ waiting.op # "none"
      BY <1>0, <2>1, RequestsKnown DEF BookInv, WireSound
    <3>. QED
      BY <2>1, <3>1, <3>2
  <2>2. CASE waiting.id # r.id
    BY <1>0, <1>4, <2>2 DEF ApiAnswers, BookInv, BookTypes
  <2>. QED
    BY <2>1, <2>2
\* Its book, its wait, and what is still sent.
<1>5. ASSUME book' \in Seq(Entities), DOMAIN book \subseteq DOMAIN book',
             \A op, j : Done(book, op, j) => Done(book', op, j),
             NEW answer \in {"done", "refused"}, NEW of \in Nat, ApiAnswers(r, answer, of),
             answer = "done" => Done(book', r.does.op, of),
             answer = "done" /\ r.does.op = "create" => ~Told("create", of, "success")
      PROVE  BookTypes' /\ WireSound' /\ DoneIsDone' /\ Awaited(waiting') = Awaited(waiting)
  <2>1. BookTypes'
    <3>1. wire' \subseteq [id : 1 .. sent', of : Nat, does : Creations \cup Updates]
      BY <1>0, <1>1
    <3>. QED
      BY <1>0, <1>1, <1>2, <1>4, <1>5, <3>1 DEF BookTypes
  <2>2. WireSound'
    <3>1. \A q \in wire' : q.does \in Updates => q.of \in DOMAIN book'
      BY <1>3, <1>5 DEF BookInv, WireSound
    <3>2. \A q, p \in wire' : q.id = p.id => q = p
      BY <1>3 DEF BookInv, WireSound
    <3>3. \A q \in wire' : q.id = waiting'.id =>
             waiting'.op = q.does.op /\ waiting'.of = q.of /\ waiting'.answer = "none"
      BY <1>3, <1>4, <1>5 DEF BookInv, WireSound
    <3>. QED
      BY <3>1, <3>2, <3>3 DEF WireSound
  <2>3. DoneIsDone'
    <3>1. waiting'.answer = "done" =>
            /\ Done(book', waiting'.op, waiting'.of)
            /\ waiting'.op = "create" => ~Told("create", waiting'.of, "success")
      BY <1>4, <1>5 DEF BookInv, DoneIsDone
    <3>2. \A e : Told("create", e, "success")' <=> Told("create", e, "success")
      BY <1>1 DEF Told
    <3>3. \A i \in DOMAIN reports :
            reports[i].verdict = "success" => Done(book', reports[i].op, reports[i].of)
      BY <1>5 DEF BookInv, DoneIsDone
    <3>. QED
      BY <1>1, <3>1, <3>2, <3>3 DEF DoneIsDone
  <2>4. Awaited(waiting') = Awaited(waiting)
    BY <1>4, <1>5 DEF Awaited
  <2>. QED
    BY <2>1, <2>2, <2>3, <2>4
<1>6. /\ r \in Underway(wire) <=> r.does \in Creations
      /\ Underway(wire') = Underway(wire) \ {r}
      /\ r.does \in Creations => Cardinality(Underway(wire')) = Cardinality(Underway(wire)) - 1
      /\ r.does \notin Creations => Underway(wire') = Underway(wire)
  <2>1. /\ r \in Underway(wire) <=> r.does \in Creations
        /\ Underway(wire') = Underway(wire) \ {r}
    BY <1>1 DEF Underway
  <2>. DEFINE U == Underway(wire)
  <2>2. IsFiniteSet(U)
    BY <1>0, FiniteBooks
  <2>. HIDE DEF U
  <2>3. r \in U => Cardinality(U \ {r}) = Cardinality(U) - 1
    BY <2>2, FS_RemoveElement
  <2>4. r \notin U => U \ {r} = U
    OBVIOUS
  <2>. QED
    BY <2>1, <2>3, <2>4 DEF U
<1>. DEFINE u == Cardinality(Underway(wire))  n == Cardinality(Untold(book, reports))
            m == Cardinality(Mistold(reports))
<1>7. u \in Nat /\ n \in Nat /\ m \in Nat /\ n + u <= m + Awaited(waiting)
      /\ Awaited(waiting) \in Nat
  BY <1>0, FiniteBooks DEF BookInv, Balanced, Awaited
<1>8. CASE /\ r.does \in Creations
           /\ book' = Append(book, [kind |-> r.does.kind, status |-> r.does.to])
           /\ ApiAnswers(r, "done", Len(book) + 1)
  <2>. DEFINE e == [kind |-> r.does.kind, status |-> r.does.to]  i == Len(book) + 1
  <2>1. e \in Entities /\ r.does.op = "create" /\ i \in Nat
    BY <1>0, <1>8, RequestsKnown
  <2>2. /\ book' \in Seq(Entities) /\ DOMAIN book' = DOMAIN book \cup {i} /\ i \notin DOMAIN book
        /\ Done(book', "create", i) /\ \A op, j : Done(book, op, j) => Done(book', op, j)
    BY <1>0, <1>8, <2>1, CreationIsDone
  <2>3. ~Told("create", i, "success")
    BY <2>2 DEF BookInv, DoneIsDone, Told, Done
  <2>4. BookTypes' /\ WireSound' /\ DoneIsDone' /\ Awaited(waiting') = Awaited(waiting)
    BY <1>5, <1>8, <2>1, <2>2, <2>3
  <2>5. Untold(book', reports) = Untold(book, reports) \cup {i} /\ i \notin Untold(book, reports)
    BY <2>2, <2>3 DEF Untold, Told
  <2>6. Cardinality(Untold(book', reports)) = n + 1
    <3>. DEFINE U == Untold(book, reports)
    <3>1. IsFiniteSet(U)
      BY <1>0, FiniteBooks
    <3>. HIDE DEF U
    <3>2. i \notin U => Cardinality(U \cup {i}) = Cardinality(U) + 1
      BY <3>1, FS_AddElement
    <3>. QED
      BY <2>5, <3>2 DEF U
  <2>7. Cardinality(Underway(wire')) = u - 1
    BY <1>6, <1>8
  <2>. HIDE DEF n, u, m
  <2>8. Cardinality(Untold(book', reports)) + Cardinality(Underway(wire')) <= m + Awaited(waiting')
    BY <1>7, <2>4, <2>6, <2>7
  <2>. QED
    BY <1>1, <2>4, <2>8 DEF BookInv, Balanced, m
\* In the other cases nothing is created, and what was under way may no longer be.
<1>9. ASSUME BookTypes', WireSound', DoneIsDone', Awaited(waiting') = Awaited(waiting),
             DOMAIN book' = DOMAIN book
      PROVE  BookInv'
  <2>1. Untold(book', reports') = Untold(book, reports) /\ Mistold(reports') = Mistold(reports)
    BY <1>1, <1>9 DEF Untold
  <2>2. Cardinality(Underway(wire')) \in Nat /\ Cardinality(Underway(wire')) <= u
    <3>1. Cardinality(Underway(wire')) \in Nat
      BY <1>0, <1>2, FiniteBooks
    <3>. HIDE DEF n, m
    <3>. QED
      BY <1>6, <1>7, <3>1
  <2>. HIDE DEF u, n, m
  <2>3. n + Cardinality(Underway(wire')) <= m + Awaited(waiting')
    BY <1>7, <1>9, <2>2
  <2>. QED
    BY <1>9, <2>1, <2>3 DEF BookInv, Balanced, n, m
<1>10. CASE /\ r.does \in Updates /\ book[r.of].status \in r.does.from
            /\ book' = [book EXCEPT ![r.of].status = r.does.to]
            /\ ApiAnswers(r, "done", r.of)
  <2>1. r.of \in DOMAIN book /\ r.does.op # "create"
    BY <1>10, RequestsKnown DEF BookInv, WireSound
  <2>2. /\ book' \in Seq(Entities) /\ DOMAIN book' = DOMAIN book /\ Done(book', r.does.op, r.of)
        /\ \A op, j : Done(book, op, j) => Done(book', op, j)
    BY <1>0, <1>10, <2>1, UpdateIsDone
  <2>. QED
    BY <1>0, <1>5, <1>9, <1>10, <2>1, <2>2
<1>11. CASE ApiAnswers(r, "refused", r.of) /\ UNCHANGED book
  BY <1>0, <1>5, <1>9, <1>11
<1>. QED
  BY <1>8, <1>10, <1>11 DEF SellerHandles

\* Somebody is told, and waits no more.
LEMMA ReportKeepsBook ==
  ASSUME BookInv, NEW verdict \in {"success", "error"}, Report(verdict), waiting.op # "none",
         verdict = "success" => waiting.answer = "done"
  PROVE  BookInv'
<1>. DEFINE x == [op |-> waiting.op, of |-> waiting.of, verdict |-> verdict]
            R == [op : OpenOps, of : Nat, verdict : {"success", "error"}]
<1>0. /\ sent \in Nat /\ wire \subseteq [id : 1 .. sent, of : Nat, does : Creations \cup Updates]
      /\ book \in Seq(Entities) /\ IsFiniteSet(wire) /\ reports \in Seq(R)
      /\ waiting \in [op : OpenOps \cup {"none"}, of : Nat, id : 0 .. sent,
                      answer : {"none", "done", "refused"}]
  BY DEF BookInv, BookTypes
<1>1. /\ reports' = Append(reports, x) /\ waiting' = NotWaiting /\ UNCHANGED <<book, wire, sent>>
      /\ x \in R /\ x.op = waiting.op /\ x.of = waiting.of /\ x.verdict = verdict
  BY <1>0 DEF Report
<1>. HIDE DEF x, R
<1>. DEFINE k == Len(reports) + 1
<1>2. /\ reports' \in Seq(R) /\ DOMAIN reports' = DOMAIN reports \cup {k} /\ k \notin DOMAIN reports
      /\ reports'[k] = x /\ \A i \in DOMAIN reports : reports'[i] = reports[i]
  BY <1>0, <1>1
<1>. HIDE DEF k
<1>3. BookTypes'
  BY <1>0, <1>1, <1>2 DEF BookTypes, NotWaiting, R
<1>4. WireSound'
  BY <1>0, <1>1 DEF BookInv, WireSound, NotWaiting
<1>5. DoneIsDone'
  BY <1>1, <1>2 DEF BookInv, DoneIsDone, NotWaiting
<1>. DEFINE u == Cardinality(Underway(wire))  n == Cardinality(Untold(book, reports))
            m == Cardinality(Mistold(reports))
            n2 == Cardinality(Untold(book, reports'))  m2 == Cardinality(Mistold(reports'))
<1>6. u \in Nat /\ n \in Nat /\ m \in Nat /\ n + u <= m + Awaited(waiting)
      /\ Awaited(waiting) \in {0, 1} /\ Awaited(waiting') = 0
  BY <1>0, <1>1, FiniteBooks DEF BookInv, Balanced, Awaited, NotWaiting
<1>7. CASE x.op = "create" /\ verdict = "success"
  <2>1. /\ Untold(book, reports') = Untold(book, reports) \ {x.of}
        /\ Mistold(reports') = Mistold(reports)
    BY <1>1, <1>2, <1>7 DEF Untold, Mistold, R
  <2>2. x.of \in Untold(book, reports)
    BY <1>1, <1>7 DEF BookInv, DoneIsDone, Done, Untold, Told
  <2>3. n2 = n - 1
    <3>. DEFINE U == Untold(book, reports)
    <3>1. IsFiniteSet(U)
      BY <1>0, FiniteBooks
    <3>. HIDE DEF U
    <3>2. x.of \in U => Cardinality(U \ {x.of}) = Cardinality(U) - 1
      BY <3>1, FS_RemoveElement
    <3>. QED
      BY <2>1, <2>2, <3>2 DEF U
  <2>4. Awaited(waiting) = 1
    BY <1>1, <1>7 DEF Awaited
  <2>. HIDE DEF u, n, m
  <2>5. n2 + u <= m2 + Awaited(waiting')
    BY <1>6, <2>1, <2>3, <2>4 DEF m
  <2>. QED
    BY <1>1, <1>3, <1>4, <1>5, <2>5 DEF BookInv, Balanced, u
<1>8. CASE x.op = "create" /\ verdict = "error"
  <2>1. /\ Untold(book, reports') = Untold(book, reports)
        /\ Mistold(reports') = Mistold(reports) \cup {k} /\ k \notin Mistold(reports)
    BY <1>1, <1>2, <1>8 DEF Untold, Mistold, R
  <2>2. m2 = m + 1
    BY <1>0, <2>1, FiniteBooks, FS_AddElement
  <2>. HIDE DEF u, n, m, m2
  <2>3. n2 + u <= m2 + Awaited(waiting')
    BY <1>6, <2>1, <2>2 DEF n
  <2>. QED
    BY <1>1, <1>3, <1>4, <1>5, <2>3 DEF BookInv, Balanced, u, m2
<1>9. CASE x.op # "create"
  <2>1. /\ Untold(book, reports') = Untold(book, reports)
        /\ Mistold(reports') = Mistold(reports) /\ Awaited(waiting) = 0
    BY <1>1, <1>2, <1>9 DEF Untold, Mistold, R, Awaited
  <2>. QED
    BY <1>1, <1>3, <1>4, <1>5, <1>6, <2>1 DEF BookInv, Balanced
<1>. QED
  BY <1>7, <1>8, <1>9

\* Every step of OpenDirect keeps that.
LEMMA BookStep == BookInv /\ [OdNext]_odVars => BookInv'
<1> SUFFICES ASSUME BookInv, [OdNext]_odVars PROVE BookInv'
  OBVIOUS
<1>1. CASE UNCHANGED bookVars
  BY <1>1 DEF bookVars, BookInv, BookTypes, WireSound, DoneIsDone, Told, Balanced
<1>2. CASE \/ ListProductsTolerant \/ ProductSearch \/ CheckAvails \/ PostLegacyAvails
           \/ AvailsAnswered
  BY <1>1, <1>2 DEF ListProductsTolerant, ProductSearch, CheckAvails, PostLegacyAvails, AvailsAnswered
<1>3. CASE CreateOrderTool \/ CreateLineTool \/ ReserveLineTool \/ BookLineTool \/ ClientCall
  <2>1. /\ {CreateAccount, CreateOrder, CreateLine, CreateCreative} \subseteq Creations
        /\ {UpdateOrder, ReserveLine, BookLine, CancelLine} \subseteq Updates
        /\ Creations \cap Updates = {}
    BY RequestsKnown DEF Creations, Updates
  <2>2. \A kind : OfKind(kind) \subseteq DOMAIN book /\ DOMAIN book \subseteq Nat
    BY DEF OfKind, BookInv, BookTypes
  <2>3. ASSUME NEW d \in Creations, Send(d, 0) PROVE BookInv'
    BY <2>1, <2>3, SendKeepsBook
  <2>4. ASSUME NEW d \in Updates, NEW kind, NEW of \in OfKind(kind), Send(d, of) PROVE BookInv'
    BY <2>2, <2>4, SendKeepsBook
  <2>. QED
    BY <1>3, <2>1, <2>3, <2>4
       DEF CreateOrderTool, CreateLineTool, ReserveLineTool, BookLineTool, ClientCall
<1>4. CASE \E r \in wire : SellerHandles(r)
  BY <1>4, HandlingKeepsBook
<1>5. CASE CallAnswers \/ AnswerUnreadable \/ AnswerLost
  <2>1. waiting.answer # "none" => waiting.op # "none"
    BY DEF BookInv, BookTypes, NotWaiting
  <2>. QED
    BY <1>5, <2>1, ReportKeepsBook DEF CallAnswers, AnswerUnreadable, AnswerLost, Reported
<1>6. CASE UNCHANGED odVars
  BY <1>1, <1>6 DEF odVars
<1>. QED
  BY <1>2, <1>3, <1>4, <1>5, <1>6 DEF OdNext

\* In a balanced book, what is told as done is done, and what was created untold has its error.
LEMMA BookIsTrue == BookInv => ReportsAreTrue
<1> SUFFICES ASSUME BookInv PROVE ReportsAreTrue
  OBVIOUS
<1>0. /\ book \in Seq(Entities) /\ IsFiniteSet(wire)
      /\ reports \in Seq([op : OpenOps, of : Nat, verdict : {"success", "error"}])
  BY DEF BookInv, BookTypes
<1>1. \A i \in DOMAIN reports :
        reports[i].verdict = "success" => Done(book, reports[i].op, reports[i].of)
  BY DEF BookInv, DoneIsDone
<1>2. /\ \A i \in DOMAIN book :
          /\ Told("reserve", i, "success") => book[i].status \in {"Reserved", "Booked", "Canceled"}
          /\ Told("book", i, "success") => book[i].status \in {"Booked", "Canceled"}
          /\ Told("cancel", i, "success") => book[i].status = "Canceled"
      /\ \A i \in DOMAIN reports : reports[i].verdict = "success" => reports[i].of \in DOMAIN book
  BY <1>1 DEF Told, Done
<1>3. {e \in DOMAIN book : ~Told("create", e, "success")} = Untold(book, reports)
  BY DEF Untold, Told
<1>4. Cardinality(Untold(book, reports)) <= Cardinality(Mistold(reports)) + Awaited(waiting)
  <2>. DEFINE u == Cardinality(Underway(wire))  n == Cardinality(Untold(book, reports))
              m == Cardinality(Mistold(reports))
  <2>1. u \in Nat /\ n \in Nat /\ m \in Nat /\ n + u <= m + Awaited(waiting) /\ Awaited(waiting) \in Nat
    BY <1>0, FiniteBooks DEF BookInv, Balanced, Awaited
  <2>. HIDE DEF u, n, m
  <2>2. n <= m + Awaited(waiting)
    BY <2>1
  <2>. QED
    BY <2>2 DEF n, m
<1>. QED
  BY <1>2, <1>3, <1>4 DEF ReportsAreTrue, Mistold, Awaited

--------------------------------------------------------------------------------
(* AudiencePlanning: what a plan holds beside the brief's audience is told,*)
(* for any briefs, sellers and plans. The strengthening says of each stage*)
(* what it keeps of the one before; a log remembers what was dropped.     *)

\* What a plan keeps of another one: its primary, and of every role some of its refs, the
\* others having an entry in a log; and a minted lookalike may come in.
KeptOf(p, q, log) ==
    /\ p.primary = q.primary
    /\ \A r \in Roles :
         /\ \A ref \in Range(q[r]) : ref \in Range(p[r]) \/ Entry(r, ref) \in log
         /\ Range(p[r]) \subseteq Range(q[r]) \cup {Mint("lookalike")}
IsLog(log) == \A entry \in log : entry.role \in Roles /\ entry.ref.type \in Range(Types)
IsCapable(caps) == caps.on \subseteq Roles /\ \A r \in caps.on : caps.max[r] \in Nat

\* The three types of a reference.
LEMMA RangeOfTypes == Range(Types) = {"standard", "contextual", "agentic"}
<1>1. DOMAIN Types = 1 .. 3
  BY DEF Types
<1>. QED
  BY <1>1 DEF Range, Types

\* The elements of a sequence.
LEMMA Ranges == ASSUME NEW A, NEW s \in Seq(A)
                PROVE /\ Range(s) = {s[i] : i \in 1 .. Len(s)} /\ Range(s) \subseteq A
                      /\ s \in Seq(Range(s)) /\ Len(s) \in Nat /\ Range(<<>>) = {}
                      /\ (Range(s) = {} <=> s = <<>>)
<1>1. DOMAIN s = 1 .. Len(s) /\ Len(s) \in Nat /\ Range(s) \subseteq A /\ s \in [1 .. Len(s) -> A]
  BY DEF Range
<1>2. s \in [1 .. Len(s) -> Range(s)]
  BY <1>1 DEF Range
<1>3. s \in Seq(Range(s))
  BY <1>1, <1>2
<1>4. Range(<<>>) = {}
  BY DEF Range
<1>5. s # <<>> => s[1] \in Range(s)
  BY <1>1 DEF Range
<1>. QED
  BY <1>1, <1>3, <1>4, <1>5 DEF Range

\* The elements of two sequences one after the other.
LEMMA Pasted == ASSUME NEW A, NEW s \in Seq(A), NEW t \in Seq(A)
                PROVE s \o t \in Seq(A) /\ Range(s \o t) = Range(s) \cup Range(t)
<1>1. s \o t \in Seq(A) /\ Len(s \o t) = Len(s) + Len(t) /\ Len(s) \in Nat /\ Len(t) \in Nat
  OBVIOUS
<1>2. \A i \in 1 .. Len(s) : (s \o t)[i] = s[i]
  OBVIOUS
<1>3. \A i \in 1 .. Len(t) : (s \o t)[Len(s) + i] = t[i]
  OBVIOUS
<1>4. \A i \in 1 .. Len(s \o t) : i \in 1 .. Len(s) \/ (i - Len(s) \in 1 .. Len(t) /\ (s \o t)[i] = t[i - Len(s)])
  BY <1>1, <1>3
<1>5. Range(s \o t) \subseteq Range(s) \cup Range(t)
  BY <1>1, <1>2, <1>4 DEF Range
<1>6. Range(s) \subseteq Range(s \o t)
  BY <1>1, <1>2 DEF Range
<1>7. Range(t) \subseteq Range(s \o t)
  <2>1. \A i \in 1 .. Len(t) : Len(s) + i \in 1 .. Len(s \o t)
    BY <1>1
  <2>2. DOMAIN t = 1 .. Len(t) /\ DOMAIN (s \o t) = 1 .. Len(s \o t)
    BY <1>1
  <2>3. \A i \in DOMAIN t : Len(s) + i \in DOMAIN (s \o t) /\ (s \o t)[Len(s) + i] = t[i]
    BY <1>3, <2>1, <2>2
  <2>. QED
    BY <2>3 DEF Range
<1>. QED
  BY <1>1, <1>5, <1>6, <1>7

\* A sequence cut at a length: what is kept and what is cut off are its elements.
LEMMA Trimmed == ASSUME NEW A, NEW s \in Seq(A), NEW n \in Nat
                PROVE /\ SubSeq(s, 1, Min({n, Len(s)})) \in Seq(A)
                      /\ Len(SubSeq(s, 1, Min({n, Len(s)}))) <= n
                      /\ Range(SubSeq(s, 1, Min({n, Len(s)}))) \subseteq Range(s)
                      /\ Range(SubSeq(s, n + 1, Len(s))) \subseteq Range(s)
                      /\ Range(s) \subseteq Range(SubSeq(s, 1, Min({n, Len(s)}))) \cup Range(SubSeq(s, n + 1, Len(s)))
<1>. DEFINE m == Min({n, Len(s)})
<1>1. Len(s) \in Nat /\ m = IF n <= Len(s) THEN n ELSE Len(s)
  BY DEF Min
<1>. HIDE DEF m
<1>. DEFINE p == SubSeq(s, 1, m)  q == SubSeq(s, n + 1, Len(s))
<1>2. m \in 0 .. Len(s) /\ m <= n
  BY <1>1
<1>3. p \in Seq(A) /\ Len(p) = m /\ \A i \in 1 .. m : p[i] = s[i]
  BY <1>2
<1>4. q \in Seq(A)
  OBVIOUS
<1>5. n < Len(s) => Len(q) = Len(s) - n /\ \A i \in 1 .. Len(s) - n : q[i] = s[n + i]
  <2>. SUFFICES ASSUME n < Len(s) PROVE Len(q) = Len(s) - n /\ \A i \in 1 .. Len(s) - n : q[i] = s[n + i]
    OBVIOUS
  <2>. QED
    BY <1>1
<1>6. n >= Len(s) => q = <<>>
  BY <1>1
<1>. HIDE DEF p, q
<1>7. Range(p) \subseteq Range(s)
  BY <1>1, <1>2, <1>3 DEF Range
<1>8. Range(q) \subseteq Range(s)
  <2>1. CASE n < Len(s)
    <3>1. \A i \in 1 .. Len(q) : n + i \in 1 .. Len(s) /\ q[i] = s[n + i]
      BY <1>1, <1>5, <2>1
    <3>2. DOMAIN q = 1 .. Len(q) /\ DOMAIN s = 1 .. Len(s)
      BY <1>4
    <3>. QED
      BY <3>1, <3>2 DEF Range
  <2>2. CASE n >= Len(s)
    BY <1>6, <2>2 DEF Range
  <2>. QED
    BY <1>1, <2>1, <2>2
<1>9. ASSUME NEW i \in 1 .. Len(s) PROVE s[i] \in Range(p) \cup Range(q)
  <2>1. CASE i <= m
    BY <1>1, <1>2, <1>3, <2>1 DEF Range
  <2>2. CASE i > m
    <3>1. n < Len(s) /\ i - n \in 1 .. Len(s) - n /\ i - n \in DOMAIN q /\ q[i - n] = s[i]
      BY <1>1, <1>4, <1>5, <2>2
    <3>. QED
      BY <3>1 DEF Range
  <2>. QED
    BY <1>1, <1>2, <2>1, <2>2
<1>10. Range(s) \subseteq Range(p) \cup Range(q)
  BY <1>9 DEF Range
<1>. QED
  BY <1>2, <1>3, <1>7, <1>8, <1>10 DEF p, q, m

\* A role after degradation: what is gone is in the log, and what is left is supported.
LEMMA RoleDegrades ==
  ASSUME NEW A, NEW refs \in Seq(A), NEW r \in Roles, NEW caps, IsCapable(caps)
  PROVE  LET d == DegradeRole(refs, r, caps) IN
         /\ d.kept \in Seq(A) /\ Range(d.kept) \subseteq Range(refs)
         /\ \A ref \in Range(refs) : ref \in Range(d.kept) \/ Entry(r, ref) \in d.log
         /\ \A entry \in d.log : entry.role = r /\ entry.ref \in Range(refs)
         /\ \A ref \in Range(d.kept) : Fits(ref, caps)
         /\ r \in caps.on => Len(d.kept) <= caps.max[r]
         /\ r \notin caps.on => d.kept = <<>>
<1>1. CASE r \notin caps.on
  BY <1>1, Ranges DEF DegradeRole, DropRoleUnsupported, Entries, Entry
<1>2. CASE r \in caps.on
  <2>. DEFINE I == {i \in DOMAIN refs : Fits(refs[i], caps)}  q == Picked(refs, I)  n == caps.max[r]
              kept == SubSeq(q, 1, Min({n, Len(q)}))  cut == SubSeq(q, n + 1, Len(q))
  <2>1. I \in SUBSET (DOMAIN refs) /\ n \in Nat
    BY <1>2 DEF IsCapable
  <2>2. /\ q \in Seq(A) /\ \A k \in DOMAIN q : \E i \in I : q[k] = refs[i]
        /\ \A i \in I : \E k \in DOMAIN q : q[k] = refs[i]
    <3>. HIDE DEF I
    <3>. QED
      BY <2>1, PickedItems
  <2>3. Range(q) = {ref \in Range(refs) : Fits(ref, caps)}
    <3>. HIDE DEF q
    <3>1. \A k \in DOMAIN q : q[k] \in Range(refs) /\ Fits(q[k], caps)
      BY <2>2 DEF Range
    <3>2. \A i \in DOMAIN refs : Fits(refs[i], caps) => refs[i] \in Range(q)
      BY <2>2 DEF Range
    <3>. QED
      BY <3>1, <3>2 DEF Range
  <2>. HIDE DEF q
  <2>4. /\ kept \in Seq(A) /\ Len(kept) <= n /\ Range(kept) \subseteq Range(q)
        /\ Range(cut) \subseteq Range(q) /\ Range(q) \subseteq Range(kept) \cup Range(cut)
    BY <2>1, <2>2, Trimmed
  <2>5. DegradeRole(refs, r, caps) =
          [kept |-> kept, log |-> {entry \in Entries(r, refs) : ~Fits(entry.ref, caps)} \cup Entries(r, cut)]
    BY <1>2 DEF DegradeRole, FilterRefs, TrimToMax, q
  <2>. HIDE DEF kept, cut, n, I
  <2>6. \A ref \in Range(refs) : ref \in Range(q) \/ Entry(r, ref) \in {entry \in Entries(r, refs) : ~Fits(entry.ref, caps)}
    BY <2>3 DEF Entries, Entry
  <2>7. \A ref \in Range(cut) : Entry(r, ref) \in Entries(r, cut)
    BY DEF Entries
  <2>8. \A entry \in Entries(r, refs) \cup Entries(r, cut) : entry.role = r /\ entry.ref \in Range(refs)
    BY <2>3, <2>4 DEF Entries, Entry
  <2>. QED
    BY <1>2, <2>3, <2>4, <2>5, <2>6, <2>7, <2>8 DEF n
<1>. QED
  BY <1>1, <1>2

\* The roles, and what a plan built from its parts has in each.
LEMMA RolesAre == /\ Roles = {"constraints", "extensions", "exclusions"}
                  /\ \A p, c, e, x : LET a == AudienceOf(p, c, e, x) IN
                       a.primary = p /\ a["constraints"] = c /\ a["extensions"] = e /\ a["exclusions"] = x
BY DEF Roles, AudienceOf

\* A plan is typed role by role.
LEMMA PlanParts == ASSUME NEW p
                   PROVE  IsPlan(p) <=> /\ p.primary.type \in Range(Types)
                                        /\ \A r \in Roles : /\ p[r] \in Seq(Range(p[r]))
                                                            /\ \A ref \in Range(p[r]) : ref.type \in Range(Types)
BY DEF IsPlan, Refs

\* A plan after degradation.
LEMMA PlanDegrades ==
  ASSUME NEW p, IsPlan(p), NEW caps, IsCapable(caps)
  PROVE  LET d == DegradePlan(p, caps) IN
         /\ IsLog(d.log) \/ ~d.fulfilled
         /\ d.fulfilled => IsPlan(d.plan) /\ KeptOf(d.plan, p, d.log)
                             /\ Unsupported(d.plan, caps) = {}
<1>. DEFINE d == DegradePlan(p, caps)  role(r) == DegradeRole(p[r], r, caps)
<1>. SUFFICES ASSUME d.fulfilled
              PROVE  IsLog(d.log) /\ IsPlan(d.plan) /\ KeptOf(d.plan, p, d.log)
                     /\ Unsupported(d.plan, caps) = {}
  OBVIOUS
<1>1. /\ Fits(p.primary, caps) /\ d.log = UNION {role(r).log : r \in Roles}
      /\ d.plan = AudienceOf(p.primary, role("constraints").kept, role("extensions").kept,
                             role("exclusions").kept)
  BY DEF DegradePlan
<1>2. d.plan.primary = p.primary /\ \A r \in Roles : d.plan[r] = role(r).kept
  <2>. HIDE DEF role, d
  <2>. QED
    BY <1>1, RolesAre
<1>3. ASSUME NEW r \in Roles
      PROVE  /\ role(r).kept \in Seq(Range(p[r])) /\ Range(role(r).kept) \subseteq Range(p[r])
             /\ role(r).kept \in Seq(Range(role(r).kept))
             /\ \A ref \in Range(p[r]) : ref \in Range(role(r).kept) \/ Entry(r, ref) \in role(r).log
             /\ \A entry \in role(r).log : entry.role = r /\ entry.ref \in Range(p[r])
             /\ \A ref \in Range(role(r).kept) : Fits(ref, caps)
             /\ r \in caps.on => Len(role(r).kept) <= caps.max[r]
             /\ r \notin caps.on => role(r).kept = <<>>
  <2>1. p[r] \in Seq(Range(p[r]))
    BY PlanParts
  <2>. DEFINE A == Range(p[r])  k == role(r).kept
  <2>2. /\ k \in Seq(A) /\ Range(k) \subseteq Range(p[r])
        /\ \A ref \in Range(p[r]) : ref \in Range(k) \/ Entry(r, ref) \in role(r).log
        /\ \A entry \in role(r).log : entry.role = r /\ entry.ref \in Range(p[r])
        /\ \A ref \in Range(k) : Fits(ref, caps)
        /\ r \in caps.on => Len(k) <= caps.max[r]
        /\ r \notin caps.on => k = <<>>
    BY <2>1, RoleDegrades
  <2>3. k \in Seq(Range(k))
    <3>. HIDE DEF k, A
    <3>. QED
      BY <2>2, Ranges
  <2>. QED
    BY <2>2, <2>3
<1>. HIDE DEF role, d
<1>4. IsPlan(d.plan)
  BY <1>2, <1>3, PlanParts
<1>5. KeptOf(d.plan, p, d.log)
  BY <1>1, <1>2, <1>3 DEF KeptOf
<1>6. IsLog(d.log)
  BY <1>1, <1>3, PlanParts DEF IsLog
<1>7. Unsupported(d.plan, caps) = {}
  <2>1. \A r \in Roles : d.plan[r] # <<>> => r \in caps.on
    BY <1>2, <1>3
  <2>2. \A r \in caps.on : ~(Len(d.plan[r]) > caps.max[r])
    <3>. SUFFICES ASSUME NEW r \in caps.on PROVE ~(Len(d.plan[r]) > caps.max[r])
      OBVIOUS
    <3>1. r \in Roles /\ caps.max[r] \in Nat
      BY DEF IsCapable
    <3>2. Len(d.plan[r]) <= caps.max[r] /\ Len(d.plan[r]) \in Nat
      <4>. DEFINE q == role(r).kept  A == Range(p[r])
      <4>1. q \in Seq(A) /\ Len(q) <= caps.max[r]
        BY <1>3, <3>1
      <4>. HIDE DEF q, A
      <4>2. Len(q) \in Nat
        BY <4>1
      <4>. QED
        BY <1>2, <3>1, <4>1, <4>2 DEF q
    <3>. QED
      BY <3>1, <3>2
  <2>3. \A r \in Roles : \A ref \in Range(d.plan[r]) : Fits(ref, caps)
    BY <1>2, <1>3
  <2>. QED
    BY <1>1, <1>2, <2>1, <2>2, <2>3 DEF Unsupported
<1>. QED
  BY <1>4, <1>5, <1>6, <1>7

\* What classify_intent finds of a type is the brief's own and of the type.
IsRead(b) == b.audience # NoAudience => IsPlan(b.audience)
OwnRefs(b) == IF b.audience = NoAudience THEN {} ELSE Refs(b.audience)

\* What classify_intent finds of a type in the brief is of the brief's own audience.
LEMMA KnownIsOwn ==
  ASSUME NEW b, IsRead(b), NEW t \in {"standard", "contextual"}
  PROVE  ClassifyIntent(b)[t] \in Seq({r \in OwnRefs(b) : r.type = t})
<1>. DEFINE own == IF b.audience = NoAudience THEN <<>>
                   ELSE <<b.audience.primary>> \o b.audience.constraints \o b.audience.extensions
            is(i, u) == own[i].type = u /\ IsCandidate(own[i])
            I(u) == {i \in DOMAIN own : is(i, u) /\ \A j \in 1 .. i - 1 : is(j, u) => own[j].id # own[i].id}
<1>1. ClassifyIntent(b)[t] = Picked(own, I(t))
  <2>1. ClassifyIntent(b)["standard"] = Picked(own, I("standard"))
    BY DEF ClassifyIntent
  <2>2. ClassifyIntent(b)["contextual"] = Picked(own, I("contextual"))
    BY DEF ClassifyIntent
  <2>. HIDE DEF own, I
  <2>. QED
    BY <2>1, <2>2
<1>2. own \in Seq(OwnRefs(b))
  <2>1. CASE b.audience = NoAudience
    BY <2>1
  <2>2. CASE b.audience # NoAudience
    <3>. DEFINE a == b.audience  A == Refs(a)
    <3>1. a["constraints"] \in Seq(Range(a["constraints"])) /\ a["extensions"] \in Seq(Range(a["extensions"]))
      BY <2>2, PlanParts, RolesAre DEF IsRead
    <3>2. Range(a["constraints"]) \subseteq A /\ Range(a["extensions"]) \subseteq A /\ a.primary \in A
      BY RolesAre DEF Refs
    <3>3. OwnRefs(b) = A /\ own = <<a.primary>> \o a["constraints"] \o a["extensions"]
      BY <2>2 DEF OwnRefs
    <3>. HIDE DEF own, A, a
    <3>4. a["constraints"] \in Seq(A) /\ a["extensions"] \in Seq(A) /\ <<a.primary>> \in Seq(A)
      BY <3>1, <3>2
    <3>. QED
      BY <3>3, <3>4
  <2>. QED
    BY <2>1, <2>2
<1>. DEFINE q == Picked(own, I(t))  A == OwnRefs(b)
<1>3. I(t) \in SUBSET (DOMAIN own)
  OBVIOUS
<1>4. q \in Seq(A) /\ \A k \in DOMAIN q : \E i \in I(t) : q[k] = own[i]
  <2>. HIDE DEF own, I, A
  <2>. QED
    BY <1>2, <1>3, PickedItems DEF A
<1>5. \A k \in DOMAIN q : q[k].type = t /\ q[k] \in A
  <2>1. \A i \in I(t) : own[i].type = t
    OBVIOUS
  <2>. HIDE DEF q, own, I, A
  <2>. QED
    <3>. SUFFICES ASSUME NEW k \in DOMAIN q PROVE q[k].type = t /\ q[k] \in A
      OBVIOUS
    <3>1. PICK i \in I(t) : q[k] = own[i]
      BY <1>4
    <3>. QED
      BY <1>4, <2>1, <3>1
<1>. HIDE DEF q, A
<1>6. q \in Seq({r \in A : r.type = t})
  BY <1>4, <1>5
<1>. QED
  BY <1>1, <1>6 DEF q, A

\* Nothing is added of what is used already.
LEMMA NothingFresh ==
  ASSUME NEW cands, NEW used, \A i \in DOMAIN cands : <<cands[i].type, cands[i].id>> \in used
  PROVE  FirstFresh(cands, used) = <<>>
BY DEF FirstFresh

\* A set of two elements is finite.
LEMMA PairIsFinite == ASSUME NEW x, NEW y PROVE IsFiniteSet({x, y})
<1>1. IsFiniteSet({} \cup {x})
  BY FS_EmptySet, FS_AddElement
<1>2. IsFiniteSet(({} \cup {x}) \cup {y})
  BY <1>1, FS_AddElement
<1>3. ({} \cup {x}) \cup {y} = {x, y}
  OBVIOUS
<1>. QED
  BY <1>2, <1>3

\* A brief without an audience has seeds of agentic audiences and no candidates.
LEMMA TextAlone ==
  ASSUME NEW b, b.audience = NoAudience
  PROVE  LET c == ClassifyIntent(b) IN
         /\ c["standard"] = <<>> /\ c["contextual"] = <<>>
         /\ IsFiniteSet(c.seeds) /\ Cardinality(c.seeds) \in Nat
<1>. DEFINE c == ClassifyIntent(b)
            words == {w \in NormalizeTokens(b.text) : ClassifyToken(w) = "agentic"}
<1>1. IsRead(b) /\ OwnRefs(b) = {}
  BY DEF IsRead, OwnRefs
<1>2. ASSUME NEW t \in {"standard", "contextual"} PROVE c[t] = <<>>
  <2>1. c[t] \in Seq({r \in OwnRefs(b) : r.type = t})
    BY <1>1, KnownIsOwn
  <2>2. {r \in OwnRefs(b) : r.type = t} = {}
    BY <1>1
  <2>. HIDE DEF c
  <2>. QED
    BY <2>1, <2>2
<1>3. c.seeds = {r.id : r \in {r \in Range(<<>>) : r.type = "agentic"}} \cup words
                  \cup (b.text \cap {"agentic phrase"})
  BY DEF ClassifyIntent
<1>4. words \subseteq {"agentic"}
  BY DEF ClassifyToken
<1>5. Range(<<>>) = {}
  BY DEF Range
<1>6. c.seeds \subseteq {"agentic", "agentic phrase"}
  <2>. HIDE DEF c, words
  <2>. QED
    BY <1>3, <1>4, <1>5
<1>7. IsFiniteSet({"agentic", "agentic phrase"})
  BY PairIsFinite
<1>8. IsFiniteSet(c.seeds)
  <2>. HIDE DEF c
  <2>. QED
    BY <1>6, <1>7, FS_Subset
<1>. HIDE DEF c
<1>. QED
  BY <1>2, <1>8, FS_CardinalityType DEF c

\* Of three numbers one is the largest, and the first of those that are.
LEMMA FirstLargest ==
  ASSUME NEW x \in [1 .. 3 -> Int]
  PROVE  \E i \in 1 .. 3 : \A j \in 1 .. 3 : x[i] > x[j] \/ (x[i] = x[j] /\ i <= j)
<1>1. x[1] \in Int /\ x[2] \in Int /\ x[3] \in Int /\ 1 .. 3 = {1, 2, 3}
  OBVIOUS
<1>2. CASE x[1] >= x[2] /\ x[1] >= x[3]
  <2>. WITNESS 1 \in 1 .. 3
  <2>. QED
    BY <1>1, <1>2
<1>3. CASE x[1] < x[2] /\ x[2] >= x[3]
  <2>. WITNESS 2 \in 1 .. 3
  <2>. QED
    BY <1>1, <1>3
<1>4. CASE x[1] < x[3] /\ x[2] < x[3]
  <2>. WITNESS 3 \in 1 .. 3
  <2>. QED
    BY <1>1, <1>4
<1>. QED
  BY <1>1, <1>2, <1>3, <1>4

\* The type picked for it, if any, is agentic.
LEMMA PickedIsAgentic ==
  ASSUME NEW b, b.audience = NoAudience
  PROVE  PickPrimary(b, ClassifyIntent(b)) \in {"agentic", "none"}
<1>. DEFINE c == ClassifyIntent(b)
            count(t) == IF t = "agentic" THEN Cardinality(c.seeds) ELSE Len(c[t])
            own(t) == IF b.audience # NoAudience /\ b.audience.primary.type = t THEN 4 ELSE 0
            bias(t) == BiasFromText(b, t) + own(t) + (IF count(t) < 3 THEN count(t) ELSE 3)
            best(i) == \A j \in 1 .. 3 : bias(Types[i]) > bias(Types[j])
                                          \/ (bias(Types[i]) = bias(Types[j]) /\ i <= j)
            chosen == CHOOSE i \in 1 .. 3 : best(i)
            first == CHOOSE i \in 1 .. 3 : Found(c, Types[i]) /\ \A j \in 1 .. i - 1 : ~Found(c, Types[j])
<1>1. PickPrimary(b, c) = IF Found(c, Types[chosen]) THEN Types[chosen]
                          ELSE IF \E t \in Range(Types) : Found(c, t) THEN Types[first] ELSE "none"
  BY DEF PickPrimary
<1>2. c["standard"] = <<>> /\ c["contextual"] = <<>> /\ Cardinality(c.seeds) \in Nat
  BY TextAlone
<1>3. Types[1] = "standard" /\ Types[2] = "contextual" /\ Types[3] = "agentic" /\ 1 .. 3 = {1, 2, 3}
  BY DEF Types
<1>4. \A t : BiasFromText(b, t) \in Nat
  <2>. SUFFICES ASSUME NEW t PROVE BiasFromText(b, t) \in Nat
    OBVIOUS
  <2>. DEFINE T == IF t = "agentic" THEN {"agentic", "agentic phrase"} ELSE {t}
  <2>1. IsFiniteSet(T)
    <3>1. IsFiniteSet({"agentic", "agentic phrase"}) /\ IsFiniteSet({t, t})
      BY PairIsFinite
    <3>. QED
      BY <3>1
  <2>. HIDE DEF T
  <2>2. IsFiniteSet(b.text \cap T)
    BY <2>1, FS_Subset
  <2>3. Cardinality(b.text \cap T) \in Nat
    BY <2>2, FS_CardinalityType
  <2>4. BiasFromText(b, t) = 2 * Cardinality(b.text \cap T)
    BY DEF BiasFromText, T
  <2>. QED
    BY <2>3, <2>4
<1>. HIDE DEF c
<1>5. \A i \in 1 .. 3 : bias(Types[i]) \in Int
  <2>1. \A i \in 1 .. 3 : count(Types[i]) \in Nat
    BY <1>2, <1>3
  <2>. HIDE DEF count
  <2>. QED
    BY <1>4, <2>1
<1>6. chosen \in 1 .. 3
  <2>. DEFINE x == [i \in 1 .. 3 |-> bias(Types[i])]
  <2>1. x \in [1 .. 3 -> Int] /\ \A i \in 1 .. 3 : x[i] = bias(Types[i])
    BY <1>5
  <2>. HIDE DEF bias, x
  <2>2. \E i \in 1 .. 3 : best(i)
    BY <2>1, FirstLargest
  <2>. HIDE DEF best
  <2>. QED
    BY <2>2
<1>7. \A i \in 1 .. 3 : Found(c, Types[i]) => i = 3
  BY <1>2, <1>3 DEF Found
<1>8. (\E t \in Range(Types) : Found(c, t)) => first = 3
  <2>. SUFFICES ASSUME NEW t \in Range(Types), Found(c, t) PROVE first = 3
    OBVIOUS
  <2>1. Found(c, Types[3])
    BY <1>2, <1>3, RangeOfTypes DEF Found
  <2>2. \A j \in 1 .. 3 - 1 : ~Found(c, Types[j])
    BY <1>7
  <2>3. \E i \in 1 .. 3 : Found(c, Types[i]) /\ \A j \in 1 .. i - 1 : ~Found(c, Types[j])
    BY <2>1, <2>2
  <2>. QED
    BY <1>7, <2>3
<1>. HIDE DEF chosen, first
<1>. QED
  BY <1>1, <1>3, <1>6, <1>7, <1>8 DEF c

\* The planner keeps the brief's own audience and adds a lookalike at most.
LEMMA PlannerKeeps ==
  ASSUME NEW b, IsRead(b), NEW tools, NEW p \in Reasoned(b, tools)
  PROVE  IsPlan(p) /\ (b.audience # NoAudience => KeptOf(p, b.audience, {}))
<1>. DEFINE c == ClassifyIntent(b)
            given(r) == IF b.audience # NoAudience THEN b.audience[r] ELSE <<>>
            used(primary) == {<<r.type, r.id>> : r \in {primary} \cup
                                 UNION {Range(given(role)) : role \in Roles}}
            precise == KpiOrientation(b) = "precision"
            cons(primary) == IF precise THEN AddConstraints(primary, c, used(primary)) ELSE <<>>
            exts(primary) == IF precise THEN <<>> ELSE AddExtensions(c, used(primary), tools)
            looks == {<<>>, <<Mint("lookalike")>>}
<1>1. PICK primary \in PrimaryFor(b, c, tools) :
        p = AudienceOf(primary, given("constraints") \o cons(primary),
                       given("extensions") \o exts(primary), given("exclusions"))
  BY DEF Reasoned
<1>2. /\ p.primary = primary /\ p["constraints"] = given("constraints") \o cons(primary)
      /\ p["extensions"] = given("extensions") \o exts(primary) /\ p["exclusions"] = given("exclusions")
  <2>. HIDE DEF given, cons, exts
  <2>. QED
    BY <1>1 DEF AudienceOf
<1>3. ASSUME NEW r \in Roles
      PROVE  /\ given(r) \in Seq(Range(given(r)))
             /\ \A ref \in Range(given(r)) : ref.type \in Range(Types)
  <2>1. CASE b.audience = NoAudience
    <3>1. given(r) = <<>> /\ Range(<<>>) = {} /\ <<>> \in Seq({})
      BY <2>1 DEF Range
    <3>. HIDE DEF given
    <3>. QED
      BY <3>1
  <2>2. CASE b.audience # NoAudience
    BY <2>2, PlanParts DEF IsRead
  <2>. QED
    BY <2>1, <2>2
<1>4. primary.type \in Range(Types) /\ (b.audience # NoAudience => primary = b.audience.primary)
  <2>1. CASE b.audience # NoAudience
    <3>1. primary = b.audience.primary
      BY <1>1, <2>1 DEF PrimaryFor
    <3>. QED
      BY <2>1, <3>1, PlanParts DEF IsRead
  <2>2. CASE b.audience = NoAudience
    <3>1. c.standard = <<>> /\ c.contextual = <<>>
      BY <2>2, TextAlone
    <3>2. PickPrimary(b, c) \in {"agentic", "none"}
      BY <2>2, PickedIsAgentic
    <3>. HIDE DEF c
    <3>3. PrimaryFor(b, c, tools) \subseteq {Mint("primary")}
      BY <2>2, <3>1, <3>2 DEF PrimaryFor
    <3>4. primary = Mint("primary")
      BY <1>1, <3>3
    <3>. QED
      BY <2>2, <3>4, RangeOfTypes DEF Mint, AudienceRef
  <2>. QED
    BY <2>1, <2>2
<1>5. ASSUME NEW t \in {"standard", "contextual"}
      PROVE  FirstFresh(c[t], used(primary)) = <<>>
  <2>1. c[t] \in Seq({r \in OwnRefs(b) : r.type = t})
    BY KnownIsOwn
  <2>2. \A r \in OwnRefs(b) : <<r.type, r.id>> \in used(primary)
    <3>. SUFFICES ASSUME b.audience # NoAudience, NEW r \in Refs(b.audience)
                  PROVE  <<r.type, r.id>> \in used(primary)
      BY DEF OwnRefs
    <3>1. r = primary \/ \E role \in Roles : r \in Range(given(role))
      BY <1>4 DEF Refs
    <3>. QED
      BY <3>1
  <2>. DEFINE u == used(primary)  q == c[t]
  <2>. HIDE DEF u, q
  <2>3. \A i \in DOMAIN q : q[i] \in OwnRefs(b)
    BY <2>1 DEF q
  <2>4. \A i \in DOMAIN q : <<q[i].type, q[i].id>> \in u
    BY <2>2, <2>3 DEF u
  <2>5. FirstFresh(q, u) = <<>>
    BY <2>4, NothingFresh
  <2>. QED
    BY <2>5 DEF u, q
<1>6. cons(primary) = <<>>
  BY <1>5 DEF AddConstraints
<1>7. exts(primary) \in looks
  <2>. DEFINE m == Mint("lookalike")
  <2>1. AddExtensions(c, used(primary), tools) =
          (IF c.seeds # {} /\ tools.mint = "works" THEN <<m>> ELSE <<>>) \o FirstFresh(c.standard, used(primary))
    BY DEF AddExtensions
  <2>2. FirstFresh(c.standard, used(primary)) = <<>>
    BY <1>5
  <2>3. <<m>> \o <<>> = <<m>> /\ <<>> \o <<>> = <<>>
    <3>. HIDE DEF m
    <3>1. <<m>> \in Seq({m})
      OBVIOUS
    <3>. QED
      BY <3>1
  <2>. HIDE DEF c, used, m
  <2>. QED
    BY <2>1, <2>2, <2>3 DEF m
<1>. HIDE DEF given, cons, exts, c, used
<1>8. ASSUME NEW r \in Roles
      PROVE  /\ p[r] \in Seq(Range(p[r])) /\ Range(given(r)) \subseteq Range(p[r])
             /\ Range(p[r]) \subseteq Range(given(r)) \cup {Mint("lookalike")}
  <2>. DEFINE m == Mint("lookalike")  g == given(r)  A == Range(g) \cup {m}
  <2>1. g \in Seq(A) /\ <<m>> \in Seq(A) /\ <<>> \in Seq(A)
    BY <1>3
  <2>2. Range(<<m>>) = {m} /\ Range(<<>>) = {}
    BY DEF Range
  <2>3. g \o <<>> = g
    <3>. HIDE DEF A, g
    <3>. QED
      BY <2>1
  <2>4. p[r] = g \/ p[r] = g \o <<m>>
    <3>1. r \in {"constraints", "extensions", "exclusions"}
      BY RolesAre
    <3>. HIDE DEF m
    <3>. QED
      BY <1>2, <1>6, <1>7, <2>3, <3>1 DEF m
  <2>. HIDE DEF m, g, A
  <2>5. g \o <<m>> \in Seq(A) /\ Range(g \o <<m>>) = Range(g) \cup {m}
    BY <2>1, <2>2, Pasted
  <2>6. p[r] \in Seq(A) /\ Range(g) \subseteq Range(p[r]) /\ Range(p[r]) \subseteq Range(g) \cup {m}
    BY <2>1, <2>4, <2>5
  <2>7. p[r] \in Seq(Range(p[r]))
    BY <2>6, Ranges
  <2>. QED
    BY <2>6, <2>7 DEF g, m
<1>9. Mint("lookalike").type \in Range(Types)
  BY RangeOfTypes DEF Mint, AudienceRef
<1>10. IsPlan(p)
  BY <1>2, <1>3, <1>4, <1>8, <1>9, PlanParts
<1>11. ASSUME b.audience # NoAudience PROVE KeptOf(p, b.audience, {})
  <2>1. \A r \in Roles : given(r) = b.audience[r]
    BY <1>11 DEF given
  <2>. QED
    BY <1>2, <1>4, <1>8, <1>11, <2>1 DEF KeptOf
<1>. QED
  BY <1>10, <1>11

\* The lists of old briefs make audiences.
LEMMA MigratedIsPlan ==
  ASSUME NEW ids, ids \in Seq(Range(ids)), ids # <<>>
  PROVE  IsPlan(MigrateLegacy(ids))
<1>. DEFINE ref(id) == AudienceRef("standard", id, "current", "none")
            e == [i \in 1 .. Len(ids) - 1 |-> ref(ids[i + 1])]  a == MigrateLegacy(ids)
            A == {ref(ids[i]) : i \in 1 .. Len(ids)}
<1>1. Len(ids) \in Nat /\ Len(ids) > 0
  OBVIOUS
<1>2. \A x \in A : x.type \in Range(Types)
  BY RangeOfTypes DEF AudienceRef
<1>3. e \in Seq(A)
  <2>1. Len(ids) - 1 \in Nat /\ \A i \in 1 .. Len(ids) - 1 : ref(ids[i + 1]) \in A
    <3>1. \A i \in 1 .. Len(ids) - 1 : i + 1 \in 1 .. Len(ids)
      BY <1>1
    <3>. HIDE DEF ref
    <3>. QED
      BY <1>1, <3>1
  <2>. HIDE DEF ref, A
  <2>. QED
    BY <2>1
<1>4. a = AudienceOf(ref(ids[1]), <<>>, e, <<>>) /\ ref(ids[1]) \in A
  BY <1>1 DEF MigrateLegacy
<1>. HIDE DEF a, e, A, ref
<1>5. a.primary = ref(ids[1]) /\ a["constraints"] = <<>> /\ a["extensions"] = e /\ a["exclusions"] = <<>>
  BY <1>4, RolesAre
<1>6. ASSUME NEW r \in Roles PROVE a[r] \in Seq(Range(a[r])) /\ \A x \in Range(a[r]) : x.type \in Range(Types)
  <2>1. a[r] \in Seq(A)
    <3>1. <<>> \in Seq(A) /\ r \in {"constraints", "extensions", "exclusions"}
      BY RolesAre
    <3>. QED
      BY <1>3, <1>5, <3>1
  <2>2. a[r] \in Seq(Range(a[r])) /\ Range(a[r]) \subseteq A
    BY <2>1, Ranges
  <2>. QED
    BY <1>2, <2>2
<1>7. a.primary.type \in Range(Types)
  BY <1>2, <1>4, <1>5
<1>. QED
  BY <1>6, <1>7, PlanParts DEF a

\* The strengthening: what each stage keeps of the one before.
Early == {"brief", "rejected", "planning", "needs review"}
BriefSound ==
    /\ audStage = "brief" => brief \in Briefs
    /\ IsRead(brief)
PlanSound ==
    IF audStage \in Early THEN audPlan = NoAudience
    ELSE IsPlan(audPlan) /\ (brief.audience # NoAudience => KeptOf(audPlan, brief.audience, {}))
AskSound ==
    /\ audStage \in Early \cup {"planned"} => asked = NoAudience /\ lost = {}
    /\ audStage \in {"asked", "asked blindly", "booked", "booked again"} =>
         IsPlan(asked) /\ KeptOf(asked, audPlan, lost)
AudInv == AudTypeOK /\ BriefSound /\ PlanSound /\ AskSound /\ FirstRequestFits

\* Capabilities declared, assumed or read from a rejection name roles and their limits.
LEMMA Capable == /\ \A caps \in SellerCaps \cup {LegacyDefault} : IsCapable(caps)
                 /\ \A told : IsCapable(Synthesize(told))
<1>1. ASSUME NEW caps \in SellerCaps \cup {LegacyDefault} PROVE IsCapable(caps)
  BY AudienceAssumption DEF IsCapable, LegacyDefault, CapableOf
<1>2. ASSUME NEW told PROVE IsCapable(Synthesize(told))
  <2>. DEFINE off(r) == \E u \in told : u.role = r /\ u.why # "count"
              s == Synthesize(told)
  <2>1. /\ s.on = {r \in Assumed.on : ~off(r)}
        /\ s.max = [r \in Roles |-> IF off(r) THEN 0 ELSE Assumed.max[r]]
    BY DEF Synthesize, Assumed, CapableOf
  <2>2. Assumed.on = {"constraints"} /\ Assumed.max["constraints"] = 3 /\ "constraints" \in Roles
    BY DEF Assumed, CapableOf, Max3, Roles
  <2>. HIDE DEF s, off
  <2>. QED
    BY <2>1, <2>2 DEF IsCapable, s
<1>. QED
  BY <1>1, <1>2

\* A brief comes in before anything is planned.
LEMMA AudStart == AudInit => AudInv
<1> SUFFICES ASSUME AudInit PROVE AudInv
  OBVIOUS
<1>1. IsRead(brief)
  BY AudienceAssumption DEF AudInit, IsRead
<1>. QED
  BY <1>1 DEF AudInit, AudInv, AudTypeOK, BriefSound, PlanSound, AskSound, FirstRequestFits, Early

\* A brief read, migrated or rejected keeps its own audience.
LEMMA IngestStep == AudInv /\ IngestBrief => AudInv'
<1> SUFFICES ASSUME AudInv, IngestBrief PROVE AudInv'
  OBVIOUS
<1>1. /\ audStage = "brief" /\ brief \in Briefs /\ audStage' \in {"planning", "rejected"}
      /\ brief' = Coerced(brief)
      /\ UNCHANGED <<audPlan, reachKnown, supports, believed, asked, lost, audEvents>>
  BY DEF AudInv, BriefSound, IngestBrief
<1>2. IsRead(brief')
  <2>1. CASE brief.legacy = <<>>
    BY <1>1, <2>1 DEF Coerced, AudInv, BriefSound
  <2>2. CASE brief.legacy # <<>>
    <3>1. brief'.audience = MigrateLegacy(brief.legacy)
      BY <1>1, <2>2, AudienceAssumption DEF Coerced
    <3>2. IsPlan(MigrateLegacy(brief.legacy))
      BY <1>1, <2>2, AudienceAssumption, MigratedIsPlan
    <3>. QED
      BY <3>1, <3>2 DEF IsRead
  <2>. QED
    BY <2>1, <2>2
<1>3. /\ audPlan = NoAudience /\ asked = NoAudience /\ lost = {} /\ reachKnown \in BOOLEAN
      /\ {supports, believed} \subseteq SellerCaps \cup {LegacyDefault}
  BY <1>1 DEF AudInv, AudTypeOK, PlanSound, AskSound, Early
<1>. QED
  BY <1>1, <1>2, <1>3
  DEF AudInv, AudTypeOK, BriefSound, PlanSound, AskSound, FirstRequestFits, Early

\* The planner's plan keeps what the brief asked for.
LEMMA ComposeStep == AudInv /\ Compose => AudInv'
<1> SUFFICES ASSUME AudInv, Compose PROVE AudInv'
  OBVIOUS
<1>1. /\ audStage = "planning" /\ IsRead(brief)
      /\ UNCHANGED <<brief, supports, believed, asked, lost, audEvents>>
      /\ audPlan = NoAudience /\ asked = NoAudience /\ lost = {} /\ reachKnown \in BOOLEAN
      /\ {supports, believed} \subseteq SellerCaps \cup {LegacyDefault}
  BY DEF AudInv, AudTypeOK, BriefSound, PlanSound, AskSound, Compose, Early
<1>2. PICK tools \in Toolsets :
         IF Reasoned(brief, tools) = {}
         THEN audStage' = "needs review" /\ UNCHANGED <<audPlan, reachKnown>>
         ELSE /\ audPlan' \in Reasoned(brief, tools) /\ reachKnown' = ValidatePlan(tools)
              /\ audStage' = "planned"
  BY DEF Compose
<1>3. CASE Reasoned(brief, tools) = {}
  BY <1>1, <1>2, <1>3
  DEF AudInv, AudTypeOK, BriefSound, PlanSound, AskSound, FirstRequestFits, Early, IsRead
<1>4. CASE Reasoned(brief, tools) # {}
  <2>1. IsPlan(audPlan') /\ (brief.audience # NoAudience => KeptOf(audPlan', brief.audience, {}))
    BY <1>1, <1>2, <1>4, PlannerKeeps
  <2>2. audStage' = "planned" /\ reachKnown' \in BOOLEAN
    BY <1>2, <1>4 DEF ValidatePlan
  <2>. QED
    BY <1>1, <2>1, <2>2
    DEF AudInv, AudTypeOK, BriefSound, PlanSound, AskSound, FirstRequestFits, Early, IsRead
<1>. QED
  BY <1>3, <1>4

\* What stays of the brief and the plan once the plan is there.
LEMMA Planned ==
  ASSUME AudInv, audStage \notin Early, UNCHANGED <<brief, audPlan>>,
         audStage' \notin Early \cup {"planned"}
  PROVE  BriefSound' /\ PlanSound' /\ IsPlan(audPlan)
         /\ (brief.audience # NoAudience => KeptOf(audPlan, brief.audience, {}))
<1>1. IsRead(brief)'
  BY DEF AudInv, BriefSound, IsRead
<1>2. IsPlan(audPlan) /\ (brief.audience # NoAudience => KeptOf(audPlan, brief.audience, {}))
  BY DEF AudInv, PlanSound
<1>3. audStage' # "brief"
  BY DEF Early
<1>. QED
  BY <1>1, <1>2, <1>3 DEF BriefSound, PlanSound, IsRead

\* What preflight drops for a seller's capabilities is in the log, and what is left fits.
LEMMA PreflightStep == AudInv /\ Preflight => AudInv'
<1> SUFFICES ASSUME AudInv, Preflight PROVE AudInv'
  OBVIOUS
<1>. DEFINE d == DegradePlan(audPlan, believed')
<1>1. /\ audStage = "planned" /\ believed' \in SellerCaps \cup {LegacyDefault}
      /\ UNCHANGED <<brief, audPlan, reachKnown, supports>>
      /\ IF ~d.fulfilled \/ SkipRequired(brief, d.log)
         THEN audStage' = "incompatible" /\ UNCHANGED <<asked, lost>>
         ELSE audStage' = "asked" /\ asked' = d.plan /\ lost' = d.log
  BY DEF Preflight
<1>2. audStage \notin Early /\ audStage' \notin Early \cup {"planned"}
  BY <1>1 DEF Early
<1>3. BriefSound' /\ PlanSound' /\ IsPlan(audPlan)
  BY <1>1, <1>2, Planned
<1>4. supports' \in SellerCaps \cup {LegacyDefault} /\ reachKnown' \in BOOLEAN
      /\ asked = NoAudience /\ lost = {}
  BY <1>1 DEF AudInv, AudTypeOK, AskSound
<1>5. CASE ~d.fulfilled \/ SkipRequired(brief, d.log)
  BY <1>1, <1>3, <1>4, <1>5 DEF AudInv, AudTypeOK, AskSound, FirstRequestFits, Early
<1>6. CASE d.fulfilled /\ ~SkipRequired(brief, d.log)
  <2>1. IsLog(d.log) /\ IsPlan(d.plan) /\ KeptOf(d.plan, audPlan, d.log)
        /\ Unsupported(d.plan, believed') = {}
    BY <1>1, <1>3, <1>6, PlanDegrades, Capable
  <2>. HIDE DEF d
  <2>2. audStage' = "asked" /\ asked' = d.plan /\ lost' = d.log
    BY <1>1, <1>6
  <2>3. FirstRequestFits'
    BY <1>1, <1>6, <2>1, <2>2 DEF FirstRequestFits, SkipRequired, EntryLevel
  <2>4. AskSound'
    BY <1>1, <2>1, <2>2 DEF AskSound, Early
  <2>5. AudTypeOK'
    BY <1>1, <1>3, <1>4, <2>1, <2>2 DEF AudTypeOK, IsLog, PlanSound, Early
  <2>. QED
    BY <1>3, <2>3, <2>4, <2>5 DEF AudInv
<1>. QED
  BY <1>5, <1>6

\* A direct booking sends the plan as it is.
LEMMA DirectStep == AudInv /\ BookDirectly => AudInv'
<1> SUFFICES ASSUME AudInv, BookDirectly PROVE AudInv'
  OBVIOUS
<1>1. /\ audStage = "planned" /\ audStage' = "asked blindly" /\ asked' = audPlan
      /\ UNCHANGED <<brief, audPlan, reachKnown, supports, believed, lost, audEvents>>
  BY DEF BookDirectly
<1>2. audStage \notin Early /\ audStage' \notin Early \cup {"planned"}
  BY <1>1 DEF Early
<1>3. BriefSound' /\ PlanSound' /\ IsPlan(audPlan)
  BY <1>1, <1>2, Planned
<1>4. lost = {}
  BY <1>1 DEF AudInv, AskSound
<1>5. KeptOf(audPlan, audPlan, {})
  BY DEF KeptOf
<1>. QED
  BY <1>1, <1>3, <1>4, <1>5 DEF AudInv, AudTypeOK, AskSound, FirstRequestFits, Early

\* Keeping through two stages is keeping, with both logs.
LEMMA KeptAgain ==
  ASSUME NEW p, NEW q, NEW o, NEW log, NEW more, KeptOf(q, o, log), KeptOf(p, q, more)
  PROVE  KeptOf(p, o, log \cup more)
BY DEF KeptOf

\* A second request after a rejection keeps the plan, the log has what was dropped for it.
LEMMA AnswerStep == AudInv /\ Answer => AudInv'
<1> SUFFICES ASSUME AudInv, Answer PROVE AudInv'
  OBVIOUS
<1>1. /\ audStage \in {"asked", "asked blindly"} /\ supports' \in SellerCaps
      /\ UNCHANGED <<brief, audPlan, reachKnown, believed>>
      /\ \/ audStage' = "booked" /\ UNCHANGED <<asked, lost, audEvents>>
         \/ audStage' = "failed" /\ UNCHANGED <<asked, lost, audEvents>>
         \/ \E told \in Refusals(Unsupported(asked, supports')) :
              LET d == DegradePlan(asked, Synthesize(told)) IN
              IF ~d.fulfilled
              THEN audStage' = "incompatible" /\ UNCHANGED <<asked, lost>>
              ELSE /\ asked' = d.plan
                   /\ \/ audStage' = "booked again" /\ lost' = lost \cup d.log
                      \/ audStage' = "incompatible" /\ UNCHANGED lost
  BY DEF Answer
<1>2. audStage \notin Early
      /\ audStage' \in {"booked", "failed", "booked again", "incompatible"}
      /\ audStage' \notin Early \cup {"planned"}
  BY <1>1 DEF Early
<1>3. BriefSound' /\ PlanSound' /\ IsPlan(audPlan)
  BY <1>1, <1>2, Planned
<1>4. /\ IsPlan(asked) /\ KeptOf(asked, audPlan, lost) /\ reachKnown' \in BOOLEAN
      /\ believed' \in SellerCaps \cup {LegacyDefault} /\ IsLog(lost)
  BY <1>1 DEF AudInv, AudTypeOK, AskSound, IsLog
<1>5. /\ IsPlan(asked') /\ IsLog(lost')
      /\ audStage' \in {"booked", "booked again"} => KeptOf(asked', audPlan, lost')
  <2>1. CASE UNCHANGED <<asked, lost>>
    BY <1>4, <2>1
  <2>2. ASSUME NEW told, DegradePlan(asked, Synthesize(told)).fulfilled,
               asked' = DegradePlan(asked, Synthesize(told)).plan,
               \/ audStage' = "booked again" /\ lost' = lost \cup DegradePlan(asked, Synthesize(told)).log
               \/ audStage' = "incompatible" /\ UNCHANGED lost
        PROVE  <1>5!:
    <3>. DEFINE d == DegradePlan(asked, Synthesize(told))
    <3>1. IsLog(d.log) /\ IsPlan(d.plan) /\ KeptOf(d.plan, asked, d.log)
      BY <1>4, <2>2, PlanDegrades, Capable
    <3>2. KeptOf(d.plan, audPlan, lost \cup d.log)
      BY <1>4, <3>1, KeptAgain
    <3>. QED
      BY <1>4, <2>2, <3>1, <3>2 DEF IsLog
  <2>. QED
    BY <1>1, <2>1, <2>2
<1>. QED
  BY <1>1, <1>2, <1>3, <1>4, <1>5
  DEF AudInv, AudTypeOK, AskSound, FirstRequestFits, Early, IsLog, PlanSound

\* Every step of a brief keeps the audience or tells what it lost.
LEMMA AudStep == AudInv /\ [AudNext]_audVars => AudInv'
<1> SUFFICES ASSUME AudInv, [AudNext]_audVars PROVE AudInv'
  OBVIOUS
<1>1. CASE UNCHANGED audVars
  BY <1>1 DEF audVars, AudInv, AudTypeOK, BriefSound, PlanSound, AskSound, FirstRequestFits, IsRead
<1>. QED
  BY <1>1, IngestStep, ComposeStep, PreflightStep, DirectStep, AnswerStep DEF AudNext

\* A booking whose audience keeps the brief's, with a log of what was lost, loses nothing
\* silently.
LEMMA AudienceIsKept == AudInv => NothingLostSilently
<1> SUFFICES ASSUME AudInv, IsBooked, brief.audience # NoAudience
             PROVE  KeptOf(asked, brief.audience, lost)
  BY DEF NothingLostSilently, KeptOf
<1>1. audStage \in {"booked", "booked again"} /\ audStage \notin Early
  BY DEF IsBooked, Early
<1>2. KeptOf(asked, audPlan, lost) /\ KeptOf(audPlan, brief.audience, {})
  BY <1>1 DEF AudInv, AskSound, PlanSound
<1>3. {} \cup lost = lost
  OBVIOUS
<1>. QED
  BY <1>2, <1>3, KeptAgain

--------------------------------------------------------------------------------
(* OpenDirect, the catalogue: every record of a page is listed, or a      *)
(* warning or an error was told, for any pages and items.                 *)

\* Positions of a page whose items have some of the shapes.
At(items, shapes) == {i \in DOMAIN items : ItemShape[items[i]] \in shapes}

\* A listing of some shapes has as many records as the page has items of them.
LEMMA ShapedCounts ==
  ASSUME NEW items \in Seq(CatalogueItems), NEW shapes, NEW more
  PROVE  /\ IsFiniteSet(At(items, shapes)) /\ Cardinality(At(items, shapes)) \in Nat
         /\ Shaped(items, shapes) \in Seq(CatalogueItems)
         /\ Len(Shaped(items, shapes)) = Cardinality(At(items, shapes))
         /\ Len(Shaped(Shaped(items, shapes), more)) = Cardinality(At(items, shapes \cap more))
<1>. DEFINE I == At(items, shapes)  q == Picked(items, I)
            V == {x \in CatalogueItems : ItemShape[x] \in more}
<1>1. I \in SUBSET (DOMAIN items) /\ Shaped(items, shapes) = q
  BY DEF At, Shaped
<1>2. IsFiniteSet(I) /\ Cardinality(I) \in Nat
  BY <1>1, Positions
<1>3. q \in Seq(CatalogueItems) /\ Len(q) = Cardinality(I)
  BY <1>1, PickedItems
<1>4. HowMany(q, DOMAIN q, V) = HowMany(items, I, V)
  <2>. HIDE DEF V, I
  <2>. QED
    BY <1>1, PickedCounts
<1>. HIDE DEF q
<1>5. {k \in DOMAIN q : q[k] \in V} = At(q, more)
  <2>1. \A k \in DOMAIN q : q[k] \in CatalogueItems
    <3>. HIDE DEF I
    <3>. QED
      BY <1>3
  <2>. QED
    BY <2>1 DEF At
<1>6. {i \in I : items[i] \in V} = At(items, shapes \cap more)
  BY DEF At
<1>7. Len(Shaped(q, more)) = Cardinality(At(q, more))
  <2>1. At(q, more) \in SUBSET (DOMAIN q) /\ Shaped(q, more) = Picked(q, At(q, more))
    BY DEF At, Shaped
  <2>. QED
    BY <1>3, <2>1, PickedItems
<1>. QED
  BY <1>1, <1>2, <1>3, <1>4, <1>5, <1>6, <1>7 DEF HowMany

\* Shapes that no item has twice split a page.
LEMMA ShapesSplit ==
  ASSUME NEW items \in Seq(CatalogueItems)
  PROVE  Len(items) = Cardinality(At(items, {"ok", "dear"}))
                        + Cardinality(At(items, {"unreadable", "unconvertible"}))
                        + Cardinality(At(items, {"other_format"}))
<1>. DEFINE A == At(items, {"ok", "dear"})  B == At(items, {"unreadable", "unconvertible"})
            C == At(items, {"other_format"})
<1>1. DOMAIN items = 1 .. Len(items) /\ Len(items) \in Nat
      /\ \A i \in DOMAIN items : items[i] \in CatalogueItems
  OBVIOUS
<1>2. A \cup B \cup C = 1 .. Len(items) /\ A \cap B = {} /\ (A \cup B) \cap C = {}
  BY <1>1, OpenDirectAssumption DEF At
<1>3. /\ IsFiniteSet(A) /\ IsFiniteSet(B) /\ IsFiniteSet(C)
      /\ Cardinality(A) \in Nat /\ Cardinality(B) \in Nat /\ Cardinality(C) \in Nat
  BY ShapedCounts
<1>. HIDE DEF A, B, C
<1>4. IsFiniteSet(A \cup B) /\ Cardinality(A \cup B) = Cardinality(A) + Cardinality(B) - Cardinality(A \cap B)
  BY <1>3, FS_Union
<1>5. Cardinality((A \cup B) \cup C) = Cardinality(A \cup B) + Cardinality(C) - Cardinality((A \cup B) \cap C)
  BY <1>3, <1>4, FS_Union
<1>6. Cardinality({}) = 0 /\ Cardinality(1 .. Len(items)) = Len(items)
  <2>1. 1 - 1 <= Len(items)
    BY <1>1
  <2>. DEFINE n == Len(items)
  <2>. HIDE DEF n
  <2>2. n \in Nat /\ 1 - 1 <= n
    BY <1>1, <2>1 DEF n
  <2>3. Cardinality(1 .. n) = n - 1 + 1
    BY <2>2, FS_Interval
  <2>4. Cardinality({}) = 0
    BY FS_EmptySet
  <2>. QED
    BY <2>2, <2>3, <2>4 DEF n
<1>7. Len(items) = Cardinality(A) + Cardinality(B) + Cardinality(C)
  <2>. DEFINE a == Cardinality(A)  b == Cardinality(B)  c == Cardinality(C)
              ab == Cardinality(A \cup B)  abc == Cardinality((A \cup B) \cup C)
  <2>1. a \in Nat /\ b \in Nat /\ c \in Nat /\ Len(items) \in Nat
    BY <1>1, <1>3
  <2>2. ab = a + b - Cardinality(A \cap B) /\ abc = ab + c - Cardinality((A \cup B) \cap C)
    BY <1>4, <1>5
  <2>3. Cardinality(A \cap B) = 0 /\ Cardinality((A \cup B) \cap C) = 0 /\ abc = Len(items)
    BY <1>2, <1>6
  <2>. HIDE DEF a, b, c, ab, abc
  <2>4. ab = a + b /\ abc = ab + c
    BY <2>1, <2>2, <2>3
  <2>5. Len(items) = a + b + c
    BY <2>3, <2>4
  <2>. QED
    BY <2>5 DEF a, b, c
<1>. QED
  BY <1>7 DEF A, B, C

\* The strengthening: a listing is what its page makes.
ListingIsOfPage ==
    /\ listing.at = "tolerant" =>
         listing.products = FromWireProducts(page) /\ listing.rejects = Rejected(page)
    /\ listing.at = "strict" =>
         /\ listing.products = FromWireProducts(FilterWireProducts(page))
         /\ listing.rejects = <<>> /\ Rejected(page) = <<>>
AvailsSound ==
    /\ avails \in [at : {"idle", "asked", "conformant", "foreign", "failed"}, spec : BOOLEAN,
                   tries : 0 .. 2, record : OtherProducts \cup {AskedProduct, NoProduct}]
    /\ avails.at = "idle" => avails.tries = 0
    /\ avails.spec => avails.tries <= 1
    /\ avails.at = "conformant" => avails.record = AskedProduct
CatalogueInv ==
    /\ page \in Seq(CatalogueItems)
    /\ listing.at \in {"unread", "tolerant", "strict", "bounded", "failed"}
    /\ ListingIsOfPage /\ AvailsSound

\* Nothing is listed before a search.
LEMMA CatalogueStart == OdInit => CatalogueInv
BY DEF OdInit, CatalogueInv, ListingIsOfPage, AvailsSound, Unread

\* A page is a sequence of items.
LEMMA PagesAreSequences == \A items \in SeqOf(CatalogueItems, MaxPage) : items \in Seq(CatalogueItems)
BY OpenDirectAssumption DEF SeqOf

\* Whatever a search, a tolerant or a strict reading answers is of the page it read.
LEMMA CatalogueStep == CatalogueInv /\ [OdNext]_odVars => CatalogueInv'
<1> SUFFICES ASSUME CatalogueInv, [OdNext]_odVars PROVE CatalogueInv'
  OBVIOUS
<1>1. CASE UNCHANGED catalogueVars
  BY <1>1 DEF catalogueVars, CatalogueInv, ListingIsOfPage, AvailsSound
<1>2. CASE ListProductsTolerant
  <2>1. PICK items \in SeqOf(CatalogueItems, MaxPage) :
          page' = items /\ listing' = [at |-> "tolerant", products |-> FromWireProducts(items),
                                       rejects |-> Rejected(items)]
    BY <1>2 DEF ListProductsTolerant
  <2>2. page' \in Seq(CatalogueItems) /\ avails' = avails
    BY <1>2, <2>1, PagesAreSequences DEF ListProductsTolerant
  <2>3. ListingIsOfPage'
    BY <2>1 DEF ListingIsOfPage
  <2>. QED
    BY <2>1, <2>2, <2>3 DEF CatalogueInv, AvailsSound
<1>3. CASE ProductSearch
  <2>1. PICK items \in SeqOf(CatalogueItems, MaxPage), bounded \in BOOLEAN :
          /\ page' = items
          /\ listing' = IF bounded /\ SearchProducts(items).at = "strict"
                        THEN [at |-> "bounded", products |-> Shaped(items, {"ok"}), rejects |-> <<>>]
                        ELSE SearchProducts(items)
    BY <1>3 DEF ProductSearch
  <2>2. page' \in Seq(CatalogueItems) /\ avails' = avails
    BY <1>3, <2>1, PagesAreSequences DEF ProductSearch
  <2>3. CASE listing' = SearchProducts(items)
    <3>1. CASE Rejected(items) # <<>>
      <4>1. listing'.at = "failed"
        BY <2>3, <3>1 DEF SearchProducts, FetchWireProducts, Unread
      <4>. QED
        BY <2>2, <4>1 DEF CatalogueInv, AvailsSound, ListingIsOfPage
    <3>2. CASE Rejected(items) = <<>>
      <4>1. listing' = [at |-> "strict", products |-> FromWireProducts(FilterWireProducts(items)),
                        rejects |-> <<>>]
        BY <2>3, <3>2 DEF SearchProducts, FetchWireProducts
      <4>2. ListingIsOfPage'
        BY <2>1, <3>2, <4>1 DEF ListingIsOfPage
      <4>. QED
        BY <2>2, <4>1, <4>2 DEF CatalogueInv, AvailsSound
    <3>. QED
      BY <3>1, <3>2
  <2>4. CASE listing' = [at |-> "bounded", products |-> Shaped(items, {"ok"}), rejects |-> <<>>]
    BY <2>2, <2>4 DEF CatalogueInv, AvailsSound, ListingIsOfPage
  <2>. QED
    BY <2>1, <2>3, <2>4
<1>4. CASE CheckAvails \/ PostLegacyAvails \/ AvailsAnswered
  <2>1. UNCHANGED <<page, listing>>
    BY <1>4 DEF CheckAvails, PostLegacyAvails, AvailsAnswered
  <2>2. AvailsSound'
    <3>. USE DEF CatalogueInv, AvailsSound
    <3>1. CASE CheckAvails
      <4>1. PICK spec \in BOOLEAN :
              avails' = [avails EXCEPT !.at = "asked", !.spec = spec, !.tries = 1]
        BY <3>1 DEF CheckAvails
      <4>2. avails' = [at |-> "asked", spec |-> spec, tries |-> 1, record |-> avails.record]
        BY <4>1
      <4>. QED
        BY <4>2
    <3>2. CASE PostLegacyAvails
      <4>1. avails' = [at |-> "asked", spec |-> FALSE, tries |-> avails.tries + 1,
                       record |-> avails.record]
        BY <3>2 DEF PostLegacyAvails
      <4>2. avails.tries \in 0 .. 1
        BY <3>2 DEF PostLegacyAvails
      <4>. QED
        BY <4>1, <4>2
    <3>3. CASE AvailsAnswered
      <4>1. PICK records \in SeqOf(OtherProducts \cup {AskedProduct}, 2) :
              \/ avails' = [avails EXCEPT !.at = IF records = <<>> THEN "failed"
                                                 ELSE IF AskedProduct \in ToSet(records)
                                                 THEN "conformant" ELSE "foreign",
                                          !.record = Matching(records)]
              \/ avails' = [avails EXCEPT !.at = "conformant", !.record = AskedProduct]
              \/ avails' = [avails EXCEPT !.at = "failed"]
        <5>1. <<>> \in SeqOf(OtherProducts \cup {AskedProduct}, 2)
          BY DEF SeqOf
        <5>. QED
          BY <3>3, <5>1 DEF AvailsAnswered
      <4>2. Matching(records) \in OtherProducts \cup {AskedProduct, NoProduct}
        <5>1. records \in Seq(OtherProducts \cup {AskedProduct})
          <6>. DEFINE P == OtherProducts \cup {AskedProduct}
          <6>1. PICK n \in 0 .. 2 : records \in [1 .. n -> P]
            BY DEF SeqOf
          <6>. HIDE DEF P
          <6>2. n \in Nat
            OBVIOUS
          <6>3. records \in Seq(P)
            BY <6>1, <6>2
          <6>. QED
            BY <6>3 DEF P
        <5>. QED
          BY <5>1 DEF Matching, FirstRecord
      <4>3. AskedProduct \in ToSet(records) => Matching(records) = AskedProduct
        BY DEF Matching
      <4>. QED
        BY <4>1, <4>2, <4>3 DEF CatalogueInv, AvailsSound
    <3>. QED
      BY <1>4, <3>1, <3>2, <3>3
  <2>. QED
    BY <2>1, <2>2 DEF CatalogueInv, ListingIsOfPage
<1>5. ASSUME CreateOrderTool \/ CreateLineTool \/ ReserveLineTool \/ BookLineTool \/ ClientCall
             \/ (\E r \in wire : SellerHandles(r)) \/ CallAnswers \/ AnswerUnreadable \/ AnswerLost
      PROVE  UNCHANGED catalogueVars
  BY <1>5 DEF CreateOrderTool, CreateLineTool, ReserveLineTool, BookLineTool, ClientCall, Send,
              SellerHandles, CallAnswers, AnswerUnreadable, AnswerLost, Report
<1>6. CASE UNCHANGED odVars
  BY <1>1, <1>6 DEF odVars
<1>. QED
  BY <1>1, <1>2, <1>3, <1>4, <1>5, <1>6 DEF OdNext

\* A page is listed, warned of or failed as a whole: the counts add up.
LEMMA PageIsAccounted == CatalogueInv => PageAccounts
<1> SUFFICES ASSUME CatalogueInv, listing.at \in {"tolerant", "strict"}
             PROVE  Len(page) = Len(listing.products) + Len(listing.rejects)
                                  + Len(Shaped(page, {"other_format"}))
  <2>1. ASSUME CatalogueInv PROVE avails.tries <= 2
    <3>1. avails.tries \in 0 .. 2
      BY <2>1 DEF CatalogueInv, AvailsSound
    <3>. QED
      BY <3>1
  <2>. QED
    BY <2>1 DEF CatalogueInv, AvailsSound, PageAccounts
<1>. DEFINE bad == {"unreadable", "unconvertible"}  wired == {"ok", "dear", "unconvertible"}
<1>1. page \in Seq(CatalogueItems)
  BY DEF CatalogueInv
<1>2. Len(page) = Len(Shaped(page, {"ok", "dear"})) + Len(Shaped(page, bad))
                    + Len(Shaped(page, {"other_format"}))
  BY <1>1, ShapesSplit, ShapedCounts
<1>3. CASE listing.at = "tolerant"
  BY <1>2, <1>3 DEF CatalogueInv, ListingIsOfPage, FromWireProducts, Rejected
<1>4. CASE listing.at = "strict"
  <2>1. listing.products = Shaped(Shaped(page, wired), {"ok", "dear"}) /\ listing.rejects = <<>>
        /\ Shaped(page, bad) = <<>>
    BY <1>4 DEF CatalogueInv, ListingIsOfPage, FromWireProducts, FilterWireProducts, Rejected
  <2>2. Len(listing.products) = Len(Shaped(page, {"ok", "dear"}))
    <3>1. Len(Shaped(Shaped(page, wired), {"ok", "dear"})) = Cardinality(At(page, wired \cap {"ok", "dear"}))
      BY <1>1, ShapedCounts
    <3>2. wired \cap {"ok", "dear"} = {"ok", "dear"}
      OBVIOUS
    <3>. QED
      BY <1>1, <2>1, <3>1, <3>2, ShapedCounts
  <2>. QED
    BY <1>2, <2>1, <2>2
<1>. QED
  BY <1>3, <1>4

WireInBook == sent <= MaxSent /\ \A r \in wire : r.of \in 0 .. Len(book)
OrderInv == BookInv /\ CatalogueInv /\ WireInBook

\* Nothing is on the wire at the start.
LEMMA OrderStart == OdInit => OrderInv
BY BookStart, CatalogueStart, OpenDirectAssumption DEF OrderInv, WireInBook, OdInit

\* A request on its way is about an entity of the book, or about none.
LEMMA WireStep == BookInv /\ WireInBook /\ [OdNext]_odVars => WireInBook'
<1> SUFFICES ASSUME BookInv, WireInBook, [OdNext]_odVars PROVE WireInBook'
  OBVIOUS
<1>0. book \in Seq(Entities) /\ sent \in Nat /\ Len(book) \in Nat /\ DOMAIN book = 1 .. Len(book)
  BY DEF BookInv, BookTypes
<1>1. ASSUME NEW d, NEW of \in 0 .. Len(book), Send(d, of) PROVE WireInBook'
  BY <1>0, <1>1, OpenDirectAssumption DEF Send, WireInBook
<1>2. CASE CreateOrderTool \/ CreateLineTool \/ ReserveLineTool \/ BookLineTool \/ ClientCall
  <2>1. \A kind : OfKind(kind) \subseteq 0 .. Len(book)
    BY <1>0 DEF OfKind
  <2>. QED
    BY <1>0, <1>1, <1>2, <2>1
       DEF CreateOrderTool, CreateLineTool, ReserveLineTool, BookLineTool, ClientCall
<1>3. CASE \E r \in wire : SellerHandles(r)
  <2>1. PICK r \in wire : SellerHandles(r)
    BY <1>3
  <2>2. wire' \subseteq wire /\ sent' = sent
    BY <2>1 DEF SellerHandles
  <2>3. Len(book') \in Nat /\ Len(book') >= Len(book)
    <3>1. CASE book' = Append(book, [kind |-> r.does.kind, status |-> r.does.to])
      BY <1>0, <3>1
    <3>2. CASE book' = [book EXCEPT ![r.of].status = r.does.to]
      BY <1>0, <3>2
    <3>3. CASE UNCHANGED book
      BY <1>0, <3>3
    <3>. QED
      BY <2>1, <3>1, <3>2, <3>3 DEF SellerHandles
  <2>4. \A q \in wire : q.of \in 0 .. Len(book')
    BY <1>0, <2>3 DEF WireInBook
  <2>. QED
    BY <2>2, <2>4 DEF WireInBook
<1>4. CASE CallAnswers \/ AnswerUnreadable \/ AnswerLost
  BY <1>4 DEF CallAnswers, AnswerUnreadable, AnswerLost, Report, WireInBook
<1>5. CASE ListProductsTolerant \/ ProductSearch \/ CheckAvails \/ PostLegacyAvails \/ AvailsAnswered
  BY <1>5 DEF ListProductsTolerant, ProductSearch, CheckAvails, PostLegacyAvails, AvailsAnswered,
              bookVars, WireInBook
<1>6. CASE UNCHANGED odVars
  BY <1>6 DEF odVars, bookVars, WireInBook
<1>. QED
  BY <1>2, <1>3, <1>4, <1>5, <1>6 DEF OdNext

\* Searches and bookings together keep their invariants.
LEMMA OrderStep == OrderInv /\ [OdNext]_odVars => OrderInv'
BY BookStep, CatalogueStep, WireStep DEF OrderInv

\* The invariants of searches and bookings give their types.
LEMMA OrdersAreTyped == OrderInv => OdTypeOK
<1> SUFFICES ASSUME OrderInv PROVE OdTypeOK
  OBVIOUS
<1>1. /\ book \in Seq(Entities) /\ sent \in Nat
      /\ wire \subseteq [id : 1 .. sent, of : Nat, does : Creations \cup Updates]
      /\ waiting.answer \in {"none", "done", "refused"}
      /\ reports \in Seq([op : OpenOps, of : Nat, verdict : {"success", "error"}])
  BY DEF OrderInv, BookInv, BookTypes
<1>2. \A i \in DOMAIN book : book[i] \in Entities
  BY <1>1
<1>3. \A i \in DOMAIN book :
        /\ book[i].kind \in {"account", "order", "line", "creative"}
        /\ book[i].status \in {"Active", "Draft", "Reserved", "Booked", "Canceled"}
  BY <1>2 DEF Entities
<1>4. \A r \in wire : r.does \in Creations \cup Updates /\ r.of \in 0 .. Len(book)
  BY <1>1 DEF OrderInv, WireInBook
<1>5. \A i \in DOMAIN reports : reports[i].verdict \in {"success", "error"}
  <2>. DEFINE P == [op : OpenOps, of : Nat, verdict : {"success", "error"}]
  <2>1. \A i \in DOMAIN reports : reports[i] \in P
    <3>. HIDE DEF P
    <3>1. reports \in Seq(P)
      BY <1>1 DEF P
    <3>. QED
      BY <3>1
  <2>. QED
    BY <2>1
<1>6. sent \in 0 .. MaxSent
  BY <1>1, OpenDirectAssumption DEF OrderInv, WireInBook
<1>7. /\ page \in Seq(CatalogueItems)
      /\ listing.at \in {"unread", "tolerant", "strict", "bounded", "failed"}
      /\ avails.at \in {"idle", "asked", "conformant", "foreign", "failed"}
      /\ avails.record \in OtherProducts \cup {AskedProduct, NoProduct}
  BY DEF OrderInv, CatalogueInv, AvailsSound
<1>. QED
  BY <1>1, <1>3, <1>4, <1>5, <1>6, <1>7 DEF OdTypeOK

--------------------------------------------------------------------------------
(* QuoteRanking: a quote that is at least as good in everything is ranked *)
(* above, for any sellers, prices and fees, when no two prices are so far *)
(* apart that the scores, in hundredths of a point, lose the difference.  *)

\* Quotes are close when no two effective CPMs are further apart than 50 units: a score
\* is told in hundredths of a point, and further apart two of them may tie.
Closeness == 5000
QuotesAreClose == \A p, q \in QuoteRecords : Effective(p) <= Effective(q) + Closeness

\* Prices, fees and the parts of a score are natural numbers.
LEMMA QuoteNumbers ==
  ASSUME NEW q \in QuoteRecords
  PROVE  /\ Effective(q) \in Nat /\ TrueCost(q) = Effective(q)
         /\ FillScore(q) \in Nat /\ DealTypeScore[q.type] \in Nat
<1>1. q.raw \in Nat /\ FeePct[q.seller] \in Nat /\ TechFee[q.seller] \in Nat /\ q.type \in QuoteTypes
  BY RankAssumption DEF QuoteRecords
<1>2. q.raw * FeePct[q.seller] \in Nat
  BY <1>1
<1>. DEFINE x == q.raw * FeePct[q.seller]
<1>. HIDE DEF x
<1>3. Effective(q) \in Nat /\ TrueCost(q) = Effective(q)
  BY <1>1, <1>2 DEF Effective, TrueCost, Adjusted, Fees, x
<1>4. FillScore(q) \in Nat
  <2>1. q.fill # NoFill => q.fill \in 0 .. 100
    BY RankAssumption DEF QuoteRecords
  <2>2. q.fill # NoFill => q.fill \in Nat
    BY <2>1
  <2>. QED
    BY <2>2 DEF FillScore
<1>5. DealTypeScore[q.type] \in Nat
  BY <1>1 DEF QuoteTypes, DealTypeScore
<1>. QED
  BY <1>3, <1>4, <1>5

\* Some quote costs least and some most.
LEMMA Extremes ==
  ASSUME NEW qs \in Seq(QuoteRecords), qs # <<>>
  PROVE  /\ Cheapest(qs) \in Nat /\ Dearest(qs) \in Nat
         /\ \A i \in DOMAIN qs : Cheapest(qs) <= Effective(qs[i]) /\ Effective(qs[i]) <= Dearest(qs)
         /\ QuotesAreClose => Dearest(qs) <= Cheapest(qs) + Closeness
<1>. DEFINE E == {Effective(qs[i]) : i \in DOMAIN qs}
<1>1. 1 \in DOMAIN qs /\ \A i \in DOMAIN qs : qs[i] \in QuoteRecords
  OBVIOUS
<1>2. E \in SUBSET Nat /\ E # {} /\ \A i \in DOMAIN qs : Effective(qs[i]) \in E
  <2>1. \A i \in DOMAIN qs : Effective(qs[i]) \in Nat
    BY <1>1, QuoteNumbers
  <2>. QED
    BY <1>1, <2>1
<1>3. QuotesAreClose => \A x, y \in E : x <= y + Closeness
  BY <1>1 DEF QuotesAreClose
<1>4. IsFiniteSet(E)
  <2>. DEFINE f == [i \in DOMAIN qs |-> Effective(qs[i])]
  <2>1. E = {f[i] : i \in DOMAIN qs}
    OBVIOUS
  <2>2. IsFiniteSet(DOMAIN qs)
    BY FS_Interval
  <2>. HIDE DEF f, E
  <2>. QED
    BY <2>1, <2>2, FiniteImage
<1>. HIDE DEF E
<1>5. \E least \in E : \A x \in E : least <= x
  BY <1>2, LeastNumber
<1>6. \E most \in E : \A x \in E : x <= most
  BY <1>2, <1>4, LargestNumber
<1>7. \A x, y \in E : x <= y <=> y >= x
  BY <1>2
<1>8. /\ Cheapest(qs) \in E /\ \A i \in DOMAIN qs : Cheapest(qs) <= Effective(qs[i])
      /\ Dearest(qs) \in E /\ \A i \in DOMAIN qs : Dearest(qs) >= Effective(qs[i])
  <2>1. \E e \in E : \A i \in DOMAIN qs : e <= Effective(qs[i])
    BY <1>2, <1>5
  <2>2. \E e \in E : \A i \in DOMAIN qs : e >= Effective(qs[i])
    BY <1>2, <1>6, <1>7
  <2>. QED
    BY <2>1, <2>2 DEF Cheapest, Dearest, E
<1>. DEFINE C == Cheapest(qs)  D == Dearest(qs)
<1>9. C \in E /\ D \in E /\ \A i \in DOMAIN qs : C <= Effective(qs[i]) /\ Effective(qs[i]) <= D
  BY <1>2, <1>7, <1>8
<1>. HIDE DEF C, D
<1>10. C \in Nat /\ D \in Nat /\ (QuotesAreClose => D <= C + Closeness)
  BY <1>2, <1>3, <1>9
<1>. QED
  BY <1>9, <1>10 DEF C, D

\* The share of the distance, a of b, that a quote keeps from the dearest.
Share(a, b) == Hundredths(100 * a, b)
SharesDiffer(a, c, b) ==
    Share(a, b) \in Nat /\ Share(c, b) \in Nat /\ Share(c, b) + 2 <= Share(a, b)

\* Close enough, a smaller distance from the dearest scores less.
LEMMA HundredthsApart ==
  ASSUME NEW b \in 1 .. Closeness, NEW a \in Nat, NEW c \in Nat, c < a
  PROVE  SharesDiffer(a, c, b)
<1>. DEFINE x == 200 * (100 * a) + b  y == 200 * (100 * c) + b  d == 2 * b  u == x \div d  v == y \div d
<1>1. x \in Nat /\ y \in Nat /\ d \in Nat \ {0} /\ d <= 10000 /\ y + 20000 <= x
  BY DEF Closeness
<1>. HIDE DEF x, y, d
<1>2. u \in Nat /\ v \in Nat /\ v * d <= y /\ x < (u + 1) * d
  BY <1>1
<1>. HIDE DEF u, v
<1>3. v * d + 2 * d < (u + 1) * d
  <2>. DEFINE vd == v * d  ud == (u + 1) * d
  <2>1. vd \in Nat /\ ud \in Nat /\ vd <= y /\ x < ud
    BY <1>1, <1>2
  <2>. HIDE DEF vd, ud
  <2>2. vd + 2 * d < ud
    BY <1>1, <2>1
  <2>. QED
    BY <2>2 DEF vd, ud
<1>4. (v + 2) * d < (u + 1) * d
  BY <1>1, <1>2, <1>3
<1>5. v + 2 < u + 1
  <2>1. SUFFICES ASSUME u + 1 <= v + 2 PROVE FALSE
    BY <1>2
  <2>2. (u + 1) * d <= (v + 2) * d
    BY <1>1, <1>2, <2>1
  <2>3. (u + 1) * d \in Nat /\ (v + 2) * d \in Nat
    BY <1>1, <1>2
  <2>. QED
    BY <1>4, <2>2, <2>3
<1>. QED
  BY <1>2, <1>5 DEF u, v, x, y, d, SharesDiffer, Share, Hundredths

\* A share in hundredths of a point is a natural number.
LEMMA ShareIsNumber ==
  ASSUME NEW b \in Nat \ {0}, NEW a \in Nat
  PROVE  Share(a, b) \in Nat
<1>. DEFINE x == 200 * (100 * a) + b  d == 2 * b
<1>1. x \in Nat /\ d \in Nat \ {0}
  OBVIOUS
<1>. HIDE DEF x, d
<1>2. x \div d \in Nat
  BY <1>1
<1>. QED
  BY <1>2 DEF x, d, Share, Hundredths

\* Sixty percent of it, in whole hundredths.
LEMMA SharesApart ==
  ASSUME NEW h \in Nat, NEW k \in Nat, k + 2 <= h
  PROVE  (60 * k) \div 100 < (60 * h) \div 100
OBVIOUS

\* A score is a natural number, of one quote or among several.
LEMMA ScoresAreNumbers ==
  ASSUME NEW qs \in Seq(QuoteRecords), NEW i \in DOMAIN qs
  PROVE  Score(qs[i], qs) \in Nat
<1>. DEFINE q == qs[i]  c == IF Len(qs) = 1 THEN AbsoluteCpm(q) ELSE RelativeCpm(q, qs)
<1>1. q \in QuoteRecords /\ qs # <<>>
  OBVIOUS
<1>2. Effective(q) \in Nat /\ FillScore(q) \in Nat /\ DealTypeScore[q.type] \in Nat
  BY <1>1, QuoteNumbers
<1>3. /\ Cheapest(qs) \in Nat /\ Dearest(qs) \in Nat
      /\ Cheapest(qs) <= Effective(q) /\ Effective(q) <= Dearest(qs)
  BY <1>1, Extremes
<1>. HIDE DEF q
<1>4. AbsoluteCpm(q) \in Nat
  BY <1>2 DEF AbsoluteCpm
<1>5. RelativeCpm(q, qs) \in Nat
  <2>1. CASE Dearest(qs) = Cheapest(qs)
    BY <2>1 DEF RelativeCpm
  <2>2. CASE Dearest(qs) # Cheapest(qs)
    <3>. DEFINE C == Cheapest(qs)  D == Dearest(qs)  e == Effective(q)
                b == D - C  a == D - e
    <3>1. b \in Nat \ {0} /\ a \in Nat
      <4>1. C \in Nat /\ D \in Nat /\ e \in Nat /\ C <= e /\ e <= D /\ D # C
        BY <1>2, <1>3, <2>2
      <4>. HIDE DEF C, D, e
      <4>. QED
        BY <4>1
    <3>2. RelativeCpm(q, qs) = Share(a, b)
      BY <2>2 DEF RelativeCpm, Share
    <3>. HIDE DEF a, b
    <3>. QED
      BY <3>1, <3>2, ShareIsNumber
  <2>. QED
    BY <2>1, <2>2
<1>6. c \in Nat
  BY <1>4, <1>5
<1>7. Score(q, qs) = (60 * c) \div 100 + 20 * DealTypeScore[q.type] + 20 * FillScore(q)
  BY DEF Score
<1>. HIDE DEF c
<1>. QED
  BY <1>2, <1>6, <1>7 DEF q

\* Among several quotes, one that dominates another scores more.
LEMMA DominantScoresMore ==
  ASSUME QuotesAreClose, NEW qs \in Seq(QuoteRecords), Len(qs) # 1,
         NEW i \in DOMAIN qs, NEW j \in DOMAIN qs, TrueCost(qs[i]) < TrueCost(qs[j]),
         FillScore(qs[i]) >= FillScore(qs[j]),
         DealTypeScore[qs[i].type] >= DealTypeScore[qs[j].type]
  PROVE  Score(qs[i], qs) > Score(qs[j], qs)
<1>. DEFINE p == qs[i]  q == qs[j]  C == Cheapest(qs)  D == Dearest(qs)
            e == Effective(p)  f == Effective(q)  b == D - C  a == D - e  c == D - f
            h == Share(a, b)  k == Share(c, b)
<1>1. p \in QuoteRecords /\ q \in QuoteRecords /\ qs # <<>>
  OBVIOUS
<1>2. /\ e \in Nat /\ FillScore(p) \in Nat /\ DealTypeScore[p.type] \in Nat
      /\ f \in Nat /\ FillScore(q) \in Nat /\ DealTypeScore[q.type] \in Nat
      /\ e < f
  BY <1>1, QuoteNumbers
<1>3. /\ C \in Nat /\ D \in Nat /\ D <= C + Closeness
      /\ C <= e /\ e <= D /\ C <= f /\ f <= D
  BY <1>1, Extremes
<1>4. FillScore(p) >= FillScore(q) /\ DealTypeScore[p.type] >= DealTypeScore[q.type]
  OBVIOUS
<1>. HIDE DEF p, q, C, D, e, f
<1>5. b \in 1 .. Closeness /\ a \in Nat /\ c \in Nat /\ c < a /\ D # C
  BY <1>2, <1>3 DEF Closeness
<1>6. h \in Nat /\ k \in Nat /\ k + 2 <= h
  <2>1. SharesDiffer(a, c, b)
    <3>. HIDE DEF a, b, c
    <3>. QED
      BY <1>5, HundredthsApart
  <2>. QED
    BY <2>1 DEF SharesDiffer
<1>7. RelativeCpm(p, qs) = h /\ RelativeCpm(q, qs) = k
  BY <1>5 DEF RelativeCpm, C, D, e, f, Share
<1>. HIDE DEF h, k
<1>8. /\ Score(p, qs) = (60 * h) \div 100 + 20 * DealTypeScore[p.type] + 20 * FillScore(p)
      /\ Score(q, qs) = (60 * k) \div 100 + 20 * DealTypeScore[q.type] + 20 * FillScore(q)
  BY <1>7 DEF Score
<1>9. (60 * k) \div 100 < (60 * h) \div 100
  BY <1>6, SharesApart
<1>10. (60 * h) \div 100 \in Nat /\ (60 * k) \div 100 \in Nat
  BY <1>6
<1>. DEFINE x == (60 * h) \div 100  y == (60 * k) \div 100
            t == DealTypeScore[p.type]  u == DealTypeScore[q.type]
            v == FillScore(p)  w == FillScore(q)
<1>11. /\ x \in Nat /\ y \in Nat /\ t \in Nat /\ u \in Nat /\ v \in Nat /\ w \in Nat
       /\ y < x /\ u <= t /\ w <= v
  BY <1>2, <1>4, <1>9, <1>10
<1>. HIDE DEF x, y, t, u, v, w
<1>12. x + 20 * t + 20 * v > y + 20 * u + 20 * w
  BY <1>11
<1>. QED
  BY <1>8, <1>12 DEF x, y, t, u, v, w, p, q

BetterPairs(qs) ==
    {p \in (DOMAIN qs) \X (DOMAIN qs) :
        \/ Score(qs[p[1]], qs) > Score(qs[p[2]], qs)
        \/ Score(qs[p[1]], qs) = Score(qs[p[2]], qs) /\ p[1] < p[2]}

\* Sorting by score arranges the positions of the quotes.
LEMMA ScoresArrange ==
  ASSUME NEW qs \in Seq(QuoteRecords)
  PROVE  /\ Arranges(Ranked(DOMAIN qs, BetterPairs(qs)), DOMAIN qs, BetterPairs(qs))
         /\ Ordered(qs) = [k \in DOMAIN qs |-> qs[Ranked(DOMAIN qs, BetterPairs(qs))[k]]]
         /\ IsFiniteSet(DOMAIN qs) /\ Cardinality(DOMAIN qs) = Len(qs)
<1>. DEFINE S == DOMAIN qs  R == BetterPairs(qs)
            Above(i, j) == \/ Score(qs[i], qs) > Score(qs[j], qs)
                           \/ Score(qs[i], qs) = Score(qs[j], qs) /\ i < j
<1>1. S = 1 .. Len(qs) /\ Len(qs) \in Nat
  OBVIOUS
<1>2. IsFiniteSet(S) /\ Cardinality(S) = Len(qs)
  <2>. DEFINE n == Len(qs)
  <2>1. n \in Nat /\ 1 - 1 <= n
    BY <1>1
  <2>. HIDE DEF n
  <2>. QED
    BY <1>1, <2>1, FS_Interval DEF n
<1>3. IsOrder(R, S)
  <2>. DEFINE sc == [i \in S |-> Score(qs[i], qs)]
  <2>1. \A i \in S : sc[i] \in Nat
    BY ScoresAreNumbers
  <2>2. \A i, j \in S : <<i, j>> \in R <=> sc[i] > sc[j] \/ (sc[i] = sc[j] /\ i < j)
    BY DEF BetterPairs
  <2>. HIDE DEF sc, R
  <2>3. S \subseteq Nat
    BY <1>1
  <2>. HIDE DEF S
  <2>4. \A x \in S : <<x, x>> \notin R
    BY <2>1, <2>2, <2>3
  <2>5. \A x, y \in S : x # y => <<x, y>> \in R \/ <<y, x>> \in R
    <3>1. SUFFICES ASSUME NEW x \in S, NEW y \in S, x # y, <<x, y>> \notin R, <<y, x>> \notin R
                   PROVE  FALSE
      OBVIOUS
    <3>2. sc[x] \in Nat /\ sc[y] \in Nat /\ x \in Nat /\ y \in Nat
      BY <2>1, <2>3
    <3>3. ~(sc[x] > sc[y]) /\ ~(sc[y] > sc[x])
      BY <2>2, <3>1
    <3>4. sc[x] = sc[y]
      BY <3>2, <3>3
    <3>5. ~(x < y) /\ ~(y < x)
      BY <2>2, <3>1, <3>4
    <3>. QED
      BY <3>1, <3>2, <3>5
  <2>6. ASSUME NEW x \in S, NEW y \in S, NEW z \in S, <<x, y>> \in R, <<y, z>> \in R
        PROVE  <<x, z>> \in R
    <3>1. /\ sc[x] > sc[y] \/ (sc[x] = sc[y] /\ x < y)
          /\ sc[y] > sc[z] \/ (sc[y] = sc[z] /\ y < z)
      BY <2>2, <2>6
    <3>2. sc[x] \in Nat /\ sc[y] \in Nat /\ sc[z] \in Nat /\ x \in Nat /\ y \in Nat /\ z \in Nat
      BY <2>1, <2>3
    <3>3. sc[x] > sc[z] \/ (sc[x] = sc[z] /\ x < z)
      BY <3>1, <3>2
    <3>. QED
      BY <2>2, <3>3
  <2>. QED
    BY <2>4, <2>5, <2>6 DEF IsOrder
<1>4. Arranges(Ranked(S, R), S, R)
  <2>. HIDE DEF R, S
  <2>. QED
    BY <1>2, <1>3, RankedArranges
<1>5. \A x \in S : {y \in S : Above(y, x)} = {y \in S : <<y, x>> \in R}
  BY DEF BetterPairs
<1>6. InOrder(S, Above) = Ranked(S, R)
  <2>1. InOrder(S, Above)
          = [k \in 1 .. Cardinality(S) |-> CHOOSE x \in S : Cardinality({y \in S : Above(y, x)}) = k - 1]
    BY DEF InOrder
  <2>2. \A k \in 1 .. Cardinality(S) :
          (CHOOSE x \in S : Cardinality({y \in S : Above(y, x)}) = k - 1)
            = (CHOOSE x \in S : Cardinality({y \in S : <<y, x>> \in R}) = k - 1)
    <3>. HIDE DEF Above, R, S
    <3>. QED
      BY <1>5
  <2>. QED
    BY <2>1, <2>2 DEF Ranked
<1>7. Ordered(qs) = [k \in S |-> qs[Ranked(S, R)[k]]]
  <2>1. Ordered(qs) = [k \in S |-> qs[InOrder(S, Above)[k]]]
    BY DEF Ordered
  <2>. QED
    BY <1>6, <2>1
<1>. QED
  BY <1>2, <1>4, <1>7

\* A ranking holds the quotes, each as often as they came in.
LEMMA OrderedQuotes ==
  ASSUME NEW qs \in Seq(QuoteRecords)
  PROVE  /\ Ordered(qs) \in Seq(QuoteRecords) /\ Len(Ordered(qs)) = Len(qs)
         /\ \A V : HowMany(Ordered(qs), DOMAIN Ordered(qs), V) = HowMany(qs, DOMAIN qs, V)
         /\ \A k \in DOMAIN Ordered(qs) : \E i \in DOMAIN qs : Ordered(qs)[k] = qs[i]
<1>. DEFINE S == DOMAIN qs  R == BetterPairs(qs)  o == Ranked(S, R)  p == Ordered(qs)  n == Len(qs)
<1>1. Arranges(o, S, R) /\ p = [k \in S |-> qs[o[k]]] /\ IsFiniteSet(S) /\ Cardinality(S) = n
  BY ScoresArrange
<1>2. S = 1 .. n /\ n \in Nat /\ \A i \in S : qs[i] \in QuoteRecords
  OBVIOUS
<1>. HIDE DEF S, R, o, p, n
<1>3. o \in [1 .. n -> S]
  BY <1>1 DEF Arranges
<1>4. p \in [1 .. n -> QuoteRecords]
  BY <1>1, <1>2, <1>3
<1>5. p \in Seq(QuoteRecords) /\ Len(p) = n /\ DOMAIN p = 1 .. n
  BY <1>2, <1>4
<1>6. \A V : HowMany(p, DOMAIN p, V) = HowMany(qs, S, V)
  <2>1. p = [k \in 1 .. Cardinality(S) |-> qs[o[k]]]
    BY <1>1, <1>2
  <2>. QED
    BY <1>1, <2>1, ShownCounts
<1>7. \A k \in DOMAIN p : \E i \in S : p[k] = qs[i]
  BY <1>1, <1>2, <1>3, <1>5
<1>. QED
  BY <1>5, <1>6, <1>7 DEF p, S, n

\* A quote that dominates another stands before it.
LEMMA DominantIsFirst ==
  ASSUME QuotesAreClose, NEW qs \in Seq(QuoteRecords),
         NEW i \in DOMAIN Ordered(qs), NEW j \in DOMAIN Ordered(qs),
         TrueCost(Ordered(qs)[i]) < TrueCost(Ordered(qs)[j]),
         FillScore(Ordered(qs)[i]) >= FillScore(Ordered(qs)[j]),
         DealTypeScore[Ordered(qs)[i].type] >= DealTypeScore[Ordered(qs)[j].type]
  PROVE  i < j
<1>. DEFINE S == DOMAIN qs  R == BetterPairs(qs)  o == Ranked(S, R)  p == Ordered(qs)  n == Len(qs)
<1>1. Arranges(o, S, R) /\ p = [k \in S |-> qs[o[k]]] /\ IsFiniteSet(S) /\ Cardinality(S) = n
  BY ScoresArrange
<1>2. S = 1 .. n /\ n \in Nat
  OBVIOUS
<1>3. i \in S /\ j \in S
  BY <1>1
<1>4. p[i] = qs[o[i]] /\ p[j] = qs[o[j]]
  <2>. HIDE DEF o, p, S
  <2>. QED
    BY <1>1, <1>3
<1>5. o[i] \in S /\ o[j] \in S
  <2>. HIDE DEF o, R, S, n
  <2>. QED
    BY <1>1, <1>2, <1>3 DEF Arranges
<1>. DEFINE a == o[i]  b == o[j]
<1>. HIDE DEF o
<1>6. /\ a \in DOMAIN qs /\ b \in DOMAIN qs /\ TrueCost(qs[a]) < TrueCost(qs[b])
      /\ FillScore(qs[a]) >= FillScore(qs[b])
      /\ DealTypeScore[qs[a].type] >= DealTypeScore[qs[b].type]
  BY <1>4, <1>5
<1>. HIDE DEF a, b
<1>7. qs[a] \in QuoteRecords /\ qs[b] \in QuoteRecords
  BY <1>6
<1>8. a # b
  <2>1. TrueCost(qs[a]) \in Nat
    BY <1>7, QuoteNumbers
  <2>. DEFINE x == TrueCost(qs[a])  y == TrueCost(qs[b])
  <2>2. x \in Nat /\ x < y
    BY <1>6, <2>1
  <2>3. a = b => x = y
    OBVIOUS
  <2>. HIDE DEF x, y
  <2>. QED
    BY <2>2, <2>3
<1>9. n # 1
  BY <1>2, <1>6, <1>8
<1>10. Score(qs[a], qs) > Score(qs[b], qs)
  BY <1>6, <1>9, DominantScoresMore
<1>11. <<b, a>> \notin R
  <2>. DEFINE x == Score(qs[a], qs)  y == Score(qs[b], qs)
  <2>1. x \in Nat /\ y \in Nat /\ x > y
    BY <1>6, <1>10, ScoresAreNumbers
  <2>2. <<b, a>> \in R => y > x \/ y = x
    BY DEF BetterPairs
  <2>. HIDE DEF x, y, R
  <2>. QED
    BY <2>1, <2>2
<1>12. i # j
  BY <1>8 DEF a, b
<1>13. ~(j < i)
  <2>1. \A k, l \in 1 .. n : k < l => <<o[k], o[l]>> \in R
    BY <1>1 DEF Arranges
  <2>. HIDE DEF R
  <2>. QED
    BY <1>2, <1>3, <1>11, <2>1 DEF a, b
<1>. QED
  BY <1>2, <1>3, <1>12, <1>13

PricedAt(qs) == {i \in DOMAIN qs : qs[i].raw # 0}
UnpricedAt(qs) == {i \in DOMAIN qs : qs[i].raw = 0}
RankInv ==
    /\ incoming \in Seq(QuoteRecords)
    /\ ranking # <<>> => ranking = Ordered(Priced(incoming)) \o Unpriced(incoming)

\* A quote is priced or it is not.
LEMMA PricedOrNot ==
  ASSUME NEW qs \in Seq(QuoteRecords)
  PROVE  /\ Priced(qs) \in Seq(QuoteRecords) /\ Unpriced(qs) \in Seq(QuoteRecords)
         /\ \A i \in DOMAIN Priced(qs) : Priced(qs)[i].raw # 0
         /\ \A i \in DOMAIN Unpriced(qs) : Unpriced(qs)[i].raw = 0
         /\ Len(Priced(qs)) + Len(Unpriced(qs)) = Len(qs)
         /\ \A V : HowMany(Priced(qs), DOMAIN Priced(qs), V) = HowMany(qs, PricedAt(qs), V)
         /\ \A V : HowMany(Unpriced(qs), DOMAIN Unpriced(qs), V) = HowMany(qs, UnpricedAt(qs), V)
<1>. DEFINE I == PricedAt(qs)  J == UnpricedAt(qs)  p == Priced(qs)  u == Unpriced(qs)
<1>1. /\ I \in SUBSET (DOMAIN qs) /\ J \in SUBSET (DOMAIN qs) /\ I \cup J = DOMAIN qs /\ I \cap J = {}
      /\ p = Picked(qs, I) /\ u = Picked(qs, J)
      /\ DOMAIN qs = 1 .. Len(qs) /\ Len(qs) \in Nat
  <2>1. I \cup J = DOMAIN qs /\ I \cap J = {}
    BY DEF PricedAt, UnpricedAt
  <2>2. p = Picked(qs, I) /\ u = Picked(qs, J)
    BY DEF PricedAt, UnpricedAt, Priced, Unpriced
  <2>. QED
    BY <2>1, <2>2
<1>2. /\ \A i \in I : qs[i].raw # 0
      /\ \A i \in J : qs[i].raw = 0
  BY DEF PricedAt, UnpricedAt
<1>. HIDE DEF I, J, p, u
<1>3. /\ p \in Seq(QuoteRecords) /\ Len(p) = Cardinality(I)
      /\ \A k \in DOMAIN p : \E i \in I : p[k] = qs[i]
  BY <1>1, PickedItems
<1>4. /\ u \in Seq(QuoteRecords) /\ Len(u) = Cardinality(J)
      /\ \A k \in DOMAIN u : \E i \in J : u[k] = qs[i]
  BY <1>1, PickedItems
<1>7. Len(p) + Len(u) = Len(qs)
  <2>1. IsFiniteSet(I) /\ IsFiniteSet(J) /\ Cardinality(I) \in Nat /\ Cardinality(J) \in Nat
    BY <1>1, Positions
  <2>2. Cardinality(I \cup J) = Cardinality(I) + Cardinality(J) - Cardinality(I \cap J)
    BY <2>1, FS_Union
  <2>3. Cardinality(I \cap J) = 0
    BY <1>1, FS_EmptySet
  <2>4. Cardinality(I \cup J) = Len(qs)
    <3>. DEFINE n == Len(qs)
    <3>1. n \in Nat /\ 1 - 1 <= n
      BY <1>1
    <3>. HIDE DEF n
    <3>2. Cardinality(1 .. n) = n
      BY <3>1, FS_Interval
    <3>. QED
      BY <1>1, <3>2 DEF n
  <2>. QED
    BY <1>3, <1>4, <2>1, <2>2, <2>3, <2>4
<1>8. \A V : HowMany(p, DOMAIN p, V) = HowMany(qs, I, V)
  BY <1>1, PickedCounts
<1>9. \A V : HowMany(u, DOMAIN u, V) = HowMany(qs, J, V)
  BY <1>1, PickedCounts
<1>10. /\ \A i \in DOMAIN p : p[i].raw # 0
       /\ \A i \in DOMAIN u : u[i].raw = 0
  BY <1>2, <1>3, <1>4
<1>. QED
  BY <1>3, <1>4, <1>7, <1>8, <1>9, <1>10 DEF I, J, p, u

\* Both lists together show every quote as often as it came.
LEMMA QuotesSplit ==
  ASSUME NEW qs \in Seq(QuoteRecords), NEW V
  PROVE  HowMany(qs, PricedAt(qs), V) + HowMany(qs, UnpricedAt(qs), V) = HowMany(qs, DOMAIN qs, V)
<1>. DEFINE A == {i \in PricedAt(qs) : qs[i] \in V}  B == {i \in UnpricedAt(qs) : qs[i] \in V}
            C == {i \in DOMAIN qs : qs[i] \in V}
<1>1. /\ A \cup B = C /\ A \cap B = {}
      /\ A \in SUBSET (DOMAIN qs) /\ B \in SUBSET (DOMAIN qs)
  BY DEF PricedAt, UnpricedAt
<1>. HIDE DEF A, B, C
<1>2. IsFiniteSet(A) /\ IsFiniteSet(B) /\ Cardinality(A) \in Nat /\ Cardinality(B) \in Nat
  BY <1>1, Positions
<1>3. Cardinality(A \cup B) = Cardinality(A) + Cardinality(B) - Cardinality(A \cap B)
  BY <1>2, FS_Union
<1>4. Cardinality(A \cap B) = 0
  BY <1>1, FS_EmptySet
<1>5. Cardinality(C) = Cardinality(A) + Cardinality(B)
  <2>. DEFINE a == Cardinality(A)  b == Cardinality(B)  c == Cardinality(A \cap B)
              d == Cardinality(A \cup B)
  <2>1. a \in Nat /\ b \in Nat /\ c = 0 /\ d = a + b - c /\ d = Cardinality(C)
    BY <1>1, <1>2, <1>3, <1>4
  <2>. HIDE DEF a, b, c, d
  <2>2. d = a + b
    BY <2>1
  <2>. QED
    BY <2>1, <2>2 DEF a, b
<1>. QED
  BY <1>5 DEF A, B, C, HowMany

\* Nothing is ranked at the start.
LEMMA RankStart == RankInit => RankInv
BY DEF RankInit, RankInv

\* A ranking is the ordered priced quotes and the unpriced ones after them.
LEMMA RankStep == RankInv /\ [RankNext]_rankVars => RankInv'
<1> SUFFICES ASSUME RankInv, [RankNext]_rankVars PROVE RankInv'
  OBVIOUS
<1>1. CASE CompareQuotes
  BY <1>1 DEF CompareQuotes, RankInv
<1>2. CASE \E q \in QuoteRecords : Quoted(q)
  BY <1>2 DEF Quoted, RankInv
<1>3. CASE UNCHANGED rankVars
  BY <1>3 DEF rankVars, RankInv
<1>. QED
  BY <1>1, <1>2, <1>3 DEF RankNext

\* Such a ranking is typed, and respects dominance where prices are close.
LEMMA RankingIsSound ==
  ASSUME RankInv
  PROVE  RankTypeOK /\ (QuotesAreClose => RankingRespectsDominance)
<1>0. CASE ranking = <<>>
  BY <1>0 DEF RankInv, RankTypeOK, RankingRespectsDominance
<1>00. CASE ranking # <<>>
  <2>. DEFINE qs == incoming  p == Priced(qs)  a == Ordered(p)  b == Unpriced(qs)  m == Len(a)  n == Len(b)
              r == a \o b
  <2>1. qs \in Seq(QuoteRecords) /\ ranking = r
    BY <1>00 DEF RankInv
  <2>. HIDE DEF qs
  <2>2. /\ p \in Seq(QuoteRecords) /\ b \in Seq(QuoteRecords)
        /\ \A i \in DOMAIN p : p[i].raw # 0
        /\ \A i \in DOMAIN b : b[i].raw = 0
        /\ Len(p) + Len(b) = Len(qs)
        /\ \A V : HowMany(p, DOMAIN p, V) = HowMany(qs, PricedAt(qs), V)
        /\ \A V : HowMany(b, DOMAIN b, V) = HowMany(qs, UnpricedAt(qs), V)
    BY <2>1, PricedOrNot
  <2>. HIDE DEF p, b
  <2>3. /\ a \in Seq(QuoteRecords) /\ Len(a) = Len(p)
        /\ \A V : HowMany(a, DOMAIN a, V) = HowMany(p, DOMAIN p, V)
        /\ \A k \in DOMAIN a : \E i \in DOMAIN p : a[k] = p[i]
    BY <2>2, OrderedQuotes
  <2>4. QuotesAreClose => \A i, j \in DOMAIN a :
          TrueCost(a[i]) < TrueCost(a[j]) /\ FillScore(a[i]) >= FillScore(a[j])
            /\ DealTypeScore[a[i].type] >= DealTypeScore[a[j].type] => i < j
    BY <2>2, DominantIsFirst
  <2>. HIDE DEF a
  <2>5. /\ m \in Nat /\ n \in Nat /\ DOMAIN a = 1 .. m /\ DOMAIN b = 1 .. n
        /\ Len(r) = m + n /\ DOMAIN r = 1 .. m + n
        /\ \A i \in 1 .. m : r[i] = a[i]
        /\ \A i \in 1 .. m + n : i > m => r[i] = b[i - m] /\ i - m \in 1 .. n
        /\ r \in Seq(QuoteRecords)
    <3>1. m \in Nat /\ n \in Nat /\ DOMAIN a = 1 .. m /\ DOMAIN b = 1 .. n
      BY <2>2, <2>3
    <3>2. Len(r) = m + n /\ DOMAIN r = 1 .. m + n /\ r \in Seq(QuoteRecords)
      <4>. HIDE DEF m, n
      <4>1. a \in Seq(QuoteRecords) /\ b \in Seq(QuoteRecords) /\ m = Len(a) /\ n = Len(b)
        BY <2>2, <2>3 DEF m, n
      <4>. QED
        BY <4>1
    <3>3. \A i \in 1 .. m : r[i] = a[i]
      BY <2>2, <2>3
    <3>4. \A i \in 1 .. m + n : i > m => r[i] = b[i - m] /\ i - m \in 1 .. n
      BY <2>2, <2>3
    <3>. QED
      BY <3>1, <3>2, <3>3, <3>4
  <2>6. \A V : HowMany(r, DOMAIN r, V) = HowMany(qs, DOMAIN qs, V)
    <3>1. \A V : HowMany(r, DOMAIN r, V) = HowMany(a, DOMAIN a, V) + HowMany(b, DOMAIN b, V)
      BY <2>2, <2>3, JoinedCounts
    <3>. HIDE DEF r
    <3>2. TAKE V
    <3>3. HowMany(r, DOMAIN r, V) = HowMany(qs, PricedAt(qs), V) + HowMany(qs, UnpricedAt(qs), V)
      BY <2>2, <2>3, <3>1
    <3>. QED
      BY <2>1, <3>3, QuotesSplit
  <2>7. Len(r) = Len(qs)
    BY <2>2, <2>3, <2>5
  <2>8. \A i \in 1 .. m : r[i].raw # 0
    BY <2>2, <2>3, <2>5
  <2>9. \A i \in 1 .. m + n : i > m => r[i].raw = 0
    BY <2>2, <2>5
  <2>. HIDE DEF r
  <2>10. ASSUME QuotesAreClose, NEW i \in DOMAIN r, NEW j \in DOMAIN r, Dominates(r[i], r[j]) PROVE i < j
    <3>1. i \in 1 .. m
      BY <2>5, <2>9, <2>10 DEF Dominates
    <3>2. CASE j > m
      BY <2>5, <3>1, <3>2
    <3>3. CASE j \in 1 .. m
      <4>1. r[i] = a[i] /\ r[j] = a[j] /\ r[j].raw # 0
        BY <2>5, <2>8, <3>1, <3>3
      <4>2. TrueCost(r[i]) < TrueCost(r[j]) /\ FillScore(r[i]) >= FillScore(r[j])
              /\ DealTypeScore[r[i].type] >= DealTypeScore[r[j].type]
        BY <2>10, <4>1 DEF Dominates
      <4>. QED
        BY <2>4, <2>5, <2>10, <3>1, <3>3, <4>1, <4>2
    <3>. QED
      BY <2>5, <3>2, <3>3
  <2>11. \A q : Cardinality({k \in DOMAIN r : r[k] = q}) = Cardinality({k \in DOMAIN qs : qs[k] = q})
    <3>1. TAKE q
    <3>2. /\ {k \in DOMAIN r : r[k] \in {q}} = {k \in DOMAIN r : r[k] = q}
          /\ {k \in DOMAIN qs : qs[k] \in {q}} = {k \in DOMAIN qs : qs[k] = q}
      OBVIOUS
    <3>3. HowMany(r, DOMAIN r, {q}) = HowMany(qs, DOMAIN qs, {q})
      BY <2>6
    <3>. QED
      BY <3>2, <3>3 DEF HowMany
  <2>. QED
    BY <2>1, <2>5, <2>7, <2>10, <2>11 DEF RankTypeOK, RankingRespectsDominance, qs
<1>. QED
  BY <1>0, <1>00

--------------------------------------------------------------------------------
(* The parts together: a step of MC_Parties is a step or a stutter of each *)
(* component.                                                              *)

\* A step of the composition is a step or a stutter of every component.
LEMMA PartiesMove ==
  ASSUME [PartiesNext]_<<part, partyVars>>
  PROVE  /\ [SgpNext]_sgpVars /\ [CapNext]_capVars /\ [DirNext]_dirVars /\ [ClientNext]_clientVars
         /\ [OdNext]_odVars /\ [NgNext]_ngVars /\ [PricingNext]_deskPriceVars /\ [RankNext]_rankVars
         /\ [AudNext]_audVars /\ [KitNext]_kitVars
BY DEF PartiesNext, Sgp, Cap, Dir, Client, Od, Ng, Pricing, Ranking, Aud, Kit, partyVars

\* What the caches of the capability client and of the registry clients serve was given no
\* longer ago than their lifetimes, a seller's max-age and the longest answer allow, for
\* any number of callers, any lifetimes and delays, and however the callers overlap.
THEOREM LookupsStayFresh == PartiesSpec => []LookupsAreFresh
<1>. DEFINE Inv == CapInv /\ DirInv
<1>1. PartiesInit => Inv
  BY CapStart, DirStart DEF PartiesInit
<1>2. Inv /\ [PartiesNext]_<<part, partyVars>> => Inv'
  BY PartiesMove, CapStep, DirStep
<1>3. Inv => LookupsAreFresh
  BY DEF CapInv, DirInv, LookupsAreFresh
<1>. HIDE DEF Inv
<1>. QED
  BY <1>1, <1>2, <1>3, PTL DEF PartiesSpec

\* For any strategy, any answers and any number of coroutines, what was opened at a seller
\* is not left open: an abandoned negotiation is declined, and the client has one
\* connection, which it refers to, unless a close crosses a connect or a close.
THEOREM NothingIsLeftOpen == PartiesSpec => []NothingStaysOpen
<1>. DEFINE Inv == NgInv /\ ConnectionInv
<1>1. PartiesInit => Inv
  BY StartsSound, ConnectionStart DEF PartiesInit
<1>2. Inv /\ [PartiesNext]_<<part, partyVars>> => Inv'
  BY PartiesMove, StaysSound, ConnectionStep
<1>3. Inv => NothingStaysOpen
  BY ConnectionIsOne DEF NgInv, NothingStaysOpen
<1>. HIDE DEF Inv
<1>. QED
  BY <1>1, <1>2, <1>3, PTL DEF PartiesSpec

\* For any prices, tiers, callers and strategies: a Deal ID is issued within the ceiling, at
\* the calculator's price and above its floor, and no offer of a negotiation is outside the
\* limits of its strategy.
THEOREM TermsAreKept == PartiesSpec => []TermsHold
<1>. DEFINE Inv == TermsInv /\ NgInv
<1>1. PartiesInit => Inv
  BY TermsStart, StartsSound DEF PartiesInit
<1>2. Inv /\ [PartiesNext]_<<part, partyVars>> => Inv'
  BY PartiesMove, TermsStep, StaysSound
<1>3. Inv => TermsHold
  <2>1. Inv => DealTermsHold
    BY TermsAreHeld
  <2>2. Inv => OffersWithinLimits
    BY DEF NgInv
  <2>. QED
    BY <2>1, <2>2 DEF TermsHold
<1>. HIDE DEF Inv
<1>. QED
  BY <1>1, <1>2, <1>3, PTL DEF PartiesSpec

\* For any number of requests, sellers and URLs: what a tool told of an order as done is done,
\* what the seller created beyond what was told is paid for by an error that was told, and a
\* seller that fails costs a comparison or an aggregate its own entry only.
THEOREM ReportsStayComplete == PartiesSpec => []ReportsAreComplete
<1>. DEFINE Inv == BookInv /\ KitInv
<1>1. PartiesInit => Inv
  BY BookStart, KitStart DEF PartiesInit
<1>2. Inv /\ [PartiesNext]_<<part, partyVars>> => Inv'
  BY PartiesMove, BookStep, KitStep
<1>3. Inv => ReportsAreComplete
  BY BookIsTrue, KitsAreIsolated DEF ReportsAreComplete
<1>. HIDE DEF Inv
<1>. QED
  BY <1>1, <1>2, <1>3, PTL DEF PartiesSpec

\* For any quotes, sellers, fees, briefs, plans and pages: a quote at least as good in everything
\* is ranked above, every record of a page is listed or told of, and what an audience lost on
\* its way to the seller was told. Prices more than Closeness apart may tie, and then the
\* order of arrival decides: scores are told in hundredths of a point.
THEOREM ReadingsStayTrue ==
  ASSUME QuotesAreClose
  PROVE  PartiesSpec => []NothingIsMisread
<1>. DEFINE Inv == AudInv /\ CatalogueInv /\ RankInv
<1>1. PartiesInit => Inv
  BY AudStart, CatalogueStart, RankStart DEF PartiesInit
<1>2. Inv /\ [PartiesNext]_<<part, partyVars>> => Inv'
  BY PartiesMove, AudStep, CatalogueStep, RankStep
<1>3. Inv => NothingIsMisread
  <2>1. AudInv => NothingLostSilently /\ FirstRequestFits
    BY AudienceIsKept DEF AudInv
  <2>2. CatalogueInv => PageAccounts
    BY PageIsAccounted
  <2>3. RankInv => RankingRespectsDominance
    BY QuotesAreClose, RankingIsSound
  <2>. QED
    BY <2>1, <2>2, <2>3 DEF NothingIsMisread
<1>. HIDE DEF Inv
<1>. QED
  BY <1>1, <1>2, <1>3, PTL DEF PartiesSpec

\* For all constants, every part keeps its types: the records of calls under way, the caches
\* and their stamps, the seller's book, prices, rankings and plans.
THEOREM PartiesTypes == PartiesSpec => []PartiesTypeOK
<1>. DEFINE Lookups == part \in Parts /\ GateInv /\ GateTyped /\ CapInv /\ DirInv /\ ConnectionInv
            Dealings == OrderInv /\ NgInv /\ TermsInv /\ RankInv /\ AudInv /\ KitInv
            Inv == Lookups /\ Dealings
<1>1. PartiesInit => Inv
  <2>1. PartiesInit => Lookups
    BY GateInit, TypedStart, CapStart, DirStart, ConnectionStart DEF PartiesInit
  <2>2. PartiesInit => Dealings
    BY OrderStart, StartsSound, TermsStart, RankStart, AudStart, KitStart DEF PartiesInit
  <2>. QED
    BY <2>1, <2>2
<1>2. Inv /\ [PartiesNext]_<<part, partyVars>> => Inv'
  <2>1. Lookups /\ [PartiesNext]_<<part, partyVars>> => Lookups'
    BY PartiesMove, GateStep, TypedStep, CapStep, DirStep, ConnectionStep DEF PartiesNext
  <2>2. Dealings /\ [PartiesNext]_<<part, partyVars>> => Dealings'
    BY PartiesMove, OrderStep, StaysSound, TermsStep, RankStep, AudStep, KitStep
  <2>. QED
    BY <2>1, <2>2
<1>3. Inv => PartiesTypeOK
  <2>1. Lookups => SgpTypeOK /\ CapTypeOK /\ DirTypeOK /\ ClientTypeOK
    BY GateIsTyped DEF CapInv, DirInv, ConnectionInv, ClientTypes
  <2>2. Dealings => OdTypeOK /\ NgTypeOK /\ PricingTypeOK /\ RankTypeOK /\ AudTypeOK /\ KitTypeOK
    BY OrdersAreTyped, RankingIsSound DEF NgInv, TermsInv, AudInv, KitInv
  <2>3. SgpTypeOK /\ CapTypeOK /\ DirTypeOK /\ ClientTypeOK /\ OdTypeOK /\ NgTypeOK
          /\ PricingTypeOK /\ RankTypeOK /\ AudTypeOK /\ KitTypeOK /\ part \in Parts => PartiesTypeOK
    BY Zenon DEF PartiesTypeOK, Parts
  <2>. QED
    BY <2>1, <2>2, <2>3
<1>. HIDE DEF Inv
<1>. QED
  BY <1>1, <1>2, <1>3, PTL DEF PartiesSpec
================================================================================
