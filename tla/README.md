# Verification of the buyer agent

TLA+ models of the Ad Buyer agent (`src/src/ad_buyer`): the programme that takes
a campaign brief, lets channel crews research inventory, holds their
recommendations for a human, and commits money to sellers. Paths below are
relative to `src/src/ad_buyer` unless they begin with `src/`.

1. [The system](#the-system)
2. [Modules and how they correspond to the code](#modules)
3. [What each run checks](#runs)
4. [Findings](#findings)
5. [What is proved](#proofs)
6. [What is not modelled](#limits)
7. [Plan](#plan)

<a name="the-system"></a>
## 1. The system

### Components

| Component | State | Operations | Talks to |
|---|---|---|---|
| Booking service and endpoints (`services/booking_service.py`, `interfaces/api/main.py`) | in-memory `jobs` (status, flow object), a row per job in SQLite | `POST /bookings`, `/approve`, `/approve-all`, `GET` | the flow, on a worker thread or on the event loop |
| Deal booking flow (`flows/deal_booking_flow.py`) | `BookingState`: execution status, allocations, recommendations, pending approvals, booked lines, errors | receive brief, allocate, five concurrent channel researches, consolidate, approve, execute bookings | crews (LLM), orchestrator, Meta Graph API, deal store |
| Money guards (`booking/spend_ceiling.py`, `booking/recommendation_guard.py`) | none | clamp a recommendation, reject an approved total above the budget | the flow |
| Multi-seller orchestrator (`orchestration/multi_seller.py`) | one run's sellers, quote results, ranked quotes, negotiation records, deal selection | discover, SGP gate, quotes in parallel, rank, negotiate, select and book | registry, SGP, deals client, capability client, normalizer |
| Deals client (`clients/deals_client.py`, `clients/contract_mappers.py`) | HTTP client, in-memory deal map, best-effort store | request quote, book with retries and an idempotency key, cancel, makegood | seller, deal store |
| Quote normalizer (`booking/quote_normalizer.py`) | supply-path fees | effective CPM, relative score, order | orchestrator |
| Stores (`storage/*.py`) | SQLite tables behind one lock and one connection | deals with a status history, booking records, jobs, orders, campaigns, pacing snapshots, keys | everybody |
| State machines (`models/state_machine.py`) | current status, transition log | guarded transitions of deals and campaigns | stores, reports, MCP tools |
| Campaign store (`storage/campaign_store.py`) | a campaign's status, its event log, approval requests; one lock | create, transition, emit | state machines, approval gates, reports, MCP tools |
| Approval gates (`pipelines/approval.py`) | a private cache of the approval requests per gate | request, decide, look up, wait with a deadline | campaign store, pipeline, reviewers |
| Pacing (`pacing/engine.py`, `storage/pacing_store.py`, `reporting/campaign_report.py`) | snapshots | snapshot, deviation, reallocation proposals, reports | deal rows, dashboards |
| Negotiation client (`negotiation/`) | sessions | submit, start, counter, accept, decline, auto-negotiate | seller |
| Registry clients (`registry/`) | one TTL cache for listings and agent cards | discover, look up, register, verify | registries, orchestrator |
| SGP client (`clients/sgp_client.py`) and the tools behind it | approvals with their time of arrival | check approvals in batches with retries; gate deals and products | diligence platform |
| Capability client (`clients/capability_client.py`) | per-seller entries with their own lifetimes | discover, invalidate | sellers, pre-flight |
| Audience pipeline (`pipelines/audience_planner_*.py`, `orchestration/audience_degradation.py`) | a plan and its degradation log | compose, pre-flight, degrade, retry | orchestrator, audit log |
| Pricing desk (`booking/pricing.py`, `booking/quote_flow.py`, `tools/buyer_deals/`) | none | tiered prices, Deal IDs | seller, SGP gate |
| Media kits (`media_kit/client.py`) | none | list, search, compare, aggregate | several sellers at once |
| Seller client and OpenDirect (`clients/unified_client.py`, `clients/opendirect_client.py`) | live MCP/A2A clients | connect, call, close; catalogue, avails, orders | one seller |
| Event bus and audit log (`events/`, `storage/audience_audit_log.py`) | subscribers, stored events, a fallback file, one connection | publish, subscribe, log | everybody, best effort |
| Operator keys (`auth/operator_key_service.py`) and seller keys (`auth/key_store.py`) | hashed keys in a table, keys in a JSON file | mint, validate, revoke, delete | endpoints, MCP tools, CLI |
| MCP desk (`interfaces/mcp_server.py`, `tools/deal_library/templates.py`) | orders, approvals, negotiations, templates, through their stores | read, decide, write | operators |
| Deal library (`tools/deal_library/`, `tools/deal_import.py`, `services/deal_service.py`) | deal rows and portfolio metadata | import page by page, from a text, by hand; list, inspect | SSPs |
| Schema and setup wizard (`storage/schema.py`, `services/setup_wizard.py`) | tables, columns, version; answers in memory | create, migrate; detect, complete, skip | every process that opens the file |
| Crews, prompts, chat/CLI drivers, Meta, UCP and Mixpeek clients | mostly none | prompts, parsing, formatting, I/O | |

A job goes through the components in this order. `POST /bookings` creates a job
and schedules `execute_booking`, which runs `flow.kickoff()` on a worker thread.
The flow fans out to the channel crews and joins in `consolidate_recommendations`.
The job is then held for `/approve` (executed *on* the event loop, which it
blocks) or `/approve-all` (executed on a worker thread), or approves itself.
`_execute_bookings` deduplicates, applies the spend ceiling, books social lines
one by one at Meta, and sends the others through one orchestrator run each.

### What is hard here, and what makes it correct

* **Ambiguous bookings.** A request may time out after the seller committed.
  `DealsClient` resends under the same key, the orchestrator resends under a new
  one after a refusal, and whatever ends in an error counts as failed. Correct: no
  second deal for one quote, every deal a seller holds is accounted for.
* **Three kinds of price.** Raw prices are quoted, normalized prices are ranked,
  negotiated prices come back only through a fresh quote. Correct: nothing above
  the ceiling, or at a price nobody agreed to, is ever committed.
* **Vetting that can fail.** The SGP lookup may be unconfigured, fail, or not know
  a seller. Correct: it fails closed.
* **Approvals that overlap.** The check of the job's status and the executed
  bookings are not atomic. Correct: what is booked was approved, once, within
  budget, and each execution reports its own deals.
* **Joins.** The consolidation waits for all crews, of which any may fail or be
  skipped. Correct: no recommendation is lost, and the job leaves "running".
* **Caches in front of a shared table.** Every process that builds an approval
  gate has its own cache and reloads it only on a miss. Correct: nobody acts on a
  decision that was not made, nobody is told of one that was not kept.
* **Status changes in several locked sections.** A campaign's transition reads and
  validates, writes, and logs under three acquisitions of one lock; a deal's row and
  its history take two. Correct: statuses are reached in order, terminal ones stay,
  and the log accounts for the rows, in whatever order calls interleave or die.
* **Two vocabularies.** Sellers report statuses that the buyer's state machine does
  not know, or does not allow next. Correct: the row follows the seller.
* **Best-effort writes.** Every write to the store may fail without an error.
  Correct: the decisions do not depend on them, and the order between a record
  and the status that announces it is kept.
* **Answers that are old when they arrive.** Three clients cache what they were
  told, stamp it at different moments (before the request, on arrival), and let calls
  overlap. Correct: nothing is served, and no deal rests on an answer, older than the
  lifetime and one request allow.
* **Read, decide, write.** The MCP tools, the command line and the API of several
  processes each open a store, read, decide and write back. Correct: what was
  acknowledged is found again, and what was decided stays decided.
* **Listings that move while they are paged**, imports that die between the two rows
  of a deal, schema upgrades by several processes that may be killed. Correct: what a
  store says it has, it has whole.
* **One failing seller among several**, and audiences that lose references at three
  places on their way to a booking. Correct: a failure costs its own entry; a lost
  reference is in a log.

The full list of hazards, each at its line and with the properties that cover it,
is in `PROJECT.json`.

<a name="modules"></a>
## 2. Modules and how they correspond to the code

### `MultiSeller` - one run of `orchestrate`

The variables are the locals and results of the run: `discovered`
(`discover_sellers`), `answered`/`quotes` (`quote_results`), `band`/`talk`/`stated`
(`negotiate_above_ceiling` and `_negotiate_quote`), `remaining` (what is left of
`ranked_quotes`), `call` (the `book_deal` in flight: plan, idempotency key,
attempt), `booked`/`failed`/`incompatible` (`DealSelection`) and, outside the
program, `committed`: the deals sellers hold.

* *Discovery* is one action, the gate included; it takes any subset of the agent
  cards and any outcome of the portfolio lookup.
* *Quotes* settle one seller at a time in any order, as under `asyncio.gather`;
  each ends in a quote (priced or not) or in an isolated failure.
* *Negotiation* is sequential per quote in the code and in the model. One action
  per answer: proposal answered or unavailable, counter answered (an acceptable
  price is taken whatever the action says), counter failed, rounds exhausted,
  re-quote, re-quote failed.
* *Booking* is one action per outcome of a request: confirmed, timed out and
  resent, failed, unreadable answer, audience plan unsupported; the pre-flight
  passes or gives the seller up. A lost reply leaves the seller with or without
  the deal.

Abstractions. Prices are small naturals; `Effective` gives the normalized price,
which is never lower than the raw one (`EffectiveAssumption`: markup and fees are
non-negative). The composite score is an arbitrary order of the priced quotes,
with unpriced ones last (`Next1`). A seller is assumed to be idempotent: a request
that repeats a key finds the deal it created (`TheDeal`), and a seller that holds
the deal does not answer the repeated request with `audience_plan_unsupported`.
A quote's identity includes its seller, although `quote_seller_map` is keyed by
`quote_id` alone (hazard list).

### `Procurement` - what a run promises

Four variables: who is vetted, which deals are struck, which the buyer booked,
whether the run is over. It says: vet once; strike only with vetted sellers and
within the ceiling; book up to `Count` struck deals; nothing after the close.
`MultiSeller` instantiates it as `Promise`, with its deals as references,
`discovered` as the vetted sellers, `committed` as the struck deals, `booked` as
the taken ones, and `stage = "done"` as closed.

### `BookingFlow` - a job from brief to booked lines

`job`, `saved` and `up` are the job record, its row and the process; `loop` says
which request occupies the event loop. `step`, `flow`, `alloc`, `research`,
`found` and `pending` are the kickoff and `BookingState`; `status` the shared
recommendation marks. `worker[t]` is the program counter and the locals of an
execution of `approve_recommendations` + `_execute_bookings`: one per request,
plus `Itself` for a self-approving job. `lines` are `booked_lines`, `rows` and
`records` the deal rows and booking records, `deals` what counterparties hold.

* Marking is one step per recommendation, because it writes objects that every
  execution shares; selection (deduplication and ceiling) is one step.
* Booking is one step per recommendation and chooses whether a deal was struck
  and learned of, and whether one was struck and lost. A social line is recorded
  before the next is booked; the other lines are booked together, then recorded
  one by one: line and booking record, then row status.
* A line of the orchestrator run is one step here: `MultiSeller` models what
  happens inside it. With `max_deals` = 1 it learns of at most one deal, and may
  leave another one behind, whose reply was lost.
* A crash may come between any two steps; there is no recovery, since no code
  reads the jobs table back at start-up.

Abstractions. A recommendation is a product, a cost, impressions and a channel;
`Clamped` cuts the cost to the channel's allocation; the CPM clamp and the
coercion of malformed values are left out. Two channels stand for the five: one
booked at sellers, one at Meta. A line's cost is the approved one: the confirmed
cost is the seller's price, which `MultiSeller` bounds. Errors that escape
`_execute_bookings` itself (the orchestrator cannot be constructed, the bridge to
the event loop fails) are not modelled.
`validation_failed` needs a brief with missing fields, which the request model of
`POST /bookings` refuses and a CLI brief may have.

### `ApprovalGate` - reviewers, pipelines and their caches

`rows` and `order` are the `approval_requests` table, `cache[g]` is `_requests` of
gate `g`, `waits[g][r]` its `wait_for_approval` call on a request. `tried` and
`told` are history: the decisions that reviewers made, and those that
`record_approval` returned from.

* Each method of a gate is one step: it holds no `await` between reading the cache
  and writing the table, and no other process touches its cache. `View` is the
  lookup with its reload on a miss, `Loaded` the reload, which replaces what it reads
  and keeps the rest, and reads the `Limit` newest rows only.
* `RecordApproval` decides the cached request first and writes the row second; when
  the write raises, the decision stays in memory and the reviewer sees an error.
* A wait is a first look (`StartWait`), looks after each sleep (`Poll`) and a
  deadline that does not look again (`Expire`). `Restart` builds the gate anew and
  forgets its waiters.

### `CampaignLifecycle` - transitions of a campaign

`status` is the row, `events` the event log as (from, to) pairs, `work[t]` the call
in progress on a thread. `been`, `lost` and `crashes` are history.
`transition_campaign_status` takes the lock three times and is three actions:
`BeginTransition` reads and validates, `UpdateStatus` writes whatever the row says
by now, `EmitEvent` logs. `CreateCampaign` writes and then emits. `Crash` ends a call
between two of them, at most `MaxCrashes` times. `Target` maps the lifecycle methods
to their targets; `hold_campaign` stands for a direct call with `PACING_HOLD`.

### `DealLifecycle` - a seller's deals and their rows

`row`, `order` and `history` are the deals table and `status_transitions` for one
seller, quotes included; `seller` is what the seller itself says (external, with the
lifecycle that `src/docs/api/deals.md` gives it). `GetDeal` is the seller's answer,
`Update` or `Ignore` what `_update_stored_deal_status` makes of it later, and
`RecordTransition` the history entry, written after the lock was given back.
`Accepted` is the state machine, which validates a move only when it knows both
statuses. `MaxHistory` bounds the status changes of a deal.

### `OperatorKeys` - operator keys of several processes

`keyRow` is the `api_keys` table, `keyCall` the call under way in each process, a
server (REST endpoints and, where mounted, MCP tools) or a command line; `revived` is
history. A request is authenticated by reading a row, and later *all* of the row's
columns are written back with the use counted (`UseKey`); revoking reads and writes
in the same way; minting checks its label and inserts in one transaction. A key
revoked between the two halves of a validation comes back: `revived` records it, and
`OneActivePerLabel` says that this is the only way to two active keys of one label.

### `SgpGate`, `CapabilityCache`, `SellerDirectory` - three caches

Each has a clock, a cache and one call per caller, cut at every `await`: a request is
sent, the other party answers (from then on the answer ages), the answer arrives and
is stored. What is stored carries, as history, the time at which it was given.

* `SgpGate` models `check_approvals` with its batches (`Chunks`, `FetchChunk`), retries
  with backoff (`RetryChunk`, `Backoff`), partial answers and the cache that is stamped
  on arrival, and the two tools that share the client: a request for a deal, which
  fails closed, and inventory discovery, which filters.
* `CapabilityCache` counts an entry's life from the request and cuts it at the seller's
  max-age; an error is remembered as the legacy default.
* `SellerDirectory` has both registry back ends over one `SellerCache`, whose entries
  are deleted when they are found too old, and the tools' list, register and verify.

### `Negotiation`, `PricingDesk`, `QuoteRanking` - terms

* `Negotiation` is `auto_negotiate` with the threshold strategy: an opening, counters
  one at a time, an end by either side, and requests that fail with or without effect.
  `stands` is the negotiation as the seller sees it.
* `PricingDesk` has the tiers' discounts, the volume discount, `get_pricing`, and the two
  ways to a Deal ID, of which one waits for the diligence platform while the seller
  may reprice.
* `QuoteRanking` computes effective CPM, score and order of any small set of quotes;
  the property compares any two of the result.

### `AudiencePlanning` - from a brief to a booked audience

`brief`, `audPlan`, `asked` are the audience as the advertiser, the planner and the
seller see it, `believed`/`supports` what the capability client and the seller say,
`lost` the degradation logs. Strictness levels, the four roles, the minted lookalike,
the legacy list of strings, pre-flight, the structured refusal and the single retry
are modelled. Texts are classes of words.

### `SellerClient`, `OpenDirect`, `MediaKits` - sellers' APIs

* `SellerClient`: coroutines share one `UnifiedClient`. Connecting is four awaits, and
  other coroutines may call, connect or close between any two.
* `OpenDirect`: a catalogue page read item by item, the availability check in its two
  dialects, and requests that change the seller's book, whose answers may be lost, late
  or unreadable; `reports` is what callers were told.
* `MediaKits`: one kit, a list, a search, a comparison one seller after the other and an
  aggregate all at once; any seller may fail in any of the ways the code tells apart.

### `AuditTrail`, `BuyerDesk`, `DealLibrary`, `Bootstrap`, `Pacing` - what is kept

* `AuditTrail`: an emission is published at once, or scheduled on the running loop with
  a callback, or run in a loop of its own; a failed one goes to the fallback file, which
  may fail too. Beside it, the audience audit log, whose one connection is replaced when
  the database setting changes while threads write through the old one.
* `BuyerDesk`: each tool call opens its stores, reads, decides and writes; two processes
  interleave and may die while the key file is truncated. `meant` and `disturbed` are
  history: what sequential calls would have made, and where calls overlapped.
* `DealLibrary`: an import fetches pages of a listing that may change in between, drops
  repetitions, normalizes, and saves a deal in two statements. CSV texts and manual forms
  go through the same two rows. The three connectors differ in how paging ends, and
  `stopped` is what Index Exchange's result says of it among its errors (`Stops`).
* `Bootstrap`: `initialize_schema` reads the version, creates and alters, statement by
  statement, in several processes that may be killed; and the wizard's steps.
* `Pacing`: a snapshot is generated, published, saved; proposals, alerts and all the
  readings of the tools and reports are functions of a saved snapshot.

### Composition and instances

`MC_Parties` and `MC_Desk` put the components of two groups side by side. The
components of a group share no variable and no code path that changes state, and each
property is about one of them, so interleaving them would multiply states and show
nothing more: a behaviour belongs to one component (`part`), and the others stay
where they start. `MC_Desk` has `ApprovalGate` and `DealLifecycle` a second time by
INSTANCE, with two gates whose updates may fail and with overlapping answers. Where
components do interact, they are one module: requests, executions, event loop and
stores in `BookingFlow`; orchestrator, sellers, pre-flight and resends in
`MultiSeller`; planner, pre-flight and retry in `AudiencePlanning`; approval cache,
platform and tools in `SgpGate`.

`MC_MultiSeller`, `MC_BookingFlow`, `MC_ApprovalGate` and `MC_CampaignLifecycle` hold
the constants of the other instances; the modules `*_proofs` hold the theorems of
section 5. `Subsequences` is what a loop with a condition keeps of a list and what sorting
makes of a set, said of positions; `AudiencePlanning`, `OpenDirect`, `QuoteRanking` and
`DealLibrary` use it.

<a name="runs"></a>
## 3. What each run checks

| Run | Instance | Shows |
|---|---|---|
| `ms_negotiate` | 3 sellers of which the portfolio approves two; prices 1 to 4 around a ceiling of 3, one seller with a markup; 3 rounds, 2 sends, 2 deals | types; no deal above the ceiling, at an unagreed price, or with an unvetted seller; one deal per seller; the run ends; it implements `Procurement` |
| `ms_booking` | 3 sellers, two of them unknown to the portfolio under "warn"; no ceiling; audience plan, pre-flight, 3 sends, 2 deals | one deal per quote through resends and degradation; what the run answers accounts for every deal once (`VerdictsAccount`: booked, failed or in hand, never two of these, and no more than `Count` booked) |
| `bf_manual` | 2 channels, up to 2 of 3 proposals each (one product proposed twice), allocations within and above the budget of 3, one operator approving both products by name and another one of them; no write is lost, the process may die at any step | lines are booked once per product and within budget; nothing is consolidated early or dropped; rows, records and the saved job agree wherever the process dies; completed means booked; the job leaves "running" and every accepted request is answered |
| `bf_overlap` | jobs that approve themselves, or whose approve-all on a worker thread overlaps another request; every write to the store may be lost | what is booked was approved; each execution reports exactly the deals it learned of |
| `ag_single` | one gate that may restart at any time, 3 requests, as many as a listing returns; no write fails | a request can be decided while it is pending, also after restarts, and never twice; every wait ends |
| `cl_race` | 2 threads on one campaign with 7 of the 9 methods, one crash | types; a live campaign was planned, booked and made ready; races hide no status from the log |
| `sp_parties` | one of eleven parts at a time: two tools over one approval cache, two callers of each cache and of the seller client, a listing page with an item of every shape, three requests in flight to a book, a 4-round negotiation with prices around the limit, quotes of two sellers, plans with every role against six sellers' capabilities, two sellers' kits | types; a deal rests on a recent admissible approval; caches serve nothing stale; no negotiation or connection is left open; no audience reference is lost silently; reports say what sellers answered; Deal IDs, offers and rankings keep their terms |
| `bd_desk` | one of nine parts at a time: two processes and two keys of one label; an audited and an unaudited emitter, two loggers over a changing database; listings of up to three deals in pages of two, three pages at most; three tool calls of two processes; two openers and two kills; a wizard of four steps; two channels; two gates; three calls on one deal | types; labels stay unique; acknowledged work is found again; stores are whole; pacing verdicts cohere; reviewers are heeded; the status history explains each row; decisions stand |
| `ms_budget`, `bf_double`, `ag_twice`, `cl_terminal` | small instances of the same modules | section 4 |

**Bounds.** Two operators, two channels and two deals are enough for every
pairwise interleaving the properties speak of; three sellers leave one quote to
fall back on when two deals are wanted and one fails; three sends give a first, a
middle and a last one (two where resends are not the question); three rounds give
an opening, a counter that continues and one that exhausts. Prices below, at,
between and above ceiling and band all occur. Two gates, or two threads, are what it
takes for one to overtake another; a third request distinguishes the order of a
listing from its ends. In the caches two callers, a lifetime and a delay of one or two
ticks let an answer be asked before, given during and stored after another's; a batch
of one splits two domains over two requests. A page of two and listings of three give
a full page, a short one and a repetition across the boundary, and three pages are
more than they need where the API heeds the page number. Two processes and two
kills leave every prefix of a schema upgrade behind once, and once more under another
process. Most counters are bounded by the code itself (rounds, attempts, the ranked
list). The others are bounded in the guards of their actions by constants whose
comment says "bound" (`MaxCrashes`, `MaxHistory`, `SgpHorizon`, `CapHorizon`,
`DirHorizon`, `MaxOpenings`, `MaxToolCalls`, `MaxSent`, `MaxPage`, `MaxReprices`,
`MaxIssued`, `MaxQuotes`, `MaxAsked`, `MaxUses`, `MaxImports`, `MaxPages`, `MaxCalls`,
`MaxKills`, `MaxAnswers`, `MaxSpend`, `MaxSnapshots`, `Configurations`); no state
constraint is used. `cl_race` leaves out `complete_campaign`, which ends a campaign as
`cancel_campaign` does, and the direct `PACING_HOLD` call, a second pause; the
theorems cover them. `sp_parties` is symmetric in its two interchangeable callers; it
checks no liveness. Deadlock checking is on for the gates, where a restart is always
possible, and off elsewhere: a finished run, a dead process, a campaign in a terminal
status and a component at its bounds take no step.

**Fairness.** `MultiSeller!FairSpec` has weak fairness of the whole next-state
relation: each await of the run is wrapped in a timeout or in the HTTP client's
timeout, so something always happens next; nothing says *which* answer comes.
`BookingFlow!FairSpec` has weak fairness of the kickoff and of every thread: crew,
seller and store calls return, and threads are scheduled. No fairness is assumed
of approvals or crashes. `ApprovalAnswered` says what that buys: the request that
blocks the event loop is still answered, because its bookings run on another
thread's loop (`async_utils.run_async`). `ApprovalGate!FairSpec` has weak fairness of
`Expire`: the event loop wakes the sleeper and its deadline passes. Nobody is obliged
to decide.

Every property has a mutant in `PROJECT.json`: a plausible bug in a modelled
definition under which TLC finds the property violated in the same run.

<a name="findings"></a>
## 4. Findings

Each is a statement of a comment or docstring, refuted by a run.

* `bf_double`: the approval endpoints test `job["status"] == "awaiting_approval"`
  and nobody changes it until the bookings are done. A second `/approve-all`
  during the first books every recommendation again
  (`interfaces/api/main.py:385`), although deduplication exists "so the same
  inventory is never booked twice".
* `ms_budget`: `_book_approved` hands each run the line's cost as a budget so that
  it "cannot commit money beyond what the human approved", but the only budget
  test compares `minimum_spend`, which `evaluate_and_rank` never supplies.
* `ag_twice`: `record_approval` promises an error for a request that is "already
  decided", but tests a cache that other gates' decisions never reach and then
  overwrites the row: approved at one gate, rejected at another.
* `cl_terminal`: a transition validated before a cancellation is written after it,
  and the campaign leaves a terminal status.

The models also show the following. No run checks these; the properties of section
3 are stated so that they hold beside them. Where a module states one as a definition,
its name is given.

Bookings and approvals:

* A booking whose reply is lost counts as failed, and the next quote is booked too:
  sellers may hold more deals than `count` (`SelectionAccounts` says that each of
  them is at least reported).
* After giving a seller up as incompatible the loop goes on to the next one,
  although the comment at `orchestration/multi_seller.py:1855` says it does not.
* When the re-quote fails or is refused, the seller is left with a negotiation that
  the buyer accepted (`:1550`); `quote_seller_map` is keyed by `quote_id` alone (`:2282`).
* A self-approving job is `completed` even when its bookings were rejected or all
  failed (`services/booking_service.py:151`; `CompletedMeansBooked` is checked of jobs
  that operators approve).
* A flow that failed to allocate a budget still consolidates, since there is no
  active channel to wait for, and moves from `failed` to `awaiting_approval`
  (`flows/deal_booking_flow.py:995`). A single failed crew makes it return "waiting":
  nothing is held for approval although the other crews proposed lines.
* A Meta campaign whose ad set fails stays behind (`:1447`). Live jobs are in memory
  only: after a restart a persisted job awaiting approval cannot be approved.
* A pipeline that waits at a gate with a cached pending request never sees a decision
  taken at another gate (`NoBlindWait` is true of one gate), a decision that arrives at
  the deadline is not looked for (`pipelines/approval.py:453`), and after a restart with
  more requests than the listing limit an old pending one is unknown (`StillDecidable`
  is checked up to the limit).

Campaigns and deal rows:

* `resume_campaign` also activates a campaign that is `ready`; several wrappers share a
  target (`storage/campaign_store.py:354`).
* A row in a status that the state machine does not know may move anywhere
  (`storage/deal_store.py:568`); `get_deal` cannot record a seller's `completed` for a row
  still `booked`, and an overtaken answer `active` moves a `completed` row back. A
  history insert that fails leaves a moved row unexplained (`:595`).
* `WithinAllocation` (`BookingFlow`) and `VerdictIsRecorded` (`ApprovalGate`) hold in the
  instances and were given up as run properties for deeper ones.

Audiences and terms:

* `StrictnessHolds`, `FiledUnderThePlan`, `NoGlobalAgentic` (`AudiencePlanning`) fail: the
  retry after a refusal degrades without regard to strictness, although
  `models/audience_plan.py:256` says required audiences fail the booking; a refusal is filed
  under the degraded plan that was asked, not under the planner's, where a reviewer looks;
  the planner mints agentic references for the jurisdiction "GLOBAL", which a brief may
  not contain, because it passes none. `synthesize_capabilities_from_unsupported`'s
  docstring promises less than the code infers.
* `AcceptedWithinMax` (`Negotiation`) fails: a price that comes with an "accept", or with
  an answer that carries no price, is taken unchecked (`negotiation/client.py:411`),
  although the strategy's documentation calls `max_cpm` the absolute ceiling.
* The unified client's `request_deal` has no ceiling; a target above the list price is
  paid as is; `get_pricing` calls PG and PD unavailable to the public tier, and
  `request_deal` issues them; a product without a price is read as 0.
* The KPI orientation "balanced" of the planner is unreachable.

Caches, clients and sellers' answers:

* `OverlapIsHarmless` (`CapabilityCache`) fails: a discovery that fails late replaces the
  policy an overlapping one stored, although the module's comment calls the race
  harmless. `EnsuredIsConnected` (`SellerClient`) fails: a coroutine that overlaps a
  connection uses a client without a session.
* The IAB registry client lets JSON of another shape raise; the MCP server builds a new
  registry client, hence a new cache, for each call.
* `FailuresAreSkipped` and `KitTotalIsCounted` (`MediaKits`) fail: only `MediaKitError` is
  caught, and a kit's total is what the seller says.
* OpenDirect: the price filter runs after the page limit, availability falls back to
  another product's record, a validation error after a POST is reported as an error
  parsing dates, and nothing makes a repeated request idempotent.

The desk:

* `DeskDecidesOnce`, `WeightsAreValidated`, `AuditTrailAccounts` (`BuyerDesk`) fail: two
  overlapping decisions both succeed, the MCP template tools validate no weights, and
  `transition_order` writes a status without a log entry.
* A validation that overlaps a revocation writes the row back as active (`revived`).
* `DeduplicatedImport` (`DealLibrary`) fails for Magnite, and importing twice stores
  every deal twice; PubMatic is paged to the limit when its API ignores the page number;
  Magnite ignores filters; `list_portfolio`'s total is short beyond its fetch limit.
* `NoOpenerFails` (`Bootstrap`) fails: two processes may both see a missing column, and the
  second ALTER raises. `NoAlarmBeforeFlight` (`Pacing`) fails, and several reallocations
  from one channel may together exceed what it can spare.

<a name="proofs"></a>
## 5. What is proved

Eight modules prove, with TLAPS and for every value of the constants that satisfies the
named assumptions of the modules they extend. Where a theorem needs more than those, the
last column says what.

| Theorem | States | Supposing |
|---|---|---|
| *`MultiSeller_proofs`* | | |
| `TypeCorrect`, `ProvenanceHolds`, `AccountingHolds` | types, and the two strengthenings below | |
| `CeilingAlwaysHolds` | no seller ever holds a deal above `max_cpm` | |
| `NegotiatedPriceAlwaysStands` | a deal on a re-quote is at a price its seller named or accepted | |
| `OnlyVettedSellers` | only sellers past exclusion, block list and SGP gate hold a deal | |
| `OneDealForAQuote` | resends and degraded plans leave a seller one deal for a quote at most | |
| `OneDealWithASeller` | a run books one deal from a seller at most | |
| `EveryDealIsAccountedFor`, `VerdictsAgree`, `NeverMoreThanCount`, `VerdictsAlwaysAccount` | what a run answers accounts for every deal once | |
| `ImplementsProcurement` | `Spec => KeepsPromise`: every run is a run of `Procurement` | |
| *`CampaignLifecycle_proofs`* | | |
| `TypeCorrect` | the variables keep their types | |
| `LiveIsPrepared` | whatever races and dies, a live campaign was planned, booked and made ready | |
| `EveryStatusIsExplained` | each status a campaign ever had has an event, unless the call that wrote it died | |
| *`BookingFlow_proofs`* | | |
| `JobTypes` | the job, the executions and the stores keep their types | |
| `AllIsHeldForApproval` | what the crews proposed is held in full, and not before the last crew is done | |
| `NothingBookedUnapproved` | every deal's product was asked for, however executions overlap | |
| `ExecutionsAccount` | an execution's lines are exactly the deals it learned of | |
| `RowsFollowRecords` | a row marked booked has its line in the records, also when executions overlap | no store write fails |
| `SerializedBookOnce` | no product is booked twice | serialized approvals |
| `SerializedWithinBudget` | what is booked stays within the budget's ceiling, for any recommendations and prices | serialized approvals |
| `SerializedCompletion` | a job that says completed has booked what it approved | serialized approvals |
| `SerializedRecordsAgree` | rows, records and the saved job agree, wherever the process dies | serialized approvals, no store write fails |
| *`ApprovalGate_proofs`* | | |
| `GateTypes` | rows, caches and waits keep their types | |
| `NoVerdictIsInvented` | no pipeline acts on a verdict nobody gave | |
| `ReviewersAreTold` | the table has the last decision a reviewer was told of, and no other | |
| `OneGateDecidesOnce` | no request is decided twice | one gate |
| `OneGateDecidesEach` | and a pending one can be decided, through any restarts | one gate, no write fails, no more requests than a reload reads |
| *`DealLifecycle_proofs`* | | |
| `HistoryExplains` | the status history explains each row, in whatever order overlapping calls wrote it | `Sensible` |
| `AnswersFindRows` | an answer finds its row while the listing is long enough | `Sensible` |
| *`Parties_proofs`* | | |
| `PartiesTypes` | every party's component keeps its types | |
| `DealsRestOnApprovals` | a deal rests on an admissible approval given recently | |
| `LookupsStayFresh` | capabilities and agent cards served are no older than lifetime, max-age and one request allow | |
| `NothingIsLeftOpen` | an abandoned negotiation is declined; the coroutines of a client share one connection | |
| `TermsAreKept` | a Deal ID is within the ceiling, at the calculator's price and above its floor; offers are within the limits | |
| `ReportsStayComplete` | what is told of an order as done is done; a failing seller costs a comparison its own entry | |
| `ReadingsStayTrue` | no audience reference is lost silently, a page accounts for every item, a dominant quote is ranked above | `QuotesAreClose` |
| `NegotiationTypes`, `OffersStayWithinLimits`, `SettledWithBoth` | the same of `Negotiation` alone | |
| *`Desk_proofs`* | | |
| `KeysTypeCorrect`, `LabelsStayUnique` | two active keys of a label come only from an overwritten revocation | |
| `WhatIsToldIsKept` | an audited event, an acknowledged call and an opened schema are found again | a seller is not named "torn" |
| `OpenedIsWhole` | an opened database has every table and column, whoever was killed opening it | |
| `DecisionsAlwaysHold` | an action property: no step takes back a decision, stores weights that are refused, or detects over an answer | a seller is not named "torn" |
| `DeskHeedsReviewers`, `DeskRowsAreExplained` | the gates' and the rows' theorems, of their instances at the desk | distinct names in the second |
| `FetchesAreComplete` | a fetch reads every deal of a listing that held still, once, or reports that it stopped | |
| `StoresStayWhole` | a fetch has all of a listing that held still, an import all that it counted, and the pages of the library all of its rows | |
| `DesksKeepTypes` | every component of the desk keeps its types | distinct names, none of them "torn" |
| `PacingStaysSound` | reallocations take what can be spared and give what is lacking; all readings of a snapshot agree | finitely many channels, the default thresholds |

`FiniteData_proofs` is the eighth: lemmas about sums over finite sets, orders and
subsequences that the others cite.

**Where deals come from.** The money and vetting guarantees are not inductive: they
speak of deals, and a deal is the end of a chain. The strengthening is
`IInv == TypeOK /\ Provenance`, whose four parts follow the chain: `VettingSound`
(discovered sellers passed the gate, and nothing is quoted before), `QuotesSound`
(quotes come from discovered sellers, a re-quote from a price stated by its
seller), `TalkSound` (a negotiation is about a pooled quote and its agreed price
was stated) and `BookingSound` (what is ranked, being booked, or held by a seller
is a ranked quote). One lemma per part shows that every step preserves it.
`CeilingAlwaysHolds` then needs `RankSound`: a quote that passes the filter on
normalized prices has its raw price within the ceiling, *because* normalization
never lowers a price; that assumption is the only link between the two prices.

**How many there are.** `Inv == IInv /\ Accounting` adds `PoolSound` (a seller has
one quote of each kind, a negotiation is about an above-ceiling quote that has no
re-quote yet, so of a quote and its re-quote only one is ever ranked: `RankedOnce`),
`LoopSound` (the quote in hand is new to sellers and verdicts except under the key
in hand; what the loop has not reached is new to both) and `LoopAccounts` (the
properties themselves). That a degraded plan cannot double a deal rests on the
guard of `AudienceUnsupported`: a seller that holds the deal does not refuse the
repeated request. `NoVerdictContradicted` needs both halves: the failed quote that
made a seller incompatible and a booked one of the same seller would be two ranked
quotes of one seller.

**Refinement.** `StepKeepsPromise` maps each step: discovery to `Vet`, a confirmed
booking to `Take`, a lost or unreadable reply to `Strike` or nothing, the three ways
into "done" to `Close`, everything else to a stutter. `DealIsStrikable` supplies
the guard from `IInv`, and `LoopSound` supplies that the run is open and the deal
is new.

**Campaigns.** A call writes a status that it validated against a row it read
earlier, so nothing relates the write to the row as it is. What survives the race is
history: the row *had* the status that was read. `Inv` of `CampaignLifecycle_proofs`
is `TypeOK` with `Held` (a row's status is in its history), `Validated` (what is
about to be written follows, by a rule, from a status in the history) and `Grounded`
(the history is closed under `Before`, what a status presupposes). `RulesSkipNothing`
is the fact about the automation rules that makes a validated write keep `Grounded`.
The same argument cannot give `TerminalIsFinal`, which run `cl_terminal` refutes.

**Jobs.** `Typed` adds to `TypeOK` that functions have their domains and that crews
work under a split the portfolio crew may return, from which clamped items are
recommendations. The strengthenings stand on it. `HeldInv`: nothing is pending
before the kickoff is over. `GivenInv`: executions share the recommendations' marks,
so what one is about to book may have been marked by another; what is inductive is
that every mark and every plan names a product that *some* accepted execution was
given (`MarksWereGiven`, `PlansWereGiven`), and that nobody executes before the
kickoff hands over (`NobodyYet`). `AccountsInv`: a deal an execution learned of is its
line or a result it has yet to record. `RowsInv`: a row is written after its record
(`RecordedFirst`), so a booked row has one. `OwnStep`, `OthersAccounts` and
`StepsElsewhere` are the frame: a step of one execution changes no other's record.

`Serialized` is what the other four need: every request names its products, so that its
execution holds the event loop (only approve-all runs on a worker thread), and no job
approves itself. `Alone` says that there is one
execution ever, since it holds the loop until the job's status says that it is over, and
`OneEach` that what it has to book, to record and has booked are of distinct products,
because `IsDeduped` chose them and no step adds to them. `SettledInv` relates the three
stores while it works: a row it has not reached waits for approval (`PlansWait`,
`StartsWait`), a line is in the records and its row is booked or about to be
(`LinesSettle`), so that when nothing is under way they agree. `CompleteInv` follows the
outcome from the lines to the job's status. `SpendInv` follows the money: what an
execution has to book, to record and has booked are recommendations whose cost passed
`ExceedsCeiling` together, and the sum over a subset is no more. Without
`Serialized`, run `bf_double` refutes `BookedOnce`.

**Sums.** `MapThenSumSet` chooses one element after the other, and nothing says which. The
lemmas of `FiniteData_proofs` say that the recursion has a value (`SumExists`), that any
element may be taken first (`SumRemove`), that a subset sums to no more (`SumMonotone`) and
that a one-to-one map which keeps the values keeps the sum (`SumImage`). Each is by the smallest counterexample (`SmallestSubset`): the
library's induction rules take an operator as a parameter, its well-founded
order of subsets does not.

**Gates.** `tried` and `told` relate what caches hold to what reviewers did: a cached
or stored verdict was tried, and the row has the last one told. A single gate's cache
knows every decided request it knows at all (`NotBehind`), which gives
`OneGateDecidesOnce`; that it knows nothing the table does not (`NotAhead`) and that a
reload lists every row once (`EachListedOnce`) gives that a pending request is found.
Run `ag_twice` refutes the first of two gates.

**Deal rows.** `HistoryAccounts` is inductive on top of `RowsInv` (a row is listed once
it is there), but that a step keeps it has to be counted: how often a log, or a call that
has yet to write it, comes from a status and how often it leads there. `LogGrows` and
`CountMoves` say how one entry and one call change those numbers. Two overlapping calls may
log in either order.

**Approvals of vendors.** `DealsRestOnApprovals` needs the age of everything in flight:
an answer was given no more than a delay before it is due (`RequestIsTimely`), a cached
one no more than a delay before its stamp (`EntriesAreTrue`). What would break the bound
is a cache hit that a call keeps while it waits for the rest of its sellers; a request
for a deal is about one product and at most one seller, so it has either hit or waited
(`OneSeller`). Inventory discovery does keep hits over a wait, and the property does not
speak of it. The types rest on the same invariant (`GateTyped`): a chunk is part of what
is still sought, and an answer's fields are those of the call that asked.

**The other two caches.** `EntriesExpire`: an entry ends no later than one lifetime after its
answer was given, since `CapabilityCache` counts from the request that brought it.
`CardsArriveInTime`: `SellerDirectory` stamps on arrival, so a card may be one
request older than its stamp.

**Connections.** `OneHandles`: as long as no close crosses a connect or another close, at
most one coroutine is between the awaits of one, and the open transport is the one
the client refers to. `crossed` records the exception, which the code allows.

**Terms.** Deal IDs carry the price that was calculated, and the calculator rounds to
cents: `PricesAreCalculated` relates each to the list price, volume and target *it was
made at*, and `ToolKeepsTerms` says that the tool that waits for the diligence platform still has
what it calculated when the platform answers. `PriceAboveFloor` is the arithmetic:
discounts of a tier and of a volume together leave the floor.

**Orders.** `Balanced` is a count: entities of the seller's book that nobody was told of,
and creations still under way, are no more than the errors told after a creation, and the
one awaited. An update is about an entity of the book at the time it was sent
(`WireSound`), and what is reported as done stays done (`DoneIsDone`).

**Pages and rankings.** A listing is what its page makes (`ListingIsOfPage`), and the items
split by shape into those listed, warned of and dropped for their price, which are
counted (`ShapesSplit`). A ranking is the priced quotes in order and the others after
them; that it is an arrangement of what came in, with each as often, is
`OrderedQuotes`, from lemmas on `InOrder` and `Picked`. `DominantScoresMore` is
arithmetic about shares rounded to hundredths of a point: a quote that costs less and
is no worse otherwise scores more, or the same and came first. With prices
more than 50 CPM units apart in one list (`Closeness`), a difference of a hundredth of a
unit can vanish in the rounding and the order of arrival decides; `QuotesAreClose`
excludes that, and the lists of a campaign's quotes satisfy it.

**Audiences.** `KeptOf(p, q, log)` says of two plans that p has q's primary and of each role
q's references but for those in a log, and none besides a minted lookalike. Each stage
keeps the one before (`PlanSound`, `AskSound`), and keeping composes (`KeptAgain`). A
degraded plan keeps all that its log does not have, for any capabilities: they are the
seller's, the legacy default, or read from a refusal (`Capable`).

**Media kits.** A report has its sellers' answers at their places, and a seller that failed
has its entry (`AnswersArePlaced`, `ReportIsMade`).

**Keys.** `LabelsStayUnique` follows a row through a validation that read it and writes it
back later: what is written back either is still the row but for its count, or brings
a revoked key back, which `revived` records.

**Negotiations.** Offers and rounds are bounded by `RoundsLeft`, which says that a
counter is only under way while a round is left, and an outcome exists only at the end.

**What is told at the desk.** `TrailInv`: an event whose emission is over is on the bus or
in the file, or the emitter was told otherwise; a row of the log is in the database of its
connection. `DeskInv` says of a resource that no two calls overlapped on that one call at a
time is about it, that this call goes by what is there now, and that what is there is
what the calls meant one after the other; of the others it says that they never differ.
`BootInv`: a version is recorded after the tables and columns it stands for, and an
opener that is past a statement finds them. "torn" is what a reader finds in a key file
that is being written, so no seller may have that name.

**Pacing.** Percentages are rounded to hundredths; `RoundedWell` bounds the error by half of
one, and the thresholds are far enough apart that the readings, which compare rounded and
unrounded figures, agree. The proof uses the values: 10 percent for a warning, and at
least 20 for a critical alert, which the default, 25, is. What a channel can spare and
what another lacks are functions of a saved snapshot (`KeptAreSound`).

**The library.** `LibInv` follows a deal from the answer to its two rows. `Accounts`: what
was given is what is kept, failed and skipped (`SiftCounts`), and no more is saved than is
kept. `RowsAreSaved`: each row is of an import that began, the rows of the import under way
are its first `saved` deals, at most one of an import is not yet described, and that one is
the last it saved. `ImportIsWhole` follows; that the rows left undescribed are no more than
the imports is a map from the ones to the others.

`FetchIsComplete` is about the end of a fetch, so `FetchInv` says what holds after each page:
as long as nothing disturbed it, it has read the first `page * PageSize` offers that its
filter lets through, `IdsUpTo` of them are the ids that it holds, and each once. A page is a
slice of those (`PagesAreSlices`), what it adds is its own ids without those seen before
(`PageIsTaken`), and where paging ends there is nothing behind the page (`IndexEnds`), unless
the connector stopped. That exception was found in the proof: a page on which every deal
repeats one before it ends the paging of Index Exchange with deals behind it, and so does the limit
of pages; both are in the result's errors. The property supposes that they are not. Listings
of three in pages of two, as in the run, are too short to show it, and longer ones, saved
twice, make the run too long: what is said of longer listings is said by the theorem.

`PagesShowAll` is about lists. `NewestShows` says that the order of `list_deals` has each row
once, and `PagesJoin` that the pages of any list, one after the other, are the list: its
prefixes solve the recursion of `FlattenSeq`, which has one solution (`FlattenIs`, by the
least place where two would differ).

Only model-checked: the liveness properties (`RunEnds`, `JobLeavesRunning`,
`ApprovalAnswered`, `WaitEnds`: TLAPS has no backend for ENABLED and fairness). Each
invariant and each action property of a passing run has its theorem. The provers
have no induction rule that can be instantiated: what a loop or a sum computes is
proved by least numbers, smallest subsets and cardinalities. `SelectSeq` and `SortSeq` are
opaque to them, so the modules write a loop with a condition and a sort as
`Subsequences!Picked` and `InOrder`, which say the same of positions.
`Provenance`, `Accounting`, `LibInv` and `FetchInv` are proved, not checked by a run. No recursive operator is
used in a module with a theorem.

<a name="limits"></a>
## 6. What is not modelled

See the notes of `PROJECT.json`'s components. In short:

* Crews, prompts, the chat, CLI and AgentCore entry points, formatting: I/O around the
  modelled core, whose answers are nondeterministic inputs.
* The adaptive and competitive negotiation strategies: floating-point heuristics.
* UCP, Meta and Mixpeek clients and the seller order client: one request, one parsed
  answer, no state. The outgoing `AuthMiddleware`, which only tests wire in.
* Single-statement rows that nothing in the program reads back (ad-server bindings,
  creatives, activations, deal events), and creative and channel tables of reports.
* Reading the vendored taxonomy files.
* Recovery of live jobs after a restart: there is no code that does it.
* Errors that escape `_execute_bookings` itself, and the CPM clamp and coercion of
  malformed crew output.

<a name="plan"></a>
## 7. Plan

Done: the modules of section 2. What would add most next:

| Next | Why |
|---|---|
| Action properties of the seller's book | what a later step may never take back is said of the desk only |
| Liveness of `SellerClient` and of `AuditTrail` | a stranded call, an event whose callback never runs |
| An abstract specification of `BuyerDesk` | `meant` is one in the form of history; a refinement would say it of every resource |
| The adaptive strategy over integers | it may concede in other ways than the threshold one |
