--------------------------- MODULE AudiencePlanning ----------------------------
(***************************************************************************)
(* An audience on its way from the brief to a seller: the brief is taken   *)
(* in, the planner composes a plan, the pre-flight degrades it to what the *)
(* seller is thought to support, and the one retry degrades it again to    *)
(* what the seller said when it refused.                                   *)
(*                                                                         *)
(* Abstractions.  A ref is its type, identifier, version and jurisdiction; *)
(* free text is the kinds of words in it; a log entry is its role and ref; *)
(* rationales are left out.                                                *)
(***************************************************************************)
EXTENDS Naturals, Sequences, FiniteSets, SequencesExt, FiniteSetsExt, Subsequences

CONSTANTS
    Briefs,         \* the briefs that may be handed in
    SellerCaps,     \* what sellers may support (external), see CapableOf
    Catalogue       \* identifiers of the vendored taxonomies

Roles == {"constraints", "extensions", "exclusions"}
Types == <<"standard", "contextual", "agentic">>
NoAudience == [none |-> TRUE]
AudienceOf(primary, c, e, x) ==
    [primary |-> primary, constraints |-> c, extensions |-> e, exclusions |-> x]
Refs(p) == {p.primary} \cup UNION {Range(p[r]) : r \in Roles}
IsPlan(p) ==
    /\ \A ref \in Refs(p) : ref.type \in Range(Types)
    /\ \A r \in Roles : p[r] \in Seq(Range(p[r]))

ASSUME AudienceAssumption ==
    /\ \A b \in Briefs :
         /\ "audience" \in DOMAIN b /\ b.legacy \in Seq(Range(b.legacy))
         /\ b.audience # NoAudience => IsPlan(b.audience)
    /\ \A caps \in SellerCaps : caps.on \subseteq Roles /\ \A r \in caps.on : caps.max[r] \in Nat

VARIABLES
    audStage,   \* where the audience is
    brief,      \* the brief handed in
    audPlan,    \* the planner's plan
    reachKnown, \* its discovery tool answered: discovery_available
    supports,   \* what the seller supports
    believed,   \* what the buyer's capability client says it supports
    asked,      \* the plan of the last booking request
    lost,       \* entries of the degradation logs, of the pre-flight and of the retry
    audEvents   \* audience audit log: event and the plan it is filed under

audVars == <<audStage, brief, audPlan, reachKnown, supports, believed, asked, lost, audEvents>>

--------------------------------------------------------------------------------
(* Taking the brief in.                                                    *)

AudienceRef(type, id, version, jurisdiction) ==
    [type |-> type, id |-> id, version |-> version, jurisdiction |-> jurisdiction]

\* migrate_legacy_audience_list: the first entry becomes the primary, the rest extensions.
MigrateLegacy(ids) ==
    LET ref(id) == AudienceRef("standard", id, "current", "none") IN
    AudienceOf(ref(ids[1]), <<>>, [i \in 1 .. Len(ids) - 1 |-> ref(ids[i + 1])], <<>>)
\* coerce_audience_field.
Coerced(b) == IF b.legacy = <<>> THEN b ELSE [b EXCEPT !.audience = MigrateLegacy(b.legacy)]

\* lookup: agentic identifiers are not in a table, and another version is no obstacle.
Lookup(ref) == ref.type = "agentic" \/ ref.id \in Catalogue

\* validate_content_taxonomy_version and validate_no_global_agentic.
NeedsMigration(ref) == ref.type = "contextual" /\ (ref.version # "current" \/ ~Lookup(ref))
GlobalAgentic(ref)  == ref.type = "agentic" /\ ref.jurisdiction = "GLOBAL"

\* _validate_brief: dates, budget shares and channels, then the audience.
ValidBrief(b) ==
    /\ b.flight[1] < b.flight[2]
    /\ MapThenSumSet(LAMBDA c : c[2], b.channels) = 100
    /\ \A c, d \in b.channels : c[1] = d[1] => c = d
    /\ b.audience # NoAudience =>
         \A ref \in Refs(b.audience) : ~NeedsMigration(ref) /\ ~GlobalAgentic(ref)

\* parse_campaign_brief.
IngestBrief ==
    /\ audStage = "brief"
    /\ brief' = Coerced(brief)
    /\ audStage' = IF ValidBrief(brief') THEN "planning" ELSE "rejected"
    /\ UNCHANGED <<audPlan, reachKnown, supports, believed, asked, lost, audEvents>>

--------------------------------------------------------------------------------
(* The planner.                                                            *)

\* _normalize_tokens: a phrase of several words falls apart.
NormalizeTokens(text) == {IF word = "agentic phrase" THEN "other" ELSE word : word \in text}
\* _classify_token.
ClassifyToken(word) == IF word \in Range(Types) THEN word ELSE "none"
\* _candidate_from_ref.
IsCandidate(ref) == ref.type # "agentic" /\ Lookup(ref)

\* classify_intent: candidates are what of the brief's own audience the taxonomy knows;
\* free text yields seeds of agentic audiences and nothing else.
ClassifyIntent(b) ==
    LET own == IF b.audience = NoAudience THEN <<>>
               ELSE <<b.audience.primary>> \o b.audience.constraints \o b.audience.extensions
        is(i, t) == own[i].type = t /\ IsCandidate(own[i])
        known(t) == Picked(own, {i \in DOMAIN own :
                        is(i, t) /\ \A j \in 1 .. i - 1 : is(j, t) => own[j].id # own[i].id})
    IN [standard |-> known("standard"), contextual |-> known("contextual"),
        seeds |-> {r.id : r \in {r \in Range(own) : r.type = "agentic"}}
                  \cup {w \in NormalizeTokens(b.text) : ClassifyToken(w) = "agentic"}
                  \cup (b.text \cap {"agentic phrase"})]

\* _bias_from_text, in halves.
BiasFromText(b, t) ==
    2 * Cardinality(b.text \cap (IF t = "agentic" THEN {"agentic", "agentic phrase"} ELSE {t}))

\* pick_primary: the type with the largest bias, the earlier of Types on a tie; then
\* whatever there is.
Found(c, t) == IF t = "agentic" THEN c.seeds # {} ELSE c[t] # <<>>
PickPrimary(b, c) ==
    LET count(t) == IF t = "agentic" THEN Cardinality(c.seeds) ELSE Len(c[t])
        own(t) == IF b.audience # NoAudience /\ b.audience.primary.type = t THEN 4 ELSE 0
        bias(t) == BiasFromText(b, t) + own(t) + (IF count(t) < 3 THEN count(t) ELSE 3)
        chosen == CHOOSE i \in 1 .. 3 : \A j \in 1 .. 3 :
                      bias(Types[i]) > bias(Types[j]) \/ (bias(Types[i]) = bias(Types[j]) /\ i <= j)
    IN IF Found(c, Types[chosen]) THEN Types[chosen]
       ELSE IF \E t \in Range(Types) : Found(c, t)
       THEN Types[CHOOSE i \in 1 .. 3 : Found(c, Types[i]) /\ \A j \in 1 .. i - 1 : ~Found(c, Types[j])]
       ELSE "none"

\* EmbeddingMintTool.mint with the planner's arguments: nobody passes a jurisdiction.
Mint(name) == AudienceRef("agentic", name, "current", "GLOBAL")

\* run_audience_reasoning, the primary: the brief's own, or one picked and minted.  The set
\* is empty when a human has to look at the brief.
PrimaryFor(b, c, tools) ==
    IF b.audience # NoAudience THEN {b.audience.primary}
    ELSE LET t == PickPrimary(b, c) IN
         IF t = "none" THEN {}
         ELSE IF t # "agentic" THEN {c[t][1]}
         ELSE IF tools.mint = "works" THEN {Mint("primary")}
         ELSE IF c.standard # <<>> THEN {c.standard[1]}
         ELSE IF c.contextual # <<>> THEN {c.contextual[1]}
         ELSE {}

\* _kpi_orientation.
KpiOrientation(b) ==
    LET only(kind) == b.kpis = {kind} IN
    IF b.objective = "REACH" THEN "reach"
    ELSE IF b.objective = "AWARENESS" THEN (IF only("precision") THEN "precision" ELSE "reach")
    ELSE IF only("reach") THEN "reach" ELSE "precision"

\* add_constraints and add_extensions: the first candidate not used, and a lookalike.
FirstFresh(cands, used) ==
    LET fresh == {i \in DOMAIN cands : <<cands[i].type, cands[i].id>> \notin used} IN
    IF fresh = {} THEN <<>> ELSE <<cands[Min(fresh)]>>
AddConstraints(primary, c, used) ==
    FirstFresh(IF primary.type = "standard" THEN c.contextual ELSE c.standard, used)
AddExtensions(c, used, tools) ==
    (IF c.seeds # {} /\ tools.mint = "works" THEN <<Mint("lookalike")>> ELSE <<>>)
    \o FirstFresh(c.standard, used)

\* validate_plan: the only outcome is whether discovery answered.
ValidatePlan(tools) == tools.discovery = "works"

\* build_audience_planner_agent and _extract_tools: an agent has a tool or lacks it, and
\* one it has works or fails.
Toolsets == [mint : {"none", "fails", "works"}, discovery : {"none", "fails", "works"}]

\* run_audience_reasoning: the plans composed, none when a human has to look at the brief.
Reasoned(b, tools) ==
    LET c == ClassifyIntent(b)
        explicit(r) == IF b.audience # NoAudience THEN b.audience[r] ELSE <<>>
        used(primary) == {<<r.type, r.id>> : r \in {primary} \cup
                             UNION {Range(explicit(role)) : role \in Roles}}
        precise == KpiOrientation(b) = "precision" IN
    {AudienceOf(primary,
        explicit("constraints") \o (IF precise THEN AddConstraints(primary, c, used(primary)) ELSE <<>>),
        explicit("extensions") \o (IF precise THEN <<>> ELSE AddExtensions(c, used(primary), tools)),
        explicit("exclusions")) : primary \in PrimaryFor(b, c, tools)}

\* run_audience_planner_step.
Compose ==
    /\ audStage = "planning"
    /\ \E tools \in Toolsets :
         IF Reasoned(brief, tools) = {}
         THEN audStage' = "needs review" /\ UNCHANGED <<audPlan, reachKnown>>
         ELSE /\ audPlan' \in Reasoned(brief, tools) /\ reachKnown' = ValidatePlan(tools)
              /\ audStage' = "planned"
    /\ UNCHANGED <<brief, supports, believed, asked, lost, audEvents>>

--------------------------------------------------------------------------------
(* Degradation.                                                            *)

CapableOf(std, ctx, agentic, on, max) ==
    [standard |-> std, contextual |-> ctx, agentic |-> agentic, on |-> on, max |-> max]
Max3(c, e, x) == [constraints |-> c, extensions |-> e, exclusions |-> x]
\* SellerAudienceCapabilities() and its legacy_default.
Assumed == CapableOf({"current"}, {"current"}, FALSE, {"constraints"}, Max3(3, 0, 0))
LegacyDefault == CapableOf({"current"}, {}, FALSE, {}, Max3(0, 0, 0))

\* _ref_supports_taxonomy, and what _filter_refs asks of a ref.
SupportsTaxonomy(ref, caps) == ref.type # "agentic" => ref.version \in caps[ref.type]
Fits(ref, caps) == (ref.type = "agentic" => caps.agentic) /\ SupportsTaxonomy(ref, caps)

Entry(r, ref) == [role |-> r, ref |-> ref]
Entries(r, refs) == {Entry(r, ref) : ref \in Range(refs)}

\* _filter_refs, _drop_role_unsupported, _trim_to_max: what is kept and what is logged.
FilterRefs(refs, r, caps) ==
    [kept |-> Picked(refs, {i \in DOMAIN refs : Fits(refs[i], caps)}),
     log  |-> {entry \in Entries(r, refs) : ~Fits(entry.ref, caps)}]
DropRoleUnsupported(refs, r) == [kept |-> <<>>, log |-> Entries(r, refs)]
\* Mutant: what is trimmed leaves no entry.
TrimSilently(refs, r, n) == [kept |-> SubSeq(refs, 1, Min({n, Len(refs)})), log |-> {}]
TrimToMax(refs, r, n) ==
    [kept |-> SubSeq(refs, 1, Min({n, Len(refs)})), log |-> Entries(r, SubSeq(refs, n + 1, Len(refs)))]

DegradeRole(refs, r, caps) ==
    IF r \notin caps.on THEN DropRoleUnsupported(refs, r)
    ELSE LET fit == FilterRefs(refs, r, caps)
             trimmed == TrimToMax(fit.kept, r, caps.max[r]) IN
         [kept |-> trimmed.kept, log |-> fit.log \cup trimmed.log]

\* degrade_plan_for_seller; without its primary the plan cannot be fulfilled.
DegradePlan(p, caps) ==
    LET role(r) == DegradeRole(p[r], r, caps) IN
    [fulfilled |-> Fits(p.primary, caps),
     plan |-> AudienceOf(p.primary, role("constraints").kept, role("extensions").kept,
                         role("exclusions").kept),
     log |-> IF Fits(p.primary, caps) THEN UNION {role(r).log : r \in Roles}
             ELSE {Entry("primary", p.primary)}]

\* _entry_role and _entry_is_agentic: agentic refs have a level of their own, exclusions none.
EntryIsAgentic(entry) == entry.ref.type = "agentic"
EntryLevel(b, entry) ==
    IF EntryIsAgentic(entry) THEN b.strict.agentic
    ELSE IF entry.role \in DOMAIN b.strict THEN b.strict[entry.role] ELSE "optional"
\* _strictness_skip_required.
\* Mutant: a required audience counts only if every entry is of one.
SkipOnAll(b, log) == log # {} /\ \A entry \in log : EntryLevel(b, entry) = "required"
SkipRequired(b, log) == \E entry \in log : EntryLevel(b, entry) = "required"

--------------------------------------------------------------------------------
(* Booking with a seller.                                                  *)

Filed(what, p) == [event |-> what, plan |-> p]

\* _book_with_preflight_then_retry up to the first request: discover_capabilities
\* (CapabilityCache) answers with fresh, stale or the legacy capabilities.
Preflight ==
    /\ audStage = "planned"
    /\ believed' \in SellerCaps \cup {LegacyDefault}
    /\ LET degraded == DegradePlan(audPlan, believed') IN
       IF ~degraded.fulfilled \/ SkipRequired(brief, degraded.log)
       THEN /\ audStage' = "incompatible" /\ UNCHANGED <<asked, lost>>
            /\ audEvents' = {Filed("preflight cache", audPlan)}
       ELSE /\ audStage' = "asked" /\ asked' = degraded.plan /\ lost' = degraded.log
            /\ audEvents' = {Filed("preflight cache", audPlan)}
                 \cup (IF degraded.log = {} THEN {} ELSE {Filed("degradation", audPlan)})
    /\ UNCHANGED <<brief, audPlan, reachKnown, supports>>

\* Without a capability client the planner's plan is sent as it is.
BookDirectly ==
    /\ audStage = "planned"
    /\ audStage' = "asked blindly" /\ asked' = audPlan
    /\ UNCHANGED <<brief, audPlan, reachKnown, supports, believed, lost, audEvents>>

\* The seller (external) books what it supports and says of the rest why not.
Unsupported(p, caps) ==
    {[role |-> r, why |-> "role"] : r \in {r \in Roles : p[r] # <<>> /\ r \notin caps.on}}
    \cup {[role |-> r, why |-> "count"] : r \in {r \in caps.on : Len(p[r]) > caps.max[r]}}
    \cup UNION {{[role |-> r, why |-> ref.type] :
                    ref \in {ref \in Range(p[r]) : ~Fits(ref, caps)}} : r \in Roles}
    \cup (IF Fits(p.primary, caps) THEN {} ELSE {[role |-> "primary", why |-> p.primary.type]})

\* synthesize_capabilities_from_unsupported, without a base.  "Not supported" of a ref in
\* a role switches the role off, of the primary its taxonomy; a count is not recognised.
Synthesize(unsupported) ==
    LET off(r) == \E u \in unsupported : u.role = r /\ u.why # "count"
        says(t) == \E u \in unsupported : u.role = "primary" /\ u.why = t IN
    [Assumed EXCEPT !.standard = IF says("standard") THEN {} ELSE @,
                    !.contextual = IF says("contextual") THEN {} ELSE @,
                    !.on = {r \in @ : ~off(r)},
                    !.max = [r \in Roles |-> IF off(r) THEN 0 ELSE @[r]]]

\* _is_audience_plan_unsupported: the error code suffices, with or without a list; any
\* other error is the caller's.
Refusals(unsupported) == IF unsupported = {} THEN {} ELSE {unsupported, {}}

\* _book_with_audience_retry: the first request is answered; if it is refused the plan is
\* degraded once more and sent once more, whatever the strictness.
Answer ==
    /\ audStage \in {"asked", "asked blindly"} /\ supports' \in SellerCaps
    /\ \/ /\ Unsupported(asked, supports') = {} /\ audStage' = "booked"
          /\ UNCHANGED <<asked, lost, audEvents>>
       \/ audStage' = "failed" /\ UNCHANGED <<asked, lost, audEvents>>
       \/ \E told \in Refusals(Unsupported(asked, supports')) :
            LET degraded == DegradePlan(asked, Synthesize(told))
                filed == audEvents \cup {Filed("refusal", asked)}
                entry == IF degraded.log = {} THEN {} ELSE {Filed("degradation", asked)} IN
            IF ~degraded.fulfilled
            THEN audStage' = "incompatible" /\ audEvents' = filed \cup entry /\ UNCHANGED <<asked, lost>>
            ELSE /\ asked' = degraded.plan
                 /\ IF Unsupported(degraded.plan, supports') = {}
                    THEN /\ audStage' = "booked again" /\ audEvents' = filed \cup entry
                         /\ lost' = lost \cup degraded.log
                    ELSE audStage' = "incompatible" /\ audEvents' = filed /\ UNCHANGED lost
    /\ UNCHANGED <<brief, audPlan, reachKnown, believed>>

AudInit ==
    /\ audStage = "brief" /\ brief \in Briefs /\ audPlan = NoAudience /\ reachKnown = FALSE
    /\ supports = LegacyDefault /\ believed = LegacyDefault
    /\ asked = NoAudience /\ lost = {} /\ audEvents = {}
AudNext == IngestBrief \/ Compose \/ Preflight \/ BookDirectly \/ Answer
AudSpec == AudInit /\ [][AudNext]_audVars

--------------------------------------------------------------------------------
(* Properties.                                                             *)

\* Type invariant of the audience pipeline.
AudTypeOK ==
    /\ audStage \in {"brief", "rejected", "planning", "needs review", "planned", "asked",
                     "asked blindly", "booked", "booked again", "failed", "incompatible"}
    /\ {supports, believed} \subseteq SellerCaps \cup {LegacyDefault} /\ reachKnown \in BOOLEAN
    /\ audPlan # NoAudience => IsPlan(audPlan)
    /\ asked # NoAudience => IsPlan(asked)
    /\ \A entry \in lost : entry.role \in Roles /\ entry.ref.type \in Range(Types)

IsBooked == audStage \in {"booked", "booked again"}

\* Nothing the advertiser asked for is lost without a trace: of a booked deal, the
\* primary is the brief's, and every other audience of the brief was either booked in its
\* role or is in a degradation log; and what was booked besides was minted.
NothingLostSilently ==
    IsBooked /\ brief.audience # NoAudience =>
        /\ asked.primary = brief.audience.primary
        /\ \A r \in Roles :
             /\ \A ref \in Range(brief.audience[r]) : ref \in Range(asked[r]) \/ Entry(r, ref) \in lost
             /\ Range(asked[r]) \subseteq Range(brief.audience[r]) \cup {Mint("lookalike")}

\* What a seller is asked after a pre-flight, it supports as far as is known, and every
\* audience the advertiser requires is in it.
FirstRequestFits ==
    audStage = "asked" => /\ Unsupported(asked, believed) = {}
                          /\ \A entry \in lost : EntryLevel(brief, entry) # "required"

\* A booked deal has lost nothing that the advertiser requires.
StrictnessHolds == IsBooked => \A entry \in lost : EntryLevel(brief, entry) # "required"

\* Every event about a brief is filed under the planner's plan, where a reviewer looks.
FiledUnderThePlan == \A event \in audEvents : event.plan = audPlan

\* No plan is sent with one consent for every jurisdiction.
NoGlobalAgentic == asked # NoAudience => \A ref \in Refs(asked) : ~GlobalAgentic(ref)
================================================================================
