---------------------------- MODULE CapabilityCache ----------------------------
(***************************************************************************)
(* CapabilityClient: what the buyer remembers of one seller's audience     *)
(* capabilities.  An entry's lifetime runs from the request, is set by the *)
(* seller's max-age and cut at a ceiling; a failed discovery is remembered *)
(* too, as the legacy default.                                             *)
(*                                                                         *)
(* Abstractions.  One seller: its normalized endpoint is the cache key.    *)
(* Capabilities are the seller's policy or the legacy default, which is    *)
(* told apart here by its reason (a card without the block, or an error);  *)
(* with them, when and with which max-age they were given (history).       *)
(***************************************************************************)
EXTENDS Integers

CONSTANTS
    Discoverers,    \* concurrent calls of discover_capabilities
    Ceiling,        \* cache_ttl_seconds
    MaxAges,        \* values of max-age that the seller sends
    CapHorizon      \* bound: the clock's last tick

ASSUME CapabilityAssumption == Ceiling \in Nat /\ MaxAges \subseteq Nat /\ CapHorizon \in Nat

NoHeader == -1

VARIABLES
    capClock,   \* the client's clock
    policy,     \* _cache of the seller
    discovery   \* the call under way of each caller

capVars == <<capClock, policy, discovery>>

NoDiscovery == [pc |-> "idle"]
NoPolicy    == [caps |-> "none"]

CapInit ==
    /\ capClock = 0 /\ policy = NoPolicy
    /\ discovery = [c \in Discoverers |-> NoDiscovery]

\* _parse_max_age.
ParseMaxAge(header) == IF header.readable THEN header.seconds ELSE NoHeader

\* What an answer amounts to: only a usable card without the block is a legacy seller,
\* any other failure is the legacy default too, but for an error.
Capabilities(body) ==
    CASE body = "policy"  -> "policy"
      [] body = "noBlock" -> "legacy"
      [] OTHER            -> "error"
\* The header is read from usable cards only.
MaxAgeFor(body, header) == IF body \in {"policy", "noBlock"} THEN ParseMaxAge(header) ELSE NoHeader

CapTick ==
    /\ capClock < CapHorizon /\ capClock' = capClock + 1
    /\ UNCHANGED <<policy, discovery>>

\* discover_capabilities: an entry is served until it expires.
Cached == policy # NoPolicy /\ policy.expires > capClock
DiscoverCapabilities(c) ==
    /\ discovery[c] = NoDiscovery
    /\ discovery' = [discovery EXCEPT ![c] =
          IF Cached THEN [pc |-> "hit", given |-> policy.given, age |-> policy.age, at |-> capClock]
                    ELSE [pc |-> "sent", start |-> capClock]]
    /\ UNCHANGED <<capClock, policy>>

\* The request fails, or the seller answers with an error, with something that is not
\* JSON, or with an agent card that has no capabilities, unreadable ones, or its policy
\* (external); Cache-Control holds a max-age or none that can be read.
CardAnswers == {"unreachable", "status", "notJson", "noBlock", "badBlock", "policy"}
SellerAnswersCard(c) ==
    /\ discovery[c].pc = "sent"
    /\ \E body \in CardAnswers, header \in [readable : BOOLEAN, seconds : MaxAges] :
         discovery' = [discovery EXCEPT ![c] =
             [pc |-> "answered", start |-> @.start, caps |-> Capabilities(body),
              age |-> MaxAgeFor(body, header), given |-> capClock]]
    /\ UNCHANGED <<capClock, policy>>

\* Mutant: the seller's max-age is taken as it is.
LifetimeUncut(age) == IF age = NoHeader THEN Ceiling ELSE age
Lifetime(age) == IF age # NoHeader /\ age < Ceiling THEN age ELSE Ceiling

\* _store: the lifetime runs from the request; a missing max-age is the ceiling.
\* Whatever the entry holds by now is replaced.
Store(c) ==
    LET k == discovery[c] IN
    /\ k.pc = "answered"
    /\ policy' = [caps |-> k.caps, given |-> k.given, age |-> k.age,
                  expires |-> k.start + Lifetime(k.age)]
    /\ discovery' = [discovery EXCEPT ![c] = NoDiscovery]
    /\ UNCHANGED capClock

UsesHit(c) ==
    /\ discovery[c].pc = "hit" /\ discovery' = [discovery EXCEPT ![c] = NoDiscovery]
    /\ UNCHANGED <<capClock, policy>>

\* invalidate, for one seller or for all.
Invalidate == policy # NoPolicy /\ policy' = NoPolicy /\ UNCHANGED <<capClock, discovery>>

CapNext ==
    \/ CapTick \/ Invalidate
    \/ \E c \in Discoverers :
         DiscoverCapabilities(c) \/ SellerAnswersCard(c) \/ Store(c) \/ UsesHit(c)

CapSpec == CapInit /\ [][CapNext]_capVars

--------------------------------------------------------------------------------
(* Properties.                                                             *)

\* Type invariant of the capability cache.
CapTypeOK ==
    /\ capClock \in 0 .. CapHorizon
    /\ \/ policy = NoPolicy
       \/ policy \in [caps : {"policy", "legacy", "error"}, given : 0 .. CapHorizon,
                      age : MaxAges \cup {NoHeader}, expires : Nat]
    /\ discovery \in [Discoverers ->
         {NoDiscovery} \cup [pc : {"sent"}, start : 0 .. CapHorizon]
         \cup [pc : {"answered"}, start : 0 .. CapHorizon, given : 0 .. CapHorizon,
               caps : {"policy", "legacy", "error"}, age : MaxAges \cup {NoHeader}]
         \cup [pc : {"hit"}, given : 0 .. CapHorizon, age : MaxAges \cup {NoHeader},
               at : 0 .. CapHorizon]]

\* The cache never answers with capabilities older than the ceiling, nor than the
\* max-age that their seller set, whatever overlapping discoveries stored and however
\* long their answers took.
HitsAreFresh ==
    \A c \in Discoverers : discovery[c].pc = "hit" =>
        LET age == discovery[c].at - discovery[c].given IN
        /\ age < Ceiling
        /\ discovery[c].age # NoHeader => age < discovery[c].age

\* The module's comment (capability_client.py:33): a race of two discoveries is
\* harmless.  A policy that the seller gave is not displaced, before its time is over,
\* by a discovery that failed.
OverlapIsHarmless ==
    [][policy.caps = "policy" /\ policy.expires > capClock =>
         policy'.caps # "error"]_capVars
================================================================================
