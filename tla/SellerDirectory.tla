---------------------------- MODULE SellerDirectory ----------------------------
(***************************************************************************)
(* The registry clients (RegistryClient and AampRegistryClient), one of    *)
(* which the settings choose, and the SellerCache in which they keep       *)
(* listings and agent cards: a lifetime counted from the arrival, entries  *)
(* deleted when they are found too old, and failures never remembered.     *)
(*                                                                         *)
(* Abstractions.  One seller and one capability filter.  A card or a       *)
(* listing is the time at which the registry gave it.                      *)
(***************************************************************************)
EXTENDS Integers

CONSTANTS
    Lookers,        \* concurrent calls of a registry client
    RegistryTTL,    \* cache_ttl_seconds
    AnswerDelay,    \* bound: ticks from a request to its answer (timeout)
    DirHorizon      \* bound: the clock's last tick

ASSUME DirectoryAssumption == {RegistryTTL, AnswerDelay, DirHorizon} \subseteq Nat

\* What is kept: the filtered listing, a card by URL, a card by id, and under its bare
\* id each card of a listing, which nothing reads.
Shelves == {"list", "url", "id", "bareId"}
Asked   == {"list", "url", "id", "verify", "register"}
NoTime  == -1

VARIABLES
    backend,    \* the client in use
    dirClock,   \* time.monotonic()
    shelf,      \* SellerCache: when each thing was stored, and given (history)
    lookup      \* the call under way of each caller

dirVars == <<backend, dirClock, shelf, lookup>>

NoLookup == [pc |-> "idle"]
Absent   == [at |-> NoTime, given |-> NoTime]

\* create_registry_client: the settings choose the client.
CreateRegistryClient == {"iab", "aamp"}

DirInit ==
    /\ backend \in CreateRegistryClient /\ dirClock = 0
    /\ shelf = [k \in Shelves |-> Absent]
    /\ lookup = [c \in Lookers |-> NoLookup]

Look(c, r) == lookup' = [lookup EXCEPT ![c] = r] /\ UNCHANGED backend

DirTick ==
    /\ dirClock < DirHorizon
    /\ \A c \in Lookers :
         lookup[c].pc \in {"sent", "answered"} => dirClock < lookup[c].start + AnswerDelay
    /\ dirClock' = dirClock + 1 /\ UNCHANGED <<backend, shelf, lookup>>

--------------------------------------------------------------------------------
(* What a client makes of an answer: the registry, or the seller for a     *)
(* card by URL, may be out of reach, answer with an error, with a record   *)
(* that is not valid, or with JSON of another shape.                       *)

RegistryAnswers == {"unreachable", "status", "invalid", "odd", "good"}

\* RegistryClient: JSON of another shape escapes its handlers.
DiscoverSellers(a) ==
    CASE a = "good" -> "listing" [] a = "odd" -> "raised" [] OTHER -> "none"
FetchAgentCard(a) ==
    CASE a = "good" -> "card" [] a = "odd" -> "raised" [] OTHER -> "none"
RegisterBuyer(a) == IF a \in {"unreachable", "status"} THEN "none" ELSE "registered"
VerifyAgent(a) ==
    CASE a = "good" -> "verified" [] a = "odd" -> "raised" [] OTHER -> "none"

\* AampRegistryClient: the library raises one of the errors it handles.  The filter is
\* applied to the whole listing here, and a seller is verified when the listing has an
\* agent of its URL.
AampDiscoverSellers(a) == IF a = "good" THEN "listing" ELSE "none"
FetchCard(a) == IF a = "good" THEN "card" ELSE "none"
AampFetchAgentCard(a) == IF a = "good" THEN "card" ELSE "none"
AampRegisterBuyer(a) == IF a = "good" THEN "registered" ELSE "none"
AampVerifyAgent(a) == IF a = "good" THEN "verified" ELSE "none"

Outcome(k, a) ==
    CASE k = "list"     -> IF backend = "iab" THEN DiscoverSellers(a) ELSE AampDiscoverSellers(a)
      [] k = "url"      -> IF backend = "iab" THEN FetchAgentCard(a) ELSE AampFetchAgentCard(a)
      [] k = "id"       -> FetchCard(a)
      [] k = "register" -> IF backend = "iab" THEN RegisterBuyer(a) ELSE AampRegisterBuyer(a)
      [] OTHER          -> IF backend = "iab" THEN VerifyAgent(a) ELSE AampVerifyAgent(a)

\* services.discover_sellers: an exception becomes a payload that says so.
DiscoveryPayload(outcome) == IF outcome = "raised" THEN "error" ELSE outcome

--------------------------------------------------------------------------------
\* SellerCache.get: an entry is returned, or deleted when it is too old; get_list
\* does the same for listings.
\* Mutant: an entry is served for as long as it is there.
ServedForEver(e) == e # Absent
Served(e) == e # Absent /\ dirClock - e.at <= RegistryTTL
GetCard(k) == [hit |-> Served(shelf[k]), left |-> IF Served(shelf[k]) THEN shelf[k] ELSE Absent]
GetList == [hit |-> Served(shelf["list"]),
            left |-> IF Served(shelf["list"]) THEN shelf["list"] ELSE Absent]

\* A lookup is answered from the cache, or requested; only the AAMP client looks up by
\* id.
AskCached(c, k) ==
    LET got == IF k = "list" THEN GetList ELSE GetCard(k) IN
    /\ lookup[c] = NoLookup /\ k \in {"list", "url", "id"} /\ (k = "id" => backend = "aamp")
    /\ shelf' = [shelf EXCEPT ![k] = got.left]
    /\ Look(c, IF got.hit THEN [pc |-> "done", said |-> "hit", given |-> shelf[k].given,
                                at |-> dirClock]
               ELSE [pc |-> "sent", of |-> k, start |-> dirClock])
    /\ UNCHANGED dirClock

\* verify_agent and register_buyer always ask.
AskAlways(c, k) ==
    /\ lookup[c] = NoLookup /\ k \in {"verify", "register"}
    /\ Look(c, [pc |-> "sent", of |-> k, start |-> dirClock])
    /\ UNCHANGED <<dirClock, shelf>>

\* The registry or the seller answers (external).
DirAnswers(c) ==
    /\ lookup[c].pc = "sent"
    /\ Look(c, [pc |-> "answered", of |-> lookup[c].of, start |-> lookup[c].start,
                given |-> dirClock])
    /\ UNCHANGED <<dirClock, shelf>>

\* A listing or a card is kept (put, put_list), a listing's cards one by one as well;
\* a failure is not.
PutCards(k, said) ==
    CASE said = "listing" -> {"list", "bareId"} [] said = "card" -> {k} [] OTHER -> {}
TakeAnswer(c) ==
    LET k == lookup[c] IN
    /\ k.pc = "answered"
    /\ \E said \in {Outcome(k.of, a) : a \in RegistryAnswers} :
         /\ shelf' = [s \in Shelves |-> IF s \in PutCards(k.of, said)
                                        THEN [at |-> dirClock, given |-> k.given] ELSE shelf[s]]
         /\ Look(c, [pc |-> "done", said |-> DiscoveryPayload(said), given |-> k.given,
                     at |-> dirClock])
    /\ UNCHANGED dirClock

DirReturn(c) ==
    /\ lookup[c].pc = "done" /\ Look(c, NoLookup)
    /\ UNCHANGED <<dirClock, shelf>>

DirNext ==
    \/ DirTick
    \/ \E c \in Lookers :
         \/ \E k \in Asked : AskCached(c, k) \/ AskAlways(c, k)
         \/ DirAnswers(c) \/ TakeAnswer(c) \/ DirReturn(c)

DirSpec == DirInit /\ [][DirNext]_dirVars

--------------------------------------------------------------------------------
(* Properties.                                                             *)

Outcomes == {"hit", "listing", "card", "none", "registered", "verified", "error"}

\* Type invariant of the registry lookups.
DirTypeOK ==
    /\ backend \in {"iab", "aamp"} /\ dirClock \in 0 .. DirHorizon
    /\ shelf \in [Shelves -> {Absent} \cup [at : 0 .. DirHorizon, given : 0 .. DirHorizon]]
    /\ lookup \in [Lookers ->
         {NoLookup} \cup [pc : {"sent"}, of : Asked, start : 0 .. DirHorizon]
         \cup [pc : {"answered"}, of : Asked, start : 0 .. DirHorizon,
               given : 0 .. DirHorizon]
         \cup [pc : {"done"}, said : Outcomes, given : 0 .. DirHorizon, at : 0 .. DirHorizon]]

\* A seller or a card that a registry client returns was given by the registry no
\* longer ago than the cache's lifetime and one answer's delay.
CardsAreRecent ==
    \A c \in Lookers : lookup[c].pc = "done" =>
        lookup[c].at - lookup[c].given <= RegistryTTL + AnswerDelay
================================================================================
