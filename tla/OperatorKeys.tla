------------------------------ MODULE OperatorKeys ------------------------------
(***************************************************************************)
(* The operator keys: OperatorKeyService over the api_keys table, as the   *)
(* REST endpoints and MCP tools of a server and the command line use it    *)
(* from processes of their own.  Minting checks its label and inserts in   *)
(* one transaction; validating and revoking read the row and later write   *)
(* all of its columns.                                                     *)
(*                                                                         *)
(* Abstractions.  A key is its id; hashing finds the row of the key that   *)
(* was presented.  Every row has the operator role.  Handlers have no      *)
(* await between reading and writing, so a process is in one call at a     *)
(* time.                                                                   *)
(***************************************************************************)
EXTENDS Integers, FiniteSets

CONSTANTS
    Keys,           \* keys that may be minted
    Labels,         \* their labels
    Servers, Clis,  \* the processes: servers, and runs of the command line
    Mounted,        \* the servers whose MCP tools are reachable over HTTP
    LegacyKey,      \* API_KEY of the environment
    NoKey,          \* no key is presented
    MaxUses         \* bound: validations of one key

ASSUME KeysAssumption ==
    /\ LegacyKey \notin Keys /\ NoKey \notin Keys \cup {LegacyKey}
    /\ MaxUses \in Nat /\ Servers \cap Clis = {} /\ Mounted \subseteq Servers

VARIABLES
    keyRow,     \* api_keys
    keyCall,    \* the call under way in each process
    revived     \* history: keys whose revocation was overwritten

keyVars == <<keyRow, keyCall, revived>>

NoRow     == [label |-> "none"]
Unbusy    == [pc |-> "idle"]
Processes == Servers \cup Clis

KeysInit ==
    /\ keyRow = [k \in Keys |-> NoRow]
    /\ keyCall = [p \in Processes |-> Unbusy] /\ revived = {}

\* The rows of the store, and the records of the service.
GetByHash(k) == IF k \in Keys THEN keyRow[k] ELSE NoRow
GetById(k) == keyRow[k]
ListAll == {k \in Keys : keyRow[k] # NoRow}
CountOperatorKeys == Cardinality(ListAll)
ToInfo(k) == [key |-> k, label |-> keyRow[k].label,
              active |-> ~keyRow[k].revoked /\ ~keyRow[k].expired]
ListKeys == {ToInfo(k) : k \in ListAll}
ListOperatorKeys == {info \in ListKeys : info.active}
ActiveKeys == {info.key : info \in ListOperatorKeys}

Becomes(p, r) == keyCall' = [keyCall EXCEPT ![p] = r]
Reply(p, what) == Becomes(p, [pc |-> "replied", with |-> what])

\* update writes every column as the record has it, but the expiry, which nothing
\* changes, and which passes by itself.
Update(k, r) == keyRow' = [keyRow EXCEPT ![k] = [r EXCEPT !.expired = keyRow[k].expired]]

\* The row's expires_at passes.
KeyExpires(k) ==
    /\ k \in ActiveKeys /\ keyRow' = [keyRow EXCEPT ![k].expired = TRUE]
    /\ UNCHANGED <<keyCall, revived>>

--------------------------------------------------------------------------------
(* Who may call.                                                           *)

\* _classify_transport: how a call of an MCP tool came in.
ClassifyTransport == {"http", "in_process", "stdio", "unknown"}

\* _deny_unless_operator: a call over HTTP needs a key, one within the process none,
\* one over stdio none unless the tools are mounted over HTTP as well.
DenyUnlessOperator(p, transport) ==
    CASE transport = "unknown"    -> "denied"
      [] transport = "in_process" -> "trusted"
      [] transport = "stdio"      -> IF p \in Mounted THEN "denied" ELSE "trusted"
      [] OTHER                    -> "asked"

\* An MCP tool is called; require_operator_key lets a REST endpoint in like a call
\* over HTTP.  The command line is trusted.
CallTool(p) ==
    /\ keyCall[p] = Unbusy /\ p \in Servers
    /\ \E transport \in ClassifyTransport :
         LET verdict == DenyUnlessOperator(p, transport) IN
         CASE verdict = "denied"  -> Reply(p, "denied")
           [] verdict = "trusted" -> Becomes(p, [pc |-> "allowed"])
           [] verdict = "asked"   -> Becomes(p, [pc |-> "asked"])
    /\ UNCHANGED <<keyRow, revived>>

RunCommand(p) ==
    keyCall[p] = Unbusy /\ p \in Clis /\ Becomes(p, [pc |-> "allowed"])
    /\ UNCHANGED <<keyRow, revived>>

\* require_operator_key: a call without a key is refused.  validate_operator_credential
\* reads first whether any key was ever minted.
RequireOperatorKey(p) ==
    /\ keyCall[p].pc = "asked"
    /\ \E k \in Keys \cup {LegacyKey, NoKey} :
         IF k = NoKey THEN Reply(p, "denied")
         ELSE Becomes(p, [pc |-> "validate", key |-> k, anyMinted |-> CountOperatorKeys > 0])
    /\ UNCHANGED <<keyRow, revived>>

\* validate_key: the row of the key presented is read; a revoked or an expired one is
\* refused.
ValidateKey(k) ==
    LET r == GetByHash(k) IN
    CASE r = NoRow            -> "unknown"
      [] r # NoRow /\ (r.revoked \/ r.expired) -> "invalid"
      [] OTHER                -> "valid"

\* validate_operator_credential: the legacy key counts until a key was minted.
ValidateCredential(p) ==
    LET k == keyCall[p].key  verdict == ValidateKey(k) IN
    /\ keyCall[p].pc = "validate"
    /\ CASE verdict = "valid"   -> /\ keyRow[k].uses < MaxUses
                                   /\ Becomes(p, [pc |-> "use", key |-> k, row |-> keyRow[k]])
         [] verdict = "invalid" -> Reply(p, "denied")
         [] verdict = "unknown" -> IF k = LegacyKey /\ ~keyCall[p].anyMinted
                                   THEN Becomes(p, [pc |-> "allowed"]) ELSE Reply(p, "denied")
    /\ UNCHANGED <<keyRow, revived>>

\* ... and the use is counted.
RecordUse(p) ==
    LET k == keyCall[p].key  r == keyCall[p].row IN
    /\ keyCall[p].pc = "use"
    /\ Update(k, [r EXCEPT !.uses = @ + 1])
    /\ revived' = IF keyRow[k].revoked THEN revived \cup {k} ELSE revived
    /\ Becomes(p, [pc |-> "allowed"])

--------------------------------------------------------------------------------
(* What an operator does.                                                  *)

\* Mutant: only the database's own uniqueness of key ids guards the insert.
LabelUnchecked(l) == TRUE
LabelFree(l) == \A k \in ActiveKeys : keyRow[k].label # l

\* insert_if_label_free looks and inserts in one transaction.
InsertIfLabelFree(k, l) ==
    IF LabelFree(l)
    THEN keyRow' = [keyRow EXCEPT ![k] = [label |-> l, revoked |-> FALSE, expired |-> FALSE,
                                          uses |-> 0]]
    ELSE UNCHANGED keyRow

\* create_operator_key: a label that is taken is refused.
CreateOperatorKey(p) ==
    /\ keyCall[p].pc = "allowed"
    /\ \E k \in Keys \ ListAll, l \in Labels :
         /\ InsertIfLabelFree(k, l)
         /\ Reply(p, IF LabelFree(l) THEN "minted" ELSE "taken")
    /\ UNCHANGED revived

\* delete_operator_key by id or by label: the key must be active, and a label must
\* belong to one active key only.
Labelled(k) == {j \in ActiveKeys : keyRow[j].label = keyRow[k].label}
DeleteOperatorKey(p) ==
    /\ keyCall[p].pc = "allowed"
    /\ \E k \in ListAll, byLabel \in BOOLEAN :
         IF k \in ActiveKeys /\ (byLabel => Labelled(k) = {k})
         THEN Becomes(p, [pc |-> "delete", key |-> k]) ELSE Reply(p, "refused")
    /\ UNCHANGED <<keyRow, revived>>

\* revoke_key, also of a key that is revoked or expired: the row is read ...
RevokeKey(p) ==
    /\ \E k \in ListAll : /\ \/ keyCall[p].pc = "allowed" /\ p \in Servers
                             \/ keyCall[p].pc = "delete" /\ keyCall[p].key = k
                          /\ Becomes(p, [pc |-> "revoke", key |-> k, row |-> GetById(k)])
    /\ UNCHANGED <<keyRow, revived>>

\* ... and written back as revoked.
WriteRevoked(p) ==
    /\ keyCall[p].pc = "revoke"
    /\ Update(keyCall[p].key, [keyCall[p].row EXCEPT !.revoked = TRUE])
    /\ Reply(p, "revoked") /\ UNCHANGED revived

\* list_keys, get_key_info and list-operator-keys answer with what the rows say, and
\* get_setup_status with whether a key is active.
SetupStatus == [operatorKey |-> ListOperatorKeys # {}, anyKey |-> ListKeys # {}]
Inspect(p) ==
    /\ keyCall[p].pc = "allowed" /\ Becomes(p, [pc |-> "inspected", status |-> SetupStatus])
    /\ UNCHANGED <<keyRow, revived>>

Replied(p) ==
    /\ keyCall[p].pc \in {"replied", "inspected"} /\ Becomes(p, Unbusy)
    /\ UNCHANGED <<keyRow, revived>>

KeysNext ==
    \/ \E k \in Keys : KeyExpires(k)
    \/ \E p \in Processes :
         \/ CallTool(p) \/ RunCommand(p) \/ RequireOperatorKey(p) \/ ValidateCredential(p)
         \/ RecordUse(p) \/ CreateOperatorKey(p) \/ DeleteOperatorKey(p) \/ RevokeKey(p)
         \/ WriteRevoked(p) \/ Inspect(p) \/ Replied(p)

KeysSpec == KeysInit /\ [][KeysNext]_keyVars

--------------------------------------------------------------------------------
(* Properties.                                                             *)

KeyRows == [label : Labels, revoked : BOOLEAN, expired : BOOLEAN, uses : 0 .. MaxUses]

\* Type invariant of the operator keys.
KeysTypeOK ==
    /\ keyRow \in [Keys -> {NoRow} \cup KeyRows]
    /\ keyCall \in [Processes ->
         [pc : {"idle", "asked", "allowed"}]
         \cup [pc : {"validate"}, key : Keys \cup {LegacyKey}, anyMinted : BOOLEAN]
         \cup [pc : {"use", "revoke"}, key : Keys, row : KeyRows]
         \cup [pc : {"delete"}, key : Keys]
         \cup [pc : {"inspected"}, status : [operatorKey : BOOLEAN, anyKey : BOOLEAN]]
         \cup [pc : {"replied"}, with : {"denied", "minted", "taken", "refused", "revoked"}]]
    /\ revived \subseteq Keys

\* Two active keys never share a label, unless a validation that had read one of them
\* before it was revoked wrote the whole row back afterwards.
OneActivePerLabel ==
    \A j, k \in ActiveKeys :
        j # k /\ keyRow[j].label = keyRow[k].label => {j, k} \cap revived # {}
================================================================================
