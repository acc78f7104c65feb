------------------------------- MODULE Desk_proofs -------------------------------
(***************************************************************************)
(* What holds of what the operator's desk keeps, for any number of         *)
(* processes, keys, emitters, sellers and kills: first of each component,  *)
(* then of MC_Desk, in which each is a part.                               *)
(***************************************************************************)
EXTENDS MC_Desk, FiniteData_proofs, FiniteSetTheorems, SequenceTheorems, TLAPS

--------------------------------------------------------------------------------
(* OperatorKeys.                                                           *)

\* The strengthening: a call that is about to write a row back read it from the
\* same row, so with the label that the row still has, and a use that is about to
\* be counted was read from a row that was not revoked.
CopiesAreOwn ==
    \A p \in Processes : keyCall[p].pc \in {"use", "revoke"} =>
        LET k == keyCall[p].key  r == keyCall[p].row IN
        /\ keyRow[k] \in KeyRows /\ keyRow[k].label = r.label
        /\ keyCall[p].pc = "use" => ~r.revoked /\ r.uses < MaxUses
KeysInv == KeysTypeOK /\ CopiesAreOwn /\ OneActivePerLabel

\* A row that exists is a record of all four columns.
LEMMA RowsAreRecords ==
  ASSUME KeysTypeOK, NEW k \in Keys
  PROVE  /\ k \in ListAll <=> keyRow[k] \in KeyRows
         /\ k \notin ListAll <=> keyRow[k] = NoRow
<1>1. NoRow \notin KeyRows
  <2>1. DOMAIN NoRow = {"label"}
    BY DEF NoRow
  <2>2. \A r \in KeyRows : "revoked" \in DOMAIN r
    BY DEF KeyRows
  <2>. QED
    BY <2>1, <2>2
<1>. QED
  BY <1>1 DEF KeysTypeOK, ListAll

\* The keys that list_operator_keys returns, told from the rows.
LEMMA ActiveRows ==
  ActiveKeys = {k \in Keys : keyRow[k] # NoRow /\ ~keyRow[k].revoked /\ ~keyRow[k].expired}
<1>1. \A k : ToInfo(k).key = k
  BY DEF ToInfo
<1>2. \A k : ToInfo(k).active = (~keyRow[k].revoked /\ ~keyRow[k].expired)
  BY DEF ToInfo
<1>3. ASSUME NEW k \in ActiveKeys PROVE k \in ListAll /\ ToInfo(k).active
  <2>1. PICK info \in ListOperatorKeys : info.key = k
    BY <1>3 DEF ActiveKeys
  <2>2. PICK j \in ListAll : info = ToInfo(j)
    BY DEF ListOperatorKeys, ListKeys
  <2>. QED
    BY <1>1, <2>1, <2>2 DEF ListOperatorKeys
<1>4. ASSUME NEW k \in ListAll, ToInfo(k).active PROVE k \in ActiveKeys
  <2>1. ToInfo(k) \in ListOperatorKeys
    BY <1>4 DEF ListOperatorKeys, ListKeys
  <2>. QED
    BY <1>1, <2>1 DEF ActiveKeys
<1>. QED
  BY <1>2, <1>3, <1>4 DEF ListAll

\* The initial states: no key.
LEMMA KeysInitOK == KeysInit => KeysInv
<1> SUFFICES ASSUME KeysInit PROVE KeysInv
  OBVIOUS
<1>1. KeysTypeOK
  BY DEF KeysInit, KeysTypeOK, Unbusy
<1>2. CopiesAreOwn
  BY DEF KeysInit, CopiesAreOwn, Unbusy
<1>3. OneActivePerLabel
  BY ActiveRows DEF KeysInit, OneActivePerLabel
<1>. QED
  BY <1>1, <1>2, <1>3 DEF KeysInv

\* What counting a use does to the rows: the row of the key has the label it had, and is
\* not revoked.
LEMMA UseWritesBack ==
  ASSUME KeysTypeOK, CopiesAreOwn, NEW p \in Processes, RecordUse(p)
  PROVE  LET k == keyCall[p].key IN
         /\ k \in Keys /\ keyRow[k] \in KeyRows /\ keyRow'[k] \in KeyRows
         /\ keyRow'[k].label = keyRow[k].label
         /\ ~keyRow'[k].revoked /\ keyRow'[k].expired = keyRow[k].expired
         /\ \A j \in Keys : j # k => keyRow'[j] = keyRow[j]
         /\ keyRow' \in [Keys -> {NoRow} \cup KeyRows]
<1> DEFINE k == keyCall[p].key  r == keyCall[p].row
           w == [[r EXCEPT !.uses = @ + 1] EXCEPT !.expired = keyRow[k].expired]
<1>1. /\ k \in Keys /\ r \in KeyRows /\ keyRow[k] \in KeyRows /\ ~r.revoked
      /\ r.uses < MaxUses /\ r.label = keyRow[k].label
  BY DEF RecordUse, KeysTypeOK, CopiesAreOwn
<1>2. w \in KeyRows /\ w.label = r.label /\ ~w.revoked /\ w.expired = keyRow[k].expired
  <2>1. r.uses + 1 \in 0 .. MaxUses /\ keyRow[k].expired \in BOOLEAN
    BY <1>1, KeysAssumption DEF KeyRows
  <2>. QED
    BY <1>1, <2>1 DEF KeyRows
<1>3. keyRow' = [keyRow EXCEPT ![k] = w]
  BY DEF RecordUse, Update
<1>. QED
  BY <1>1, <1>2, <1>3 DEF KeysTypeOK

\* What a revocation does to the rows: the row of the key has the label it had, and is
\* revoked.
LEMMA RevocationWritesBack ==
  ASSUME KeysTypeOK, CopiesAreOwn, NEW p \in Processes, WriteRevoked(p)
  PROVE  LET k == keyCall[p].key IN
         /\ k \in Keys /\ keyRow[k] \in KeyRows /\ keyRow'[k] \in KeyRows
         /\ keyRow'[k].label = keyRow[k].label /\ keyRow'[k].revoked
         /\ \A j \in Keys : j # k => keyRow'[j] = keyRow[j]
         /\ keyRow' \in [Keys -> {NoRow} \cup KeyRows]
<1> DEFINE k == keyCall[p].key  r == keyCall[p].row
           w == [[r EXCEPT !.revoked = TRUE] EXCEPT !.expired = keyRow[k].expired]
<1>1. k \in Keys /\ r \in KeyRows /\ keyRow[k] \in KeyRows /\ r.label = keyRow[k].label
  BY DEF WriteRevoked, KeysTypeOK, CopiesAreOwn
<1>2. w \in KeyRows /\ w.label = r.label /\ w.revoked
  BY <1>1 DEF KeyRows
<1>3. keyRow' = [keyRow EXCEPT ![k] = w]
  BY DEF WriteRevoked, Update
<1>. QED
  BY <1>1, <1>2, <1>3 DEF KeysTypeOK

\* Every step keeps the types.
LEMMA KeysTypeStep == KeysInv /\ [KeysNext]_keyVars => KeysTypeOK'
<1> SUFFICES ASSUME KeysInv, [KeysNext]_keyVars PROVE KeysTypeOK'
  OBVIOUS
<1>. KeysTypeOK /\ CopiesAreOwn
  BY DEF KeysInv
<1>1. ASSUME NEW k \in Keys, KeyExpires(k) PROVE KeysTypeOK'
  <2>1. keyRow[k] \in KeyRows
    BY <1>1, ActiveRows, RowsAreRecords DEF KeyExpires, ListAll
  <2>2. [keyRow[k] EXCEPT !.expired = TRUE] \in KeyRows
    BY <2>1 DEF KeyRows
  <2>. QED
    BY <1>1, <2>2 DEF KeyExpires, KeysTypeOK
<1>2. ASSUME NEW p \in Processes, CallTool(p) PROVE KeysTypeOK'
  <2>1. PICK transport \in ClassifyTransport :
          LET verdict == DenyUnlessOperator(p, transport) IN
          CASE verdict = "denied"  -> Reply(p, "denied")
            [] verdict = "trusted" -> Becomes(p, [pc |-> "allowed"])
            [] verdict = "asked"   -> Becomes(p, [pc |-> "asked"])
    BY <1>2 DEF CallTool
  <2>2. DenyUnlessOperator(p, transport) \in {"denied", "trusted", "asked"}
    BY DEF DenyUnlessOperator, ClassifyTransport
  <2>3. \/ Becomes(p, [pc |-> "replied", with |-> "denied"])
        \/ Becomes(p, [pc |-> "allowed"]) \/ Becomes(p, [pc |-> "asked"])
    BY <2>1, <2>2 DEF Reply
  <2>. QED
    BY <1>2, <2>3 DEF CallTool, KeysTypeOK, Becomes
<1>3. ASSUME NEW p \in Processes, RunCommand(p) PROVE KeysTypeOK'
  BY <1>3 DEF RunCommand, KeysTypeOK, Becomes
<1>4. ASSUME NEW p \in Processes, RequireOperatorKey(p) PROVE KeysTypeOK'
  <2>1. PICK k \in Keys \cup {LegacyKey, NoKey} :
          IF k = NoKey THEN Reply(p, "denied")
          ELSE Becomes(p, [pc |-> "validate", key |-> k, anyMinted |-> CountOperatorKeys > 0])
    BY <1>4 DEF RequireOperatorKey
  <2>2. (CountOperatorKeys > 0) \in BOOLEAN
    OBVIOUS
  <2>3. \/ Becomes(p, [pc |-> "replied", with |-> "denied"])
        \/ /\ k \in Keys \cup {LegacyKey}
           /\ \E b \in BOOLEAN : Becomes(p, [pc |-> "validate", key |-> k, anyMinted |-> b])
    BY <2>1, <2>2 DEF Reply
  <2>. QED
    BY <1>4, <2>3 DEF RequireOperatorKey, KeysTypeOK, Becomes
<1>5. ASSUME NEW p \in Processes, ValidateCredential(p) PROVE KeysTypeOK'
  <2>1. /\ keyCall[p].key \in Keys \cup {LegacyKey}
        /\ keyRow' = keyRow /\ revived' = revived
    BY <1>5 DEF ValidateCredential, KeysTypeOK
  <2>2. CASE ValidateKey(keyCall[p].key) = "valid"
    <3>1. keyCall[p].key \in Keys /\ keyRow[keyCall[p].key] # NoRow
      BY <2>1, <2>2, KeysAssumption DEF ValidateKey, GetByHash
    <3>2. keyRow[keyCall[p].key] \in KeyRows
      BY <3>1 DEF KeysTypeOK
    <3>3. Becomes(p, [pc |-> "use", key |-> keyCall[p].key, row |-> keyRow[keyCall[p].key]])
      BY <1>5, <2>2 DEF ValidateCredential
    <3>. QED
      BY <2>1, <3>1, <3>2, <3>3 DEF KeysTypeOK, Becomes
  <2>3. CASE ValidateKey(keyCall[p].key) # "valid"
    <3>1. \/ Becomes(p, [pc |-> "replied", with |-> "denied"])
          \/ Becomes(p, [pc |-> "allowed"])
      BY <1>5, <2>3 DEF ValidateCredential, Reply, ValidateKey
    <3>. QED
      BY <2>1, <3>1 DEF KeysTypeOK, Becomes
  <2>. QED
    BY <2>2, <2>3
<1>6. ASSUME NEW p \in Processes, RecordUse(p) PROVE KeysTypeOK'
  BY <1>6, UseWritesBack DEF RecordUse, KeysTypeOK, Becomes
<1>7. ASSUME NEW p \in Processes, CreateOperatorKey(p) PROVE KeysTypeOK'
  <2>1. PICK k \in Keys, l \in Labels :
          InsertIfLabelFree(k, l) /\ Reply(p, IF LabelFree(l) THEN "minted" ELSE "taken")
    BY <1>7 DEF CreateOperatorKey
  <2>2. [label |-> l, revoked |-> FALSE, expired |-> FALSE, uses |-> 0] \in KeyRows
    BY KeysAssumption DEF KeyRows
  <2>3. keyRow' \in [Keys -> {NoRow} \cup KeyRows]
    BY <2>1, <2>2 DEF InsertIfLabelFree, KeysTypeOK
  <2>. QED
    BY <1>7, <2>1, <2>3 DEF CreateOperatorKey, KeysTypeOK, Reply, Becomes
<1>8. ASSUME NEW p \in Processes, DeleteOperatorKey(p) PROVE KeysTypeOK'
  <2>1. ListAll \subseteq Keys
    BY DEF ListAll
  <2>2. /\ keyRow' = keyRow /\ revived' = revived
        /\ \E c : Becomes(p, c) /\ \/ c = [pc |-> "replied", with |-> "refused"]
                                   \/ c \in [pc : {"delete"}, key : Keys]
    BY <1>8, <2>1 DEF DeleteOperatorKey, Reply
  <2>. QED
    BY <2>2 DEF KeysTypeOK, Becomes
<1>9. ASSUME NEW p \in Processes, RevokeKey(p) PROVE KeysTypeOK'
  <2>1. PICK k \in ListAll : Becomes(p, [pc |-> "revoke", key |-> k, row |-> keyRow[k]])
    BY <1>9 DEF RevokeKey, GetById
  <2>2. k \in Keys /\ keyRow[k] \in KeyRows
    BY RowsAreRecords DEF ListAll
  <2>. QED
    BY <1>9, <2>1, <2>2 DEF RevokeKey, KeysTypeOK, Becomes
<1>10. ASSUME NEW p \in Processes, WriteRevoked(p) PROVE KeysTypeOK'
  BY <1>10, RevocationWritesBack DEF WriteRevoked, KeysTypeOK, Reply, Becomes
<1>11. ASSUME NEW p \in Processes, Inspect(p) PROVE KeysTypeOK'
  <2>1. SetupStatus \in [operatorKey : BOOLEAN, anyKey : BOOLEAN]
    BY DEF SetupStatus
  <2>. QED
    BY <1>11, <2>1 DEF Inspect, KeysTypeOK, Becomes
<1>12. ASSUME NEW p \in Processes, Replied(p) PROVE KeysTypeOK'
  BY <1>12 DEF Replied, KeysTypeOK, Becomes, Unbusy
<1>13. CASE UNCHANGED keyVars
  BY <1>13 DEF keyVars, KeysTypeOK
<1>. QED
  BY <1>1, <1>2, <1>3, <1>4, <1>5, <1>6, <1>7, <1>8, <1>9, <1>10, <1>11, <1>12, <1>13
  DEF KeysNext
\* Every step keeps the copies true to their rows.
LEMMA CopiesStep == KeysInv /\ [KeysNext]_keyVars => CopiesAreOwn'
<1> SUFFICES ASSUME KeysInv, [KeysNext]_keyVars,
                    NEW p \in Processes, keyCall'[p].pc \in {"use", "revoke"}
             PROVE  LET k == keyCall'[p].key  r == keyCall'[p].row IN
                    /\ keyRow'[k] \in KeyRows /\ keyRow'[k].label = r.label
                    /\ keyCall'[p].pc = "use" => ~r.revoked /\ r.uses < MaxUses
  BY DEF CopiesAreOwn
<1>. KeysTypeOK /\ CopiesAreOwn
  BY DEF KeysInv
<1> DEFINE Kept(j) == keyRow[j] \in KeyRows =>
                        keyRow'[j] \in KeyRows /\ keyRow'[j].label = keyRow[j].label
\* No step takes a row away or changes its label.
<1>1. ASSUME NEW j \in Keys PROVE Kept(j)
  <2>1. ASSUME NEW k \in Keys, KeyExpires(k) PROVE Kept(j)
    BY <2>1, KeysTypeStep DEF KeyExpires, KeysTypeOK, KeyRows
  <2>2. ASSUME NEW q \in Processes, RecordUse(q) PROVE Kept(j)
    BY <2>2, UseWritesBack
  <2>3. ASSUME NEW q \in Processes, WriteRevoked(q) PROVE Kept(j)
    BY <2>3, RevocationWritesBack
  <2>4. ASSUME NEW q \in Processes, CreateOperatorKey(q) PROVE Kept(j)
    <3>1. PICK k \in Keys \ ListAll, l \in Labels : InsertIfLabelFree(k, l)
      BY <2>4 DEF CreateOperatorKey
    <3>. QED
      BY <3>1, RowsAreRecords DEF InsertIfLabelFree, KeysTypeOK
  <2>5. CASE UNCHANGED keyRow
    BY <2>5
  <2>. QED
    BY <2>1, <2>2, <2>3, <2>4, <2>5
    DEF KeysNext, keyVars, CallTool, RunCommand, RequireOperatorKey, ValidateCredential,
        DeleteOperatorKey, RevokeKey, Inspect, Replied
\* A copy that was there before is as it was.
<1>2. CASE keyCall'[p] = keyCall[p]
  BY <1>1, <1>2 DEF CopiesAreOwn, KeysTypeOK
\* A copy is made by a validation or by a revocation.
<1>3. CASE ValidateCredential(p)
  <2> DEFINE k == keyCall[p].key
  <2>1. CASE ValidateKey(k) = "valid"
    <3>1. /\ keyRow' = keyRow /\ keyRow[k].uses < MaxUses
          /\ Becomes(p, [pc |-> "use", key |-> k, row |-> keyRow[k]])
      BY <1>3, <2>1 DEF ValidateCredential
    <3>2. k \in Keys /\ keyRow[k] # NoRow /\ ~keyRow[k].revoked
      BY <2>1 DEF ValidateKey, GetByHash
    <3>. QED
      BY <3>1, <3>2 DEF Becomes, KeysTypeOK
  <2>2. CASE ValidateKey(k) # "valid"
    <3>1. \/ Becomes(p, [pc |-> "replied", with |-> "denied"])
          \/ Becomes(p, [pc |-> "allowed"])
      BY <1>3, <2>2 DEF ValidateCredential, Reply, ValidateKey
    <3>. QED
      BY <3>1 DEF Becomes, KeysTypeOK
  <2>. QED
    BY <2>1, <2>2
<1>4. CASE RevokeKey(p)
  <2>1. PICK k \in ListAll : Becomes(p, [pc |-> "revoke", key |-> k, row |-> keyRow[k]])
    BY <1>4 DEF RevokeKey, GetById
  <2>. QED
    BY <1>4, <2>1, RowsAreRecords DEF RevokeKey, Becomes, KeysTypeOK, ListAll
\* Any other step gives no process a copy.
<1>5. CASE keyCall' = keyCall
  BY <1>2, <1>5
<1>6. ASSUME NEW q \in Processes, NEW c, Becomes(q, c), c.pc \notin {"use", "revoke"}
      PROVE  keyCall'[p] = keyCall[p]
  BY <1>6 DEF KeysTypeOK, Becomes
<1>7. ASSUME NEW q \in Processes, q # p, ValidateCredential(q) \/ RevokeKey(q)
      PROVE  keyCall'[p] = keyCall[p]
  BY <1>7 DEF KeysTypeOK, Becomes, ValidateCredential, RevokeKey, Reply, ValidateKey
<1>8. ASSUME NEW q \in Processes,
             \/ CallTool(q) \/ RunCommand(q) \/ RequireOperatorKey(q) \/ RecordUse(q)
             \/ CreateOperatorKey(q) \/ DeleteOperatorKey(q) \/ WriteRevoked(q)
             \/ Inspect(q) \/ Replied(q)
      PROVE  \E c : Becomes(q, c) /\ c.pc \notin {"use", "revoke"}
  <2>1. CASE CallTool(q)
    <3>1. PICK transport \in ClassifyTransport :
            LET verdict == DenyUnlessOperator(q, transport) IN
            CASE verdict = "denied"  -> Reply(q, "denied")
              [] verdict = "trusted" -> Becomes(q, [pc |-> "allowed"])
              [] verdict = "asked"   -> Becomes(q, [pc |-> "asked"])
      BY <2>1 DEF CallTool
    <3>2. DenyUnlessOperator(q, transport) \in {"denied", "trusted", "asked"}
      BY DEF DenyUnlessOperator, ClassifyTransport
    <3>3. \/ Becomes(q, [pc |-> "replied", with |-> "denied"])
          \/ Becomes(q, [pc |-> "allowed"]) \/ Becomes(q, [pc |-> "asked"])
      BY <3>1, <3>2 DEF Reply
    <3>. QED
      BY <3>3
  <2>2. CASE RunCommand(q)
    BY <2>2 DEF RunCommand
  <2>3. CASE RequireOperatorKey(q)
    <3>1. PICK k \in Keys \cup {LegacyKey, NoKey} :
            IF k = NoKey THEN Reply(q, "denied")
            ELSE Becomes(q, [pc |-> "validate", key |-> k, anyMinted |-> CountOperatorKeys > 0])
      BY <2>3 DEF RequireOperatorKey
    <3>2. CASE k = NoKey
      BY <3>1, <3>2 DEF Reply
    <3>3. CASE k # NoKey
      <4> DEFINE c == [pc |-> "validate", key |-> k, anyMinted |-> CountOperatorKeys > 0]
      <4>1. Becomes(q, c) /\ c.pc = "validate"
        BY <3>1, <3>3
      <4>. QED
        BY <4>1
    <3>. QED
      BY <3>2, <3>3
  <2>4. CASE RecordUse(q)
    BY <2>4 DEF RecordUse
  <2>5. CASE CreateOperatorKey(q)
    BY <2>5 DEF CreateOperatorKey, Reply
  <2>6. CASE DeleteOperatorKey(q)
    BY <2>6 DEF DeleteOperatorKey, Reply
  <2>7. CASE WriteRevoked(q)
    BY <2>7 DEF WriteRevoked, Reply
  <2>8. CASE Inspect(q)
    BY <2>8 DEF Inspect
  <2>9. CASE Replied(q)
    BY <2>9 DEF Replied, Unbusy
  <2>. QED
    BY <1>8, <2>1, <2>2, <2>3, <2>4, <2>5, <2>6, <2>7, <2>8, <2>9
<1>. QED
  BY <1>2, <1>3, <1>4, <1>5, <1>6, <1>7, <1>8 DEF KeysNext, keyVars, KeyExpires

\* Every step keeps two active keys apart.
LEMMA LabelsStep == KeysInv /\ [KeysNext]_keyVars => OneActivePerLabel'
<1> SUFFICES ASSUME KeysInv, [KeysNext]_keyVars PROVE OneActivePerLabel'
  OBVIOUS
<1>. KeysTypeOK /\ CopiesAreOwn /\ OneActivePerLabel
  BY DEF KeysInv
<1>1. ActiveKeys' = {k \in Keys : keyRow'[k] # NoRow /\ ~keyRow'[k].revoked
                                                    /\ ~keyRow'[k].expired}
  <2>1. (ActiveKeys = {k \in Keys : keyRow[k] # NoRow /\ ~keyRow[k].revoked
                                                      /\ ~keyRow[k].expired})'
    BY ActiveRows, PTL
  <2>. QED
    BY <2>1 DEF NoRow
\* A step that makes no key active, but for those it marks, and changes no label.
<1>2. ASSUME revived \subseteq revived',
             \A k \in ActiveKeys' : \/ k \in revived'
                                    \/ k \in ActiveKeys /\ keyRow'[k].label = keyRow[k].label
      PROVE  OneActivePerLabel'
  BY <1>2 DEF OneActivePerLabel
<1>3. ASSUME NEW k \in Keys, KeyExpires(k) PROVE OneActivePerLabel'
  <2>1. \A j \in ActiveKeys' : j \in ActiveKeys /\ keyRow'[j].label = keyRow[j].label
    BY <1>1, <1>3, ActiveRows, RowsAreRecords DEF KeyExpires, KeysTypeOK, KeyRows, ListAll
  <2>. QED
    BY <1>2, <1>3, <2>1 DEF KeyExpires
<1>4. ASSUME NEW p \in Processes, RecordUse(p) PROVE OneActivePerLabel'
  <2>1. keyRow[keyCall[p].key] # NoRow
    BY <1>4, UseWritesBack, RowsAreRecords
  <2>2. \A j \in ActiveKeys' : \/ j \in revived'
                               \/ j \in ActiveKeys /\ keyRow'[j].label = keyRow[j].label
    BY <1>1, <1>4, <2>1, UseWritesBack, ActiveRows DEF RecordUse
  <2>. QED
    BY <1>2, <1>4, <2>2 DEF RecordUse
<1>5. ASSUME NEW p \in Processes, WriteRevoked(p) PROVE OneActivePerLabel'
  <2>1. \A j \in ActiveKeys' : j \in ActiveKeys /\ keyRow'[j].label = keyRow[j].label
    BY <1>1, <1>5, RevocationWritesBack, ActiveRows
  <2>. QED
    BY <1>2, <1>5, <2>1 DEF WriteRevoked
<1>6. ASSUME NEW p \in Processes, CreateOperatorKey(p) PROVE OneActivePerLabel'
  <2>1. PICK k \in Keys \ ListAll, l \in Labels : InsertIfLabelFree(k, l)
    BY <1>6 DEF CreateOperatorKey
  <2>2. CASE ~LabelFree(l)
    <3>1. keyRow' = keyRow /\ revived' = revived
      BY <1>6, <2>1, <2>2 DEF InsertIfLabelFree, CreateOperatorKey
    <3>. QED
      BY <1>1, <1>2, <3>1, ActiveRows
  <2>3. CASE LabelFree(l)
    <3>1. /\ \A j \in Keys : j # k => keyRow'[j] = keyRow[j]
          /\ keyRow'[k].label = l /\ revived' = revived
      BY <1>6, <2>1, <2>3 DEF InsertIfLabelFree, CreateOperatorKey, KeysTypeOK
    <3>2. \A j \in ActiveKeys' : j # k => j \in ActiveKeys /\ keyRow'[j].label # l
                                          /\ keyRow'[j].label = keyRow[j].label
      BY <1>1, <2>3, <3>1, ActiveRows DEF LabelFree
    <3>. QED
      BY <3>1, <3>2 DEF OneActivePerLabel
  <2>. QED
    BY <2>2, <2>3
<1>7. CASE UNCHANGED <<keyRow, revived>>
  BY <1>1, <1>2, <1>7, ActiveRows
<1>. QED
  BY <1>3, <1>4, <1>5, <1>6, <1>7
  DEF KeysNext, keyVars, CallTool, RunCommand, RequireOperatorKey, ValidateCredential,
      DeleteOperatorKey, RevokeKey, Inspect, Replied

\* The operator keys, the calls of the processes and the history keep their types.
THEOREM KeysTypeCorrect == KeysSpec => []KeysTypeOK
<1>1. KeysInv /\ [KeysNext]_keyVars => KeysInv'
  BY KeysTypeStep, CopiesStep, LabelsStep DEF KeysInv
<1>2. KeysInv => KeysTypeOK
  BY DEF KeysInv
<1>. QED
  BY KeysInitOK, <1>1, <1>2, PTL DEF KeysSpec

\* However the calls of several processes interleave, two active operator keys share a
\* label only where counting a use wrote a row back over its revocation: the check and
\* the insert of insert_if_label_free are one transaction, and every other write keeps
\* what its row says.
THEOREM LabelsStayUnique == KeysSpec => []OneActivePerLabel
<1>1. KeysInv /\ [KeysNext]_keyVars => KeysInv'
  BY KeysTypeStep, CopiesStep, LabelsStep DEF KeysInv
<1>2. KeysInv => OneActivePerLabel
  BY DEF KeysInv
<1>. QED
  BY KeysInitOK, <1>1, <1>2, PTL DEF KeysSpec

--------------------------------------------------------------------------------
(* Bootstrap: the database that several processes open, and the wizard.    *)

\* A process gets past create_tables only when every group of tables is there, and past the
\* migration to version 2 only when every column is; a version from 2 on says the same.
TablesFirst ==
    /\ "core" \in tables => columns \subseteq Columns
    /\ SCHEMA_VERSION \in versions => tables = TableGroups
    /\ \A p \in Openers : opener[p].at # "start" => tables = TableGroups
ColumnsNext ==
    /\ (\E v \in versions : v >= 2) => columns = Columns
    /\ \A p \in Openers :
         /\ opener[p].at \in {"v4", "v5", "v6", "record", "open"} => columns = Columns
         /\ opener[p].at = "alter" => opener[p].seen \subseteq columns
BootInv == BootTypeOK /\ TablesFirst /\ ColumnsNext

\* MAX(version) is one of the versions.
LEMMA VersionIsRecorded ==
  ASSUME BootTypeOK
  PROVE  /\ SchemaVersion \in 0 .. SCHEMA_VERSION
         /\ SchemaVersion >= 2 => SchemaVersion \in versions
<1>1. CASE versions = {}
  BY <1>1 DEF SchemaVersion, SCHEMA_VERSION
<1>2. CASE versions # {}
  <2>1. versions \subseteq {0, 1, 2, 3, 4, 5, 6}
    BY DEF BootTypeOK, SCHEMA_VERSION
  <2>2. \E v \in versions : \A w \in versions : w <= v
    <3>1. CASE 6 \in versions
      BY <2>1, <3>1
    <3>2. CASE 5 \in versions /\ 6 \notin versions
      BY <2>1, <3>2
    <3>3. CASE 4 \in versions /\ versions \cap {5, 6} = {}
      BY <2>1, <3>3
    <3>4. CASE 3 \in versions /\ versions \cap {4, 5, 6} = {}
      BY <2>1, <3>4
    <3>5. CASE 2 \in versions /\ versions \cap {3, 4, 5, 6} = {}
      BY <2>1, <3>5
    <3>6. CASE 1 \in versions /\ versions \cap {2, 3, 4, 5, 6} = {}
      BY <2>1, <3>6
    <3>7. CASE versions = {0}
      BY <3>7
    <3>. QED
      BY <1>2, <2>1, <3>1, <3>2, <3>3, <3>4, <3>5, <3>6, <3>7
  <2>3. SchemaVersion \in versions
    BY <1>2, <2>2 DEF SchemaVersion
  <2>. QED
    BY <2>1, <2>3 DEF SCHEMA_VERSION
<1>. QED
  BY <1>1, <1>2

\* A process that moves on.
LEMMA OpenerMoves ==
  ASSUME BootTypeOK, NEW p \in Openers, NEW at, GoTo(p, at),
         at \in {"start", "read", "inspect", "alter", "v4", "v5", "v6", "record", "open", "failed"}
  PROVE  /\ opener' \in [Openers ->
               [at : {"start", "read", "inspect", "alter", "v4", "v5", "v6", "record", "open", "failed"},
                from : 0 .. SCHEMA_VERSION, seen : SUBSET Columns]]
         /\ opener'[p].at = at /\ opener'[p].seen = opener[p].seen
         /\ \A q \in Openers \ {p} : opener'[q] = opener[q]
BY DEF BootTypeOK, GoTo

\* Every step of the wizard keeps the wizard's types and leaves the schema alone.
LEMMA WizardStep ==
  ASSUME BootInv, UseWizard
  PROVE  BootInv'
<1>. BootTypeOK /\ TablesFirst /\ ColumnsNext
  BY DEF BootInv
<1>1. UNCHANGED schemaVars
  BY DEF UseWizard, CompleteWizardStep, SkipWizardStep, RunSetupWizard, RestartServer, Answering
<1>2. TablesFirst' /\ ColumnsNext'
  BY <1>1 DEF schemaVars, TablesFirst, ColumnsNext
<1>3. /\ wizard' \in [WizardSteps -> WizardStatuses]
      /\ wizard'[LaunchStep] \in {"not_started", "completed"}
      /\ answers' \in 0 .. MaxAnswers /\ kills' \in 0 .. MaxKills
  <2>. /\ wizard \in [WizardSteps -> WizardStatuses] /\ LaunchStep \in WizardSteps
       /\ wizard[LaunchStep] \in {"not_started", "completed"} /\ LaunchStep \notin DetectedSteps
       /\ answers \in 0 .. MaxAnswers /\ kills \in 0 .. MaxKills /\ MaxKills \in Nat /\ MaxAnswers \in Nat
    BY BootstrapAssumption DEF BootTypeOK
  <2>1. ASSUME NEW s \in WizardSteps \cup {NoStep}, CompleteWizardStep(s)
        PROVE  /\ wizard' \in [WizardSteps -> WizardStatuses]
               /\ wizard'[LaunchStep] \in {"not_started", "completed"}
               /\ answers' \in 0 .. MaxAnswers /\ kills' \in 0 .. MaxKills
    BY <2>1 DEF CompleteWizardStep, Answering, GetStep, WizardStatuses
  <2>2. ASSUME NEW s \in WizardSteps \cup {NoStep}, SkipWizardStep(s)
        PROVE  /\ wizard' \in [WizardSteps -> WizardStatuses]
               /\ wizard'[LaunchStep] \in {"not_started", "completed"}
               /\ answers' \in 0 .. MaxAnswers /\ kills' \in 0 .. MaxKills
    BY <2>2 DEF SkipWizardStep, Answering, GetStep, WizardStatuses
  <2>3. CASE RunSetupWizard
    BY <2>3 DEF RunSetupWizard, Answering, Detectable, WizardStatuses
  <2>4. CASE RestartServer
    BY <2>4 DEF RestartServer, BuildSteps, WizardStatuses
  <2>. QED
    BY <2>1, <2>2, <2>3, <2>4 DEF UseWizard
<1>4. BootTypeOK'
  BY <1>1, <1>3 DEF BootTypeOK, schemaVars
<1>. QED
  BY <1>2, <1>4 DEF BootInv

\* Every step of a process that opens the database keeps the invariant.
LEMMA OpenerStep ==
  ASSUME BootInv, NEW p \in Openers, OpenDatabase(p)
  PROVE  BootInv'
<1>. BootTypeOK /\ TablesFirst /\ ColumnsNext
  BY DEF BootInv
<1>. DEFINE Places == {"start", "read", "inspect", "alter", "v4", "v5", "v6", "record", "open", "failed"}
            OpenerOK == opener' \in [Openers -> [at : Places, from : 0 .. SCHEMA_VERSION,
                                                 seen : SUBSET Columns]]
<1>0. "core" \in TableGroups
  BY DEF TableGroups
<1>a. opener[p] \in [at : Places, from : 0 .. SCHEMA_VERSION, seen : SUBSET Columns]
  BY DEF BootTypeOK
<1>1. CASE CreateTables(p)
  <2>1. CASE "core" \notin tables /\ columns' = Columns /\ tables' = tables \cup {"core"}
             /\ UNCHANGED opener
    BY <1>0, <1>1, <2>1 DEF CreateTables, BootInv, BootTypeOK, TablesFirst, ColumnsNext
  <2>2. CASE "core" \in tables /\ UNCHANGED <<columns, opener>>
             /\ \E g \in TableGroups \ tables : tables' = tables \cup {g}
    BY <1>1, <2>2 DEF CreateTables, BootInv, BootTypeOK, TablesFirst, ColumnsNext
  <2>3. CASE TableGroups \subseteq tables /\ GoTo(p, "read") /\ UNCHANGED <<columns, tables>>
    <3>1. tables = TableGroups
      BY <2>3 DEF BootTypeOK
    <3>2. OpenerOK /\ opener'[p].at = "read" /\ \A q \in Openers \ {p} : opener'[q] = opener[q]
      BY <2>3, OpenerMoves
    <3>. QED
      BY <1>1, <2>3, <3>1, <3>2 DEF CreateTables, BootInv, BootTypeOK, TablesFirst, ColumnsNext
  <2>. QED
    BY <1>1, <2>1, <2>2, <2>3 DEF CreateTables
<1>2. CASE RunMigrations(p)
  <2>. DEFINE k == [at |-> IF SchemaVersion >= SCHEMA_VERSION THEN "open"
                           ELSE IF SchemaVersion < 2 THEN "inspect" ELSE "v4",
                    from |-> SchemaVersion, seen |-> {}]
  <2>1. opener' = [opener EXCEPT ![p] = k]
    BY <1>2 DEF RunMigrations
  <2>2. k \in [at : Places, from : 0 .. SCHEMA_VERSION, seen : SUBSET Columns]
    BY VersionIsRecorded
  <2>3. k.at \in {"v4", "open"} => columns = Columns
    BY VersionIsRecorded DEF SCHEMA_VERSION, ColumnsNext
  <2>4. k.at \in {"inspect", "v4", "open"} /\ tables = TableGroups
    BY <1>2 DEF RunMigrations, TablesFirst
  <2>. HIDE DEF k
  <2>5. OpenerOK
    BY <2>1, <2>2 DEF BootTypeOK
  <2>. QED
    BY <1>2, <2>1, <2>3, <2>4, <2>5 DEF RunMigrations, BootInv, BootTypeOK, TablesFirst, ColumnsNext
<1>3. CASE InspectColumns(p)
  <2>. DEFINE k == [opener[p] EXCEPT !.at = "alter", !.seen = columns]
  <2>1. opener' = [opener EXCEPT ![p] = k]
    BY <1>3 DEF InspectColumns
  <2>2. tables = TableGroups /\ columns \subseteq Columns
    BY <1>0, <1>3 DEF InspectColumns, TablesFirst
  <2>3. /\ k \in [at : Places, from : 0 .. SCHEMA_VERSION, seen : SUBSET Columns]
        /\ k.at = "alter" /\ k.seen = columns
    BY <1>a, <2>2
  <2>. HIDE DEF k
  <2>5. OpenerOK
    BY <2>1, <2>3 DEF BootTypeOK
  <2>. QED
    BY <1>3, <2>1, <2>2, <2>3, <2>5 DEF InspectColumns, BootInv, BootTypeOK, TablesFirst, ColumnsNext
<1>4. CASE AddColumn(p)
  <2>. tables = TableGroups /\ columns \subseteq Columns /\ opener[p].at = "alter"
       /\ opener[p].seen \subseteq columns
    BY <1>0, <1>4 DEF AddColumn, TablesFirst, ColumnsNext
  <2>1. PICK c \in Lacking(p) :
          \/ c \in columns /\ GoTo(p, "failed") /\ UNCHANGED columns
          \/ /\ c \notin columns /\ columns' = columns \cup {c}
             /\ opener' = [opener EXCEPT ![p].seen = @ \cup {c}]
    BY <1>4 DEF AddColumn
  <2>2. CASE GoTo(p, "failed") /\ UNCHANGED columns
    <3>1. OpenerOK /\ opener'[p].at = "failed" /\ \A q \in Openers \ {p} : opener'[q] = opener[q]
      BY <2>2, OpenerMoves
    <3>. QED
      BY <1>4, <2>2, <3>1 DEF AddColumn, BootInv, BootTypeOK, TablesFirst, ColumnsNext
  <2>3. CASE c \notin columns /\ columns' = columns \cup {c}
             /\ opener' = [opener EXCEPT ![p].seen = @ \cup {c}]
    <3>. DEFINE k == [opener[p] EXCEPT !.seen = @ \cup {c}]
    <3>1. opener' = [opener EXCEPT ![p] = k] /\ c \in Columns
      BY <2>3 DEF Lacking
    <3>2. /\ k \in [at : Places, from : 0 .. SCHEMA_VERSION, seen : SUBSET Columns]
          /\ k.at = "alter" /\ k.seen \subseteq columns'
      BY <1>a, <2>3, <3>1
    <3>. HIDE DEF k
    <3>3. OpenerOK
      BY <3>1, <3>2 DEF BootTypeOK
    <3>4. columns' \subseteq Columns /\ (columns = Columns => columns' = Columns)
      BY <2>3, <3>1
    <3>. QED
      BY <1>4, <2>3, <3>1, <3>2, <3>3, <3>4 DEF AddColumn, BootInv, BootTypeOK, TablesFirst, ColumnsNext
  <2>. QED
    BY <2>1, <2>2, <2>3
<1>5. ASSUME NEW at \in {"v4", "v5", "v6", "record"}, GoTo(p, at), tables' \in {tables, TableGroups},
             UNCHANGED <<columns, versions, wizard, answers, kills>>,
             tables = TableGroups, columns = Columns
      PROVE  BootInv'
  <2>1. OpenerOK /\ opener'[p].at = at /\ \A q \in Openers \ {p} : opener'[q] = opener[q]
    BY <1>5, OpenerMoves
  <2>. QED
    BY <1>5, <2>1 DEF BootInv, BootTypeOK, TablesFirst, ColumnsNext
<1>6. CASE MigrateV1ToV2(p)
  <2>1. tables = TableGroups /\ columns = Columns
    BY <1>0, <1>6 DEF MigrateV1ToV2, Lacking, TablesFirst, ColumnsNext
  <2>. QED
    BY <1>5, <1>6, <2>1 DEF MigrateV1ToV2, Creates, TableGroups
<1>7. CASE MigrateV2ToV4(p) \/ MigrateV4ToV5(p) \/ MigrateV5ToV6(p)
  <2>1. tables = TableGroups /\ columns = Columns
    BY <1>7 DEF MigrateV2ToV4, MigrateV4ToV5, MigrateV5ToV6, TablesFirst, ColumnsNext
  <2>. QED
    BY <1>5, <1>7, <2>1 DEF MigrateV2ToV4, MigrateV4ToV5, MigrateV5ToV6, Creates, TableGroups
<1>8. CASE SetSchemaVersion(p)
  <2>1. tables = TableGroups /\ columns = Columns
    BY <1>8 DEF SetSchemaVersion, TablesFirst, ColumnsNext
  <2>2. OpenerOK /\ opener'[p].at = "open" /\ \A q \in Openers \ {p} : opener'[q] = opener[q]
    BY <1>8, OpenerMoves DEF SetSchemaVersion
  <2>3. versions' \subseteq 0 .. SCHEMA_VERSION
    BY <1>8 DEF SetSchemaVersion, SCHEMA_VERSION, BootTypeOK
  <2>. QED
    BY <1>8, <2>1, <2>2, <2>3 DEF SetSchemaVersion, BootInv, BootTypeOK, TablesFirst, ColumnsNext
<1>9. CASE Killed(p)
  <2>1. Opening \in [at : Places, from : 0 .. SCHEMA_VERSION, seen : SUBSET Columns]
        /\ Opening.at = "start"
    BY DEF Opening, SCHEMA_VERSION
  <2>2. opener' = [opener EXCEPT ![p] = Opening]
    BY <1>9 DEF Killed
  <2>3. OpenerOK
    BY <2>1, <2>2 DEF BootTypeOK
  <2>4. kills' \in 0 .. MaxKills
    BY <1>9, BootstrapAssumption DEF Killed, BootTypeOK
  <2>. QED
    BY <1>9, <2>1, <2>2, <2>3, <2>4 DEF Killed, BootInv, BootTypeOK, TablesFirst, ColumnsNext
<1>. QED
  BY <1>1, <1>2, <1>3, <1>4, <1>6, <1>7, <1>8, <1>9 DEF OpenDatabase

\* Every statement of an upgrade, and every kill, keeps the order of tables and columns.
LEMMA BootMoves == BootInv /\ [BootNext]_bootVars => BootInv'
<1> SUFFICES ASSUME BootInv, [BootNext]_bootVars PROVE BootInv'
  OBVIOUS
<1>1. CASE UNCHANGED bootVars
  BY <1>1 DEF bootVars, BootInv, BootTypeOK, TablesFirst, ColumnsNext
<1>. QED
  BY <1>1, WizardStep, OpenerStep DEF BootNext

\* A database starts without tables or as an older version left it.
LEMMA BootStart == BootInit => BootInv
<1> SUFFICES ASSUME BootInit PROVE BootTypeOK /\ TablesFirst /\ ColumnsNext
  BY DEF BootInv
<1>1. Opening \in [at : {"start"}, from : 0 .. SCHEMA_VERSION, seen : SUBSET Columns]
  BY DEF Opening, SCHEMA_VERSION
<1>2. /\ opener \in [Openers -> [at : {"start"}, from : 0 .. SCHEMA_VERSION, seen : SUBSET Columns]]
      /\ wizard \in [WizardSteps -> {"not_started"}] /\ answers = 0 /\ kills = 0
  BY <1>1 DEF BootInit, BuildSteps
<1>3. BootTypeOK
  BY <1>2, BootstrapAssumption DEF BootInit, BootTypeOK, WizardStatuses, TableGroups, SCHEMA_VERSION
<1>4. TablesFirst
  BY <1>2 DEF BootInit, TablesFirst, SCHEMA_VERSION
<1>5. ColumnsNext
  BY <1>2 DEF BootInit, ColumnsNext
<1>. QED
  BY <1>3, <1>4, <1>5

\* An opened database with its version has every table and column.
LEMMA BootIsComplete == BootInv => OpenedIsComplete
BY DEF BootInv, TablesFirst, ColumnsNext, OpenedIsComplete, SCHEMA_VERSION

\* No step of the wizard or of a process replaces an answer or takes the wizard back.
LEMMA WizardGoesOn ==
  ASSUME BootInv, [BootNext]_bootVars, kills' = kills
  PROVE  /\ \A s \in WizardSteps :
              wizard[s] \in {"completed", "skipped"} => wizard'[s] # "auto_detected"
         /\ DoneSteps \subseteq DoneSteps'
         /\ CurrentPhase = "business" => CurrentPhase' = "business"
<1>. BootTypeOK /\ wizard \in [WizardSteps -> WizardStatuses]
  BY DEF BootInv, BootTypeOK
<1>1. \A s \in WizardSteps :
         \/ wizard'[s] = wizard[s]
         \/ wizard'[s] \in {"completed", "skipped"}
         \/ wizard[s] = "not_started" /\ wizard'[s] = "auto_detected"
  <2>1. kills # kills + 1
    BY DEF BootTypeOK
  <2>2. ASSUME NEW s \in WizardSteps \cup {NoStep}, CompleteWizardStep(s) \/ SkipWizardStep(s)
        PROVE  \A t \in WizardSteps : wizard'[t] = wizard[t] \/ wizard'[t] \in {"completed", "skipped"}
    BY <2>2 DEF CompleteWizardStep, SkipWizardStep, GetStep
  <2>3. CASE RunSetupWizard
    BY <2>3 DEF RunSetupWizard, Detectable
  <2>4. ~RestartServer
    BY <2>1 DEF RestartServer
  <2>5. ASSUME NEW p \in Openers, OpenDatabase(p) PROVE UNCHANGED wizard
    BY <2>5, <2>1 DEF OpenDatabase, CreateTables, RunMigrations, InspectColumns, AddColumn,
       MigrateV1ToV2, MigrateV2ToV4, MigrateV4ToV5, MigrateV5ToV6, Creates, SetSchemaVersion, Killed
  <2>6. CASE UNCHANGED bootVars
    BY <2>6 DEF bootVars
  <2>. QED
    BY <2>2, <2>3, <2>4, <2>5, <2>6 DEF BootNext, UseWizard
<1>2. DoneSteps \subseteq DoneSteps'
  BY <1>1 DEF DoneSteps
<1>. QED
  BY <1>1, <1>2 DEF CurrentPhase

--------------------------------------------------------------------------------
(* AuditTrail: the event bus and its fallback log.                         *)

\* Where an event is once its emission is over, and what the loggers' connections are.
EventsAreSomewhere ==
    /\ onBus \in Seq(Emitters)
    /\ \A e \in Emitters :
         /\ emit[e].pc = "kept" => e \in ToSet(onBus) /\ \A s \in Watchers : e \in heard[s]
         /\ emit[e].pc = "saved" => e \in fallback
         /\ emit[e].pc = "lost" => emit[e].way = "scheduled"
         /\ emit[e].pc = "dropped" => e \notin Audited
RowsAreWritten ==
    /\ \A l \in Loggers :
         logger[l].pc \in {"writing", "written", "failed"} => logger[l].has \in Databases
    /\ \A l \in Loggers, d \in Databases :
         l \in logged[d] <=> logger[l].pc = "written" /\ logger[l].has = d
TrailInv == AuditTypeOK /\ EventsAreSomewhere /\ RowsAreWritten

\* A bus that takes one more event.
LEMMA BusGrows ==
  ASSUME onBus \in Seq(Emitters), NEW e \in Emitters, onBus' = Append(onBus, e)
  PROVE  /\ onBus' \in Seq(Emitters)
         /\ ToSet(onBus) \subseteq ToSet(onBus') /\ e \in ToSet(onBus')
         /\ ToSet(onBus') \subseteq Emitters
<1>1. /\ onBus' \in Seq(Emitters) /\ Len(onBus') = Len(onBus) + 1 /\ Len(onBus) \in Nat
      /\ \A i \in 1 .. Len(onBus) : onBus'[i] = onBus[i]
      /\ onBus'[Len(onBus) + 1] = e
  OBVIOUS
<1>2. DOMAIN onBus = 1 .. Len(onBus) /\ DOMAIN onBus' = 1 .. Len(onBus')
  BY <1>1
<1>3. \A i \in 1 .. Len(onBus') : onBus'[i] \in Emitters
  BY <1>1
<1>. QED
  BY <1>1, <1>2, <1>3 DEF ToSet

\* The newest event is among those that are listed.
LEMMA NewestIsListed ==
  ASSUME onBus \in Seq(Emitters), onBus # <<>>
  PROVE  Last(onBus) \in ToSet(ListEvents)
<1>. DEFINE n == Len(onBus)
<1>1. n \in Nat /\ n >= 1 /\ Last(onBus) = onBus[n] /\ Limit \in Nat /\ Limit >= 1
      /\ DOMAIN onBus = 1 .. n
  BY AuditAssumption DEF Last
<1>2. CASE n <= Limit
  BY <1>1, <1>2 DEF ListEvents, ToSet
<1>3. CASE n > Limit
  <2>. DEFINE first == n - Limit + 1
              list == SubSeq(onBus, first, n)
  <2>1. first \in 1 .. n /\ n - first + 1 = Limit
    BY <1>1, <1>3
  <2>2. list = [i \in 1 .. (n - first + 1) |-> onBus[i + first - 1]]
    BY <1>1, <2>1
  <2>3. Limit \in DOMAIN list /\ list[Limit] = onBus[n]
    BY <1>1, <2>1, <2>2
  <2>4. list[Limit] \in ToSet(list)
    BY <2>3 DEF ToSet
  <2>. QED
    BY <1>1, <1>3, <2>3, <2>4 DEF ListEvents
<1>. QED
  BY <1>1, <1>2, <1>3

\* Every step of the bus.
LEMMA BusStep ==
  ASSUME TrailInv, UNCHANGED logVars,
         \/ BusRestart
         \/ \E e \in Emitters : \/ EmitEvent(e) \/ EmitEventSync(e) \/ Publish(e)
                                \/ PublishAgain(e) \/ PublishFails(e)
  PROVE  TrailInv'
<1>. AuditTypeOK /\ EventsAreSomewhere /\ RowsAreWritten
  BY DEF TrailInv
<1>. DEFINE Pcs == {"new", "publishing", "again", "returned", "kept", "saved",
                    "raised", "lost", "dropped", "interrupted"}
<1>a. emit \in [Emitters -> [pc : Pcs, way : Ways]] /\ onBus \in Seq(Emitters)
  BY DEF AuditTypeOK, EventsAreSomewhere
<1>b. ASSUME emit' \in [Emitters -> [pc : Pcs, way : Ways]], fallback' \subseteq Emitters,
             ToSet(onBus') \subseteq Emitters, heard' \in [Watchers -> SUBSET Emitters]
      PROVE  AuditTypeOK' /\ RowsAreWritten'
  BY <1>b DEF AuditTypeOK, RowsAreWritten, logVars
<1>c. AuditTypeOK /\ fallback \subseteq Emitters /\ ToSet(onBus) \subseteq Emitters
      /\ heard \in [Watchers -> SUBSET Emitters]
  BY DEF AuditTypeOK
<1>1. ASSUME NEW e \in Emitters, NEW pc \in Pcs \ {"kept", "saved", "lost", "dropped"}, NEW way \in Ways,
             emit' = [emit EXCEPT ![e] = [way |-> way, pc |-> pc]],
             onBus' = onBus \/ onBus' = Append(onBus, e), UNCHANGED <<heard, fallback>>
      PROVE  TrailInv'
  <2>. DEFINE r == [way |-> way, pc |-> pc]
  <2>1. r \in [pc : Pcs, way : Ways] /\ r.pc = pc
    OBVIOUS
  <2>. HIDE DEF r
  <2>2. /\ emit' \in [Emitters -> [pc : Pcs, way : Ways]] /\ emit'[e].pc = pc
        /\ \A x \in Emitters \ {e} : emit'[x] = emit[x]
    BY <1>1, <1>a, <2>1 DEF r
  <2>3. onBus' \in Seq(Emitters) /\ ToSet(onBus) \subseteq ToSet(onBus') /\ ToSet(onBus') \subseteq Emitters
    <3>1. CASE onBus' = onBus
      BY <1>a, <1>c, <3>1
    <3>2. CASE onBus' = Append(onBus, e)
      BY <1>a, <3>2, BusGrows
    <3>. QED
      BY <1>1, <3>1, <3>2
  <2>4. EventsAreSomewhere'
    BY <1>1, <2>2, <2>3 DEF EventsAreSomewhere
  <2>. QED
    BY <1>1, <1>b, <1>c, <2>2, <2>3, <2>4 DEF TrailInv
<1>2. ASSUME NEW e \in Emitters, EmitEvent(e) PROVE TrailInv'
  BY <1>1, <1>2 DEF EmitEvent, Ways
<1>3. ASSUME NEW e \in Emitters, EmitEventSync(e) PROVE TrailInv'
  <2>1. CASE emit' = [emit EXCEPT ![e] = [way |-> "scheduled", pc |-> "returned"]]
    BY <1>1, <1>3, <2>1 DEF EmitEventSync, Ways
  <2>2. CASE emit' = [emit EXCEPT ![e] = [way |-> "alone", pc |-> "publishing"]]
    BY <1>1, <1>3, <2>2 DEF EmitEventSync, Ways
  <2>. QED
    BY <1>3, <2>1, <2>2 DEF EmitEventSync
<1>d. ASSUME NEW e \in Emitters, NEW pc \in Pcs, Comes(e, pc)
      PROVE  /\ emit' \in [Emitters -> [pc : Pcs, way : Ways]]
             /\ emit'[e] = [way |-> emit[e].way, pc |-> pc]
             /\ emit'[e].way = emit[e].way /\ emit'[e].pc = pc
             /\ \A x \in Emitters \ {e} : emit'[x] = emit[x]
  <2>. DEFINE r == [emit[e] EXCEPT !.pc = pc]
  <2>1. r \in [pc : Pcs, way : Ways] /\ r.pc = pc /\ r.way = emit[e].way
        /\ r = [way |-> emit[e].way, pc |-> pc]
    BY <1>a
  <2>. HIDE DEF r
  <2>2. emit' = [emit EXCEPT ![e] = r]
    BY <1>d DEF Comes, r
  <2>. QED
    BY <1>a, <2>1, <2>2
<1>4. ASSUME NEW e \in Emitters, Publish(e) PROVE TrailInv'
  <2>1. /\ emit' \in [Emitters -> [pc : Pcs, way : Ways]] /\ emit'[e].pc = "kept"
        /\ \A x \in Emitters \ {e} : emit'[x] = emit[x]
    BY <1>4, <1>d DEF Publish
  <2>2. onBus' \in Seq(Emitters) /\ ToSet(onBus) \subseteq ToSet(onBus') /\ e \in ToSet(onBus')
        /\ ToSet(onBus') \subseteq Emitters
    BY <1>4, <1>a, BusGrows DEF Publish
  <2>3. heard' \in [Watchers -> SUBSET Emitters]
        /\ \A s \in Watchers : heard'[s] = heard[s] \cup {e}
    BY <1>4, <1>c DEF Publish
  <2>4. fallback' = fallback
    BY <1>4 DEF Publish
  <2>5. EventsAreSomewhere'
    BY <2>1, <2>2, <2>3, <2>4 DEF EventsAreSomewhere
  <2>. QED
    BY <1>b, <1>c, <2>1, <2>2, <2>3, <2>4, <2>5 DEF TrailInv
<1>5. ASSUME NEW e \in Emitters, PublishAgain(e) PROVE TrailInv'
  <2>1. emit' = [emit EXCEPT ![e] = [way |-> emit[e].way, pc |-> "again"]]
    <3>1. emit' = [emit EXCEPT ![e] = [emit[e] EXCEPT !.pc = "again"]]
      BY <1>5 DEF PublishAgain, Comes
    <3>2. [emit[e] EXCEPT !.pc = "again"] = [way |-> emit[e].way, pc |-> "again"]
      BY <1>a
    <3>. QED
      BY <3>1, <3>2
  <2>2. emit[e].way \in Ways
    BY <1>a
  <2>. QED
    BY <1>1, <1>5, <2>1, <2>2 DEF PublishAgain
<1>6. ASSUME NEW e \in Emitters, PublishFails(e) PROVE TrailInv'
  <2>1. PICK written \in BOOLEAN, outcome \in {"dropped", "saved", "lost", "raised"} :
          /\ outcome = IF emit[e].way = "scheduled" THEN AuditPublishDone(e, written)
                       ELSE HandleEmitFailure(e, written)
          /\ Comes(e, outcome) /\ WriteAuditFallback(e, outcome = "saved")
    BY <1>6 DEF PublishFails, AuditPublishDone, HandleEmitFailure
  <2>2. /\ emit' \in [Emitters -> [pc : Pcs, way : Ways]] /\ emit'[e].pc = outcome
        /\ emit'[e].way = emit[e].way
        /\ \A x \in Emitters \ {e} : emit'[x] = emit[x]
    BY <1>d, <2>1
  <2>3. /\ outcome = "lost" => emit[e].way = "scheduled"
        /\ outcome = "dropped" => e \notin Audited
    BY <2>1 DEF AuditPublishDone, HandleEmitFailure
  <2>4. /\ fallback \subseteq fallback' /\ fallback' \subseteq Emitters
        /\ outcome = "saved" => e \in fallback'
    BY <1>c, <2>1 DEF WriteAuditFallback
  <2>5. UNCHANGED <<onBus, heard>>
    BY <1>6 DEF PublishFails
  <2>6. EventsAreSomewhere'
    <3>1. \A x \in Emitters :
            /\ emit'[x].pc = "kept" => x \in ToSet(onBus) /\ \A s \in Watchers : x \in heard[s]
            /\ emit'[x].pc = "saved" => x \in fallback'
            /\ emit'[x].pc = "lost" => emit'[x].way = "scheduled"
            /\ emit'[x].pc = "dropped" => x \notin Audited
      BY <2>1, <2>2, <2>3, <2>4 DEF EventsAreSomewhere
    <3>. QED
      BY <3>1, <2>5, <1>a DEF EventsAreSomewhere
  <2>. QED
    BY <1>b, <1>c, <2>2, <2>4, <2>5, <2>6 DEF TrailInv
<1>7. CASE BusRestart
  <2>1. /\ emit' \in [Emitters -> [pc : Pcs, way : Ways]]
        /\ \A x \in Emitters : \/ emit'[x].pc = "interrupted"
                               \/ emit'[x] = emit[x] /\ emit[x].pc # "kept"
    BY <1>7, <1>a DEF BusRestart
  <2>2. onBus' = <<>> /\ UNCHANGED <<heard, fallback>>
    BY <1>7 DEF BusRestart
  <2>3. onBus' \in Seq(Emitters) /\ ToSet(onBus') \subseteq Emitters
    BY <2>2 DEF ToSet
  <2>4. EventsAreSomewhere'
    BY <2>1, <2>2, <2>3 DEF EventsAreSomewhere
  <2>. QED
    BY <1>b, <1>c, <2>1, <2>2, <2>3, <2>4 DEF TrailInv
<1>. QED
  BY <1>2, <1>3, <1>4, <1>5, <1>6, <1>7

\* Every step of the audience log.
LEMMA LogStep ==
  ASSUME TrailInv, UNCHANGED busVars,
         Configure \/ \E l \in Loggers : IgnoreEvent(l) \/ GetConn(l) \/ Insert(l)
  PROVE  TrailInv'
<1>. DEFINE LoggerPcs == {"new", "ignored", "writing", "written", "failed"}
            LoggerOK == logger' \in [Loggers -> [pc : LoggerPcs, has : Databases \cup {NoConnection}]]
<1>a. AuditTypeOK /\ EventsAreSomewhere /\ RowsAreWritten /\ EventsAreSomewhere'
  BY DEF TrailInv, EventsAreSomewhere, busVars
<1>b. /\ logger \in [Loggers -> [pc : LoggerPcs, has : Databases \cup {NoConnection}]]
      /\ logged \in [Databases -> SUBSET Loggers]
      /\ wanted \in Databases /\ database \in {NoConnection, wanted}
      /\ NoConnection \notin Databases /\ Configurations \in Nat
  BY <1>a, AuditAssumption DEF AuditTypeOK, NoConnection, Databases
<1>c. ASSUME LoggerOK, logged' \in [Databases -> SUBSET Loggers], wanted' \in Databases,
             database' \in {NoConnection, wanted'}, RowsAreWritten'
      PROVE  TrailInv'
  BY <1>a, <1>c DEF TrailInv, AuditTypeOK, busVars
<1>1. CASE Configure
  <2>1. wanted' \in Databases /\ database' = NoConnection /\ UNCHANGED <<logger, logged>>
    BY <1>1, <1>b DEF Configure, Databases
  <2>2. RowsAreWritten'
    BY <1>a, <2>1 DEF RowsAreWritten
  <2>. QED
    BY <1>b, <1>c, <2>1, <2>2
<1>2. ASSUME NEW l \in Loggers, IgnoreEvent(l) PROVE TrailInv'
  <2>1. /\ LoggerOK /\ logger'[l].pc = "ignored" /\ logger[l].pc = "new"
        /\ \A x \in Loggers \ {l} : logger'[x] = logger[x]
        /\ UNCHANGED <<database, wanted, logged>>
    BY <1>2, <1>b DEF IgnoreEvent
  <2>2. RowsAreWritten'
    BY <1>a, <2>1 DEF RowsAreWritten
  <2>. QED
    BY <1>b, <1>c, <2>1, <2>2
<1>3. ASSUME NEW l \in Loggers, GetConn(l) PROVE TrailInv'
  <2>1. database' = wanted /\ database' \in Databases /\ UNCHANGED <<wanted, logged>>
        /\ logger[l].pc = "new"
    BY <1>3, <1>b DEF GetConn
  <2>. DEFINE r == [pc |-> "writing", has |-> database']
  <2>2. r \in [pc : LoggerPcs, has : Databases \cup {NoConnection}] /\ r.pc = "writing"
        /\ r.has \in Databases
    BY <2>1
  <2>3. logger' = [logger EXCEPT ![l] = r]
    BY <1>3 DEF GetConn
  <2>. HIDE DEF r
  <2>4. LoggerOK /\ logger'[l] = r /\ \A x \in Loggers \ {l} : logger'[x] = logger[x]
    BY <1>b, <2>2, <2>3
  <2>5. RowsAreWritten'
    BY <1>a, <2>1, <2>2, <2>4 DEF RowsAreWritten
  <2>. QED
    BY <1>b, <1>c, <2>1, <2>4, <2>5
<1>4. ASSUME NEW l \in Loggers, Insert(l) PROVE TrailInv'
  <2>1. logger[l].pc = "writing" /\ UNCHANGED <<database, wanted>> /\ logger[l].has \in Databases
    BY <1>4, <1>a DEF Insert, RowsAreWritten
  <2>2. CASE /\ logger[l].has = database
             /\ logger' = [logger EXCEPT ![l].pc = "written"]
             /\ logged' = [logged EXCEPT ![database] = @ \cup {l}]
    <3>1. /\ LoggerOK /\ logger'[l].pc = "written" /\ logger'[l].has = database
          /\ \A x \in Loggers \ {l} : logger'[x] = logger[x]
      BY <1>b, <2>2
    <3>2. /\ logged' \in [Databases -> SUBSET Loggers] /\ database \in Databases
          /\ logged'[database] = logged[database] \cup {l}
          /\ \A d \in Databases \ {database} : logged'[d] = logged[d]
      BY <1>b, <2>1, <2>2
    <3>3. RowsAreWritten'
      BY <1>a, <2>1, <3>1, <3>2 DEF RowsAreWritten
    <3>. QED
      BY <1>b, <1>c, <2>1, <3>1, <3>2, <3>3
  <2>3. CASE logger' = [logger EXCEPT ![l].pc = "failed"] /\ UNCHANGED logged
    <3>1. /\ LoggerOK /\ logger'[l].pc = "failed" /\ logger'[l].has = logger[l].has
          /\ \A x \in Loggers \ {l} : logger'[x] = logger[x]
      BY <1>b, <2>3
    <3>2. RowsAreWritten'
      BY <1>a, <2>1, <2>3, <3>1 DEF RowsAreWritten
    <3>. QED
      BY <1>b, <1>c, <2>1, <2>3, <3>1, <3>2
  <2>. QED
    BY <1>4, <2>2, <2>3 DEF Insert
<1>. QED
  BY <1>1, <1>2, <1>3, <1>4

\* Every step of publishing, auditing and restarting keeps the trail.
LEMMA TrailStep == TrailInv /\ [AuditNext]_auditVars => TrailInv'
<1> SUFFICES ASSUME TrailInv, [AuditNext]_auditVars PROVE TrailInv'
  OBVIOUS
<1>1. CASE BusRestart
  BY <1>1, BusStep DEF BusRestart
<1>2. CASE Configure
  BY <1>2, LogStep DEF Configure
<1>3. ASSUME NEW e \in Emitters,
             EmitEvent(e) \/ EmitEventSync(e) \/ Publish(e) \/ PublishAgain(e) \/ PublishFails(e)
      PROVE  TrailInv'
  <2>1. UNCHANGED logVars
    BY <1>3 DEF EmitEvent, EmitEventSync, Publish, PublishAgain, PublishFails
  <2>. QED
    BY <1>3, <2>1, BusStep
<1>4. ASSUME NEW l \in Loggers, IgnoreEvent(l) \/ GetConn(l) \/ Insert(l) PROVE TrailInv'
  <2>1. UNCHANGED busVars
    BY <1>4 DEF IgnoreEvent, GetConn, Insert
  <2>. QED
    BY <1>4, <2>1, LogStep
<1>5. CASE UNCHANGED auditVars
  BY <1>5 DEF auditVars, TrailInv, AuditTypeOK, EventsAreSomewhere, RowsAreWritten
<1>. QED
  BY <1>1, <1>2, <1>3, <1>4, <1>5 DEF AuditNext

\* The trail starts empty.
LEMMA TrailStart == AuditInit => TrailInv
<1> SUFFICES ASSUME AuditInit PROVE TrailInv
  OBVIOUS
<1>1. onBus \in Seq(Emitters) /\ ToSet(onBus) = {}
  BY DEF AuditInit, ToSet
<1>2. 0 \in Databases /\ NewEvent \in [pc : {"new"}, way : Ways]
  BY AuditAssumption DEF Databases, NewEvent, Ways
<1>3. AuditTypeOK
  BY <1>1, <1>2 DEF AuditInit, AuditTypeOK
<1>. QED
  BY <1>1, <1>2, <1>3 DEF AuditInit, TrailInv, EventsAreSomewhere, RowsAreWritten

\* On such a trail, an audited event is found.
LEMMA TrailIsFound == TrailInv => AuditedIsFound
<1> SUFFICES ASSUME TrailInv PROVE AuditedIsFound
  OBVIOUS
<1>1. ASSUME NEW e \in Audited,
             emit[e].pc \notin {"new", "publishing", "again", "returned", "interrupted"}
      PROVE  \/ GetEvent(e) /\ \A s \in Watchers : e \in heard[s]
             \/ e \in fallback \/ emit[e].pc = "raised"
             \/ emit[e].pc = "lost" /\ emit[e].way = "scheduled"
  <2>1. e \in Emitters /\ emit[e].pc \in {"kept", "saved", "raised", "lost", "dropped"}
    BY <1>1, AuditAssumption DEF TrailInv, AuditTypeOK
  <2>. QED
    BY <2>1 DEF TrailInv, EventsAreSomewhere, GetEvent
<1>2. onBus # <<>> => Last(onBus) \in ToSet(ListEvents)
  BY NewestIsListed DEF TrailInv, EventsAreSomewhere
<1>3. ASSUME NEW l \in Loggers, NEW d \in Databases
      PROVE  /\ l \in logged[d] <=> logger[l].pc = "written" /\ logger[l].has = d
             /\ d = database /\ logger[l] = [pc |-> "written", has |-> d] => l \in GetEvents(d)
  <2>1. d # NoConnection
    BY AuditAssumption DEF NoConnection, Databases
  <2>2. logger[l] = [pc |-> "written", has |-> d] => logger[l].pc = "written" /\ logger[l].has = d
    OBVIOUS
  <2>. QED
    BY <2>1, <2>2 DEF TrailInv, RowsAreWritten, GetEvents
<1>. QED
  BY <1>1, <1>2, <1>3 DEF AuditedIsFound

--------------------------------------------------------------------------------
(* BuyerDesk: calls of the tools over one database and one key file.       *)

\* What a call of a tool may ask for, by the resource it is about.
Asks(r, c) ==
    \/ r = "keys" /\ c \in [to : DeskSellers, add : BOOLEAN]
    \/ r = "order" /\ c \in [to : Statuses]
    \/ r = "approval" /\ c \in [to : {"approved", "rejected", "other"}]
    \/ r = "template" /\ c \in [how : {"mcp"} \cup Changes, to : Weights]
    \/ r = "dealTemplate" /\ c \in [how : {"mcp"} \cup Changes, to : {"valid"}]
    \/ r = "dealTemplate" /\ c = [how |-> "instantiate"]
    \/ r = "deals" /\ c = [how |-> "negotiate"]

\* The calls under way, each with a number of its own.
Active == {s \in Sessions : session[s] # NoSession}
CallOK(c, n) ==
    /\ c = [pc |-> c.pc, on |-> c.on, saw |-> c.saw, change |-> c.change, nth |-> c.nth]
    /\ c.pc \in {"read", "truncated", "saved"} /\ Asks(c.on, c.change)
    /\ c.nth \in 1 .. n
    /\ c.pc = "truncated" => c.on = "keys"
    /\ c.pc = "saved" => c.on = "deals"
    /\ c.on = "keys" => c.saw \subseteq DeskSellers
DeskShape ==
    /\ shared = [r \in Resources |-> shared[r]] /\ meant = [r \in Resources |-> meant[r]]
    /\ session = [s \in Sessions |-> session[s]]
    /\ meant.keys \subseteq DeskSellers
    /\ \A s \in Active : CallOK(session[s], calls)
    /\ \A s, t \in Active : session[s].nth = session[t].nth => s = t

\* On a resource that was never disturbed there is one call at a time, it goes by what is
\* there now, and what is there is what the calls meant; the rest never differs.
OneAtATime ==
    \A r \in Resources \ disturbed : \A s, t \in Active :
        session[s].on = r /\ session[t].on = r => s = t
SawWhatIs ==
    /\ "keys" \notin disturbed => \A s \in Active : session[s].on = "keys" => session[s].saw = meant.keys
    /\ "approval" \notin disturbed =>
          \A s \in Active : session[s].on = "approval" => session[s].saw = shared.approval
MeantIsShared ==
    /\ \A r \in {"order", "template", "dealTemplate"} : shared[r] = meant[r]
    /\ "approval" \notin disturbed => shared.approval = meant.approval
    /\ "keys" \notin disturbed /\ (\A s \in Active : session[s].pc # "truncated") =>
          shared.keys = meant.keys
\* A deal of a call that goes on was not reported yet.
DealsAreSaved ==
    /\ \A s \in Active : ~opened[session[s].nth].told
    /\ \A n \in 1 .. MaxCalls : n > calls => opened[n] = NoDeal
    /\ \A n \in 1 .. MaxCalls :
         opened[n].told /\ opened[n].status = "negotiating" => opened[n].round
DeskInv == DeskTypeOK /\ DeskShape /\ OneAtATime /\ SawWhatIs /\ MeantIsShared /\ DealsAreSaved

\* A call knows its resource.
LEMMA AsksAreAbout == ASSUME NEW r, NEW c, Asks(r, c) PROVE r \in Resources \cup {"deals"}
BY DEF Asks, Resources

\* What a call under way on a shared file or row holds.
LEMMA CallParts ==
  ASSUME NEW c, NEW n \in Nat, CallOK(c, n)
  PROVE  /\ c.pc \in {"read", "truncated", "saved"} /\ c.pc # "idle" /\ c # NoSession
         /\ c.on \in Resources \cup {"deals"} /\ c.nth \in 1 .. n /\ c.nth \in Nat
         /\ c.pc = "truncated" => c.on = "keys"
         /\ c.pc = "saved" => c.on = "deals"
         /\ c.on = "keys" => c.saw \subseteq DeskSellers /\ c.change.to \in DeskSellers
         /\ c.on = "order" => c.change.to \in Statuses
         /\ c.on = "approval" => c.change.to \in {"approved", "rejected", "other"}
         /\ c.on = "template" => c.change \in [how : {"mcp"} \cup Changes, to : Weights]
<1>1. /\ c.pc \in {"read", "truncated", "saved"} /\ Asks(c.on, c.change) /\ c.nth \in 1 .. n
      /\ c.pc = "truncated" => c.on = "keys"
      /\ c.pc = "saved" => c.on = "deals"
      /\ c.on = "keys" => c.saw \subseteq DeskSellers
  BY DEF CallOK
<1>2. c.pc # "idle" /\ c # NoSession
  BY <1>1 DEF NoSession
<1>3. /\ c.on \in Resources \cup {"deals"}
  BY <1>1, AsksAreAbout
<1>4. /\ c.on = "keys" => c.change.to \in DeskSellers
      /\ c.on = "order" => c.change.to \in Statuses
      /\ c.on = "approval" => c.change.to \in {"approved", "rejected", "other"}
      /\ c.on = "template" => c.change \in [how : {"mcp"} \cup Changes, to : Weights]
  BY <1>1 DEF Asks
<1>. QED
  BY <1>1, <1>2, <1>3, <1>4

\* A call stays one when another is counted.
LEMMA CallsCount ==
  ASSUME NEW c, NEW n \in Nat, CallOK(c, n) PROVE CallOK(c, n + 1)
BY DEF CallOK

\* A call that begins.
LEMMA CallStep ==
  ASSUME DeskInv, "torn" \notin DeskSellers, NEW s \in Sessions, NEW r, NEW change,
         Asks(r, change), Call(s, r, change)
  PROVE  DeskInv'
<1>. DEFINE k == [pc |-> "read", on |-> r, saw |-> ReadResource(r), change |-> change, nth |-> calls']
<1>1. /\ s \notin Active /\ calls' = calls + 1 /\ calls' \in 1 .. MaxCalls /\ calls \in Nat
      /\ session' = [session EXCEPT ![s] = k]
      /\ disturbed' = IF Busy(r) THEN disturbed \cup ({r} \cap Resources) ELSE disturbed
      /\ UNCHANGED <<shared, meant, opened>>
  BY DeskAssumption DEF Call, Active, DeskInv, DeskTypeOK
<1>2. /\ k = [pc |-> k.pc, on |-> k.on, saw |-> k.saw, change |-> k.change, nth |-> k.nth]
      /\ k.pc = "read" /\ k.on = r /\ k.saw = ReadResource(r) /\ k.change = change /\ k.nth = calls'
      /\ k # NoSession /\ k.pc # "idle"
  BY DEF NoSession
<1>3. r = "keys" => ReadResource(r) = LoadKeys /\ ReadResource(r) \subseteq DeskSellers
  <2>1. shared.keys = Torn \/ shared.keys \subseteq DeskSellers
    BY DEF DeskInv, DeskTypeOK
  <2>2. LoadKeys \subseteq DeskSellers
    BY <2>1 DEF LoadKeys
  <2>. QED
    BY <2>2 DEF ReadResource
<1>4. r = "approval" => ReadResource(r) = shared.approval
  BY DEF ReadResource
<1>. HIDE DEF k
<1>5. /\ session' = [t \in Sessions |-> session'[t]] /\ session'[s] = k
      /\ \A t \in Sessions \ {s} : session'[t] = session[t]
      /\ Active' = Active \cup {s}
  BY <1>1, <1>2 DEF DeskInv, DeskShape, Active
<1>6. \A t \in Active : CallOK(session[t], calls) /\ CallOK(session'[t], calls')
  <2>1. \A t \in Active : t # s /\ session'[t] = session[t]
    BY <1>1, <1>5 DEF Active
  <2>2. \A t \in Active : CallOK(session[t], calls)
    BY DEF DeskInv, DeskShape
  <2>. QED
    BY <1>1, <2>1, <2>2, CallsCount
<1>7. CallOK(session'[s], calls')
  BY <1>1, <1>2, <1>3, <1>5 DEF CallOK
<1>8. \A t \in Active : session[t].nth # k.nth
  <2>1. \A t \in Active : session[t].nth \in 1 .. calls
    BY <1>1, <1>6, CallParts
  <2>. QED
    BY <1>1, <1>2, <2>1
<1>9. DeskShape'
  BY <1>1, <1>5, <1>6, <1>7, <1>8 DEF DeskInv, DeskShape, Active
<1>10. \A t \in Active : session[t].on = r /\ r \in Resources => r \in disturbed'
  <2>1. \A t \in Active : session[t].pc # "idle"
    BY <1>1, <1>6, CallParts
  <2>. QED
    BY <1>1, <2>1 DEF Busy, Active
<1>11. OneAtATime'
  <2>1. \A x \in Resources \ disturbed' : x \notin disturbed
    BY <1>1
  <2>. QED
    BY <1>2, <1>5, <1>10, <2>1 DEF DeskInv, OneAtATime, Active
<1>12. MeantIsShared'
  <2>1. (\A t \in Active' : session'[t].pc # "truncated") => (\A t \in Active : session[t].pc # "truncated")
    BY <1>1, <1>5 DEF Active
  <2>. QED
    BY <1>1, <2>1 DEF DeskInv, MeantIsShared
<1>13. SawWhatIs'
  <2>1. ASSUME r = "keys", "keys" \notin disturbed' PROVE k.saw = meant.keys
    <3>1. \A t \in Active : session[t].pc # "truncated"
      BY <1>1, <1>6, <1>10, <2>1, CallParts DEF Resources
    <3>2. shared.keys = meant.keys
      BY <1>1, <2>1, <3>1 DEF DeskInv, MeantIsShared
    <3>3. shared.keys # Torn
      BY <3>2 DEF DeskInv, DeskShape, Torn
    <3>. QED
      BY <1>2, <1>3, <2>1, <3>2, <3>3 DEF LoadKeys
  <2>2. r = "approval" => k.saw = shared.approval
    BY <1>2, <1>4
  <2>. QED
    BY <1>1, <1>2, <1>5, <2>1, <2>2 DEF DeskInv, SawWhatIs, Active
<1>14. DealsAreSaved'
  <2>1. opened[calls'] = NoDeal /\ NoDeal.told = FALSE
    BY <1>1 DEF DeskInv, DealsAreSaved, NoDeal
  <2>. QED
    BY <1>1, <1>2, <1>5, <2>1 DEF DeskInv, DealsAreSaved, Active
<1>15. DeskTypeOK'
  <2>1. r \in Resources \cup {"deals"}
    BY AsksAreAbout
  <2>2. disturbed' \subseteq Resources /\ calls' \in 0 .. MaxCalls
    BY <1>1 DEF DeskInv, DeskTypeOK
  <2>3. \A t \in Sessions : session'[t] # NoSession =>
          session'[t].pc \in {"read", "truncated", "saved"} /\ session'[t].on \in Resources \cup {"deals"}
    BY <1>2, <1>5, <2>1 DEF DeskInv, DeskTypeOK
  <2>. QED
    BY <1>1, <2>2, <2>3 DEF DeskInv, DeskTypeOK, GetOrderStatus, GetOrder
<1>. QED
  BY <1>9, <1>11, <1>12, <1>13, <1>14, <1>15 DEF DeskInv

\* A call that is over.
LEMMA EndedCall ==
  ASSUME DeskShape, NEW s \in Active, session' = [session EXCEPT ![s] = NoSession]
  PROVE  /\ session' = [t \in Sessions |-> session'[t]] /\ session'[s] = NoSession
         /\ Active' = Active \ {s} /\ \A t \in Sessions \ {s} : session'[t] = session[t]
         /\ \A t \in Active' : t \in Active /\ session'[t] = session[t]
BY DEF DeskShape, Active

\* The end of a call frees its session and keeps the shape of the rest.
LEMMA EndKeepsShape ==
  ASSUME DeskShape, NEW s \in Active, session' = [session EXCEPT ![s] = NoSession],
         shared' = [r \in Resources |-> shared'[r]], meant' = [r \in Resources |-> meant'[r]],
         meant'.keys \subseteq DeskSellers, UNCHANGED calls
  PROVE  DeskShape'
<1>1. /\ session' = [t \in Sessions |-> session'[t]]
      /\ \A t \in Active' : t \in Active /\ session'[t] = session[t]
  BY EndedCall
<1>2. \A t \in Active' : CallOK(session'[t], calls')
  <2> SUFFICES ASSUME NEW t \in Active' PROVE CallOK(session'[t], calls')
    OBVIOUS
  <2>1. CallOK(session[t], calls)
    BY <1>1 DEF DeskShape
  <2>. QED
    BY <1>1, <2>1
<1>. QED
  BY <1>1, <1>2 DEF DeskShape

\* A call ends with nothing written: it was refused, or it failed.
LEMMA EndStep ==
  ASSUME DeskInv, NEW s \in Active, session' = [session EXCEPT ![s] = NoSession],
         disturbed \subseteq disturbed', disturbed' \subseteq Resources,
         session[s].pc = "truncated" => "keys" \in disturbed',
         UNCHANGED <<shared, meant, opened, calls>>
  PROVE  DeskInv'
<1>. DeskShape
  BY DEF DeskInv
<1>1. /\ session'[s] = NoSession /\ Active' = Active \ {s}
      /\ \A t \in Sessions \ {s} : session'[t] = session[t]
      /\ \A t \in Active' : t \in Active /\ session'[t] = session[t]
  BY EndedCall
<1>2. DeskShape'
  BY EndKeepsShape DEF DeskShape
<1>3. OneAtATime' /\ SawWhatIs'
  BY <1>1 DEF DeskInv, OneAtATime, SawWhatIs
<1>4. MeantIsShared'
  <2>1. "keys" \notin disturbed' /\ (\A t \in Active' : session'[t].pc # "truncated")
          => \A t \in Active : session[t].pc # "truncated"
    BY <1>1
  <2>. QED
    BY <2>1 DEF DeskInv, MeantIsShared
<1>5. DealsAreSaved'
  BY <1>1 DEF DeskInv, DealsAreSaved
<1>6. DeskTypeOK'
  BY <1>1 DEF DeskInv, DeskTypeOK, GetOrderStatus, GetOrder
<1>. QED
  BY <1>2, <1>3, <1>4, <1>5, <1>6 DEF DeskInv

\* The key file is truncated, or a negotiation is saved: the call goes on.
LEMMA GoneOn ==
  ASSUME DeskShape, NEW s \in Active, NEW pc \in {"truncated", "saved"},
         pc = "truncated" => session[s].on = "keys", pc = "saved" => session[s].on = "deals",
         session' = [session EXCEPT ![s].pc = pc],
         shared' = [r \in Resources |-> shared'[r]], UNCHANGED <<meant, calls>>
  PROVE  /\ DeskShape' /\ Active' = Active /\ session'[s].pc = pc
         /\ \A t \in Active : /\ session'[t].on = session[t].on /\ session'[t].saw = session[t].saw
                              /\ session'[t].nth = session[t].nth
         /\ \A t \in Active \ {s} : session'[t] = session[t]
<1>. DEFINE c == session[s]
            k == [c EXCEPT !.pc = pc]
<1>1. CallOK(c, calls) /\ c = [pc |-> c.pc, on |-> c.on, saw |-> c.saw, change |-> c.change, nth |-> c.nth]
  BY DEF DeskShape, CallOK
<1>2. /\ k = [pc |-> pc, on |-> c.on, saw |-> c.saw, change |-> c.change, nth |-> c.nth]
  BY <1>1
<1>3. /\ k = [pc |-> k.pc, on |-> k.on, saw |-> k.saw, change |-> k.change, nth |-> k.nth]
      /\ k.pc = pc /\ k.on = c.on /\ k.saw = c.saw /\ k.change = c.change /\ k.nth = c.nth
  BY <1>2
<1>4. k # NoSession
  BY <1>3 DEF NoSession
<1>5. session' = [session EXCEPT ![s] = k]
  OBVIOUS
<1>. HIDE DEF k
<1>6. /\ session' = [t \in Sessions |-> session'[t]] /\ session'[s] = k
      /\ \A t \in Sessions \ {s} : session'[t] = session[t]
      /\ Active' = Active
  BY <1>4, <1>5 DEF DeskShape, Active
<1>7. CallOK(session'[s], calls')
  BY <1>1, <1>3, <1>6 DEF CallOK
<1>8. \A t \in Active \ {s} : session'[t] = session[t] /\ CallOK(session'[t], calls')
  BY <1>6 DEF DeskShape, Active
<1>9. \A t \in Active : /\ session'[t].on = session[t].on /\ session'[t].saw = session[t].saw
                        /\ session'[t].nth = session[t].nth
  BY <1>3, <1>6, <1>8
<1>10. \A t \in Active' : CallOK(session'[t], calls')
  BY <1>6, <1>7, <1>8
<1>11. \A t, u \in Active' : session'[t].nth = session'[u].nth => t = u
  BY <1>6, <1>9 DEF DeskShape
<1>12. DeskShape'
  BY <1>6, <1>10, <1>11 DEF DeskShape
<1>. QED
  BY <1>3, <1>6, <1>8, <1>9, <1>12

\* Truncating the key file for a write keeps the invariant: a reader may see it torn.
LEMMA TruncateStep ==
  ASSUME DeskInv, NEW s \in Sessions, TruncateKeys(s)
  PROVE  DeskInv'
<1>. DeskShape
  BY DEF DeskInv
<1>1. /\ s \in Active /\ session[s].on = "keys"
      /\ shared' = [shared EXCEPT !.keys = Torn]
      /\ session' = [session EXCEPT ![s].pc = "truncated"]
      /\ UNCHANGED <<meant, disturbed, opened, calls>>
  BY DEF TruncateKeys, Active, NoSession
<1>2. /\ shared' = [r \in Resources |-> shared'[r]] /\ shared'["keys"] = Torn
      /\ \A r \in Resources \ {"keys"} : shared'[r] = shared[r]
  BY <1>1 DEF DeskShape, Resources
<1>3. /\ DeskShape' /\ Active' = Active /\ session'[s].pc = "truncated"
      /\ \A t \in Active : /\ session'[t].on = session[t].on /\ session'[t].saw = session[t].saw
                           /\ session'[t].nth = session[t].nth
      /\ \A t \in Active \ {s} : session'[t] = session[t]
  BY <1>1, <1>2, GoneOn
<1>4. shared'.approval = shared.approval
      /\ \A r \in {"order", "template", "dealTemplate"} : shared'[r] = shared[r]
  BY <1>2 DEF Resources
<1>5. OneAtATime' /\ SawWhatIs' /\ MeantIsShared' /\ DealsAreSaved'
  BY <1>1, <1>3, <1>4 DEF DeskInv, OneAtATime, SawWhatIs, MeantIsShared, DealsAreSaved
<1>6. DeskTypeOK'
  <2>1. \A t \in Sessions : session'[t] # NoSession =>
          session'[t].pc \in {"read", "truncated", "saved"} /\ session'[t].on \in Resources \cup {"deals"}
    <3>1. \A t \in Sessions : session'[t] # NoSession => t \in Active
      BY <1>3 DEF Active
    <3>. QED
      BY <1>3, <3>1 DEF DeskInv, DeskTypeOK, Active
  <2>2. shared'.keys = Torn /\ shared'.order = shared.order /\ shared'.template = shared.template
        /\ shared'.dealTemplate = shared.dealTemplate
    BY <1>2, <1>4
  <2>3. /\ shared'.keys \in (SUBSET DeskSellers) \cup {Torn} /\ shared'.order \in Statuses
        /\ shared'.approval \in {"pending", "approved", "rejected"}
        /\ shared'.template \in Weights \cup {NoTemplate}
        /\ shared'.dealTemplate \in Weights \cup {NoTemplate}
    BY <1>4, <2>2 DEF DeskInv, DeskTypeOK, GetOrderStatus, GetOrder
  <2>. QED
    BY <1>1, <2>1, <2>3 DEF DeskInv, DeskTypeOK, GetOrderStatus, GetOrder
<1>. QED
  BY <1>3, <1>5, <1>6 DEF DeskInv

\* What a template tool's change leaves.
LEMMA TemplatesWritten ==
  /\ \A c \in [how : {"mcp"} \cup Changes, to : Weights] :
       /\ SpoWritten(c) \in Weights \cup {NoTemplate}
       /\ c.how # "mcp" /\ ~BadWeights(c) => SpoWritten(c) # "invalid"
  /\ \A c : DealTemplateWritten(c) \in Weights \cup {NoTemplate}
<1>1. ASSUME NEW c \in [how : {"mcp"} \cup Changes, to : Weights]
      PROVE  /\ SpoWritten(c) \in Weights \cup {NoTemplate}
             /\ c.how # "mcp" /\ ~BadWeights(c) => SpoWritten(c) # "invalid"
  <2>1. CASE c.how \in {"mcp", "create", "update"}
    <3>1. SpoSaved(c) \cup SpoUpdated(c) = {c.to} /\ c.how # "delete"
      BY <2>1 DEF SpoSaved, SpoUpdated
    <3>2. SpoWritten(c) = c.to
      BY <3>1 DEF SpoWritten
    <3>. QED
      BY <2>1, <3>2 DEF BadWeights, SpoCreateRefused, SpoUpdateRefused
  <2>2. CASE c.how = "delete"
    <3>1. SpoSaved(c) \cup SpoUpdated(c) = {}
      BY <2>2 DEF SpoSaved, SpoUpdated
    <3>2. SpoWritten(c) = NoTemplate
      BY <2>2, <3>1 DEF SpoWritten
    <3>. QED
      BY <3>2 DEF NoTemplate
  <2>. QED
    BY <2>1, <2>2 DEF Changes
<1>2. \A c : DealTemplateWritten(c) \in Weights \cup {NoTemplate}
  BY DEF DealTemplateWritten, Weights
<1>. QED
  BY <1>1, <1>2

\* A write: of an undisturbed resource it is what the call means.
LEMMA WriteStep ==
  ASSUME DeskInv, NEW s \in Sessions, WriteResource(s)
  PROVE  DeskInv' /\ ("approval" \notin disturbed /\ shared.approval # "pending" =>
                        shared'.approval = shared.approval)
<1>. DeskShape
  BY DEF DeskInv
<1>. DEFINE c == session[s]
            r == c.on
            w == Written(r, c.saw, c.change)
            m == IF RefusedCall(r, meant[r], c.change) THEN meant[r]
                 ELSE Written(r, meant[r], c.change)
<1>1. /\ s \in Active /\ CallOK(c, calls)
      /\ (c.pc = "truncated" \/ (c.pc = "read" /\ r # "keys"))
      /\ calls \in Nat /\ ~RefusedCall(r, Basis(c), c.change) /\ ~MakesDeal(c)
      /\ shared' = [shared EXCEPT ![r] = w] /\ meant' = [meant EXCEPT ![r] = m]
      /\ session' = [session EXCEPT ![s] = NoSession]
      /\ UNCHANGED <<disturbed, opened, calls>>
  BY DeskAssumption DEF WriteResource, Active, NoSession, DeskShape, DeskInv, DeskTypeOK
<1>2. r \in Resources
  BY <1>1, CallParts DEF MakesDeal
<1>. HIDE DEF w, m
<1>3. /\ session'[s] = NoSession /\ Active' = Active \ {s}
      /\ \A t \in Sessions \ {s} : session'[t] = session[t]
      /\ \A t \in Active' : t \in Active /\ session'[t] = session[t]
  BY <1>1, EndedCall
<1>4. /\ shared' = [x \in Resources |-> shared'[x]] /\ shared'[r] = w
      /\ \A x \in Resources \ {r} : shared'[x] = shared[x]
      /\ meant' = [x \in Resources |-> meant'[x]] /\ meant'[r] = m
      /\ \A x \in Resources \ {r} : meant'[x] = meant[x]
  BY <1>1, <1>2 DEF DeskShape
<1>5. ASSUME r = "keys"
      PROVE  /\ w \subseteq DeskSellers /\ m \subseteq DeskSellers
             /\ "keys" \notin disturbed => w = m
  <2>1. c.saw \subseteq DeskSellers /\ meant[r] \subseteq DeskSellers /\ c.change.to \in DeskSellers
    BY <1>1, <1>5, CallParts DEF DeskShape
  <2>2. w = KeysWritten(c.saw, c.change)
        /\ m = IF RefusedCall(r, meant[r], c.change) THEN meant[r] ELSE KeysWritten(meant[r], c.change)
    BY <1>5 DEF w, m, Written
  <2>3. Basis(c) = c.saw
    BY <1>5 DEF Basis, Templates
  <2>4. "keys" \notin disturbed => c.saw = meant[r]
    BY <1>1, <1>5 DEF DeskInv, SawWhatIs
  <2>. QED
    BY <1>1, <2>1, <2>2, <2>3, <2>4 DEF KeysWritten
<1>6. r = "order" => w = m /\ w \in Statuses
  <2>1. r = "order" => c.change.to \in Statuses
    BY <1>1, CallParts
  <2>. QED
    BY <2>1 DEF w, m, Written, RefusedCall, Templates, OrderWritten
<1>7. ASSUME r = "approval"
      PROVE  /\ w \in {"approved", "rejected"}
             /\ "approval" \notin disturbed => w = m /\ shared.approval = "pending"
  <2>1. Basis(c) = c.saw /\ c.change.to \in {"approved", "rejected", "other"}
    BY <1>1, <1>7, CallParts DEF Basis, Templates
  <2>2. c.saw = "pending" /\ c.change.to # "other"
    BY <1>1, <1>7, <2>1 DEF RefusedCall, NoDecision
  <2>3. w = c.change.to
        /\ m = IF RefusedCall(r, meant[r], c.change) THEN meant[r] ELSE c.change.to
    BY <1>7 DEF w, m, Written, ApprovalWritten
  <2>4. "approval" \notin disturbed => c.saw = shared.approval /\ shared.approval = meant.approval
    BY <1>1, <1>7 DEF DeskInv, SawWhatIs, MeantIsShared
  <2>. QED
    BY <1>7, <2>1, <2>2, <2>3, <2>4 DEF RefusedCall, NoDecision, Templates
<1>8. r \in Templates => w = m /\ w \in Weights \cup {NoTemplate}
  <2>1. ASSUME r = "template" PROVE w = m /\ w \in Weights \cup {NoTemplate}
    <3>1. c.change \in [how : {"mcp"} \cup Changes, to : Weights] /\ c.change.how # "instantiate"
      BY <1>1, <2>1, CallParts DEF Changes
    <3>2. Basis(c) = meant[r]
      BY <2>1, <3>1 DEF Basis, Templates, DeskInv, MeantIsShared
    <3>3. w = SpoWritten(c.change) /\ m = SpoWritten(c.change)
      BY <1>1, <2>1, <3>2 DEF w, m, Written
    <3>. QED
      BY <3>1, <3>3, TemplatesWritten
  <2>2. ASSUME r = "dealTemplate" PROVE w = m /\ w \in Weights \cup {NoTemplate}
    <3>1. c.change.how # "instantiate"
      BY <1>1, <2>2 DEF MakesDeal
    <3>2. Basis(c) = meant[r]
      BY <2>2, <3>1 DEF Basis, Templates, DeskInv, MeantIsShared
    <3>3. w = DealTemplateWritten(c.change) /\ m = DealTemplateWritten(c.change)
      BY <1>1, <2>2, <3>2 DEF w, m, Written
    <3>. QED
      BY <3>3, TemplatesWritten
  <2>. QED
    BY <2>1, <2>2 DEF Templates
<1>. HIDE DEF r
<1>9. meant'.keys \subseteq DeskSellers /\ DeskShape'
  <2>1. meant'.keys \subseteq DeskSellers
    BY <1>4, <1>5 DEF DeskShape, Resources
  <2>. QED
    BY <1>1, <1>4, <2>1, EndKeepsShape
<1>10. \A t \in Active' : session[t].on = r => r \in disturbed
  BY <1>1, <1>2, <1>3 DEF DeskInv, OneAtATime, r
<1>11. OneAtATime'
  BY <1>1, <1>3 DEF DeskInv, OneAtATime
<1>12. SawWhatIs'
  <2>1. r # "keys" => meant'.keys = meant.keys
    BY <1>4 DEF Resources
  <2>2. r # "approval" => shared'.approval = shared.approval
    BY <1>4 DEF Resources
  <2>. QED
    BY <1>1, <1>3, <1>10, <2>1, <2>2 DEF DeskInv, SawWhatIs
<1>13. MeantIsShared'
  <2>1. \A x \in {"order", "template", "dealTemplate"} : shared'[x] = meant'[x]
    BY <1>2, <1>4, <1>6, <1>8 DEF DeskInv, MeantIsShared, Resources, Templates
  <2>2. "approval" \notin disturbed' => shared'.approval = meant'.approval
    BY <1>1, <1>4, <1>7 DEF DeskInv, MeantIsShared, Resources
  <2>3. ASSUME "keys" \notin disturbed', \A t \in Active' : session'[t].pc # "truncated"
        PROVE  shared'.keys = meant'.keys
    <3>1. CASE r = "keys"
      BY <1>1, <1>4, <1>5, <2>3, <3>1
    <3>2. CASE r # "keys"
      <4>1. \A t \in Active : session[t].pc # "truncated"
        BY <1>1, <1>3, <2>3, <3>2, CallParts DEF r
      <4>. QED
        BY <1>1, <1>4, <2>3, <3>2, <4>1 DEF DeskInv, MeantIsShared, Resources
    <3>. QED
      BY <3>1, <3>2
  <2>. QED
    BY <2>1, <2>2, <2>3 DEF MeantIsShared
<1>14. DealsAreSaved'
  BY <1>1, <1>3 DEF DeskInv, DealsAreSaved
<1>15. DeskTypeOK'
  <2>1. shared'.keys \in (SUBSET DeskSellers) \cup {Torn}
    BY <1>4, <1>5 DEF DeskInv, DeskTypeOK, Resources
  <2>2. shared'.order \in Statuses
    BY <1>4, <1>6 DEF DeskInv, DeskTypeOK, Resources, GetOrderStatus, GetOrder
  <2>3. shared'.approval \in {"pending", "approved", "rejected"}
    BY <1>4, <1>7 DEF DeskInv, DeskTypeOK, Resources
  <2>4. shared'.template \in Weights \cup {NoTemplate} /\ shared'.dealTemplate \in Weights \cup {NoTemplate}
    BY <1>4, <1>8 DEF DeskInv, DeskTypeOK, Resources, Templates
  <2>5. \A t \in Sessions : session'[t] # NoSession =>
          session'[t].pc \in {"read", "truncated", "saved"} /\ session'[t].on \in Resources \cup {"deals"}
    BY <1>3 DEF DeskInv, DeskTypeOK
  <2>. QED
    BY <1>1, <2>1, <2>2, <2>3, <2>4, <2>5 DEF DeskInv, DeskTypeOK, GetOrderStatus, GetOrder
<1>16. "approval" \notin disturbed /\ shared.approval # "pending" => shared'.approval = shared.approval
  BY <1>4, <1>7 DEF Resources
<1>. QED
  BY <1>9, <1>11, <1>12, <1>13, <1>14, <1>15, <1>16 DEF DeskInv

\* A deal is saved by the call that makes it.
LEMMA SaveStep ==
  ASSUME DeskInv, NEW s \in Sessions, SaveNegotiating(s) \/ SaveRound(s) \/ SaveBooked(s)
  PROVE  DeskInv'
<1>. DeskShape
  BY DEF DeskInv
<1>. DEFINE n == session[s].nth
            Deals == [status : {"none", "negotiating", "booked"}, round : BOOLEAN, told : BOOLEAN]
<1>0. calls \in 0 .. MaxCalls /\ MaxCalls \in Nat /\ calls \in Nat /\ opened \in [1 .. MaxCalls -> Deals]
  BY DeskAssumption DEF DeskInv, DeskTypeOK
<1>1. s \in Active /\ CallOK(session[s], calls) /\ UNCHANGED <<shared, meant, disturbed, calls>>
  BY DEF SaveNegotiating, SaveRound, SaveBooked, Active, NoSession, DeskShape
<1>2. n \in 1 .. MaxCalls /\ n \in 1 .. calls /\ opened \in [1 .. MaxCalls -> Deals]
  BY <1>0, <1>1, CallParts
<1>3. \A t \in Active \ {s} : session[t].nth # n /\ session[t].nth \in 1 .. MaxCalls
  <2>1. \A t \in Active : session[t].nth \in 1 .. calls
    BY <1>0, CallParts DEF DeskShape
  <2>2. \A t \in Active \ {s} : session[t].nth # n
    BY <1>1 DEF DeskShape
  <2>. QED
    BY <1>0, <2>1, <2>2
<1>4. CASE SaveNegotiating(s)
  <2>. DEFINE d == [opened[n] EXCEPT !.status = "negotiating"]
  <2>1. /\ session[s].on = "deals" /\ opened' = [opened EXCEPT ![n] = d]
        /\ session' = [session EXCEPT ![s].pc = "saved"]
    BY <1>4 DEF SaveNegotiating
  <2>2. d \in Deals /\ d.told = FALSE
    BY <1>1, <1>2 DEF DeskInv, DealsAreSaved
  <2>. HIDE DEF d
  <2>3. /\ opened' \in [1 .. MaxCalls -> Deals] /\ opened'[n].told = FALSE
        /\ \A x \in 1 .. MaxCalls : x # n => opened'[x] = opened[x]
    BY <1>2, <2>1, <2>2
  <2>4. /\ DeskShape' /\ Active' = Active /\ session'[s].pc = "saved"
        /\ \A t \in Active : /\ session'[t].on = session[t].on /\ session'[t].saw = session[t].saw
                             /\ session'[t].nth = session[t].nth
        /\ \A t \in Active \ {s} : session'[t] = session[t]
    <3>1. shared' = [r \in Resources |-> shared'[r]]
      BY <1>1 DEF DeskShape
    <3>2. s \in Active /\ UNCHANGED <<meant, calls>> /\ session[s].on = "deals"
          /\ session' = [session EXCEPT ![s].pc = "saved"]
      BY <1>1, <2>1
    <3>. HIDE DEF n
    <3>. QED
      BY <3>1, <3>2, GoneOn
  <2>5. DealsAreSaved'
    <3>1. \A t \in Active' : ~opened'[session'[t].nth].told
      <4>1. \A t \in Active' : t \in Active /\ session'[t].nth = session[t].nth
                               /\ session[t].nth \in 1 .. MaxCalls
        BY <1>2, <1>3, <2>4
      <4>2. \A t \in Active' : ~opened[session[t].nth].told
        BY <4>1 DEF DeskInv, DealsAreSaved
      <4>3. \A t \in Active' : session[t].nth = n => ~opened'[session'[t].nth].told
        BY <2>3, <4>1
      <4>. QED
        BY <2>3, <4>1, <4>2, <4>3
    <3>2. \A x \in 1 .. MaxCalls : x > calls' => opened'[x] = NoDeal
      BY <1>0, <1>1, <1>2, <2>3 DEF DeskInv, DealsAreSaved
    <3>3. \A x \in 1 .. MaxCalls :
            opened'[x].told /\ opened'[x].status = "negotiating" => opened'[x].round
      BY <2>3 DEF DeskInv, DealsAreSaved
    <3>. QED
      BY <3>1, <3>2, <3>3 DEF DealsAreSaved
  <2>6. OneAtATime' /\ SawWhatIs'
    BY <1>1, <2>4 DEF DeskInv, OneAtATime, SawWhatIs
  <2>7. MeantIsShared'
    <3>1. session[s].pc = "read"
      BY <1>4 DEF SaveNegotiating
    <3>2. (\A t \in Active' : session'[t].pc # "truncated") => (\A t \in Active : session[t].pc # "truncated")
      BY <2>4, <3>1
    <3>. QED
      BY <1>1, <3>2 DEF DeskInv, MeantIsShared
  <2>8. DeskTypeOK'
    <3>1. \A t \in Sessions : session'[t] # NoSession =>
            session'[t].pc \in {"read", "truncated", "saved"} /\ session'[t].on \in Resources \cup {"deals"}
      <4>1. \A t \in Sessions : session'[t] # NoSession => t \in Active
        BY <2>4 DEF Active
      <4>. QED
        BY <2>4, <4>1 DEF DeskInv, DeskTypeOK, Active
    <3>. QED
      BY <1>1, <2>3, <3>1 DEF DeskInv, DeskTypeOK, GetOrderStatus, GetOrder
  <2>. QED
    BY <2>4, <2>5, <2>6, <2>7, <2>8 DEF DeskInv
<1>5. ASSUME NEW d \in Deals, opened' = [opened EXCEPT ![n] = d],
             d.status = "negotiating" => d.round,
             session' = [session EXCEPT ![s] = NoSession], session[s].pc # "truncated"
      PROVE  DeskInv'
  <2>1. /\ session'[s] = NoSession /\ Active' = Active \ {s}
        /\ \A t \in Sessions \ {s} : session'[t] = session[t]
        /\ \A t \in Active' : t \in Active /\ session'[t] = session[t]
    BY <1>1, <1>5, EndedCall
  <2>2. DeskShape'
    BY <1>1, <1>5, EndKeepsShape DEF DeskShape
  <2>3. /\ opened' \in [1 .. MaxCalls -> Deals] /\ opened'[n] = d
        /\ \A x \in 1 .. MaxCalls : x # n => opened'[x] = opened[x]
    BY <1>2, <1>5
  <2>4. OneAtATime' /\ SawWhatIs'
    BY <1>1, <2>1 DEF DeskInv, OneAtATime, SawWhatIs
  <2>5. MeantIsShared'
    <3>1. (\A t \in Active' : session'[t].pc # "truncated") => (\A t \in Active : session[t].pc # "truncated")
      BY <1>5, <2>1
    <3>. QED
      BY <1>1, <3>1 DEF DeskInv, MeantIsShared
  <2>6. DealsAreSaved'
    <3>1. \A t \in Active' : ~opened'[session'[t].nth].told
      <4>1. \A t \in Active' : session[t].nth \in 1 .. MaxCalls /\ session[t].nth # n
        BY <1>3, <2>1
      <4>2. \A t \in Active' : ~opened[session[t].nth].told
        BY <2>1 DEF DeskInv, DealsAreSaved
      <4>. QED
        BY <2>1, <2>3, <4>1, <4>2
    <3>2. \A x \in 1 .. MaxCalls : x > calls' => opened'[x] = NoDeal
      BY <1>0, <1>1, <1>2, <2>3 DEF DeskInv, DealsAreSaved
    <3>3. \A x \in 1 .. MaxCalls :
            opened'[x].told /\ opened'[x].status = "negotiating" => opened'[x].round
      BY <1>5, <2>3 DEF DeskInv, DealsAreSaved
    <3>. QED
      BY <3>1, <3>2, <3>3 DEF DealsAreSaved
  <2>7. DeskTypeOK'
    BY <1>1, <2>1, <2>3 DEF DeskInv, DeskTypeOK, GetOrderStatus, GetOrder
  <2>. QED
    BY <2>2, <2>4, <2>5, <2>6, <2>7 DEF DeskInv
<1>6. CASE SaveRound(s)
  BY <1>5, <1>6 DEF SaveRound
<1>7. CASE SaveBooked(s)
  BY <1>5, <1>7 DEF SaveBooked
<1>. QED
  BY <1>4, <1>6, <1>7

\* Every call begins with one of the tools.
LEMMA ToolsCall ==
  ASSUME NEW s \in Sessions,
         \/ CreateApiKey(s) \/ RevokeApiKey(s) \/ TransitionOrder(s) \/ ApproveOrReject(s)
         \/ CreateTemplate(s) \/ SpoTool(s) \/ DealTool(s)
         \/ StartNegotiation(s) \/ InstantiateFromTemplate(s)
  PROVE  \E r, c : Asks(r, c) /\ Call(s, r, c)
<1>1. CASE CreateApiKey(s) \/ RevokeApiKey(s)
  BY <1>1 DEF CreateApiKey, RevokeApiKey, Asks
<1>2. CASE TransitionOrder(s) \/ ApproveOrReject(s)
  BY <1>2 DEF TransitionOrder, ApproveOrReject, Asks
<1>3. CASE CreateTemplate(s)
  BY <1>3 DEF CreateTemplate, Asks
<1>4. CASE SpoTool(s)
  BY <1>4 DEF SpoTool, Asks
<1>5. CASE DealTool(s)
  BY <1>5 DEF DealTool, Asks
<1>6. CASE StartNegotiation(s) \/ InstantiateFromTemplate(s)
  BY <1>6 DEF StartNegotiation, InstantiateFromTemplate, Asks
<1>. QED
  BY <1>1, <1>2, <1>3, <1>4, <1>5, <1>6

\* Every step of the sessions keeps the invariant.
LEMMA DeskMoves ==
  ASSUME DeskInv, "torn" \notin DeskSellers, [DeskNext]_deskVars
  PROVE  DeskInv'
<1>1. ASSUME NEW s \in Sessions,
             \/ CreateApiKey(s) \/ RevokeApiKey(s) \/ TransitionOrder(s) \/ ApproveOrReject(s)
             \/ CreateTemplate(s) \/ SpoTool(s) \/ DealTool(s)
             \/ StartNegotiation(s) \/ InstantiateFromTemplate(s)
      PROVE  DeskInv'
  BY <1>1, ToolsCall, CallStep
<1>2. ASSUME NEW s \in Sessions, Refuse(s) \/ DeskFails(s) PROVE DeskInv'
  <2>1. s \in Active /\ session' = [session EXCEPT ![s] = NoSession]
        /\ UNCHANGED <<shared, meant, opened, calls>>
    BY <1>2 DEF Refuse, DeskFails, Active, NoSession
  <2>2. disturbed \subseteq Resources
    BY DEF DeskInv, DeskTypeOK
  <2>3. /\ disturbed \subseteq disturbed' /\ disturbed' \subseteq Resources
        /\ session[s].pc = "truncated" => "keys" \in disturbed'
    BY <1>2, <2>2 DEF Refuse, DeskFails, Resources
  <2>. QED
    BY <2>1, <2>3, EndStep
<1>3. CASE UNCHANGED deskVars
  BY <1>3 DEF deskVars, DeskInv, DeskTypeOK, DeskShape, OneAtATime, SawWhatIs, MeantIsShared,
              DealsAreSaved, Active, CallOK, GetOrderStatus, GetOrder
<1>. QED
  BY <1>1, <1>2, <1>3, TruncateStep, WriteStep, SaveStep DEF DeskNext

\* The desk starts with nothing under way.
LEMMA DeskStart == DeskInit => DeskInv
<1> SUFFICES ASSUME DeskInit PROVE DeskInv
  OBVIOUS
<1>1. /\ shared = [r \in Resources |-> shared[r]] /\ meant = [r \in Resources |-> meant[r]]
      /\ shared = meant /\ shared.keys = {} /\ shared.order = Initial /\ shared.approval = "pending"
      /\ shared.template = NoTemplate /\ shared.dealTemplate = NoTemplate
  BY DEF DeskInit, Fresh, Resources
<1>2. Active = {} /\ session = [s \in Sessions |-> session[s]] /\ \A s \in Sessions : session[s] = NoSession
  BY DEF DeskInit, Active
<1>3. \A n \in 1 .. MaxCalls : opened[n] = NoDeal
  BY DEF DeskInit
<1>4. DeskTypeOK
  BY <1>1, <1>2, DeskAssumption DEF DeskInit, DeskTypeOK, NoDeal, GetOrderStatus, GetOrder
<1>5. NoDeal.told = FALSE
  BY DEF NoDeal
<1>. QED
  BY <1>1, <1>2, <1>3, <1>4, <1>5
  DEF DeskInv, DeskShape, OneAtATime, SawWhatIs, MeantIsShared, DealsAreSaved

\* What is shown is what was meant.
LEMMA DeskIsSequential ==
  ASSUME DeskInv, "torn" \notin DeskSellers
  PROVE  CallsAreSequential
<1>1. ASSUME "keys" \notin disturbed, \A s \in Sessions : session[s].pc # "truncated"
      PROVE  ListApiKeys = meant.keys
  <2>1. shared.keys = meant.keys /\ shared.keys \subseteq DeskSellers
    BY <1>1 DEF DeskInv, MeantIsShared, DeskShape, Active
  <2>. QED
    BY <2>1 DEF ListApiKeys, LoadKeys, Torn
<1>2. ListOrders(meant.order) = ListBuyerOrders("any")
  <2>1. shared.order = meant.order
    BY DEF DeskInv, MeantIsShared
  <2>. QED
    BY <2>1 DEF ListOrders, ListBuyerOrders, OrdersOf
<1>3. "approval" \notin disturbed => (ListPendingApprovals # {} <=> meant.approval = "pending")
  BY DEF DeskInv, MeantIsShared, ListPendingApprovals
<1>4. ListTemplates("any") = {<<"deal", t>> : t \in {meant.dealTemplate} \ {NoTemplate}}
                             \cup {<<"spo", t>> : t \in {meant.template} \ {NoTemplate}}
  <2>1. shared.template = meant.template /\ shared.dealTemplate = meant.dealTemplate
    BY DEF DeskInv, MeantIsShared
  <2>. QED
    BY <2>1 DEF ListTemplates, SpoListed, DealTemplates
<1>5. ASSUME NEW n \in 1 .. MaxCalls, opened[n].told, opened[n].status = "negotiating"
      PROVE  /\ NegotiationStatus(n).rounds = {1} /\ DealPerformance(n).rounds = 1
             /\ NegotiationStatus(n) \in ActiveNegotiations
  <2>1. Rounds(n) = {1}
    BY <1>5 DEF DeskInv, DealsAreSaved, Rounds
  <2>2. Cardinality({1}) = 1
    BY FS_Singleton
  <2>3. NegotiationStatus(n).rounds = {1} /\ DealPerformance(n).rounds = 1
    BY <2>1, <2>2 DEF NegotiationStatus, DealPerformance
  <2>4. NegotiationStatus(n) \in ActiveNegotiations
    BY <1>5 DEF ActiveNegotiations
  <2>. QED
    BY <2>3, <2>4
<1>. QED
  BY <1>1, <1>2, <1>3, <1>4, <1>5 DEF CallsAreSequential

\* No step takes a decision back, or leaves weights of a template tool that are invalid.
LEMMA DecisionStep ==
  ASSUME DeskInv, [DeskNext]_deskVars, shared.approval # "pending", "approval" \notin disturbed
  PROVE  shared'.approval = shared.approval
<1>1. ASSUME NEW s \in Sessions, WriteResource(s) PROVE shared'.approval = shared.approval
  BY <1>1, WriteStep
<1>2. ASSUME NEW s \in Sessions, TruncateKeys(s) PROVE shared'.approval = shared.approval
  <2>1. shared = [r \in Resources |-> shared[r]] /\ shared' = [shared EXCEPT !.keys = Torn]
    BY <1>2 DEF TruncateKeys, DeskInv, DeskShape
  <2>. QED
    BY <2>1 DEF Resources
<1>3. ASSUME NEW s \in Sessions,
             \/ CreateApiKey(s) \/ RevokeApiKey(s) \/ TransitionOrder(s) \/ ApproveOrReject(s)
             \/ CreateTemplate(s) \/ SpoTool(s) \/ DealTool(s)
             \/ StartNegotiation(s) \/ InstantiateFromTemplate(s)
      PROVE  UNCHANGED shared
  BY <1>3, ToolsCall DEF Call
<1>4. ASSUME NEW s \in Sessions,
             Refuse(s) \/ SaveNegotiating(s) \/ SaveRound(s) \/ SaveBooked(s) \/ DeskFails(s)
      PROVE  UNCHANGED shared
  BY <1>4 DEF Refuse, SaveNegotiating, SaveRound, SaveBooked, DeskFails
<1>5. CASE UNCHANGED deskVars
  BY <1>5 DEF deskVars
<1>. QED
  BY <1>1, <1>2, <1>3, <1>4, <1>5 DEF DeskNext

\* Template weights that a tool refuses are not stored.
LEMMA WeightsStep ==
  ASSUME DeskInv, [DeskNext]_deskVars, NEW s \in Sessions,
         session[s].pc = "read", session[s].on = "template", session[s].change.how # "mcp",
         session'[s] = NoSession, shared'.template # shared.template
  PROVE  shared'.template # "invalid"
<1>. DEFINE c == session[s]
<1>1. s \in Active /\ CallOK(c, calls) /\ calls \in Nat
  BY DeskAssumption DEF Active, NoSession, DeskInv, DeskShape, DeskTypeOK
<1>2. PICK t \in Sessions : TruncateKeys(t) \/ WriteResource(t)
  <2>1. ASSUME NEW t \in Sessions,
               \/ CreateApiKey(t) \/ RevokeApiKey(t) \/ TransitionOrder(t) \/ ApproveOrReject(t)
               \/ CreateTemplate(t) \/ SpoTool(t) \/ DealTool(t)
               \/ StartNegotiation(t) \/ InstantiateFromTemplate(t)
        PROVE  UNCHANGED shared
    BY <2>1, ToolsCall DEF Call
  <2>2. ASSUME NEW t \in Sessions,
               Refuse(t) \/ SaveNegotiating(t) \/ SaveRound(t) \/ SaveBooked(t) \/ DeskFails(t)
        PROVE  UNCHANGED shared
    BY <2>2 DEF Refuse, SaveNegotiating, SaveRound, SaveBooked, DeskFails
  <2>. QED
    BY <2>1, <2>2 DEF DeskNext, deskVars
<1>3. session = [u \in Sessions |-> session[u]] /\ shared = [r \in Resources |-> shared[r]]
  BY DEF DeskInv, DeskShape
<1>4. ~TruncateKeys(t)
  BY <1>3 DEF TruncateKeys, Resources
<1>5. WriteResource(t) /\ t = s
  <2>1. session' = [session EXCEPT ![t] = NoSession]
    BY <1>2, <1>4 DEF WriteResource
  <2>2. t # s => session'[s] = session[s]
    BY <1>3, <2>1
  <2>. QED
    BY <1>1, <1>2, <1>4, <2>2 DEF Active
<1>6. /\ c.change \in [how : {"mcp"} \cup Changes, to : Weights]
      /\ ~RefusedCall("template", Basis(c), c.change)
      /\ shared' = [shared EXCEPT !["template"] = Written("template", c.saw, c.change)]
  BY <1>1, <1>5, CallParts DEF WriteResource
<1>7. shared'.template = SpoWritten(c.change) /\ ~BadWeights(c.change)
  BY <1>3, <1>6 DEF Written, RefusedCall, Resources, Templates
<1>. QED
  BY <1>6, <1>7, TemplatesWritten

--------------------------------------------------------------------------------
(* Pacing: rounding is off by half a cent at most, and everything read of  *)
(* a snapshot is read of the same sums.                                    *)

\* The strengthening: the draft and the rows are snapshots, what was announced with the
\* draft is nothing or every event of it, and a report's sections are of rows that exist,
\* in order.
Snapshots == [at : 0 .. Flight + 1, spend : [Channels -> 0 .. MaxSpend], expected : 0 .. Total]
Sections == {NoSection} \cup 1 .. MaxSnapshots
Events(snap) == SnapshotTaken(snap) \cup DeviationEvents(snap) \cup ReallocationEvents(snap)

PacingTypes ==
    /\ now \in 0 .. Flight + 1 /\ spent \in [Channels -> 0 .. MaxSpend]
    /\ draft \in Snapshots \cup {NoDraft}
    /\ kept \in Seq(Snapshots) /\ Len(kept) <= MaxSnapshots
    /\ draft # NoDraft => Len(kept) < MaxSnapshots
    /\ report \in Seq(Sections) /\ Len(report) <= 3
AnnouncedOfDraft == draft # NoDraft => announced \in {{}, Events(draft)}
SectionsInOrder ==
    /\ \A j \in 1 .. Len(report) : report[j] <= Latest
    /\ \A j \in 1 .. Len(report) - 1 : report[j] <= report[j + 1]
PaceInv == PacingTypes /\ AnnouncedOfDraft /\ SectionsInOrder

\* What is known of a sequence, and of one that is appended to.
LEMMA Sequenced ==
  ASSUME NEW S, NEW k \in Seq(S)
  PROVE  k \in [1 .. Len(k) -> S] /\ Len(k) \in Nat /\ (k # <<>> => Len(k) >= 1)
OBVIOUS

\* An append leaves the elements before it where they are.
LEMMA Appended ==
  ASSUME NEW S, NEW k \in Seq(S), NEW x \in S
  PROVE  /\ Append(k, x) \in Seq(S) /\ Len(Append(k, x)) = Len(k) + 1 /\ Append(k, x) # <<>>
         /\ Append(k, x)[Len(k) + 1] = x /\ \A i \in 1 .. Len(k) : Append(k, x)[i] = k[i]
<1>1. /\ Append(k, x) \in Seq(S) /\ Len(Append(k, x)) = Len(k) + 1 /\ Len(k) \in Nat
      /\ Append(k, x)[Len(k) + 1] = x /\ \A i \in 1 .. Len(k) : Append(k, x)[i] = k[i]
  OBVIOUS
<1>2. Len(<<>>) = 0
  OBVIOUS
<1>3. Len(Append(k, x)) # 0
  BY <1>1
<1>. QED
  BY <1>1, <1>2, <1>3

\* What integer division, a product with a larger number and Rounded return.
LEMMA Divided ==
  ASSUME NEW n \in Nat, NEW d \in Nat \ {0}
  PROVE  n \div d \in Nat /\ d * (n \div d) <= n /\ n < d * (n \div d) + d
OBVIOUS

\* A product is monotone in a factor.
LEMMA Products == ASSUME NEW a \in Nat, NEW b \in Nat, NEW c \in Nat, a <= b PROVE c * a <= c * b
OBVIOUS

\* A rounded quotient is within half a unit.
LEMMA RoundedWell ==
  ASSUME NEW n \in Nat, NEW d \in Nat \ {0}
  PROVE  /\ Rounded(n, d) \in Nat
         /\ 2 * (d * Rounded(n, d)) <= 2 * n + d
         /\ 2 * n < 2 * (d * Rounded(n, d)) + d
<1>. DEFINE q == Rounded(n, d)  e == 2 * d  m == 2 * n + d
<1>1. e \in Nat \ {0} /\ m \in Nat /\ q = m \div e
  BY DEF Rounded
<1>. HIDE DEF q, e, m
<1>2. q \in Nat /\ e * q <= m /\ m < e * q + e
  BY <1>1, Divided
<1>3. e * q = 2 * (d * q)
  BY <1>2 DEF e
<1>4. 2 * (d * q) <= m /\ m < 2 * (d * q) + e
  BY <1>2, <1>3
<1>5. d * q \in Nat
  BY <1>2
<1>. HIDE DEF q
<1>. QED
  BY <1>2, <1>4, <1>5 DEF q, e, m

\* What is expected by a time is never more than the budget.
LEMMA ExpectedInTotal == \A t \in 0 .. Flight + 1 : ExpectedAt(t) \in 0 .. Total
<1> SUFFICES ASSUME NEW t \in Nat, 0 < t, t < Flight, Total > 0
             PROVE  Rounded(Total * t, Flight) \in 0 .. Total
  BY PacingAssumption DEF ExpectedAt
<1>. DEFINE n == Total * t  q == Rounded(n, Flight)
<1>1. Total \in Nat /\ Flight \in Nat \ {0} /\ n \in Nat /\ n <= Total * Flight
  BY PacingAssumption, Products
<1>. HIDE DEF n
<1>2. q \in Nat /\ 2 * (Flight * q) <= 2 * n + Flight
  BY <1>1, RoundedWell
<1>. HIDE DEF q
<1>3. SUFFICES ASSUME q >= Total + 1 PROVE FALSE
  BY <1>1, <1>2 DEF q, n
<1>4. Flight * (Total + 1) <= Flight * q
  BY <1>1, <1>2, <1>3, Products
<1>5. Flight * (Total + 1) = Total * Flight + Flight /\ Flight * q \in Nat /\ Total * Flight \in Nat
  BY <1>1, <1>2
<1>. QED
  BY <1>1, <1>2, <1>4, <1>5

--------------------------------------------------------------------------------
(* The steps.                                                              *)

\* No snapshot is kept at the start.
LEMMA PaceStart == PacingInit => PaceInv
<1> SUFFICES ASSUME PacingInit PROVE PaceInv
  OBVIOUS
<1>. QED
  BY PacingAssumption DEF PacingInit, PaceInv, PacingTypes, AnnouncedOfDraft, SectionsInOrder

\* A snapshot taken keeps its invariant, with those kept before it.
LEMMA PaceMoves == PaceInv /\ [PacingNext]_pacingVars => PaceInv'
<1> SUFFICES ASSUME PaceInv, [PacingNext]_pacingVars PROVE PaceInv'
  OBVIOUS
<1>. /\ Flight \in Nat \ {0} /\ MaxSpend \in Nat /\ MaxSnapshots \in Nat /\ Deliveries \subseteq Nat
     /\ PacingTypes /\ AnnouncedOfDraft /\ SectionsInOrder
  BY PacingAssumption DEF PaceInv
<1>1. CASE Deliver
  <2>1. PICK c \in Channels, s \in Deliveries \cup {0} :
          spent[c] + s <= MaxSpend /\ spent' = [spent EXCEPT ![c] = @ + s]
    BY <1>1 DEF Deliver
  <2>2. now' \in 0 .. Flight + 1 /\ UNCHANGED <<draft, kept, announced, report>>
    BY <1>1 DEF Deliver, PacingTypes
  <2>3. spent' \in [Channels -> 0 .. MaxSpend]
    <3>1. spent[c] + s \in 0 .. MaxSpend
      BY <2>1 DEF PacingTypes
    <3>. QED
      BY <2>1, <3>1 DEF PacingTypes
  <2>. QED
    BY <2>2, <2>3 DEF PaceInv, PacingTypes, AnnouncedOfDraft, SectionsInOrder, Latest
<1>2. CASE GenerateSnapshot
  <2>1. draft' \in Snapshots /\ UNCHANGED <<now, spent, kept, report>> /\ Len(kept) < MaxSnapshots
    BY <1>2, ExpectedInTotal DEF GenerateSnapshot, PacingTypes, Snapshots
  <2>2. announced' \in {{}, Events(draft')}
    BY <1>2 DEF GenerateSnapshot, EmitSync, Events
  <2>3. AnnouncedOfDraft'
    BY <2>2 DEF AnnouncedOfDraft, Events, SnapshotTaken, DeviationEvents, ReallocationEvents
  <2>. QED
    BY <2>1, <2>3 DEF PaceInv, PacingTypes, SectionsInOrder, Latest
<1>3. CASE SaveSnapshot
  <2>1. /\ draft \in Snapshots /\ draft' = NoDraft /\ UNCHANGED <<now, spent, announced, report>>
        /\ kept' = kept \/ kept' = Append(kept, draft)
    BY <1>3 DEF SaveSnapshot, PacingTypes
  <2>2. /\ kept \in Seq(Snapshots) /\ draft # NoDraft /\ Len(kept) < MaxSnapshots
        /\ report \in Seq(Sections) /\ Len(report) <= 3
    BY <1>3 DEF SaveSnapshot, PacingTypes
  <2>3. kept' \in Seq(Snapshots) /\ Latest <= Latest' /\ Len(kept') <= MaxSnapshots
    <3>0. Len(kept) \in Nat
      BY <2>2, Sequenced
    <3>1. Latest \in Int /\ Latest <= Len(kept)
      BY <3>0 DEF Latest, NoSection
    <3>2. CASE kept' = kept
      <4>1. Latest' = Latest
        BY <3>2 DEF Latest
      <4>. QED
        BY <2>2, <3>0, <3>1, <3>2, <4>1
    <3>3. CASE kept' = Append(kept, draft)
      <4>1. kept' \in Seq(Snapshots) /\ Len(kept') = Len(kept) + 1 /\ kept' # <<>>
        BY <2>1, <2>2, <3>3, Appended
      <4>2. Latest' = Len(kept) + 1
        BY <4>1 DEF Latest
      <4>. QED
        BY <2>2, <3>0, <3>1, <4>1, <4>2, PacingAssumption
    <3>. QED
      BY <2>1, <3>2, <3>3
  <2>4. Latest \in Int /\ Latest' \in Int /\ \A j \in 1 .. Len(report) : report[j] \in Int
    BY <2>2, <2>3, Sequenced DEF Latest, NoSection, Sections
  <2>5. \A j \in 1 .. Len(report) : report[j] <= Latest'
    BY <2>3, <2>4 DEF SectionsInOrder
  <2>. QED
    BY <2>1, <2>2, <2>3, <2>5 DEF PaceInv, PacingTypes, AnnouncedOfDraft, SectionsInOrder
<1>4. CASE CampaignReport
  <2>1. Latest \in Sections /\ UNCHANGED <<now, spent, draft, kept, announced>> /\ Latest' = Latest
    BY <1>4 DEF CampaignReport, PacingTypes, Latest, Sections
  <2>2. report \in Seq(Sections) /\ Len(report) <= 3
    BY DEF PacingTypes
  <2>3. Sections \subseteq Int
    BY DEF Sections, NoSection
  <2>4. CASE report' = <<Latest>>
    <3>1. /\ report' \in Seq(Sections) /\ Len(report') = 1 /\ report'[1] = Latest
      BY <2>1, <2>4
    <3>0. Len(report') <= 3
      BY <3>1
    <3>2. Latest <= Latest
      BY <2>1, <2>3
    <3>. HIDE DEF Latest
    <3>3. SectionsInOrder'
      BY <2>1, <3>1, <3>2 DEF SectionsInOrder
    <3>. QED
      BY <2>1, <3>0, <3>1, <3>3 DEF PaceInv, PacingTypes, AnnouncedOfDraft
  <2>5. CASE Len(report) # 3 /\ report' = Append(report, Latest)
    <3>. DEFINE n == Len(report)
    <3>1. /\ report' \in Seq(Sections) /\ Len(report') = n + 1 /\ n \in Nat /\ n <= 2
          /\ report'[n + 1] = Latest /\ \A j \in 1 .. n : report'[j] = report[j] /\ report[j] \in Int
      <4>0. n \in Nat /\ report \in [1 .. n -> Sections]
        BY <2>2, Sequenced
      <4>1. n <= 2
        BY <2>2, <2>5, <4>0
      <4>. HIDE DEF Latest
      <4>. QED
        BY <2>1, <2>2, <2>3, <2>5, <4>0, <4>1, Appended
    <3>2. Latest <= Latest /\ \A j \in 1 .. n : report[j] <= Latest
      BY <2>1, <2>3 DEF SectionsInOrder
    <3>3. \A j \in 1 .. n - 1 : report[j] <= report[j + 1]
      BY DEF SectionsInOrder
    <3>. HIDE DEF n
    <3>4. \A j \in 1 .. n + 1 : report'[j] <= Latest
      BY <3>1, <3>2
    <3>5. \A j \in 1 .. n : report'[j] <= report'[j + 1]
      BY <3>1, <3>2, <3>3
    <3>6. SectionsInOrder'
      BY <2>1, <3>1, <3>4, <3>5 DEF SectionsInOrder
    <3>. QED
      BY <2>1, <3>1, <3>6 DEF PaceInv, PacingTypes, AnnouncedOfDraft
  <2>. QED
    BY <1>4, <2>4, <2>5 DEF CampaignReport
<1>5. CASE UNCHANGED pacingVars
  BY <1>5 DEF pacingVars, PaceInv, PacingTypes, AnnouncedOfDraft, SectionsInOrder, Latest
<1>. QED
  BY <1>1, <1>2, <1>3, <1>4, <1>5 DEF PacingNext

\* The invariant of snapshots gives their types.
LEMMA PaceTypes == PaceInv => PacingTypeOK
<1> SUFFICES ASSUME PaceInv PROVE PacingTypeOK
  OBVIOUS
<1>1. report \in [1 .. Len(report) -> Sections] /\ Len(report) \in 0 .. 3
  <2>1. report \in Seq(Sections) /\ Len(report) <= 3
    BY DEF PaceInv, PacingTypes
  <2>2. Len(report) \in Nat /\ report \in [1 .. Len(report) -> Sections]
    BY <2>1, Sequenced
  <2>. QED
    BY <2>1, <2>2
<1>2. report \in UNION {[1 .. n -> Sections] : n \in 0 .. 3}
  BY <1>1
<1>3. \A i \in 1 .. Len(kept) : kept[i] \in Snapshots
  BY DEF PaceInv, PacingTypes
<1>. QED
  BY <1>2, <1>3 DEF PaceInv, PacingTypes, PacingTypeOK, Snapshots, Sections

--------------------------------------------------------------------------------
(* Reallocations.                                                          *)

\* Who is under or over its share, by however little.
LEMMA OffItsShare ==
  ASSUME NEW snap \in Snapshots, snap.expected > 0, NEW c \in Channels
  PROVE  /\ c \in Under(snap) => snap.spend[c] * Total < ShareOf(snap, c)
         /\ c \in Over(snap) => snap.spend[c] * Total > ShareOf(snap, c)
<1>. DEFINE n == ShareOf(snap, c)  m == snap.spend[c] * Total
            k == (10000 * snap.spend[c]) * Total  q == Rounded(k, n)
<1>1. /\ n \in Nat /\ m \in Nat /\ k = 10000 * m /\ k \in Nat /\ 100 * WarningPct \in Nat
      /\ -100 * WarningPct = -(100 * WarningPct)
  BY PacingAssumption DEF Snapshots, ShareOf
<1>2. /\ c \in Under(snap) => n > 0 /\ q - 10000 < -100 * WarningPct
      /\ c \in Over(snap) => n > 0 /\ q - 10000 > 100 * WarningPct
  BY <1>1 DEF Under, Over, ChannelDeviation, DeviationPct, PacingPct
<1>. HIDE DEF n, m, k
<1>3. ASSUME n > 0 PROVE q \in Nat /\ 2 * (n * q) <= 2 * k + n /\ 2 * k < 2 * (n * q) + n
  <2>1. n \in Nat \ {0} /\ k \in Nat
    BY <1>1, <1>3
  <2>. QED
    BY <2>1, RoundedWell
<1>. HIDE DEF q
<1>4. ASSUME c \in Under(snap) PROVE m < n
  <2>1. n > 0 /\ q \in Nat /\ q <= 9999
    BY <1>1, <1>2, <1>3, <1>4
  <2>2. n * q <= n * 9999 /\ n * q \in Nat
    BY <1>1, <2>1, Products
  <2>. QED
    BY <1>1, <1>3, <2>1, <2>2
<1>5. ASSUME c \in Over(snap) PROVE m > n
  <2>1. n > 0 /\ q \in Nat /\ 10001 <= q
    BY <1>1, <1>2, <1>3, <1>5
  <2>2. n * 10001 <= n * q /\ n * q \in Nat
    BY <1>1, <2>1, Products
  <2>. QED
    BY <1>1, <1>3, <2>1, <2>2
<1>. QED
  BY <1>4, <1>5 DEF n, m

\* A proposal moves at most the smaller of what one channel can spare and the other lacks.
LEMMA ReallocationSound ==
  ASSUME NEW snap \in Snapshots, NEW p \in Proposals(snap)
  PROVE  /\ p.from # p.to /\ p.amount >= MinAmount /\ p.amount <= Allocation[p.from]
         /\ 100 * p.amount <= Total * MaxPct + 100
         /\ snap.spend[p.from] * Total <= snap.expected * (Allocation[p.from] - p.amount) + Total
         /\ snap.spend[p.to] * Total >= snap.expected * (Allocation[p.to] + p.amount) - Total
<1>1. /\ Total > 0 /\ snap.expected > 0
      /\ p.from \in Under(snap) /\ p.to \in Over(snap) /\ p.amount >= MinAmount
      /\ p.amount = Amount(snap, p.from, p.to)
  BY PacingAssumption DEF Proposals, Snapshots
<1>. DEFINE E == snap.expected  A == Allocation[p.from]  B == Allocation[p.to]
            S == snap.spend[p.from]  R == snap.spend[p.to]  a == p.amount
            cap == (Total * Total * MaxPct) \div 100
            x == Least(Least(Gap(snap, p.from), Gap(snap, p.to)), cap)
<1>2. /\ p.from \in Channels /\ p.to \in Channels
      /\ E \in Nat /\ E <= Total /\ A \in Nat /\ B \in Nat /\ S \in Nat /\ R \in Nat
      /\ Total \in Nat \ {0} /\ MaxPct \in Nat
  BY <1>1, PacingAssumption DEF Snapshots, Under, Over
<1>3. S * Total < E * A /\ R * Total > E * B
  BY <1>1, <1>2, OffItsShare DEF ShareOf
<1>4. S * Total \in Nat /\ R * Total \in Nat /\ E * A \in Nat /\ E * B \in Nat
  BY <1>2
<1>5. Gap(snap, p.from) = E * A - S * Total /\ Gap(snap, p.to) = R * Total - E * B
  BY <1>3, <1>4 DEF Gap, Size, ShareOf
<1>6. Total * Total * MaxPct \in Nat /\ cap \in Nat /\ 100 * cap <= Total * Total * MaxPct
  BY <1>2, Divided
<1>. HIDE DEF cap
<1>7. /\ x \in Nat /\ x <= E * A - S * Total /\ x <= R * Total - E * B /\ x <= cap
  BY <1>3, <1>4, <1>5, <1>6 DEF Least
<1>8. a = Rounded(x, Total)
  BY <1>1 DEF Amount, cap
<1>. HIDE DEF x, a
<1>9. a \in Nat /\ 2 * (Total * a) <= 2 * x + Total
  BY <1>2, <1>7, <1>8, RoundedWell
<1>. HIDE DEF E, A, B, S, R
<1>10. Total * a \in Nat /\ E * a \in Nat /\ E * a <= Total * a
  BY <1>2, <1>9
<1>11. a <= A
  <2>1. E * A <= Total * A /\ Total * A \in Nat
    BY <1>2
  <2>2. 2 * (Total * a) <= 2 * (Total * A) + Total
    BY <1>4, <1>7, <1>9, <1>10, <1>2, <2>1
  <2>3. SUFFICES ASSUME A + 1 <= a PROVE FALSE
    BY <1>2, <1>9
  <2>4. Total * (A + 1) <= Total * a
    <3>1. Total \in Nat /\ A + 1 \in Nat /\ a \in Nat /\ A + 1 <= a
      BY <1>2, <1>9, <2>3
    <3>. QED
      BY ONLY <3>1, Products
  <2>5. Total * (A + 1) = Total * A + Total
    BY <1>2
  <2>. QED
    BY <1>2, <1>10, <2>1, <2>2, <2>4, <2>5
<1>12. 100 * a <= Total * MaxPct + 100
  <2>. DEFINE w == Total * MaxPct
  <2>1. w \in Nat /\ Total * w = Total * Total * MaxPct
    BY <1>2
  <2>2. 200 * (Total * a) <= 2 * (Total * w) + 100 * Total /\ Total * w \in Nat
    BY <1>2, <1>6, <1>7, <1>9, <1>10, <2>1
  <2>. HIDE DEF w
  <2>3. SUFFICES ASSUME w + 101 <= 100 * a PROVE FALSE
    BY <1>9, <2>1 DEF w
  <2>4. Total * (w + 101) <= Total * (100 * a)
    <3>1. Total \in Nat /\ w + 101 \in Nat /\ 100 * a \in Nat /\ w + 101 <= 100 * a
      BY <1>2, <1>9, <2>1, <2>3
    <3>. QED
      BY ONLY <3>1, Products
  <2>5. Total * (w + 101) = Total * w + 101 * Total /\ Total * (100 * a) = 100 * (Total * a)
    BY <1>2, <1>9, <2>1
  <2>. QED
    BY <1>2, <1>10, <2>2, <2>4, <2>5
<1>13. S * Total <= E * (A - a) + Total
  <2>1. E * (A - a) = E * A - E * a
    BY <1>2, <1>9
  <2>. QED
    BY <1>2, <1>4, <1>7, <1>9, <1>10, <2>1
<1>14. R * Total >= E * (B + a) - Total
  <2>1. E * (B + a) = E * B + E * a
    BY <1>2, <1>9
  <2>. QED
    BY <1>2, <1>4, <1>7, <1>9, <1>10, <2>1
<1>15. p.from # p.to
  BY <1>3, <1>4 DEF E, A, B, S, R
<1>. QED
  BY <1>1, <1>11, <1>12, <1>13, <1>14, <1>15 DEF E, A, B, S, R, a

\* Every proposal of a kept snapshot takes what can be spared and gives what is lacking.
LEMMA KeptAreSound == PaceInv => ReallocationsAreSound
<1> SUFFICES ASSUME PaceInv, NEW i \in 1 .. Len(kept), NEW p \in Proposals(kept[i])
             PROVE  /\ p.from # p.to /\ p.amount >= MinAmount /\ p.amount <= Allocation[p.from]
                    /\ 100 * p.amount <= Total * MaxPct + 100
                    /\ kept[i].spend[p.from] * Total
                         <= kept[i].expected * (Allocation[p.from] - p.amount) + Total
                    /\ kept[i].spend[p.to] * Total
                         >= kept[i].expected * (Allocation[p.to] + p.amount) - Total
  BY DEF ReallocationsAreSound
<1>1. kept[i] \in Snapshots
  BY DEF PaceInv, PacingTypes
<1>. QED
  BY <1>1, ReallocationSound

--------------------------------------------------------------------------------
(* Verdicts.                                                               *)

\* What a snapshot's channels spent is a number.
LEMMA SpendIsCounted ==
  ASSUME IsFiniteSet(Channels), NEW snap \in Snapshots
  PROVE  TotalSpend(snap) \in Nat
<1> DEFINE f == snap.spend
           Eq(g) == g = [T \in SUBSET Channels |-> IF T = {} THEN 0
                          ELSE snap.spend[CHOOSE x \in T : TRUE] + g[T \ {CHOOSE x \in T : TRUE}]]
           it == CHOOSE g : Eq(g)
<1>1. ASSUME NEW g PROVE Eq(g) <=> IsSum(g, f, Channels)
  BY DEF IsSum, Some
<1>2. Naturals(f, Channels)
  BY PacingAssumption DEF Naturals, Snapshots
<1>3. Eq(it)
  <2>1. \E g : Eq(g)
    <3> HIDE DEF Eq, f
    <3>. QED
      BY <1>1, SumExists
  <2> HIDE DEF Eq
  <2>. QED
    BY <2>1
<1>4. TotalSpend(snap) = it[Channels]
  BY DEF TotalSpend, MapThenSumSet, MapThenFoldSet
<1>. QED
  <2> HIDE DEF Eq, it, f
  <2>. QED
    BY <1>1, <1>2, <1>3, <1>4, SumType

\* At the default thresholds the engine's alerts and the words for a snapshot's state are
\* about one deviation.
LEMMA AlertsAgree ==
  ASSUME NEW s \in Nat, NEW n \in Nat, WarningPct = 10, CriticalPct >= 20
  PROVE  LET alert == DetectDeviation(s, n)  dev == DeviationPct(s, n, 1) IN
         /\ dev \in Int
         /\ dev < -1000 <=> \E a \in alert : a[2] = "under"
         /\ dev > 1000 <=> \E a \in alert : a[2] = "over"
         /\ alert # {} => Severity(dev) \in {"warning", "critical"}
         /\ \A a \in alert : a[1] = "critical" => Severity(dev) = "critical"
<1>. DEFINE alert == DetectDeviation(s, n)  dev == DeviationPct(s, n, 1)
<1>1. dev \in Int /\ (n = 0 => dev = 0)
  <2>1. CASE n = 0
    BY <2>1 DEF DeviationPct
  <2>2. CASE n # 0
    <3>. DEFINE k == 10000 * s * 1
    <3>1. k \in Nat /\ n \in Nat \ {0}
      BY <2>2
    <3>. HIDE DEF k
    <3>2. Rounded(k, n) \in Nat
      BY <3>1, RoundedWell
    <3>. QED
      BY <2>2, <3>2 DEF DeviationPct, PacingPct, k
  <2>. QED
    BY <2>1, <2>2
<1>2. alert = {a \in Alerts :
                 /\ n > 0 /\ a[2] = IF dev < 0 THEN "under" ELSE "over"
                 /\ Beyond(dev, a[1]) /\ (a[1] = "warning" => ~Beyond(dev, "critical"))}
  BY DEF DetectDeviation
<1>. HIDE DEF dev, alert
<1>3. /\ CriticalPct \in Nat
      /\ Beyond(dev, "critical") <=> Size(dev) > 100 * CriticalPct
      /\ Beyond(dev, "warning") <=> Size(dev) > 1000
      /\ Size(dev) \in Nat /\ Size(dev) = IF dev < 0 THEN -dev ELSE dev
  BY <1>1, PacingAssumption DEF Beyond, Size
<1>4. \A a \in alert : /\ a[1] \in {"critical", "warning"} /\ Beyond(dev, a[1])
                       /\ a[2] = IF dev < 0 THEN "under" ELSE "over"
  BY <1>2 DEF Alerts
<1>5. Beyond(dev, "critical") => Size(dev) > 1000 /\ Size(dev) >= 2000
  BY <1>3
<1>6. ASSUME Size(dev) > 1000
      PROVE  \E a \in alert : a[2] = IF dev < 0 THEN "under" ELSE "over"
  <2>. DEFINE way == IF dev < 0 THEN "under" ELSE "over"
              level == IF Beyond(dev, "critical") THEN "critical" ELSE "warning"
  <2>1. n > 0
    BY <1>1, <1>3, <1>6
  <2>2. <<level, way>> \in Alerts
    BY DEF Alerts
  <2>3. Beyond(dev, level) /\ (level = "warning" => ~Beyond(dev, "critical"))
    BY <1>3, <1>6
  <2>. HIDE DEF level
  <2>4. <<level, way>> \in alert
    BY <1>2, <2>1, <2>2, <2>3
  <2>. QED
    BY <2>4
<1>7. \A a \in alert : Size(dev) > 1000
  BY <1>3, <1>4, <1>5
<1>8. /\ dev < -1000 <=> \E a \in alert : a[2] = "under"
      /\ dev > 1000 <=> \E a \in alert : a[2] = "over"
  BY <1>1, <1>3, <1>4, <1>6, <1>7
<1>9. /\ alert # {} => Severity(dev) \in {"warning", "critical"}
      /\ \A a \in alert : a[1] = "critical" => Severity(dev) = "critical"
  BY <1>3, <1>4, <1>5, <1>7 DEF Severity
<1>. QED
  BY <1>1, <1>8, <1>9 DEF dev, alert

\* At the default thresholds the report, the alerts and the status word are one verdict.
LEMMA VerdictsAreCoherent ==
  ASSUME IsFiniteSet(Channels), WarningPct = 10, CriticalPct >= 20, PaceInv
  PROVE  VerdictsCohere
<1>1. \A snap : /\ PacingReport(snap) # "no_data" => PacingReport(snap) = CheckPacing(snap)
               /\ {StatusSummary(snap), CampaignStatus(snap), ReviewBudgets(snap), DealReport(snap)}
                    = {PacingDashboard(snap).spend}
  BY DEF PacingReport, StatusSummary, CampaignStatus, ReviewBudgets, DealReport, PacingDashboard, TotalSpend
<1>2. ASSUME NEW snap \in Snapshots
      PROVE  LET alert == DetectDeviation(TotalSpend(snap), snap.expected) IN
             /\ CheckPacing(snap) = "behind" <=> \E a \in alert : a[2] = "under"
             /\ CheckPacing(snap) = "ahead"  <=> \E a \in alert : a[2] = "over"
             /\ alert # {} => \E a \in PacingDashboard(snap).alerts : a[1] = "campaign"
             /\ \A a \in alert :
                   a[1] = "critical" => <<"campaign", "critical">> \in PacingDashboard(snap).alerts
  <2>. DEFINE s == TotalSpend(snap)  n == snap.expected  dev == DeviationPct(s, n, 1)
              alert == DetectDeviation(s, n)
  <2>1. s \in Nat /\ n \in Nat /\ snap # NoDraft
    BY SpendIsCounted, PacingAssumption DEF Snapshots, NoDraft
  <2>2. Overall(snap) = dev
    BY DEF Overall
  <2>. HIDE DEF s, n
  <2>3. /\ dev \in Int
        /\ dev < -1000 <=> \E a \in alert : a[2] = "under"
        /\ dev > 1000 <=> \E a \in alert : a[2] = "over"
        /\ alert # {} => Severity(dev) \in {"warning", "critical"}
        /\ \A a \in alert : a[1] = "critical" => Severity(dev) = "critical"
    BY <2>1, AlertsAgree
  <2>. HIDE DEF dev, alert
  <2>4. /\ CheckPacing(snap) = "behind" <=> dev < -1000
        /\ CheckPacing(snap) = "ahead" <=> dev > 1000
    BY <2>1, <2>2, <2>3 DEF CheckPacing
  <2>5. Severity(dev) # "none" => <<"campaign", Severity(dev)>> \in PacingDashboard(snap).alerts
    BY <2>1, <2>2 DEF PacingDashboard, PacingAlerts
  <2>. QED
    BY <2>3, <2>4, <2>5 DEF alert, s, n
<1>3. \A snap \in {NoDraft, draft} \cup ToSet(kept) : snap = NoDraft \/ snap \in Snapshots
  BY DEF PaceInv, PacingTypes, ToSet
<1>4. ASSUME draft # NoDraft, announced # {}
      PROVE  CheckPacing(draft) \in {"behind", "ahead"} <=> \E e \in announced : e[1] = "deviation"
  <2>. DEFINE alert == DetectDeviation(TotalSpend(draft), draft.expected)
  <2>1. draft \in Snapshots /\ announced = Events(draft)
    BY <1>4 DEF PaceInv, PacingTypes, AnnouncedOfDraft
  <2>2. \A a \in alert : a[2] \in {"under", "over"}
    BY DEF DetectDeviation, Alerts
  <2>3. CheckPacing(draft) \in {"behind", "ahead"} <=> alert # {}
    BY <1>2, <2>1, <2>2
  <2>4. (\E e \in announced : e[1] = "deviation") <=> alert # {}
    <3>1. announced = {<<"taken", draft.at>>} \cup {<<"deviation", a>> : a \in alert}
                        \cup {<<"reallocate", p>> : p \in Proposals(draft)}
      BY <2>1 DEF Events, SnapshotTaken, DeviationEvents, ReallocationEvents
    <3>. HIDE DEF alert
    <3>2. ASSUME NEW a \in alert PROVE \E e \in announced : e[1] = "deviation"
      <4>1. <<"deviation", a>> \in announced
        BY <3>1
      <4>. QED
        BY <4>1
    <3>3. ASSUME NEW e \in announced, e[1] = "deviation" PROVE alert # {}
      BY <3>1, <3>3
    <3>. QED
      BY <3>2, <3>3
  <2>. QED
    BY <2>3, <2>4
<1>5. \A j \in 1 .. Len(report) - 1 : report[j] <= report[j + 1]
  BY DEF PaceInv, SectionsInOrder
<1>. QED
  BY <1>1, <1>2, <1>3, <1>4, <1>5 DEF VerdictsCohere

--------------------------------------------------------------------------------
(* DealLibrary: what the readers make of a listing, a file or a form.      *)

\* What a list of deals says of ids.
IdsOf(s) == {s[k].id : k \in DOMAIN s}
Distinct(s) == \A j, k \in DOMAIN s : s[j].id = s[k].id => j = k

\* The deals that the library may hold.
Deals == [id : {Shape[o].id : o \in Offers}, type : {"pg", "pd", "pa"},
          status : {"active", "paused", "imported"}, ends : {Shape[o].ends : o \in Offers},
          valued : BOOLEAN]

\* What a connector, a line or a form is read as: one deal or none.
Readings(read) ==
    /\ DOMAIN read = 1 .. Len(read) /\ Len(read) \in Nat
    /\ \A i \in DOMAIN read : read[i] \subseteq Deals /\ \A d, e \in read[i] : d = e
ReadIds(read) == {d.id : d \in UNION {read[i] : i \in DOMAIN read}}

\* Sift counts every reading once.
LEMMA SiftCounts ==
  ASSUME NEW read, Readings(read), NEW seen, NEW once \in BOOLEAN
  PROVE  LET s == Sift(read, seen, once) IN
         /\ s.got \in Seq(Deals) /\ s.failed \in Nat /\ s.skipped \in Nat
         /\ Len(read) = Len(s.got) + s.failed + s.skipped
         /\ s.news \in BOOLEAN
<1>. DEFINE n == Len(read)
            good == {i \in DOMAIN read : read[i] # {}}
            Deal(i) == CHOOSE d \in read[i] : TRUE
            skipped == {i \in good : once /\ Deal(i).id # NoId
                        /\ (Deal(i).id \in seen
                            \/ \E j \in good : j < i /\ Deal(j).id = Deal(i).id)}
            keep == good \ skipped
            f == [i \in good |-> Deal(i)]
<1>1. Sift(read, seen, once) =
        [got |-> Picked(f, keep), failed |-> Cardinality(DOMAIN read \ good),
         skipped |-> Cardinality(skipped), news |-> skipped # DOMAIN read]
  BY DEF Sift
<1>2. \A i \in good : f[i] \in Deals
  BY DEF Readings
<1>3. /\ keep \subseteq good /\ skipped \subseteq good /\ good \subseteq 1 .. n /\ n \in Nat
      /\ DOMAIN read = 1 .. n /\ keep = good \ skipped
  BY DEF Readings
<1>. HIDE DEF n, good, skipped, keep, f
<1>4. IsFiniteSet(1 .. n) /\ Cardinality(1 .. n) = n
  BY <1>3, FS_Interval
<1>5. IsFiniteSet(keep) /\ IsFiniteSet(skipped) /\ IsFiniteSet(good) /\ keep \in SUBSET Nat
  <2>1. /\ keep \in SUBSET (1 .. n) /\ skipped \in SUBSET (1 .. n) /\ good \in SUBSET (1 .. n)
        /\ 1 .. n \subseteq Nat
    BY <1>3
  <2>. QED
    BY <1>4, <2>1, FS_Subset
<1>6. PICK o : Shows(Picked(f, keep), f, o, keep)
  BY <1>5, PickedShows
<1>7. /\ Picked(f, keep) = [k \in 1 .. Cardinality(keep) |-> f[o[k]]]
      /\ Cardinality(keep) \in Nat /\ o \in [1 .. Cardinality(keep) -> keep]
  BY <1>6 DEF Shows, Arranges
<1>8. Picked(f, keep) \in Seq(Deals) /\ Len(Picked(f, keep)) = Cardinality(keep)
  <2>1. \A k \in 1 .. Cardinality(keep) : f[o[k]] \in Deals
    BY <1>2, <1>3, <1>7
  <2>. QED
    BY <1>7, <2>1
<1>9. /\ Cardinality(good) + Cardinality(DOMAIN read \ good) = n
      /\ Cardinality(keep) + Cardinality(skipped) = Cardinality(good)
      /\ Cardinality(DOMAIN read \ good) \in Nat /\ Cardinality(skipped) \in Nat
      /\ Cardinality(good) \in Nat
  <2>1. (1 .. n) \cap good = good /\ good \cap skipped = skipped
    BY <1>3
  <2>2. /\ Cardinality((1 .. n) \ good) = Cardinality(1 .. n) - Cardinality((1 .. n) \cap good)
        /\ Cardinality(good \ skipped) = Cardinality(good) - Cardinality(good \cap skipped)
        /\ IsFiniteSet((1 .. n) \ good)
    BY <1>4, <1>5, FS_Difference
  <2>3. /\ Cardinality(good) \in Nat /\ Cardinality(skipped) \in Nat
        /\ Cardinality((1 .. n) \ good) \in Nat
    BY <1>5, <2>2, FS_CardinalityType
  <2>4. DOMAIN read = 1 .. n /\ keep = good \ skipped /\ n \in Nat
    BY <1>3
  <2>5. /\ Cardinality(DOMAIN read \ good) = n - Cardinality(good)
        /\ Cardinality(keep) = Cardinality(good) - Cardinality(skipped)
    BY <1>4, <2>1, <2>2, <2>4, Zenon
  <2>6. Cardinality(DOMAIN read \ good) \in Nat
    BY <2>3, <2>4, Zenon
  <2>. QED
    BY <2>3, <2>4, <2>5, <2>6
<1>. QED
  BY <1>1, <1>7, <1>8, <1>9, <1>3 DEF n

\* What is kept of the readings: of those that are not rejected, all, or each id that was
\* not seen before once.
LEMMA SiftKeeps ==
  ASSUME NEW read, Readings(read), NEW seen, NEW once \in BOOLEAN,
         once => NoId \notin ReadIds(read)
  PROVE  LET s == Sift(read, seen, once) IN
         /\ IdsOf(s.got) \subseteq ReadIds(read)
         /\ once => /\ Distinct(s.got) /\ IdsOf(s.got) \cap seen = {}
                    /\ ReadIds(read) \subseteq IdsOf(s.got) \cup seen
         /\ ~once => ReadIds(read) = IdsOf(s.got)
<1>. DEFINE n == Len(read)
            good == {i \in DOMAIN read : read[i] # {}}
            Deal(i) == CHOOSE d \in read[i] : TRUE
            skipped == {i \in good : once /\ Deal(i).id # NoId
                        /\ (Deal(i).id \in seen
                            \/ \E j \in good : j < i /\ Deal(j).id = Deal(i).id)}
            keep == good \ skipped
            f == [i \in good |-> Deal(i)]
            got == Picked(f, keep)
<1>1. Sift(read, seen, once).got = got
  BY DEF Sift
<1>2. /\ \A i \in good : f[i] \in read[i] /\ i \in DOMAIN read
      /\ \A i \in DOMAIN read : \A d \in read[i] : i \in good /\ f[i] = d
  BY DEF Readings
<1>3. /\ keep \subseteq good /\ good \subseteq 1 .. n /\ n \in Nat
  BY DEF Readings
<1>4. /\ \A i \in good : once /\ f[i].id # NoId
                 /\ (f[i].id \in seen \/ \E j \in good : j < i /\ f[j].id = f[i].id)
                 <=> i \notin keep
  OBVIOUS
<1>5. ReadIds(read) = {f[i].id : i \in good}
  <2>. HIDE DEF f, good
  <2>. QED
    BY <1>2 DEF ReadIds
<1>. HIDE DEF n, good, skipped, keep, f
<1>6. IsFiniteSet(keep) /\ keep \in SUBSET Nat
  <2>1. IsFiniteSet(1 .. n)
    BY <1>3, FS_Interval
  <2>2. keep \in SUBSET (1 .. n) /\ 1 .. n \subseteq Nat
    BY <1>3
  <2>. HIDE DEF n
  <2>. QED
    BY <2>1, <2>2, FS_Subset
<1>7. PICK o : Shows(got, f, o, keep)
  BY <1>6, PickedShows
<1>. DEFINE c == Cardinality(keep)
<1>8. /\ got = [k \in 1 .. c |-> f[o[k]]]
      /\ c \in Nat /\ o \in [1 .. c -> keep]
      /\ \A x \in keep : \E k \in 1 .. c : o[k] = x
      /\ \A j, k \in 1 .. c : j < k => o[j] # o[k] /\ o[j] \in Nat /\ o[k] \in Nat
  BY <1>6, <1>7 DEF Shows, Arranges
<1>. HIDE DEF c, got
<1>9. IdsOf(got) = {f[i].id : i \in keep}
  <2>1. DOMAIN got = 1 .. c
    BY <1>8
  <2>2. \A k \in 1 .. c : got[k] = f[o[k]] /\ o[k] \in keep
    BY <1>8
  <2>. QED
    BY <1>8, <2>1, <2>2 DEF IdsOf
<1>10. IdsOf(got) \subseteq ReadIds(read)
  BY <1>3, <1>5, <1>9
<1>11. ASSUME ~once PROVE ReadIds(read) = IdsOf(got)
  BY <1>3, <1>4, <1>5, <1>9, <1>11
<1>12. ASSUME once PROVE /\ IdsOf(got) \cap seen = {}
                         /\ \A i, j \in keep : f[i].id = f[j].id => i = j
  <2>1. \A i \in good : f[i].id # NoId
    BY <1>5, <1>12
  <2>. QED
    BY <1>3, <1>4, <1>9, <1>12, <2>1
<1>13. ASSUME once PROVE Distinct(got)
  <2>1. DOMAIN got = 1 .. c /\ \A k \in 1 .. c : got[k] = f[o[k]] /\ o[k] \in keep
    BY <1>8
  <2>2. \A j, k \in 1 .. c : j # k => o[j] # o[k]
    BY <1>8
  <2>. QED
    BY <1>12, <1>13, <2>1, <2>2 DEF Distinct
<1>14. ASSUME once, NEW i \in good PROVE f[i].id \in IdsOf(got) \cup seen
  <2>. DEFINE B == {j \in good : f[j].id = f[i].id}
  <2>1. B \in SUBSET Nat /\ i \in B
    <3>1. good \subseteq Nat /\ B \subseteq good
      BY <1>3
    <3>. QED
      BY <3>1
  <2>2. PICK j \in B : \A k \in B : j <= k
    <3>. HIDE DEF B
    <3>. QED
      BY <2>1, LeastNumber
  <2>3. ~\E k \in good : k < j /\ f[k].id = f[j].id
    BY <1>3, <2>2
  <2>. QED
    BY <1>4, <1>9, <2>2, <2>3
<1>. QED
  BY <1>1, <1>5, <1>10, <1>11, <1>12, <1>13, <1>14

\* One deal or none, with an id.
OneOrNone(D) == D \subseteq Deals /\ \A d, e \in D : d = e
Identified(D) == OneOrNone(D) /\ \A d \in D : d.id # NoId

\* What each reader makes of an offer.
LEMMA OffersAreRead ==
  ASSUME NEW o \in Offers
  PROVE  /\ Identified(IndexDeal(Shape[o])) /\ Identified(PubMaticDeal(Shape[o]))
         /\ Identified(MagniteDeal(Shape[o])) /\ OneOrNone(ParseRow(Shape[o]))
         /\ OneOrNone(ManualDeal(Shape[o]))
<1>. DEFINE s == Shape[o]
<1>1. /\ s.type \in OfferTypes /\ s.status \in OfferStatuses
      /\ s.id \in {Shape[x].id : x \in Offers} /\ s.ends \in {Shape[x].ends : x \in Offers}
  BY LibraryAssumption
<1>. HIDE DEF s
<1>2. ASSUME NEW type \in {"pg", "pd", "pa"}, NEW status \in {"active", "paused", "imported"}
      PROVE  OneOrNone(DealOf(s, type, status)) /\ \A d \in DealOf(s, type, status) : d.id = s.id
  BY <1>1 DEF OneOrNone, DealOf, Deals
<1>3. Identified({}) /\ OneOrNone({})
  BY DEF Identified, OneOrNone
<1>4. Identified(IndexDeal(s))
  <2>1. CASE s.id = NoId \/ ~s.named \/ s.type \in {"none", "odd"}
    BY <1>3, <2>1 DEF IndexDeal
  <2>2. CASE ~(s.id = NoId \/ ~s.named \/ s.type \in {"none", "odd"})
    <3>. DEFINE status == IF s.status = "active" THEN "active" ELSE "paused"
    <3>1. s.type \in {"pg", "pd", "pa"} /\ status \in {"active", "paused", "imported"}
      BY <1>1, <2>2 DEF OfferTypes
    <3>2. IndexDeal(s) = DealOf(s, s.type, status)
      BY <2>2 DEF IndexDeal
    <3>. HIDE DEF status
    <3>. QED
      BY <1>2, <2>2, <3>1, <3>2 DEF Identified
  <2>. QED
    BY <2>1, <2>2
<1>5. Identified(PubMaticDeal(s))
  <2>1. CASE s.id = NoId \/ ~s.named \/ s.type = "odd"
    BY <1>3, <2>1 DEF PubMaticDeal
  <2>2. CASE ~(s.id = NoId \/ ~s.named \/ s.type = "odd")
    <3>. DEFINE type == IF s.type = "none" THEN "pa" ELSE s.type
                status == IF s.status = "odd" THEN "imported" ELSE s.status
    <3>1. type \in {"pg", "pd", "pa"} /\ status \in {"active", "paused", "imported"}
      BY <1>1, <2>2 DEF OfferTypes, OfferStatuses
    <3>2. PubMaticDeal(s) = DealOf(s, type, status)
      BY <2>2 DEF PubMaticDeal
    <3>. HIDE DEF type, status
    <3>. QED
      BY <1>2, <2>2, <3>1, <3>2 DEF Identified
  <2>. QED
    BY <2>1, <2>2
<1>6. Identified(MagniteDeal(s))
  <2>1. CASE s.id = NoId \/ s.type \in {"none", "odd"}
    BY <1>3, <2>1 DEF MagniteDeal
  <2>2. CASE ~(s.id = NoId \/ s.type \in {"none", "odd"})
    <3>1. s.type \in {"pg", "pd", "pa"}
      BY <1>1, <2>2 DEF OfferTypes
    <3>2. MagniteDeal(s) = DealOf(s, s.type, "imported")
      BY <2>2 DEF MagniteDeal
    <3>. QED
      BY <1>2, <2>2, <3>1, <3>2 DEF Identified
  <2>. QED
    BY <2>1, <2>2
<1>7. OneOrNone(ParseRow(s))
  <2>1. CASE (s.id = NoId /\ ~s.named) \/ ~s.sold
    BY <1>3, <2>1 DEF ParseRow
  <2>2. CASE ~((s.id = NoId /\ ~s.named) \/ ~s.sold) /\ s.type = "none"
    BY <1>2, <2>2 DEF ParseRow
  <2>3. CASE ~((s.id = NoId /\ ~s.named) \/ ~s.sold) /\ s.type # "none"
    <3>1. ParseRow(s) = UNION {DealOf(s, type, "imported") : type \in CellType(s.type)}
      BY <2>3 DEF ParseRow
    <3>2. CASE s.type = "odd"
      BY <1>3, <3>1, <3>2 DEF CellType
    <3>3. CASE s.type # "odd"
      <4>1. s.type \in {"pg", "pd", "pa"}
        BY <1>1, <2>3, <3>3 DEF OfferTypes
      <4>2. ParseRow(s) = DealOf(s, s.type, "imported")
        BY <3>1, <3>3 DEF CellType
      <4>. QED
        BY <1>2, <4>1, <4>2
    <3>. QED
      BY <3>2, <3>3
  <2>. QED
    BY <2>1, <2>2, <2>3
<1>8. OneOrNone(ManualDeal(s))
  <2>1. CASE ValidateEntry(s) # {}
    BY <1>3, <2>1 DEF ManualDeal
  <2>2. CASE ValidateEntry(s) = {}
    <3>1. s.type # "odd" /\ s.status # "odd"
      <4>1. "deal_type" \notin ValidateEntry(s) /\ "status" \notin ValidateEntry(s)
        BY <2>2
      <4>. QED
        BY <4>1 DEF ValidateEntry
    <3>2. BuildDealData(s) \in Deals
      BY <1>1, <3>1 DEF BuildDealData, Deals, OfferTypes, OfferStatuses
    <3>. QED
      BY <2>2, <3>2 DEF ManualDeal, OneOrNone
  <2>. QED
    BY <2>1, <2>2
<1>. QED
  BY <1>4, <1>5, <1>6, <1>7, <1>8 DEF s

\* The ids that a reader finds in the first m offers of a list.
IdsUpTo(R, s, m) == {d.id : d \in UNION {R[s[i]] : i \in 1 .. m}}

\* A list of offers, read one by one.
LEMMA ListIsRead ==
  ASSUME NEW R, \A o \in Offers : OneOrNone(R[o]), NEW s \in Seq(Offers),
         NEW read, read = [i \in DOMAIN s |-> R[s[i]]]
  PROVE  Readings(read) /\ Len(read) = Len(s) /\ ReadIds(read) = IdsUpTo(R, s, Len(s))
<1>1. DOMAIN s = 1 .. Len(s) /\ Len(s) \in Nat /\ \A i \in DOMAIN s : s[i] \in Offers
  OBVIOUS
<1>2. read \in [1 .. Len(s) -> SUBSET Deals] /\ \A i \in DOMAIN s : read[i] = R[s[i]]
  BY <1>1 DEF OneOrNone
<1>3. read \in Seq(SUBSET Deals) /\ Len(read) = Len(s) /\ DOMAIN read = 1 .. Len(s)
  BY <1>1, <1>2
<1>4. ASSUME NEW i \in DOMAIN read PROVE read[i] \subseteq Deals /\ \A d, e \in read[i] : d = e
  BY <1>1, <1>2, <1>3 DEF OneOrNone
<1>5. Readings(read)
  BY <1>1, <1>3, <1>4 DEF Readings
<1>6. ReadIds(read) = IdsUpTo(R, s, Len(s))
  <2>1. {read[i] : i \in DOMAIN read} = {R[s[i]] : i \in 1 .. Len(s)}
    BY <1>1, <1>2, <1>3
  <2>. QED
    BY <2>1 DEF ReadIds, IdsUpTo
<1>. QED
  BY <1>3, <1>5, <1>6

\* The offers of a list that an SSP's filter lets through.
Asked(s, status) == Picked(s, {i \in DOMAIN s : Matches(status, s[i])})

\* A page of a list: what it has from a position on, as much as a page holds.
PageFrom(all, from) ==
    LET rest == SubSeq(all, from + 1, Len(all))
    IN  SubSeq(rest, 1, IF Len(rest) < PageSize THEN Len(rest) ELSE PageSize)

\* Such a page is a slice of the list, and one that is not full is the last.
LEMMA PagesAreSlices ==
  ASSUME NEW all \in Seq(Offers), NEW from \in Nat, NEW s, s = PageFrom(all, from)
  PROVE  /\ s \in Seq(Offers) /\ Len(s) <= PageSize
         /\ from >= Len(all) => s = <<>>
         /\ from < Len(all) => from + Len(s) <= Len(all) /\ Len(s) > 0
         /\ Len(s) < PageSize => from + Len(s) >= Len(all)
         /\ \A i \in 1 .. Len(s) : s[i] = all[from + i]
<1>. DEFINE rest == SubSeq(all, from + 1, Len(all))
            m == IF Len(rest) < PageSize THEN Len(rest) ELSE PageSize
<1>1. s = SubSeq(rest, 1, m)
  BY DEF PageFrom
<1>2. Len(all) \in Nat /\ PageSize \in Nat \ {0}
  BY LibraryAssumption
<1>3. /\ rest \in Seq(Offers)
      /\ Len(rest) = IF from + 1 <= Len(all) THEN Len(all) - from ELSE 0
      /\ \A i \in 1 .. Len(all) - from : rest[i] = all[from + i]
  <2>1. \A i \in from + 1 .. Len(all) : all[i] \in Offers
    BY <1>2
  <2>2. from + 1 \in Int /\ Len(all) \in Int
    BY <1>2
  <2>3. /\ rest \in Seq(Offers)
        /\ Len(rest) = IF from + 1 <= Len(all) THEN Len(all) - (from + 1) + 1 ELSE 0
        /\ \A i \in 1 .. Len(all) - (from + 1) + 1 : rest[i] = all[(from + 1) + i - 1]
    BY <2>1, <2>2, SubSeqProperties
  <2>. QED
    BY <1>2, <2>3
<1>. DEFINE l == Len(rest)  n == Len(all)
<1>4. /\ m \in Nat /\ m <= l /\ l \in Nat /\ m <= PageSize
      /\ m < PageSize => m = l
      /\ l > 0 => m > 0
  BY <1>2, <1>3
<1>. HIDE DEF m, rest
<1>5. s \in Seq(Offers) /\ Len(s) = m /\ \A i \in 1 .. m : s[i] = rest[i]
  <2>1. \A i \in 1 .. m : rest[i] \in Offers
    BY <1>3, <1>4
  <2>2. 1 \in Int /\ m \in Int
    BY <1>4
  <2>3. /\ s \in Seq(Offers) /\ Len(s) = IF 1 <= m THEN m - 1 + 1 ELSE 0
        /\ \A i \in 1 .. m - 1 + 1 : s[i] = rest[1 + i - 1]
    BY <1>1, <2>1, <2>2, SubSeqProperties
  <2>. QED
    BY <1>4, <2>3
<1>6. l = (IF from + 1 <= n THEN n - from ELSE 0) /\ n \in Nat
  BY <1>2, <1>3
<1>7. \A i \in 1 .. n - from : rest[i] = all[from + i]
  BY <1>3
<1>. HIDE DEF l, n
<1>8. \A i \in 1 .. m : s[i] = all[from + i]
  <2>1. \A i \in 1 .. m : i \in 1 .. n - from
    BY <1>4, <1>6
  <2>. QED
    BY <1>5, <1>7, <2>1
<1>9. from >= n => m = 0
  BY <1>4, <1>6
<1>10. m = 0 => s = <<>>
  BY <1>5, EmptySeq
<1>11. from < n => from + m <= n /\ m > 0
  BY <1>4, <1>6
<1>12. m < PageSize => from + m >= n
  BY <1>4, <1>6
<1>. QED
  BY <1>4, <1>5, <1>8, <1>9, <1>10, <1>11, <1>12 DEF n

\* Two lists of deals joined: their ids, and whether each comes once.
LEMMA IdsJoined ==
  ASSUME NEW s \in Seq(Deals), NEW t \in Seq(Deals)
  PROVE  /\ IdsOf(s \o t) = IdsOf(s) \cup IdsOf(t)
         /\ Distinct(s) /\ Distinct(t) /\ IdsOf(s) \cap IdsOf(t) = {} => Distinct(s \o t)
<1>. DEFINE q == s \o t
<1>1. /\ q \in Seq(Deals) /\ Len(q) = Len(s) + Len(t)
      /\ \A j \in 1 .. Len(q) : q[j] = IF j <= Len(s) THEN s[j] ELSE t[j - Len(s)]
  BY ConcatProperties
<1>2. /\ DOMAIN q = 1 .. Len(q) /\ DOMAIN s = 1 .. Len(s) /\ DOMAIN t = 1 .. Len(t)
      /\ Len(s) \in Nat /\ Len(t) \in Nat
  BY <1>1
<1>. HIDE DEF q
<1>3. IdsOf(q) = IdsOf(s) \cup IdsOf(t)
  <2>1. ASSUME NEW j \in DOMAIN q PROVE q[j].id \in IdsOf(s) \cup IdsOf(t)
    <3>1. CASE j <= Len(s)
      BY <1>1, <1>2, <3>1 DEF IdsOf
    <3>2. CASE j > Len(s)
      <4>1. j - Len(s) \in DOMAIN t /\ q[j] = t[j - Len(s)]
        BY <1>1, <1>2, <3>2
      <4>. QED
        BY <4>1 DEF IdsOf
    <3>. QED
      BY <1>2, <3>1, <3>2
  <2>2. ASSUME NEW j \in DOMAIN s PROVE s[j].id \in IdsOf(q)
    <3>1. j \in DOMAIN q /\ q[j] = s[j]
      BY <1>1, <1>2
    <3>. QED
      BY <3>1 DEF IdsOf
  <2>3. ASSUME NEW j \in DOMAIN t PROVE t[j].id \in IdsOf(q)
    <3>1. Len(s) + j \in DOMAIN q /\ q[Len(s) + j] = t[j]
      BY <1>1, <1>2
    <3>. QED
      BY <3>1 DEF IdsOf
  <2>. QED
    BY <2>1, <2>2, <2>3 DEF IdsOf
<1>4. ASSUME Distinct(s), Distinct(t), IdsOf(s) \cap IdsOf(t) = {} PROVE Distinct(q)
  <2>1. ASSUME NEW i \in DOMAIN q, NEW j \in DOMAIN q, i < j PROVE q[i].id # q[j].id
    <3>1. /\ i \in 1 .. Len(s) + Len(t) /\ j \in 1 .. Len(s) + Len(t)
          /\ Len(s) \in Nat /\ Len(t) \in Nat
      BY <1>1, <1>2
    <3>2. CASE j <= Len(s)
      <4>1. i \in DOMAIN s /\ j \in DOMAIN s /\ q[i] = s[i] /\ q[j] = s[j]
        BY <1>1, <1>2, <2>1, <3>2, <3>1
      <4>. QED
        BY <1>4, <2>1, <3>1, <4>1 DEF Distinct
    <3>3. CASE i > Len(s)
      <4>1. q[i] = t[i - Len(s)] /\ q[j] = t[j - Len(s)]
        BY <1>1, <1>2, <2>1, <3>3, <3>1
      <4>2. /\ i - Len(s) \in DOMAIN t /\ j - Len(s) \in DOMAIN t
            /\ i - Len(s) # j - Len(s)
        BY <1>2, <2>1, <3>3, <3>1
      <4>. QED
        BY <1>4, <4>1, <4>2 DEF Distinct
    <3>4. CASE i <= Len(s) /\ j > Len(s)
      <4>1. /\ i \in DOMAIN s /\ q[i] = s[i]
            /\ j - Len(s) \in DOMAIN t /\ q[j] = t[j - Len(s)]
        BY <1>1, <1>2, <3>4
      <4>. QED
        BY <1>4, <4>1 DEF IdsOf
    <3>. QED
      BY <1>2, <3>2, <3>3, <3>4
  <2>2. \A i, j \in DOMAIN q : i # j => i < j \/ j < i
    BY <1>2
  <2>. QED
    BY <2>1, <2>2 DEF Distinct
<1>. QED
  BY <1>3, <1>4 DEF q

\* A page of a list that comes to the deals of the first m offers, each id once.
NextPage(R, all, m, s, got) ==
    /\ \A o \in Offers : Identified(R[o])
    /\ all \in Seq(Offers) /\ m \in Nat /\ m <= Len(all) /\ s = PageFrom(all, m)
    /\ got \in Seq(Deals) /\ Distinct(got) /\ IdsOf(got) = IdsUpTo(R, all, m)

\* A list of offers, each read, and what is kept of it beside the deals there are.
ReadBy(R, s) == [i \in DOMAIN s |-> R[s[i]]]
Joined(R, s, got) == got \o Sift(ReadBy(R, s), IdsOf(got), TRUE).got

\* Such a page adds those of its own, and if it is short, it is the last.
PageAdds(R, all, m, s, q) ==
    /\ Len(s) \in Nat /\ Len(s) <= PageSize /\ m + Len(s) <= Len(all)
    /\ Len(s) < PageSize => m + Len(s) >= Len(all)
    /\ Distinct(q) /\ IdsOf(q) = IdsUpTo(R, all, m + Len(s))

\* Taking such a page adds what PageAdds says.
LEMMA PageIsTaken ==
  ASSUME NEW R, NEW all, NEW m, NEW s, NEW got, NextPage(R, all, m, s, got)
  PROVE  PageAdds(R, all, m, s, Joined(R, s, got))
<1>. DEFINE read == ReadBy(R, s)  seen == IdsOf(got)
            t == Sift(read, seen, TRUE).got  k == Len(s)  q == got \o t
<1>1. /\ \A o \in Offers : Identified(R[o])
      /\ all \in Seq(Offers) /\ m \in Nat /\ m <= Len(all) /\ s = PageFrom(all, m)
      /\ got \in Seq(Deals) /\ Distinct(got) /\ IdsOf(got) = IdsUpTo(R, all, m)
  BY DEF NextPage
<1>2. /\ s \in Seq(Offers) /\ Len(s) <= PageSize
      /\ m >= Len(all) => s = <<>>
      /\ m < Len(all) => m + Len(s) <= Len(all) /\ Len(s) > 0
      /\ Len(s) < PageSize => m + Len(s) >= Len(all)
      /\ \A i \in 1 .. Len(s) : s[i] = all[m + i]
  BY <1>1, PagesAreSlices
<1>3. Len(s) \in Nat /\ Len(all) \in Nat /\ (s = <<>> => Len(s) = 0)
  BY <1>1, <1>2
<1>4. m + Len(s) <= Len(all)
  BY <1>1, <1>2, <1>3
<1>5. Readings(read) /\ ReadIds(read) = IdsUpTo(R, s, k)
  BY <1>1, <1>2, ListIsRead DEF Identified, ReadBy
<1>6. k \in Nat /\ Len(all) \in Nat /\ m \in Nat
  BY <1>1, <1>3
<1>7. \A i \in 1 .. k : m + i \in 1 .. Len(all) /\ s[i] = all[m + i]
  BY <1>6, <1>2, <1>4
<1>8. \A i \in 1 .. m : all[i] \in Offers
  BY <1>1, <1>3
<1>9. NoId \notin ReadIds(read)
  <2>1. \A i \in 1 .. k : s[i] \in Offers
    BY <1>2
  <2>. QED
    BY <1>5, <1>1, <2>1 DEF IdsUpTo, Identified
<1>10. /\ IdsOf(t) \subseteq ReadIds(read) /\ Distinct(t) /\ IdsOf(t) \cap seen = {}
       /\ ReadIds(read) \subseteq IdsOf(t) \cup seen
  BY <1>5, <1>9, SiftKeeps
<1>11. t \in Seq(Deals)
  BY <1>5, SiftCounts
<1>. HIDE DEF t
<1>12. IdsOf(q) = IdsOf(got) \cup IdsOf(t)
  BY <1>1, <1>11, IdsJoined
<1>13. Distinct(q)
  BY <1>1, <1>10, <1>11, IdsJoined
<1>. HIDE DEF q
<1>14. IdsUpTo(R, all, m + k) = IdsUpTo(R, all, m) \cup IdsUpTo(R, s, k)
  <2>1. {R[all[i]] : i \in 1 .. (m + k)} = {R[all[i]] : i \in 1 .. m} \cup {R[s[i]] : i \in 1 .. k}
    <3>1. ASSUME NEW i \in 1 .. (m + k)
          PROVE  R[all[i]] \in {R[all[j]] : j \in 1 .. m} \cup {R[s[j]] : j \in 1 .. k}
      <4>1. CASE i <= m
        BY <1>6, <4>1
      <4>2. CASE i > m
        <5>1. i - m \in 1 .. k /\ m + (i - m) = i
          BY <1>6, <4>2
        <5>2. s[i - m] = all[i]
          BY <1>7, <5>1
        <5>. QED
          BY <5>1, <5>2
      <4>. QED
        BY <1>6, <4>1, <4>2
    <3>2. ASSUME NEW i \in 1 .. m PROVE R[all[i]] \in {R[all[j]] : j \in 1 .. (m + k)}
      BY <1>6
    <3>3. ASSUME NEW i \in 1 .. k PROVE R[s[i]] \in {R[all[j]] : j \in 1 .. (m + k)}
      <4>1. m + i \in 1 .. (m + k) /\ s[i] = all[m + i]
        BY <1>6, <1>7
      <4>. QED
        BY <4>1
    <3>. QED
      BY <3>1, <3>2, <3>3
  <2>. QED
    BY <2>1 DEF IdsUpTo
<1>15. IdsOf(q) = IdsUpTo(R, all, m + k)
  BY <1>5, <1>10, <1>12, <1>14, <1>1
<1>. QED
  BY <1>13, <1>15, <1>2, <1>3, <1>4 DEF q, t, PageAdds, Joined

\* What a filter lets through, and a page of it.
LEMMA PageIsServed ==
  ASSUME listing \in Seq(Offers), pages \in BOOLEAN, NEW params, params.skip \in Nat
  PROVE  LET all == Asked(listing, params.status) IN
         /\ all \in Seq(Offers) /\ Served(params).total = Len(all)
         /\ \E from \in Nat : /\ pages => from = params.skip * PageSize
                              /\ Served(params).deals = PageFrom(all, from)
<1>. DEFINE all == Asked(listing, params.status)
            from == IF pages THEN params.skip * PageSize ELSE 0
<1>1. {i \in DOMAIN listing : Matches(params.status, listing[i])} \in SUBSET (DOMAIN listing)
  OBVIOUS
<1>2. all \in Seq(Offers)
  BY <1>1, PickedItems DEF Asked
<1>3. from \in Nat
  BY LibraryAssumption
<1>4. Served(params) = [deals |-> PageFrom(all, from), total |-> Len(all)]
  BY DEF Served, Asked, PageFrom
<1>. HIDE DEF all
<1>. QED
  BY <1>2, <1>3, <1>4 DEF all

--------------------------------------------------------------------------------
(* DealLibrary: the counts of an import and the rows it saves.             *)

\* The states of an import.
ImportStates == {"login", "fetching", "saving", "describing", "done", "raised"}
Imports == [pc : ImportStates, source : Sources \cup {"csv", "manual", "none"},
            filter : Filters \cup {"all"}, page : 0 .. MaxPages, got : Seq(Deals),
            total : Nat, failed : Nat, skipped : Nat, saved : Nat,
            stopped : BOOLEAN, steady : BOOLEAN, listed : Seq(Offers)]

\* The types, without what LibTypeOK asks of the rows.
LibTypes ==
    /\ listing \in Seq(Offers) /\ pages \in BOOLEAN /\ imports \in 0 .. MaxImports
    /\ import = NoImport <=> imports = 0
    /\ import # NoImport => import \in Imports
\* The counts of an import add up, and it saves what it read and nothing before it.
Accounts(m) ==
    /\ m.total = Len(m.got) + m.failed + m.skipped /\ m.saved <= Len(m.got)
    /\ m.pc = "done" => m.saved = Len(m.got)
    /\ m.pc = "describing" => m.saved > 0
    /\ m.pc \in {"login", "fetching"} => m.saved = 0 /\ ~m.stopped /\ m.source \in Sources
    /\ m.pc = "fetching" /\ IsIndex(m.source) => m.page < MaxPages
    /\ m.pc \in {"login", "fetching"} /\ m.source = "magnite" => m.page = 0
    /\ m.pc = "login" => m.source = "magnite"
\* The rows of the library, those of the import under way among them.
OwnRow(row) ==
    row.import = imports =>
        /\ row.nth <= import.saved /\ row.deal = import.got[row.nth]
        /\ ~row.described => import.pc \in {"describing", "raised"} /\ row.nth = import.saved
Saved(n) ==
    \E row \in library : /\ row.import = imports /\ row.nth = n
                         /\ n < import.saved \/ import.pc \notin {"describing", "raised"}
                              => row.described
\* The rows are of imports that began, each its own, and of one import at most one is not
\* yet described.
RowsAreSaved ==
    /\ IsFiniteSet(library)
    /\ \A row \in library :
         row \in [import : 1 .. imports, nth : Nat \ {0}, deal : Deals, described : BOOLEAN]
    /\ \A row \in library : OwnRow(row)
    /\ \A r, s \in library : r.import = s.import /\ r.nth = s.nth => r = s
    /\ \A r, s \in library : r.import = s.import /\ ~r.described /\ ~s.described => r = s
    /\ import # NoImport => \A n \in 1 .. import.saved : Saved(n)
\* The strengthening of LibTypeOK and of ImportIsWhole.
LibInv == LibTypes /\ (import # NoImport => Accounts(import)) /\ RowsAreSaved

\* What an import starts as.
LEMMA BegunImport ==
  ASSUME listing \in Seq(Offers), NEW source \in Sources \cup {"csv", "manual", "none"},
         NEW pc \in ImportStates
  PROVE  Begun(source, pc) \in Imports
<1>1. 0 \in 0 .. MaxPages /\ <<>> \in Seq(Deals)
  BY LibraryAssumption
<1>. QED
  BY <1>1 DEF Begun, Imports

\* An import that begins leaves the rows to those before it.
LEMMA BeginKeeps ==
  ASSUME LibInv, NEW m \in Imports, Accounts(m), m.saved = 0, Begin(m)
  PROVE  LibInv'
<1>1. imports' = imports + 1 /\ imports < MaxImports /\ import' = m /\ m # NoImport
      /\ listing' = listing /\ pages' = pages /\ library' = library /\ imports \in Nat
      /\ MaxImports \in Nat
  BY LibraryAssumption DEF Begin, Imports, ImportStates, NoImport, LibInv, LibTypes
<1>2. LibTypes'
  BY <1>1 DEF LibInv, LibTypes
<1>3. Accounts(import)'
  BY <1>1 DEF Accounts
<1>4. \A row \in library :
        /\ row \in [import : 1 .. imports', nth : Nat \ {0}, deal : Deals, described : BOOLEAN]
        /\ row.import # imports'
  <2>. SUFFICES ASSUME NEW row \in library
                PROVE  /\ row \in [import : 1 .. imports', nth : Nat \ {0}, deal : Deals,
                                   described : BOOLEAN]
                       /\ row.import # imports'
    OBVIOUS
  <2>1. row \in [import : 1 .. imports, nth : Nat \ {0}, deal : Deals, described : BOOLEAN]
    BY DEF LibInv, RowsAreSaved
  <2>2. row.import \in 1 .. imports' /\ row.import # imports'
    BY <1>1, <2>1
  <2>. QED
    BY <2>1, <2>2
<1>5. \A n \in 1 .. import'.saved : FALSE
  BY <1>1
<1>6. RowsAreSaved'
  BY <1>1, <1>4, <1>5 DEF LibInv, RowsAreSaved, OwnRow, Saved
<1>. QED
  BY <1>2, <1>3, <1>6 DEF LibInv

\* While nothing is saved, whatever is read leaves the rows alone.
LEMMA ReadingKeeps ==
  ASSUME LibInv, import # NoImport, import' \in Imports, Accounts(import'), import.saved = 0,
         import'.saved = 0, listing' \in Seq(Offers), UNCHANGED <<pages, library, imports>>
  PROVE  LibInv'
<1>1. import' # NoImport
  BY DEF Imports, ImportStates, NoImport
<1>2. LibTypes'
  BY <1>1 DEF LibInv, LibTypes
<1>3. \A row \in library : row.import # imports
  <2>. SUFFICES ASSUME NEW row \in library, row.import = imports PROVE FALSE
    OBVIOUS
  <2>1. row.nth \in Nat \ {0} /\ row.nth <= 0
    BY DEF LibInv, RowsAreSaved, OwnRow
  <2>. QED
    BY <2>1
<1>4. \A n \in 1 .. import'.saved : FALSE
  OBVIOUS
<1>5. RowsAreSaved'
  BY <1>3, <1>4 DEF LibInv, RowsAreSaved, OwnRow, Saved
<1>. QED
  BY <1>1, <1>2, <1>5 DEF LibInv, Accounts

\* An import that is refused: a row that failed, and nothing to save.
LEMMA RefusedImport ==
  ASSUME listing \in Seq(Offers)
  PROVE  Refused \in Imports /\ Accounts(Refused) /\ Refused.saved = 0
<1>1. Begun("none", "done") \in Imports
  BY BegunImport DEF ImportStates
<1>2. Refused = [Begun("none", "done") EXCEPT !.failed = 1, !.total = 1]
  BY DEF Refused
<1>3. Refused \in Imports
  BY <1>1, <1>2 DEF Imports
<1>4. /\ Refused.total = 1 /\ Refused.got = <<>> /\ Refused.failed = 1 /\ Refused.skipped = 0
      /\ Refused.saved = 0 /\ Refused.pc = "done"
  BY <1>2 DEF Begun
<1>5. Len(<<>>) = 0
  OBVIOUS
<1>. QED
  BY <1>3, <1>4, <1>5 DEF Accounts

\* What an import is asked to do: the three tools.
LEMMA SspImportStep == LibInv /\ ImportDealsSsp => LibInv'
<1>. SUFFICES ASSUME LibInv, ImportDealsSsp PROVE LibInv'
  OBVIOUS
<1>1. PICK source \in Sources \cup {"unknown"}, configured \in BOOLEAN, filter \in Filters :
        Begin(IF source = "unknown" \/ ~configured \/ (IsIndex(source) /\ ~IndexFilterOk(filter))
              THEN Refused
              ELSE [Begun(source, IF source = "magnite" THEN "login" ELSE "fetching")
                      EXCEPT !.filter = filter])
  BY DEF ImportDealsSsp
<1>2. listing \in Seq(Offers)
  BY DEF LibInv, LibTypes
<1>3. CASE source = "unknown" \/ ~configured \/ (IsIndex(source) /\ ~IndexFilterOk(filter))
  BY <1>1, <1>2, <1>3, RefusedImport, BeginKeeps
<1>4. CASE ~(source = "unknown" \/ ~configured \/ (IsIndex(source) /\ ~IndexFilterOk(filter)))
  <2>. DEFINE pc == IF source = "magnite" THEN "login" ELSE "fetching"
              m == [Begun(source, pc) EXCEPT !.filter = filter]
  <2>1. source \in Sources /\ pc \in ImportStates
    BY <1>4 DEF ImportStates
  <2>2. Begun(source, pc) \in Imports
    BY <1>2, <2>1, BegunImport
  <2>3. m \in Imports
    BY <2>2 DEF Imports
  <2>4. Accounts(m) /\ m.saved = 0
    BY <2>1, EmptySeq, LibraryAssumption DEF Accounts, Begun
  <2>5. Begin(m)
    BY <1>1, <1>4
  <2>. HIDE DEF m
  <2>. QED
    BY <2>3, <2>4, <2>5, BeginKeeps
<1>. QED
  BY <1>3, <1>4

\* A file is read line by line, when it is one the parser knows.
LEMMA CsvImportStep == LibInv /\ ImportDealsCsv => LibInv'
<1>. SUFFICES ASSUME LibInv, ImportDealsCsv PROVE LibInv'
  OBVIOUS
<1>1. PICK text \in Texts : Begin(ParseCsv(text))
  BY DEF ImportDealsCsv
<1>2. listing \in Seq(Offers)
  BY DEF LibInv, LibTypes
<1>3. Begun("csv", "saving") \in Imports
  BY <1>2, BegunImport DEF ImportStates
<1>4. ParseCsv(text) \in Imports /\ Accounts(ParseCsv(text)) /\ ParseCsv(text).saved = 0
  <2>1. CASE ResolveColumns(text) = {}
    BY <1>3, <2>1, EmptySeq DEF ParseCsv, Begun, Accounts
  <2>2. CASE ResolveColumns(text) # {}
    <3>. DEFINE I == {i \in DOMAIN text.lines : text.lines[i] # Blank}
                lines == Picked(text.lines, I)
                R == [o \in Offers |-> ParseRow(Shape[o])]
                read == [i \in DOMAIN lines |-> ParseRow(Shape[lines[i]])]
                sifted == Sift(read, {}, TRUE)
                m == [Begun("csv", "saving") EXCEPT !.total = Len(lines), !.got = sifted.got,
                        !.failed = sifted.failed, !.skipped = sifted.skipped]
    <3>1. ParseCsv(text) = m
      BY <2>2 DEF ParseCsv, IngestRows
    <3>2. lines \in Seq(Offers)
      <4>1. text.lines \in Seq(Offers \cup {Blank}) /\ I \in SUBSET (DOMAIN text.lines)
        BY LibraryAssumption
      <4>. HIDE DEF I
      <4>2. /\ lines \in Seq(Offers \cup {Blank})
            /\ \A k \in DOMAIN lines : \E i \in I : lines[k] = text.lines[i]
        BY <4>1, PickedItems
      <4>. HIDE DEF lines
      <4>3. \A k \in 1 .. Len(lines) : lines[k] \in Offers
        <5>1. DOMAIN lines = 1 .. Len(lines)
          BY <4>2
        <5>2. \A k \in 1 .. Len(lines) : lines[k] \in Offers \cup {Blank}
          BY <4>2
        <5>. QED
          BY <4>2, <5>1, <5>2 DEF I
      <4>4. lines \in [1 .. Len(lines) -> Offers] /\ Len(lines) \in Nat
        BY <4>2, <4>3
      <4>. QED
        BY <4>4
    <3>. HIDE DEF lines
    <3>3. /\ \A i \in DOMAIN lines : lines[i] \in Offers
          /\ \A o \in Offers : OneOrNone(R[o])
      BY <3>2, OffersAreRead
    <3>4. read = [i \in DOMAIN lines |-> R[lines[i]]]
      BY <3>3
    <3>. HIDE DEF read, R
    <3>5. Readings(read) /\ Len(read) = Len(lines)
      BY <3>2, <3>3, <3>4, ListIsRead
    <3>6. /\ sifted.got \in Seq(Deals) /\ sifted.failed \in Nat /\ sifted.skipped \in Nat
          /\ Len(lines) = Len(sifted.got) + sifted.failed + sifted.skipped
      BY <3>5, SiftCounts
    <3>7. Len(lines) \in Nat
      BY <3>2
    <3>. HIDE DEF sifted
    <3>8. m \in Imports
      BY <1>3, <3>6, <3>7 DEF Imports
    <3>9. Accounts(m) /\ m.saved = 0
      <4>1. /\ m.total = Len(lines) /\ m.got = sifted.got /\ m.failed = sifted.failed
            /\ m.skipped = sifted.skipped /\ m.saved = 0 /\ m.pc = "saving"
        BY DEF Begun
      <4>2. Len(sifted.got) \in Nat
        BY <3>6
      <4>. QED
        BY <3>6, <4>1, <4>2 DEF Accounts
    <3>. QED
      BY <3>1, <3>8, <3>9
  <2>. QED
    BY <2>1, <2>2
<1>. QED
  BY <1>1, <1>4, BeginKeeps

\* A form is one reading.
LEMMA ManualStep == LibInv /\ CreateDealManual => LibInv'
<1>. SUFFICES ASSUME LibInv, CreateDealManual PROVE LibInv'
  OBVIOUS
<1>. DEFINE m(o) == IF ManualDeal(Shape[o]) = {} THEN Refused
                    ELSE [Begun("manual", "saving")
                            EXCEPT !.total = 1, !.got = SetToSeq(ManualDeal(Shape[o]))]
<1>1. PICK o \in Offers : Begin(m(o))
  BY DEF CreateDealManual
<1>2. listing \in Seq(Offers)
  BY DEF LibInv, LibTypes
<1>3. Begun("manual", "saving") \in Imports /\ Begun("none", "done") \in Imports
  BY <1>2, BegunImport DEF ImportStates
<1>4. m(o) \in Imports /\ Accounts(m(o)) /\ m(o).saved = 0
  <2>1. CASE ManualDeal(Shape[o]) = {}
    BY <1>2, <2>1, RefusedImport
  <2>2. CASE ManualDeal(Shape[o]) # {}
    <3>. DEFINE D == ManualDeal(Shape[o])
    <3>1. PICK d \in Deals : D = {d}
      BY <2>2, OffersAreRead DEF OneOrNone
    <3>2. m(o) = [Begun("manual", "saving") EXCEPT !.total = 1, !.got = SetToSeq(D)]
      BY <2>2
    <3>. HIDE DEF D, m
    <3>3. SetToSeq(D) = <<d>>
      <4>1. Cardinality(D) = 1
        BY <3>1, FS_Singleton
      <4>2. SetToSeq(D) = CHOOSE f \in [1 .. 1 -> D] : IsInjective(f)
        BY <4>1 DEF SetToSeq
      <4>3. <<d>> \in [1 .. 1 -> D] /\ IsInjective(<<d>>)
        BY <3>1 DEF IsInjective
      <4>4. \A f \in [1 .. 1 -> D] : f = <<d>>
        BY <3>1
      <4>. QED
        BY <4>2, <4>3, <4>4
    <3>. DEFINE q == SetToSeq(D)
    <3>4. q \in Seq(Deals) /\ Len(q) = 1
      <4>1. q \in [1 .. 1 -> Deals]
        BY <3>1, <3>3
      <4>. HIDE DEF q
      <4>. QED
        BY <4>1
    <3>. HIDE DEF q
    <3>5. m(o) \in Imports
      <4>1. m(o) = [Begun("manual", "saving") EXCEPT !.total = 1, !.got = q]
        BY <3>2 DEF q
      <4>2. \A b \in Imports : [b EXCEPT !.total = 1, !.got = q] \in Imports
        BY <3>4 DEF Imports
      <4>. QED
        BY <1>3, <4>1, <4>2
    <3>6. /\ m(o).total = 1 /\ Len(m(o).got) = 1 /\ m(o).failed = 0 /\ m(o).skipped = 0
          /\ m(o).saved = 0 /\ m(o).pc = "saving"
      BY <3>2, <3>4 DEF Begun, q
    <3>. QED
      BY <3>5, <3>6 DEF Accounts
  <2>. QED
    BY <2>1, <2>2
<1>. HIDE DEF m
<1>. QED
  BY <1>1, <1>4, BeginKeeps

\* An answer taken: what is read of it is counted.
LEMMA TookKeeps ==
  ASSUME LibInv, import # NoImport, import.pc = "fetching", import.page < MaxPages,
         NEW s \in Seq(Offers), NEW R, \A o \in Offers : OneOrNone(R[o]),
         NEW read, read = [i \in DOMAIN s |-> R[s[i]]],
         NEW seen, NEW once \in BOOLEAN, NEW pc \in {"fetching", "saving"},
         NEW stopped \in BOOLEAN, pc = "fetching" => ~stopped,
         pc = "fetching" /\ IsIndex(import.source) => import.page + 1 < MaxPages,
         pc = "fetching" => import.source # "magnite",
         Took(Sift(read, seen, once), s, pc, stopped),
         UNCHANGED <<listing, pages, library, imports>>
  PROVE  LibInv'
<1>. DEFINE t == Sift(read, seen, once)
<1>1. Readings(read) /\ Len(read) = Len(s)
  BY ListIsRead
<1>2. /\ t.got \in Seq(Deals) /\ t.failed \in Nat /\ t.skipped \in Nat
      /\ Len(s) = Len(t.got) + t.failed + t.skipped
  BY <1>1, SiftCounts
<1>3. import' = [import EXCEPT !.pc = pc, !.page = @ + 1, !.total = @ + Len(s),
                               !.got = @ \o t.got, !.failed = @ + t.failed,
                               !.skipped = @ + t.skipped, !.stopped = stopped]
  BY DEF Took
<1>. HIDE DEF t
<1>4. import \in Imports /\ Accounts(import)
  BY DEF LibInv, LibTypes
<1>5. /\ import.got \o t.got \in Seq(Deals)
      /\ Len(import.got \o t.got) = Len(import.got) + Len(t.got)
      /\ Len(import.got) \in Nat /\ Len(t.got) \in Nat /\ Len(s) \in Nat
  <2>1. import.got \in Seq(Deals)
    BY <1>4 DEF Imports
  <2>. QED
    BY <1>2, <2>1, ConcatProperties, LenProperties
<1>6. /\ import.page \in Nat /\ import.total \in Nat /\ import.failed \in Nat
      /\ import.skipped \in Nat /\ MaxPages \in Nat
  BY <1>4, LibraryAssumption DEF Imports
<1>7. /\ import.page + 1 \in 0 .. MaxPages /\ import.total + Len(s) \in Nat
      /\ import.failed + t.failed \in Nat /\ import.skipped + t.skipped \in Nat
      /\ pc \in ImportStates /\ import.page \in Nat /\ import.total \in Nat
      /\ import.failed \in Nat /\ import.skipped \in Nat
  <2>1. import.page + 1 \in 0 .. MaxPages
    BY <1>6
  <2>2. import.total + Len(s) \in Nat
    BY <1>5, <1>6
  <2>3. import.failed + t.failed \in Nat
    BY <1>2, <1>6
  <2>4. import.skipped + t.skipped \in Nat
    BY <1>2, <1>6
  <2>. QED
    BY <1>6, <2>1, <2>2, <2>3, <2>4 DEF ImportStates
<1>8. /\ import'.pc = pc /\ import'.page = import.page + 1 /\ import'.total = import.total + Len(s)
      /\ import'.got = import.got \o t.got /\ import'.failed = import.failed + t.failed
      /\ import'.skipped = import.skipped + t.skipped /\ import'.stopped = stopped
      /\ import'.source = import.source /\ import'.saved = import.saved
  BY <1>3, <1>4 DEF Imports
<1>9. import' \in Imports
  BY <1>3, <1>4, <1>5, <1>7 DEF Imports
<1>10. import.saved = 0 /\ import.source \in Sources
      /\ import.total = Len(import.got) + import.failed + import.skipped
  BY <1>4 DEF Accounts
<1>11. import'.total = Len(import'.got) + import'.failed + import'.skipped
  <2>1. /\ import'.total = import.total + Len(s)
        /\ Len(import'.got) = Len(import.got) + Len(t.got)
        /\ import'.failed = import.failed + t.failed /\ import'.skipped = import.skipped + t.skipped
    BY <1>5, <1>8
  <2>. DEFINE a == Len(import.got)  b == Len(t.got)  c == import.failed  d == t.failed
              e == import.skipped  f == t.skipped
  <2>2. {a, b, c, d, e, f} \subseteq Nat
    BY <1>2, <1>5, <1>6
  <2>3. import.total = a + c + e /\ Len(s) = b + d + f
    BY <1>2, <1>10
  <2>. HIDE DEF a, b, c, d, e, f
  <2>4. (a + c + e) + (b + d + f) = (a + b) + (c + d) + (e + f)
    BY <2>2
  <2>. QED
    BY <2>1, <2>3, <2>4 DEF a, b, c, d, e, f
<1>12. Accounts(import')
  <2>1. import'.saved = 0 /\ Len(import'.got) \in Nat /\ import'.pc \in {"fetching", "saving"}
    <3>1. import'.saved = 0 /\ import'.pc \in {"fetching", "saving"}
      BY <1>8, <1>10
    <3>2. Len(import'.got) = Len(import.got) + Len(t.got)
      BY <1>5, <1>8
    <3>3. Len(import.got) + Len(t.got) \in Nat
      <4>. DEFINE a == Len(import.got)  b == Len(t.got)
      <4>1. a \in Nat /\ b \in Nat
        BY <1>5
      <4>. HIDE DEF a, b
      <4>2. a + b \in Nat
        BY <4>1
      <4>. QED
        BY <4>2 DEF a, b
    <3>. QED
      BY <3>1, <3>2, <3>3, Zenon
  <2>2. import'.pc = "fetching" => ~import'.stopped /\ import'.source \in Sources
    BY <1>8, <1>10
  <2>3. import'.pc = "fetching" /\ IsIndex(import'.source) => import'.page < MaxPages
    BY <1>8
  <2>5. import'.pc = "fetching" => import'.source # "magnite"
    BY <1>8
  <2>4. 0 <= Len(import'.got)
    BY <2>1
  <2>. QED
    BY <1>11, <2>1, <2>2, <2>3, <2>4, <2>5 DEF Accounts
<1>13. listing' \in Seq(Offers)
  BY DEF LibInv, LibTypes
<1>. QED
  BY <1>8, <1>9, <1>10, <1>12, <1>13, ReadingKeeps

\* The reader of each connector.
Reader(source) ==
    [o \in Offers |-> CASE source = "magnite" -> MagniteDeal(Shape[o])
                        [] source = "pubmatic" -> PubMaticDeal(Shape[o])
                        [] OTHER -> IndexDeal(Shape[o])]

\* Each makes one deal or none of an offer.
LEMMA ReadersRead ==
  ASSUME NEW source
  PROVE  \A o \in Offers : Identified(Reader(source)[o]) /\ OneOrNone(Reader(source)[o])
BY OffersAreRead DEF Reader, Identified

\* What an import under way is known to be.
LEMMA ImportUnderWay ==
  ASSUME LibInv, import.pc \in ImportStates
  PROVE  /\ import # NoImport /\ import \in Imports /\ Accounts(import)
         /\ listing \in Seq(Offers) /\ pages \in BOOLEAN /\ import.page \in Nat
         /\ imports \in Nat /\ MaxPages \in Nat
<1>1. import # NoImport
  BY DEF ImportStates, NoImport
<1>. QED
  BY <1>1, LibraryAssumption DEF LibInv, LibTypes, Imports

\* What the page of Index Exchange and that of PubMatic are.
LEMMA IndexPageServed ==
  ASSUME LibInv, import.pc = "fetching"
  PROVE  LET all == Asked(listing, {import.filter} \ {"all"}) IN
         /\ all \in Seq(Offers) /\ IndexPage.total = Len(all)
         /\ \E from \in Nat : /\ pages => from = import.page * PageSize
                              /\ IndexPage.deals = PageFrom(all, from)
                              /\ IndexPage.deals \in Seq(Offers)
<1>1. listing \in Seq(Offers) /\ pages \in BOOLEAN /\ import.page \in Nat
  BY ImportUnderWay DEF ImportStates
<1>2. IndexParams.skip = import.page /\ IndexParams.status = {import.filter} \ {"all"}
  BY DEF IndexParams
<1>3. \A all \in Seq(Offers) : \A from \in Nat : PageFrom(all, from) \in Seq(Offers)
  BY PagesAreSlices
<1>. DEFINE all == Asked(listing, {import.filter} \ {"all"})
<1>4. /\ all \in Seq(Offers) /\ Served(IndexParams).total = Len(all)
      /\ \E from \in Nat : /\ pages => from = import.page * PageSize
                           /\ Served(IndexParams).deals = PageFrom(all, from)
  BY <1>1, <1>2, PageIsServed
<1>. HIDE DEF all
<1>. QED
  BY <1>3, <1>4 DEF IndexPage, all

\* And that of PubMatic, which is the list alone.
LEMMA PubMaticPageServed ==
  ASSUME LibInv, import.pc = "fetching"
  PROVE  LET all == Asked(listing, {import.filter} \ {"all"}) IN
         /\ all \in Seq(Offers)
         /\ \E from \in Nat : /\ pages => from = import.page * PageSize
                              /\ PubMaticPage = PageFrom(all, from)
                              /\ PubMaticPage \in Seq(Offers)
<1>1. listing \in Seq(Offers) /\ pages \in BOOLEAN /\ import.page \in Nat
  BY ImportUnderWay DEF ImportStates
<1>2. PubMaticParams.skip = import.page /\ PubMaticParams.status = {import.filter} \ {"all"}
  <2>1. (import.page + 1) - 1 = import.page
    BY <1>1
  <2>. QED
    BY <2>1 DEF PubMaticParams
<1>3. \A all \in Seq(Offers) : \A from \in Nat : PageFrom(all, from) \in Seq(Offers)
  BY PagesAreSlices
<1>. DEFINE all == Asked(listing, {import.filter} \ {"all"})
<1>4. /\ all \in Seq(Offers)
      /\ \E from \in Nat : /\ pages => from = import.page * PageSize
                           /\ Served(PubMaticParams).deals = PageFrom(all, from)
  BY <1>1, <1>2, PageIsServed
<1>. HIDE DEF all
<1>. QED
  BY <1>3, <1>4 DEF PubMaticPage, all

\* The steps of a fetch, in the terms of TookKeeps.
IndexTook(R, s, read, seen, pc, stopped) ==
    /\ R = Reader(import.source) /\ s = IndexPage.deals
    /\ read = [i \in DOMAIN s |-> R[s[i]]] /\ seen = Seen
    /\ pc = (IF s = <<>> \/ LastPage(import.page + 1, IndexPage, Sift(read, seen, TRUE).news)
             THEN "saving" ELSE "fetching")
    /\ stopped = (s # <<>> /\ Stops(import.page + 1, Sift(read, seen, TRUE).news))
    /\ Took(Sift(read, seen, TRUE), s, pc, stopped)

\* A step of Index Exchange's paging is one of those.
LEMMA FetchIndexTakes ==
  ASSUME LibInv, FetchIndex
  PROVE  \E R, s, read, seen, pc, stopped : IndexTook(R, s, read, seen, pc, stopped)
<1>. DEFINE s == IndexPage.deals
            read0 == [i \in DOMAIN s |-> IndexDeal(Shape[s[i]])]
            R == Reader(import.source)
            read == [i \in DOMAIN s |-> R[s[i]]]
            sifted == Sift(read, Seen, TRUE)
            pc == IF s = <<>> \/ LastPage(import.page + 1, IndexPage, sifted.news)
                  THEN "saving" ELSE "fetching"
            stopped == s # <<>> /\ Stops(import.page + 1, sifted.news)
<1>1. import.pc = "fetching" /\ IsIndex(import.source)
  BY DEF FetchIndex
<1>2. s \in Seq(Offers)
  BY <1>1, IndexPageServed
<1>3. read0 = read
  <2>1. \A i \in DOMAIN s : s[i] \in Offers
    BY <1>2
  <2>2. \A o \in Offers : R[o] = IndexDeal(Shape[o])
    BY <1>1 DEF Reader, IsIndex
  <2>. HIDE DEF R, s
  <2>. QED
    BY <2>1, <2>2
<1>4. Took(Sift(read0, Seen, TRUE), s,
           IF s = <<>> \/ LastPage(import.page + 1, IndexPage, Sift(read0, Seen, TRUE).news)
           THEN "saving" ELSE "fetching",
           s # <<>> /\ Stops(import.page + 1, Sift(read0, Seen, TRUE).news))
  BY DEF FetchIndex
<1>. HIDE DEF read0, read
<1>5. Took(sifted, s, pc, stopped)
  BY <1>3, <1>4
<1>6. IndexTook(R, s, read, Seen, pc, stopped)
  BY <1>5 DEF IndexTook, read
<1>. HIDE DEF s, R, pc, stopped
<1>. QED
  BY <1>6

\* A page of Index Exchange.
LEMMA FetchIndexStep == LibInv /\ FetchIndex => LibInv'
<1>. SUFFICES ASSUME LibInv, FetchIndex PROVE LibInv'
  OBVIOUS
<1>1. /\ import.pc = "fetching" /\ IsIndex(import.source)
      /\ UNCHANGED <<listing, pages, library, imports>>
  BY DEF FetchIndex
<1>2. import # NoImport /\ import \in Imports /\ Accounts(import) /\ import.page \in Nat
      /\ MaxPages \in Nat
  BY <1>1, ImportUnderWay DEF ImportStates
<1>3. import.page < MaxPages
  BY <1>1, <1>2 DEF Accounts
<1>4. PICK R, s, read, seen, pc, stopped : IndexTook(R, s, read, seen, pc, stopped)
  BY FetchIndexTakes
<1>5. s \in Seq(Offers) /\ \A o \in Offers : OneOrNone(R[o])
  BY <1>1, <1>4, IndexPageServed, ReadersRead DEF IndexTook
<1>6. /\ pc \in {"fetching", "saving"} /\ stopped \in BOOLEAN
      /\ pc = "fetching" => ~stopped /\ import.page + 1 < MaxPages
  <2>1. pc = "fetching" => ~Stops(import.page + 1, Sift(read, seen, TRUE).news)
    BY <1>4 DEF IndexTook, LastPage
  <2>2. ~Stops(import.page + 1, Sift(read, seen, TRUE).news) => import.page + 1 < MaxPages
    <3>. DEFINE p == import.page  news == Sift(read, seen, TRUE).news
    <3>1. p \in Nat /\ MaxPages \in Nat
      BY <1>2
    <3>. HIDE DEF p, news
    <3>2. ~Stops(p + 1, news) => p + 1 < MaxPages
      BY <3>1 DEF Stops
    <3>. QED
      BY <3>2 DEF p, news
  <2>. QED
    BY <1>4, <2>1, <2>2 DEF IndexTook
<1>. QED
  BY <1>1, <1>2, <1>3, <1>4, <1>5, <1>6, TookKeeps DEF IndexTook, IsIndex

\* A page of PubMatic.
LEMMA FetchPubMaticStep == LibInv /\ FetchPubMatic => LibInv'
<1>. SUFFICES ASSUME LibInv, FetchPubMatic PROVE LibInv'
  OBVIOUS
<1>1. /\ import.pc = "fetching" /\ import.source = "pubmatic" /\ import.page < MaxPages
      /\ UNCHANGED <<listing, pages, library, imports>>
  BY DEF FetchPubMatic
<1>2. import # NoImport /\ ~IsIndex(import.source) /\ import.source # "magnite"
  BY <1>1, ImportUnderWay DEF ImportStates, IsIndex
<1>. DEFINE s == PubMaticPage
            R == Reader("pubmatic")
            read0 == [i \in DOMAIN s |-> PubMaticDeal(Shape[s[i]])]
            read == [i \in DOMAIN s |-> R[s[i]]]
            pc == IF Len(s) < PageSize THEN "saving" ELSE "fetching"
<1>3. s \in Seq(Offers)
  BY <1>1, PubMaticPageServed
<1>4. read0 = read
  <2>1. \A i \in DOMAIN s : s[i] \in Offers
    BY <1>3
  <2>2. \A o \in Offers : R[o] = PubMaticDeal(Shape[o])
    BY DEF Reader
  <2>. HIDE DEF R, s
  <2>. QED
    BY <2>1, <2>2
<1>5. Took(Sift(read0, Seen, TRUE), s, pc, FALSE)
  BY DEF FetchPubMatic
<1>6. \A o \in Offers : OneOrNone(R[o])
  BY ReadersRead
<1>7. pc \in {"fetching", "saving"}
  OBVIOUS
<1>. HIDE DEF read0, R, s, pc
<1>. QED
  BY <1>1, <1>2, <1>3, <1>4, <1>5, <1>6, <1>7, TookKeeps

\* The listing of Magnite.
LEMMA FetchMagniteStep == LibInv /\ FetchMagnite => LibInv'
<1>. SUFFICES ASSUME LibInv, FetchMagnite PROVE LibInv'
  OBVIOUS
<1>1. /\ import.pc = "fetching" /\ import.source = "magnite"
      /\ UNCHANGED <<listing, pages, library, imports>>
  BY DEF FetchMagnite
<1>2. /\ import # NoImport /\ import \in Imports /\ Accounts(import)
      /\ listing \in Seq(Offers)
  BY <1>1, ImportUnderWay DEF ImportStates
<1>3. ~IsIndex(import.source)
  BY <1>1 DEF IsIndex
<1>. DEFINE s == MagniteAnswer
            R == Reader("magnite")
            read0 == [i \in DOMAIN s |-> MagniteDeal(Shape[s[i]])]
            read == [i \in DOMAIN s |-> R[s[i]]]
<1>4. s \in Seq(Offers)
  BY <1>2 DEF MagniteAnswer
<1>5. read0 = read
  <2>1. \A i \in DOMAIN s : s[i] \in Offers
    BY <1>4
  <2>2. \A o \in Offers : R[o] = MagniteDeal(Shape[o])
    BY DEF Reader
  <2>. HIDE DEF R, s
  <2>. QED
    BY <2>1, <2>2
<1>6. Took(Sift(read0, {}, FALSE), s, "saving", FALSE)
  BY DEF FetchMagnite
<1>7. \A o \in Offers : OneOrNone(R[o])
  BY ReadersRead
<1>8. import.page < MaxPages
  BY <1>1, <1>2, LibraryAssumption DEF Accounts
<1>. HIDE DEF read0, R, s
<1>. QED
  BY <1>1, <1>2, <1>3, <1>4, <1>5, <1>6, <1>7, <1>8, TookKeeps

\* An import whose rows stay as they are, and whose reading is over or fails.
LEMMA OthersKeep ==
  ASSUME LibInv, LoginMagnite \/ FetchFails \/ ListingChanges
  PROVE  LibInv'
<1>1. /\ import.pc \in {"login", "fetching"} /\ UNCHANGED <<pages, library, imports>>
      /\ \/ LoginMagnite /\ import' = [import EXCEPT !.pc = "fetching"] /\ listing' = listing
         \/ FetchFails /\ import' = [import EXCEPT !.pc = "raised"] /\ listing' = listing
         \/ ListingChanges /\ import' = [import EXCEPT !.steady = FALSE]
  BY DEF LoginMagnite, FetchFails, ListingChanges
<1>2. /\ import # NoImport /\ import \in Imports /\ Accounts(import) /\ listing \in Seq(Offers)
  BY <1>1, ImportUnderWay DEF ImportStates
<1>3. import.saved = 0 /\ import'.saved = 0 /\ import' \in Imports
  BY <1>1, <1>2 DEF Accounts, Imports, ImportStates
<1>4. Accounts(import')
  <2>1. /\ import'.total = import.total /\ import'.got = import.got
        /\ import'.failed = import.failed /\ import'.skipped = import.skipped
        /\ import'.saved = import.saved /\ import'.stopped = import.stopped
        /\ import'.source = import.source /\ import'.page = import.page
        /\ import'.pc \in {"login", "fetching", "raised"}
    BY <1>1, <1>2 DEF Imports
  <2>2. import.pc = "login" => import.source = "magnite"
    BY <1>2 DEF Accounts
  <2>3. import'.pc \in {"login", "fetching"} /\ import'.source = "magnite" => import'.page = 0
    BY <1>1, <1>2, <2>1 DEF Accounts
  <2>4. import'.pc = "fetching" /\ IsIndex(import'.source) => import'.page < MaxPages
    BY <1>1, <1>2, <2>1, <2>2 DEF Accounts, IsIndex
  <2>5. import'.pc = "login" => import'.source = "magnite"
    BY <1>1, <1>2, <2>1 DEF Accounts, Imports
  <2>6. import'.pc \in {"login", "fetching"} =>
          import'.saved = 0 /\ ~import'.stopped /\ import'.source \in Sources
    BY <1>1, <1>2, <2>1 DEF Accounts
  <2>. QED
    BY <1>1, <1>2, <2>1, <2>3, <2>4, <2>5, <2>6 DEF Accounts
<1>5. listing' \in Seq(Offers)
  <2>1. CASE listing' = listing
    BY <1>2, <2>1
  <2>2. ASSUME NEW o \in Offers, listing' = Append(listing, o) PROVE listing' \in Seq(Offers)
    BY <1>2, <2>2
  <2>3. ASSUME NEW i \in 1 .. Len(listing), listing' = RemoveAt(listing, i)
        PROVE  listing' \in Seq(Offers)
    <3>1. /\ \A j \in 1 .. i - 1 : listing[j] \in Offers
          /\ \A j \in i + 1 .. Len(listing) : listing[j] \in Offers
          /\ 1 \in Int /\ i - 1 \in Int /\ i + 1 \in Int /\ Len(listing) \in Int
      BY <1>2
    <3>2. SubSeq(listing, 1, i - 1) \in Seq(Offers) /\ SubSeq(listing, i + 1, Len(listing)) \in Seq(Offers)
      BY <3>1, SubSeqProperties
    <3>. QED
      BY <2>3, <3>2, ConcatProperties DEF RemoveAt
  <2>. QED
    BY <1>1, <2>1, <2>2, <2>3 DEF ListingChanges
<1>. QED
  BY <1>1, <1>2, <1>3, <1>4, <1>5, ReadingKeeps

\* A step of the saving loop that leaves the deals read as they are.
SaveMoves(pc, saved) ==
    /\ import' = [import EXCEPT !.pc = pc, !.saved = saved]
    /\ UNCHANGED <<listing, pages, imports>>

\* Such a step keeps the types and the counts.
LEMMA SavingTypes ==
  ASSUME LibInv, import # NoImport, import.pc \in {"saving", "describing"},
         NEW pc \in {"saving", "describing", "done", "raised"}, NEW saved \in Nat,
         saved <= Len(import.got), pc = "done" => saved = Len(import.got),
         pc = "describing" => saved > 0, SaveMoves(pc, saved)
  PROVE  /\ LibTypes' /\ import' # NoImport /\ Accounts(import)'
         /\ import'.pc = pc /\ import'.saved = saved /\ import'.got = import.got
<1>1. import \in Imports /\ Accounts(import) /\ pc \in ImportStates
  BY DEF LibInv, LibTypes, ImportStates
<1>2. import' \in Imports /\ import' # NoImport
  BY <1>1 DEF SaveMoves, Imports, ImportStates, NoImport
<1>3. /\ import'.pc = pc /\ import'.saved = saved /\ import'.got = import.got
      /\ import'.total = import.total /\ import'.failed = import.failed
      /\ import'.skipped = import.skipped
  BY <1>1 DEF SaveMoves, Imports
<1>4. Accounts(import)'
  BY <1>1, <1>3 DEF Accounts
<1>5. LibTypes'
  BY <1>2 DEF LibInv, LibTypes, SaveMoves
<1>. QED
  BY <1>2, <1>3, <1>4, <1>5

\* A save that fails ends the import where it is; the summary ends it with all saved.
LEMMA EndsKeep ==
  ASSUME LibInv, SaveFails \/ Summarise
  PROVE  LibInv'
<1>. DEFINE pc == import'.pc
<1>1. import.pc \in {"saving", "describing"} /\ library' = library
      /\ UNCHANGED <<listing, pages, imports>>
  BY DEF SaveFails, Summarise
<1>2. import # NoImport /\ import \in Imports /\ Accounts(import)
  BY <1>1, ImportUnderWay DEF ImportStates
<1>3. pc \in {"done", "raised"} /\ (pc = "done" => import.saved = Len(import.got) /\ import.pc = "saving")
  BY <1>2 DEF SaveFails, Summarise, Imports
<1>4. SaveMoves(pc, import.saved)
  <2>1. import' = [import EXCEPT !.pc = pc]
    BY <1>2 DEF SaveFails, Summarise, Imports
  <2>2. import' = [import EXCEPT !.pc = pc, !.saved = import.saved]
    <3>. HIDE DEF pc
    <3>. QED
      BY <1>2, <2>1 DEF Imports
  <2>. QED
    BY <1>1, <2>2 DEF SaveMoves
<1>5. import.saved \in Nat /\ import.saved <= Len(import.got)
  BY <1>2 DEF Imports, Accounts
<1>. HIDE DEF pc
<1>6. /\ LibTypes' /\ import' # NoImport /\ Accounts(import)'
      /\ import'.pc = pc /\ import'.saved = import.saved /\ import'.got = import.got
  BY <1>1, <1>2, <1>3, <1>4, <1>5, SavingTypes
<1>7. \A row \in library : OwnRow(row)'
  BY <1>1, <1>3, <1>6 DEF LibInv, RowsAreSaved, OwnRow
<1>8. \A n \in 1 .. import.saved : Saved(n)'
  BY <1>1, <1>2, <1>3, <1>6 DEF LibInv, RowsAreSaved, Saved
<1>9. RowsAreSaved'
  BY <1>1, <1>6, <1>7, <1>8 DEF LibInv, RowsAreSaved
<1>. QED
  BY <1>6, <1>9 DEF LibInv

\* The row of the next deal.
LEMMA SaveDealStep == LibInv /\ SaveDeal => LibInv'
<1>. SUFFICES ASSUME LibInv, SaveDeal PROVE LibInv'
  OBVIOUS
<1>. DEFINE n == import.saved + 1  new == Row(n, FALSE)
<1>1. /\ import.pc = "saving" /\ import.saved < Len(import.got)
      /\ library' = library \cup {new} /\ UNCHANGED <<listing, pages, imports>>
      /\ import' = [import EXCEPT !.pc = "describing", !.saved = @ + 1]
  BY DEF SaveDeal
<1>2. /\ import # NoImport /\ import \in Imports /\ Accounts(import) /\ imports \in Nat
  BY <1>1, ImportUnderWay DEF ImportStates
<1>3. /\ import.saved \in Nat /\ n \in Nat \ {0} /\ n <= Len(import.got) /\ n > import.saved
      /\ import.got[n] \in Deals /\ imports \in 1 .. imports
  <2>1. import.saved \in Nat /\ import.got \in Seq(Deals) /\ Len(import.got) \in Nat
    BY <1>2 DEF Imports
  <2>2. imports # 0
    BY <1>2 DEF LibInv, LibTypes
  <2>. QED
    BY <1>1, <1>2, <2>1, <2>2
<1>4. SaveMoves("describing", n)
  BY <1>1, <1>2 DEF SaveMoves, Imports
<1>5. /\ LibTypes' /\ import' # NoImport /\ Accounts(import)'
      /\ import'.pc = "describing" /\ import'.saved = n /\ import'.got = import.got
  BY <1>1, <1>2, <1>3, <1>4, SavingTypes
<1>6. /\ new \in [import : 1 .. imports, nth : Nat \ {0}, deal : Deals, described : BOOLEAN]
      /\ new.import = imports /\ new.nth = n /\ new.deal = import.got[n] /\ ~new.described
  BY <1>3 DEF Row
<1>. HIDE DEF n, new
<1>7. \A row \in library : /\ row.import = imports => row.nth < n /\ row.described
                           /\ row.nth \in Nat
  BY <1>1, <1>3 DEF LibInv, RowsAreSaved, OwnRow, n
<1>8. \A row \in library' : OwnRow(row)'
  BY <1>1, <1>3, <1>5, <1>6, <1>7 DEF LibInv, RowsAreSaved, OwnRow
<1>9. /\ \A r, s \in library' : r.import = s.import /\ r.nth = s.nth => r = s
      /\ \A r, s \in library' : r.import = s.import /\ ~r.described /\ ~s.described => r = s
  <2>1. \A r \in library : r.import # imports \/ (r.nth # n /\ r.described)
    BY <1>3, <1>7
  <2>2. /\ \A r, s \in library : r.import = s.import /\ r.nth = s.nth => r = s
        /\ \A r, s \in library : r.import = s.import /\ ~r.described /\ ~s.described => r = s
    BY DEF LibInv, RowsAreSaved
  <2>. QED
    BY <1>1, <1>6, <2>1, <2>2
<1>10. \A m \in 1 .. n : Saved(m)'
  <2>. SUFFICES ASSUME NEW m \in 1 .. n PROVE Saved(m)'
    OBVIOUS
  <2>1. CASE m = n
    BY <1>1, <1>5, <1>6, <2>1 DEF Saved
  <2>2. CASE m # n
    <3>1. m \in 1 .. import.saved
      BY <1>3, <2>2 DEF n
    <3>2. PICK row \in library : row.import = imports /\ row.nth = m
      BY <1>2, <3>1 DEF LibInv, RowsAreSaved, Saved
    <3>3. row \in library' /\ row.described
      BY <1>1, <1>7, <3>2
    <3>. QED
      BY <1>1, <3>2, <3>3 DEF Saved
  <2>. QED
    BY <2>1, <2>2
<1>11. IsFiniteSet(library')
  BY <1>1, FS_AddElement DEF LibInv, RowsAreSaved
<1>12. \A row \in library' :
         row \in [import : 1 .. imports, nth : Nat \ {0}, deal : Deals, described : BOOLEAN]
  BY <1>1, <1>6 DEF LibInv, RowsAreSaved
<1>13. RowsAreSaved'
  BY <1>1, <1>5, <1>8, <1>9, <1>10, <1>11, <1>12 DEF RowsAreSaved
<1>. QED
  BY <1>5, <1>13 DEF LibInv

\* The metadata of the row just saved.
LEMMA DescribeStep == LibInv /\ SavePortfolioMetadata => LibInv'
<1>. SUFFICES ASSUME LibInv, SavePortfolioMetadata PROVE LibInv'
  OBVIOUS
<1>. DEFINE n == import.saved  old == Row(n, FALSE)  new == Row(n, TRUE)
<1>1. /\ import.pc = "describing" /\ library' = (library \ {old}) \cup {new}
      /\ import' = [import EXCEPT !.pc = "saving"] /\ UNCHANGED <<listing, pages, imports>>
  BY DEF SavePortfolioMetadata
<1>2. import # NoImport /\ import \in Imports /\ Accounts(import) /\ imports \in Nat
  BY <1>1, ImportUnderWay DEF ImportStates
<1>3. n \in Nat /\ n > 0 /\ n <= Len(import.got)
  BY <1>1, <1>2 DEF Imports, Accounts
<1>4. SaveMoves("saving", n)
  BY <1>1, <1>2 DEF SaveMoves, Imports
<1>5. /\ LibTypes' /\ import' # NoImport /\ Accounts(import)'
      /\ import'.pc = "saving" /\ import'.saved = n /\ import'.got = import.got
  BY <1>1, <1>2, <1>3, <1>4, SavingTypes
<1>6. PICK row \in library : row.import = imports /\ row.nth = n
  <2>1. n \in 1 .. import.saved
    BY <1>3
  <2>. QED
    BY <1>2, <2>1 DEF LibInv, RowsAreSaved, Saved
<1>7. row.deal = import.got[n]
      /\ row \in [import : 1 .. imports, nth : Nat \ {0}, deal : Deals, described : BOOLEAN]
  BY <1>6 DEF LibInv, RowsAreSaved, OwnRow
<1>8. row = old \/ row = new
  <2>1. row = [import |-> row.import, nth |-> row.nth, deal |-> row.deal, described |-> row.described]
    BY <1>7
  <2>2. row.described \in BOOLEAN
    BY <1>7
  <2>3. row = Row(n, row.described)
    BY <1>6, <1>7, <2>1 DEF Row
  <2>. QED
    BY <2>2, <2>3
<1>9. /\ new \in [import : 1 .. imports, nth : Nat \ {0}, deal : Deals, described : BOOLEAN]
      /\ new.import = imports /\ new.nth = n /\ new.deal = import.got[n] /\ new.described
      /\ old.import = imports /\ old.nth = n
  BY <1>6, <1>7 DEF Row
<1>. HIDE DEF n, old, new
<1>10. \A r \in library : r.import = imports /\ r.nth = n => r = row
  BY <1>6 DEF LibInv, RowsAreSaved
<1>11. \A r \in library' : r # new => r \in library /\ ~(r.import = imports /\ r.nth = n)
  BY <1>1, <1>8, <1>10
<1>12. \A r \in library : ~(r.import = imports /\ r.nth = n) => r \in library'
  BY <1>1, <1>9
<1>13. \A r \in library' : r.import = imports => r.described /\ r.nth \in Nat /\ r.nth <= n
                                                 /\ r.deal = import.got[r.nth]
  <2>. SUFFICES ASSUME NEW r \in library', r.import = imports
                PROVE  r.described /\ r.nth \in Nat /\ r.nth <= n /\ r.deal = import.got[r.nth]
    OBVIOUS
  <2>1. CASE r = new
    BY <1>3, <1>9, <2>1
  <2>2. CASE r # new
    <3>1. r \in library /\ r.nth # n
      BY <1>11, <2>2
    <3>. QED
      BY <1>1, <3>1 DEF LibInv, RowsAreSaved, OwnRow, n
  <2>. QED
    BY <2>1, <2>2
<1>14. \A r \in library' : OwnRow(r)'
  BY <1>1, <1>5, <1>13 DEF OwnRow
<1>15. /\ \A r, s \in library' : r.import = s.import /\ r.nth = s.nth => r = s
       /\ \A r, s \in library' : r.import = s.import /\ ~r.described /\ ~s.described => r = s
  <2>1. /\ \A r, s \in library : r.import = s.import /\ r.nth = s.nth => r = s
        /\ \A r, s \in library : r.import = s.import /\ ~r.described /\ ~s.described => r = s
    BY DEF LibInv, RowsAreSaved
  <2>. QED
    BY <1>9, <1>11, <1>13, <2>1
<1>16. \A m \in 1 .. n : Saved(m)'
  <2>. SUFFICES ASSUME NEW m \in 1 .. n PROVE Saved(m)'
    OBVIOUS
  <2>1. CASE m = n
    <3>1. new \in library'
      BY <1>1
    <3>. QED
      BY <1>1, <1>9, <2>1, <3>1 DEF Saved
  <2>2. CASE m # n
    <3>1. m \in 1 .. import.saved
      BY DEF n
    <3>2. PICK r \in library : r.import = imports /\ r.nth = m
      BY <1>2, <3>1 DEF LibInv, RowsAreSaved, Saved
    <3>3. r \in library' /\ r.described
      BY <1>12, <1>13, <2>2, <3>2
    <3>. QED
      BY <1>1, <3>2, <3>3 DEF Saved
  <2>. QED
    BY <2>1, <2>2
<1>17. IsFiniteSet(library')
  <2>1. IsFiniteSet(library \ {old})
    BY FS_RemoveElement DEF LibInv, RowsAreSaved
  <2>. QED
    BY <1>1, <2>1, FS_AddElement
<1>18. \A r \in library' :
         r \in [import : 1 .. imports, nth : Nat \ {0}, deal : Deals, described : BOOLEAN]
  BY <1>9, <1>11 DEF LibInv, RowsAreSaved
<1>19. RowsAreSaved'
  BY <1>1, <1>5, <1>14, <1>15, <1>16, <1>17, <1>18 DEF RowsAreSaved
<1>. QED
  BY <1>5, <1>19 DEF LibInv

\* Every step of the library keeps the invariant.
LEMMA LibMoves == LibInv /\ [LibNext]_libVars => LibInv'
<1>. SUFFICES ASSUME LibInv, [LibNext]_libVars PROVE LibInv'
  OBVIOUS
<1>1. CASE UNCHANGED libVars
  BY <1>1 DEF libVars, LibInv, LibTypes, Accounts, RowsAreSaved, OwnRow, Saved
<1>2. CASE ImportDealsSsp \/ ImportDealsCsv \/ CreateDealManual
  BY <1>2, SspImportStep, CsvImportStep, ManualStep
<1>3. CASE FetchIndex \/ FetchPubMatic \/ FetchMagnite
  BY <1>3, FetchIndexStep, FetchPubMaticStep, FetchMagniteStep
<1>4. CASE LoginMagnite \/ FetchFails \/ ListingChanges
  BY <1>4, OthersKeep
<1>5. CASE SaveDeal \/ SavePortfolioMetadata
  BY <1>5, SaveDealStep, DescribeStep
<1>6. CASE SaveFails \/ Summarise
  BY <1>6, EndsKeep
<1>. QED
  BY <1>1, <1>2, <1>3, <1>4, <1>5, <1>6 DEF LibNext

\* The initial states: no import and no row.
LEMMA LibStart == LibInit => LibInv
<1>. SUFFICES ASSUME LibInit PROVE LibInv
  OBVIOUS
<1>1. LibTypes
  BY LibraryAssumption DEF LibInit, LibTypes
<1>2. RowsAreSaved
  BY FS_EmptySet DEF LibInit, RowsAreSaved
<1>. QED
  BY <1>1, <1>2 DEF LibInv, LibInit

\* The type invariant follows.
LEMMA LibTypesHold == LibInv => LibTypeOK
<1>. SUFFICES ASSUME LibInv PROVE LibTypeOK
  OBVIOUS
<1>1. import = NoImport \/
         /\ import.pc \in {"login", "fetching", "saving", "describing", "done", "raised"}
         /\ import.source \in Sources \cup {"csv", "manual", "none"}
         /\ import.page \in 0 .. MaxPages /\ import.saved \in 0 .. Len(import.got)
  BY DEF LibInv, LibTypes, Imports, ImportStates, Accounts
<1>2. \A row \in library :
         /\ row.import \in 1 .. MaxImports /\ row.described \in BOOLEAN
         /\ row.deal.type \in {"pg", "pd", "pa"}
         /\ row.deal.status \in {"active", "paused", "imported"}
  <2>1. imports \in 0 .. MaxImports /\ MaxImports \in Nat
    BY LibraryAssumption DEF LibInv, LibTypes
  <2>. QED
    BY <2>1 DEF LibInv, RowsAreSaved, Deals
<1>. QED
  BY <1>1, <1>2 DEF LibInv, LibTypes, LibTypeOK

\* What an import that returned says is what the library holds, and at most one row for
\* each import is without its metadata.
LEMMA WholeImports == LibInv => ImportIsWhole
<1>. SUFFICES ASSUME LibInv PROVE ImportIsWhole
  OBVIOUS
<1>. DEFINE bare == {row \in library : ~InspectDeal(row).metadata}
<1>1. /\ IsFiniteSet(library) /\ imports \in Nat
      /\ \A row \in library :
           row \in [import : 1 .. imports, nth : Nat \ {0}, deal : Deals, described : BOOLEAN]
      /\ \A row \in library : OwnRow(row)
      /\ \A r, s \in library : r.import = s.import /\ r.nth = s.nth => r = s
      /\ \A r, s \in library : r.import = s.import /\ ~r.described /\ ~s.described => r = s
      /\ import # NoImport => \A n \in 1 .. import.saved : Saved(n)
  BY LibraryAssumption DEF LibInv, LibTypes, RowsAreSaved
<1>2. bare = {row \in library : ~row.described}
  BY DEF InspectDeal
<1>3. ASSUME import.pc = "done"
      PROVE  /\ import.total = Len(import.got) + import.failed + import.skipped
             /\ \A n \in 1 .. Len(import.got) : Row(n, TRUE) \in library
  <2>1. import # NoImport /\ Accounts(import)
    BY <1>3, ImportUnderWay DEF ImportStates
  <2>2. import.total = Len(import.got) + import.failed + import.skipped
        /\ import.saved = Len(import.got)
    BY <1>3, <2>1 DEF Accounts
  <2>3. ASSUME NEW n \in 1 .. Len(import.got) PROVE Row(n, TRUE) \in library
    <3>1. PICK row \in library : row.import = imports /\ row.nth = n /\ row.described
      BY <1>1, <1>3, <2>1, <2>2, <2>3 DEF Saved
    <3>2. row.deal = import.got[n] /\ row.described = TRUE
          /\ row = [import |-> row.import, nth |-> row.nth, deal |-> row.deal,
                    described |-> row.described]
      BY <1>1, <3>1 DEF OwnRow
    <3>3. row = Row(n, TRUE)
      BY <3>1, <3>2 DEF Row
    <3>. QED
      BY <3>1, <3>3
  <2>. QED
    BY <2>2, <2>3
<1>4. \A row \in library : ~InspectDeal(row).metadata =>
        (row.import = imports => import.pc \in {"describing", "raised"})
  BY <1>1, <1>2 DEF OwnRow
<1>5. Cardinality(bare) <= imports
  <2>. DEFINE f == [row \in bare |-> row.import]
  <2>1. f \in [bare -> 1 .. imports]
    BY <1>1
  <2>2. f \in Injection(bare, 1 .. imports)
    BY <1>1, <1>2, <2>1 DEF Injection, IsInjective
  <2>3. IsFiniteSet(1 .. imports) /\ Cardinality(1 .. imports) = imports
    BY <1>1, FS_Interval
  <2>. HIDE DEF bare, f
  <2>4. Cardinality(bare) <= Cardinality(1 .. imports)
    BY <2>2, <2>3, FS_Injection
  <2>. QED
    BY <2>3, <2>4
<1>. QED
  BY <1>1, <1>3, <1>4, <1>5 DEF ImportIsWhole

--------------------------------------------------------------------------------
(* DealLibrary: what a fetch has read of a partner's listing.              *)

\* The offers that a fetch is to read, and that it has read the first n of them.
ToRead(m) == IF m.source = "magnite" THEN m.listed ELSE Asked(m.listed, {m.filter} \ {"all"})
HasRead(m, n) ==
    /\ IdsOf(m.got) = IdsUpTo(Reader(m.source), ToRead(m), n)
    /\ m.source # "magnite" => Distinct(m.got)
\* A fetch that nothing disturbs has read whole pages, and in the end all of them.
FetchInv ==
    import # NoImport /\ import.source \in Sources /\ import.steady /\ pages =>
        /\ import.pc \in {"login", "fetching"} =>
             /\ import.listed = listing
             /\ import.page * PageSize <= Len(ToRead(import))
             /\ HasRead(import, import.page * PageSize)
        /\ import.pc \in {"saving", "describing", "done"} /\ ~import.stopped =>
             HasRead(import, Len(ToRead(import)))

\* What is offered is a sequence of offers.
LEMMA OfferedList == \A m \in Imports : ToRead(m) \in Seq(Offers)
<1>. SUFFICES ASSUME NEW m \in Imports PROVE ToRead(m) \in Seq(Offers)
  OBVIOUS
<1>. DEFINE s == m.listed  I == {i \in DOMAIN s : Matches({m.filter} \ {"all"}, s[i])}
<1>1. s \in Seq(Offers) /\ I \in SUBSET (DOMAIN s)
  BY DEF Imports
<1>. HIDE DEF s, I
<1>2. Picked(s, I) \in Seq(Offers)
  BY <1>1, PickedItems
<1>. QED
  BY <1>1, <1>2 DEF ToRead, Asked, s, I

\* An import that begins has read nothing.
LEMMA BeginReads ==
  ASSUME LibInv, NEW m \in Imports, Begin(m),
         m.source \in Sources => /\ m.pc \in {"login", "fetching"} /\ m.page = 0 /\ m.got = <<>>
                                 /\ m.listed = listing
  PROVE  FetchInv'
<1>1. import' = m /\ listing' = listing
  BY DEF Begin
<1>. SUFFICES ASSUME m.source \in Sources
              PROVE  /\ m.pc \in {"login", "fetching"} /\ m.listed = listing
                     /\ m.page * PageSize <= Len(ToRead(m))
                     /\ HasRead(m, m.page * PageSize)
  BY <1>1 DEF FetchInv
<1>2. m.page * PageSize = 0 /\ Len(ToRead(m)) \in Nat
  BY OfferedList, LibraryAssumption
<1>3. HasRead(m, 0)
  <2>1. IdsOf(m.got) = {} /\ Distinct(m.got)
    BY DEF IdsOf, Distinct
  <2>2. IdsUpTo(Reader(m.source), ToRead(m), 0) = {}
    BY DEF IdsUpTo
  <2>. QED
    BY <2>1, <2>2 DEF HasRead
<1>. QED
  BY <1>2, <1>3

\* Saving leaves what was read as it is.
LEMMA SavingReads ==
  ASSUME LibInv, FetchInv, SaveDeal \/ SavePortfolioMetadata \/ SaveFails \/ Summarise
  PROVE  FetchInv'
<1>1. import.pc \in {"saving", "describing"} /\ pages' = pages
  BY DEF SaveDeal, SavePortfolioMetadata, SaveFails, Summarise
<1>2. import # NoImport /\ import \in Imports
  BY <1>1, ImportUnderWay DEF ImportStates
<1>3. /\ import'.got = import.got /\ import'.source = import.source
      /\ import'.filter = import.filter /\ import'.listed = import.listed
      /\ import'.steady = import.steady /\ import'.stopped = import.stopped
      /\ import'.pc \in {"saving", "describing", "done", "raised"}
  BY <1>2 DEF SaveDeal, SavePortfolioMetadata, SaveFails, Summarise, Imports
<1>. QED
  BY <1>1, <1>2, <1>3 DEF FetchInv, HasRead, ToRead

\* A login, a failure and a change of the listing read nothing.
LEMMA OthersRead ==
  ASSUME LibInv, FetchInv, LoginMagnite \/ FetchFails \/ ListingChanges
  PROVE  FetchInv'
<1>1. import.pc \in {"login", "fetching"} /\ pages' = pages
  BY DEF LoginMagnite, FetchFails, ListingChanges
<1>2. import # NoImport /\ import \in Imports
  BY <1>1, ImportUnderWay DEF ImportStates
<1>3. CASE ListingChanges
  <2>1. ~import'.steady
    BY <1>2, <1>3 DEF ListingChanges, Imports
  <2>. QED
    BY <2>1 DEF FetchInv
<1>4. CASE FetchFails
  <2>1. import'.pc = "raised"
    BY <1>2, <1>4 DEF FetchFails, Imports
  <2>. QED
    BY <2>1 DEF FetchInv
<1>5. CASE LoginMagnite
  <2>1. /\ import'.got = import.got /\ import'.source = import.source
        /\ import'.filter = import.filter /\ import'.listed = import.listed
        /\ import'.steady = import.steady /\ import'.stopped = import.stopped
        /\ import'.page = import.page /\ import'.pc = "fetching" /\ listing' = listing
    BY <1>2, <1>5 DEF LoginMagnite, Imports
  <2>2. ToRead(import') = ToRead(import) /\ \A n : HasRead(import', n) <=> HasRead(import, n)
    BY <2>1 DEF HasRead, ToRead
  <2>. QED
    BY <1>1, <1>2, <2>1, <2>2 DEF FetchInv
<1>. QED
  BY <1>3, <1>4, <1>5

\* What the import is after an answer.
LEMMA TookGives ==
  ASSUME import \in Imports, NEW t, NEW s, NEW pc, NEW stopped, Took(t, s, pc, stopped)
  PROVE  /\ import'.pc = pc /\ import'.page = import.page + 1 /\ import'.got = import.got \o t.got
         /\ import'.source = import.source /\ import'.filter = import.filter
         /\ import'.listed = import.listed /\ import'.steady = import.steady
         /\ import'.stopped = stopped
BY DEF Took, Imports

\* The ids that the import holds are those of the offers it has read.
LEMMA SeenIds ==
  ASSUME NEW R, \A o \in Offers : Identified(R[o]), NEW all \in Seq(Offers), NEW n \in Nat,
         n <= Len(all), IdsOf(import.got) = IdsUpTo(R, all, n)
  PROVE  Seen = IdsOf(import.got)
<1>1. \A i \in 1 .. n : all[i] \in Offers
  OBVIOUS
<1>2. NoId \notin IdsUpTo(R, all, n)
  BY <1>1 DEF IdsUpTo, Identified
<1>3. Seen = IdsOf(import.got) \ {NoId}
  BY DEF Seen, IdsOf, ToSet
<1>. QED
  BY <1>2, <1>3

\* A page of a steady listing, read: either there are more pages and it was full, or
\* everything has been read.
LEMMA PageReads ==
  ASSUME LibInv, FetchInv, import.pc = "fetching", import.source \in Sources,
         import.source # "magnite", import.steady, pages,
         NEW s, s = PageFrom(Asked(listing, {import.filter} \ {"all"}), import.page * PageSize),
         NEW read, read = ReadBy(Reader(import.source), s),
         NEW pc \in {"fetching", "saving"}, NEW stopped \in BOOLEAN,
         LET n == Len(Asked(listing, {import.filter} \ {"all"})) IN
         /\ pc = "fetching" => Len(s) >= PageSize \/ (import.page + 1) * PageSize < n
         /\ pc = "saving" /\ ~stopped => Len(s) < PageSize \/ (import.page + 1) * PageSize >= n,
         Took(Sift(read, Seen, TRUE), s, pc, stopped), UNCHANGED <<listing, pages>>
  PROVE  FetchInv'
<1>1. /\ import # NoImport /\ import \in Imports /\ listing \in Seq(Offers)
      /\ import.page \in Nat
  BY ImportUnderWay DEF ImportStates
<1>. DEFINE R == Reader(import.source)
            all == ToRead(import)  n == Len(all)  from == import.page * PageSize
            k == Len(s)  q == import.got \o Sift(read, Seen, TRUE).got
<1>2. import.listed = listing /\ from <= n /\ HasRead(import, from)
  BY <1>1 DEF FetchInv
<1>3. all = Asked(listing, {import.filter} \ {"all"})
  BY <1>2 DEF ToRead
<1>4. all \in Seq(Offers) /\ n \in Nat /\ from \in Nat /\ PageSize \in Nat \ {0}
      /\ import.got \in Seq(Deals)
  BY <1>1, OfferedList, LibraryAssumption DEF Imports
<1>5. (import.page + 1) * PageSize = from + PageSize
  BY <1>1, <1>4
<1>6. /\ pc = "fetching" => k >= PageSize \/ from + PageSize < n
      /\ pc = "saving" /\ ~stopped => k < PageSize \/ from + PageSize >= n
  BY <1>3, <1>5
<1>7. s = PageFrom(all, from)
  BY <1>3
<1>8. \A o \in Offers : Identified(R[o])
  BY ReadersRead
<1>9. Distinct(import.got) /\ IdsOf(import.got) = IdsUpTo(R, all, from)
  BY <1>2 DEF HasRead
<1>10. /\ import'.pc = pc /\ import'.page = import.page + 1 /\ import'.got = q
       /\ import'.source = import.source /\ import'.filter = import.filter
       /\ import'.listed = import.listed /\ import'.steady = import.steady
       /\ import'.stopped = stopped
  BY <1>1, TookGives
<1>11. ToRead(import') = all
  BY <1>10 DEF ToRead
<1>. HIDE DEF R, all, from
<1>12. Seen = IdsOf(import.got)
  BY <1>2, <1>4, <1>8, <1>9, SeenIds
<1>13. NextPage(R, all, from, s, import.got) /\ read = ReadBy(R, s)
  BY <1>2, <1>4, <1>7, <1>8, <1>9 DEF NextPage, R
<1>14. /\ k \in Nat /\ k <= PageSize /\ from + k <= n
       /\ k < PageSize => from + k >= n
       /\ Distinct(q) /\ IdsOf(q) = IdsUpTo(R, all, from + k)
  <2>1. q = Joined(R, s, import.got)
    BY <1>12, <1>13 DEF Joined, q
  <2>2. PageAdds(R, all, from, s, q)
    BY <1>13, <2>1, PageIsTaken
  <2>. QED
    BY <2>2 DEF PageAdds
<1>15. n \in Nat /\ from \in Nat /\ PageSize \in Nat
  BY <1>4
<1>16. HasRead(import', from + k)
  BY <1>10, <1>11, <1>14 DEF HasRead, R
<1>. HIDE DEF n, k, q
<1>17. CASE pc = "fetching"
  <2>1. k = PageSize /\ from + PageSize <= n
    BY <1>6, <1>14, <1>15, <1>17
  <2>2. import'.page * PageSize = from + k
    BY <1>5, <1>10, <2>1
  <2>. QED
    BY <1>2, <1>10, <1>11, <1>14, <1>16, <1>17, <2>2 DEF FetchInv, n
<1>18. CASE pc = "saving"
  <2>1. ~stopped => from + k = n
    BY <1>6, <1>14, <1>15, <1>18
  <2>2. ~stopped => HasRead(import', Len(ToRead(import')))
    BY <1>11, <1>16, <2>1 DEF n
  <2>. QED
    BY <1>10, <1>18, <2>2 DEF FetchInv
<1>. QED
  BY <1>17, <1>18

\* A fetch that FetchInv says nothing of, before or after an answer.
LEMMA UnsureReads ==
  ASSUME import \in Imports, NEW t, NEW s, NEW pc, NEW stopped, Took(t, s, pc, stopped),
         UNCHANGED pages, ~(import.source \in Sources /\ import.steady /\ pages)
  PROVE  FetchInv'
<1>1. import'.source = import.source /\ import'.steady = import.steady
  BY TookGives
<1>. QED
  BY <1>1 DEF FetchInv

\* Where Index Exchange's paging ends.
LEMMA IndexEnds ==
  ASSUME import.page \in Nat, NEW R, NEW s, NEW read, NEW seen, NEW pc, NEW stopped,
         IndexTook(R, s, read, seen, pc, stopped), s \in Seq(Offers),
         NEW n \in Nat, n = IndexPage.total
  PROVE  /\ pc \in {"fetching", "saving"} /\ stopped \in BOOLEAN
         /\ pc = "fetching" => Len(s) >= PageSize \/ (import.page + 1) * PageSize < n
         /\ pc = "saving" /\ ~stopped => Len(s) < PageSize \/ (import.page + 1) * PageSize >= n
<1>. DEFINE next == import.page + 1  news == Sift(read, seen, TRUE).news  x == next * PageSize
<1>1. /\ s = IndexPage.deals
      /\ pc = IF s = <<>> \/ LastPage(next, IndexPage, news) THEN "saving" ELSE "fetching"
      /\ stopped = (s # <<>> /\ Stops(next, news))
  BY DEF IndexTook
<1>. HIDE DEF next, news
<1>2. Len(s) \in Nat /\ PageSize \in Nat \ {0} /\ (s = <<>> => Len(s) = 0)
  BY LibraryAssumption
<1>3. LastPage(next, IndexPage, news) <=>
        \/ Stops(next, news)
        \/ IF import.source = "index_exchange" THEN x >= n ELSE Len(s) < PageSize
  BY <1>1 DEF LastPage
<1>4. x \in Nat
  BY <1>2 DEF next
<1>. HIDE DEF x
<1>5. pc = "fetching" => Len(s) >= PageSize \/ x < n
  <2>1. pc = "fetching" => ~(IF import.source = "index_exchange" THEN x >= n ELSE Len(s) < PageSize)
    BY <1>1, <1>3
  <2>. DEFINE k == Len(s)
  <2>2. k \in Nat
    BY <1>2
  <2>. HIDE DEF k
  <2>. QED
    BY <1>2, <1>4, <2>1, <2>2 DEF k
<1>6. pc = "saving" /\ ~stopped => Len(s) < PageSize \/ x >= n
  <2>1. CASE s = <<>>
    BY <1>2, <2>1
  <2>2. CASE s # <<>>
    <3>1. ~stopped => ~Stops(next, news)
      BY <1>1, <2>2
    <3>2. pc = "saving" => LastPage(next, IndexPage, news)
      BY <1>1, <2>2
    <3>. QED
      BY <1>3, <3>1, <3>2
  <2>. QED
    BY <2>1, <2>2
<1>7. stopped \in BOOLEAN /\ pc \in {"fetching", "saving"}
  BY <1>1 DEF Stops
<1>. QED
  BY <1>5, <1>6, <1>7 DEF x, next

\* A page of Index Exchange, read.
LEMMA FetchIndexReads == LibInv /\ FetchInv /\ FetchIndex => FetchInv'
<1>. SUFFICES ASSUME LibInv, FetchInv, FetchIndex PROVE FetchInv'
  OBVIOUS
<1>1. /\ import.pc = "fetching" /\ IsIndex(import.source)
      /\ UNCHANGED <<listing, pages, library, imports>>
  BY DEF FetchIndex
<1>2. /\ import \in Imports /\ import.source # "magnite" /\ pages \in BOOLEAN
      /\ import.page \in Nat
  BY <1>1, ImportUnderWay DEF ImportStates, IsIndex
<1>3. PICK R, s, read, seen, pc, stopped : IndexTook(R, s, read, seen, pc, stopped)
  BY FetchIndexTakes
<1>4. /\ R = Reader(import.source) /\ s = IndexPage.deals
      /\ read = ReadBy(R, s) /\ seen = Seen /\ Took(Sift(read, seen, TRUE), s, pc, stopped)
  BY <1>3 DEF IndexTook, ReadBy
<1>5. CASE ~(import.source \in Sources /\ import.steady /\ pages)
  BY <1>1, <1>2, <1>4, <1>5, UnsureReads
<1>6. CASE import.source \in Sources /\ import.steady /\ pages
  <2>. DEFINE all == Asked(listing, {import.filter} \ {"all"})  n == Len(all)
  <2>1. /\ all \in Seq(Offers) /\ IndexPage.total = n
        /\ s = PageFrom(all, import.page * PageSize) /\ s \in Seq(Offers)
    BY <1>1, <1>4, <1>6, IndexPageServed
  <2>2. n \in Nat
    BY <2>1
  <2>3. /\ pc \in {"fetching", "saving"} /\ stopped \in BOOLEAN
        /\ pc = "fetching" => Len(s) >= PageSize \/ (import.page + 1) * PageSize < n
        /\ pc = "saving" /\ ~stopped => Len(s) < PageSize \/ (import.page + 1) * PageSize >= n
    <3>. HIDE DEF n
    <3>. QED
      BY <1>2, <1>3, <2>1, <2>2, IndexEnds
  <2>4. Took(Sift(read, Seen, TRUE), s, pc, stopped) /\ read = ReadBy(Reader(import.source), s)
    BY <1>4
  <2>. QED
    BY <1>1, <1>2, <1>6, <2>1, <2>3, <2>4, PageReads
<1>. QED
  BY <1>5, <1>6

\* A page of PubMatic, read.
LEMMA FetchPubMaticReads == LibInv /\ FetchInv /\ FetchPubMatic => FetchInv'
<1>. SUFFICES ASSUME LibInv, FetchInv, FetchPubMatic PROVE FetchInv'
  OBVIOUS
<1>1. /\ import.pc = "fetching" /\ import.source = "pubmatic"
      /\ UNCHANGED <<listing, pages, library, imports>>
  BY DEF FetchPubMatic
<1>2. import \in Imports /\ import.source # "magnite" /\ pages \in BOOLEAN
  BY <1>1, ImportUnderWay DEF ImportStates
<1>. DEFINE s == PubMaticPage
            read0 == [i \in DOMAIN s |-> PubMaticDeal(Shape[s[i]])]
            R == Reader(import.source)  read == ReadBy(R, s)
            pc == IF Len(s) < PageSize THEN "saving" ELSE "fetching"
            all == Asked(listing, {import.filter} \ {"all"})  n == Len(all)
<1>3. s \in Seq(Offers)
  BY <1>1, PubMaticPageServed
<1>4. read0 = read
  <2>1. \A i \in DOMAIN s : s[i] \in Offers
    BY <1>3
  <2>2. \A o \in Offers : R[o] = PubMaticDeal(Shape[o])
    BY <1>1 DEF Reader
  <2>. HIDE DEF R, s
  <2>. QED
    BY <2>1, <2>2 DEF ReadBy
<1>5. Took(Sift(read0, Seen, TRUE), s, pc, FALSE)
  BY DEF FetchPubMatic
<1>6. Took(Sift(read, Seen, TRUE), s, pc, FALSE)
  <2>. HIDE DEF read0, read, s, pc
  <2>. QED
    BY <1>4, <1>5
<1>7. CASE ~(import.source \in Sources /\ import.steady /\ pages)
  BY <1>1, <1>2, <1>6, <1>7, UnsureReads
<1>8. CASE import.source \in Sources /\ import.steady /\ pages
  <2>1. s = PageFrom(all, import.page * PageSize)
    BY <1>1, <1>8, PubMaticPageServed
  <2>2. Len(s) \in Nat /\ PageSize \in Nat
    BY <1>3, LibraryAssumption
  <2>3. /\ pc \in {"fetching", "saving"}
        /\ pc = "fetching" => Len(s) >= PageSize
        /\ pc = "saving" => Len(s) < PageSize
    BY <2>2
  <2>. HIDE DEF s, pc
  <2>. QED
    BY <1>1, <1>2, <1>6, <1>8, <2>1, <2>3, PageReads
<1>. QED
  BY <1>7, <1>8

\* Magnite's one answer.
LEMMA FetchMagniteReads == LibInv /\ FetchInv /\ FetchMagnite => FetchInv'
<1>. SUFFICES ASSUME LibInv, FetchInv, FetchMagnite PROVE FetchInv'
  OBVIOUS
<1>. DEFINE s == MagniteAnswer
            read0 == [i \in DOMAIN s |-> MagniteDeal(Shape[s[i]])]
            R == Reader(import.source)  read == ReadBy(R, s)  t == Sift(read, {}, FALSE)
<1>1. /\ import.pc = "fetching" /\ import.source = "magnite"
      /\ UNCHANGED <<listing, pages, library, imports>>
      /\ Took(Sift(read0, {}, FALSE), s, "saving", FALSE)
  BY DEF FetchMagnite
<1>2. /\ import # NoImport /\ import \in Imports /\ Accounts(import)
      /\ listing \in Seq(Offers) /\ pages \in BOOLEAN
  BY <1>1, ImportUnderWay DEF ImportStates
<1>3. s \in Seq(Offers) /\ s = listing
  BY <1>2 DEF MagniteAnswer
<1>4. read0 = read
  <2>1. \A i \in DOMAIN s : s[i] \in Offers
    BY <1>3
  <2>2. \A o \in Offers : R[o] = MagniteDeal(Shape[o])
    BY <1>1 DEF Reader
  <2>. HIDE DEF R, s
  <2>. QED
    BY <2>1, <2>2 DEF ReadBy
<1>. HIDE DEF read0, read, s
<1>5. Took(t, s, "saving", FALSE)
  BY <1>1, <1>4
<1>6. CASE ~(import.source \in Sources /\ import.steady /\ pages)
  BY <1>1, <1>2, <1>5, <1>6, UnsureReads
<1>7. CASE import.source \in Sources /\ import.steady /\ pages
  <2>1. /\ import.listed = listing /\ HasRead(import, import.page * PageSize)
        /\ import.page = 0
    BY <1>1, <1>2, <1>7 DEF FetchInv, Accounts
  <2>2. IdsOf(import.got) = {}
    <3>1. import.page * PageSize = 0
      BY <2>1, LibraryAssumption
    <3>2. IdsUpTo(R, ToRead(import), 0) = {}
      BY DEF IdsUpTo
    <3>. HIDE DEF R
    <3>. QED
      BY <2>1, <3>1, <3>2 DEF HasRead, R
  <2>3. /\ Readings(read) /\ ReadIds(read) = IdsUpTo(R, s, Len(s))
    <3>1. \A o \in Offers : OneOrNone(R[o])
      BY ReadersRead
    <3>. HIDE DEF R
    <3>. QED
      BY <1>3, <3>1, ListIsRead DEF read, ReadBy
  <2>4. t.got \in Seq(Deals) /\ IdsOf(t.got) = IdsUpTo(R, s, Len(s))
    <3>. HIDE DEF R
    <3>. QED
      BY <2>3, SiftCounts, SiftKeeps
  <2>. HIDE DEF t
  <2>5. /\ import'.pc = "saving" /\ import'.got = import.got \o t.got
        /\ import'.source = import.source /\ import'.filter = import.filter
        /\ import'.listed = import.listed
    BY <1>2, <1>5, TookGives
  <2>6. import.got \in Seq(Deals)
    BY <1>2 DEF Imports
  <2>7. IdsOf(import'.got) = IdsUpTo(R, s, Len(s))
    <3>1. IdsOf(import.got \o t.got) = IdsOf(import.got) \cup IdsOf(t.got)
      BY <2>4, <2>6, IdsJoined
    <3>. QED
      BY <2>2, <2>4, <2>5, <3>1, Zenon
  <2>8. ToRead(import') = s
    BY <1>1, <1>3, <2>1, <2>5 DEF ToRead
  <2>9. HasRead(import', Len(ToRead(import')))
    BY <1>1, <2>5, <2>7, <2>8 DEF HasRead
  <2>. QED
    BY <2>5, <2>9 DEF FetchInv
<1>. QED
  BY <1>6, <1>7

\* The imports that begin, whatever they are.
LEMMA BegunReads ==
  ASSUME LibInv, ImportDealsSsp \/ ImportDealsCsv \/ CreateDealManual
  PROVE  FetchInv'
<1>1. listing \in Seq(Offers)
  BY DEF LibInv, LibTypes
<1>2. ASSUME NEW m, Begin(m), m.source \notin Sources PROVE FetchInv'
  BY <1>2 DEF Begin, FetchInv
<1>3. Begun("csv", "saving").source \notin Sources /\ Begun("manual", "saving").source \notin Sources
      /\ Refused.source \notin Sources
  BY DEF Begun, Refused, Sources
<1>4. CASE ImportDealsCsv
  <2>1. PICK text \in Texts : Begin(ParseCsv(text))
    BY <1>4 DEF ImportDealsCsv
  <2>2. ParseCsv(text).source \notin Sources
    <3>1. ParseCsv(text).source = "csv"
      BY DEF ParseCsv, IngestRows, Begun
    <3>. QED
      BY <3>1 DEF Sources
  <2>. QED
    BY <1>2, <2>1, <2>2
<1>5. CASE CreateDealManual
  <2>. DEFINE m(o) == IF ManualDeal(Shape[o]) = {} THEN Refused
                      ELSE [Begun("manual", "saving")
                              EXCEPT !.total = 1, !.got = SetToSeq(ManualDeal(Shape[o]))]
  <2>1. PICK o \in Offers : Begin(m(o))
    BY <1>5 DEF CreateDealManual
  <2>2. m(o).source \in {"none", "manual"}
    BY DEF Begun, Refused
  <2>3. m(o).source \notin Sources
    BY <2>2 DEF Sources
  <2>. HIDE DEF m
  <2>. QED
    BY <1>2, <2>1, <2>3
<1>6. CASE ImportDealsSsp
  <2>1. PICK source \in Sources \cup {"unknown"}, configured \in BOOLEAN, filter \in Filters :
          Begin(IF source = "unknown" \/ ~configured \/ (IsIndex(source) /\ ~IndexFilterOk(filter))
                THEN Refused
                ELSE [Begun(source, IF source = "magnite" THEN "login" ELSE "fetching")
                        EXCEPT !.filter = filter])
    BY <1>6 DEF ImportDealsSsp
  <2>. DEFINE no == source = "unknown" \/ ~configured \/ (IsIndex(source) /\ ~IndexFilterOk(filter))
              pc == IF source = "magnite" THEN "login" ELSE "fetching"
              m == [Begun(source, pc) EXCEPT !.filter = filter]
  <2>2. CASE no
    BY <1>2, <1>3, <2>1, <2>2
  <2>3. CASE ~no
    <3>1. source \in Sources /\ pc \in ImportStates /\ pc \in {"login", "fetching"}
      BY <2>3 DEF ImportStates
    <3>2. Begun(source, pc) \in Imports
      BY <1>1, <3>1, BegunImport
    <3>3. m \in Imports
      BY <3>2 DEF Imports
    <3>4. m.pc = pc /\ m.page = 0 /\ m.got = <<>> /\ m.listed = listing
      BY DEF Begun
    <3>5. Begin(m)
      BY <2>1, <2>3
    <3>. HIDE DEF m, pc
    <3>. QED
      BY <3>1, <3>3, <3>4, <3>5, BeginReads
  <2>. QED
    BY <2>2, <2>3
<1>. QED
  BY <1>4, <1>5, <1>6

\* Every step keeps to what is to be read.
LEMMA FetchMoves == LibInv /\ FetchInv /\ [LibNext]_libVars => FetchInv'
<1>. SUFFICES ASSUME LibInv, FetchInv, [LibNext]_libVars PROVE FetchInv'
  OBVIOUS
<1>1. CASE UNCHANGED libVars
  BY <1>1 DEF libVars, FetchInv, HasRead, ToRead
<1>2. CASE ImportDealsSsp \/ ImportDealsCsv \/ CreateDealManual
  BY <1>2, BegunReads
<1>3. CASE FetchIndex \/ FetchPubMatic \/ FetchMagnite
  BY <1>3, FetchIndexReads, FetchPubMaticReads, FetchMagniteReads
<1>4. CASE LoginMagnite \/ FetchFails \/ ListingChanges
  BY <1>4, OthersRead
<1>5. CASE SaveDeal \/ SavePortfolioMetadata \/ SaveFails \/ Summarise
  BY <1>5, SavingReads
<1>. QED
  BY <1>1, <1>2, <1>3, <1>4, <1>5 DEF LibNext

\* What the filter asks for is what is offered.
LEMMA AskedFor ==
  ASSUME import \in Imports
  PROVE  {o \in ToSet(import.listed) :
            import.source = "magnite" \/ import.filter \in {"all", Shape[o].status}}
           = {ToRead(import)[i] : i \in 1 .. Len(ToRead(import))}
<1>. DEFINE s == import.listed  f == {import.filter} \ {"all"}
            I == {i \in DOMAIN s : Matches(f, s[i])}  all == Asked(s, f)
<1>1. s \in Seq(Offers) /\ I \in SUBSET (DOMAIN s) /\ DOMAIN s = 1 .. Len(s)
  BY DEF Imports
<1>2. ToSet(s) = {s[i] : i \in DOMAIN s}
  BY DEF ToSet
<1>3. CASE import.source = "magnite"
  BY <1>1, <1>2, <1>3 DEF ToRead
<1>4. CASE import.source # "magnite"
  <2>1. ToRead(import) = all
    BY <1>4 DEF ToRead
  <2>2. \A o : Matches(f, o) <=> import.filter \in {"all", Shape[o].status}
    BY DEF Matches
  <2>3. /\ all \in Seq(Offers) /\ DOMAIN all = 1 .. Len(all)
        /\ \A i \in I : \E k \in DOMAIN all : all[k] = s[i]
        /\ \A k \in DOMAIN all : \E i \in I : all[k] = s[i]
    <3>1. all = Picked(s, I)
      BY DEF Asked
    <3>. HIDE DEF s, I, all
    <3>. QED
      BY <1>1, <3>1, PickedItems
  <2>4. {s[i] : i \in I} = {all[k] : k \in 1 .. Len(all)}
    <3>. HIDE DEF all, I
    <3>. QED
      BY <2>3
  <2>5. {o \in ToSet(s) : import.filter \in {"all", Shape[o].status}} = {s[i] : i \in I}
    BY <1>2, <2>2
  <2>. HIDE DEF all, s, I
  <2>. QED
    BY <1>4, <2>1, <2>4, <2>5 DEF s
<1>. QED
  BY <1>3, <1>4

\* As many deals as ids, where each id comes once.
LEMMA DistinctCount ==
  ASSUME NEW s \in Seq(Deals), Distinct(s)
  PROVE  Len(s) = Cardinality(IdsOf(s))
<1>. DEFINE n == Len(s)  f == [k \in 1 .. n |-> s[k].id]
<1>1. n \in Nat /\ DOMAIN s = 1 .. n
  OBVIOUS
<1>2. IdsOf(s) = {s[k].id : k \in 1 .. n}
  BY <1>1 DEF IdsOf
<1>3. \A j, k \in 1 .. n : s[j].id = s[k].id => j = k
  BY <1>1 DEF Distinct
<1>. HIDE DEF n
<1>4. f \in Bijection(1 .. n, IdsOf(s))
  BY <1>2, <1>3 DEF Bijection, Injection, Surjection, IsInjective
<1>5. ExistsBijection(1 .. n, IdsOf(s))
  BY <1>4 DEF ExistsBijection
<1>. QED
  BY <1>1, <1>5, FS_CountingElements DEF n

\* A fetch that nothing disturbed, and that does not say that it stopped, read it all.
LEMMA CompleteFetch == LibInv /\ FetchInv => FetchIsComplete
<1>. DEFINE Deal(o) == CASE import.source = "magnite" -> MagniteDeal(Shape[o])
                         [] import.source = "pubmatic" -> PubMaticDeal(Shape[o])
                         [] OTHER -> IndexDeal(Shape[o])
            asked == {o \in ToSet(import.listed) :
                        import.source = "magnite" \/ import.filter \in {"all", Shape[o].status}}
<1>. SUFFICES ASSUME LibInv, FetchInv, import.pc \in {"saving", "describing", "done"},
                     import.source \in Sources, import.steady, pages, ~import.stopped
              PROVE  /\ Seen = {d.id : d \in UNION {Deal(o) : o \in asked}}
                     /\ import.source # "magnite" => Len(import.got) = Cardinality(Seen)
  BY DEF FetchIsComplete
<1>. DEFINE R == Reader(import.source)  all == ToRead(import)  n == Len(all)
<1>1. import # NoImport /\ import \in Imports
  BY ImportUnderWay DEF ImportStates
<1>2. HasRead(import, n)
  BY <1>1 DEF FetchInv
<1>3. all \in Seq(Offers) /\ n \in Nat /\ import.got \in Seq(Deals)
  BY <1>1, OfferedList DEF Imports
<1>4. \A o \in Offers : R[o] = Deal(o)
  BY DEF Reader
<1>5. \A o \in Offers : Identified(R[o])
  BY ReadersRead
<1>6. asked = {all[i] : i \in 1 .. n}
  BY <1>1, AskedFor
<1>7. IdsOf(import.got) = IdsUpTo(R, all, n)
      /\ (import.source # "magnite" => Distinct(import.got))
  BY <1>2 DEF HasRead
<1>. HIDE DEF R, all, Deal, asked
<1>8. Seen = IdsOf(import.got)
  BY <1>3, <1>5, <1>7, SeenIds
<1>9. {R[all[i]] : i \in 1 .. n} = {Deal(o) : o \in asked}
  <2>1. \A i \in 1 .. n : all[i] \in Offers
    BY <1>3
  <2>. QED
    BY <1>4, <1>6, <2>1
<1>10. IdsUpTo(R, all, n) = {d.id : d \in UNION {Deal(o) : o \in asked}}
  BY <1>9 DEF IdsUpTo
<1>11. import.source # "magnite" => Len(import.got) = Cardinality(Seen)
  BY <1>3, <1>7, <1>8, DistinctCount
<1>. QED
  BY <1>7, <1>8, <1>10, <1>11

\* In the initial states there is no import to read for.
LEMMA FetchStart == LibInit => FetchInv
BY DEF LibInit, FetchInv

--------------------------------------------------------------------------------
(* DealLibrary: the pages of list_portfolio.                               *)

\* The recursion of FlattenSeq: g joins the first i sequences of q.
Joins(g, q, m) == g = [i \in 1 .. m |-> IF i = 1 THEN q[i] ELSE g[i - 1] \o q[i]]

\* FlattenSeq is what its recursion makes of the last place.
LEMMA FlattenIs ==
  ASSUME NEW m \in Nat \ {0}, NEW q, Len(q) = m, NEW g, Joins(g, q, m)
  PROVE  FlattenSeq(q) = g[m]
<1>. DEFINE Eq(h) == h = [i \in 1 .. m |-> IF i = 1 THEN q[i] ELSE h[i - 1] \o q[i]]
            f == CHOOSE h : Eq(h)
<1>1. FlattenSeq(q) = f[m]
  BY DEF FlattenSeq
<1>2. Eq(g)
  BY DEF Joins
<1>3. Eq(f)
  <2>. HIDE DEF Eq
  <2>. QED
    BY <1>2
<1>. HIDE DEF f
<1>4. /\ \A i \in 1 .. m : f[i] = IF i = 1 THEN q[i] ELSE f[i - 1] \o q[i]
      /\ \A i \in 1 .. m : g[i] = IF i = 1 THEN q[i] ELSE g[i - 1] \o q[i]
  <2>1. \A h : Eq(h) => \A i \in 1 .. m : h[i] = IF i = 1 THEN q[i] ELSE h[i - 1] \o q[i]
    OBVIOUS
  <2>. HIDE DEF Eq
  <2>. QED
    BY <1>2, <1>3, <2>1
<1>. HIDE DEF Eq
<1>5. \A i \in 1 .. m : f[i] = g[i]
  <2>. DEFINE B == {i \in 1 .. m : f[i] # g[i]}
  <2>. SUFFICES ASSUME B # {} PROVE FALSE
    OBVIOUS
  <2>1. PICK i \in B : \A j \in B : i <= j
    <3>1. B \in SUBSET Nat
      OBVIOUS
    <3>. HIDE DEF B
    <3>. QED
      BY <3>1, LeastNumber
  <2>2. i \in 1 .. m /\ f[i] # g[i]
    OBVIOUS
  <2>3. CASE i = 1
    BY <1>4, <2>2, <2>3
  <2>4. CASE i # 1
    <3>1. i - 1 \in 1 .. m /\ ~(i <= i - 1)
      BY <2>2, <2>4
    <3>2. f[i - 1] = g[i - 1]
      BY <2>1, <3>1
    <3>. QED
      BY <1>4, <2>2, <2>4, <3>2
  <2>. QED
    BY <2>3, <2>4
<1>. QED
  BY <1>1, <1>5

\* Part of a part of a sequence.
LEMMA PartOfPart ==
  ASSUME NEW S, NEW s \in Seq(S), NEW a \in Nat, NEW b \in 0 .. Len(s), NEW c \in 0 .. b
  PROVE  SubSeq(SubSeq(s, 1, b), a + 1, c) = SubSeq(s, a + 1, c)
<1>. DEFINE n == Len(s)  f == SubSeq(s, 1, b)  l == SubSeq(f, a + 1, c)  r == SubSeq(s, a + 1, c)
<1>1. n \in Nat /\ b \in Nat /\ b <= n /\ c \in Nat /\ c <= b /\ \A i \in 1 .. n : s[i] \in S
  OBVIOUS
<1>2. \A i \in 1 .. b : f[i] = s[i]
  <2>1. 1 \in Int /\ b \in Int /\ \A i \in 1 .. b : s[i] \in S
    BY <1>1
  <2>2. \A i \in 1 .. b - 1 + 1 : f[i] = s[1 + i - 1]
    BY <2>1, SubSeqProperties
  <2>. QED
    BY <1>1, <2>2
<1>. HIDE DEF f, n
<1>3. /\ a + 1 \in Int /\ c \in Int /\ \A i \in a + 1 .. c : i \in 1 .. n /\ i \in 1 .. b
  BY <1>1
<1>4. /\ \A i \in a + 1 .. c : s[i] \in S /\ f[i] \in S /\ f[i] = s[i]
  BY <1>1, <1>2, <1>3
<1>5. /\ l \in Seq(S) /\ Len(l) = IF a + 1 <= c THEN c - (a + 1) + 1 ELSE 0
      /\ \A i \in 1 .. c - (a + 1) + 1 : l[i] = f[(a + 1) + i - 1]
  BY <1>3, <1>4, SubSeqProperties
<1>6. /\ r \in Seq(S) /\ Len(r) = IF a + 1 <= c THEN c - (a + 1) + 1 ELSE 0
      /\ \A i \in 1 .. c - (a + 1) + 1 : r[i] = s[(a + 1) + i - 1]
  BY <1>3, <1>4, SubSeqProperties
<1>. HIDE DEF l, r
<1>7. \A i \in 1 .. c - (a + 1) + 1 : l[i] = r[i]
  <2>1. \A i \in 1 .. c - (a + 1) + 1 : (a + 1) + i - 1 \in a + 1 .. c
    BY <1>1
  <2>. QED
    BY <1>4, <1>5, <1>6, <2>1
<1>8. Len(l) = Len(r) /\ \A i \in 1 .. Len(l) : l[i] = r[i]
  BY <1>1, <1>5, <1>6, <1>7
<1>9. l = r
  BY <1>5, <1>6, <1>8, SeqEqual
<1>. QED
  BY <1>9 DEF l, r, f

\* Turning pages of a sequence shows all of it.
LEMMA PagesJoin ==
  ASSUME NEW S, NEW s \in Seq(S), NEW limit \in Nat \ {0}, NEW q,
         q = [p \in 1 .. Len(s) + 1 |->
                SubSeq(s, (p - 1) * limit + 1,
                       IF Len(s) < p * limit THEN Len(s) ELSE p * limit)]
  PROVE  FlattenSeq(q) = s
<1>. DEFINE n == Len(s)  Upto(p) == IF n < p * limit THEN n ELSE p * limit
            g == [p \in 1 .. n + 1 |-> SubSeq(s, 1, Upto(p))]
<1>1. n \in Nat
  OBVIOUS
<1>. HIDE DEF n
<1>2. SubSeq(s, 1, n) = s /\ s \o <<>> = s
  BY SubSeqFull, ConcatEmptySeq DEF n
<1>3. ASSUME NEW p \in 1 .. n + 1
      PROVE  /\ p * limit \in Nat /\ (p - 1) * limit \in Nat /\ (p - 1) * limit < p * limit
             /\ p * limit >= p
  <2>1. p - 1 \in Nat /\ p \in Nat
    BY <1>1
  <2>2. p * limit = (p - 1) * limit + limit
    BY <2>1
  <2>3. (p - 1) * limit \in Nat /\ (p - 1) * limit >= p - 1
    BY <2>1
  <2>. QED
    BY <2>1, <2>2, <2>3
<1>4. ASSUME NEW p \in 1 .. n + 1
      PROVE  q[p] = SubSeq(s, (p - 1) * limit + 1, Upto(p))
  BY DEF n
<1>5. ASSUME NEW p \in 1 .. n + 1, p # 1
      PROVE  g[p] = g[p - 1] \o q[p]
  <2>1. p - 1 \in 1 .. n + 1
    BY <1>1, <1>5
  <2>. DEFINE a == (p - 1) * limit  b == p * limit
  <2>2. a \in Nat /\ b \in Nat /\ a < b
    BY <1>3
  <2>3. /\ g[p] = SubSeq(s, 1, IF n < b THEN n ELSE b)
        /\ g[p - 1] = SubSeq(s, 1, IF n < a THEN n ELSE a)
        /\ q[p] = SubSeq(s, a + 1, IF n < b THEN n ELSE b)
    BY <1>4, <2>1
  <2>. HIDE DEF a, b, g
  <2>4. CASE a <= n
    <3>. DEFINE e == IF n < b THEN n ELSE b
    <3>1. a \in 1 - 1 .. Len(s) /\ e \in a .. Len(s) /\ 1 \in 1 .. Len(s) + 1
      BY <1>1, <2>2, <2>4 DEF n
    <3>2. SubSeq(s, 1, a) \o SubSeq(s, a + 1, e) = SubSeq(s, 1, e)
      <4>. HIDE DEF e
      <4>. QED
        BY <3>1, ConcatAdjacentSubSeq
    <3>3. ~(n < a)
      BY <1>1, <2>2, <2>4
    <3>. QED
      BY <2>3, <3>2, <3>3
  <2>5. CASE a > n
    <3>1. n < a /\ n < b /\ n < a + 1 /\ a + 1 \in Int /\ n \in Int
      BY <1>1, <2>2, <2>5
    <3>2. SubSeq(s, a + 1, n) = <<>>
      BY <3>1, SubSeqEmpty
    <3>3. (IF n < b THEN n ELSE b) = n /\ (IF n < a THEN n ELSE a) = n
      BY <3>1
    <3>. QED
      BY <1>2, <2>3, <3>2, <3>3
  <2>6. a <= n \/ a > n
    BY <1>1, <2>2
  <2>. QED
    BY <2>4, <2>5, <2>6, Zenon
<1>6. g[1] = q[1]
  <2>1. 1 \in 1 .. n + 1 /\ (1 - 1) * limit + 1 = 1
    BY <1>1
  <2>. QED
    BY <1>4, <2>1
<1>7. Joins(g, q, n + 1)
  <2>1. g = [p \in 1 .. n + 1 |-> g[p]]
    OBVIOUS
  <2>. HIDE DEF g
  <2>. QED
    BY <1>5, <1>6, <2>1 DEF Joins
<1>8. n + 1 \in Nat \ {0} /\ Len(q) = n + 1
  BY <1>1 DEF n
<1>9. FlattenSeq(q) = g[n + 1]
  <2>. HIDE DEF g
  <2>. QED
    BY <1>7, <1>8, FlattenIs
<1>10. g[n + 1] = s
  <2>1. n + 1 \in 1 .. n + 1 /\ n < (n + 1) * limit
    BY <1>1, <1>3
  <2>2. g[n + 1] = SubSeq(s, 1, Upto(n + 1)) /\ Upto(n + 1) = n
    BY <2>1
  <2>. QED
    BY <1>2, <2>2
<1>. QED
  BY <1>9, <1>10

\* The rows in the order of list_deals: a later import first, and of one import the later row.
Newer(r, s) == r.import > s.import \/ (r.import = s.import /\ r.nth > s.nth)
Newest(S) == InOrder(S, LAMBDA r, s : r.import > s.import
                            \/ (r.import = s.import /\ r.nth > s.nth))

\* The store lists the newest rows, as many as it is asked for.
LEMMA StoreLists ==
  ASSUME NEW limit
  PROVE  StoreList({}, limit) =
           SubSeq(Newest(library), 1,
                  IF Len(Newest(library)) < limit THEN Len(Newest(library)) ELSE limit)
<1>. DEFINE status == {}  hits == {row \in library : status = {} \/ row.deal.status \in status}
<1>1. StoreList({}, limit) =
        SubSeq(Newest(hits), 1, IF Len(Newest(hits)) < limit THEN Len(Newest(hits)) ELSE limit)
  BY DEF StoreList, Newest
<1>2. hits = library
  OBVIOUS
<1>. HIDE DEF hits
<1>. QED
  BY <1>1, <1>2

\* Every row is somewhere in that order, once.
LEMMA NewestShows ==
  ASSUME RowsAreSaved, imports \in Nat
  PROVE  /\ Newest(library) \in Seq(library) /\ Len(Newest(library)) = Cardinality(library)
         /\ ToSet(Newest(library)) = library /\ Cardinality(library) \in Nat
<1>. DEFINE N == Cardinality(library)  R == {p \in library \X library : Newer(p[1], p[2])}
            f == Newest(library)
<1>1. /\ IsFiniteSet(library)
      /\ \A r \in library : r.import \in Nat /\ r.nth \in Nat
      /\ \A r, s \in library : r.import = s.import /\ r.nth = s.nth => r = s
  BY DEF RowsAreSaved
<1>2. IsOrder(R, library)
  <2>. HIDE DEF R
  <2>1. \A r, s \in library : <<r, s>> \in R <=> Newer(r, s)
    BY DEF R
  <2>2. \A r \in library : ~Newer(r, r)
    BY <1>1 DEF Newer
  <2>3. \A r, s, t \in library : Newer(r, s) /\ Newer(s, t) => Newer(r, t)
    BY <1>1 DEF Newer
  <2>4. \A r, s \in library : r # s => Newer(r, s) \/ Newer(s, r)
    BY <1>1 DEF Newer
  <2>. QED
    BY <2>1, <2>2, <2>3, <2>4 DEF IsOrder
<1>3. Arranges(Ranked(library, R), library, R) /\ N \in Nat
  BY <1>1, <1>2, RankedArranges
<1>4. f = Ranked(library, R)
  <2>1. ASSUME NEW s \in library
        PROVE  {r \in library : Newer(r, s)} = {r \in library : <<r, s>> \in R}
    BY <2>1
  <2>2. f = [k \in 1 .. N |-> CHOOSE x \in library :
                               Cardinality({y \in library : Newer(y, x)}) = k - 1]
    BY DEF Newest, InOrder, Newer
  <2>3. Ranked(library, R) = [k \in 1 .. N |-> CHOOSE x \in library :
                               Cardinality({y \in library : <<y, x>> \in R}) = k - 1]
    BY DEF Ranked
  <2>4. ASSUME NEW k PROVE (CHOOSE x \in library : Cardinality({y \in library : Newer(y, x)}) = k - 1)
                         = (CHOOSE x \in library : Cardinality({y \in library : <<y, x>> \in R}) = k - 1)
    <3>. HIDE DEF R
    <3>. QED
      BY <2>1
  <2>. HIDE DEF f, R
  <2>. QED
    BY <2>2, <2>3, <2>4
<1>. HIDE DEF R, f
<1>5. /\ f \in [1 .. N -> library]
      /\ \A x \in library : \E k \in 1 .. N : f[k] = x
  BY <1>3, <1>4 DEF Arranges
<1>6. f \in Seq(library) /\ Len(f) = N /\ DOMAIN f = 1 .. N
  BY <1>3, <1>5
<1>7. ToSet(f) = library
  BY <1>5, <1>6 DEF ToSet
<1>. QED
  BY <1>3, <1>6, <1>7 DEF f

\* A page of list_portfolio is a part of that order.
LEMMA PagesOfLibrary ==
  ASSUME RowsAreSaved, imports \in Nat, NEW limit \in Nat, NEW offset \in Nat
  PROVE  LET s == Newest(library)  n == Len(s) IN
         ListPortfolio({}, limit, offset) =
           SubSeq(s, offset + 1, IF n < offset + limit THEN n ELSE offset + limit)
<1>. DEFINE s == Newest(library)  n == Len(s)  m == limit + offset + OverFetch
            b == IF n < m THEN n ELSE m  f == SubSeq(s, 1, b)
            c == IF n < offset + limit THEN n ELSE offset + limit
<1>1. s \in Seq(library) /\ n \in Nat /\ OverFetch \in Nat
  BY NewestShows, LibraryAssumption
<1>2. StoreList({}, m) = f
  BY StoreLists
<1>3. ListPortfolio({}, limit, offset) =
        SubSeq(f, offset + 1, IF Len(f) < offset + limit THEN Len(f) ELSE offset + limit)
  <2>. HIDE DEF f
  <2>. QED
    BY <1>2 DEF ListPortfolio
<1>. HIDE DEF s
<1>4. b \in 0 .. n /\ c \in 0 .. b
  <2>. HIDE DEF n
  <2>. QED
    BY <1>1
<1>5. Len(f) = b
  <2>. HIDE DEF b
  <2>1. 1 \in Int /\ b \in Int /\ \A i \in 1 .. b : s[i] \in library
    BY <1>1, <1>4
  <2>2. Len(f) = IF 1 <= b THEN b - 1 + 1 ELSE 0
    BY <2>1, SubSeqProperties
  <2>. QED
    BY <1>1, <1>4, <2>2
<1>6. (IF Len(f) < offset + limit THEN Len(f) ELSE offset + limit) = c
  <2>. HIDE DEF n, f
  <2>. QED
    BY <1>1, <1>5
<1>7. SubSeq(f, offset + 1, c) = SubSeq(s, offset + 1, c)
  <2>. HIDE DEF b, c
  <2>. QED
    BY <1>1, <1>4, PartOfPart
<1>. QED
  BY <1>3, <1>6, <1>7 DEF s

\* The pages of list_portfolio, one after the other, are that order: each row, once.
LEMMA AllPagesShown == LibInv => PagesShowAll
<1>. SUFFICES ASSUME LibInv PROVE PagesShowAll
  OBVIOUS
<1>. DEFINE s == Newest(library)  n == Len(s)
<1>1. RowsAreSaved /\ imports \in Nat /\ PageSize \in Nat \ {0}
  BY LibraryAssumption DEF LibInv, LibTypes
<1>2. /\ s \in Seq(library) /\ n = Cardinality(library) /\ n \in Nat /\ ToSet(s) = library
  BY <1>1, NewestShows
<1>3. StoreList({}, Cardinality(library)) = s
  <2>1. StoreList({}, n) = SubSeq(s, 1, n)
    BY <1>2, StoreLists
  <2>. HIDE DEF s
  <2>. QED
    BY <1>2, <2>1, SubSeqFull
<1>4. Everything = s
  BY <1>3 DEF Everything
<1>5. ASSUME NEW limit \in 1 .. PageSize
      PROVE  FlattenSeq([p \in 1 .. Cardinality(library) + 1 |->
                           ListPortfolio({}, limit, (p - 1) * limit)]) = Everything
  <2>. DEFINE q == [p \in 1 .. Cardinality(library) + 1 |->
                      ListPortfolio({}, limit, (p - 1) * limit)]
              r == [p \in 1 .. n + 1 |->
                      SubSeq(s, (p - 1) * limit + 1, IF n < p * limit THEN n ELSE p * limit)]
  <2>1. limit \in Nat \ {0}
    BY <1>1
  <2>2. ASSUME NEW p \in 1 .. n + 1
        PROVE  ListPortfolio({}, limit, (p - 1) * limit) =
                 SubSeq(s, (p - 1) * limit + 1, IF n < p * limit THEN n ELSE p * limit)
    <3>. DEFINE a == (p - 1) * limit
    <3>1. a \in Nat /\ a + limit = p * limit /\ limit \in Nat
      BY <1>2, <2>1
    <3>2. ListPortfolio({}, limit, a) = SubSeq(s, a + 1, IF n < a + limit THEN n ELSE a + limit)
      <4>. HIDE DEF a
      <4>. QED
        BY <1>1, <3>1, PagesOfLibrary
    <3>. QED
      BY <3>1, <3>2
  <2>. HIDE DEF s
  <2>3. q = r
    BY <1>2, <2>2
  <2>4. FlattenSeq(r) = s
    <3>. HIDE DEF r
    <3>. QED
      BY <1>2, <2>1, PagesJoin DEF r
  <2>. QED
    BY <1>4, <2>3, <2>4
<1>6. ListDeals({}, Cardinality(library)).total = PortfolioSummary.total
  BY DEF ListDeals, PortfolioSummary, Everything
<1>7. PortfolioSummaryTool.byStatus = PortfolioSummary.byStatus
  BY DEF PortfolioSummary, PortfolioSummaryTool
<1>8. \A row \in PortfolioSummary.expiring \ PortfolioSummaryTool.expiring :
        row.deal.status = "imported"
  BY DEF PortfolioSummary, PortfolioSummaryTool, Expiring
<1>. QED
  BY <1>2, <1>4, <1>5, <1>6, <1>7, <1>8 DEF PagesShowAll

\* A fetch of a listing that held still, over an API that heeds the page number, has every
\* readable deal that the filter lets through, and each once, unless it reports that it
\* stopped: for any listing, and pages of any size.
THEOREM FetchesAreComplete == LibSpec => []FetchIsComplete
<1>1. LibInit => LibInv /\ FetchInv
  BY LibStart, FetchStart
<1>2. LibInv /\ FetchInv /\ [LibNext]_libVars => (LibInv /\ FetchInv)'
  BY LibMoves, FetchMoves
<1>3. LibInv /\ FetchInv => FetchIsComplete
  BY CompleteFetch
<1>. QED
  BY <1>1, <1>2, <1>3, PTL DEF LibSpec

--------------------------------------------------------------------------------
(* The parts together: a step of MC_Desk is a step or a stutter of each    *)
(* component.                                                              *)

\* A step of the composition is a step or a stutter of every component.
LEMMA DesksMove ==
  ASSUME [DesksNext]_<<part, allDeskVars>>
  PROVE  /\ [KeysNext]_keyVars /\ [AuditNext]_auditVars /\ [DeskNext]_deskVars
         /\ [BootNext]_bootVars /\ [PacingNext]_pacingVars /\ [LibNext]_libVars
         /\ [Gate!Next]_Gate!vars /\ [DealRow!Next]_DealRow!vars
BY DEF DesksNext, KeysStep, AuditStep, LibStep, DeskStep, BootStep, PaceStep, GateStep, RowStep,
       allDeskVars, tableVars, Gate!vars, DealRow!vars, Gate!ghosts

\* What an audited emitter was told of is found later, what the tools show is what their
\* acknowledged calls did, and a database that opened is complete, for any number of
\* emitters, loggers, configurations of the bus, sessions, calls and openers, whoever dies
\* in between.  (A key file of the sellers "torn" is what a torn one is modelled by.)
THEOREM WhatIsToldIsKept ==
  ASSUME "torn" \notin DeskSellers
  PROVE  DesksSpec => []AcknowledgedIsKept
<1>. DEFINE Inv == TrailInv /\ DeskInv /\ BootInv
<1>1. DesksInit => Inv
  BY TrailStart, DeskStart, BootStart DEF DesksInit
<1>2. Inv /\ [DesksNext]_<<part, allDeskVars>> => Inv'
  BY DesksMove, TrailStep, DeskMoves, BootMoves
<1>3. Inv => AcknowledgedIsKept
  BY TrailIsFound, DeskIsSequential, BootIsComplete DEF AcknowledgedIsKept
<1>. HIDE DEF Inv
<1>. QED
  BY <1>1, <1>2, <1>3, PTL DEF DesksSpec

\* A database that a process opened has every table and column, for any number of
\* processes, columns and kills, in whatever order the statements interleave.
THEOREM OpenedIsWhole == DesksSpec => []OpenedIsComplete
<1>1. DesksInit => BootInv
  BY BootStart DEF DesksInit
<1>2. BootInv /\ [DesksNext]_<<part, allDeskVars>> => BootInv'
  BY DesksMove, BootMoves
<1>3. BootInv => OpenedIsComplete
  BY BootIsComplete
<1>. QED
  BY <1>1, <1>2, <1>3, PTL DEF DesksSpec

\* Reallocations take from a channel what it can spare, and every reading of a snapshot
\* agrees on the campaign's state, for any number of channels and any allocation, spend and
\* flight: at the engine's default thresholds (10 and 25 percent), or any second one from 20
\* up, that of a budget report's words.
THEOREM PacingStaysSound ==
  ASSUME IsFiniteSet(Channels), WarningPct = 10, CriticalPct >= 20
  PROVE  DesksSpec => []PacingIsSound
<1>1. DesksInit => PaceInv
  BY PaceStart DEF DesksInit
<1>2. PaceInv /\ [DesksNext]_<<part, allDeskVars>> => PaceInv'
  BY DesksMove, PaceMoves
<1>3. PaceInv => PacingIsSound
  BY KeptAreSound, VerdictsAreCoherent DEF PacingIsSound
<1>. QED
  BY <1>1, <1>2, <1>3, PTL DEF DesksSpec

\* A fetch that nothing disturbed and that does not say that it stopped has every deal of the
\* listing, an import that returned has saved all that it counted, and the pages of the
\* library show each row once: for any listings, files, offers, filters and page size, any
\* number of imports and pages, and whatever fails on the way.
THEOREM StoresStayWhole == DesksSpec => []StoresAreWhole
<1>. DEFINE Inv == LibInv /\ FetchInv
<1>1. DesksInit => Inv
  BY LibStart, FetchStart DEF DesksInit
<1>2. Inv /\ [DesksNext]_<<part, allDeskVars>> => Inv'
  BY DesksMove, LibMoves, FetchMoves
<1>3. Inv => StoresAreWhole
  BY CompleteFetch, WholeImports, AllPagesShown DEF StoresAreWhole
<1>. HIDE DEF Inv
<1>. QED
  BY <1>1, <1>2, <1>3, PTL DEF DesksSpec

\* What the operator decided stands: no step takes back a decision on an approval request
\* on which no two calls overlapped, leaves weights that the template tool refuses, or
\* takes the setup wizard back, for any number of sessions, calls and wizard steps.
THEOREM DecisionsAlwaysHold == 
  ASSUME "torn" \notin DeskSellers
  PROVE  DesksSpec => DecisionsHold
<1>. DEFINE Inv == BootInv /\ DeskInv
            Stands == shared.approval # "pending" /\ "approval" \notin disturbed =>
                        shared'.approval = shared.approval
            Valid == \A s \in Sessions :
                        session[s].pc = "read" /\ session[s].on = "template"
                          /\ session[s].change.how # "mcp"
                          /\ session'[s] = NoSession /\ shared'.template # shared.template =>
                            shared'.template # "invalid"
            Stand == kills' = kills =>
                       /\ \A s \in WizardSteps :
                            wizard[s] \in {"completed", "skipped"} => wizard'[s] # "auto_detected"
                       /\ DoneSteps \subseteq DoneSteps'
                       /\ CurrentPhase = "business" => CurrentPhase' = "business"
<1>1. DesksInit => Inv
  BY BootStart, DeskStart DEF DesksInit
<1>2. Inv /\ [DesksNext]_<<part, allDeskVars>> => Inv'
  BY DesksMove, BootMoves, DeskMoves
<1>3. Inv /\ [DesksNext]_<<part, allDeskVars>> => [Stands]_deskVars
  BY DesksMove, DecisionStep
<1>4. Inv /\ [DesksNext]_<<part, allDeskVars>> => [Valid]_deskVars
  BY DesksMove, WeightsStep
<1>5. Inv /\ [DesksNext]_<<part, allDeskVars>> => [Stand]_bootVars
  BY DesksMove, WizardGoesOn
<1>. HIDE DEF Inv
<1>6. DesksSpec => [][Stands]_deskVars /\ [][Valid]_deskVars /\ [][Stand]_bootVars
  <2>. HIDE DEF Stands, Valid, Stand
  <2>. QED
    BY <1>1, <1>2, <1>3, <1>4, <1>5, PTL DEF DesksSpec
<1>. QED
  BY <1>6 DEF DecisionsHold, DecisionsStand, WeightsStayValid, AnswersStand

--------------------------------------------------------------------------------
(* The gates and the rows of MC_Desk are instances of modules that have    *)
(* theorems of their own.                                                  *)

DeskGates == INSTANCE ApprovalGate_proofs WITH
    Gates <- {g1, g2}, Requests <- {r1}, Limit <- 1, StoreMayFail <- TRUE,
    rows <- gateRows, order <- gateOrder, cache <- gateCache, waits <- gateWaits,
    tried <- gateTried, told <- gateTold
DeskRows == INSTANCE DealLifecycle_proofs WITH
    Deals <- {d1}, Quotes <- {q1}, Threads <- {t1, t2, t3}, Limit <- 1, MaxHistory <- 3,
    None <- none,
    seller <- dealSeller, row <- dealRow, order <- dealOrder, history <- dealHistory,
    work <- dealWork

\* The composition's gate is the module that ApprovalGate_proofs is about.
LEMMA GatesAreGates ==
  /\ Gate!Init <=> DeskGates!Init
  /\ Gate!Next <=> DeskGates!Next
  /\ UNCHANGED Gate!vars <=> UNCHANGED DeskGates!vars
  /\ Gate!VerdictWasGiven <=> DeskGates!VerdictWasGiven
  /\ Gate!ReviewerIsTold <=> DeskGates!ReviewerIsTold
<1>1. Gate!Next <=> DeskGates!Next
  BY DEF Gate!Next, DeskGates!Next, Gate!Restart, DeskGates!Restart, Gate!Lookup, DeskGates!Lookup,
         Gate!RequestApproval, DeskGates!RequestApproval, Gate!RecordApproval, DeskGates!RecordApproval,
         Gate!StartWait, DeskGates!StartWait, Gate!Poll, DeskGates!Poll, Gate!Expire, DeskGates!Expire,
         Gate!Look, DeskGates!Look, Gate!View, DeskGates!View, Gate!Loaded, DeskGates!Loaded,
         Gate!Outcome, DeskGates!Outcome, Gate!Decisions, DeskGates!Decisions,
         Gate!Missing, DeskGates!Missing, Gate!Newest, DeskGates!Newest, Gate!NewestOf, DeskGates!NewestOf,
         Gate!Undecided, DeskGates!Undecided, Gate!Remembered, DeskGates!Remembered,
         Gate!Saved, DeskGates!Saved, Gate!Answered, DeskGates!Answered, Gate!ghosts, DeskGates!ghosts
<1>. QED
  BY <1>1 DEF Gate!Init, DeskGates!Init, Gate!Missing, DeskGates!Missing, Gate!vars, DeskGates!vars,
              Gate!VerdictWasGiven, DeskGates!VerdictWasGiven, Gate!Decisions, DeskGates!Decisions,
              Gate!ReviewerIsTold, DeskGates!ReviewerIsTold

\* The composition's deal rows are the module that DealLifecycle_proofs is about.
LEMMA RowsAreRows ==
  /\ DealRow!Init <=> DeskRows!Init
  /\ DealRow!Next <=> DeskRows!Next
  /\ UNCHANGED DealRow!vars <=> UNCHANGED DeskRows!vars
  /\ DealRow!HistoryAccounts <=> DeskRows!HistoryAccounts
  /\ DealRow!AnswerFindsRow <=> DeskRows!AnswerFindsRow
<1>1. DealRow!Next <=> DeskRows!Next
  BY DEF DealRow!Next, DeskRows!Next, DealRow!PersistQuote, DeskRows!PersistQuote,
         DealRow!SellerMovesOn, DeskRows!SellerMovesOn, DealRow!SellerMoves, DeskRows!SellerMoves,
         DealRow!SellerStatuses, DeskRows!SellerStatuses, DealRow!BookDeal, DeskRows!BookDeal,
         DealRow!GetDeal, DeskRows!GetDeal, DealRow!Changes, DeskRows!Changes,
         DealRow!Update, DeskRows!Update, DealRow!Ignore, DeskRows!Ignore,
         DealRow!Listed, DeskRows!Listed, DealRow!ListedOf, DeskRows!ListedOf,
         DealRow!Accepted, DeskRows!Accepted, DealRow!BuyerDealStatus, DeskRows!BuyerDealStatus,
         DealRow!Rules, DeskRows!Rules, DealRow!Log, DeskRows!Log, DealRow!Recording, DeskRows!Recording,
         DealRow!Idle, DeskRows!Idle, DealRow!RecordTransition, DeskRows!RecordTransition,
         DealRow!Cardinality, DeskRows!Cardinality
<1>2. DealRow!HistoryAccounts <=> DeskRows!HistoryAccounts
  BY DEF DealRow!HistoryAccounts, DeskRows!HistoryAccounts, DealRow!Entries, DeskRows!Entries,
         DealRow!Logged, DeskRows!Logged, DealRow!BeingLogged, DeskRows!BeingLogged,
         DealRow!StoredStatuses, DeskRows!StoredStatuses, DealRow!SellerStatuses, DeskRows!SellerStatuses,
         DealRow!Cardinality, DeskRows!Cardinality
<1>3. DealRow!AnswerFindsRow <=> DeskRows!AnswerFindsRow
  BY DEF DealRow!AnswerFindsRow, DeskRows!AnswerFindsRow, DealRow!Listed, DeskRows!Listed,
         DealRow!ListedOf, DeskRows!ListedOf
<1>. QED
  BY <1>1, <1>2, <1>3 DEF DealRow!Init, DeskRows!Init, DealRow!Idle, DeskRows!Idle,
                          DealRow!vars, DeskRows!vars

\* The gates begin with what GatesInv says of them.
LEMMA GatesBegin == DesksInit => DeskGates!GatesInv
BY GatesAreGates, DeskGates!GatesStart DEF DesksInit

\* A step of the composition keeps it.
LEMMA GatesMove ==
  ASSUME DeskGates!GatesInv, [DesksNext]_<<part, allDeskVars>>
  PROVE  DeskGates!GatesInv'
<1>1. [DeskGates!Next]_DeskGates!vars
  BY DesksMove, GatesAreGates
<1>. QED
  BY <1>1, DeskGates!TypeStep, DeskGates!DecisionsStep DEF DeskGates!GatesInv

\* No pipeline acts on a verdict that no reviewer gave, and a reviewer was told of a
\* decision exactly when the table has it, at both gates of the desk.
THEOREM DeskHeedsReviewers == DesksSpec => []ReviewersAreHeeded
<1>1. DeskGates!GatesInv /\ [DesksNext]_<<part, allDeskVars>> => DeskGates!GatesInv'
  BY GatesMove
<1>2. DeskGates!GatesInv => ReviewersAreHeeded
  BY GatesAreGates DEF DeskGates!GatesInv, ReviewersAreHeeded
<1>. QED
  BY GatesBegin, <1>1, <1>2, PTL DEF DesksSpec

\* The names of the desk are told apart: a row is a deal's or a quote's, and None no status.
NamesDiffer == d1 # q1 /\ none \notin DealRow!StoredStatuses

\* What DealLifecycle_proofs asks of its names.
LEMMA DeskIsSensible == NamesDiffer => DeskRows!Sensible
<1> SUFFICES ASSUME NamesDiffer PROVE DeskRows!Sensible
  OBVIOUS
<1>1. IsFiniteSet({t1, t2, t3})
  <2>1. IsFiniteSet({t1}) /\ {t1, t2} = {t1} \cup {t2} /\ {t1, t2, t3} = {t1, t2} \cup {t3}
    BY FS_Singleton
  <2>2. IsFiniteSet({t1, t2})
    BY <2>1, FS_AddElement
  <2>. QED
    BY <2>1, <2>2, FS_AddElement
<1>2. DeskRows!IsFiniteSet({t1, t2, t3})
  BY <1>1 DEF DeskRows!IsFiniteSet, IsFiniteSet
<1>3. {d1} \cap {q1} = {}
  BY DEF NamesDiffer
<1>4. none \notin DeskRows!StoredStatuses
  BY DEF NamesDiffer, DeskRows!StoredStatuses, DealRow!StoredStatuses,
         DeskRows!SellerStatuses, DealRow!SellerStatuses
<1>. QED
  BY <1>2, <1>3, <1>4 DEF DeskRows!Sensible

\* The rows begin with what HistoryInv says of them.
LEMMA RowsBegin == NamesDiffer /\ DesksInit => DeskRows!HistoryInv
BY DeskIsSensible, RowsAreRows, DeskRows!HistoryStarts DEF DesksInit

\* A step of the composition keeps it.
LEMMA RowsMove ==
  ASSUME NamesDiffer, DeskRows!HistoryInv, [DesksNext]_<<part, allDeskVars>>
  PROVE  DeskRows!HistoryInv'
<1>1. [DeskRows!Next]_DeskRows!vars
  BY DesksMove, RowsAreRows
<1>. QED
  BY <1>1, DeskIsSensible, DeskRows!TypeStep, DeskRows!RowsStep, DeskRows!HistoryStep
  DEF DeskRows!HistoryInv, DeskRows!RowsInv

\* The status history explains the rows of the deals table, and an answer finds its row
\* while the listing is long enough, at the desk, whose names are told apart.
THEOREM DeskRowsAreExplained ==
  ASSUME NamesDiffer
  PROVE  DesksSpec => []RowsAreExplained
<1>1. DesksInit => DeskRows!HistoryInv
  BY RowsBegin
<1>2. DeskRows!HistoryInv /\ [DesksNext]_<<part, allDeskVars>> => DeskRows!HistoryInv'
  BY RowsMove
<1>3. DeskRows!HistoryInv => RowsAreExplained
  BY DeskIsSensible, RowsAreRows, DeskRows!AnswersFind DEF DeskRows!HistoryInv, RowsAreExplained
<1>. QED
  BY <1>1, <1>2, <1>3, PTL DEF DesksSpec

\* The types of the gates and of the rows are those of the modules with theorems.
LEMMA TypesAreTypes ==
  /\ Gate!TypeOK <=> DeskGates!TypeOK
  /\ DealRow!TypeOK <=> DeskRows!TypeOK
<1>1. Gate!TypeOK <=> DeskGates!TypeOK
  BY DEF Gate!TypeOK, DeskGates!TypeOK, Gate!Missing, DeskGates!Missing, Gate!Status,
         DeskGates!Status, Gate!Decisions, DeskGates!Decisions
<1>2. DealRow!TypeOK <=> DeskRows!TypeOK
  BY DEF DealRow!TypeOK, DeskRows!TypeOK, DealRow!StoredStatuses, DeskRows!StoredStatuses,
         DealRow!SellerStatuses, DeskRows!SellerStatuses, DealRow!Changed, DeskRows!Changed,
         DealRow!Idle, DeskRows!Idle, DealRow!Recording, DeskRows!Recording
<1>. QED
  BY <1>1, <1>2

\* The behaviour is one of one component, and every component keeps its types, for any
\* number of processes, keys, emitters, offers, sessions, columns and channels, and for the
\* gates and the rows of this desk, whose names are told apart.
THEOREM DesksKeepTypes ==
  ASSUME "torn" \notin DeskSellers, NamesDiffer
  PROVE  DesksSpec => []DesksTypeOK
<1>. DEFINE Inv == /\ part \in Parts /\ KeysInv /\ TrailInv /\ LibInv /\ DeskInv /\ BootInv
                   /\ PaceInv /\ DeskGates!GatesInv /\ DeskRows!HistoryInv
<1>1. DesksInit => Inv
  BY KeysInitOK, TrailStart, LibStart, DeskStart, BootStart, PaceStart, GatesBegin, RowsBegin
  DEF DesksInit
<1>2. Inv /\ [DesksNext]_<<part, allDeskVars>> => Inv'
  <2> SUFFICES ASSUME Inv, [DesksNext]_<<part, allDeskVars>> PROVE Inv'
    OBVIOUS
  <2>1. part' \in Parts
    BY DEF DesksNext
  <2>2. KeysInv'
    BY DesksMove, KeysTypeStep, CopiesStep, LabelsStep DEF KeysInv
  <2>3. TrailInv' /\ LibInv' /\ DeskInv' /\ BootInv' /\ PaceInv'
    BY DesksMove, TrailStep, LibMoves, DeskMoves, BootMoves, PaceMoves
  <2>4. DeskGates!GatesInv' /\ DeskRows!HistoryInv'
    BY GatesMove, RowsMove
  <2>. QED
    BY <2>1, <2>2, <2>3, <2>4
<1>3. Inv => DesksTypeOK
  <2> SUFFICES ASSUME Inv PROVE DesksTypeOK
    OBVIOUS
  <2>1. /\ KeysTypeOK /\ AuditTypeOK /\ LibTypeOK /\ DeskTypeOK /\ BootTypeOK /\ PacingTypeOK
        /\ Gate!TypeOK /\ DealRow!TypeOK
    BY LibTypesHold, PaceTypes, TypesAreTypes
    DEF KeysInv, TrailInv, DeskInv, BootInv, DeskGates!GatesInv, DeskRows!HistoryInv,
        DeskRows!RowsInv
  <2>. QED
    BY <2>1 DEF DesksTypeOK, Parts
<1>. HIDE DEF Inv
<1>. QED
  BY <1>1, <1>2, <1>3, PTL DEF DesksSpec
================================================================================
