-------------------------- MODULE DealLifecycle_proofs --------------------------
(***************************************************************************)
(* What holds of the rows of the deals table for any deals, quotes and     *)
(* number of overlapping calls: the types, that the status history         *)
(* explains every row, and that an answer finds its row as long as the     *)
(* listing is long enough.                                                 *)
(***************************************************************************)
EXTENDS DealLifecycle, FiniteSetTheorems, TLAPS

\* What the instances have to fulfil: finitely many calls at a time, and deals, quotes and
\* statuses that are told apart.
Sensible ==
    /\ IsFiniteSet(Threads) /\ Limit \in Nat
    /\ Deals \cap Quotes = {} /\ None \notin StoredStatuses

\* A deal has a row exactly when it is among the rows of the seller, and none before it is
\* booked there.
RowsAreListed ==
    /\ \A d \in Deals : row[d] # None <=> \E i \in 1 .. Len(order) : order[i] = d
    /\ \A d \in Deals : seller[d] = None => row[d] = None
RowsInv == TypeOK /\ RowsAreListed
HistoryInv == RowsInv /\ HistoryAccounts

\* The number of 0 or 1 that a condition counts for.
Bit(b) == IF b THEN 1 ELSE 0

\* The entries of a log that say s, and the calls that still have to log it.
SaysSo(log, field, s) == {i \in 1 .. Len(log) : log[i][field] = s}
Says(k, d, field, s) == k.pc = "record" /\ k.deal = d /\ k[field] = s
Sayers(d, field, s) == {t \in Threads : Says(work[t], d, field, s)}

--------------------------------------------------------------------------------
\* Sets that differ in one element at most differ in their sizes accordingly.
LEMMA CountMoves ==
  ASSUME NEW A, NEW B, IsFiniteSet(A), NEW t, A \ {t} = B \ {t}
  PROVE  /\ Cardinality(A) \in Nat /\ Cardinality(B) \in Nat
         /\ Cardinality(B) + Bit(t \in A) = Cardinality(A) + Bit(t \in B)
<1>1. IsFiniteSet(A \ {t}) /\ Cardinality(A \ {t}) \in Nat
  BY FS_RemoveElement, FS_CardinalityType
<1>2. t \notin A \ {t}
  OBVIOUS
<1>3. \A S : S \ {t} = A \ {t} =>
          Cardinality(S) \in Nat /\ Cardinality(S) = Cardinality(A \ {t}) + Bit(t \in S)
  <2>. SUFFICES ASSUME NEW S, S \ {t} = A \ {t}
                PROVE  /\ Cardinality(S) \in Nat
                       /\ Cardinality(S) = Cardinality(A \ {t}) + Bit(t \in S)
    OBVIOUS
  <2>1. CASE t \in S
    <3>1. S = (A \ {t}) \cup {t}
      BY <2>1
    <3>2. Cardinality(S) = Cardinality(A \ {t}) + 1
      BY <1>1, <1>2, <3>1, FS_AddElement
    <3>. QED
      BY <1>1, <2>1, <3>2 DEF Bit
  <2>2. CASE t \notin S
    <3>1. S = A \ {t}
      BY <2>2
    <3>. QED
      BY <1>1, <2>2, <3>1 DEF Bit
  <2>. QED
    BY <2>1, <2>2
<1>. QED
  BY <1>1, <1>3 DEF Bit

\* Another entry of a log counts where it says s.
LEMMA LogGrows ==
  ASSUME NEW log \in Seq(Changed), NEW e \in Changed, NEW field \in {"from", "to"}, NEW s
  PROVE  /\ Cardinality(SaysSo(log, field, s)) \in Nat
         /\ Cardinality(SaysSo(Append(log, e), field, s)) =
              Cardinality(SaysSo(log, field, s)) + Bit(e[field] = s)
<1>. DEFINE n == Len(log)  A == SaysSo(log, field, s)  B == SaysSo(Append(log, e), field, s)
<1>1. /\ n \in Nat /\ Len(Append(log, e)) = n + 1 /\ Append(log, e)[n + 1] = e
      /\ \A i \in 1 .. n : Append(log, e)[i] = log[i]
  OBVIOUS
<1>2. IsFiniteSet(1 .. n)
  BY <1>1, FS_Interval
<1>3. IsFiniteSet(A)
  BY <1>2, FS_Subset DEF SaysSo
<1>4. A \ {n + 1} = B \ {n + 1}
  BY <1>1 DEF SaysSo
<1>5. n + 1 \notin A /\ (n + 1 \in B <=> e[field] = s)
  BY <1>1 DEF SaysSo
<1>. HIDE DEF n, A, B
<1>6. /\ Cardinality(A) \in Nat /\ Cardinality(B) \in Nat
      /\ Cardinality(B) + Bit(n + 1 \in A) = Cardinality(A) + Bit(n + 1 \in B)
  BY <1>3, <1>4, CountMoves
<1>7. Cardinality(A) \in Nat /\ Cardinality(B) = Cardinality(A) + Bit(e[field] = s)
  BY <1>5, <1>6 DEF Bit
<1>. QED
  BY <1>7 DEF A, B

\* The history of a deal and the calls under way, counted with these names.
LEMMA EntriesCount ==
  ASSUME NEW d \in Deals, NEW field, NEW s
  PROVE  Entries(d, field, s) =
            Cardinality(SaysSo(history[d], field, s)) + Cardinality(Sayers(d, field, s))
BY DEF Entries, Logged, BeingLogged, SaysSo, Sayers, Says

\* A step of one call changes who says what in that call only.
LEMMA SayersMove ==
  ASSUME Sensible, NEW t \in Threads,
         \A u \in Threads \ {t} : work'[u] = work[u],
         NEW d, NEW field, NEW s
  PROVE  /\ Cardinality(Sayers(d, field, s)) \in Nat
         /\ Cardinality(Sayers(d, field, s)') \in Nat
         /\ Cardinality(Sayers(d, field, s)') + Bit(Says(work[t], d, field, s)) =
              Cardinality(Sayers(d, field, s)) + Bit(Says(work'[t], d, field, s))
<1>. DEFINE A == Sayers(d, field, s)  B == {u \in Threads : Says(work'[u], d, field, s)}
<1>1. IsFiniteSet(A)
  BY FS_Subset DEF Sensible, Sayers
<1>2. A \ {t} = B \ {t}
  BY DEF Sayers
<1>3. /\ t \in A <=> Says(work[t], d, field, s)
      /\ t \in B <=> Says(work'[t], d, field, s)
  BY DEF Sayers
<1>4. Sayers(d, field, s)' = B
  BY DEF Sayers, Says
<1>. HIDE DEF A, B
<1>5. /\ Cardinality(A) \in Nat /\ Cardinality(B) \in Nat
      /\ Cardinality(B) + Bit(t \in A) = Cardinality(A) + Bit(t \in B)
  BY <1>1, <1>2, CountMoves
<1>6. /\ Cardinality(A) \in Nat /\ Cardinality(B) \in Nat
      /\ Cardinality(B) + Bit(Says(work[t], d, field, s)) =
           Cardinality(A) + Bit(Says(work'[t], d, field, s))
  BY <1>3, <1>5 DEF Bit
<1>. QED
  BY <1>4, <1>6 DEF A

--------------------------------------------------------------------------------
\* The records of the calls, and the statuses, are told apart.
LEMMA Records ==
  /\ \A d, c, e : LET k == Recording(d, c, e) IN
        k.pc = "record" /\ k.deal = d /\ k.from = c /\ k.to = e /\ k # Idle
  /\ Idle.pc = "idle"
  /\ SellerStatuses \subseteq StoredStatuses /\ "booked" \in StoredStatuses
  BY DEF Recording, Idle, StoredStatuses

\* A call that logs a change is one of these.
LEMMA Kinds ==
  ASSUME TypeOK, NEW t \in Threads
  PROVE  \/ work[t] = Idle
         \/ /\ work[t].pc = "answered" /\ work[t].deal \in Deals /\ work[t].status \in SellerStatuses
         \/ /\ work[t].pc = "record" /\ work[t].deal \in Deals
            /\ [from |-> work[t].from, to |-> work[t].to] \in Changed
  BY DEF TypeOK, Recording, Changed

\* Every step keeps the types.
LEMMA TypeStep ==
  ASSUME Sensible, RowsInv, [Next]_vars
  PROVE  TypeOK'
<1>. TypeOK /\ RowsAreListed
  BY DEF RowsInv
<1>1. ASSUME NEW q \in Quotes, PersistQuote(q) PROVE TypeOK'
  BY <1>1 DEF PersistQuote, TypeOK
<1>2. ASSUME NEW d \in Deals, SellerMovesOn(d) PROVE TypeOK'
  BY <1>2 DEF SellerMovesOn, TypeOK
<1>3. ASSUME NEW t \in Threads, NEW d \in Deals, BookDeal(t, d) PROVE TypeOK'
  <2>1. {"proposed", "active"} \subseteq SellerStatuses
    BY DEF SellerStatuses
  <2>2. seller' \in [Deals -> {None} \cup SellerStatuses]
    BY <1>3, <2>1 DEF BookDeal, TypeOK
  <2>3. CASE UNCHANGED <<row, order, work>>
    BY <1>3, <2>2, <2>3 DEF BookDeal, TypeOK
  <2>4. CASE /\ row' = [row EXCEPT ![d] = "booked"] /\ order' = Append(order, d)
             /\ work' = [work EXCEPT ![t] = Recording(d, None, "booked")]
    <3>1. row' \in [Deals -> {None} \cup StoredStatuses] /\ order' \in Seq(Deals \cup Quotes)
      BY <2>4, Records DEF TypeOK
    <3>2. [from |-> None, to |-> "booked"] \in Changed
      BY DEF Changed
    <3>3. Recording(d, None, "booked") \in {Recording(e, c.from, c.to) : e \in Deals, c \in Changed}
      BY <3>2
    <3>4. work' \in [Threads -> {Idle}
                    \cup [pc : {"answered"}, deal : Deals, status : SellerStatuses]
                    \cup {Recording(e, c.from, c.to) : e \in Deals, c \in Changed}]
      BY <2>4, <3>3 DEF TypeOK
    <3>. QED
      BY <1>3, <2>2, <3>1, <3>4 DEF BookDeal, TypeOK
  <2>. QED
    BY <1>3, <2>3, <2>4 DEF BookDeal
<1>4. ASSUME NEW t \in Threads, NEW d \in Deals, GetDeal(t, d) PROVE TypeOK'
  <2>1. [pc |-> "answered", deal |-> d, status |-> seller[d]]
          \in [pc : {"answered"}, deal : Deals, status : SellerStatuses]
    BY <1>4 DEF GetDeal, TypeOK
  <2>. QED
    BY <1>4, <2>1 DEF GetDeal, TypeOK
<1>5. ASSUME NEW t \in Threads, Update(t) PROVE TypeOK'
  <2>. DEFINE d == work[t].deal  s == work[t].status
  <2>1. d \in Deals /\ s \in SellerStatuses
    BY <1>5, Kinds, Records DEF Update
  <2>2. row[d] \in StoredStatuses
    BY <1>5, <2>1 DEF Update, Listed, ListedOf, RowsAreListed, TypeOK
  <2>3. /\ row' = [row EXCEPT ![d] = s] /\ UNCHANGED <<seller, order, history>>
        /\ work' = [work EXCEPT ![t] = Recording(d, row[d], s)]
    BY <1>5 DEF Update, Log
  <2>. HIDE DEF d, s
  <2>4. row' \in [Deals -> {None} \cup StoredStatuses]
    BY <2>1, <2>3, Records DEF TypeOK
  <2>5. [from |-> row[d], to |-> s] \in Changed
    BY <2>1, <2>2 DEF Changed
  <2>6. Recording(d, row[d], s) \in {Recording(e, c.from, c.to) : e \in Deals, c \in Changed}
    BY <2>1, <2>5
  <2>. QED
    BY <2>3, <2>4, <2>6 DEF TypeOK
<1>6. ASSUME NEW t \in Threads, Ignore(t) PROVE TypeOK'
  BY <1>6 DEF Ignore, TypeOK
<1>7. ASSUME NEW t \in Threads, RecordTransition(t) PROVE TypeOK'
  <2>. DEFINE d == work[t].deal  e == [from |-> work[t].from, to |-> work[t].to]
  <2>1. d \in Deals /\ e \in Changed
    BY <1>7, Kinds, Records DEF RecordTransition
  <2>2. history' = [history EXCEPT ![d] = Append(history[d], e)]
    BY <1>7 DEF RecordTransition
  <2>. HIDE DEF d, e
  <2>3. history' \in [Deals -> Seq(Changed)]
    BY <2>1, <2>2 DEF TypeOK
  <2>. QED
    BY <1>7, <2>3 DEF RecordTransition, TypeOK
<1>8. CASE UNCHANGED vars
  BY <1>8 DEF vars, TypeOK
<1>. QED
  BY <1>1, <1>2, <1>3, <1>4, <1>5, <1>6, <1>7, <1>8 DEF Next

\* Every step keeps the rows and the listing together.
LEMMA RowsStep ==
  ASSUME Sensible, RowsInv, [Next]_vars
  PROVE  RowsAreListed'
<1>. TypeOK /\ RowsAreListed
  BY DEF RowsInv
<1>0. ASSUME NEW x \in Deals \cup Quotes, order' = Append(order, x)
      PROVE  \A d \in Deals : (\E i \in 1 .. Len(order') : order'[i] = d)
                  <=> d = x \/ \E i \in 1 .. Len(order) : order[i] = d
  <2>1. /\ Len(order) \in Nat /\ Len(order') = Len(order) + 1 /\ order'[Len(order) + 1] = x
        /\ \A i \in 1 .. Len(order) : order'[i] = order[i]
    BY <1>0 DEF TypeOK
  <2>. QED
    BY <2>1
<1>1. ASSUME NEW q \in Quotes, PersistQuote(q) PROVE RowsAreListed'
  <2>1. order' = Append(order, q) /\ UNCHANGED <<row, seller>> /\ q \notin Deals
    BY <1>1 DEF PersistQuote, Sensible
  <2>. QED
    BY <1>0, <2>1 DEF RowsAreListed
<1>2. ASSUME NEW d \in Deals, SellerMovesOn(d) PROVE RowsAreListed'
  <2>1. PICK s \in SellerStatuses : <<seller[d], s>> \in SellerMoves
          /\ seller' = [seller EXCEPT ![d] = s]
    BY <1>2 DEF SellerMovesOn
  <2>2. seller[d] \in {"proposed", "active"} /\ None \notin SellerStatuses
    BY <2>1, Records DEF SellerMoves, Sensible
  <2>3. seller[d] # None
    BY <2>2 DEF SellerStatuses
  <2>. QED
    BY <1>2, <2>1, <2>2, <2>3 DEF SellerMovesOn, RowsAreListed, TypeOK
<1>3. ASSUME NEW t \in Threads, NEW d \in Deals, BookDeal(t, d) PROVE RowsAreListed'
  <2>1. None \notin {"proposed", "active", "booked"}
    BY DEF Sensible, StoredStatuses, SellerStatuses
  <2>2. PICK s \in {"proposed", "active"} : seller' = [seller EXCEPT ![d] = s]
    BY <1>3 DEF BookDeal
  <2>3. CASE UNCHANGED <<row, order>>
    BY <2>1, <2>2, <2>3 DEF RowsAreListed, TypeOK
  <2>4. CASE row' = [row EXCEPT ![d] = "booked"] /\ order' = Append(order, d)
    <3>1. \A e \in Deals : row'[e] # None <=> e = d \/ row[e] # None
      BY <2>1, <2>4 DEF TypeOK
    <3>2. \A e \in Deals : seller'[e] = None => e # d /\ seller[e] = None
      BY <2>1, <2>2 DEF TypeOK
    <3>3. \A e \in Deals : (\E i \in 1 .. Len(order') : order'[i] = e)
                  <=> e = d \/ \E i \in 1 .. Len(order) : order[i] = e
      BY <1>0, <2>4
    <3>. QED
      BY <3>1, <3>2, <3>3 DEF RowsAreListed
  <2>. QED
    BY <1>3, <2>3, <2>4 DEF BookDeal
<1>4. ASSUME NEW t \in Threads, NEW d \in Deals, GetDeal(t, d) PROVE RowsAreListed'
  BY <1>4 DEF GetDeal, RowsAreListed
<1>5. ASSUME NEW t \in Threads, Update(t) PROVE RowsAreListed'
  <2>. DEFINE d == work[t].deal  s == work[t].status
  <2>1. d \in Deals /\ s \in SellerStatuses
    BY <1>5, Kinds, Records DEF Update
  <2>2. row[d] # None /\ s # None
    BY <1>5, <2>1, Records DEF Update, Listed, ListedOf, RowsAreListed, TypeOK, Sensible
  <2>3. row' = [row EXCEPT ![d] = s] /\ UNCHANGED <<seller, order>>
    BY <1>5 DEF Update
  <2>. HIDE DEF d, s
  <2>4. \A e \in Deals : row'[e] # None <=> row[e] # None
    BY <2>1, <2>2, <2>3 DEF TypeOK
  <2>. QED
    BY <2>3, <2>4 DEF RowsAreListed
<1>6. ASSUME NEW t \in Threads, Ignore(t) \/ RecordTransition(t) PROVE RowsAreListed'
  BY <1>6 DEF Ignore, RecordTransition, RowsAreListed
<1>8. CASE UNCHANGED vars
  BY <1>8 DEF vars, RowsAreListed
<1>. QED
  BY <1>1, <1>2, <1>3, <1>4, <1>5, <1>6, <1>8 DEF Next

--------------------------------------------------------------------------------
\* What is said of a deal moves with the one call that a step is of, when nothing is logged.
LEMMA EntriesMove ==
  ASSUME Sensible, TypeOK, NEW t \in Threads, \A u \in Threads \ {t} : work'[u] = work[u],
         NEW d \in Deals, history'[d] = history[d],
         NEW field \in {"from", "to"}, NEW s
  PROVE  /\ Entries(d, field, s) \in Nat /\ Entries(d, field, s)' \in Nat
         /\ Entries(d, field, s)' + Bit(Says(work[t], d, field, s)) =
              Entries(d, field, s) + Bit(Says(work'[t], d, field, s))
<1>. DEFINE n == Cardinality(SaysSo(history[d], field, s))
            w == Cardinality(Sayers(d, field, s))  w2 == Cardinality(Sayers(d, field, s)')
<1>1. /\ w \in Nat /\ w2 \in Nat
      /\ w2 + Bit(Says(work[t], d, field, s)) = w + Bit(Says(work'[t], d, field, s))
  BY SayersMove
<1>2. n \in Nat
  <2>1. Len(history[d]) \in Nat
    BY DEF TypeOK
  <2>2. IsFiniteSet(1 .. Len(history[d]))
    BY <2>1, FS_Interval
  <2>3. IsFiniteSet(SaysSo(history[d], field, s))
    BY <2>2, FS_Subset DEF SaysSo
  <2>. QED
    BY <2>3, FS_CardinalityType
<1>3. Entries(d, field, s) = n + w
  BY EntriesCount
<1>4. Entries(d, field, s)' = Cardinality(SaysSo(history'[d], field, s)) + w2
  BY DEF Entries, Logged, BeingLogged, SaysSo, Sayers, Says
<1>5. Entries(d, field, s)' = n + w2
  BY <1>4
<1>. HIDE DEF n, w, w2
<1>. QED
  BY <1>1, <1>2, <1>3, <1>5 DEF Bit

\* A change that is logged is no longer being logged.
LEMMA EntriesStay ==
  ASSUME Sensible, TypeOK, NEW t \in Threads, RecordTransition(t),
         NEW d \in Deals, NEW field \in {"from", "to"}, NEW s
  PROVE  Entries(d, field, s)' = Entries(d, field, s)
<1>. DEFINE n == Cardinality(SaysSo(history[d], field, s))
            n2 == Cardinality(SaysSo(history'[d], field, s))
            w == Cardinality(Sayers(d, field, s))  w2 == Cardinality(Sayers(d, field, s)')
            e == [from |-> work[t].from, to |-> work[t].to]
            new == work[t].deal
<1>1. /\ work[t].pc = "record" /\ new \in Deals /\ e \in Changed
      /\ history' = [history EXCEPT ![new] = Append(history[new], e)]
      /\ work' = [work EXCEPT ![t] = Idle]
  BY Kinds, Records DEF RecordTransition
<1>2. /\ w \in Nat /\ w2 \in Nat
      /\ w2 + Bit(Says(work[t], d, field, s)) = w + Bit(Says(work'[t], d, field, s))
  BY <1>1, SayersMove DEF TypeOK
<1>3. ~Says(work'[t], d, field, s)
  BY <1>1, Records DEF Says, TypeOK
<1>4. Says(work[t], d, field, s) <=> d = new /\ e[field] = s
  BY <1>1 DEF Says
<1>5. Entries(d, field, s) = n + w /\ Entries(d, field, s)' = n2 + w2
  BY DEF Entries, Logged, BeingLogged, SaysSo, Sayers, Says
<1>6. n \in Nat /\ n2 = n + Bit(d = new /\ e[field] = s)
  <2>1. history[d] \in Seq(Changed)
    BY DEF TypeOK
  <2>2. n \in Nat /\ Cardinality(SaysSo(Append(history[d], e), field, s)) = n + Bit(e[field] = s)
    BY <1>1, <2>1, LogGrows
  <2>3. CASE d = new
    <3>1. history'[d] = Append(history[d], e)
      BY <1>1, <2>3 DEF TypeOK
    <3>. QED
      BY <2>2, <2>3, <3>1 DEF Bit
  <2>4. CASE d # new
    <3>1. history'[d] = history[d]
      BY <1>1, <2>4 DEF TypeOK
    <3>. QED
      BY <2>2, <2>4, <3>1 DEF Bit
  <2>. QED
    BY <2>3, <2>4
<1>. HIDE DEF n, n2, w, w2, e, new
<1>. QED
  BY <1>2, <1>3, <1>4, <1>5, <1>6 DEF Bit

\* Every step keeps each row explained by its history.
LEMMA HistoryStep ==
  ASSUME Sensible, HistoryInv, [Next]_vars
  PROVE  HistoryAccounts'
<1>. RowsInv /\ TypeOK /\ RowsAreListed /\ HistoryAccounts
  BY DEF HistoryInv, RowsInv
\* A step of a call that logs nothing, before or after it.
<1>1. ASSUME NEW t \in Threads, UNCHANGED <<row, history>>,
             \A u \in Threads \ {t} : work'[u] = work[u],
             work[t].pc # "record", work'[t].pc # "record"
      PROVE  HistoryAccounts'
  <2>1. ASSUME NEW d \in Deals, NEW s, NEW field \in {"from", "to"}
        PROVE  Entries(d, field, s)' = Entries(d, field, s)
    <3>1. ~Says(work[t], d, field, s) /\ ~Says(work'[t], d, field, s)
      BY <1>1 DEF Says
    <3>. QED
      BY <1>1, <3>1, EntriesMove DEF Bit
  <2>. QED
    BY <1>1, <2>1 DEF HistoryAccounts
\* A call changes the row of d to s and has still to log it.
<1>2. ASSUME NEW t \in Threads, NEW d \in Deals, NEW s, UNCHANGED history, work[t].pc # "record",
             work' = [work EXCEPT ![t] = Recording(d, row[d], s)],
             row' = [row EXCEPT ![d] = s]
      PROVE  HistoryAccounts'
  <2>. SUFFICES ASSUME NEW e \in Deals, NEW r \in StoredStatuses
                PROVE  (Entries(e, "to", r) - Entries(e, "from", r) = IF row[e] = r THEN 1 ELSE 0)'
    BY DEF HistoryAccounts
  <2>1. /\ work'[t] = Recording(d, row[d], s) /\ \A u \in Threads \ {t} : work'[u] = work[u]
        /\ row'[e] = IF e = d THEN s ELSE row[e]
    BY <1>2 DEF TypeOK
  <2>2. ASSUME NEW field \in {"from", "to"}
        PROVE  /\ Entries(e, field, r) \in Nat /\ Entries(e, field, r)' \in Nat
               /\ Entries(e, field, r)' = Entries(e, field, r)
                     + Bit(e = d /\ r = IF field = "to" THEN s ELSE row[d])
    <3>1. ~Says(work[t], e, field, r)
      BY <1>2 DEF Says
    <3>2. Says(work'[t], e, field, r) <=> e = d /\ r = IF field = "to" THEN s ELSE row[d]
      BY <2>1, Records DEF Says
    <3>3. history'[e] = history[e]
      BY <1>2
    <3>4. /\ Entries(e, field, r) \in Nat /\ Entries(e, field, r)' \in Nat
          /\ Entries(e, field, r)' + Bit(Says(work[t], e, field, r)) =
               Entries(e, field, r) + Bit(Says(work'[t], e, field, r))
      BY <2>1, <3>3, EntriesMove
    <3>. QED
      BY <3>1, <3>2, <3>4 DEF Bit
  <2>3. Entries(e, "to", r) - Entries(e, "from", r) = IF row[e] = r THEN 1 ELSE 0
    BY DEF HistoryAccounts
  <2>4. /\ Entries(e, "to", r) \in Nat /\ Entries(e, "from", r) \in Nat
        /\ Entries(e, "to", r)' = Entries(e, "to", r) + Bit(e = d /\ r = s)
        /\ Entries(e, "from", r)' = Entries(e, "from", r) + Bit(e = d /\ r = row[d])
    BY <2>2
  <2>. QED
    BY <2>1, <2>3, <2>4 DEF Bit
<1>3. ASSUME UNCHANGED <<row, history, work>> PROVE HistoryAccounts'
  BY <1>3 DEF HistoryAccounts, Entries, Logged, BeingLogged
<1>4. ASSUME NEW t \in Threads, NEW d \in Deals, BookDeal(t, d) PROVE HistoryAccounts'
  <2>1. row[d] = None /\ work[t].pc # "record" /\ UNCHANGED history
    BY <1>4, Records DEF BookDeal, RowsAreListed
  <2>2. \/ UNCHANGED <<row, work>>
        \/ /\ row' = [row EXCEPT ![d] = "booked"]
           /\ work' = [work EXCEPT ![t] = Recording(d, row[d], "booked")]
    BY <1>4, <2>1 DEF BookDeal
  <2>. QED
    BY <1>2, <1>3, <2>1, <2>2
<1>5. ASSUME NEW t \in Threads, NEW d \in Deals, GetDeal(t, d) PROVE HistoryAccounts'
  <2>1. work[t].pc # "record" /\ UNCHANGED <<row, history>>
    BY <1>5, Records DEF GetDeal
  <2>2. work'[t].pc # "record" /\ \A u \in Threads \ {t} : work'[u] = work[u]
    BY <1>5 DEF GetDeal, TypeOK
  <2>. QED
    BY <1>1, <2>1, <2>2
<1>6. ASSUME NEW t \in Threads, Update(t) PROVE HistoryAccounts'
  <2>. DEFINE d == work[t].deal  s == work[t].status
  <2>1. d \in Deals /\ work[t].pc # "record" /\ UNCHANGED history
    BY <1>6, Kinds, Records DEF Update
  <2>2. /\ row' = [row EXCEPT ![d] = s]
        /\ work' = [work EXCEPT ![t] = Recording(d, row[d], s)]
    BY <1>6 DEF Update, Log
  <2>. HIDE DEF d, s
  <2>. QED
    BY <1>2, <2>1, <2>2
<1>7. ASSUME NEW t \in Threads, Ignore(t) PROVE HistoryAccounts'
  <2>1. work[t].pc # "record" /\ UNCHANGED <<row, history>>
    BY <1>7 DEF Ignore
  <2>2. work'[t].pc # "record" /\ \A u \in Threads \ {t} : work'[u] = work[u]
    BY <1>7, Records DEF Ignore, TypeOK
  <2>. QED
    BY <1>1, <2>1, <2>2
<1>8. ASSUME NEW t \in Threads, RecordTransition(t) PROVE HistoryAccounts'
  <2>1. \A s : \A d \in Deals, field \in {"from", "to"} :
          Entries(d, field, s)' = Entries(d, field, s)
    BY <1>8, EntriesStay
  <2>2. row' = row
    BY <1>8 DEF RecordTransition
  <2>. QED
    BY <2>1, <2>2 DEF HistoryAccounts
<1>9. ASSUME NEW x, PersistQuote(x) \/ SellerMovesOn(x) \/ UNCHANGED vars
      PROVE  HistoryAccounts'
  BY <1>3, <1>9 DEF PersistQuote, SellerMovesOn, vars
<1>. QED
  BY <1>4, <1>5, <1>6, <1>7, <1>8, <1>9 DEF Next

\* An answer finds its row in a listing that is long enough.
LEMMA AnswersFind ==
  ASSUME Sensible, RowsInv
  PROVE  AnswerFindsRow
<1>. SUFFICES ASSUME Len(order) <= Limit, NEW t \in Threads, work[t].pc = "answered",
                     row[work[t].deal] # None
              PROVE  work[t].deal \in Listed
  BY DEF AnswerFindsRow
<1>1. work[t].deal \in Deals
  BY Kinds, Records DEF RowsInv
<1>2. PICK i \in 1 .. Len(order) : order[i] = work[t].deal
  BY <1>1 DEF RowsInv, RowsAreListed
<1>3. Len(order) \in Nat /\ Limit \in Nat
  BY DEF RowsInv, TypeOK, Sensible
<1>4. i + Limit > Len(order)
  BY <1>3
<1>. QED
  BY <1>2, <1>4 DEF Listed, ListedOf

\* In the beginning there are no rows and no calls.
LEMMA HistoryStarts ==
  ASSUME Sensible, Init
  PROVE  HistoryInv
<1>1. TypeOK /\ RowsAreListed
  BY DEF Init, TypeOK, RowsAreListed
<1>2. ASSUME NEW d \in Deals, NEW field, NEW s PROVE Entries(d, field, s) = 0
  <2>1. SaysSo(history[d], field, s) = {}
    BY DEF Init, SaysSo
  <2>2. Sayers(d, field, s) = {}
    BY DEF Init, Sayers, Says, Idle
  <2>. QED
    BY <2>1, <2>2, EntriesCount, FS_EmptySet
<1>3. HistoryAccounts
  BY <1>2 DEF Init, HistoryAccounts, Sensible
<1>. QED
  BY <1>1, <1>3 DEF HistoryInv, RowsInv

--------------------------------------------------------------------------------
\* The rows of the deals table explain themselves, for any number of overlapping calls: a
\* deal entered every status as often as it left it, and once more the one that it has.
THEOREM HistoryExplains ==
  ASSUME Sensible
  PROVE  Spec => []HistoryAccounts
<1>1. Init => HistoryInv
  BY HistoryStarts
<1>2. HistoryInv /\ [Next]_vars => HistoryInv'
  BY TypeStep, RowsStep, HistoryStep DEF HistoryInv, RowsInv
<1>3. HistoryInv => HistoryAccounts
  BY DEF HistoryInv
<1>. QED
  BY <1>1, <1>2, <1>3, PTL DEF Spec

\* The seller's answer about a deal reaches the deal's row, while the seller has no more
\* rows than a listing returns.
THEOREM AnswersFindRows ==
  ASSUME Sensible
  PROVE  Spec => []AnswerFindsRow
<1>1. Init => RowsInv
  BY HistoryStarts DEF HistoryInv
<1>2. RowsInv /\ [Next]_vars => RowsInv'
  BY TypeStep, RowsStep DEF RowsInv
<1>3. RowsInv => AnswerFindsRow
  BY AnswersFind
<1>. QED
  BY <1>1, <1>2, <1>3, PTL DEF Spec
================================================================================
