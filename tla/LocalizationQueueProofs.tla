----------------------- MODULE LocalizationQueueProofs -----------------------
(***************************************************************************)
(* Translations are faithful for every number of advices, users and        *)
(* processes, every budget and every number of attempts: they are filed    *)
(* under the text they were made from, no two workers hold a row, only     *)
(* reviewed advice is translated, and neither a text nor a user costs more *)
(* than its share.                                                         *)
(***************************************************************************)
EXTENDS LocalizationQueue, FiniteSetTheorems, SequenceTheorems, TLAPS

-----------------------------------------------------------------------------
(* The inductive invariant.                                                *)

Row == [status : {"pending", "running", "ready", "unavailable"}, source : Nat,
        attempts : 0..MaxAttempts, wait : Nat, lease : Nat, by : Worker \cup {Nobody},
        text : Nat]
Rows == Row \cup {NoRow}
Task == [step : {"claimed", "called"}, advice : Advice, source : Nat, attempt : Nat \ {0}]
Calls == Seq(1..Day)

TypesHold ==
    /\ owner \in [Advice -> User]
    /\ asked \subseteq User
    /\ advice \in [Advice -> Written]
    /\ row \in [Advice -> Rows]
    /\ usage \in [User -> Calls]
    /\ work \in [Worker -> Task \cup {Idle}]
    /\ made \in [Advice -> Nat]

\* Only what was written has a version.
TextsAreNumbered ==
    \A a \in Advice :
        /\ advice[a].status = "none" => advice[a].v = 0
        /\ advice[a].status \in {"provisional", "visible"} => advice[a].v > 0

\* Nobody works on a text that is still to come.
WorkIsOnTexts ==
    \A w \in Worker : work[w] # Idle => work[w].source \in 1..advice[work[w].advice].v

\* A call is paid for, or its worker is about to pay.
Claimants(a) ==
    {w \in Worker : work[w].step = "claimed" /\ work[w].advice = a
                    /\ work[w].source = advice[a].v}
Paid(a) == made[a] + Cardinality(Claimants(a))

\* The attempts that a row counts for the present text.
Tried(a, r) == IF r # NoRow /\ r.source = advice[a].v THEN r.attempts ELSE 0

\* What is true of a row of its own.
Fits(a, r) ==
    r # NoRow =>
        /\ r.source \in 1..advice[a].v
        /\ Visible(a)
        /\ r.status = "running" <=> r.by # Nobody
        /\ r.status = "ready" => r.text = r.source

\* A worker whose row it still is works on the row's text, in the row's attempt.
HeldTruly(a, r) ==
    \A w \in Worker :
        r.status = "running" /\ r.by = w /\ work[w] # Idle /\ work[w].advice = a =>
            work[w].source = r.source /\ work[w].attempt = r.attempts

Good(a, r) ==
    /\ r \in Rows
    /\ Fits(a, r)
    /\ HeldTruly(a, r)
    /\ Paid(a) <= Tried(a, r)

RowsAreGood == \A a \in Advice : Good(a, row[a])

\* An English text is not translated, so it costs nothing.
EnglishIsFree == \A a \in Advice : advice[a].english => Paid(a) = 0

\* The calls of a user are ordered, and within the day's share.
Ordered(calls) == \A i, j \in 1..Len(calls) : i <= j => calls[i] <= calls[j]
BudgetsHold == \A u \in User : Len(usage[u]) <= DailyLimit /\ Ordered(usage[u])

Translating ==
    /\ TypesHold /\ TextsAreNumbered /\ WorkIsOnTexts
    /\ RowsAreGood /\ EnglishIsFree /\ BudgetsHold

-----------------------------------------------------------------------------
(* What a claim makes of rows.                                             *)

\* A row is never taken for the missing one.
LEMMA RowsAreRows ==
    ASSUME NEW r \in Row
    PROVE  r # NoRow
BY DEF Row, NoRow

\* Nor a task for idleness.
LEMMA TasksAreTasks ==
    ASSUME NEW t \in Task
    PROVE  t # Idle
BY DEF Task, Idle

\* Those about to pay are finitely many.
LEMMA ClaimantsAreFinite ==
    ASSUME NEW a \in Advice
    PROVE  IsFiniteSet(Claimants(a)) /\ Cardinality(Claimants(a)) \in Nat
<1>1. Claimants(a) \subseteq Worker
  BY DEF Claimants
<1> QED BY <1>1, ProcessAssumption, FS_Subset, FS_CardinalityType

\* What is paid is a number.
LEMMA PaidIsANumber ==
    ASSUME TypesHold, NEW a \in Advice
    PROVE  Paid(a) \in Nat
BY ClaimantsAreFinite DEF TypesHold, Paid

\* A missing row, and a fresh one, are good where nothing was paid.
LEMMA NothingPaid ==
    ASSUME TypesHold, TextsAreNumbered, NEW a \in Advice, Paid(a) = 0
    PROVE  /\ Good(a, NoRow)
           /\ Visible(a) => Good(a, Fresh(advice[a].v))
<1>1. advice[a] \in Written
  BY DEF TypesHold
<1>2. Good(a, NoRow)
  BY DEF Good, Rows, Fits, HeldTruly, Tried, NoRow
<1>3. ASSUME Visible(a) PROVE Good(a, Fresh(advice[a].v))
  <2> DEFINE r == Fresh(advice[a].v)
  <2>1. advice[a].v \in Nat /\ advice[a].v > 0
    BY <1>1, <1>3 DEF Visible, TextsAreNumbered, Written
  <2>2. r \in Row
    BY <2>1, LimitAssumption DEF Row, Fresh
  <2>3. r # NoRow
    BY <2>2, RowsAreRows
  <2>4. Fits(a, r)
    BY <1>3, <2>1 DEF Fits, Fresh
  <2>5. HeldTruly(a, r)
    BY DEF HeldTruly, Fresh
  <2>6. Tried(a, r) = 0
    BY <2>3 DEF Tried, Fresh
  <2> QED BY <2>2, <2>4, <2>5, <2>6 DEF Good, Rows
<1> QED BY <1>2, <1>3

\* Rows of which a good one can become without having been tried again.
Succeeds(r, s) ==
    /\ r \in Row /\ s \in Row
    /\ s.source = r.source /\ s.attempts = r.attempts
    /\ s.status = "running" => r.status = "running" /\ s.by = r.by
    /\ s.status = "running" <=> s.by # Nobody
    /\ s.status = "ready" => s.text = s.source

\* They are good as well.
LEMMA LaterIsGood ==
    ASSUME NEW a, NEW r, NEW s, Good(a, r), Succeeds(r, s)
    PROVE  Good(a, s)
<1>1. r # NoRow /\ s # NoRow /\ s \in Rows
  BY RowsAreRows DEF Succeeds, Rows
<1>2. Fits(a, s)
  BY <1>1 DEF Succeeds, Good, Fits
<1>3. HeldTruly(a, s)
  BY DEF Succeeds, Good, HeldTruly
<1>4. Tried(a, s) = Tried(a, r)
  BY <1>1 DEF Succeeds, Tried
<1> QED BY <1>1, <1>2, <1>3, <1>4 DEF Good

\* A good row is its own successor.
LEMMA GoodIsLater ==
    ASSUME NEW a, NEW r, Good(a, r), r # NoRow
    PROVE  Succeeds(r, r)
BY DEF Good, Fits, Rows, Succeeds

\* Recovering a lapsed claim, and giving up what was tried enough, keep rows good.
LEMMA ReadyIsGood ==
    ASSUME NEW a, NEW r, Good(a, r)
    PROVE  Good(a, Recovered(r)) /\ Good(a, Exhausted(Recovered(r)))
<1>1. CASE r = NoRow
  <2>1. Recovered(r) = r /\ Exhausted(r) = r
    BY <1>1 DEF Recovered, Exhausted, NoRow
  <2> QED BY <2>1
<1>2. CASE r # NoRow
  <2>1. r \in Row /\ Succeeds(r, r)
    BY <1>2, GoodIsLater DEF Good, Rows
  <2>2. Succeeds(r, Recovered(r))
    BY <2>1 DEF Succeeds, Recovered, Row
  <2>3. Recovered(r) \in Row
    BY <2>2 DEF Succeeds
  <2> DEFINE q == Recovered(r)
  <2>4. Good(a, q)
    BY <2>2, LaterIsGood
  <2>5. Succeeds(q, q)
    BY <2>3, <2>4, GoodIsLater, RowsAreRows
  <2> HIDE DEF q
  <2>6. Succeeds(q, Exhausted(q))
    BY <2>3, <2>5 DEF Succeeds, Exhausted, Row
  <2>7. Good(a, Exhausted(q))
    BY <2>4, <2>6, LaterIsGood
  <2> QED BY <2>4, <2>7 DEF q
<1> QED BY <1>1, <1>2

\* Enqueueing a text whose row is good leaves it a good one.
LEMMA UpsertedIsGood ==
    ASSUME TypesHold, TextsAreNumbered, EnglishIsFree, NEW a \in Advice, Good(a, row[a]),
           Visible(a)
    PROVE  Good(a, Upserted(a, advice[a]))
<1>1. CASE advice[a].english
  <2>1. Good(a, NoRow)
    BY <1>1, NothingPaid DEF EnglishIsFree
  <2> QED BY <1>1, <2>1 DEF Upserted
<1>2. CASE ~advice[a].english /\ (row[a] = NoRow \/ row[a].source # advice[a].v)
  <2>1. Tried(a, row[a]) = 0
    BY <1>2 DEF Tried
  <2>2. Paid(a) = 0
    BY <2>1, PaidIsANumber DEF Good
  <2>3. Good(a, Fresh(advice[a].v))
    BY <2>2, NothingPaid
  <2>4. Upserted(a, advice[a]) = Fresh(advice[a].v)
    BY <1>2 DEF Upserted
  <2> QED BY <2>3, <2>4
<1>3. CASE ~advice[a].english /\ ~(row[a] = NoRow \/ row[a].source # advice[a].v)
  <2>1. Upserted(a, advice[a]) = row[a]
    BY <1>3 DEF Upserted
  <2> QED BY <2>1
<1> QED BY <1>1, <1>2, <1>3

\* What the loop over the candidates passes stays good.
LEMMA PassedIsGood ==
    ASSUME TypesHold, TextsAreNumbered, EnglishIsFree, NEW rows,
           \A a \in Advice : Good(a, rows[a]),
           NEW seen \in SUBSET (Candidates(rows) \ Claimable(rows)), NEW a \in Advice
    PROVE  Good(a, Passed(rows, seen)[a])
<1> DEFINE s == Passed(rows, seen)[a]
<1>1. Good(a, rows[a]) /\ rows[a] \in Rows
  BY DEF Good
<1>2. CASE Wait(owner[a]) > 0
  <2>1. CASE s = rows[a]
    BY <1>1, <2>1
  <2>2. CASE rows[a].status = "pending" /\ s = [rows[a] EXCEPT !.wait = Later(@, Wait(owner[a]))]
    <3>1. rows[a] # NoRow /\ rows[a] \in Row
      BY <1>1, <2>2 DEF Rows, NoRow
    <3>2. Wait(owner[a]) \in Nat
      <4>1. owner[a] \in User /\ usage[owner[a]] \in Calls
        BY DEF TypesHold
      <4> QED BY <4>1, LimitAssumption DEF Wait, Calls
    <3>3. Succeeds(rows[a], rows[a])
      BY <1>1, <3>1, GoodIsLater
    <3>4. Succeeds(rows[a], s)
      BY <2>2, <3>1, <3>2, <3>3 DEF Succeeds, Later, Row
    <3> QED BY <1>1, <3>4, LaterIsGood
  <2> QED BY <1>2, <2>1, <2>2 DEF Passed
<1>3. CASE ~(Wait(owner[a]) > 0)
  <2>1. CASE a \notin seen
    BY <1>1, <1>3, <2>1 DEF Passed
  <2>2. CASE a \in seen
    <3>1. Visible(a) /\ a \notin Claimable(rows) /\ a \in Candidates(rows)
      BY <2>2 DEF Candidates
    <3>2. CASE advice[a].english
      <4>1. Good(a, NoRow)
        BY <3>2, NothingPaid DEF EnglishIsFree
      <4>2. s = NoRow
        BY <1>3, <2>2, <3>2 DEF Passed
      <4> QED BY <4>1, <4>2
    <3>3. CASE ~advice[a].english
      <4>1. Wait(owner[a]) = 0
        <5>1. owner[a] \in User /\ usage[owner[a]] \in Calls
          BY DEF TypesHold
        <5> QED BY <1>3, <5>1, LimitAssumption DEF Wait, Calls
      <4>2. rows[a].source # advice[a].v
        BY <3>1, <3>3, <4>1 DEF Claimable
      <4>3. Paid(a) = 0
        BY <1>1, <4>2, PaidIsANumber DEF Good, Tried
      <4>4. Good(a, Fresh(advice[a].v))
        BY <3>1, <4>3, NothingPaid
      <4>5. s = Fresh(advice[a].v)
        BY <1>3, <2>2, <3>3 DEF Passed
      <4> QED BY <4>4, <4>5
    <3> QED BY <3>2, <3>3
  <2> QED BY <2>1, <2>2
<1> QED BY <1>2, <1>3

-----------------------------------------------------------------------------
(* What a step leaves true.                                                *)

\* Where no text changes and nobody starts to work, good rows stay good.
LEMMA LeavingWork ==
    ASSUME Translating, advice' = advice, made' = made,
           \A w \in Worker : work'[w] \in {work[w], Idle},
           \A a \in Advice : Good(a, row'[a])
    PROVE  TextsAreNumbered' /\ WorkIsOnTexts' /\ RowsAreGood' /\ EnglishIsFree'
<1>1. TextsAreNumbered'
  BY DEF Translating, TextsAreNumbered
<1>2. WorkIsOnTexts'
  BY DEF Translating, WorkIsOnTexts
<1>3. ASSUME NEW a \in Advice PROVE Paid(a)' <= Paid(a) /\ Paid(a)' \in Nat
  <2>1. Claimants(a)' \subseteq Claimants(a)
    BY DEF Claimants, Idle
  <2>2. IsFiniteSet(Claimants(a)) /\ Cardinality(Claimants(a)) \in Nat
    BY ClaimantsAreFinite
  <2>3. /\ Cardinality(Claimants(a)') <= Cardinality(Claimants(a))
        /\ Cardinality(Claimants(a)') \in Nat
    BY <2>1, <2>2, FS_Subset, FS_CardinalityType
  <2>4. made[a] \in Nat
    BY DEF Translating, TypesHold
  <2> QED BY <2>2, <2>3, <2>4 DEF Paid
<1>4. RowsAreGood'
  <2> SUFFICES ASSUME NEW a \in Advice PROVE Good(a, row[a])'
    BY DEF RowsAreGood
  <2>1. Good(a, row'[a])
    OBVIOUS
  <2>2. Fits(a, row[a])'
    BY <2>1 DEF Good, Fits, Visible
  <2>3. HeldTruly(a, row[a])'
    BY <2>1 DEF Good, HeldTruly
  <2>4. Tried(a, row[a])' \in Nat /\ Tried(a, row[a])' = Tried(a, row'[a])
    BY <2>1, LimitAssumption DEF Good, Tried, Rows, Row
  <2>5. Paid(a) <= Tried(a, row'[a]) /\ Paid(a) \in Nat
    BY <2>1, PaidIsANumber DEF Good, Translating
  <2> QED BY <1>3, <2>1, <2>2, <2>3, <2>4, <2>5 DEF Good
<1>5. EnglishIsFree'
  BY <1>3, PaidIsANumber DEF Translating, EnglishIsFree
<1> QED BY <1>1, <1>2, <1>4, <1>5

\* A claim hands out an attempt at the present text.
LEMMA HandingOut ==
    ASSUME Translating, NEW w \in Worker, NEW a \in Advice, NEW after,
           work[w] = Idle,
           \A b \in Advice : Good(b, after[b]),
           advice' = advice, made' = made, after[a] # NoRow,
           after[a].attempts < MaxAttempts, Visible(a), ~advice[a].english,
           after[a].source = advice[a].v,
           \A b \in Advice : row'[b] = IF b = a THEN HandedOut(after[a], w) ELSE after[b],
           work' = [work EXCEPT ![w] = [step |-> "claimed", advice |-> a, source |-> advice[a].v,
                                        attempt |-> after[a].attempts + 1]]
    PROVE  /\ TextsAreNumbered' /\ WorkIsOnTexts' /\ RowsAreGood' /\ EnglishIsFree'
           /\ row'[a] \in Rows /\ work' \in [Worker -> Task \cup {Idle}]
<1> DEFINE t == [step |-> "claimed", advice |-> a, source |-> advice[a].v,
                 attempt |-> after[a].attempts + 1]
<1>1. after[a] \in Row /\ Good(a, after[a])
  BY DEF Good, Rows
<1>2. advice[a] \in Written /\ work \in [Worker -> Task \cup {Idle}]
  BY DEF Translating, TypesHold
<1>3. t \in Task
  BY <1>1, <1>2, LimitAssumption DEF Task, Row, Written
<1>4. /\ work'[w] = t
      /\ \A o \in Worker : o # w => work'[o] = work[o]
      /\ work' \in [Worker -> Task \cup {Idle}]
  BY <1>2, <1>3
<1>5. row'[a] = HandedOut(after[a], w)
  OBVIOUS
<1>6. /\ row'[a] \in Row
      /\ row'[a].source = advice[a].v /\ row'[a].attempts = after[a].attempts + 1
      /\ row'[a].status = "running" /\ row'[a].by = w
  <2> DEFINE r == after[a]
  <2>1. r \in Row /\ r.attempts \in 0..MaxAttempts
    BY <1>1 DEF Row
  <2>2. r.attempts + 1 \in 0..MaxAttempts
    BY <2>1, LimitAssumption
  <2>3. row'[a] = HandedOut(r, w) /\ r.source = advice[a].v
    BY <1>5
  <2> HIDE DEF r
  <2>4. HandedOut(r, w) \in Row
    BY <2>1, <2>2, LimitAssumption DEF HandedOut, Row
  <2>5. /\ HandedOut(r, w).source = r.source /\ HandedOut(r, w).attempts = r.attempts + 1
        /\ HandedOut(r, w).status = "running" /\ HandedOut(r, w).by = w
    BY <2>1 DEF HandedOut, Row
  <2> QED BY <2>3, <2>4, <2>5 DEF r
<1>7. TextsAreNumbered'
  BY DEF Translating, TextsAreNumbered
<1>8. WorkIsOnTexts'
  <2>1. advice[a].v \in 1..advice[a].v
    BY <1>2 DEF Written, Visible, Translating, TextsAreNumbered
  <2> QED BY <1>4, <2>1 DEF Translating, WorkIsOnTexts
<1>9. ASSUME NEW b \in Advice, b # a PROVE Paid(b)' = Paid(b)
  <2>1. Claimants(b)' = Claimants(b)
    <3>1. \A o \in Worker : o # w => (o \in Claimants(b)' <=> o \in Claimants(b))
      BY <1>4 DEF Claimants
    <3>2. w \notin Claimants(b) /\ w \notin Claimants(b)'
      BY <1>4, <1>9 DEF Claimants, Idle
    <3> QED BY <3>1, <3>2 DEF Claimants
  <2> QED BY <2>1 DEF Paid
<1>10. Paid(a)' = Paid(a) + 1 /\ Paid(a) \in Nat
  <2>1. Claimants(a)' = Claimants(a) \cup {w}
    <3>1. \A o \in Worker : o # w => (o \in Claimants(a)' <=> o \in Claimants(a))
      BY <1>4 DEF Claimants
    <3>2. w \in Claimants(a)'
      BY <1>4 DEF Claimants
    <3> QED BY <3>1, <3>2 DEF Claimants
  <2>2. w \notin Claimants(a)
    BY DEF Claimants, Idle
  <2>3. IsFiniteSet(Claimants(a)) /\ Cardinality(Claimants(a)) \in Nat
    BY ClaimantsAreFinite
  <2>4. Cardinality(Claimants(a)') = Cardinality(Claimants(a)) + 1
    BY <2>1, <2>2, <2>3, FS_AddElement
  <2>5. made[a] \in Nat
    BY DEF Translating, TypesHold
  <2> QED BY <2>3, <2>4, <2>5 DEF Paid
<1>11. RowsAreGood'
  <2> SUFFICES ASSUME NEW b \in Advice PROVE Good(b, row[b])'
    BY DEF RowsAreGood
  <2>1. CASE b # a
    <3>1. Good(b, after[b]) /\ row'[b] = after[b]
      BY <2>1
    <3>2. Fits(b, row[b])'
      BY <3>1 DEF Good, Fits, Visible
    <3>3. HeldTruly(b, row[b])'
      BY <1>4, <2>1, <3>1 DEF Good, HeldTruly
    <3>4. Tried(b, row[b])' = Tried(b, after[b])
      BY <3>1 DEF Tried
    <3> QED BY <1>9, <2>1, <3>1, <3>2, <3>3, <3>4 DEF Good
  <2>2. CASE b = a
    <3>1. row'[a] \in Rows /\ row'[a] # NoRow
      BY <1>6, RowsAreRows DEF Rows
    <3>2. Fits(a, row[a])'
      BY <1>1, <1>6, RowsAreRows, ProcessAssumption DEF Good, Fits, Visible
    <3>3. HeldTruly(a, row[a])'
      BY <1>4, <1>6 DEF HeldTruly
    <3>4. Paid(a) <= after[a].attempts /\ after[a].attempts \in Nat
      BY <1>1, LimitAssumption DEF Good, Tried, Row
    <3>5. Tried(a, row[a])' = after[a].attempts + 1
      BY <1>6, <3>1 DEF Tried
    <3>6. Paid(a)' <= Tried(a, row[a])'
      BY <1>10, <3>4, <3>5
    <3> QED BY <2>2, <3>1, <3>2, <3>3, <3>6 DEF Good
  <2> QED BY <2>1, <2>2
<1>12. EnglishIsFree'
  BY <1>9 DEF Translating, EnglishIsFree
<1> QED BY <1>3, <1>4, <1>6, <1>7, <1>8, <1>11, <1>12 DEF Rows

\* What a new text of an advice makes of the rest: its row is missing, of an older text, or
\* fresh, and nothing has been paid for it.
LEMMA NewText ==
    ASSUME Translating, NEW a \in Advice, NEW text \in Written,
           text.v = advice[a].v + 1, text.status \in {"visible", "provisional"},
           advice' = [advice EXCEPT ![a] = text],
           made'[a] = 0, \A b \in Advice : b # a => made'[b] = made[b],
           work' = work,
           \A b \in Advice : b # a => row'[b] = row[b],
           row'[a] \in {NoRow, Fresh(text.v), row[a]},
           row'[a] # NoRow => text.status = "visible"
    PROVE  /\ TextsAreNumbered' /\ WorkIsOnTexts' /\ RowsAreGood' /\ EnglishIsFree'
           /\ advice' \in [Advice -> Written] /\ row'[a] \in Rows
<1>1. advice \in [Advice -> Written] /\ work \in [Worker -> Task \cup {Idle}]
      /\ made \in [Advice -> Nat]
  BY DEF Translating, TypesHold
<1>2. /\ advice'[a] = text
      /\ \A b \in Advice : b # a => advice'[b] = advice[b]
      /\ advice' \in [Advice -> Written]
      /\ advice[a].v \in Nat /\ text.v \in Nat
  BY <1>1 DEF Written
<1>3. TextsAreNumbered'
  BY <1>2 DEF Translating, TextsAreNumbered
<1>4. WorkIsOnTexts'
  BY <1>1, <1>2 DEF Translating, WorkIsOnTexts, Task
<1>5. Paid(a)' = 0
  <2>1. Claimants(a)' = {}
    <3>1. ASSUME NEW w \in Worker, work[w].step = "claimed", work[w].advice = a,
                 work[w].source = text.v
          PROVE  FALSE
      <4>1. work[w] # Idle
        BY <3>1 DEF Idle
      <4>2. work[w].source \in 1..advice[a].v
        BY <3>1, <4>1 DEF Translating, WorkIsOnTexts
      <4> QED BY <1>2, <3>1, <4>2
    <3> QED BY <1>2, <3>1 DEF Claimants
  <2> QED BY <2>1, FS_EmptySet DEF Paid
<1>6. ASSUME NEW b \in Advice, b # a PROVE Paid(b)' = Paid(b)
  <2>1. Claimants(b)' = Claimants(b)
    BY <1>2, <1>6 DEF Claimants
  <2> QED BY <1>6, <2>1 DEF Paid
<1>7. ASSUME NEW b \in Advice PROVE Good(b, row[b])'
  <2>1. CASE b # a
    <3>1. Good(b, row[b]) /\ row'[b] = row[b] /\ advice'[b] = advice[b]
      BY <1>2, <2>1 DEF Translating, RowsAreGood
    <3>2. Fits(b, row[b])' /\ HeldTruly(b, row[b])' /\ Tried(b, row[b])' = Tried(b, row[b])
      BY <3>1 DEF Good, Fits, HeldTruly, Tried, Visible
    <3> QED BY <1>6, <2>1, <3>1, <3>2 DEF Good
  <2>2. CASE b = a
    <3>1. CASE row'[a] = NoRow
      BY <1>5, <2>2, <3>1 DEF Good, Rows, Fits, HeldTruly, Tried, NoRow
    <3>2. CASE row'[a] = Fresh(text.v) /\ row'[a] # NoRow
      <4>1. row'[a] \in Row
        BY <1>2, <3>2, LimitAssumption DEF Row, Fresh
      <4>2. Fits(a, row[a])'
        BY <1>2, <3>2 DEF Fits, Fresh, Visible
      <4>3. HeldTruly(a, row[a])'
        BY <3>2 DEF HeldTruly, Fresh
      <4>4. Tried(a, row[a])' = 0
        BY <3>2 DEF Tried, Fresh
      <4> QED BY <1>5, <2>2, <4>1, <4>2, <4>3, <4>4 DEF Good, Rows
    <3>3. CASE row'[a] = row[a] /\ row'[a] # NoRow
      <4>1. Good(a, row[a]) /\ row[a] \in Row
        BY <3>3 DEF Translating, RowsAreGood, Good, Rows
      <4>2. Fits(a, row[a])'
        BY <1>2, <3>3, <4>1 DEF Fits, Visible, Good
      <4>3. HeldTruly(a, row[a])'
        BY <3>3, <4>1 DEF HeldTruly, Good
      <4>4. row[a].source \in 1..advice[a].v
        BY <3>3, <4>1 DEF Good, Fits
      <4>5. Tried(a, row[a])' = 0
        BY <1>2, <3>3, <4>4 DEF Tried
      <4> QED BY <1>5, <2>2, <3>3, <4>1, <4>2, <4>3, <4>5 DEF Good, Rows
    <3> QED BY <3>1, <3>2, <3>3
  <2> QED BY <2>1, <2>2
<1>8. RowsAreGood'
  BY <1>7 DEF RowsAreGood
<1>9. EnglishIsFree'
  BY <1>2, <1>5, <1>6 DEF Translating, EnglishIsFree
<1>10. row'[a] \in Rows
  BY <1>7 DEF Good
<1> QED BY <1>2, <1>3, <1>4, <1>8, <1>9, <1>10

-----------------------------------------------------------------------------
(* Budgets.                                                                *)

\* How long a call still counts is at most a day.
LEMMA CallsCount ==
    ASSUME NEW calls \in Calls
    PROVE  /\ Len(calls) \in Nat /\ DOMAIN calls = 1..Len(calls)
           /\ \A i \in 1..Len(calls) : calls[i] \in 1..Day
<1>1. /\ Len(calls) \in Nat /\ DOMAIN calls = 1..Len(calls)
      /\ calls \in [1..Len(calls) -> 1..Day]
  BY LenProperties DEF Calls
<1> QED BY <1>1

\* A call that comes last, and counts for a whole day, keeps calls in order.
LEMMA AppendedInOrder ==
    ASSUME NEW calls \in Calls, Ordered(calls)
    PROVE  /\ Append(calls, Day) \in Calls /\ Ordered(Append(calls, Day))
           /\ Len(Append(calls, Day)) = Len(calls) + 1
<1>1. Day \in 1..Day
  BY LimitAssumption
<1>2. /\ Append(calls, Day) \in Calls /\ Len(Append(calls, Day)) = Len(calls) + 1
      /\ Len(calls) \in Nat
  BY <1>1 DEF Calls
<1>3. \A i \in 1..Len(calls) : Append(calls, Day)[i] = calls[i] /\ calls[i] \in 1..Day
  BY <1>1 DEF Calls
<1>4. Append(calls, Day)[Len(calls) + 1] = Day
  BY <1>1 DEF Calls
<1>5. ASSUME NEW i \in 1..(Len(calls) + 1), NEW j \in 1..(Len(calls) + 1), i <= j
      PROVE  Append(calls, Day)[i] <= Append(calls, Day)[j]
  <2>1. CASE j = Len(calls) + 1
    <3>1. CASE i = Len(calls) + 1
      BY <1>4, <2>1, <3>1, LimitAssumption
    <3>2. CASE i # Len(calls) + 1
      BY <1>2, <1>3, <1>4, <2>1, <3>2, LimitAssumption
    <3> QED BY <3>1, <3>2
  <2>2. CASE j # Len(calls) + 1
    <3>1. i \in 1..Len(calls) /\ j \in 1..Len(calls)
      BY <1>2, <1>5, <2>2
    <3> QED BY <1>3, <1>5, <3>1 DEF Ordered
  <2> QED BY <2>1, <2>2
<1> QED BY <1>2, <1>5 DEF Ordered

\* As time passes the calls of a user grow no more, and what is dropped counted no more.
LEMMA AgedInOrder ==
    ASSUME NEW calls \in Calls, Ordered(calls)
    PROVE  Aged(calls) \in Calls /\ Ordered(Aged(calls)) /\ Len(Aged(calls)) <= Len(calls)
<1> DEFINE past == {i \in DOMAIN calls : calls[i] <= 1}
           gone == Cardinality(past)
           n == Len(calls)
<1>1. n \in Nat /\ DOMAIN calls = 1..n /\ \A i \in 1..n : calls[i] \in 1..Day
  BY CallsCount
<1>2. IsFiniteSet(1..n) /\ Cardinality(1..n) = n
  BY <1>1, FS_Interval
<1>3. past \in SUBSET (1..n)
  BY <1>1
<1>4. IsFiniteSet(past) /\ gone \in Nat /\ gone <= n
  <2> HIDE DEF past
  <2>1. IsFiniteSet(past) /\ Cardinality(past) <= Cardinality(1..n)
    BY <1>2, <1>3, FS_Subset
  <2> QED BY <1>2, <2>1, FS_CardinalityType
<1>5. ASSUME NEW j \in 1..n, j > gone PROVE calls[j] > 1
  <2> SUFFICES ASSUME calls[j] <= 1 PROVE FALSE
    BY <1>1, LimitAssumption
  <2>1. \A i \in 1..j : i \in 1..n /\ calls[i] <= calls[j]
    BY <1>1 DEF Ordered
  <2>2. \A i \in 1..j : calls[i] <= 1
    BY <1>1, <2>1, LimitAssumption
  <2>3. 1..j \in SUBSET past
    BY <1>1, <2>1, <2>2
  <2>4. Cardinality(1..j) = j
    BY <1>1, FS_Interval
  <2>5. Cardinality(1..j) <= gone
    <3> HIDE DEF past
    <3> QED BY <1>4, <2>3, FS_Subset
  <2> QED BY <1>4, <1>5, <2>4, <2>5
<1> HIDE DEF past
<1> DEFINE m == n - gone
           s == [i \in 1..m |-> calls[i + gone] - 1]
<1>6. Aged(calls) = s
  BY DEF Aged, past
<1> HIDE DEF gone
<1>7. m \in Nat /\ m <= n
  BY <1>1, <1>4
<1>8. \A i \in 1..m : i + gone \in 1..n /\ i + gone > gone
  BY <1>1, <1>4
<1>9. \A i \in 1..m : calls[i + gone] - 1 \in 1..Day
  <2>1. \A i \in 1..m : calls[i + gone] \in 1..Day /\ calls[i + gone] > 1
    BY <1>1, <1>5, <1>8
  <2> QED BY <2>1, LimitAssumption
<1>10. s \in [1..m -> 1..Day]
  BY <1>9
<1>11. s \in Calls /\ Len(s) = m
  <2> HIDE DEF s, m
  <2>1. s \in Seq(1..Day)
    BY <1>7, <1>10, SeqDef
  <2>2. DOMAIN s = 1..m
    BY <1>10
  <2> QED BY <1>7, <2>1, <2>2, LenProperties DEF Calls
<1>12. Ordered(s)
  <2> SUFFICES ASSUME NEW i \in 1..m, NEW j \in 1..m, i <= j PROVE s[i] <= s[j]
    BY <1>11 DEF Ordered
  <2>1. i + gone \in 1..n /\ j + gone \in 1..n /\ i + gone <= j + gone
    BY <1>4, <1>7, <1>8
  <2>2. calls[i + gone] <= calls[j + gone]
    BY <2>1 DEF Ordered
  <2>3. calls[i + gone] \in 1..Day /\ calls[j + gone] \in 1..Day
    BY <1>1, <2>1
  <2> QED BY <2>2, <2>3, LimitAssumption
<1> QED BY <1>6, <1>7, <1>11, <1>12

\* A user who need not wait has made fewer calls than a day allows.
LEMMA NoWaitMeansRoom ==
    ASSUME TypesHold, NEW u \in User, ~Refused(u)
    PROVE  Len(usage[u]) < DailyLimit
<1>1. usage[u] \in Calls
  BY DEF TypesHold
<1>2. Len(usage[u]) \in Nat /\ \A i \in 1..Len(usage[u]) : usage[u][i] \in 1..Day
  BY <1>1, CallsCount
<1>3. DailyLimit \in Nat /\ DailyLimit > 0 /\ Day \in Nat
  BY LimitAssumption
<1> SUFFICES ASSUME ~(Len(usage[u]) < DailyLimit) PROVE FALSE
  OBVIOUS
<1>4. Wait(u) = usage[u][Len(usage[u]) + 1 - DailyLimit]
  BY DEF Wait
<1>5. Len(usage[u]) + 1 - DailyLimit \in 1..Len(usage[u])
  BY <1>2, <1>3
<1>6. Wait(u) \in 1..Day
  BY <1>2, <1>4, <1>5
<1> QED BY <1>3, <1>6 DEF Refused

-----------------------------------------------------------------------------
(* Every step keeps the invariant.                                         *)

\* The translations start out faithful: nothing is queued, nobody works.
LEMMA InitTranslating ==
    ASSUME Init
    PROVE  Translating
<1>1. PICK case \in Cases : owner = case.owner /\ advice = case.advice
  BY DEF Init
<1>2. /\ owner \in [Advice -> User] /\ advice \in [Advice -> Written]
      /\ TextsAreNumbered
  BY <1>1, CaseAssumption DEF TextsAreNumbered
<1>3. asked \subseteq User /\ row = [a \in Advice |-> NoRow] /\ usage = [u \in User |-> <<>>]
      /\ work = [w \in Worker |-> Idle] /\ made = [a \in Advice |-> 0]
  BY DEF Init
<1>4. TypesHold
  <2>1. <<>> \in Calls
    BY EmptySeq DEF Calls
  <2> QED BY <1>2, <1>3, <2>1 DEF TypesHold, Rows
<1>5. WorkIsOnTexts
  BY <1>3 DEF WorkIsOnTexts
<1>6. ASSUME NEW a \in Advice PROVE Paid(a) = 0
  <2>1. Claimants(a) = {}
    BY <1>3 DEF Claimants, Idle
  <2> QED BY <1>3, <1>6, <2>1, FS_EmptySet DEF Paid
<1>7. RowsAreGood
  BY <1>2, <1>3, <1>4, <1>6, NothingPaid DEF RowsAreGood
<1>8. EnglishIsFree
  BY <1>6 DEF EnglishIsFree
<1>9. BudgetsHold
  BY <1>3, LimitAssumption DEF BudgetsHold, Ordered
<1> QED BY <1>2, <1>4, <1>5, <1>7, <1>8, <1>9 DEF Translating

\* Where calls stay, budgets do.
LEMMA BudgetsStay ==
    ASSUME Translating, usage' = usage
    PROVE  BudgetsHold'
BY DEF Translating, BudgetsHold

\* A step that leaves texts and rows alone, while workers may stop.
LEMMA Leaving ==
    ASSUME Translating, owner' = owner, advice' = advice, row' = row, usage' = usage,
           made' = made, asked' \subseteq User,
           work' \in [Worker -> Task \cup {Idle}],
           \A w \in Worker : work'[w] \in {work[w], Idle}
    PROVE  Translating'
<1>1. \A a \in Advice : Good(a, row'[a])
  BY DEF Translating, RowsAreGood
<1>2. TypesHold'
  BY DEF Translating, TypesHold
<1> QED BY <1>1, <1>2, LeavingWork, BudgetsStay DEF Translating

\* A step that changes rows for good ones, while workers may stop.
LEMMA Rewriting ==
    ASSUME Translating, owner' = owner, advice' = advice, usage' = usage,
           made' = made, asked' \subseteq User,
           row' \in [Advice -> Rows], \A a \in Advice : Good(a, row'[a]),
           work' \in [Worker -> Task \cup {Idle}],
           \A w \in Worker : work'[w] \in {work[w], Idle}
    PROVE  Translating'
<1>1. TypesHold'
  BY DEF Translating, TypesHold
<1> QED BY <1>1, LeavingWork, BudgetsStay DEF Translating

\* Choosing a locale only asks for the history.
LEMMA SetLocaleTranslates ==
    ASSUME Translating, NEW u \in User, NEW l, SetLocale(u, l)
    PROVE  Translating'
BY Leaving DEF SetLocale, Translating, TypesHold

\* Enqueueing queues what is not queued, and drops what needs no translation.
LEMMA EnqueueTranslates ==
    ASSUME Translating, NEW u \in User, Enqueue(u)
    PROVE  Translating'
<1>1. \A a \in Advice : Good(a, row'[a])
  <2> SUFFICES ASSUME NEW a \in Advice PROVE Good(a, row'[a])
    OBVIOUS
  <2>1. Good(a, row[a])
    BY DEF Translating, RowsAreGood
  <2>2. CASE Reads(u) /\ owner[a] = u /\ Visible(a)
    <3>1. Good(a, Upserted(a, advice[a]))
      BY <2>1, <2>2, UpsertedIsGood DEF Translating
    <3> QED BY <2>2, <3>1 DEF Enqueue
  <2>3. CASE ~(Reads(u) /\ owner[a] = u /\ Visible(a))
    BY <2>1, <2>3 DEF Enqueue
  <2> QED BY <2>2, <2>3
<1>2. row' \in [Advice -> Rows]
  <2>1. \A a \in Advice : row'[a] \in Rows
    BY <1>1 DEF Good
  <2> QED BY <2>1 DEF Enqueue
<1>3. asked' \subseteq User /\ work' \in [Worker -> Task \cup {Idle}]
  BY DEF Enqueue, Translating, TypesHold
<1> QED BY <1>1, <1>2, <1>3, Rewriting DEF Enqueue

\* A new advice is a first text, of which there can be no row.
LEMMA InsertTranslates ==
    ASSUME Translating, NEW a \in Advice, NEW english \in BOOLEAN,
           NEW status \in {"visible", "provisional"}, Insert(a, english, status)
    PROVE  Translating'
<1> DEFINE text == [status |-> status, v |-> 1, english |-> english]
<1>1. text \in Written
  BY DEF Written
<1>2. advice[a].status = "none" /\ advice[a].v = 0
  BY DEF Insert, Translating, TextsAreNumbered
<1>3. ~Visible(a) /\ Good(a, row[a])
  BY <1>2 DEF Visible, Translating, RowsAreGood
<1>4. row[a] = NoRow /\ Paid(a) = 0
  <2>1. row[a] = NoRow
    BY <1>3 DEF Good, Fits
  <2> QED BY <1>3, <2>1, PaidIsANumber DEF Good, Tried, Translating
<1>5. made[a] = 0
  <2>1. made[a] \in Nat /\ Cardinality(Claimants(a)) \in Nat
    BY ClaimantsAreFinite DEF Translating, TypesHold
  <2> QED BY <1>4, <2>1 DEF Paid
<1>6. advice' = [advice EXCEPT ![a] = text] /\ row' = row /\ work' = work /\ made' = made
      /\ usage' = usage /\ owner' = owner /\ asked' = asked
  BY DEF Insert
<1> HIDE DEF text
<1>7. text.v = advice[a].v + 1 /\ text.status = status
  BY <1>2 DEF text
<1>8. /\ TextsAreNumbered' /\ WorkIsOnTexts' /\ RowsAreGood' /\ EnglishIsFree'
      /\ advice' \in [Advice -> Written]
  BY <1>1, <1>4, <1>5, <1>6, <1>7, NewText
<1>9. TypesHold'
  BY <1>6, <1>8 DEF Translating, TypesHold
<1> QED BY <1>6, <1>8, <1>9, BudgetsStay DEF Translating

\* A promotion is a new text of what had no row.
LEMMA PromoteTranslates ==
    ASSUME Translating, NEW a \in Advice, NEW english \in BOOLEAN, Promote(a, english)
    PROVE  Translating'
<1> DEFINE text == Text(a, english)
<1>1. advice[a] \in Written /\ made \in [Advice -> Nat]
  BY DEF Translating, TypesHold
<1>2. /\ text \in Written /\ text.v = advice[a].v + 1 /\ text.status = "visible"
  BY <1>1 DEF Text, Written
<1>3. advice' = [advice EXCEPT ![a] = text] /\ row' = row /\ work' = work
      /\ made' = [made EXCEPT ![a] = 0] /\ usage' = usage /\ owner' = owner /\ asked' = asked
  BY DEF Promote
<1>4. made'[a] = 0 /\ (\A b \in Advice : b # a => made'[b] = made[b])
      /\ made' \in [Advice -> Nat]
  BY <1>1, <1>3
<1> HIDE DEF text
<1>5. /\ TextsAreNumbered' /\ WorkIsOnTexts' /\ RowsAreGood' /\ EnglishIsFree'
      /\ advice' \in [Advice -> Written]
  BY <1>2, <1>3, <1>4, NewText
<1>6. TypesHold'
  BY <1>3, <1>4, <1>5 DEF Translating, TypesHold
<1> QED BY <1>3, <1>5, <1>6, BudgetsStay DEF Translating

\* A refinement is a new text, whose row is fresh, missing or stale.
LEMMA RefineTranslates ==
    ASSUME Translating, NEW a \in Advice, NEW english \in BOOLEAN, Refine(a, english)
    PROVE  Translating'
<1> DEFINE text == Text(a, english)
<1>1. advice[a] \in Written /\ made \in [Advice -> Nat] /\ row \in [Advice -> Rows]
  BY DEF Translating, TypesHold
<1>2. /\ text \in Written /\ text.v = advice[a].v + 1 /\ text.status = "visible"
  BY <1>1 DEF Text, Written
<1>3. advice' = [advice EXCEPT ![a] = text] /\ work' = work
      /\ made' = [made EXCEPT ![a] = 0] /\ usage' = usage /\ owner' = owner /\ asked' = asked
      /\ row' = IF Reads(owner[a]) THEN [row EXCEPT ![a] = Upserted(a, text)] ELSE row
  BY DEF Refine
<1>4. made'[a] = 0 /\ (\A b \in Advice : b # a => made'[b] = made[b])
      /\ made' \in [Advice -> Nat]
  BY <1>1, <1>3
<1>5. Upserted(a, text) \in {NoRow, Fresh(text.v), row[a]}
  BY DEF Upserted
<1>6. row'[a] \in {NoRow, Fresh(text.v), row[a]} /\ (\A b \in Advice : b # a => row'[b] = row[b])
  BY <1>1, <1>3, <1>5
<1> HIDE DEF text
<1>7. /\ TextsAreNumbered' /\ WorkIsOnTexts' /\ RowsAreGood' /\ EnglishIsFree'
      /\ advice' \in [Advice -> Written] /\ row'[a] \in Rows
  BY <1>2, <1>3, <1>4, <1>6, NewText
<1>8. row' \in [Advice -> Rows]
  <2>1. CASE Reads(owner[a])
    <3>1. row' = [row EXCEPT ![a] = Upserted(a, text)]
      BY <1>3, <2>1
    <3>2. row'[a] = Upserted(a, text)
      BY <1>1, <3>1
    <3> QED BY <1>1, <1>7, <3>1, <3>2
  <2>2. CASE ~Reads(owner[a])
    BY <1>1, <1>3, <2>2
  <2> QED BY <2>1, <2>2
<1>9. TypesHold'
  BY <1>3, <1>4, <1>7, <1>8 DEF Translating, TypesHold
<1> QED BY <1>3, <1>7, <1>9, BudgetsStay DEF Translating

\* What is discarded was never visible, and had no row.
LEMMA DiscardTranslates ==
    ASSUME Translating, NEW a \in Advice, Discard(a)
    PROVE  Translating'
<1>1. advice \in [Advice -> Written] /\ row \in [Advice -> Rows]
  BY DEF Translating, TypesHold
<1>2. advice' = [advice EXCEPT ![a].status = "deleted"] /\ row' = [row EXCEPT ![a] = NoRow]
      /\ work' = work /\ made' = made /\ usage' = usage /\ owner' = owner /\ asked' = asked
  BY DEF Discard
<1>3. /\ advice' \in [Advice -> Written] /\ advice'[a].status = "deleted"
      /\ \A b \in Advice : advice'[b].v = advice[b].v /\ advice'[b].english = advice[b].english
      /\ \A b \in Advice : b # a => advice'[b] = advice[b]
  BY <1>1, <1>2 DEF Written
<1>4. row' \in [Advice -> Rows] /\ row'[a] = NoRow /\ \A b \in Advice : b # a => row'[b] = row[b]
  BY <1>1, <1>2 DEF Rows
<1>5. TypesHold'
  BY <1>2, <1>3, <1>4 DEF Translating, TypesHold
<1>6. TextsAreNumbered'
  BY <1>3 DEF Translating, TextsAreNumbered
<1>7. WorkIsOnTexts'
  <2> SUFFICES ASSUME NEW w \in Worker, work[w] # Idle
               PROVE  work[w].source \in 1..advice'[work[w].advice].v
    BY <1>2 DEF WorkIsOnTexts
  <2>1. work[w].advice \in Advice
    BY DEF Translating, TypesHold, Task
  <2> QED BY <1>3, <2>1 DEF Translating, WorkIsOnTexts
<1>8. ASSUME NEW b \in Advice PROVE Paid(b)' = Paid(b)
  <2>1. Claimants(b)' = Claimants(b)
    BY <1>2, <1>3 DEF Claimants
  <2> QED BY <1>2, <2>1 DEF Paid
<1>9. Paid(a) = 0
  <2>1. advice[a].status = "provisional"
    BY DEF Discard
  <2>2. row[a] = NoRow /\ Good(a, row[a])
    BY <2>1 DEF Translating, RowsAreGood, Good, Fits, Visible
  <2> QED BY <2>2, PaidIsANumber DEF Good, Tried, Translating
<1>10. RowsAreGood'
  <2> SUFFICES ASSUME NEW b \in Advice PROVE Good(b, row[b])'
    BY DEF RowsAreGood
  <2>1. CASE b = a
    BY <1>4, <1>8, <1>9, <2>1 DEF Good, Rows, Fits, HeldTruly, Tried, NoRow
  <2>2. CASE b # a
    <3>1. Good(b, row[b]) /\ row'[b] = row[b] /\ advice'[b] = advice[b]
      BY <1>3, <1>4, <2>2 DEF Translating, RowsAreGood
    <3>2. Fits(b, row[b])'
      BY <3>1 DEF Good, Fits, Visible
    <3>3. HeldTruly(b, row[b])'
      BY <1>2, <3>1 DEF Good, HeldTruly
    <3>4. Tried(b, row[b])' = Tried(b, row[b])
      BY <3>1 DEF Tried
    <3> QED BY <1>8, <3>1, <3>2, <3>3, <3>4 DEF Good
  <2> QED BY <2>1, <2>2
<1>11. EnglishIsFree'
  BY <1>3, <1>8 DEF Translating, EnglishIsFree
<1> QED BY <1>2, <1>5, <1>6, <1>7, <1>10, <1>11, BudgetsStay DEF Translating

\* A drain leaves rows good, whether it hands one out or not.
LEMMA ClaimTranslates ==
    ASSUME Translating, NEW w \in Worker, Claim(w)
    PROVE  Translating'
<1> DEFINE recovered == [a \in Advice |-> Recovered(row[a])]
           ready == [a \in Advice |-> Exhausted(recovered[a])]
<1>1. /\ work[w] = Idle /\ owner' = owner /\ asked' = asked /\ advice' = advice
      /\ usage' = usage /\ made' = made
  BY DEF Claim
<1>2. /\ TypesHold /\ work \in [Worker -> Task \cup {Idle}] /\ asked' \subseteq User
      /\ \A o \in Worker : work[o] \in {work[o], Idle}
  BY <1>1 DEF Translating, TypesHold
<1>3. \A a \in Advice : Good(a, recovered[a]) /\ Good(a, ready[a])
  BY ReadyIsGood DEF Translating, RowsAreGood
<1>4. CASE due /\ row' = recovered /\ work' = work
  <2>1. recovered \in [Advice -> Rows]
    BY <1>3 DEF Good
  <2> HIDE DEF recovered
  <2> QED BY <1>1, <1>2, <1>3, <1>4, <2>1, Rewriting
<1>5. ASSUME NEW seen \in SUBSET (Candidates(ready) \ Claimable(ready))
      PROVE  /\ \A a \in Advice : Good(a, Passed(ready, seen)[a])
             /\ Passed(ready, seen) \in [Advice -> Rows]
  <2>1. \A a \in Advice : Good(a, Passed(ready, seen)[a])
    <3> HIDE DEF ready
    <3> QED BY <1>2, <1>3, PassedIsGood DEF Translating
  <2>2. \A a \in Advice : Passed(ready, seen)[a] \in Rows
    BY <2>1 DEF Good
  <2> QED BY <2>1, <2>2 DEF Passed
<1>6. ASSUME NEW seen \in SUBSET (Candidates(ready) \ Claimable(ready)),
             row' = Passed(ready, seen), work' = work
      PROVE  Translating'
  <2> DEFINE after == Passed(ready, seen)
  <2>1. (\A a \in Advice : Good(a, after[a])) /\ after \in [Advice -> Rows] /\ row' = after
    BY <1>5, <1>6
  <2> HIDE DEF after
  <2> QED BY <1>1, <1>2, <1>6, <2>1, Rewriting
<1>7. ASSUME NEW seen \in SUBSET (Candidates(ready) \ Claimable(ready)),
             NEW a \in Claimable(Passed(ready, seen)),
             row' = [Passed(ready, seen) EXCEPT ![a] = HandedOut(@, w)],
             work' = [work EXCEPT ![w] =
                         [step |-> "claimed", advice |-> a, source |-> advice[a].v,
                          attempt |-> Passed(ready, seen)[a].attempts + 1]]
      PROVE  Translating'
  <2> DEFINE after == Passed(ready, seen)
  <2>1. (\A b \in Advice : Good(b, after[b])) /\ after \in [Advice -> Rows]
    BY <1>5
  <2>2. /\ a \in Advice /\ after[a].status = "pending" /\ after[a].attempts < MaxAttempts
        /\ Visible(a) /\ ~advice[a].english /\ after[a].source = advice[a].v
    BY <1>7 DEF Claimable, Candidates
  <2>3. work' = [work EXCEPT ![w] =
                    [step |-> "claimed", advice |-> a, source |-> advice[a].v,
                     attempt |-> after[a].attempts + 1]]
    BY <1>7
  <2>4. row' = [after EXCEPT ![a] = HandedOut(after[a], w)]
    BY <1>7
  <2> HIDE DEF after
  <2>5. after[a] # NoRow
    BY <2>2 DEF NoRow
  <2>6. \A b \in Advice : row'[b] = IF b = a THEN HandedOut(after[a], w) ELSE after[b]
    BY <2>1, <2>2, <2>4
  <2>7. /\ TextsAreNumbered' /\ WorkIsOnTexts' /\ RowsAreGood' /\ EnglishIsFree'
        /\ row'[a] \in Rows /\ work' \in [Worker -> Task \cup {Idle}]
    BY <1>1, <2>1, <2>2, <2>3, <2>5, <2>6, HandingOut
  <2>8. row' \in [Advice -> Rows]
    <3>1. row'[a] = HandedOut(after[a], w)
      BY <2>2, <2>6
    <3> QED BY <2>1, <2>2, <2>4, <2>7, <3>1
  <2>9. TypesHold'
    BY <1>1, <2>7, <2>8 DEF Translating, TypesHold
  <2> QED BY <1>1, <2>7, <2>9, BudgetsStay DEF Translating
<1> QED BY <1>4, <1>6, <1>7 DEF Claim

\* A call is charged to the user and to the text while it is still within both shares.
LEMMA ReserveTranslates ==
    ASSUME Translating, NEW w \in Worker, Reserve(w)
    PROVE  Translating'
<1> DEFINE a == work[w].advice
           u == owner[a]
<1>1. /\ work \in [Worker -> Task \cup {Idle}] /\ made \in [Advice -> Nat]
      /\ usage \in [User -> Calls] /\ owner \in [Advice -> User]
  BY DEF Translating, TypesHold
<1>2. work[w].step = "claimed" /\ work[w] # Idle
  BY DEF Reserve, Idle
<1>3. work[w] \in Task /\ a \in Advice /\ u \in User
  BY <1>1, <1>2 DEF Task
<1>4. /\ ~Refused(u) /\ usage' = [usage EXCEPT ![u] = Append(usage[u], Day)]
      /\ made' = IF work[w].source = advice[a].v THEN [made EXCEPT ![a] = @ + 1] ELSE made
      /\ work' = [work EXCEPT ![w].step = "called"]
      /\ owner' = owner /\ asked' = asked /\ advice' = advice /\ row' = row
  BY DEF Reserve
<1>5. /\ work' \in [Worker -> Task \cup {Idle}]
      /\ \A o \in Worker : o # w => work'[o] = work[o]
      /\ work'[w].step = "called" /\ work'[w].advice = a
      /\ work'[w].source = work[w].source /\ work'[w].attempt = work[w].attempt
      /\ work'[w] # Idle
  BY <1>1, <1>3, <1>4 DEF Task, Idle
<1>6. BudgetsHold' /\ usage' \in [User -> Calls]
  <2>1. Len(usage[u]) < DailyLimit /\ usage[u] \in Calls /\ Ordered(usage[u])
    BY <1>1, <1>3, <1>4, NoWaitMeansRoom DEF Translating, BudgetsHold
  <2>2. /\ Append(usage[u], Day) \in Calls /\ Ordered(Append(usage[u], Day))
        /\ Len(Append(usage[u], Day)) = Len(usage[u]) + 1
    BY <2>1, AppendedInOrder
  <2>3. usage'[u] = Append(usage[u], Day) /\ \A v \in User : v # u => usage'[v] = usage[v]
    BY <1>1, <1>3, <1>4
  <2>4. Len(usage[u]) \in Nat /\ DailyLimit \in Nat
    BY <2>1, CallsCount, LimitAssumption
  <2>5. Len(usage'[u]) <= DailyLimit /\ Ordered(usage'[u])
    BY <2>1, <2>2, <2>3, <2>4
  <2>6. BudgetsHold'
    <3> SUFFICES ASSUME NEW v \in User PROVE Len(usage'[v]) <= DailyLimit /\ Ordered(usage'[v])
      BY DEF BudgetsHold, Ordered
    <3> QED BY <2>3, <2>5 DEF Translating, BudgetsHold
  <2> QED BY <1>1, <1>3, <1>4, <2>2, <2>6
<1>7. TypesHold'
  <2>1. made' \in [Advice -> Nat]
    BY <1>1, <1>3, <1>4
  <2> QED BY <1>4, <1>5, <1>6, <2>1 DEF Translating, TypesHold
<1>8. TextsAreNumbered'
  BY <1>4 DEF Translating, TextsAreNumbered
<1>9. WorkIsOnTexts'
  <2>1. work[w].source \in 1..advice[a].v
    BY <1>2 DEF Translating, WorkIsOnTexts
  <2> QED BY <1>4, <1>5, <2>1 DEF Translating, WorkIsOnTexts
<1>10. ASSUME NEW b \in Advice PROVE Paid(b)' = Paid(b)
  <2>1. \A o \in Worker : o # w => (o \in Claimants(b)' <=> o \in Claimants(b))
    BY <1>4, <1>5 DEF Claimants
  <2>2. w \notin Claimants(b)'
    BY <1>5 DEF Claimants
  <2>3. CASE b = a /\ work[w].source = advice[a].v
    <3>1. w \in Claimants(b)
      BY <1>2, <2>3 DEF Claimants
    <3>2. Claimants(b)' = Claimants(b) \ {w}
      BY <2>1, <2>2 DEF Claimants
    <3>3. IsFiniteSet(Claimants(b)) /\ Cardinality(Claimants(b)) \in Nat
      BY ClaimantsAreFinite
    <3>4. Cardinality(Claimants(b)') = Cardinality(Claimants(b)) - 1
      BY <3>1, <3>2, <3>3, FS_RemoveElement
    <3>5. made'[b] = made[b] + 1 /\ made[b] \in Nat
      BY <1>1, <1>3, <1>4, <2>3
    <3> QED BY <3>3, <3>4, <3>5 DEF Paid
  <2>4. CASE ~(b = a /\ work[w].source = advice[a].v)
    <3>1. w \notin Claimants(b)
      BY <2>4 DEF Claimants
    <3>2. Claimants(b)' = Claimants(b)
      BY <2>1, <2>2, <3>1 DEF Claimants
    <3>3. made'[b] = made[b]
      BY <1>1, <1>3, <1>4, <2>4
    <3> QED BY <3>2, <3>3 DEF Paid
  <2> QED BY <2>3, <2>4
<1>11. RowsAreGood'
  <2> SUFFICES ASSUME NEW b \in Advice PROVE Good(b, row[b])'
    BY DEF RowsAreGood
  <2>1. Good(b, row[b]) /\ row'[b] = row[b]
    BY <1>4 DEF Translating, RowsAreGood
  <2>2. Fits(b, row[b])'
    BY <1>4, <2>1 DEF Good, Fits, Visible
  <2>3. HeldTruly(b, row[b])'
    BY <1>2, <1>5, <2>1 DEF Good, HeldTruly
  <2>4. Tried(b, row[b])' = Tried(b, row[b])
    BY <1>4, <2>1 DEF Tried
  <2> QED BY <1>10, <2>1, <2>2, <2>3, <2>4 DEF Good
<1>12. EnglishIsFree'
  BY <1>4, <1>10 DEF Translating, EnglishIsFree
<1> QED BY <1>6, <1>7, <1>8, <1>9, <1>11, <1>12 DEF Translating

\* A translation is filed with the row its worker holds; a row of an older text is renewed.
LEMMA CompleteTranslates ==
    ASSUME Translating, NEW w \in Worker, Complete(w)
    PROVE  Translating'
<1> DEFINE a == work[w].advice
           v == work[w].source
           filed == [row[a] EXCEPT !.status = "ready", !.text = v, !.wait = 0, !.lease = 0,
                                   !.by = Nobody]
<1>1. /\ work \in [Worker -> Task \cup {Idle}] /\ row \in [Advice -> Rows]
      /\ advice \in [Advice -> Written]
  BY DEF Translating, TypesHold
<1>2. work[w] # Idle /\ work[w] \in Task
  BY <1>1 DEF Complete, Idle
<1>3. a \in Advice /\ v \in Nat
  BY <1>2 DEF Task
<1>4. work' = [work EXCEPT ![w] = Idle] /\ owner' = owner /\ asked' = asked
      /\ advice' = advice /\ usage' = usage /\ made' = made
  BY DEF Complete, Done
<1>5. \/ row' = row
      \/ /\ Visible(a) /\ advice[a].v # v /\ row[a].status = "running" /\ row[a].by = w
         /\ row' = [row EXCEPT ![a] = Fresh(advice[a].v)]
      \/ Holds(w) /\ row' = [row EXCEPT ![a] = filed]
  BY DEF Complete
<1>6. Good(a, row[a])
  BY <1>3 DEF Translating, RowsAreGood
<1>7. CASE row' = row
  BY <1>1, <1>4, <1>7, Leaving DEF Translating, TypesHold
<1>8. ASSUME NEW r, Good(a, r), row' = [row EXCEPT ![a] = r]
      PROVE  Translating'
  <2>1. r \in Rows
    BY <1>8 DEF Good
  <2>2. row' \in [Advice -> Rows] /\ row'[a] = r /\ \A b \in Advice : b # a => row'[b] = row[b]
    BY <1>1, <1>3, <1>8, <2>1
  <2>3. \A b \in Advice : Good(b, row'[b])
    BY <1>8, <2>2 DEF Translating, RowsAreGood
  <2>4. /\ work' \in [Worker -> Task \cup {Idle}] /\ \A o \in Worker : work'[o] \in {work[o], Idle}
        /\ asked' \subseteq User
    BY <1>1, <1>4 DEF Translating, TypesHold
  <2> QED BY <1>4, <2>2, <2>3, <2>4, Rewriting
<1>9. CASE Visible(a) /\ advice[a].v # v /\ row[a].status = "running" /\ row[a].by = w
           /\ row' = [row EXCEPT ![a] = Fresh(advice[a].v)]
  <2>1. row[a].source = v
    BY <1>2, <1>6, <1>9 DEF Good, HeldTruly
  <2>2. Paid(a) = 0
    BY <1>3, <1>6, <1>9, <2>1, PaidIsANumber DEF Good, Tried, Translating
  <2>3. Good(a, Fresh(advice[a].v))
    BY <1>3, <1>9, <2>2, NothingPaid DEF Translating
  <2> QED BY <1>8, <1>9, <2>3
<1>10. CASE Holds(w) /\ row' = [row EXCEPT ![a] = filed]
  <2>1. row[a].status = "running" /\ row[a].by = w /\ row[a].source = v
    BY <1>10 DEF Holds
  <2>2. row[a] # NoRow /\ row[a] \in Row
    BY <1>6, <2>1 DEF NoRow, Good, Rows
  <2>3. filed \in Row
    BY <1>3, <2>2 DEF Row
  <2>4. filed.source = row[a].source /\ filed.attempts = row[a].attempts
        /\ filed.status = "ready" /\ filed.by = Nobody /\ filed.text = v
    BY <2>2 DEF Row
  <2>5. Succeeds(row[a], filed)
    BY <2>1, <2>2, <2>3, <2>4 DEF Succeeds
  <2>6. Good(a, filed)
    BY <1>6, <2>5, LaterIsGood
  <2> HIDE DEF filed
  <2> QED BY <1>8, <1>10, <2>6
<1> QED BY <1>5, <1>7, <1>9, <1>10

\* A failure puts off or gives up the row its worker holds, and no other.
LEMMA FailTranslates ==
    ASSUME Translating, NEW w \in Worker, Fail(w)
    PROVE  Translating'
<1> DEFINE a == work[w].advice
<1>1. /\ work \in [Worker -> Task \cup {Idle}] /\ row \in [Advice -> Rows]
      /\ owner \in [Advice -> User] /\ usage \in [User -> Calls]
  BY DEF Translating, TypesHold
<1>2. work[w] # Idle /\ work[w] \in Task
  BY <1>1 DEF Fail
<1>3. a \in Advice /\ work[w].attempt \in Nat \ {0} /\ owner[a] \in User
  BY <1>1, <1>2 DEF Task
<1>4. work' = [work EXCEPT ![w] = Idle] /\ owner' = owner /\ asked' = asked
      /\ advice' = advice /\ usage' = usage /\ made' = made
  BY DEF Fail, Done
<1>5. PICK retryable \in BOOLEAN, after \in Nat : row' = Failed(w, retryable, after)
  <2>1. CASE row' = Failed(w, TRUE, Wait(owner[a]))
    <3>1. Wait(owner[a]) \in Nat
      <4> DEFINE calls == usage[owner[a]]
      <4>1. calls \in Calls
        BY <1>1, <1>3
      <4>2. Len(calls) \in Nat /\ \A i \in 1..Len(calls) : calls[i] \in 1..Day
        BY <4>1, CallsCount
      <4>3. CASE Len(calls) < DailyLimit
        BY <4>3 DEF Wait
      <4>4. CASE ~(Len(calls) < DailyLimit)
        <5>1. Len(calls) + 1 - DailyLimit \in 1..Len(calls)
          BY <4>2, <4>4, LimitAssumption
        <5>2. Wait(owner[a]) = calls[Len(calls) + 1 - DailyLimit]
          BY <4>4 DEF Wait
        <5>3. Wait(owner[a]) \in 1..Day
          BY <4>2, <5>1, <5>2
        <5> QED BY <5>3, LimitAssumption
      <4> QED BY <4>3, <4>4
    <3> QED BY <2>1, <3>1
  <2>2. CASE \E retryable \in BOOLEAN, after \in RetryAfter : row' = Failed(w, retryable, after)
    BY <2>2, LimitAssumption
  <2> QED BY <2>1, <2>2 DEF Fail
<1> DEFINE retry == retryable /\ work[w].attempt < MaxAttempts
           s == [row[a] EXCEPT !.status = IF retry THEN "pending" ELSE "unavailable",
                               !.wait = Delay(w, after), !.text = 0, !.lease = 0, !.by = Nobody]
<1>6. CASE row' = row
  BY <1>1, <1>4, <1>6, Leaving DEF Translating, TypesHold
<1>7. CASE Holds(w) /\ row' = [row EXCEPT ![a] = s]
  <2>1. row[a].status = "running" /\ Good(a, row[a])
    BY <1>3, <1>7 DEF Holds, Translating, RowsAreGood
  <2>2. row[a] # NoRow /\ row[a] \in Row
    BY <2>1 DEF NoRow, Good, Rows
  <2>3. Delay(w, after) \in Nat
    BY <1>3 DEF Delay, Later
  <2>4. s \in Row
    BY <2>2, <2>3 DEF Row
  <2>5. /\ s.source = row[a].source /\ s.attempts = row[a].attempts
        /\ s.status \in {"pending", "unavailable"} /\ s.by = Nobody
    BY <2>2 DEF Row
  <2> HIDE DEF s
  <2>6. Succeeds(row[a], s)
    BY <2>2, <2>4, <2>5 DEF Succeeds
  <2>7. Good(a, s)
    BY <2>1, <2>6, LaterIsGood
  <2>8. row' \in [Advice -> Rows] /\ row'[a] = s /\ \A b \in Advice : b # a => row'[b] = row[b]
    BY <1>1, <1>3, <1>7, <2>4 DEF Rows
  <2>9. \A b \in Advice : Good(b, row'[b])
    BY <2>7, <2>8 DEF Translating, RowsAreGood
  <2>10. /\ work' \in [Worker -> Task \cup {Idle}]
         /\ \A o \in Worker : work'[o] \in {work[o], Idle}
         /\ asked' \subseteq User
    BY <1>1, <1>4 DEF Translating, TypesHold
  <2> QED BY <1>4, <2>8, <2>9, <2>10, Rewriting
<1> QED BY <1>5, <1>6, <1>7 DEF Failed

\* A crash ends the work of a process, and asks for everybody's history.
LEMMA CrashTranslates ==
    ASSUME Translating, NEW w \in Worker, Crash(w)
    PROVE  Translating'
<1>1. /\ work' = [work EXCEPT ![w] = Idle] /\ owner' = owner /\ advice' = advice
      /\ row' = row /\ usage' = usage /\ made' = made
      /\ asked' = asked \cup {u \in User : Reads(u)}
  BY DEF Crash
<1>2. work \in [Worker -> Task \cup {Idle}] /\ asked \subseteq User
  BY DEF Translating, TypesHold
<1> QED BY <1>1, <1>2, Leaving

\* As time passes leases and waits run out, and calls count no more.
LEMMA TickTranslates ==
    ASSUME Translating, Tick
    PROVE  Translating'
<1>1. /\ owner' = owner /\ asked' = asked /\ advice' = advice /\ work' = work /\ made' = made
      /\ row' = [a \in Advice |-> IF row[a] = NoRow THEN NoRow
                                  ELSE [row[a] EXCEPT !.wait = Less(@, 1), !.lease = Less(@, 1)]]
      /\ usage' = [u \in User |-> Aged(usage[u])]
  BY DEF Tick
<1>2. ASSUME NEW a \in Advice PROVE Good(a, row'[a])
  <2>1. Good(a, row[a])
    BY DEF Translating, RowsAreGood
  <2>2. CASE row[a] = NoRow
    BY <1>1, <2>1, <2>2
  <2>3. CASE row[a] # NoRow
    <3> DEFINE s == [row[a] EXCEPT !.wait = Less(@, 1), !.lease = Less(@, 1)]
    <3>1. row[a] \in Row /\ Succeeds(row[a], row[a])
      BY <2>1, <2>3, GoodIsLater DEF Good, Rows
    <3>2. \A n \in Nat : Less(n, 1) \in Nat
      BY DEF Less
    <3>3. s \in Row
      BY <3>1, <3>2 DEF Row
    <3>4. /\ s.source = row[a].source /\ s.attempts = row[a].attempts
          /\ s.status = row[a].status /\ s.by = row[a].by /\ s.text = row[a].text
      BY <3>1 DEF Row
    <3> HIDE DEF s
    <3>5. Succeeds(row[a], s)
      BY <3>1, <3>3, <3>4 DEF Succeeds
    <3>6. row'[a] = s
      BY <1>1, <2>3 DEF s
    <3> QED BY <2>1, <3>5, <3>6, LaterIsGood
  <2> QED BY <2>2, <2>3
<1>3. row' \in [Advice -> Rows]
  <2>1. \A a \in Advice : row'[a] \in Rows
    BY <1>2 DEF Good
  <2> QED BY <1>1, <2>1
<1>4. BudgetsHold' /\ usage' \in [User -> Calls]
  <2>1. ASSUME NEW u \in User
        PROVE  usage'[u] \in Calls /\ Ordered(usage'[u]) /\ Len(usage'[u]) <= DailyLimit
    <3>1. usage[u] \in Calls /\ Ordered(usage[u]) /\ Len(usage[u]) <= DailyLimit
      BY DEF Translating, TypesHold, BudgetsHold
    <3>2. Aged(usage[u]) \in Calls /\ Ordered(Aged(usage[u]))
          /\ Len(Aged(usage[u])) <= Len(usage[u])
      BY <3>1, AgedInOrder
    <3>3. Len(usage[u]) \in Nat /\ Len(Aged(usage[u])) \in Nat
      BY <3>1, <3>2, CallsCount
    <3>4. usage'[u] = Aged(usage[u])
      BY <1>1
    <3> QED BY <3>1, <3>2, <3>3, <3>4, LimitAssumption
  <2>2. BudgetsHold'
    BY <2>1 DEF BudgetsHold, Ordered
  <2> QED BY <1>1, <2>1, <2>2
<1>5. TypesHold'
  BY <1>1, <1>3, <1>4 DEF Translating, TypesHold
<1>6. \A w \in Worker : work'[w] \in {work[w], Idle}
  BY <1>1
<1>7. TextsAreNumbered' /\ WorkIsOnTexts' /\ RowsAreGood' /\ EnglishIsFree'
  BY <1>1, <1>2, <1>6, LeavingWork
<1> QED BY <1>4, <1>5, <1>7 DEF Translating

-----------------------------------------------------------------------------
(* The theorems.                                                           *)

\* A step of the queue, of its workers or of the world around it.
LEMMA StepsTranslate ==
    ASSUME Translating, [Next]_vars
    PROVE  Translating'
<1>1. CASE UNCHANGED vars
  <2>1. /\ owner' = owner /\ asked' = asked /\ advice' = advice /\ row' = row /\ usage' = usage
        /\ work' = work /\ made' = made
    BY <1>1 DEF vars
  <2>2. work' \in [Worker -> Task \cup {Idle}] /\ asked' \subseteq User
    BY <2>1 DEF Translating, TypesHold
  <2> QED BY <2>1, <2>2, Leaving
<1>2. CASE \E u \in User, l \in {"zh-CN", "en-US"} : SetLocale(u, l)
  BY <1>2, SetLocaleTranslates
<1>3. CASE \E u \in User : Enqueue(u)
  BY <1>3, EnqueueTranslates
<1>4. ASSUME NEW a \in Advice, NEW english \in BOOLEAN,
             \/ \E status \in {"visible", "provisional"} : Insert(a, english, status)
             \/ Promote(a, english)
             \/ Refine(a, english)
      PROVE  Translating'
  BY <1>4, InsertTranslates, PromoteTranslates, RefineTranslates
<1>5. CASE \E a \in Advice : Discard(a)
  BY <1>5, DiscardTranslates
<1>6. ASSUME NEW w \in Worker,
             \/ Claim(w) \/ Reserve(w) \/ Complete(w) \/ Fail(w)
             \/ Crash(w) \/ AnalysisTakes(w) \/ AnalysisEnds(w)
      PROVE  Translating'
  <2>1. CASE AnalysisTakes(w)
    BY <2>1, Leaving DEF AnalysisTakes, Translating, TypesHold
  <2>2. CASE AnalysisEnds(w)
    BY <2>2, Leaving DEF AnalysisEnds, Translating, TypesHold
  <2> QED BY <1>6, <2>1, <2>2, ClaimTranslates, ReserveTranslates, CompleteTranslates,
             FailTranslates, CrashTranslates
<1>7. CASE AnalysisArrives
  BY <1>7, Leaving DEF AnalysisArrives, Translating, TypesHold
<1>8. CASE Tick
  BY <1>8, TickTranslates
<1> QED BY <1>1, <1>2, <1>3, <1>4, <1>5, <1>6, <1>7, <1>8 DEF Next

\* The translations are faithful wherever the invariant holds.
LEMMA TranslatingIsFaithful ==
    ASSUME Translating
    PROVE  TranslationsAreFaithful
<1>1. ASSUME NEW a \in Advice
      PROVE  /\ row[a] \in Rows /\ Fits(a, row[a]) /\ HeldTruly(a, row[a])
             /\ Paid(a) <= Tried(a, row[a])
  BY DEF Translating, RowsAreGood, Good
<1>2. TypeOK
  <2>1. ASSUME NEW a \in Advice, row[a] # NoRow
        PROVE  /\ row[a].status \in {"pending", "running", "ready", "unavailable"}
               /\ row[a].source \in 1..advice[a].v
               /\ row[a].attempts \in 0..MaxAttempts
               /\ row[a].status = "running" <=> row[a].by # Nobody
    BY <1>1, <2>1 DEF Rows, Row, Fits
  <2>2. ASSUME NEW w \in Worker, work[w] # Idle PROVE work[w].advice \in Advice
    BY <2>2 DEF Translating, TypesHold, Task
  <2>3. asked \subseteq User
    BY DEF Translating, TypesHold
  <2> QED BY <2>1, <2>2, <2>3 DEF TypeOK
<1>3. ASSUME NEW a \in Advice PROVE made[a] <= MaxAttempts
  <2>1. Tried(a, row[a]) \in 0..MaxAttempts
    <3>1. row[a] # NoRow => row[a].attempts \in 0..MaxAttempts
      BY <1>1 DEF Rows, Row
    <3> QED BY <3>1, LimitAssumption DEF Tried
  <2>2. made[a] \in Nat /\ Cardinality(Claimants(a)) \in Nat
    BY ClaimantsAreFinite DEF Translating, TypesHold
  <2> QED BY <1>1, <2>1, <2>2, LimitAssumption DEF Paid
<1>4. ASSUME NEW a \in Advice, row[a].status = "ready" PROVE row[a].text = row[a].source
  <2>1. row[a] # NoRow
    BY <1>4 DEF NoRow
  <2> QED BY <1>1, <1>4, <2>1 DEF Fits
<1>5. \A a \in Advice : row[a] # NoRow => Visible(a)
  BY <1>1 DEF Fits
<1>6. \A u \in User : Len(usage[u]) <= DailyLimit
  BY DEF Translating, BudgetsHold
<1> QED BY <1>1, <1>2, <1>3, <1>4, <1>5, <1>6 DEF TranslationsAreFaithful, HeldTruly

\* At every moment rows, work and what was paid agree.
THEOREM QueueStaysInOrder == Spec => []Translating
<1>1. Translating /\ [Next]_vars => Translating'
  BY StepsTranslate
<1> QED BY InitTranslating, <1>1, PTL DEF Spec

\* However workers stall and texts change, a translation is filed under the text it was made
\* from, two workers never hold one row, nothing unreviewed is translated, no text is paid
\* for more often than it may be tried, and no user's translations cost more than the day's
\* share (complete_advice_localization, _advice_localization_daily_limit).
THEOREM TranslationsStayFaithful == Spec => []TranslationsAreFaithful
BY QueueStaysInOrder, TranslatingIsFaithful, PTL
=============================================================================
