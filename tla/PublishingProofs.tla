---------------------------- MODULE PublishingProofs ----------------------------
(***************************************************************************)
(* What holds of advice, answers, mistakes and preferences for every       *)
(* number of evaluations, reviews and settings screens, for all candidates *)
(* and policies.                                                           *)
(***************************************************************************)
EXTENDS Publishing, FiniteSetTheorems, SequenceTheorems, TLAPS

-----------------------------------------------------------------------------
(* Types.                                                                  *)

Steps == {"filter", "charter", "trust", "freeze", "silence", "preference", "duplicate",
          "insert", "discard", "refine"}

Evaluating ==
    [step : Steps, event : Event, level : Level, cap : Level, redline : BOOLEAN,
     errors : SUBSET Entry, at : Nat, row : 0..MaxRows]

TypesHold ==
    /\ case \in Cases
    /\ now \in Nat \ {0}
    /\ stored \subseteq Event
    /\ queued \subseteq stored
    /\ pref \in [Scope -> Preference]
    /\ page \in [Client -> Page \cup {Nobody}]
    /\ rows \in Seq(AdviceRow)
    /\ Len(rows) <= MaxRows
    /\ ledger \subseteq Entry
    /\ freeze \in [2..4 -> Nat]
    /\ silence \in [Topic -> Nat]
    /\ trust \in [Level -> [good : Nat, bad : Nat]]
    /\ charter \in Charters
    /\ worker \in [Worker -> Evaluating \cup {Idle}]
    /\ judge \in [Client -> Reading \cup {Nobody}]

\* What is under way is about events and rows that are there.
WorkIsKnown ==
    /\ \A w \in Worker :
          worker[w] # Idle =>
              /\ worker[w].event \in stored
              /\ worker[w].errors \subseteq ledger
              /\ worker[w].step \in {"discard", "refine"} => worker[w].row \in 1..Len(rows)
    /\ \A i \in 1..Len(rows) : rows[i].event \in stored /\ rows[i].frozenBy \subseteq ledger
    /\ \A c \in Client : judge[c] # Nobody => judge[c].row \in 1..Len(rows)

\* A preference has no more revisions than it may.
RevisionsAreBounded == \A s \in Scope : pref[s].rev <= case.revisions

Tables == TypesHold /\ WorkIsKnown /\ RevisionsAreBounded

-----------------------------------------------------------------------------
(* Steps of an evaluation and changes of a row.                            *)

\* The step tells an evaluation under way from an idle worker.
LEMMA StepsOfWork ==
    ASSUME TypesHold, NEW w \in Worker
    PROVE  worker[w].step \in Steps <=> worker[w] \in Evaluating /\ worker[w] # Idle
BY DEF TypesHold, Evaluating, Idle, Steps

\* Whoever is at a step is under way.
LEMMA AtWork ==
    ASSUME TypesHold, NEW w \in Worker, NEW step \in Steps, At(w, step)
    PROVE  /\ worker[w] \in Evaluating /\ worker[w] # Idle /\ worker[w].step = step
           /\ worker[w].event \in Event /\ worker[w].level \in Level /\ worker[w].cap \in Level
           /\ worker[w].redline \in BOOLEAN /\ worker[w].errors \in SUBSET Entry
           /\ worker[w].at \in Nat /\ worker[w].row \in 0..MaxRows
BY StepsOfWork DEF At, Evaluating

\* The next step of an evaluation.
LEMMA Stepped ==
    ASSUME TypesHold, NEW w \in Worker, NEW step \in Steps, worker[w] \in Evaluating
    PROVE  /\ [worker[w] EXCEPT !.step = step] \in Evaluating
           /\ [worker[w] EXCEPT !.step = step] # Idle
           /\ [worker[w] EXCEPT !.step = step].step = step
           /\ [worker[w] EXCEPT !.step = step].event = worker[w].event
           /\ [worker[w] EXCEPT !.step = step].level = worker[w].level
           /\ [worker[w] EXCEPT !.step = step].errors = worker[w].errors
           /\ [worker[w] EXCEPT !.step = step].at = worker[w].at
           /\ [worker[w] EXCEPT !.step = step].row = worker[w].row
BY DEF Evaluating, Steps, Idle

\* One worker goes on, the others stay where they are.
LEMMA OneGoes ==
    ASSUME TypesHold, NEW w \in Worker, NEW next \in Evaluating \cup {Idle}, Goes(w, next)
    PROVE  /\ worker' \in [Worker -> Evaluating \cup {Idle}]
           /\ worker'[w] = next
           /\ \A v \in Worker \ {w} : worker'[v] = worker[v]
BY DEF TypesHold, Goes

\* One row is replaced.
LEMMA OneRowChanges ==
    ASSUME TypesHold, NEW i \in 1..Len(rows), NEW r \in AdviceRow,
           rows' = [rows EXCEPT ![i] = r]
    PROVE  /\ rows' \in Seq(AdviceRow)
           /\ Len(rows') = Len(rows)
           /\ rows'[i] = r
           /\ \A j \in 1..Len(rows) : j # i => rows'[j] = rows[j]
BY ExceptSeq DEF TypesHold

\* A row is added.
LEMMA OneRowMore ==
    ASSUME TypesHold, NEW r \in AdviceRow, rows' = Append(rows, r)
    PROVE  /\ rows' \in Seq(AdviceRow)
           /\ Len(rows') = Len(rows) + 1
           /\ rows'[Len(rows) + 1] = r
           /\ \A j \in 1..Len(rows) : rows'[j] = rows[j]
BY DEF TypesHold

\* Rows are well typed.
LEMMA RowTypes ==
    ASSUME TypesHold, NEW i \in 1..Len(rows)
    PROVE  /\ rows[i] \in AdviceRow
           /\ rows[i].event \in Event /\ rows[i].level \in Level
           /\ rows[i].column \in Status /\ rows[i].said \in Status
           /\ rows[i].at \in Nat /\ rows[i].deadline \in Nat
           /\ rows[i].verdict \in {"none", "good", "bad", "unknown"}
           /\ rows[i].frozenBy \in SUBSET Entry /\ rows[i].weighed \in Nat
<1>1. rows[i] \in AdviceRow
  BY ElementOfSeq DEF TypesHold
<1> QED BY <1>1 DEF AdviceRow

\* The sweep withdraws, and changes nothing else about a row.
LEMMA SweptTypes ==
    ASSUME TypesHold
    PROVE  /\ Swept \in Seq(AdviceRow)
           /\ Len(Swept) = Len(rows)
           /\ \A i \in 1..Len(rows) :
                 /\ Swept[i] = Expired(rows[i])
                 /\ Swept[i] \in AdviceRow
                 /\ Swept[i].event = rows[i].event /\ Swept[i].level = rows[i].level
                 /\ Swept[i].at = rows[i].at /\ Swept[i].fb = rows[i].fb
                 /\ Swept[i].verdict = rows[i].verdict /\ Swept[i].readAs = rows[i].readAs
                 /\ Swept[i].deadline = rows[i].deadline
                 /\ Swept[i].frozenBy = rows[i].frozenBy /\ Swept[i].weighed = rows[i].weighed
<1>1. ASSUME NEW r \in AdviceRow
      PROVE  /\ Expired(r) \in AdviceRow
             /\ Expired(r).event = r.event /\ Expired(r).level = r.level
             /\ Expired(r).at = r.at /\ Expired(r).fb = r.fb
             /\ Expired(r).verdict = r.verdict /\ Expired(r).readAs = r.readAs
             /\ Expired(r).deadline = r.deadline
             /\ Expired(r).frozenBy = r.frozenBy /\ Expired(r).weighed = r.weighed
  <2>1. CASE Expired(r) = r
    BY <2>1
  <2>2. CASE Expired(r) = [r EXCEPT !.said = "withdrawn", !.column = "withdrawn"]
    BY <2>2 DEF AdviceRow, Status
  <2>3. CASE Expired(r) = [r EXCEPT !.column = r.said]
    BY <2>3 DEF AdviceRow
  <2> QED BY <2>1, <2>2, <2>3 DEF Expired
<1>2. \A i \in 1..Len(rows) : rows[i] \in AdviceRow
  BY RowTypes
<1>3. Len(rows) \in Nat
  BY LenProperties DEF TypesHold
<1>4. Swept = [i \in 1..Len(rows) |-> Expired(rows[i])]
  BY DEF Swept
<1> HIDE DEF Swept, Expired
<1>5. \A i \in 1..Len(rows) : Expired(rows[i]) \in AdviceRow
  BY <1>1, <1>2
<1>6. Swept \in Seq(AdviceRow) /\ Len(Swept) = Len(rows)
  BY <1>3, <1>4, <1>5
<1>7. \A i \in 1..Len(rows) : Swept[i] = Expired(rows[i])
  BY <1>4
<1> QED BY <1>1, <1>2, <1>6, <1>7

\* The level left by the freezes is below every one of them.
LEMMA AvailableLevel ==
    ASSUME TypesHold, NEW level \in Level
    PROVE  /\ Available(level) \in Level
           /\ Available(level) <= level
           /\ \A l \in 2..Available(level) : freeze[l] <= now
<1>1. freeze \in [2..4 -> Nat] /\ now \in Nat /\ level \in 1..4
  BY DEF TypesHold, Level
<1> DEFINE frozen == {l \in 2..level : freeze[l] > now}
           least == CHOOSE l \in frozen : \A k \in frozen : l <= k
<1>2. Available(level) = IF frozen = {} THEN level ELSE least - 1
  BY DEF Available
<1>3. CASE frozen = {}
  <2>1. \A l \in 2..level : freeze[l] \in Nat
    BY <1>1
  <2>2. \A l \in 2..level : freeze[l] <= now
    BY <1>1, <1>3, <2>1
  <2> QED BY <1>1, <1>2, <1>3, <2>2 DEF Level
<1>4. CASE frozen # {}
  <2>1. \E l \in frozen : \A k \in frozen : l <= k
    <3>1. frozen \subseteq {2, 3, 4}
      BY <1>1
    <3>2. PICK m \in frozen : TRUE
      BY <1>4
    <3> HIDE DEF frozen
    <3>3. m \in {2, 3, 4}
      BY <3>1, <3>2
    <3>4. CASE 2 \in frozen
      <4>1. \A k \in frozen : 2 <= k
        BY <3>1
      <4> QED BY <3>4, <4>1
    <3>5. CASE 2 \notin frozen /\ 3 \in frozen
      <4>1. \A k \in frozen : 3 <= k
        BY <3>1, <3>5
      <4> QED BY <3>5, <4>1
    <3>6. CASE 2 \notin frozen /\ 3 \notin frozen
      <4>1. \A k \in frozen : k = 4
        BY <3>1, <3>6
      <4>2. m = 4
        BY <3>2, <4>1
      <4> QED BY <3>2, <4>1, <4>2
    <3> QED BY <3>4, <3>5, <3>6
  <2>2. least \in frozen /\ \A k \in frozen : least <= k
    BY <2>1
  <2> HIDE DEF least
  <2>3. least \in 2..level
    BY <2>2
  <2>4. ASSUME NEW l \in 2..(least - 1)
        PROVE  freeze[l] <= now
    <3>1. l \in 2..level /\ l < least
      BY <1>1, <2>3, <2>4
    <3>2. l \notin frozen
      BY <1>1, <2>2, <2>3, <3>1
    <3>3. freeze[l] \in Nat
      BY <1>1, <3>1
    <3> QED BY <1>1, <3>1, <3>2, <3>3
  <2> QED BY <1>1, <1>2, <1>4, <2>3, <2>4 DEF Level
<1> QED BY <1>3, <1>4

\* What a worker may go on with.
Fit(next) ==
    /\ next \in Evaluating \cup {Idle}
    /\ next # Idle =>
          /\ next.event \in stored
          /\ next.errors \subseteq ledger
          /\ next.step \in {"discard", "refine"} => next.row \in 1..Len(rows')

\* The tables stay in order when one worker goes on and rows are changed or added.
LEMMA WorkGoesOn ==
    ASSUME Tables, NEW w \in Worker, NEW next, Fit(next), Goes(w, next),
           UNCHANGED <<case, now, stored, settings, books, charter, judge>>,
           queued' \subseteq stored,
           rows' \in Seq(AdviceRow), Len(rows') \in Len(rows)..MaxRows,
           \A i \in 1..Len(rows') : rows'[i].event \in stored /\ rows'[i].frozenBy \subseteq ledger
    PROVE  Tables'
<1>1. TypesHold
  BY DEF Tables
<1>2. /\ worker' \in [Worker -> Evaluating \cup {Idle}]
      /\ worker'[w] = next
      /\ \A v \in Worker \ {w} : worker'[v] = worker[v]
  BY <1>1, OneGoes DEF Fit
<1>3. Len(rows) \in Nat /\ Len(rows') \in Nat /\ MaxRows \in Nat
  BY <1>1, LenProperties, PolicyAssumption DEF TypesHold
<1>4. TypesHold'
  BY <1>1, <1>2, <1>3 DEF TypesHold, settings, books
<1>5. WorkIsKnown'
  <2>1. ASSUME NEW v \in Worker, worker'[v] # Idle
        PROVE  /\ worker'[v].event \in stored
               /\ worker'[v].errors \subseteq ledger
               /\ worker'[v].step \in {"discard", "refine"} => worker'[v].row \in 1..Len(rows')
    <3>1. CASE v = w
      BY <1>2, <2>1, <3>1 DEF Fit
    <3>2. CASE v # w
      <4>1. worker'[v] = worker[v]
        BY <1>2, <3>2
      <4>2. /\ worker[v].event \in stored
            /\ worker[v].errors \subseteq ledger
            /\ worker[v].step \in {"discard", "refine"} => worker[v].row \in 1..Len(rows)
        BY <2>1, <4>1 DEF Tables, WorkIsKnown
      <4>3. 1..Len(rows) \subseteq 1..Len(rows')
        BY <1>3
      <4> QED BY <4>1, <4>2, <4>3
    <3> QED BY <3>1, <3>2
  <2>2. ASSUME NEW c \in Client, judge[c] # Nobody
        PROVE  judge[c].row \in 1..Len(rows')
    <3>1. judge[c].row \in 1..Len(rows)
      BY <2>2 DEF Tables, WorkIsKnown
    <3> QED BY <1>3, <3>1
  <2> QED BY <2>1, <2>2 DEF WorkIsKnown, books
<1>6. RevisionsAreBounded'
  BY DEF Tables, RevisionsAreBounded, settings
<1> QED BY <1>4, <1>5, <1>6 DEF Tables

\* A worker that goes on to another step of the same evaluation.
LEMMA StepFits ==
    ASSUME Tables, NEW w \in Worker, NEW step \in Steps \ {"discard", "refine"},
           worker[w] \in Evaluating, worker[w] # Idle
    PROVE  Fit([worker[w] EXCEPT !.step = step])
BY Stepped DEF Fit, Tables, WorkIsKnown

\* And one that stops.
LEMMA StopFits == Fit(Idle)
BY DEF Fit

\* The same rows.
LEMMA RowsAreKnown ==
    ASSUME Tables
    PROVE  /\ rows \in Seq(AdviceRow) /\ Len(rows) \in Nat /\ Len(rows) <= MaxRows
           /\ Len(rows) \in Len(rows)..MaxRows
           /\ queued \subseteq stored
           /\ \A i \in 1..Len(rows) : rows[i].event \in stored /\ rows[i].frozenBy \subseteq ledger
BY LenProperties, PolicyAssumption DEF Tables, TypesHold, WorkIsKnown

\* The first questions of an evaluation only read.
LEMMA QuestionsKeepTables ==
    ASSUME Tables, NEW w \in Worker,
           \/ Filter(w) \/ AskCharter(w) \/ AskTrust(w) \/ AskFreeze(w) \/ AskSilence(w)
           \/ AskPreference(w)
    PROVE  Tables'
<1>1. TypesHold
  BY DEF Tables
<1>2. ASSUME NEW next, Fit(next), Goes(w, next), UNCHANGED <<reads, rows>>
      PROVE  Tables'
  <2>1. /\ rows' \in Seq(AdviceRow) /\ Len(rows') \in Len(rows)..MaxRows
        /\ queued' \subseteq stored
        /\ \A i \in 1..Len(rows') : rows'[i].event \in stored /\ rows'[i].frozenBy \subseteq ledger
    BY <1>2, RowsAreKnown DEF reads, intake
  <2>2. UNCHANGED <<case, now, stored, settings, books, charter, judge>>
    BY <1>2 DEF reads, intake
  <2> QED BY <1>2, <2>1, <2>2, WorkGoesOn
<1>3. ASSUME NEW step \in Steps \ {"discard", "refine"}, worker[w] \in Evaluating, worker[w] # Idle,
             Asks(w, step) \/ Stops(w), UNCHANGED <<reads, rows>>
      PROVE  Tables'
  BY <1>2, <1>3, StepFits, StopFits DEF Asks, Stops
<1>4. CASE Filter(w)
  BY <1>1, <1>3, <1>4, AtWork DEF Filter, Steps
<1>5. CASE AskCharter(w)
  <2> DEFINE next == [worker[w] EXCEPT !.step = "trust", !.cap = charter.max, !.redline = charter.redline]
  <2>1. worker[w] \in Evaluating /\ worker[w] # Idle
    BY <1>1, <1>5, AtWork DEF AskCharter, Steps
  <2>2. charter.max \in Level /\ charter.redline \in BOOLEAN
    BY <1>1 DEF TypesHold, Charters
  <2>3. next \in Evaluating /\ next.event = worker[w].event /\ next.errors = worker[w].errors
        /\ next.step = "trust"
    BY <2>1, <2>2 DEF Evaluating, Steps
  <2>4. Fit(next)
    BY <2>1, <2>3 DEF Fit, Tables, WorkIsKnown
  <2> QED BY <1>2, <1>5, <2>4 DEF AskCharter
<1>6. CASE AskTrust(w)
  <2> DEFINE up == Ceiling(worker[w].level, worker[w].cap, worker[w].redline)
             next == [worker[w] EXCEPT !.step = "freeze", !.level = Least(worker[w].level, up)]
  <2>1. /\ worker[w] \in Evaluating /\ worker[w] # Idle
        /\ worker[w].level \in Level /\ worker[w].cap \in Level
    BY <1>1, <1>6, AtWork DEF AskTrust, Steps
  <2>2. up \in Level
    <3>1. up \in {4, 3, Least(worker[w].cap, 2)}
      BY DEF Ceiling
    <3> HIDE DEF up
    <3>2. Least(worker[w].cap, 2) \in Level
      BY <2>1 DEF Least, Level
    <3> QED BY <3>1, <3>2 DEF Level
  <2>3. Least(worker[w].level, up) \in Level
    BY <2>1, <2>2 DEF Least
  <2> HIDE DEF up
  <2>4. next \in Evaluating /\ next.event = worker[w].event /\ next.errors = worker[w].errors
        /\ next.step = "freeze"
    BY <2>1, <2>3 DEF Evaluating, Steps
  <2>5. Fit(next)
    BY <2>1, <2>4 DEF Fit, Tables, WorkIsKnown
  <2>6. Goes(w, next)
    BY <1>6, <2>1 DEF AskTrust, up, Goes, Evaluating
  <2> QED BY <1>2, <1>6, <2>5, <2>6 DEF AskTrust
<1>7. CASE AskFreeze(w)
  <2> DEFINE quiet == Available(worker[w].level)
             next == [worker[w] EXCEPT !.step = "silence", !.level = quiet,
                                       !.errors = ledger, !.at = now]
  <2>1. /\ worker[w] \in Evaluating /\ worker[w] # Idle
        /\ worker[w].level \in Level
    BY <1>1, <1>7, AtWork DEF AskFreeze, Steps
  <2>2. quiet \in Level
    BY <1>1, <2>1, AvailableLevel
  <2> HIDE DEF quiet
  <2>3. ledger \in SUBSET Entry /\ now \in Nat
    BY <1>1 DEF TypesHold
  <2>4. next \in Evaluating /\ next.event = worker[w].event /\ next.errors = ledger
        /\ next.step = "silence"
    BY <2>1, <2>2, <2>3 DEF Evaluating, Steps
  <2>5. Fit(next)
    BY <2>1, <2>4 DEF Fit, Tables, WorkIsKnown
  <2>6. Goes(w, next)
    BY <1>7, <2>1 DEF AskFreeze, quiet, Goes, Evaluating
  <2> QED BY <1>2, <1>7, <2>5, <2>6 DEF AskFreeze
<1>8. CASE AskSilence(w)
  BY <1>1, <1>3, <1>8, AtWork DEF AskSilence, Steps
<1>9. CASE AskPreference(w)
  BY <1>1, <1>3, <1>9, AtWork DEF AskPreference, Steps
<1> QED BY <1>4, <1>5, <1>6, <1>7, <1>8, <1>9

\* What a change of a row leaves alone.
Kin(r, old) ==
    /\ r \in AdviceRow
    /\ r.event = old.event /\ r.level = old.level
    /\ r.frozenBy = old.frozenBy /\ r.weighed = old.weighed

\* The rows are known as long as their events are.
LEMMA KinAreKnown ==
    ASSUME Tables, NEW i \in 1..Len(rows), NEW r, Kin(r, rows[i]), rows' = [rows EXCEPT ![i] = r]
    PROVE  /\ rows' \in Seq(AdviceRow) /\ Len(rows') = Len(rows)
           /\ rows'[i] = r /\ \A j \in 1..Len(rows) : j # i => rows'[j] = rows[j]
           /\ Len(rows') \in Len(rows)..MaxRows
           /\ \A j \in 1..Len(rows') : rows'[j].event \in stored /\ rows'[j].frozenBy \subseteq ledger
<1>1. /\ rows' \in Seq(AdviceRow) /\ Len(rows') = Len(rows)
      /\ rows'[i] = r /\ \A j \in 1..Len(rows) : j # i => rows'[j] = rows[j]
  BY OneRowChanges DEF Tables, Kin
<1>2. ASSUME NEW j \in 1..Len(rows)
      PROVE  rows'[j].event \in stored /\ rows'[j].frozenBy \subseteq ledger
  BY <1>1, RowsAreKnown DEF Kin
<1> QED BY <1>1, <1>2, RowsAreKnown

\* A provisional row goes, every other stays.
LEMMA DiscardedRow ==
    ASSUME TypesHold, NEW i \in 1..Len(rows)
    PROVE  IF rows[i].column = "provisional"
           THEN \E r : /\ Kin(r, rows[i]) /\ Discarded(i) = [rows EXCEPT ![i] = r]
                       /\ r.column = "none" /\ r.said = "none" /\ r.at = rows[i].at
                       /\ r.fb = rows[i].fb /\ r.verdict = rows[i].verdict /\ r.readAs = rows[i].readAs
           ELSE Discarded(i) = rows
<1>1. rows[i] \in AdviceRow
  BY RowTypes
<1>2. CASE rows[i].column = "provisional"
  <2> DEFINE r == [rows[i] EXCEPT !.column = "none", !.said = "none"]
  <2>1. /\ Kin(r, rows[i]) /\ r.column = "none" /\ r.said = "none" /\ r.at = rows[i].at
        /\ r.fb = rows[i].fb /\ r.verdict = rows[i].verdict /\ r.readAs = rows[i].readAs
    BY <1>1 DEF Kin, AdviceRow, Status
  <2>2. Discarded(i) = [rows EXCEPT ![i] = r]
    BY <1>1, <1>2 DEF Discarded, AdviceRow
  <2> QED BY <1>2, <2>1, <2>2
<1>3. CASE rows[i].column # "provisional"
  BY <1>3 DEF Discarded
<1> QED BY <1>2, <1>3

\* A provisional row is published or goes.
LEMMA PromotedRow ==
    ASSUME TypesHold, NEW w \in Worker, NEW i \in 1..Len(rows)
    PROVE  \/ Promoted(w, i) = Discarded(i)
           \/ /\ rows[i].column = "provisional" /\ ~Blocked(Of(i), rows[i].level)
              /\ \E r : /\ Kin(r, rows[i]) /\ Promoted(w, i) = [rows EXCEPT ![i] = r]
                        /\ r.column = "active" /\ r.said = "active" /\ r.at = now
                        /\ r.fb = rows[i].fb /\ r.verdict = rows[i].verdict /\ r.readAs = rows[i].readAs
<1>1. rows[i] \in AdviceRow /\ now \in Nat /\ now + Life \in Nat
  BY RowTypes, PolicyAssumption DEF TypesHold
<1> DEFINE r == [rows[i] EXCEPT !.column = "active", !.said = "active", !.at = now,
                               !.deadline = now + Life]
<1>2. /\ Kin(r, rows[i])
      /\ r.column = "active" /\ r.said = "active" /\ r.at = now
      /\ r.fb = rows[i].fb /\ r.verdict = rows[i].verdict /\ r.readAs = rows[i].readAs
  BY <1>1 DEF Kin, AdviceRow, Status
<1>3. CASE rows[i].column # "provisional" \/ Blocked(Of(i), rows[i].level)
  BY <1>3 DEF Promoted
<1>4. CASE ~(rows[i].column # "provisional" \/ Blocked(Of(i), rows[i].level))
  <2>1. Promoted(w, i) = [rows EXCEPT ![i].column = "active", ![i].said = "active", ![i].at = now,
                                      ![i].deadline = now + Life]
    BY <1>4 DEF Promoted
  <2> HIDE DEF Promoted, Blocked, Of
  <2>2. Promoted(w, i) = [rows EXCEPT ![i] = r]
    BY <1>1, <2>1 DEF AdviceRow
  <2> QED BY <1>2, <1>4, <2>2
<1> QED BY <1>3, <1>4

\* A refined copy is written back.
LEMMA RewrittenRow ==
    ASSUME TypesHold, NEW w \in Worker, NEW i \in 1..Len(rows)
    PROVE  \E r : /\ Kin(r, rows[i]) /\ Rewritten(w, i) = [rows EXCEPT ![i] = r]
                  /\ r.column = rows[i].column /\ r.said = "active" /\ r.at = rows[i].at
                  /\ r.fb = rows[i].fb /\ r.verdict = rows[i].verdict /\ r.readAs = rows[i].readAs
<1>1. rows[i] \in AdviceRow /\ now + Life \in Nat
  BY RowTypes, PolicyAssumption DEF TypesHold
<1> DEFINE r == [rows[i] EXCEPT !.said = "active", !.deadline = now + Life]
<1>2. /\ Kin(r, rows[i])
      /\ r.column = rows[i].column /\ r.said = "active" /\ r.at = rows[i].at
      /\ r.fb = rows[i].fb /\ r.verdict = rows[i].verdict /\ r.readAs = rows[i].readAs
  BY <1>1 DEF Kin, AdviceRow, Status
<1>3. Rewritten(w, i) = [rows EXCEPT ![i] = r]
  BY <1>1 DEF Rewritten, AdviceRow
<1> QED BY <1>2, <1>3

\* A new row is of the level the evaluation came to.
LEMMA NewRow ==
    ASSUME Tables, NEW w \in Worker, At(w, "insert"), NEW status \in {"active", "provisional"}
    PROVE  /\ Row(w, status) \in AdviceRow
           /\ Row(w, status).event = worker[w].event /\ Row(w, status).level = worker[w].level
           /\ Row(w, status).column = status /\ Row(w, status).said = status
           /\ Row(w, status).at = (IF status = "active" THEN now ELSE 0)
           /\ Row(w, status).fb = {} /\ Row(w, status).verdict = "none"
           /\ Row(w, status).frozenBy = worker[w].errors /\ Row(w, status).weighed = worker[w].at
<1>1. TypesHold
  BY DEF Tables
<1>2. /\ worker[w].event \in Event /\ worker[w].level \in Level
      /\ worker[w].errors \in SUBSET Entry /\ worker[w].at \in Nat
  BY <1>1, AtWork DEF Steps
<1>3. now \in Nat /\ now + Life \in Nat
  BY <1>1, PolicyAssumption DEF TypesHold
<1> QED BY <1>2, <1>3 DEF Row, AdviceRow, Status

\* What Insert does.
LEMMA InsertCases ==
    ASSUME Tables, NEW w \in Worker, Insert(w)
    PROVE  LET c == Candidate[worker[w].event]
               status == IF c.requested < 3 \/ c.reviewed THEN "active" ELSE "provisional"
           IN  \/ Stops(w) /\ rows' = rows
               \/ /\ status = "active" => ~Blocked(c, worker[w].level)
                  /\ rows' = Append(rows, Row(w, status))
                  /\ \/ Stops(w)
                     \/ \E step \in {"refine", "discard"} :
                           /\ step = "discard" => status = "provisional"
                           /\ Goes(w, [worker[w] EXCEPT !.step = step, !.row = Len(rows) + 1])
BY DEF Insert

\* Insert keeps the tables.
LEMMA InsertKeepsTables ==
    ASSUME Tables, NEW w \in Worker, Insert(w)
    PROVE  Tables'
<1> DEFINE c == Candidate[worker[w].event]
           status == IF c.requested < 3 \/ c.reviewed THEN "active" ELSE "provisional"
<1>1. TypesHold /\ At(w, "insert") /\ Len(rows) < MaxRows /\ UNCHANGED reads
  BY DEF Tables, Insert
<1>2. /\ worker[w] \in Evaluating /\ worker[w] # Idle /\ worker[w].event \in stored
      /\ worker[w].errors \subseteq ledger
  BY <1>1, AtWork DEF Tables, WorkIsKnown, Steps
<1>3. UNCHANGED <<case, now, stored, settings, books, charter, judge>> /\ queued' \subseteq stored
  BY <1>1, RowsAreKnown DEF reads, intake
<1>4. CASE Stops(w) /\ rows' = rows
  <2>1. /\ rows' \in Seq(AdviceRow) /\ Len(rows') \in Len(rows)..MaxRows
        /\ \A i \in 1..Len(rows') : rows'[i].event \in stored /\ rows'[i].frozenBy \subseteq ledger
    BY <1>4, RowsAreKnown
  <2>2. Goes(w, Idle) /\ Fit(Idle)
    BY <1>4, StopFits DEF Stops
  <2> QED BY <1>3, <2>1, <2>2, WorkGoesOn
<1>5. CASE rows' = Append(rows, Row(w, status))
  <2>1. /\ Row(w, status) \in AdviceRow
        /\ Row(w, status).event \in stored /\ Row(w, status).frozenBy \subseteq ledger
    BY <1>1, <1>2, NewRow
  <2> HIDE DEF status
  <2>2. /\ rows' \in Seq(AdviceRow) /\ Len(rows') = Len(rows) + 1
        /\ rows'[Len(rows) + 1] = Row(w, status)
        /\ \A j \in 1..Len(rows) : rows'[j] = rows[j]
    BY <1>1, <1>5, <2>1, OneRowMore
  <2>3. Len(rows) \in Nat /\ MaxRows \in Nat /\ Len(rows') \in Len(rows)..MaxRows
        /\ Len(rows) + 1 \in 0..MaxRows
    BY <1>1, <2>2, RowsAreKnown, PolicyAssumption
  <2>4. ASSUME NEW i \in 1..Len(rows')
        PROVE  rows'[i].event \in stored /\ rows'[i].frozenBy \subseteq ledger
    <3>1. i = Len(rows) + 1 \/ i \in 1..Len(rows)
      BY <2>2, <2>3
    <3> QED BY <2>1, <2>2, <3>1, RowsAreKnown
  <2>5. ASSUME NEW step \in {"refine", "discard"}
        PROVE  Fit([worker[w] EXCEPT !.step = step, !.row = Len(rows) + 1])
    <3> DEFINE next == [worker[w] EXCEPT !.step = step, !.row = Len(rows) + 1]
    <3>1. /\ next \in Evaluating /\ next.event = worker[w].event /\ next.errors = worker[w].errors
          /\ next.row = Len(rows) + 1
      BY <1>2, <2>3 DEF Evaluating, Steps
    <3>2. next.row \in 1..Len(rows')
      BY <2>2, <2>3, <3>1
    <3> QED BY <1>2, <3>1, <3>2 DEF Fit
  <2>6. \E next : Fit(next) /\ Goes(w, next)
    BY <1>5, <2>2, <2>3, <2>5, InsertCases, StopFits DEF Stops
  <2> QED BY <1>3, <2>2, <2>3, <2>4, <2>6, WorkGoesOn
<1> QED BY <1>4, <1>5, InsertCases

\* The duplicate check and the list sweep.
LEMMA SweepsKeepTables ==
    ASSUME Tables, rows' = Swept, UNCHANGED reads,
           UNCHANGED worker \/ \E w \in Worker : AskDuplicate(w)
    PROVE  Tables'
<1>1. TypesHold
  BY DEF Tables
<1>2. /\ rows' \in Seq(AdviceRow) /\ Len(rows') = Len(rows)
      /\ \A i \in 1..Len(rows) : rows'[i].event = rows[i].event /\ rows'[i].frozenBy = rows[i].frozenBy
  BY <1>1, SweptTypes
<1>3. /\ Len(rows') \in Len(rows)..MaxRows /\ queued' \subseteq stored
      /\ \A i \in 1..Len(rows') : rows'[i].event \in stored /\ rows'[i].frozenBy \subseteq ledger
  BY <1>2, RowsAreKnown DEF reads, intake
<1>4. UNCHANGED <<case, now, stored, settings, books, charter, judge>>
  BY DEF reads, intake
<1>5. CASE UNCHANGED worker
  BY <1>1, <1>2, <1>3, <1>4, <1>5
     DEF Tables, TypesHold, WorkIsKnown, RevisionsAreBounded, settings, books
<1>6. ASSUME NEW w \in Worker, AskDuplicate(w)
      PROVE  Tables'
  <2>1. worker[w] \in Evaluating /\ worker[w] # Idle
    BY <1>1, <1>6, AtWork DEF AskDuplicate, Steps
  <2>2. Fit([worker[w] EXCEPT !.step = "insert"]) /\ Fit(Idle)
    BY <2>1, StepFits, StopFits DEF Steps
  <2>3. \E next : Fit(next) /\ Goes(w, next)
    BY <1>6, <2>2 DEF AskDuplicate, Asks, Stops
  <2> QED BY <1>2, <1>3, <1>4, <2>3, WorkGoesOn
<1> QED BY <1>5, <1>6

\* So do the ends of an evaluation.
LEMMA EndsKeepTables ==
    ASSUME Tables, NEW w \in Worker, Discard(w) \/ Refine(w) \/ Unrefined(w)
    PROVE  Tables'
<1> DEFINE i == worker[w].row
<1>1. TypesHold
  BY DEF Tables
<1>2. /\ i \in 1..Len(rows) /\ worker[w].event \in stored
  <2>1. /\ worker[w] # Idle /\ worker[w].step \in {"discard", "refine"}
    BY <1>1, AtWork DEF Discard, Refine, Unrefined, Steps
  <2> QED BY <2>1 DEF Tables, WorkIsKnown
<1>3. /\ Goes(w, Idle) /\ UNCHANGED <<case, now, stored, settings, books, charter, judge>>
      /\ queued' \subseteq stored
  BY <1>2, RowsAreKnown DEF Discard, Refine, Unrefined, Stops, reads, intake
<1>4. rows' = Discarded(i) \/ rows' = Promoted(w, i) \/ rows' = Rewritten(w, i)
  BY DEF Discard, Refine, Unrefined
<1>5. rows' = rows \/ \E r : Kin(r, rows[i]) /\ rows' = [rows EXCEPT ![i] = r]
  <2> HIDE DEF i
  <2> QED BY <1>1, <1>2, <1>4, DiscardedRow, PromotedRow, RewrittenRow
<1>6. /\ rows' \in Seq(AdviceRow) /\ Len(rows') \in Len(rows)..MaxRows
      /\ \A j \in 1..Len(rows') : rows'[j].event \in stored /\ rows'[j].frozenBy \subseteq ledger
  <2> HIDE DEF i
  <2> QED BY <1>2, <1>5, KinAreKnown, RowsAreKnown
<1> QED BY <1>3, <1>6, StopFits, WorkGoesOn

\* An error enters the ledger once, and only there.
LEMMA ErredTypes ==
    ASSUME TypesHold, NEW i \in 1..Len(rows), NEW kind \in Errors \cup {"prediction_error"},
           Erred(i, kind)
    PROVE  /\ ledger' \in SUBSET Entry /\ ledger \subseteq ledger'
           /\ freeze' \in [2..4 -> Nat]
<1>1. /\ rows[i].level \in Level /\ now \in Nat /\ FreezeTime \in Nat /\ i \in 1..MaxRows
      /\ ledger \in SUBSET Entry /\ freeze \in [2..4 -> Nat]
  <2>1. Len(rows) \in Nat /\ MaxRows \in Nat /\ Len(rows) <= MaxRows
    BY LenProperties, PolicyAssumption DEF TypesHold
  <2>2. i \in 1..MaxRows
    BY <2>1
  <2>3. rows[i].level \in Level
    BY RowTypes
  <2> QED BY <2>2, <2>3, PolicyAssumption DEF TypesHold
<1> DEFINE x == [row |-> i, kind |-> kind, level |-> rows[i].level, at |-> now]
<1>2. x \in Entry
  BY <1>1 DEF Entry
<1>3. ledger' = ledger \/ ledger' = ledger \cup {x}
  BY DEF Erred
<1>4. \/ freeze' = freeze
      \/ rows[i].level >= 2 /\ freeze' = [freeze EXCEPT ![rows[i].level] = now + FreezeTime]
  BY DEF Erred
<1> HIDE DEF x
<1>5. freeze' \in [2..4 -> Nat]
  BY <1>1, <1>4 DEF Level
<1> QED BY <1>1, <1>2, <1>3, <1>5

\* An answer changes the row it is given to.
LEMMA AnsweredRow ==
    ASSUME NEW r \in AdviceRow, NEW kind \in Answers
    PROVE  /\ Kin(Answered(r, kind), r)
           /\ Answered(r, kind).at = r.at /\ Answered(r, kind).verdict = r.verdict
           /\ Answered(r, kind).readAs = r.readAs
           /\ Answered(r, kind).fb = r.fb \cup {kind}
           /\ IF kind = "guidance"
              THEN Answered(r, kind).said = r.said /\ Answered(r, kind).column = r.column
              ELSE /\ Answered(r, kind).said = Answered(r, kind).column
                   /\ Answered(r, kind).column \in {"adopted", "dismissed"}
<1> DEFINE status == CASE kind = "adopted" -> "adopted"
                       [] kind = "guidance" -> "none"
                       [] OTHER -> "dismissed"
<1>1. r.fb \cup {kind} \in SUBSET (Answers \cup {"prediction_error"})
  BY DEF AdviceRow
<1>2. CASE kind = "guidance"
  <2>1. Answered(r, kind) = [r EXCEPT !.fb = r.fb \cup {kind}]
    BY <1>2 DEF Answered, AdviceRow
  <2> QED BY <1>1, <1>2, <2>1 DEF Kin, AdviceRow
<1>3. CASE kind # "guidance"
  <2>1. status \in {"adopted", "dismissed"}
    BY <1>3
  <2>2. Answered(r, kind) = IF status = "none" THEN [r EXCEPT !.fb = @ \cup {kind}]
                            ELSE [r EXCEPT !.fb = @ \cup {kind}, !.said = status, !.column = status]
    BY DEF Answered
  <2> HIDE DEF status
  <2>3. Answered(r, kind) = [r EXCEPT !.fb = r.fb \cup {kind}, !.said = status, !.column = status]
    BY <2>1, <2>2 DEF AdviceRow
  <2> QED BY <1>1, <1>3, <2>1, <2>3 DEF Kin, AdviceRow, Status
<1> QED BY <1>2, <1>3

\* The outcome says that what the user did, as advised, came to nothing.
Fails(c, verdict) == judge[c].said = "adopted" /\ verdict = "bad"

\* The row an outcome is about, by what its request had read.
Settled(row, verdict, read, failed) ==
    [row EXCEPT !.verdict = verdict, !.column = "verified", !.said = "verified",
                !.deadline = read.deadline, !.readAs = read.said,
                !.fb = row.fb \cup IF failed THEN {"prediction_error"} ELSE {}]

\* It differs from what it was in what the outcome says.
LEMMA SettledRow ==
    ASSUME NEW row \in AdviceRow, NEW verdict, verdict \in {"good", "bad", "unknown"},
           NEW read \in Reading, NEW failed \in BOOLEAN
    PROVE  /\ Kin(Settled(row, verdict, read, failed), row)
           /\ Settled(row, verdict, read, failed).verdict = verdict
           /\ Settled(row, verdict, read, failed).column = "verified"
           /\ Settled(row, verdict, read, failed).said = "verified"
           /\ Settled(row, verdict, read, failed).at = row.at
           /\ Settled(row, verdict, read, failed).readAs = read.said
           /\ failed => Settled(row, verdict, read, failed).fb = row.fb \cup {"prediction_error"}
           /\ ~failed => Settled(row, verdict, read, failed).fb = row.fb
<1> DEFINE more == IF failed THEN {"prediction_error"} ELSE {}
<1>1. more \subseteq {"prediction_error"} /\ verdict \in {"none", "good", "bad", "unknown"}
  OBVIOUS
<1>2. Settled(row, verdict, read, failed) =
        [row EXCEPT !.verdict = verdict, !.column = "verified", !.said = "verified",
                    !.deadline = read.deadline, !.readAs = read.said, !.fb = row.fb \cup more]
  BY DEF Settled
<1>3. failed => more = {"prediction_error"}
  OBVIOUS
<1>4. ~failed => more = {}
  OBVIOUS
<1> HIDE DEF more
<1>5. row.fb \cup more \in SUBSET (Answers \cup {"prediction_error"})
  BY <1>1 DEF AdviceRow
<1>6. /\ Kin(Settled(row, verdict, read, failed), row)
      /\ Settled(row, verdict, read, failed).verdict = verdict
      /\ Settled(row, verdict, read, failed).column = "verified"
      /\ Settled(row, verdict, read, failed).said = "verified"
      /\ Settled(row, verdict, read, failed).at = row.at
      /\ Settled(row, verdict, read, failed).readAs = read.said
      /\ Settled(row, verdict, read, failed).fb = row.fb \cup more
  <2>1. read.said \in Status /\ read.deadline \in Nat
    BY DEF Reading
  <2>2. PICK said, d, fb : said = read.said /\ d = read.deadline /\ fb = row.fb \cup more
    OBVIOUS
  <2>3. Settled(row, verdict, read, failed) =
        [row EXCEPT !.verdict = verdict, !.column = "verified", !.said = "verified",
                    !.deadline = d, !.readAs = said, !.fb = fb]
    BY <1>2, <2>2
  <2>4. said \in Status /\ d \in Nat /\ fb \in SUBSET (Answers \cup {"prediction_error"})
    BY <1>5, <2>1, <2>2
  <2>5. PICK r : r = [row EXCEPT !.verdict = verdict, !.column = "verified", !.said = "verified",
                                 !.deadline = d, !.readAs = said, !.fb = fb]
    OBVIOUS
  <2>6. r \in AdviceRow
    BY <1>1, <2>4, <2>5 DEF AdviceRow, Status
  <2>7. /\ r.verdict = verdict /\ r.column = "verified" /\ r.said = "verified" /\ r.at = row.at
        /\ r.readAs = said /\ r.fb = fb /\ r.event = row.event /\ r.level = row.level
        /\ r.frozenBy = row.frozenBy /\ r.weighed = row.weighed
    BY <2>5 DEF AdviceRow
  <2> QED BY <2>2, <2>3, <2>5, <2>6, <2>7 DEF Kin
<1> QED BY <1>3, <1>4, <1>6

\* The rows with another one in the place of the i-th.
Replaced(i, r) == [rows EXCEPT ![i] = r]

\* The trust accounts after an outcome at a level, when it is held against a prediction.
Trusting(l, verdict, held) ==
    IF verdict = "unknown" \/ ~held THEN trust ELSE [trust EXCEPT ![l][verdict] = @ + 1]

\* What RecordOutcome does.
LEMMA OutcomeCases ==
    ASSUME Tables, NEW c \in Client, NEW verdict, RecordOutcome(c, verdict),
           NEW i, i = judge[c].row
    PROVE  /\ i \in 1..Len(rows) /\ rows[i].verdict = "none" /\ judge[c] \in Reading
           /\ rows' = Replaced(i, Settled(rows[i], verdict, judge[c], Fails(c, verdict)))
           /\ Fails(c, verdict) => Erred(i, "prediction_error")
           /\ ~Fails(c, verdict) => UNCHANGED <<ledger, freeze>>
           /\ trust' = Trusting(rows[i].level, verdict, Calibrates(i, judge[c].said))
           /\ judge' = [judge EXCEPT ![c] = Nobody]
           /\ UNCHANGED <<case, now, intake, settings, silence, charter, worker>>
<1> DEFINE failed == Fails(c, verdict)
           more == IF failed THEN {"prediction_error"} ELSE {}
           read == judge[c]
<1>1. TypesHold /\ judge[c] # Nobody /\ rows[i].verdict = "none"
  BY DEF Tables, RecordOutcome, Judged
<1>2. i \in 1..Len(rows) /\ read \in Reading
  BY <1>1 DEF Tables, TypesHold, WorkIsKnown, Reading
<1>3. /\ judge' = [judge EXCEPT ![c] = Nobody]
      /\ rows' = [rows EXCEPT ![i].verdict = verdict, ![i].column = "verified",
                              ![i].said = "verified", ![i].deadline = read.deadline,
                              ![i].readAs = read.said, ![i].fb = @ \cup more]
      /\ IF failed THEN Erred(i, "prediction_error") ELSE UNCHANGED <<ledger, freeze>>
      /\ trust' = Trusting(rows[i].level, verdict, Calibrates(i, judge[c].said))
      /\ UNCHANGED <<case, now, intake, settings, silence, charter, worker>>
  BY DEF RecordOutcome, Reported, Fails, Trusting
<1> DEFINE r == [rows[i] EXCEPT !.verdict = verdict, !.column = "verified", !.said = "verified",
                                !.deadline = read.deadline, !.readAs = read.said, !.fb = rows[i].fb \cup more]
<1>4. Settled(rows[i], verdict, read, failed) = r
  BY DEF Settled
<1> HIDE DEF more, read, failed
<1>5. rows[i] \in AdviceRow /\ rows \in Seq(AdviceRow)
  BY <1>1, <1>2, RowTypes DEF TypesHold
<1>6. rows' = [rows EXCEPT ![i] = r]
  BY <1>1, <1>2, <1>3, <1>5 DEF AdviceRow, TypesHold
<1> HIDE DEF r
<1>7. rows' = Replaced(i, Settled(rows[i], verdict, read, failed))
  BY <1>4, <1>6 DEF Replaced
<1> QED BY <1>1, <1>2, <1>3, <1>7 DEF failed, read

\* Answers and outcomes keep the tables: a row changes, the ledger grows.
LEMMA BooksGrow ==
    ASSUME Tables, NEW i \in 1..Len(rows), NEW r, Kin(r, rows[i]), rows' = [rows EXCEPT ![i] = r],
           UNCHANGED <<case, now, intake, settings, charter, worker>>,
           ledger' \in SUBSET Entry, ledger \subseteq ledger', freeze' \in [2..4 -> Nat],
           silence' \in [Topic -> Nat], trust' \in [Level -> [good : Nat, bad : Nat]],
           judge' \in [Client -> Reading \cup {Nobody}],
           \A c \in Client : judge'[c] = judge[c] \/ judge'[c] = Nobody
    PROVE  Tables'
<1>1. /\ rows' \in Seq(AdviceRow) /\ Len(rows') = Len(rows)
      /\ \A j \in 1..Len(rows') : rows'[j].event \in stored /\ rows'[j].frozenBy \subseteq ledger
  BY KinAreKnown
<1>2. TypesHold'
  BY <1>1 DEF Tables, TypesHold, intake, settings
<1>3. WorkIsKnown'
  <2>1. UNCHANGED <<stored, worker>> /\ Len(rows') = Len(rows)
    BY <1>1 DEF intake
  <2>2. \A j \in 1..Len(rows') : rows'[j].event \in stored /\ rows'[j].frozenBy \subseteq ledger'
    BY <1>1
  <2>3. \A c \in Client : judge'[c] # Nobody => judge'[c].row \in 1..Len(rows)
    BY DEF Tables, WorkIsKnown
  <2>4. \A w \in Worker :
          worker[w] # Idle =>
              /\ worker[w].event \in stored
              /\ worker[w].errors \subseteq ledger'
              /\ worker[w].step \in {"discard", "refine"} => worker[w].row \in 1..Len(rows)
    BY DEF Tables, WorkIsKnown
  <2> QED BY <2>1, <2>2, <2>3, <2>4 DEF WorkIsKnown
<1> QED BY <1>2, <1>3 DEF Tables, RevisionsAreBounded, settings

\* Feedback keeps the tables.
LEMMA FeedbackKeepsTables ==
    ASSUME Tables, NEW i \in 1..Len(rows), NEW kind \in Answers, Feedback(i, kind)
    PROVE  Tables'
<1>1. TypesHold
  BY DEF Tables
<1>2. Kin(Answered(rows[i], kind), rows[i])
  BY <1>1, RowTypes, AnsweredRow
<1>3. rows' = [rows EXCEPT ![i] = Answered(rows[i], kind)]
  BY DEF Feedback
<1>4. ledger' \in SUBSET Entry /\ ledger \subseteq ledger' /\ freeze' \in [2..4 -> Nat]
  <2>1. CASE kind \in Errors
    BY <1>1, <2>1, ErredTypes DEF Feedback
  <2>2. CASE kind \notin Errors
    BY <1>1, <2>2 DEF Feedback, TypesHold
  <2> QED BY <2>1, <2>2
<1>5. silence' \in [Topic -> Nat]
  <2>1. now + SuppressTime \in Nat /\ silence \in [Topic -> Nat]
    BY <1>1, PolicyAssumption DEF TypesHold
  <2> QED BY <2>1 DEF Feedback
<1> QED BY <1>1, <1>2, <1>3, <1>4, <1>5, BooksGrow DEF Feedback, TypesHold

\* So does an outcome.
LEMMA OutcomeKeepsTables ==
    ASSUME Tables, NEW c \in Client, NEW verdict \in {"good", "bad", "unknown"},
           RecordOutcome(c, verdict)
    PROVE  Tables'
<1> DEFINE failed == Fails(c, verdict)
<1>1. TypesHold
  BY DEF Tables
<1>a. PICK i : i = judge[c].row
  OBVIOUS
<1>2. i \in 1..Len(rows)
  BY <1>a, OutcomeCases
<1>3. /\ judge' = [judge EXCEPT ![c] = Nobody]
      /\ failed => Erred(i, "prediction_error")
      /\ ~failed => UNCHANGED <<ledger, freeze>>
      /\ trust' = Trusting(rows[i].level, verdict, Calibrates(i, judge[c].said))
      /\ UNCHANGED <<case, now, intake, settings, silence, charter, worker>>
  BY <1>a, OutcomeCases
<1>4. \E r : Kin(r, rows[i]) /\ rows' = [rows EXCEPT ![i] = r]
  <2>1. /\ judge[c] \in Reading /\ failed \in BOOLEAN /\ rows[i] \in AdviceRow
    BY <1>1, <1>2, <1>a, OutcomeCases, RowTypes DEF Fails
  <2>2. rows' = Replaced(i, Settled(rows[i], verdict, judge[c], failed))
    BY <1>a, OutcomeCases
  <2> HIDE DEF failed
  <2>3. Kin(Settled(rows[i], verdict, judge[c], failed), rows[i])
    BY <2>1, SettledRow
  <2> QED BY <2>2, <2>3 DEF Replaced
<1> HIDE DEF failed
<1>5. ledger' \in SUBSET Entry /\ ledger \subseteq ledger' /\ freeze' \in [2..4 -> Nat]
  <2>1. CASE failed
    BY <1>1, <1>2, <1>3, <2>1, ErredTypes
  <2>2. CASE ~failed
    BY <1>1, <1>3, <2>2 DEF TypesHold
  <2> QED BY <2>1, <2>2
<1>6. trust' \in [Level -> [good : Nat, bad : Nat]]
  <2>1. trust \in [Level -> [good : Nat, bad : Nat]] /\ rows[i].level \in Level
    BY <1>1, <1>2, RowTypes DEF TypesHold
  <2> DEFINE l == rows[i].level
             held == Calibrates(i, judge[c].said)
  <2> HIDE DEF l, held
  <2>6. trust' = Trusting(l, verdict, held)
    BY <1>3 DEF l, held
  <2>2. CASE verdict = "unknown" \/ ~held
    BY <2>1, <2>2, <2>6 DEF Trusting
  <2>5. trust[l].good + 1 \in Nat /\ trust[l].bad + 1 \in Nat /\ l \in Level
    BY <2>1 DEF l
  <2>3. CASE verdict = "good" /\ held
    <3>1. trust' = [trust EXCEPT ![l].good = trust[l].good + 1]
      BY <2>1, <2>3, <2>5, <2>6 DEF Trusting
    <3> QED BY <2>1, <2>5, <3>1
  <2>4. CASE verdict = "bad" /\ held
    <3>1. trust' = [trust EXCEPT ![l].bad = trust[l].bad + 1]
      BY <2>1, <2>4, <2>5, <2>6 DEF Trusting
    <3> QED BY <2>1, <2>5, <3>1
  <2> QED BY <2>2, <2>3, <2>4
<1>7. /\ judge' \in [Client -> Reading \cup {Nobody}]
      /\ \A d \in Client : judge'[d] = judge[d] \/ judge'[d] = Nobody
      /\ silence' \in [Topic -> Nat]
  BY <1>1, <1>3 DEF TypesHold
<1> QED BY <1>2, <1>3, <1>4, <1>5, <1>6, <1>7, BooksGrow

\* The beginning of an evaluation.
LEMMA BeginningsKeepTables ==
    ASSUME Tables, NEW w \in Worker, NEW e \in Event, Arrive(w, e) \/ Reanalyse(w, e)
    PROVE  Tables'
<1>1. TypesHold /\ case \in Cases
  BY DEF Tables, TypesHold
<1>2. /\ stored \subseteq stored' /\ stored' \subseteq Event /\ queued' \subseteq stored'
      /\ e \in stored'
      /\ UNCHANGED <<case, now, settings, rows, books, charter, judge>>
  BY <1>1 DEF Arrive, Reanalyse, TypesHold
<1>3. worker' = worker \/ Goes(w, Evaluation(e, "filter"))
  BY DEF Arrive, Reanalyse
<1> DEFINE new == Evaluation(e, "filter")
<1>4. /\ new \in Evaluating /\ new # Idle /\ new.event = e /\ new.errors = {}
      /\ new.step = "filter"
  <2>1. Candidate[e].requested \in Level /\ MaxRows \in Nat
    BY CandidateAssumption, PolicyAssumption
  <2> QED BY <2>1 DEF Evaluation, Evaluating, Steps, Level, Idle
<1> HIDE DEF new
<1>5. /\ worker' \in [Worker -> Evaluating \cup {Idle}]
      /\ \A v \in Worker : worker'[v] = worker[v] \/ worker'[v] = new
  <2>1. CASE worker' = worker
    BY <1>1, <2>1 DEF TypesHold
  <2>2. CASE Goes(w, new)
    BY <1>1, <1>4, <2>2, OneGoes
  <2> QED BY <1>3, <2>1, <2>2 DEF new
<1>6. TypesHold'
  BY <1>1, <1>2, <1>5 DEF TypesHold, settings, books
<1>7. WorkIsKnown'
  BY <1>2, <1>4, <1>5 DEF Tables, WorkIsKnown, books
<1> QED BY <1>2, <1>6, <1>7 DEF Tables, RevisionsAreBounded, settings

\* Requests for an outcome, the charter and the clock.
LEMMA OthersKeepTables ==
    ASSUME Tables,
           \/ \E c \in Client, i \in 1..Len(rows) : ReadForOutcome(c, i)
           \/ \E c \in Client : RepeatOutcome(c)
           \/ \E granted \in case.charters : SetCharter(granted)
           \/ Tick
    PROVE  Tables'
<1>1. TypesHold /\ case \in Cases
  BY DEF Tables, TypesHold
<1>2. ASSUME NEW c \in Client, NEW i \in 1..Len(rows), ReadForOutcome(c, i)
      PROVE  Tables'
  <2> DEFINE new == [row |-> i, said |-> rows[i].said, deadline |-> rows[i].deadline]
  <2>1. new \in Reading /\ new.row = i
    <3>1. rows[i].said \in Status /\ rows[i].deadline \in Nat
      BY <1>1, RowTypes
    <3>2. i \in 1..MaxRows
      BY RowsAreKnown, PolicyAssumption
    <3> QED BY <3>1, <3>2 DEF Reading
  <2>2. /\ judge' = [judge EXCEPT ![c] = new]
        /\ UNCHANGED <<case, now, intake, settings, rows, books, charter, worker>>
    BY <1>2 DEF ReadForOutcome
  <2> HIDE DEF new
  <2>3. TypesHold'
    BY <1>1, <2>1, <2>2 DEF TypesHold, settings, books, intake
  <2>4. WorkIsKnown'
    BY <1>1, <2>1, <2>2 DEF Tables, WorkIsKnown, books, intake, TypesHold
  <2> QED BY <2>2, <2>3, <2>4 DEF Tables, RevisionsAreBounded, settings
<1>3. ASSUME NEW c \in Client, RepeatOutcome(c)
      PROVE  Tables'
  <2>1. /\ judge' = [judge EXCEPT ![c] = Nobody]
        /\ UNCHANGED <<case, now, intake, settings, rows, books, charter, worker>>
    BY <1>3 DEF RepeatOutcome, Reported
  <2>2. TypesHold'
    BY <1>1, <2>1 DEF TypesHold, settings, books, intake
  <2>3. WorkIsKnown'
    BY <1>1, <2>1 DEF Tables, WorkIsKnown, books, intake, TypesHold
  <2> QED BY <2>1, <2>2, <2>3 DEF Tables, RevisionsAreBounded, settings
<1>4. ASSUME NEW granted \in case.charters, SetCharter(granted)
      PROVE  Tables'
  <2>1. granted \in Charters
    BY <1>1, CaseAssumption
  <2> QED BY <1>1, <1>4, <2>1
          DEF SetCharter, Tables, TypesHold, WorkIsKnown, RevisionsAreBounded, settings, books, intake
<1>5. CASE Tick
  BY <1>1, <1>5 DEF Tick, Tables, TypesHold, WorkIsKnown, RevisionsAreBounded, settings, books, intake
<1> QED BY <1>2, <1>3, <1>4, <1>5

\* What a settings screen shows of a preference.
LEMMA ContentTypes ==
    ASSUME TypesHold, NEW s \in Scope
    PROVE  /\ pref[s] \in Preference /\ pref[s].rev \in Nat
           /\ Content(pref[s]) \in Contents /\ Absent(s) \in Preference /\ Absent(s).rev = 0
<1>1. pref[s] \in Preference
  BY DEF TypesHold
<1> QED BY <1>1 DEF Preference, Content, Contents, Absent

\* Screens and preferences change; nothing else does.
LEMMA SettingsKeepTables ==
    ASSUME Tables, pref' \in [Scope -> Preference], page' \in [Client -> Page \cup {Nobody}],
           \A s \in Scope : pref'[s].rev <= case.revisions,
           UNCHANGED <<case, now, intake, rows, books, charter, worker, judge>>
    PROVE  Tables'
<1>1. TypesHold'
  BY DEF Tables, TypesHold, books, intake
<1>2. WorkIsKnown'
  BY DEF Tables, WorkIsKnown, books, intake
<1> QED BY <1>1, <1>2 DEF RevisionsAreBounded, Tables

\* A screen is opened.
LEMMA OpenKeepsTables ==
    ASSUME Tables, NEW c \in Client, NEW s \in Scope, Open(c, s)
    PROVE  Tables'
<1> DEFINE new == [scope |-> s, rev |-> pref[s].rev, content |-> Content(pref[s]), deleted |-> FALSE]
<1>1. TypesHold
  BY DEF Tables
<1>2. new \in Page
  BY <1>1, ContentTypes DEF Page
<1>3. /\ page' = [page EXCEPT ![c] = new] /\ UNCHANGED pref
      /\ UNCHANGED <<case, now, intake, rows, books, charter, worker, judge>>
  BY DEF Open
<1> HIDE DEF new
<1>4. page' \in [Client -> Page \cup {Nobody}] /\ pref' \in [Scope -> Preference]
  BY <1>1, <1>2, <1>3 DEF TypesHold
<1> QED BY <1>3, <1>4, SettingsKeepTables DEF Tables, RevisionsAreBounded

\* What a screen shows once it has saved.
Saved(p, rev, content) == [p EXCEPT !.rev = rev, !.content = content, !.deleted = FALSE]

Chosen(rev, content) == [rev |-> rev, mode |-> content.mode, hears |-> content.hears]

\* What Save does: nothing but confirm, write a revision, or close the screen.
LEMMA SaveCases ==
    ASSUME Tables, NEW c \in Client, NEW content \in Contents, Save(c, content),
           NEW s, s = page[c].scope
    PROVE  /\ page[c] \in Page /\ s \in Scope /\ page[c] # Nobody
           /\ UNCHANGED <<case, now, intake, rows, books, charter, worker, judge>>
           /\ \/ /\ page' = [page EXCEPT ![c] = Saved(page[c], pref[s].rev, content)]
                 /\ content = Content(pref[s]) /\ UNCHANGED pref
              \/ /\ page' = [page EXCEPT ![c] = Saved(page[c], pref[s].rev + 1, content)]
                 /\ pref[s].rev < case.revisions /\ page[c].rev = pref[s].rev
                 /\ pref' = [pref EXCEPT ![s] = Chosen(pref[s].rev + 1, content)]
              \/ page' = [page EXCEPT ![c] = Nobody] /\ UNCHANGED pref
<1>1. TypesHold /\ page[c] # Nobody
  BY DEF Tables, Save
<1>2. page[c] \in Page /\ s \in Scope
  BY <1>1 DEF TypesHold, Page
<1>3. UNCHANGED <<case, now, intake, rows, books, charter, worker, judge>>
  BY DEF Save
<1> DEFINE same == (s = Global \/ pref[s].rev > 0) /\ content = Content(pref[s])
           kept == same /\ (pref[s].rev > 0 \/ page[c].rev # pref[s].rev)
<1>4. IF kept
      THEN /\ page' = [page EXCEPT ![c].rev = pref[s].rev, ![c].content = content,
                                   ![c].deleted = FALSE]
           /\ UNCHANGED pref
      ELSE IF Accepted(s, page[c].rev, content)
      THEN /\ pref[s].rev < case.revisions
           /\ pref' = [pref EXCEPT ![s] = [rev |-> @.rev + 1, mode |-> content.mode,
                                           hears |-> content.hears]]
           /\ page' = [page EXCEPT ![c].rev = pref[s].rev + 1, ![c].content = content,
                                   ![c].deleted = FALSE]
      ELSE page' = [page EXCEPT ![c] = Nobody] /\ UNCHANGED pref
  BY DEF Save
<1>5. kept => content = Content(pref[s])
  OBVIOUS
<1> HIDE DEF kept
<1>6. CASE kept
  <2>1. page' = [page EXCEPT ![c] = Saved(page[c], pref[s].rev, content)]
    BY <1>1, <1>2, <1>4, <1>6 DEF Saved, TypesHold, Page
  <2> QED BY <1>1, <1>2, <1>3, <1>4, <1>5, <1>6, <2>1
<1>7. CASE ~kept /\ Accepted(s, page[c].rev, content)
  <2>1. page' = [page EXCEPT ![c] = Saved(page[c], pref[s].rev + 1, content)]
    BY <1>1, <1>2, <1>4, <1>7 DEF Saved, TypesHold, Page
  <2>2. pref' = [pref EXCEPT ![s] = Chosen(pref[s].rev + 1, content)]
    BY <1>1, <1>2, <1>4, <1>7 DEF Chosen, TypesHold
  <2> QED BY <1>1, <1>2, <1>3, <1>4, <1>7, <2>1, <2>2 DEF Accepted
<1>8. CASE ~kept /\ ~Accepted(s, page[c].rev, content)
  BY <1>1, <1>2, <1>3, <1>4, <1>8
<1> QED BY <1>6, <1>7, <1>8

\* Saving keeps the tables.
LEMMA SaveKeepsTables ==
    ASSUME Tables, NEW c \in Client, NEW content \in Contents, Save(c, content)
    PROVE  Tables'
<1>1. TypesHold /\ RevisionsAreBounded /\ case \in Cases
  BY DEF Tables, TypesHold
<1>2. PICK s : s = page[c].scope
  OBVIOUS
<1>3. page[c] \in Page /\ s \in Scope
  BY <1>2, SaveCases
<1>4. /\ pref[s].rev \in Nat /\ case.revisions \in Nat
  BY <1>1, <1>3, ContentTypes, CaseAssumption
<1>5. ASSUME NEW rev \in Nat
      PROVE  Saved(page[c], rev, content) \in Page
  BY <1>3 DEF Saved, Page
<1>6. ASSUME NEW rev \in Nat
      PROVE  Chosen(rev, content) \in Preference /\ Chosen(rev, content).rev = rev
  BY DEF Chosen, Preference, Contents
<1>7. UNCHANGED <<case, now, intake, rows, books, charter, worker, judge>>
  BY <1>2, SaveCases
<1>8. CASE /\ page' = [page EXCEPT ![c] = Saved(page[c], pref[s].rev, content)]
           /\ UNCHANGED pref
  <2>1. page' \in [Client -> Page \cup {Nobody}]
    BY <1>1, <1>4, <1>5, <1>8 DEF TypesHold
  <2> QED BY <1>1, <1>7, <1>8, <2>1, SettingsKeepTables DEF TypesHold, RevisionsAreBounded
<1>9. CASE /\ page' = [page EXCEPT ![c] = Saved(page[c], pref[s].rev + 1, content)]
           /\ pref[s].rev < case.revisions
           /\ pref' = [pref EXCEPT ![s] = Chosen(pref[s].rev + 1, content)]
  <2>1. pref[s].rev + 1 \in Nat
    BY <1>4
  <2>2. page' \in [Client -> Page \cup {Nobody}]
    BY <1>1, <1>5, <1>9, <2>1 DEF TypesHold
  <2>3. /\ Chosen(pref[s].rev + 1, content) \in Preference
        /\ Chosen(pref[s].rev + 1, content).rev <= case.revisions
    BY <1>4, <1>6, <1>9, <2>1
  <2>4. pref' \in [Scope -> Preference] /\ \A t \in Scope : pref'[t].rev <= case.revisions
    BY <1>1, <1>3, <1>9, <2>3 DEF TypesHold, RevisionsAreBounded
  <2> QED BY <1>7, <2>2, <2>4, SettingsKeepTables
<1>10. CASE page' = [page EXCEPT ![c] = Nobody] /\ UNCHANGED pref
  <2>1. page' \in [Client -> Page \cup {Nobody}]
    BY <1>1, <1>10 DEF TypesHold
  <2> QED BY <1>1, <1>7, <1>10, <2>1, SettingsKeepTables DEF TypesHold, RevisionsAreBounded
<1> QED BY <1>2, <1>8, <1>9, <1>10, SaveCases

\* What deleting a goal's preference does to a screen.
Marked(p, g) == IF p # Nobody /\ p.scope = g THEN [p EXCEPT !.deleted = TRUE] ELSE p

\* Deleting a preference keeps the tables.
LEMMA DeleteKeepsTables ==
    ASSUME Tables, NEW g \in Goal, Delete(g)
    PROVE  Tables'
<1>1. TypesHold /\ RevisionsAreBounded /\ case \in Cases /\ g \in Scope
  BY DEF Tables, TypesHold, Scope
<1>2. /\ page' = [c \in Client |-> Marked(page[c], g)] /\ pref' = [pref EXCEPT ![g] = Absent(g)]
      /\ UNCHANGED <<case, now, intake, rows, books, charter, worker, judge>>
  BY DEF Delete, Marked
<1>3. ASSUME NEW c \in Client
      PROVE  Marked(page[c], g) \in Page \cup {Nobody}
  <2>1. page[c] \in Page \cup {Nobody}
    BY <1>1 DEF TypesHold
  <2> QED BY <2>1 DEF Marked, Page
<1>4. page' \in [Client -> Page \cup {Nobody}]
  BY <1>2, <1>3
<1>5. Absent(g) \in Preference /\ Absent(g).rev <= case.revisions
  BY <1>1, ContentTypes, CaseAssumption
<1>6. pref' \in [Scope -> Preference] /\ \A s \in Scope : pref'[s].rev <= case.revisions
  BY <1>1, <1>2, <1>5 DEF TypesHold, RevisionsAreBounded
<1> QED BY <1>2, <1>4, <1>6, SettingsKeepTables

\* What is there at first is of before results of adoption were foretold.
LEMMA LegacyInit ==
    ASSUME Init
    PROVE  /\ rows \in Seq(AdviceRow) /\ Len(rows) \in Nat /\ Len(rows) <= MaxRows
           /\ stored \subseteq Event
           /\ \A i \in 1..Len(rows) :
                 /\ rows[i].event \in stored /\ rows[i].frozenBy = {} /\ rows[i].fb = {}
                 /\ rows[i].verdict = "none" /\ rows[i].said = "active" /\ rows[i].column = "active"
<1>1. /\ case \in Cases /\ case.legacy \in Seq(Event) /\ Len(case.legacy) <= MaxRows
      /\ stored = {case.legacy[i] : i \in 1..Len(case.legacy)}
      /\ rows = [i \in 1..Len(case.legacy) |-> LegacyRow(case.legacy[i])]
  BY CaseAssumption DEF Init
<1>2. Len(case.legacy) \in Nat /\ \A i \in 1..Len(case.legacy) : case.legacy[i] \in Event
  BY <1>1, LenProperties, ElementOfSeq
<1>3. ASSUME NEW e \in Event
      PROVE  LegacyRow(e) \in AdviceRow
  <2>1. Candidate[e].requested \in Level /\ 1 + Life \in Nat
    BY CandidateAssumption, PolicyAssumption
  <2> QED BY <2>1 DEF LegacyRow, AdviceRow, Status
<1>4. \A i \in 1..Len(case.legacy) : LegacyRow(case.legacy[i]) \in AdviceRow
  BY <1>2, <1>3
<1>5. ASSUME NEW e \in Event
      PROVE  /\ LegacyRow(e).event = e /\ LegacyRow(e).frozenBy = {} /\ LegacyRow(e).fb = {}
             /\ LegacyRow(e).verdict = "none" /\ LegacyRow(e).said = "active"
             /\ LegacyRow(e).column = "active"
  BY DEF LegacyRow
<1> HIDE DEF LegacyRow
<1>6. rows \in Seq(AdviceRow) /\ Len(rows) = Len(case.legacy)
  BY <1>1, <1>2, <1>4
<1>7. ASSUME NEW i \in 1..Len(rows)
      PROVE  \E e \in stored : rows[i] = LegacyRow(e) /\ e \in Event
  BY <1>1, <1>2, <1>6
<1> QED BY <1>1, <1>2, <1>5, <1>6, <1>7

\* At first there is nothing else but the trust and the charter the user starts with.
LEMMA TablesInit ==
    ASSUME Init
    PROVE  Tables
<1>1. case \in Cases /\ case.trust \in [Level -> Nat] /\ case.charter \in Charters
      /\ case.revisions \in Nat /\ MaxRows \in Nat
  BY CaseAssumption, PolicyAssumption DEF Init
<1>2. pref \in [Scope -> Preference] /\ \A s \in Scope : pref[s].rev = 0
  BY DEF Init, Absent, Preference
<1>3. /\ rows \in Seq(AdviceRow) /\ Len(rows) <= MaxRows /\ stored \subseteq Event
      /\ \A i \in 1..Len(rows) : rows[i].event \in stored /\ rows[i].frozenBy \subseteq ledger
  BY LegacyInit
<1>4. trust \in [Level -> [good : Nat, bad : Nat]]
  BY <1>1 DEF Init
<1>5. worker \in [Worker -> Evaluating \cup {Idle}] /\ \A w \in Worker : worker[w] = Idle
  BY DEF Init
<1>6. TypesHold
  BY <1>1, <1>2, <1>3, <1>4, <1>5 DEF Init, TypesHold
<1>7. WorkIsKnown
  BY <1>3, <1>5 DEF Init, WorkIsKnown
<1> QED BY <1>1, <1>2, <1>6, <1>7 DEF Tables, RevisionsAreBounded

\* Every step keeps the tables.
LEMMA TablesStep ==
    ASSUME Tables, [Next]_vars
    PROVE  Tables'
<1>1. ASSUME NEW w \in Worker, NEW e \in Event, Arrive(w, e) \/ Reanalyse(w, e)
      PROVE  Tables'
  BY <1>1, BeginningsKeepTables
<1>2. ASSUME NEW w \in Worker, Evaluate(w)
      PROVE  Tables'
  <2>1. CASE AskDuplicate(w)
    BY <2>1, SweepsKeepTables DEF AskDuplicate
  <2>2. CASE \/ Filter(w) \/ AskCharter(w) \/ AskTrust(w) \/ AskFreeze(w) \/ AskSilence(w)
             \/ AskPreference(w)
    BY <2>2, QuestionsKeepTables
  <2> QED BY <1>2, <2>1, <2>2, InsertKeepsTables, EndsKeepTables DEF Evaluate
<1>3. CASE List
  BY <1>3, SweepsKeepTables DEF List
<1>4. ASSUME NEW content \in [mode : Modes \cup {Inherit}, hears : {TRUE, FALSE, Inherit}]
      PROVE  content \in Contents
  BY DEF Contents
<1>5. CASE UNCHANGED vars
  BY <1>5 DEF Tables, TypesHold, WorkIsKnown, RevisionsAreBounded, vars
<1> QED BY <1>1, <1>2, <1>3, <1>4, <1>5, FeedbackKeepsTables, OutcomeKeepsTables,
           OthersKeepTables, OpenKeepsTables, SaveKeepsTables, DeleteKeepsTables DEF Next

\* The tables hold what their columns say.
LEMMA TypesAreRight ==
    ASSUME Tables
    PROVE  TypeOK
<1>1. \A i \in 1..Len(rows) : rows[i] \in AdviceRow
  BY RowTypes DEF Tables
<1>2. \A s \in Scope : pref[s].rev \in 0..case.revisions
  <2>1. \A s \in Scope : pref[s].rev \in Nat
    BY ContentTypes DEF Tables
  <2>2. case.revisions \in Nat
    BY CaseAssumption DEF Tables, TypesHold
  <2> QED BY <2>1, <2>2 DEF Tables, RevisionsAreBounded
<1>3. \A c \in Client : page[c] # Nobody => page[c].scope \in Scope
  BY DEF Tables, TypesHold, Page
<1> QED BY <1>1, <1>2, <1>3 DEF Tables, TypesHold, WorkIsKnown, TypeOK

\* Advice, mistakes, trust, preferences and everything under way stay in their tables'
\* types, and what is under way is about events and advice that are stored.
THEOREM TablesStayInOrder == Spec => []Tables
<1>1. Init => Tables
  BY TablesInit
<1>2. Tables /\ [Next]_vars => Tables'
  BY TablesStep
<1> QED BY <1>1, <1>2, PTL DEF Spec

-----------------------------------------------------------------------------
(* Publishing within limits.                                               *)

\* No row is published: all that are there keep their time, a new one has none.
NoneAppears ==
    /\ Len(rows') \in Nat
    /\ \A i \in 1..Len(rows') :
          IF i <= Len(rows) THEN rows'[i].at = rows[i].at ELSE rows'[i].at = 0

\* The i-th row is published, past the gate; the others keep their goal and time.
OneAppears(i) ==
    /\ i \in 1..Len(rows') /\ Len(rows') \in Nat /\ Len(rows) <= Len(rows')
    /\ rows'[i].event \in Event /\ rows'[i].level \in Level /\ rows'[i].at = now
    /\ ~Blocked(Candidate[rows'[i].event], rows'[i].level)
    /\ i <= Len(rows) => rows'[i].event = rows[i].event
    /\ \A j \in 1..Len(rows') : j # i =>
          j <= Len(rows) /\ rows'[j].at = rows[j].at /\ rows'[j].event = rows[j].event

\* A row that keeps its time is not published.
LEMMA KeepingTime ==
    ASSUME Tables, NEW i \in 1..Len(rows), NEW r, Kin(r, rows[i]), r.at = rows[i].at,
           rows' = Replaced(i, r)
    PROVE  NoneAppears
<1>1. rows' = [rows EXCEPT ![i] = r]
  BY DEF Replaced
<1>2. /\ Len(rows') = Len(rows) /\ rows'[i] = r
      /\ \A j \in 1..Len(rows) : j # i => rows'[j] = rows[j]
  BY <1>1, KinAreKnown
<1> QED BY <1>2, RowsAreKnown DEF NoneAppears

\* So is none when no row changes, or when the sweep withdraws.
LEMMA KeepingRows ==
    ASSUME Tables, rows' = rows \/ rows' = Swept
    PROVE  NoneAppears
<1>1. CASE rows' = rows
  BY <1>1, RowsAreKnown DEF NoneAppears
<1>2. CASE rows' = Swept
  BY <1>2, SweptTypes, RowsAreKnown DEF NoneAppears, Tables
<1> QED BY <1>1, <1>2

\* Nor when one is discarded.
LEMMA DiscardingPublishesNone ==
    ASSUME Tables, NEW i \in 1..Len(rows), rows' = Discarded(i)
    PROVE  NoneAppears
<1>1. CASE rows[i].column = "provisional"
  <2>1. PICK r : Kin(r, rows[i]) /\ Discarded(i) = [rows EXCEPT ![i] = r] /\ r.at = rows[i].at
    BY <1>1, DiscardedRow DEF Tables
  <2>2. rows' = Replaced(i, r)
    BY <2>1 DEF Replaced
  <2> QED BY <2>1, <2>2, KeepingTime
<1>2. CASE rows[i].column # "provisional"
  BY <1>2, DiscardedRow, KeepingRows DEF Tables
<1> QED BY <1>1, <1>2

\* An insert publishes at most the row it adds.
LEMMA InsertAppears ==
    ASSUME Tables, NEW w \in Worker, Insert(w)
    PROVE  NoneAppears \/ \E i \in 1..Len(rows') : OneAppears(i)
<1> DEFINE c == Candidate[worker[w].event]
           status == IF c.requested < 3 \/ c.reviewed THEN "active" ELSE "provisional"
           new == Row(w, status)
           n == Len(rows) + 1
<1>1. TypesHold /\ At(w, "insert")
  BY DEF Tables, Insert
<1>2. worker[w].event \in Event /\ worker[w].level \in Level /\ now \in Nat
  BY <1>1, AtWork DEF Steps, TypesHold
<1>3. CASE rows' = rows
  BY <1>3, KeepingRows
<1>4. CASE rows' = Append(rows, new) /\ (status = "active" => ~Blocked(c, worker[w].level))
  <2>1. /\ new \in AdviceRow /\ new.event = worker[w].event /\ new.level = worker[w].level
        /\ status = "active" => new.at = now
        /\ status # "active" => new.at = 0
    BY <1>1, NewRow
  <2> HIDE DEF new, c, status
  <2>2. /\ Len(rows') = n /\ rows'[n] = new /\ Len(rows) \in Nat
        /\ \A j \in 1..Len(rows) : rows'[j] = rows[j]
    BY <1>1, <1>4, <2>1, OneRowMore, RowsAreKnown
  <2>3. CASE status = "active"
    <3>1. ~Blocked(Candidate[rows'[n].event], rows'[n].level)
      BY <1>4, <2>1, <2>2, <2>3 DEF c
    <3>2. \A j \in 1..Len(rows') : j # n => j \in 1..Len(rows) /\ j <= Len(rows)
      BY <2>2
    <3>3. n \in 1..Len(rows') /\ ~(n <= Len(rows))
      BY <2>2
    <3>4. /\ rows'[n].event \in Event /\ rows'[n].level \in Level /\ rows'[n].at = now
      BY <1>2, <2>1, <2>2, <2>3
    <3>5. \A j \in 1..Len(rows') : j # n =>
             j <= Len(rows) /\ rows'[j].at = rows[j].at /\ rows'[j].event = rows[j].event
      BY <2>2, <3>2
    <3>6. Len(rows') \in Nat /\ Len(rows) <= Len(rows')
      BY <2>2
    <3> HIDE DEF n
    <3> QED BY <3>1, <3>3, <3>4, <3>5, <3>6 DEF OneAppears
  <2>4. CASE status # "active"
    <3>1. \A i \in 1..Len(rows') : i \in 1..Len(rows) \/ (i = n /\ ~(i <= Len(rows)))
      BY <2>2
    <3> QED BY <2>1, <2>2, <2>4, <3>1 DEF NoneAppears
  <2> QED BY <2>3, <2>4
<1> QED BY <1>3, <1>4, InsertCases

\* The end of a refinement publishes at most the row it is about.
LEMMA RefineAppears ==
    ASSUME Tables, NEW w \in Worker, Refine(w)
    PROVE  NoneAppears \/ \E i \in 1..Len(rows') : OneAppears(i)
<1>1. TypesHold
  BY DEF Tables
<1>2. PICK i \in 1..Len(rows) : i = worker[w].row
  <2>1. /\ worker[w] # Idle /\ worker[w].step = "refine"
    BY <1>1, AtWork DEF Refine, Steps
  <2> QED BY <2>1 DEF Tables, WorkIsKnown
<1>3. rows' = Promoted(w, i) \/ rows' = Rewritten(w, i)
  BY <1>2 DEF Refine
<1>4. CASE rows' = Rewritten(w, i)
  <2>1. PICK r : Kin(r, rows[i]) /\ Rewritten(w, i) = [rows EXCEPT ![i] = r] /\ r.at = rows[i].at
    BY <1>1, RewrittenRow
  <2>2. rows' = Replaced(i, r)
    BY <1>4, <2>1 DEF Replaced
  <2> QED BY <2>1, <2>2, KeepingTime
<1>5. CASE rows' = Discarded(i)
  BY <1>5, DiscardingPublishesNone
<1>6. CASE /\ rows' = Promoted(w, i)
           /\ rows[i].column = "provisional" /\ ~Blocked(Of(i), rows[i].level)
           /\ \E r : /\ Kin(r, rows[i]) /\ Promoted(w, i) = [rows EXCEPT ![i] = r] /\ r.at = now
  <2>1. PICK r : Kin(r, rows[i]) /\ Promoted(w, i) = [rows EXCEPT ![i] = r] /\ r.at = now
    BY <1>6
  <2>2. rows' = [rows EXCEPT ![i] = r]
    BY <1>6, <2>1
  <2>3. /\ Len(rows') = Len(rows) /\ rows'[i] = r
        /\ \A j \in 1..Len(rows) : j # i => rows'[j] = rows[j]
    BY <2>1, <2>2, KinAreKnown
  <2>4. /\ rows'[i].event \in Event /\ rows'[i].level \in Level
        /\ rows'[i].event = rows[i].event /\ rows'[i].level = rows[i].level
    BY <1>1, <2>1, <2>3, RowTypes DEF Kin
  <2>5. ~Blocked(Candidate[rows'[i].event], rows'[i].level)
    BY <1>6, <2>4 DEF Of
  <2>6. Len(rows) \in Nat
    BY RowsAreKnown
  <2>7. \A j \in 1..Len(rows') : j # i =>
             j <= Len(rows) /\ rows'[j].at = rows[j].at /\ rows'[j].event = rows[j].event
    BY <2>3, <2>6
  <2>8. rows'[i].at = now /\ i \in 1..Len(rows')
    BY <2>1, <2>3
  <2> QED BY <2>3, <2>4, <2>5, <2>6, <2>7, <2>8 DEF OneAppears
<1> QED BY <1>1, <1>3, <1>4, <1>5, <1>6, PromotedRow

\* A step publishes one row, or none.
LEMMA WhatAppears ==
    ASSUME Tables, [Next]_vars
    PROVE  NoneAppears \/ \E i \in 1..Len(rows') : OneAppears(i)
<1>1. TypesHold
  BY DEF Tables
<1>2. CASE rows' = rows \/ rows' = Swept
  BY <1>2, KeepingRows
<1>3. ASSUME NEW w \in Worker, Evaluate(w)
      PROVE  NoneAppears \/ \E i \in 1..Len(rows') : OneAppears(i)
  <2>1. CASE \/ Filter(w) \/ AskCharter(w) \/ AskTrust(w) \/ AskFreeze(w) \/ AskSilence(w)
             \/ AskPreference(w) \/ AskDuplicate(w)
    BY <1>2, <2>1 DEF Filter, AskCharter, AskTrust, AskFreeze, AskSilence, AskPreference,
                      AskDuplicate
  <2>2. CASE Insert(w)
    BY <2>2, InsertAppears
  <2>3. CASE Refine(w)
    BY <2>3, RefineAppears
  <2>4. CASE Discard(w) \/ Unrefined(w)
    <3>1. /\ worker[w] # Idle /\ worker[w].step \in {"discard", "refine"}
      BY <1>1, <2>4, AtWork DEF Discard, Unrefined, Steps
    <3>2. worker[w].row \in 1..Len(rows)
      BY <3>1 DEF Tables, WorkIsKnown
    <3>3. rows' = Discarded(worker[w].row)
      BY <2>4 DEF Discard, Unrefined
    <3> QED BY <3>2, <3>3, DiscardingPublishesNone
  <2> QED BY <1>3, <2>1, <2>2, <2>3, <2>4 DEF Evaluate
<1>4. ASSUME NEW i \in 1..Len(rows), NEW kind \in Answers, Feedback(i, kind)
      PROVE  NoneAppears
  <2>1. /\ Kin(Answered(rows[i], kind), rows[i]) /\ Answered(rows[i], kind).at = rows[i].at
    BY <1>1, RowTypes, AnsweredRow
  <2>2. rows' = Replaced(i, Answered(rows[i], kind))
    BY <1>4 DEF Feedback, Replaced
  <2> QED BY <2>1, <2>2, KeepingTime
<1>5. ASSUME NEW c \in Client, NEW verdict \in {"good", "bad", "unknown"}, RecordOutcome(c, verdict)
      PROVE  NoneAppears
  <2> DEFINE failed == Fails(c, verdict)
  <2>1. PICK i : i = judge[c].row
    OBVIOUS
  <2>2. i \in 1..Len(rows) /\ judge[c] \in Reading
    BY <1>5, <2>1, OutcomeCases
  <2>3. rows' = Replaced(i, Settled(rows[i], verdict, judge[c], failed))
    BY <1>5, <2>1, OutcomeCases
  <2>4. failed \in BOOLEAN /\ rows[i] \in AdviceRow
    BY <1>1, <2>2, RowTypes DEF Fails
  <2> HIDE DEF failed
  <2>5. Kin(Settled(rows[i], verdict, judge[c], failed), rows[i])
    BY <2>2, <2>4, SettledRow
  <2>6. Settled(rows[i], verdict, judge[c], failed).at = rows[i].at
    BY <2>4 DEF Settled, AdviceRow
  <2> QED BY <2>2, <2>3, <2>5, <2>6, KeepingTime
<1>6. CASE List
  BY <1>2, <1>6 DEF List
<1>7. ASSUME NEW w \in Worker, NEW e \in Event, Arrive(w, e) \/ Reanalyse(w, e)
      PROVE  rows' = rows
  BY <1>7 DEF Arrive, Reanalyse
<1>8. ASSUME \/ \E c \in Client, i \in 1..Len(rows) : ReadForOutcome(c, i)
             \/ \E c \in Client : RepeatOutcome(c)
             \/ \E granted \in case.charters : SetCharter(granted)
             \/ \E c \in Client, s \in Scope : Open(c, s)
             \/ \E c \in Client :
                   \E content \in [mode : Modes \cup {Inherit}, hears : {TRUE, FALSE, Inherit}] :
                       Save(c, content)
             \/ \E g \in Goal : Delete(g)
             \/ Tick
             \/ UNCHANGED vars
      PROVE  rows' = rows
  BY <1>8 DEF ReadForOutcome, RepeatOutcome, SetCharter, Open, Save, Delete, Tick, vars
<1> QED BY <1>2, <1>3, <1>4, <1>5, <1>6, <1>7, <1>8 DEF Next

\* Whoever is counted after one row is published was counted before, or is that row.
LEMMA OneMoreShown ==
    ASSUME Tables, NEW i, OneAppears(i), NEW S, S \subseteq 1..Len(rows), NEW S2,
           S2 \subseteq 1..Len(rows'), \A j \in S2 : j # i => j \in S,
           NEW q \in Nat, Cardinality(Recent(S)) < q
    PROVE  Cardinality({j \in S2 : rows'[j].at # 0 /\ rows'[j].at >= now - Window}) <= q
<1> DEFINE A == Recent(S)
           B == {j \in S2 : rows'[j].at # 0 /\ rows'[j].at >= now - Window}
<1>1. IsFiniteSet(1..Len(rows))
  BY RowsAreKnown, FS_Interval
<1>2. A \subseteq 1..Len(rows)
  BY DEF Recent
<1>3. IsFiniteSet(A)
  BY <1>1, <1>2, FS_Subset
<1>4. B \subseteq A \cup {i}
  <2> SUFFICES ASSUME NEW j \in B, j # i
               PROVE  j \in A
    OBVIOUS
  <2>1. j \in S /\ rows'[j].at = rows[j].at
    BY DEF OneAppears
  <2> QED BY <2>1 DEF Recent
<1> HIDE DEF A, B
<1>8. /\ IsFiniteSet(A \cup {i})
      /\ Cardinality(A \cup {i}) = Cardinality(A) \/ Cardinality(A \cup {i}) = Cardinality(A) + 1
  BY <1>3, FS_AddElement
<1>9. Cardinality(A) \in Nat
  BY <1>3, FS_CardinalityType
<1>5. /\ IsFiniteSet(A \cup {i}) /\ Cardinality(A) \in Nat
      /\ Cardinality(A \cup {i}) <= Cardinality(A) + 1
      /\ Cardinality(A \cup {i}) \in Nat
  BY <1>8, <1>9
<1>6. Cardinality(B) \in Nat /\ Cardinality(B) <= Cardinality(A \cup {i})
  BY <1>4, <1>5, FS_Subset, FS_CardinalityType
<1>7. Cardinality(B) <= q
  BY <1>5, <1>6 DEF A
<1> QED BY <1>7 DEF B

\* The promise of PublishesWithinLimits, of one row.
Limited(i, S, ours) ==
    LET row == rows'[i]
        g == Candidate[row.event].goal
        shown(T) == {j \in T : rows'[j].at # 0 /\ rows'[j].at >= now - Window}
    IN  /\ ~Says(g, "paused")
        /\ Says(g, "important_only") => row.level >= 3
        /\ ~Candidate[row.event].bypass =>
               /\ pref[Global].mode \in DOMAIN Quota =>
                      Cardinality(shown(S)) <= Quota[pref[Global].mode]
               /\ pref[g].mode \in DOMAIN Quota =>
                      Cardinality(shown(ours)) <= Quota[pref[g].mode]
               /\ GoalMode(g) \in DOMAIN Cooldown =>
                      \A j \in ours \ {i} : rows'[j].at # 0 =>
                          now - rows'[j].at >= Cooldown[GoalMode(g)]

\* Advice of the goal of g.
Ours(g) == {j \in 1..Len(rows') : Candidate[rows'[j].event].goal = g}

\* A row that passes the gate is within the limits once it is counted.
LEMMA TheGateLimits ==
    ASSUME Tables, NEW i, OneAppears(i)
    PROVE  Limited(i, 1..Len(rows'), Ours(Candidate[rows'[i].event].goal))
<1> DEFINE c == Candidate[rows'[i].event]
           g == c.goal
           ours == Ours(g)
           shown(T) == {j \in T : rows'[j].at # 0 /\ rows'[j].at >= now - Window}
<1>1. /\ ~Says(g, "paused")
      /\ ~(Says(g, "important_only") /\ rows'[i].level < 3)
      /\ ~c.bypass => /\ ~Full(pref[Global].mode, 1..Len(rows)) /\ ~Cooling(g)
                      /\ ~Full(pref[g].mode, OfGoal(g))
  BY DEF OneAppears, Blocked
<1>2. rows'[i].level \in Nat /\ Len(rows) \in Nat /\ Len(rows') \in Nat
  BY RowsAreKnown DEF OneAppears, Level
<1>3. \A m \in DOMAIN Quota : Quota[m] \in Nat /\ Cooldown[m] \in Nat
  BY PolicyAssumption
<1>4. /\ now \in Nat /\ \A j \in 1..Len(rows) : rows[j].at \in Nat
  BY RowTypes DEF Tables, TypesHold
<1>5. ASSUME NEW S, S \subseteq 1..Len(rows)
      PROVE  Cardinality(Recent(S)) \in Nat
  <2> DEFINE A == Recent(S)
  <2>1. A \subseteq 1..Len(rows)
    BY <1>5 DEF Recent
  <2>2. IsFiniteSet(1..Len(rows))
    BY <1>2, FS_Interval
  <2> HIDE DEF A
  <2>3. Cardinality(A) \in Nat
    BY <2>1, <2>2, FS_Subset, FS_CardinalityType
  <2> QED BY <2>3 DEF A
<1>6. ASSUME NEW j \in ours, j # i
      PROVE  j \in 1..Len(rows) /\ rows'[j].at = rows[j].at /\ j \in OfGoal(g)
  <2>1. j \in 1..Len(rows') /\ Candidate[rows'[j].event].goal = g
    BY DEF Ours
  <2>2. j <= Len(rows) /\ rows'[j].at = rows[j].at /\ rows'[j].event = rows[j].event
    BY <1>6, <2>1 DEF OneAppears
  <2>3. j \in 1..Len(rows)
    BY <1>2, <2>1, <2>2
  <2> QED BY <2>1, <2>2, <2>3 DEF OfGoal, Of
<1>7. /\ 1..Len(rows') \subseteq 1..Len(rows') /\ ours \subseteq 1..Len(rows')
      /\ OfGoal(g) \subseteq 1..Len(rows)
      /\ \A j \in 1..Len(rows') : j # i => j \in 1..Len(rows)
  BY <1>2 DEF Ours, OfGoal, OneAppears
<1> HIDE DEF ours, g, c
<1>8. ASSUME NEW S, S \subseteq 1..Len(rows), NEW S2, S2 \subseteq 1..Len(rows'),
             \A j \in S2 : j # i => j \in S, NEW m \in DOMAIN Quota, ~Full(m, S)
      PROVE  Cardinality(shown(S2)) <= Quota[m]
  <2>2. ~(Cardinality(Recent(S)) >= Quota[m])
    BY <1>8 DEF Full
  <2>3. Cardinality(Recent(S)) \in Nat /\ Quota[m] \in Nat
    BY <1>3, <1>5, <1>8
  <2>1. Cardinality(Recent(S)) < Quota[m]
    BY <2>2, <2>3
  <2> QED BY <1>3, <1>8, <2>1, OneMoreShown
<1>9. ASSUME ~c.bypass, pref[Global].mode \in DOMAIN Quota
      PROVE  Cardinality(shown(1..Len(rows'))) <= Quota[pref[Global].mode]
  BY <1>1, <1>7, <1>8, <1>9
<1>10. ASSUME ~c.bypass, pref[g].mode \in DOMAIN Quota
       PROVE  Cardinality(shown(ours)) <= Quota[pref[g].mode]
  BY <1>1, <1>6, <1>7, <1>8, <1>10
<1>11. ASSUME ~c.bypass, GoalMode(g) \in DOMAIN Cooldown, NEW j \in ours \ {i}, rows'[j].at # 0
       PROVE  now - rows'[j].at >= Cooldown[GoalMode(g)]
  <2>1. /\ j \in 1..Len(rows) /\ rows'[j].at = rows[j].at /\ Of(j).goal = g
    BY <1>6, <1>11 DEF OfGoal
  <2>2. ~(now - rows[j].at < Cooldown[GoalMode(g)])
    BY <1>1, <1>11, <2>1 DEF Cooling
  <2>3. Cooldown[GoalMode(g)] \in Nat
    BY <1>3, <1>11, PolicyAssumption
  <2> QED BY <1>4, <2>1, <2>2, <2>3
<1>12. Says(g, "important_only") => rows'[i].level >= 3
  BY <1>1, <1>2
<1> HIDE DEF shown
<1>13. /\ ~c.bypass /\ pref[Global].mode \in DOMAIN Quota =>
              Cardinality(shown(1..Len(rows'))) <= Quota[pref[Global].mode]
       /\ ~c.bypass /\ pref[g].mode \in DOMAIN Quota =>
              Cardinality(shown(ours)) <= Quota[pref[g].mode]
       /\ ~c.bypass /\ GoalMode(g) \in DOMAIN Cooldown =>
              \A j \in ours \ {i} : rows'[j].at # 0 => now - rows'[j].at >= Cooldown[GoalMode(g)]
  BY <1>9, <1>10, <1>11
<1> QED BY <1>1, <1>12, <1>13 DEF Limited, shown, c, g, ours

\* Whichever evaluations, reviews and settings interleave, nothing appears for the user
\* while its goal, or everything, is paused, below level 3 while only what is important
\* is wanted, or, unless it was asked for or an emergency, beyond what the modes then in
\* force allow in the window, all that was published in it counted.
THEOREM PublishesInLimits == Spec => PublishesWithinLimits
<1> DEFINE P == \A i \in 1..Len(rows') :
                   (rows'[i].at # 0 /\ (i > Len(rows) \/ rows[i].at = 0)) =>
                       Limited(i, 1..Len(rows'), Ours(Candidate[rows'[i].event].goal))
<1>1. ASSUME Tables, [Next]_vars
      PROVE  P
  <2> SUFFICES ASSUME NEW i \in 1..Len(rows'), rows'[i].at # 0, i > Len(rows) \/ rows[i].at = 0
               PROVE  Limited(i, 1..Len(rows'), Ours(Candidate[rows'[i].event].goal))
    BY DEF P
  <2>1. Len(rows) \in Nat
    BY <1>1, RowsAreKnown
  <2>2. ~NoneAppears
    BY <2>1 DEF NoneAppears
  <2>3. PICK k \in 1..Len(rows') : OneAppears(k)
    BY <1>1, <2>2, WhatAppears
  <2>4. i = k
    <3> SUFFICES ASSUME i # k
                 PROVE  FALSE
      OBVIOUS
    <3>1. i <= Len(rows) /\ rows'[i].at = rows[i].at
      BY <2>3 DEF OneAppears
    <3> QED BY <2>1, <3>1
  <2> QED BY <1>1, <2>3, <2>4, TheGateLimits
<1>2. P <=> \A i \in 1..Len(rows') :
          LET row == rows'[i]
              g == Candidate[row.event].goal
              shown(S) == {j \in S : rows'[j].at # 0 /\ rows'[j].at >= now - Window}
              ours == {j \in 1..Len(rows') : Candidate[rows'[j].event].goal = g}
          IN  (row.at # 0 /\ (i > Len(rows) \/ rows[i].at = 0)) =>
                  /\ ~Says(g, "paused")
                  /\ Says(g, "important_only") => row.level >= 3
                  /\ ~Candidate[row.event].bypass =>
                         /\ pref[Global].mode \in DOMAIN Quota =>
                                Cardinality(shown(1..Len(rows'))) <= Quota[pref[Global].mode]
                         /\ pref[g].mode \in DOMAIN Quota =>
                                Cardinality(shown(ours)) <= Quota[pref[g].mode]
                         /\ GoalMode(g) \in DOMAIN Cooldown =>
                                \A j \in ours \ {i} : rows'[j].at # 0 =>
                                    now - rows'[j].at >= Cooldown[GoalMode(g)]
  BY DEF P, Limited, Ours
<1>3. Tables /\ [Next]_vars => P
  BY <1>1
<1> HIDE DEF P
<1> QED BY <1>2, <1>3, TablesStayInOrder, PTL DEF Spec, PublishesWithinLimits

-----------------------------------------------------------------------------
(* Settings screens.                                                       *)

\* A screen shows a revision that was, and the one that is as it is, unless the
\* preference was deleted meanwhile.
Truthful(p) ==
    p # Nobody /\ ~p.deleted =>
        /\ p.rev <= pref[p.scope].rev
        /\ p.rev = pref[p.scope].rev => p.content = Content(pref[p.scope])

ScreensAreTruthful == \A c \in Client : Truthful(page[c])

\* What is chosen is what is shown.
LEMMA ChosenIsShown ==
    ASSUME NEW rev \in Nat, NEW content \in Contents
    PROVE  Content(Chosen(rev, content)) = content /\ Chosen(rev, content).rev = rev
BY DEF Content, Chosen, Contents

\* A screen that saved shows what it saved.
LEMMA SavedShows ==
    ASSUME NEW p \in Page, NEW rev \in Nat, NEW content \in Contents
    PROVE  /\ Saved(p, rev, content) \in Page
           /\ Saved(p, rev, content).scope = p.scope /\ Saved(p, rev, content).rev = rev
           /\ Saved(p, rev, content).content = content
BY DEF Saved, Page

\* Opening a screen and saving keep screens truthful.
LEMMA SavingKeepsScreens ==
    ASSUME Tables, ScreensAreTruthful, NEW c \in Client, NEW content \in Contents, Save(c, content)
    PROVE  ScreensAreTruthful'
<1>1. TypesHold
  BY DEF Tables
<1>2. PICK s : s = page[c].scope
  OBVIOUS
<1>3. page[c] \in Page /\ s \in Scope /\ pref[s].rev \in Nat /\ pref[s].rev + 1 \in Nat
  BY <1>1, <1>2, SaveCases, ContentTypes
<1>4. \A d \in Client : page[d] # Nobody => page[d] \in Page /\ page[d].rev \in Nat
                                          /\ page[d].scope \in Scope
  BY <1>1 DEF TypesHold, Page
<1>5. CASE /\ page' = [page EXCEPT ![c] = Saved(page[c], pref[s].rev, content)]
           /\ content = Content(pref[s]) /\ UNCHANGED pref
  <2> DEFINE new == Saved(page[c], pref[s].rev, content)
  <2>1. new.scope = s /\ new.rev = pref[s].rev /\ new.content = content
    BY <1>2, <1>3, SavedShows
  <2> HIDE DEF new
  <2>2. page'[c] = new /\ \A d \in Client \ {c} : page'[d] = page[d]
    BY <1>1, <1>5 DEF TypesHold, new
  <2>3. ASSUME NEW d \in Client
        PROVE  Truthful(page[d])'
    BY <1>3, <1>5, <2>1, <2>2 DEF ScreensAreTruthful, Truthful, Content
  <2> QED BY <2>3 DEF ScreensAreTruthful
<1>6. CASE /\ page' = [page EXCEPT ![c] = Saved(page[c], pref[s].rev + 1, content)]
           /\ pref' = [pref EXCEPT ![s] = Chosen(pref[s].rev + 1, content)]
  <2> DEFINE new == Saved(page[c], pref[s].rev + 1, content)
             p == Chosen(pref[s].rev + 1, content)
  <2>1. new.scope = s /\ new.rev = pref[s].rev + 1 /\ new.content = content
    <3>1. PICK n \in Nat : n = pref[s].rev + 1
      BY <1>3
    <3>2. new = Saved(page[c], n, content)
      BY <3>1
    <3> HIDE DEF new
    <3> QED BY <1>2, <1>3, <3>1, <3>2, SavedShows
  <2>2. p.rev = pref[s].rev + 1 /\ Content(p) = content
    BY <1>3, ChosenIsShown
  <2> HIDE DEF new, p
  <2>3. page'[c] = new /\ \A d \in Client \ {c} : page'[d] = page[d]
    BY <1>1, <1>6 DEF TypesHold, new
  <2>4. pref'[s] = p /\ \A t \in Scope \ {s} : pref'[t] = pref[t]
    BY <1>1, <1>3, <1>6 DEF TypesHold, p
  <2>5. Truthful(page[c])'
    BY <1>3, <2>1, <2>2, <2>3, <2>4 DEF Truthful, Content
  <2>6. ASSUME NEW d \in Client \ {c}
        PROVE  Truthful(page[d])'
    <3>1. CASE page[d] = Nobody \/ page[d].deleted
      BY <2>3, <3>1 DEF Truthful
    <3>2. CASE page[d] # Nobody /\ page[d].scope # s
      BY <1>4, <2>3, <2>4, <3>2 DEF ScreensAreTruthful, Truthful, Content
    <3>3. CASE page[d] # Nobody /\ ~page[d].deleted /\ page[d].scope = s
      <4>1. page[d].rev <= pref[s].rev /\ page[d].rev \in Nat
        BY <1>4, <3>3 DEF ScreensAreTruthful, Truthful
      <4>2. page[d].rev < pref'[s].rev /\ page'[d] = page[d]
        BY <1>3, <2>2, <2>3, <2>4, <4>1
      <4> QED BY <1>3, <1>4, <2>2, <2>4, <3>3, <4>1, <4>2 DEF Truthful
    <3> QED BY <3>1, <3>2, <3>3
  <2> QED BY <2>5, <2>6 DEF ScreensAreTruthful
<1>7. CASE page' = [page EXCEPT ![c] = Nobody] /\ UNCHANGED pref
  <2>1. \A d \in Client : page'[d] = Nobody \/ page'[d] = page[d]
    BY <1>1, <1>7 DEF TypesHold
  <2> QED BY <1>7, <2>1 DEF ScreensAreTruthful, Truthful, Content
<1> QED BY <1>2, <1>5, <1>6, <1>7, SaveCases

\* Evaluations do not touch preferences or screens.
LEMMA EvaluationsOnlyRead ==
    ASSUME NEW w \in Worker, Evaluate(w)
    PROVE  pref' = pref /\ page' = page
<1>1. CASE \/ Filter(w) \/ AskCharter(w) \/ AskTrust(w) \/ AskFreeze(w) \/ AskSilence(w)
           \/ AskPreference(w)
  BY <1>1 DEF Filter, AskCharter, AskTrust, AskFreeze, AskSilence, AskPreference, reads, settings
<1>2. CASE AskDuplicate(w)
  BY <1>2 DEF AskDuplicate, reads, settings
<1>3. CASE Insert(w)
  BY <1>3 DEF Insert, reads, settings
<1>4. CASE Discard(w)
  BY <1>4 DEF Discard, settings
<1>5. CASE Refine(w)
  BY <1>5 DEF Refine, reads, settings
<1>6. CASE Unrefined(w)
  BY <1>6 DEF Unrefined, settings
<1> QED BY <1>1, <1>2, <1>3, <1>4, <1>5, <1>6 DEF Evaluate

\* Only settings screens do.
LEMMA WhoTouchesSettings ==
    ASSUME [Next]_vars
    PROVE  \/ pref' = pref /\ page' = page
           \/ \E c \in Client, s \in Scope : Open(c, s)
           \/ \E c \in Client :
                 \E content \in [mode : Modes \cup {Inherit}, hears : {TRUE, FALSE, Inherit}] :
                     Save(c, content)
           \/ \E g \in Goal : Delete(g)
<1>1. ASSUME NEW w \in Worker, NEW e \in Event, Arrive(w, e) \/ Reanalyse(w, e)
      PROVE  pref' = pref /\ page' = page
  BY <1>1 DEF Arrive, Reanalyse, settings
<1>2. CASE List
  BY <1>2 DEF List, reads, settings
<1>3. ASSUME NEW i \in 1..Len(rows), NEW kind \in Answers, Feedback(i, kind)
      PROVE  pref' = pref /\ page' = page
  BY <1>3 DEF Feedback, settings
<1>4. ASSUME NEW c \in Client, NEW i \in 1..Len(rows), ReadForOutcome(c, i)
      PROVE  pref' = pref /\ page' = page
  BY <1>4 DEF ReadForOutcome, settings
<1>5. ASSUME NEW c \in Client, NEW verdict \in {"good", "bad", "unknown"}, RecordOutcome(c, verdict)
      PROVE  pref' = pref /\ page' = page
  BY <1>5 DEF RecordOutcome, settings
<1>6. ASSUME NEW c \in Client, RepeatOutcome(c)
      PROVE  pref' = pref /\ page' = page
  BY <1>6 DEF RepeatOutcome, settings
<1>7. ASSUME NEW granted \in case.charters, SetCharter(granted)
      PROVE  pref' = pref /\ page' = page
  BY <1>7 DEF SetCharter, settings
<1>8. CASE Tick
  BY <1>8 DEF Tick, settings
<1>9. ASSUME NEW w \in Worker, Evaluate(w)
      PROVE  pref' = pref /\ page' = page
  BY <1>9, EvaluationsOnlyRead
<1>10. CASE UNCHANGED vars
  BY <1>10 DEF vars
<1> QED BY <1>1, <1>2, <1>3, <1>4, <1>5, <1>6, <1>7, <1>8, <1>9, <1>10 DEF Next

\* Every step does.
LEMMA ScreensStep ==
    ASSUME Tables, ScreensAreTruthful, [Next]_vars
    PROVE  ScreensAreTruthful'
<1>1. TypesHold
  BY DEF Tables
<1>2. ASSUME NEW c \in Client, NEW s \in Scope, Open(c, s)
      PROVE  ScreensAreTruthful'
  <2> DEFINE new == [scope |-> s, rev |-> pref[s].rev, content |-> Content(pref[s]), deleted |-> FALSE]
  <2>1. page' = [page EXCEPT ![c] = new] /\ UNCHANGED pref
    BY <1>2 DEF Open
  <2>2. new.scope = s /\ new.rev = pref[s].rev /\ new.content = Content(pref[s])
    OBVIOUS
  <2>3. pref[s].rev \in Nat
    BY <1>1, ContentTypes
  <2> HIDE DEF new
  <2>4. page'[c] = new /\ \A d \in Client \ {c} : page'[d] = page[d]
    BY <1>1, <2>1 DEF TypesHold
  <2>5. ASSUME NEW d \in Client
        PROVE  Truthful(page[d])'
    BY <2>1, <2>2, <2>3, <2>4 DEF ScreensAreTruthful, Truthful, Content
  <2> QED BY <2>5 DEF ScreensAreTruthful
<1>3. ASSUME NEW c \in Client,
             NEW content \in [mode : Modes \cup {Inherit}, hears : {TRUE, FALSE, Inherit}],
             Save(c, content)
      PROVE  ScreensAreTruthful'
  <2>1. content \in Contents
    BY DEF Contents
  <2> QED BY <1>3, <2>1, SavingKeepsScreens
<1>4. ASSUME NEW g \in Goal, Delete(g)
      PROVE  ScreensAreTruthful'
  <2>1. /\ page' = [c \in Client |-> Marked(page[c], g)] /\ pref' = [pref EXCEPT ![g] = Absent(g)]
    BY <1>4 DEF Delete, Marked
  <2>2. \A s \in Scope \ {g} : pref'[s] = pref[s]
    BY <1>1, <2>1 DEF TypesHold
  <2>3. ASSUME NEW c \in Client
        PROVE  Truthful(page[c])'
    <3>1. page'[c] = Marked(page[c], g)
      BY <2>1
    <3>2. CASE page[c] # Nobody /\ page[c].scope = g
      <4>1. page[c] \in Page
        BY <1>1, <3>2 DEF TypesHold
      <4>2. page'[c].deleted
        BY <3>1, <3>2, <4>1 DEF Marked, Page
      <4> QED BY <4>2 DEF Truthful
    <3>3. CASE page[c] # Nobody /\ page[c].scope # g
      <4>1. page[c] \in Page /\ page[c].scope \in Scope \ {g}
        BY <1>1, <3>3 DEF TypesHold, Page
      <4>2. page'[c] = page[c] /\ pref'[page[c].scope] = pref[page[c].scope]
        BY <2>2, <3>1, <3>3, <4>1 DEF Marked
      <4> QED BY <4>2 DEF ScreensAreTruthful, Truthful, Content
    <3>4. CASE page[c] = Nobody
      BY <3>1, <3>4 DEF Marked, Truthful
    <3> QED BY <3>2, <3>3, <3>4
  <2> QED BY <2>3 DEF ScreensAreTruthful
<1>5. ASSUME pref' = pref, page' = page
      PROVE  ScreensAreTruthful'
  BY <1>5 DEF ScreensAreTruthful, Truthful, Content
<1> QED BY <1>2, <1>3, <1>4, <1>5, WhoTouchesSettings DEF Next

\* A preference gets a new revision from a screen that showed the old one.
LEMMA RevisionsWereSeen ==
    ASSUME Tables, ScreensAreTruthful, [Next]_vars, NEW s \in Scope, pref'[s].rev > pref[s].rev
    PROVE  \E c \in Client :
              /\ page[c] # Nobody /\ page'[c] # Nobody /\ page[c].scope = s
              /\ page'[c].content = Content(pref'[s])
              /\ page[c].deleted \/ page[c].content = Content(pref[s])
<1>1. TypesHold /\ pref[s].rev \in Nat
  BY ContentTypes DEF Tables
<1>2. pref' # pref
  BY <1>1
<1>3. ~ \E g \in Goal : Delete(g)
  <2> SUFFICES ASSUME NEW g \in Goal, Delete(g)
               PROVE  FALSE
    OBVIOUS
  <2>1. pref' = [pref EXCEPT ![g] = Absent(g)] /\ pref[s].rev \in Nat
    BY <1>1 DEF Delete
  <2>2. pref'[s] = pref[s] \/ pref'[s] = Absent(s)
    BY <1>1, <2>1 DEF TypesHold
  <2>3. pref'[s].rev = pref[s].rev \/ pref'[s].rev = 0
    BY <1>1, <2>2, ContentTypes
  <2> QED BY <1>1, <2>3
<1>4. PICK c \in Client, content \in [mode : Modes \cup {Inherit}, hears : {TRUE, FALSE, Inherit}] :
        Save(c, content)
  <2>2. ~ \E c \in Client, t \in Scope : Open(c, t)
    BY <1>2 DEF Open
  <2> QED BY <1>2, <1>3, <2>2, WhoTouchesSettings
<1>5. content \in Contents
  BY DEF Contents
<1>6. PICK t : t = page[c].scope
  OBVIOUS
<1>7. page[c] \in Page /\ t \in Scope /\ page[c] # Nobody /\ pref[t].rev \in Nat
      /\ pref[t].rev + 1 \in Nat
  BY <1>1, <1>4, <1>5, <1>6, SaveCases, ContentTypes
<1>8. /\ page' = [page EXCEPT ![c] = Saved(page[c], pref[t].rev + 1, content)]
      /\ page[c].rev = pref[t].rev
      /\ pref' = [pref EXCEPT ![t] = Chosen(pref[t].rev + 1, content)]
  BY <1>2, <1>4, <1>5, <1>6, SaveCases
<1> DEFINE new == Saved(page[c], pref[t].rev + 1, content)
           p == Chosen(pref[t].rev + 1, content)
<1>9. new \in Page /\ new.content = content /\ Content(p) = content
  BY <1>5, <1>7, SavedShows, ChosenIsShown
<1> HIDE DEF new, p
<1>10. page'[c] = new
  BY <1>1, <1>8 DEF TypesHold, new
<1>11. pref'[t] = p /\ \A u \in Scope \ {t} : pref'[u] = pref[u]
  BY <1>1, <1>7, <1>8 DEF TypesHold, p
<1>12. s = t
  BY <1>1, <1>11
<1>13. page'[c] # Nobody /\ page'[c].content = Content(pref'[s])
  BY <1>9, <1>10, <1>11, <1>12, NobodyAssumption DEF Content
<1>14. page[c].deleted \/ page[c].content = Content(pref[s])
  BY <1>6, <1>7, <1>8, <1>12 DEF ScreensAreTruthful, Truthful
<1> QED BY <1>6, <1>7, <1>12, <1>13, <1>14

\* A settings screen overwrites only what it has shown: who saves with an old revision
\* loses nothing of others', except that a goal's preference that was deleted and made
\* again may have the revision of the old one.
THEOREM NothingIsOverwrittenUnseen == Spec => NothingOverwrittenUnseen
<1>1. Init => ScreensAreTruthful
  BY DEF Init, ScreensAreTruthful, Truthful
<1>2. Tables /\ ScreensAreTruthful /\ [Next]_vars => ScreensAreTruthful'
  BY ScreensStep
<1>3. Tables /\ ScreensAreTruthful /\ [Next]_vars =>
        \A s \in Scope :
          pref'[s].rev > pref[s].rev =>
              \E c \in Client :
                  /\ page[c] # Nobody /\ page'[c] # Nobody /\ page[c].scope = s
                  /\ page'[c].content = Content(pref'[s])
                  /\ page[c].deleted \/ page[c].content = Content(pref[s])
  BY RevisionsWereSeen
<1> QED BY <1>1, <1>2, <1>3, TablesStayInOrder, PTL DEF Spec, NothingOverwrittenUnseen

-----------------------------------------------------------------------------
(* Mistakes and the level at which advice speaks.                          *)

\* The errors of a level that are counted when one of them is made at this time.
Upto(errors, l, at) == {y \in errors : y.level = l /\ y.at >= at - ErrorWindow[l] /\ y.at <= at}

\* No level up to this one is frozen by these errors.
Quiet(errors, level, at) == \A l \in 2..level : ~FrozenBy(errors, l, at)

\* Every error that was one too many left its level frozen, and none was entered twice.
FreezesHold ==
    /\ IsFiniteSet(ledger)
    /\ \A x \in ledger : x.at <= now
    /\ \A x, y \in ledger : x.row = y.row => x = y
    /\ \A l \in 2..4 : freeze[l] <= now + FreezeTime
    /\ \A x \in ledger :
          (x.level \in 2..4 /\ Cardinality(Upto(ledger, x.level, x.at)) > AllowedErrors[x.level])
              => freeze[x.level] >= x.at + FreezeTime

\* Evaluations that have asked for freezes.
Speaking == {"silence", "preference", "duplicate", "insert"}

VoicesAreQuiet ==
    /\ \A i \in 1..Len(rows) : Quiet(rows[i].frozenBy, rows[i].level, rows[i].weighed)
    /\ \A w \in Worker : worker[w] # Idle /\ worker[w].step \in Speaking =>
          Quiet(worker[w].errors, worker[w].level, worker[w].at)

\* Below what the freezes leave, no level is frozen by the errors on record.
LEMMA FreezesSilence ==
    ASSUME TypesHold, FreezesHold, NEW level \in Level
    PROVE  Quiet(ledger, Available(level), now)
<1> SUFFICES ASSUME NEW l \in 2..Available(level), NEW x \in ledger,
                    x.level = l, x.at + FreezeTime > now,
                    Cardinality(Upto(ledger, l, x.at)) > AllowedErrors[l]
             PROVE  FALSE
  BY DEF Quiet, FrozenBy, Upto
<1>1. Available(level) \in 1..4 /\ freeze[l] <= now
  BY AvailableLevel DEF Level
<1>2. l \in 2..4
  BY <1>1
<1>3. freeze[l] >= x.at + FreezeTime
  BY <1>2 DEF FreezesHold
<1>4. /\ freeze[l] \in Nat /\ now \in Nat /\ x.at \in Nat /\ FreezeTime \in Nat
  BY <1>2, PolicyAssumption DEF TypesHold, Entry
<1> QED BY <1>1, <1>3, <1>4

\* An error that is entered freezes its level when it is one too many.
LEMMA OneMoreError ==
    ASSUME TypesHold, FreezesHold, NEW new \in Entry, NEW level, level = new.level, new.at = now,
           \A x \in ledger : x.row # new.row,
           ledger' = ledger \cup {new}, now' = now,
           freeze' = IF level >= 2 /\ Cardinality(Counted(level, ledger')) > AllowedErrors[level]
                     THEN [freeze EXCEPT ![level] = now + FreezeTime] ELSE freeze
    PROVE  FreezesHold'
<1>1. /\ level \in 1..4 /\ now \in Nat /\ FreezeTime \in Nat /\ now + FreezeTime \in Nat
      /\ freeze \in [2..4 -> Nat] /\ \A x \in ledger : x.at \in Nat /\ x.level \in 1..4
      /\ ErrorWindow \in [2..4 -> Nat] /\ AllowedErrors \in [2..4 -> Nat]
  <2>1. now \in Nat /\ FreezeTime \in Nat /\ freeze \in [2..4 -> Nat] /\ ledger \subseteq Entry
    BY PolicyAssumption DEF TypesHold
  <2>2. \A x \in ledger : x.at \in Nat /\ x.level \in 1..4
    BY <2>1 DEF Entry, Level
  <2>3. level \in 1..4
    BY DEF Entry, Level
  <2> QED BY <2>1, <2>2, <2>3, PolicyAssumption
<1>2. new.level = level /\ new.at = now
  OBVIOUS
<1>3. /\ IsFiniteSet(ledger') /\ \A x \in ledger' : x.at <= now'
      /\ \A x, y \in ledger' : x.row = y.row => x = y
  <2>1. IsFiniteSet(ledger')
    BY FS_AddElement DEF FreezesHold
  <2>2. \A x \in ledger' : x.at <= now'
    BY <1>1, <1>2 DEF FreezesHold
  <2>3. \A x, y \in ledger' : x.row = y.row => x = y
    BY <1>2 DEF FreezesHold
  <2> QED BY <2>1, <2>2, <2>3
<1>4. ASSUME NEW l \in 2..4
      PROVE  /\ freeze'[l] \in Nat /\ freeze'[l] <= now + FreezeTime /\ freeze'[l] >= freeze[l]
             /\ (l = level /\ Cardinality(Counted(level, ledger')) > AllowedErrors[level]) =>
                   freeze'[l] = now + FreezeTime
  <2>1. freeze[l] \in Nat /\ freeze[l] <= now + FreezeTime
    BY <1>1 DEF FreezesHold
  <2>2. CASE level >= 2 /\ Cardinality(Counted(level, ledger')) > AllowedErrors[level]
    <3>1. freeze' = [freeze EXCEPT ![level] = now + FreezeTime]
      BY <2>2
    <3>2. freeze'[l] = IF l = level THEN now + FreezeTime ELSE freeze[l]
      BY <1>1, <3>1
    <3> QED BY <1>1, <2>1, <3>2
  <2>3. CASE ~(level >= 2 /\ Cardinality(Counted(level, ledger')) > AllowedErrors[level])
    <3>1. freeze' = freeze
      BY <2>3
    <3>2. l = level => level >= 2
      OBVIOUS
    <3> QED BY <1>1, <2>1, <2>3, <3>1, <3>2
  <2> QED BY <2>2, <2>3
<1>5. ASSUME NEW x \in ledger', x.level \in 2..4,
             Cardinality(Upto(ledger', x.level, x.at)) > AllowedErrors[x.level]
      PROVE  freeze'[x.level] >= x.at + FreezeTime
  <2> DEFINE l == x.level
  <2>1. l \in 2..4 /\ x.at \in Nat /\ x.at <= now /\ ErrorWindow[l] \in Nat
    <3>1. x = new \/ x \in ledger
      OBVIOUS
    <3>2. x.at \in Nat /\ x.at <= now
      BY <1>1, <1>2, <3>1 DEF FreezesHold
    <3> QED BY <1>1, <1>5, <3>2
  <2>a. Cardinality(Upto(ledger', l, x.at)) > AllowedErrors[l] /\ AllowedErrors[l] \in Nat
    BY <1>1, <1>5
  <2> HIDE DEF l
  <2>2. CASE l = level /\ x.at = now
    <3>1. Upto(ledger', l, x.at) = Counted(level, ledger')
      BY <1>1, <1>3, <2>2 DEF Upto, Counted
    <3>2. Cardinality(Counted(level, ledger')) > AllowedErrors[level]
      BY <2>2, <2>a, <3>1
    <3>3. freeze'[l] = now + FreezeTime
      BY <1>4, <2>1, <2>2, <3>2
    <3>4. freeze'[l] >= x.at + FreezeTime
      BY <1>1, <2>1, <2>2, <3>3
    <3> QED BY <3>4 DEF l
  <2>3. CASE ~(l = level /\ x.at = now)
    <3>1. Upto(ledger', l, x.at) = Upto(ledger, l, x.at)
      <4>1. ~(new.level = l /\ new.at <= x.at)
        <5>1. CASE l # level
          BY <1>2, <5>1
        <5>2. CASE x.at # now
          BY <1>1, <1>2, <2>1, <5>2
        <5> QED BY <2>3, <5>1, <5>2
      <4> QED BY <4>1 DEF Upto
    <3>2. x \in ledger
      BY <1>2, <2>3 DEF l
    <3>3. freeze[l] >= x.at + FreezeTime
      BY <2>1, <2>a, <3>1, <3>2 DEF FreezesHold, l
    <3>4. freeze'[l] \in Nat /\ freeze[l] \in Nat /\ freeze'[l] >= freeze[l]
      BY <1>1, <1>4, <2>1
    <3>5. freeze'[l] >= x.at + FreezeTime
      BY <1>1, <2>1, <3>3, <3>4
    <3> QED BY <3>5 DEF l
  <2> QED BY <2>2, <2>3
<1>6. \A l \in 2..4 : freeze'[l] <= now' + FreezeTime
  BY <1>4
<1>7. \A x \in ledger' :
        (x.level \in 2..4 /\ Cardinality(Upto(ledger', x.level, x.at)) > AllowedErrors[x.level])
            => freeze'[x.level] >= x.at + FreezeTime
  BY <1>5
<1> QED BY <1>3, <1>6, <1>7 DEF FreezesHold, Upto

\* An error is entered, or was before.
LEMMA ErredKeepsFreezes ==
    ASSUME TypesHold, FreezesHold, NEW i \in 1..Len(rows),
           NEW kind \in Errors \cup {"prediction_error"}, Erred(i, kind), now' = now
    PROVE  FreezesHold'
<1>1. CASE UNCHANGED <<ledger, freeze>>
  BY <1>1 DEF FreezesHold, Upto
<1> DEFINE level == rows[i].level
           new == [row |-> i, kind |-> kind, level |-> level, at |-> now]
<1>2. CASE /\ \A x \in ledger : x.row # i
           /\ ledger' = ledger \cup {new}
           /\ freeze' = IF level >= 2 /\ Cardinality(Counted(level, ledger')) > AllowedErrors[level]
                        THEN [freeze EXCEPT ![level] = now + FreezeTime] ELSE freeze
  <2>1. level \in Level /\ now \in Nat /\ i \in 1..MaxRows
    <3>1. Len(rows) \in Nat /\ MaxRows \in Nat /\ Len(rows) <= MaxRows
      BY LenProperties, PolicyAssumption DEF TypesHold
    <3>2. i \in 1..MaxRows
      BY <3>1
    <3> QED BY <3>2, RowTypes DEF TypesHold
  <2>2. new \in Entry /\ new.row = i /\ new.level = level /\ new.at = now
    BY <2>1 DEF Entry
  <2> HIDE DEF new, level
  <2> QED BY <1>2, <2>2, OneMoreError
<1> QED BY <1>1, <1>2 DEF Erred

\* What an evaluation does leaves the books and the clock alone.
LEMMA EvaluationsKeepBooks ==
    ASSUME NEW w \in Worker, Evaluate(w)
    PROVE  ledger' = ledger /\ freeze' = freeze /\ trust' = trust /\ now' = now /\ case' = case
<1>1. CASE \/ Filter(w) \/ AskCharter(w) \/ AskTrust(w) \/ AskFreeze(w) \/ AskSilence(w)
           \/ AskPreference(w)
  BY <1>1 DEF Filter, AskCharter, AskTrust, AskFreeze, AskSilence, AskPreference, reads, books
<1>2. CASE AskDuplicate(w)
  BY <1>2 DEF AskDuplicate, reads, books
<1>3. CASE Insert(w)
  BY <1>3 DEF Insert, reads, books
<1>4. CASE Discard(w)
  BY <1>4 DEF Discard, books
<1>5. CASE Refine(w)
  BY <1>5 DEF Refine, reads, books
<1>6. CASE Unrefined(w)
  BY <1>6 DEF Unrefined, books
<1> QED BY <1>1, <1>2, <1>3, <1>4, <1>5, <1>6 DEF Evaluate

\* Only answers and outcomes enter errors.
LEMMA WhoEntersErrors ==
    ASSUME [Next]_vars
    PROVE  \/ ledger' = ledger /\ freeze' = freeze /\ now' = now
           \/ Tick
           \/ \E i \in 1..Len(rows), kind \in Answers : Feedback(i, kind)
           \/ \E c \in Client, verdict \in {"good", "bad", "unknown"} : RecordOutcome(c, verdict)
<1>1. ASSUME NEW w \in Worker, NEW e \in Event, Arrive(w, e) \/ Reanalyse(w, e)
      PROVE  ledger' = ledger /\ freeze' = freeze /\ now' = now
  BY <1>1 DEF Arrive, Reanalyse, books
<1>2. CASE List
  BY <1>2 DEF List, reads, books
<1>3. ASSUME NEW c \in Client, NEW i \in 1..Len(rows), ReadForOutcome(c, i)
      PROVE  ledger' = ledger /\ freeze' = freeze /\ now' = now
  BY <1>3 DEF ReadForOutcome, books
<1>4. ASSUME NEW c \in Client, RepeatOutcome(c)
      PROVE  ledger' = ledger /\ freeze' = freeze /\ now' = now
  BY <1>4 DEF RepeatOutcome, books
<1>5. ASSUME NEW granted \in case.charters, SetCharter(granted)
      PROVE  ledger' = ledger /\ freeze' = freeze /\ now' = now
  BY <1>5 DEF SetCharter, books
<1>6. ASSUME NEW c \in Client, NEW s \in Scope, Open(c, s)
      PROVE  ledger' = ledger /\ freeze' = freeze /\ now' = now
  BY <1>6 DEF Open, books
<1>7. ASSUME NEW c \in Client,
             NEW content \in [mode : Modes \cup {Inherit}, hears : {TRUE, FALSE, Inherit}],
             Save(c, content)
      PROVE  ledger' = ledger /\ freeze' = freeze /\ now' = now
  BY <1>7 DEF Save, books
<1>8. ASSUME NEW g \in Goal, Delete(g)
      PROVE  ledger' = ledger /\ freeze' = freeze /\ now' = now
  BY <1>8 DEF Delete, books
<1>9. ASSUME NEW w \in Worker, Evaluate(w)
      PROVE  ledger' = ledger /\ freeze' = freeze /\ now' = now
  BY <1>9, EvaluationsKeepBooks
<1>10. CASE UNCHANGED vars
  BY <1>10 DEF vars
<1> QED BY <1>1, <1>2, <1>3, <1>4, <1>5, <1>6, <1>7, <1>8, <1>9, <1>10 DEF Next

\* Every step leaves what the errors froze frozen.
LEMMA FreezesStep ==
    ASSUME Tables, FreezesHold, [Next]_vars
    PROVE  FreezesHold'
<1>1. TypesHold
  BY DEF Tables
<1>2. CASE ledger' = ledger /\ freeze' = freeze /\ now' = now
  BY <1>2 DEF FreezesHold, Upto
<1>3. CASE Tick
  <2>1. /\ ledger' = ledger /\ freeze' = freeze /\ now' = now + 1
        /\ now \in Nat /\ FreezeTime \in Nat /\ freeze \in [2..4 -> Nat]
        /\ \A x \in ledger : x.at \in Nat
    BY <1>1, <1>3, PolicyAssumption DEF Tick, books, TypesHold, Entry
  <2>2. /\ \A x \in ledger' : x.at <= now'
        /\ \A l \in 2..4 : freeze'[l] <= now' + FreezeTime
    BY <2>1 DEF FreezesHold
  <2> QED BY <2>1, <2>2 DEF FreezesHold, Upto
<1>4. ASSUME NEW i \in 1..Len(rows), NEW kind \in Answers, Feedback(i, kind)
      PROVE  FreezesHold'
  <2>1. IF kind \in Errors THEN Erred(i, kind) ELSE UNCHANGED <<ledger, freeze>>
    BY <1>4 DEF Feedback
  <2>2. now' = now
    BY <1>4 DEF Feedback
  <2>3. CASE kind \in Errors
    BY <1>1, <2>1, <2>2, <2>3, ErredKeepsFreezes
  <2>4. CASE kind \notin Errors
    BY <1>2, <2>1, <2>2, <2>4
  <2> QED BY <2>3, <2>4
<1>5. ASSUME NEW c \in Client, NEW verdict \in {"good", "bad", "unknown"}, RecordOutcome(c, verdict)
      PROVE  FreezesHold'
  <2>1. PICK i : i = judge[c].row
    OBVIOUS
  <2>2. /\ i \in 1..Len(rows) /\ now' = now
        /\ Fails(c, verdict) => Erred(i, "prediction_error")
        /\ ~Fails(c, verdict) => UNCHANGED <<ledger, freeze>>
    BY <1>5, <2>1, OutcomeCases
  <2>3. CASE Fails(c, verdict)
    BY <1>1, <2>2, <2>3, ErredKeepsFreezes
  <2>4. CASE ~Fails(c, verdict)
    BY <1>2, <2>2, <2>4
  <2> QED BY <2>3, <2>4
<1> QED BY <1>2, <1>3, <1>4, <1>5, WhoEntersErrors

\* A row speaks at the level it had, or at the one an evaluation came to.
SpeaksAsBefore(i) ==
    \/ /\ i \in 1..Len(rows)
       /\ rows'[i].level = rows[i].level /\ rows'[i].frozenBy = rows[i].frozenBy
       /\ rows'[i].weighed = rows[i].weighed
    \/ \E w \in Worker :
          /\ At(w, "insert") /\ rows'[i].level = worker[w].level
          /\ rows'[i].frozenBy = worker[w].errors /\ rows'[i].weighed = worker[w].at

AllSpeakAsBefore == \A i \in 1..Len(rows') : SpeaksAsBefore(i)

\* A row that changes stays at its level.
LEMMA KinSpeaks ==
    ASSUME Tables, NEW i \in 1..Len(rows), NEW r, Kin(r, rows[i]), rows' = Replaced(i, r)
    PROVE  AllSpeakAsBefore
<1>1. rows' = [rows EXCEPT ![i] = r]
  BY DEF Replaced
<1>2. /\ Len(rows') = Len(rows) /\ rows'[i] = r
      /\ \A j \in 1..Len(rows) : j # i => rows'[j] = rows[j]
  BY <1>1, KinAreKnown
<1> QED BY <1>2 DEF AllSpeakAsBefore, SpeaksAsBefore, Kin

\* So do rows that do not, or are withdrawn.
LEMMA RowsSpeak ==
    ASSUME Tables, rows' = rows \/ rows' = Swept
    PROVE  AllSpeakAsBefore
<1>1. CASE rows' = rows
  BY <1>1 DEF AllSpeakAsBefore, SpeaksAsBefore
<1>2. CASE rows' = Swept
  BY <1>2, SweptTypes DEF AllSpeakAsBefore, SpeaksAsBefore, Tables
<1> QED BY <1>1, <1>2

\* A new row speaks at the level its evaluation came to.
LEMMA InsertSpeaks ==
    ASSUME Tables, NEW w \in Worker, Insert(w)
    PROVE  AllSpeakAsBefore
<1> DEFINE c == Candidate[worker[w].event]
           status == IF c.requested < 3 \/ c.reviewed THEN "active" ELSE "provisional"
           new == Row(w, status)
           n == Len(rows) + 1
<1>1. TypesHold /\ At(w, "insert")
  BY DEF Tables, Insert
<1>2. CASE rows' = rows
  BY <1>2, RowsSpeak
<1>3. CASE rows' = Append(rows, new)
  <2>1. /\ new \in AdviceRow /\ new.level = worker[w].level
        /\ new.frozenBy = worker[w].errors /\ new.weighed = worker[w].at
    BY <1>1, NewRow
  <2> HIDE DEF new, c, status
  <2>2. /\ Len(rows') = n /\ rows'[n] = new /\ Len(rows) \in Nat
        /\ \A j \in 1..Len(rows) : rows'[j] = rows[j]
    BY <1>1, <1>3, <2>1, OneRowMore, RowsAreKnown
  <2>3. \A j \in 1..Len(rows') : j \in 1..Len(rows) \/ j = n
    BY <2>2
  <2> HIDE DEF n
  <2> QED BY <1>1, <2>1, <2>2, <2>3 DEF AllSpeakAsBefore, SpeaksAsBefore
<1> QED BY <1>2, <1>3, InsertCases

\* The ends of an evaluation change a row, if any.
LEMMA EndsChangeOne ==
    ASSUME Tables, NEW w \in Worker, Discard(w) \/ Refine(w) \/ Unrefined(w)
    PROVE  rows' = rows \/ \E i \in 1..Len(rows) : \E r : Kin(r, rows[i]) /\ rows' = Replaced(i, r)
<1>1. TypesHold
  BY DEF Tables
<1>2. PICK i \in 1..Len(rows) : i = worker[w].row
  <2>1. /\ worker[w] # Idle /\ worker[w].step \in {"discard", "refine"}
    BY <1>1, AtWork DEF Discard, Refine, Unrefined, Steps
  <2> QED BY <2>1 DEF Tables, WorkIsKnown
<1>3. rows' = Discarded(i) \/ rows' = Promoted(w, i) \/ rows' = Rewritten(w, i)
  BY <1>2 DEF Discard, Refine, Unrefined
<1>4. CASE rows' = Discarded(i)
  <2>1. CASE rows[i].column = "provisional"
    <3>1. PICK r : Kin(r, rows[i]) /\ Discarded(i) = [rows EXCEPT ![i] = r]
      BY <1>1, <2>1, DiscardedRow
    <3> QED BY <1>4, <3>1 DEF Replaced
  <2>2. CASE rows[i].column # "provisional"
    BY <1>1, <1>4, <2>2, DiscardedRow
  <2> QED BY <2>1, <2>2
<1>5. CASE rows' = Rewritten(w, i)
  <2>1. PICK r : Kin(r, rows[i]) /\ Rewritten(w, i) = [rows EXCEPT ![i] = r]
    BY <1>1, RewrittenRow
  <2> QED BY <1>5, <2>1 DEF Replaced
<1>6. CASE rows' = Promoted(w, i)
  <2>1. CASE Promoted(w, i) = Discarded(i)
    BY <1>4, <1>6, <2>1
  <2>2. CASE \E r : Kin(r, rows[i]) /\ Promoted(w, i) = [rows EXCEPT ![i] = r]
    BY <1>6, <2>2 DEF Replaced
  <2> QED BY <1>1, <2>1, <2>2, PromotedRow
<1> QED BY <1>3, <1>4, <1>5, <1>6

\* Whatever happens, advice goes on speaking at the level it was given.
LEMMA LevelsStay ==
    ASSUME Tables, [Next]_vars
    PROVE  AllSpeakAsBefore
<1>1. TypesHold
  BY DEF Tables
<1>2. CASE rows' = rows \/ rows' = Swept
  BY <1>2, RowsSpeak
<1>3. ASSUME NEW w \in Worker, Evaluate(w)
      PROVE  AllSpeakAsBefore
  <2>1. CASE \/ Filter(w) \/ AskCharter(w) \/ AskTrust(w) \/ AskFreeze(w) \/ AskSilence(w)
             \/ AskPreference(w) \/ AskDuplicate(w)
    BY <1>2, <2>1 DEF Filter, AskCharter, AskTrust, AskFreeze, AskSilence, AskPreference,
                      AskDuplicate
  <2>2. CASE Insert(w)
    BY <2>2, InsertSpeaks
  <2>3. CASE Discard(w) \/ Refine(w) \/ Unrefined(w)
    BY <1>2, <2>3, EndsChangeOne, KinSpeaks
  <2> QED BY <1>3, <2>1, <2>2, <2>3 DEF Evaluate
<1>4. ASSUME NEW i \in 1..Len(rows), NEW kind \in Answers, Feedback(i, kind)
      PROVE  AllSpeakAsBefore
  <2>1. Kin(Answered(rows[i], kind), rows[i])
    BY <1>1, RowTypes, AnsweredRow
  <2>2. rows' = Replaced(i, Answered(rows[i], kind))
    BY <1>4 DEF Feedback, Replaced
  <2> QED BY <2>1, <2>2, KinSpeaks
<1>5. ASSUME NEW c \in Client, NEW verdict \in {"good", "bad", "unknown"}, RecordOutcome(c, verdict)
      PROVE  AllSpeakAsBefore
  <2> DEFINE failed == Fails(c, verdict)
  <2>1. PICK i : i = judge[c].row
    OBVIOUS
  <2>2. i \in 1..Len(rows) /\ judge[c] \in Reading
    BY <1>5, <2>1, OutcomeCases
  <2>3. rows' = Replaced(i, Settled(rows[i], verdict, judge[c], failed))
    BY <1>5, <2>1, OutcomeCases
  <2>4. failed \in BOOLEAN /\ rows[i] \in AdviceRow
    BY <1>1, <2>2, RowTypes DEF Fails
  <2> HIDE DEF failed
  <2>5. Kin(Settled(rows[i], verdict, judge[c], failed), rows[i])
    BY <2>2, <2>4, SettledRow
  <2> QED BY <2>2, <2>3, <2>5, KinSpeaks
<1>6. CASE List
  BY <1>2, <1>6 DEF List
<1>7. ASSUME NEW w \in Worker, NEW e \in Event, Arrive(w, e) \/ Reanalyse(w, e)
      PROVE  rows' = rows
  BY <1>7 DEF Arrive, Reanalyse
<1>8. ASSUME \/ \E c \in Client, i \in 1..Len(rows) : ReadForOutcome(c, i)
             \/ \E c \in Client : RepeatOutcome(c)
             \/ \E granted \in case.charters : SetCharter(granted)
             \/ \E c \in Client, s \in Scope : Open(c, s)
             \/ \E c \in Client :
                   \E content \in [mode : Modes \cup {Inherit}, hears : {TRUE, FALSE, Inherit}] :
                       Save(c, content)
             \/ \E g \in Goal : Delete(g)
             \/ Tick
             \/ UNCHANGED vars
      PROVE  rows' = rows
  BY <1>8 DEF ReadForOutcome, RepeatOutcome, SetCharter, Open, Save, Delete, Tick, vars
<1> QED BY <1>2, <1>3, <1>4, <1>5, <1>6, <1>7, <1>8 DEF Next

\* An evaluation may go on if it is quiet wherever it must be.
Hushed(next) ==
    next # Idle /\ next.step \in Speaking => Quiet(next.errors, next.level, next.at)

\* One worker goes on, hushed.
LEMMA OneGoesHushed ==
    ASSUME TypesHold, VoicesAreQuiet, NEW w \in Worker, NEW next, Goes(w, next), Hushed(next)
    PROVE  \A v \in Worker : Hushed(worker'[v])
<1>1. worker'[w] = next /\ \A v \in Worker \ {w} : worker'[v] = worker[v]
  BY DEF TypesHold, Goes
<1> QED BY <1>1 DEF VoicesAreQuiet, Hushed

\* An evaluation that stops is.
LEMMA StoppedIsHushed == Hushed(Idle)
BY DEF Hushed

\* And one that has asked for freezes and takes the next step.
LEMMA NextIsHushed ==
    ASSUME TypesHold, VoicesAreQuiet, NEW w \in Worker, worker[w] # Idle, worker[w] \in Evaluating,
           NEW step \in Steps, worker[w].step \in Speaking \/ step \notin Speaking
    PROVE  Hushed([worker[w] EXCEPT !.step = step])
BY Stepped DEF VoicesAreQuiet, Hushed

\* Every evaluation stays below the levels that were frozen when it asked.
LEMMA EvaluationsStayQuiet ==
    ASSUME Tables, FreezesHold, VoicesAreQuiet, NEW w \in Worker, Evaluate(w)
    PROVE  \A v \in Worker : Hushed(worker'[v])
<1>1. TypesHold
  BY DEF Tables
<1>2. CASE Stops(w)
  BY <1>1, <1>2, OneGoesHushed, StoppedIsHushed DEF Stops
<1>3. ASSUME NEW step \in Steps, Asks(w, step), worker[w] # Idle, worker[w] \in Evaluating,
             worker[w].step \in Speaking \/ step \notin Speaking
      PROVE  \A v \in Worker : Hushed(worker'[v])
  BY <1>1, <1>3, NextIsHushed, OneGoesHushed DEF Asks
<1>4. CASE Filter(w)
  BY <1>1, <1>2, <1>3, <1>4, AtWork DEF Filter, Steps, Speaking
<1>5. CASE AskCharter(w)
  <2> DEFINE next == [worker[w] EXCEPT !.step = "trust", !.cap = charter.max, !.redline = charter.redline]
  <2>1. worker[w] \in Evaluating
    BY <1>1, <1>5, AtWork DEF AskCharter, Steps
  <2>2. next.step = "trust"
    BY <2>1 DEF Evaluating
  <2>3. Goes(w, next) /\ Hushed(next)
    BY <1>5, <2>2 DEF AskCharter, Hushed, Speaking
  <2> QED BY <1>1, <2>3, OneGoesHushed
<1>6. CASE AskTrust(w)
  <2> DEFINE next == [worker[w] EXCEPT
                        !.step = "freeze",
                        !.level = Least(@, Ceiling(@, worker[w].cap, worker[w].redline))]
  <2>1. worker[w] \in Evaluating
    BY <1>1, <1>6, AtWork DEF AskTrust, Steps
  <2>2. next.step = "freeze"
    BY <2>1 DEF Evaluating
  <2>3. Goes(w, next) /\ Hushed(next)
    BY <1>6, <2>2 DEF AskTrust, Hushed, Speaking
  <2> QED BY <1>1, <2>3, OneGoesHushed
<1>7. CASE AskFreeze(w)
  <2> DEFINE quiet == Available(worker[w].level)
             next == [worker[w] EXCEPT !.step = "silence", !.level = quiet,
                                       !.errors = ledger, !.at = now]
  <2>1. worker[w] \in Evaluating /\ worker[w].level \in Level
    BY <1>1, <1>7, AtWork DEF AskFreeze, Steps
  <2>2. Goes(w, next)
    BY <1>7, <2>1 DEF AskFreeze, Goes, Evaluating
  <2>3. Quiet(ledger, quiet, now)
    BY <1>1, <2>1, FreezesSilence
  <2> HIDE DEF quiet
  <2>4. next.level = quiet /\ next.errors = ledger /\ next.at = now
    BY <2>1 DEF Evaluating
  <2>5. Hushed(next)
    BY <2>3, <2>4 DEF Hushed
  <2> QED BY <1>1, <2>2, <2>5, OneGoesHushed
<1>8. CASE AskSilence(w)
  BY <1>1, <1>2, <1>3, <1>8, AtWork DEF AskSilence, Steps, Speaking
<1>9. CASE AskPreference(w)
  BY <1>1, <1>2, <1>3, <1>9, AtWork DEF AskPreference, Steps, Speaking
<1>10. CASE AskDuplicate(w)
  BY <1>1, <1>2, <1>3, <1>10, AtWork DEF AskDuplicate, Steps, Speaking
<1>11. CASE Insert(w)
  <2>1. worker[w] \in Evaluating /\ Len(rows) \in Nat
    BY <1>1, <1>11, AtWork, RowsAreKnown DEF Insert, Steps
  <2>2. ASSUME NEW step \in {"refine", "discard"},
               Goes(w, [worker[w] EXCEPT !.step = step, !.row = Len(rows) + 1])
        PROVE  \A v \in Worker : Hushed(worker'[v])
    <3> DEFINE next == [worker[w] EXCEPT !.step = step, !.row = Len(rows) + 1]
    <3>1. next.step = step
      BY <2>1 DEF Evaluating
    <3>2. Hushed(next)
      BY <3>1 DEF Hushed, Speaking
    <3> QED BY <1>1, <2>2, <3>2, OneGoesHushed
  <2> QED BY <1>2, <1>11, <2>2, InsertCases
<1>12. CASE Discard(w) \/ Refine(w) \/ Unrefined(w)
  BY <1>2, <1>12 DEF Discard, Refine, Unrefined
<1> QED BY <1>4, <1>5, <1>6, <1>7, <1>8, <1>9, <1>10, <1>11, <1>12 DEF Evaluate

\* Workers are moved by their own steps only.
LEMMA WhoWorks ==
    ASSUME [Next]_vars
    PROVE  \/ worker' = worker
           \/ \E w \in Worker, e \in Event : Arrive(w, e) \/ Reanalyse(w, e)
           \/ \E w \in Worker : Evaluate(w)
<1>1. CASE List
  BY <1>1 DEF List
<1>2. ASSUME NEW i \in 1..Len(rows), NEW kind \in Answers, Feedback(i, kind)
      PROVE  worker' = worker
  BY <1>2 DEF Feedback
<1>3. ASSUME NEW c \in Client, NEW i \in 1..Len(rows), ReadForOutcome(c, i)
      PROVE  worker' = worker
  BY <1>3 DEF ReadForOutcome
<1>4. ASSUME NEW c \in Client, NEW verdict \in {"good", "bad", "unknown"}, RecordOutcome(c, verdict)
      PROVE  worker' = worker
  BY <1>4 DEF RecordOutcome
<1>5. ASSUME NEW c \in Client, RepeatOutcome(c)
      PROVE  worker' = worker
  BY <1>5 DEF RepeatOutcome
<1>6. ASSUME NEW granted \in case.charters, SetCharter(granted)
      PROVE  worker' = worker
  BY <1>6 DEF SetCharter
<1>7. ASSUME NEW c \in Client, NEW s \in Scope, Open(c, s)
      PROVE  worker' = worker
  BY <1>7 DEF Open
<1>8. ASSUME NEW c \in Client,
             NEW content \in [mode : Modes \cup {Inherit}, hears : {TRUE, FALSE, Inherit}],
             Save(c, content)
      PROVE  worker' = worker
  BY <1>8 DEF Save
<1>9. ASSUME NEW g \in Goal, Delete(g)
      PROVE  worker' = worker
  BY <1>9 DEF Delete
<1>10. CASE Tick \/ UNCHANGED vars
  BY <1>10 DEF Tick, vars
<1> QED BY <1>1, <1>2, <1>3, <1>4, <1>5, <1>6, <1>7, <1>8, <1>9, <1>10 DEF Next

\* Advice and evaluations keep quiet.
LEMMA VoicesStep ==
    ASSUME Tables, FreezesHold, VoicesAreQuiet, [Next]_vars
    PROVE  VoicesAreQuiet'
<1>1. TypesHold
  BY DEF Tables
<1>2. ASSUME NEW i \in 1..Len(rows')
      PROVE  Quiet(rows'[i].frozenBy, rows'[i].level, rows'[i].weighed)
  <2>1. SpeaksAsBefore(i)
    BY LevelsStay DEF AllSpeakAsBefore
  <2>2. ASSUME NEW w \in Worker, At(w, "insert")
        PROVE  Quiet(worker[w].errors, worker[w].level, worker[w].at)
    BY <1>1, <2>2, AtWork DEF VoicesAreQuiet, Speaking, Steps
  <2> QED BY <2>1, <2>2 DEF SpeaksAsBefore, VoicesAreQuiet
<1>3. \A w \in Worker : Hushed(worker[w])
  BY DEF VoicesAreQuiet, Hushed
<1>4. \A w \in Worker : Hushed(worker'[w])
  <2>1. CASE worker' = worker
    BY <1>3, <2>1
  <2>2. ASSUME NEW w \in Worker, NEW e \in Event, Arrive(w, e) \/ Reanalyse(w, e)
        PROVE  \A v \in Worker : Hushed(worker'[v])
    <3>1. worker' = worker \/ Goes(w, Evaluation(e, "filter"))
      BY <2>2 DEF Arrive, Reanalyse
    <3>2. Hushed(Evaluation(e, "filter"))
      BY DEF Hushed, Evaluation, Speaking
    <3> QED BY <1>1, <2>1, <3>1, <3>2, OneGoesHushed
  <2>3. ASSUME NEW w \in Worker, Evaluate(w)
        PROVE  \A v \in Worker : Hushed(worker'[v])
    BY <2>3, EvaluationsStayQuiet
  <2> QED BY <2>1, <2>2, <2>3, WhoWorks
<1> QED BY <1>2, <1>4 DEF VoicesAreQuiet, Hushed

\* At first no one made a mistake and no one speaks.
LEMMA VoicesInit ==
    ASSUME Init
    PROVE  FreezesHold /\ VoicesAreQuiet
<1>1. ledger = {} /\ now = 1 /\ FreezeTime \in Nat
  BY PolicyAssumption DEF Init
<1>2. \A l \in 2..4 : freeze[l] = 0
  BY DEF Init
<1>3. \A w \in Worker : worker[w] = Idle
  BY DEF Init
<1>4. FreezesHold
  BY <1>1, <1>2, FS_EmptySet DEF FreezesHold
<1>5. \A i \in 1..Len(rows) : rows[i].frozenBy = {}
  BY LegacyInit
<1>6. VoicesAreQuiet
  BY <1>3, <1>5 DEF VoicesAreQuiet, Quiet, FrozenBy
<1> QED BY <1>4, <1>6

\* The level at which advice speaks is below every level that the errors on record when it
\* was read had frozen, also through candidates that ask for more, and every mistake is on record
\* once, however often and in whatever words it is reported.
THEOREM MistakesLower == Spec => []MistakesLowerTheVoice
<1>1. Init => FreezesHold /\ VoicesAreQuiet
  BY VoicesInit
<1>2. Tables /\ FreezesHold /\ VoicesAreQuiet /\ [Next]_vars => (FreezesHold /\ VoicesAreQuiet)'
  BY FreezesStep, VoicesStep
<1>3. FreezesHold /\ VoicesAreQuiet => MistakesLowerTheVoice
  BY DEF FreezesHold, VoicesAreQuiet, MistakesLowerTheVoice, Quiet
<1> QED BY <1>1, <1>2, <1>3, TablesStayInOrder, PTL DEF Spec

-----------------------------------------------------------------------------
(* The accounts of an advice.                                              *)

Mistaken == Errors \cup {"prediction_error"}

\* What the API and the duplicate gate know of a row agrees, or differs as it may.
RowAgrees(r) ==
    /\ r.said # r.column =>
          /\ r.said = "active" /\ Candidate[r.event].requested < 3
          /\ r.column \in {"withdrawn", "verified"} \/ r.fb \ {"guidance"} # {}
    /\ Candidate[r.event].requested < 3 => r.column \notin {"none", "provisional"}
    /\ r.column \in {"adopted", "dismissed"} => r.fb \ {"guidance"} # {}

RowsAgree == \A i \in 1..Len(rows) : RowAgrees(rows[i])

\* What the outcome of a row tells of trust: something was foretold of it.
Foretells(r) ==
    LET c == Candidate[r.event] IN IF r.readAs = "adopted" THEN c.foretold ELSE c.observable

\* The rows of a level with this outcome.
Settling(l, v) ==
    {i \in 1..Len(rows) : rows[i].level = l /\ rows[i].verdict = v /\ Foretells(rows[i])}

\* What the user trusted a level with before any outcome.
Granted(l, v) == IF v = "good" THEN case.trust[l] ELSE 0

TrustIsCounted ==
    \A l \in Level, v \in {"good", "bad"} :
        trust[l][v] = Cardinality(Settling(l, v)) + Granted(l, v)

\* The ledger is about the rows that were called wrong.
LedgerIsFed ==
    /\ \A x \in ledger : x.row \in 1..Len(rows)
    /\ \A i \in 1..Len(rows) : (\E x \in ledger : x.row = i) <=> rows[i].fb \cap Mistaken # {}

AccountsAgree == RowsAgree /\ TrustIsCounted /\ LedgerIsFed

\* Rows that come and change without an answer or an outcome.
Ordinary ==
    /\ Len(rows) \in Nat /\ Len(rows') \in Nat /\ Len(rows) <= Len(rows')
    /\ \A i \in 1..Len(rows') :
          /\ RowAgrees(rows'[i])
          /\ i <= Len(rows) => /\ rows'[i].level = rows[i].level
                               /\ rows'[i].event = rows[i].event /\ rows'[i].readAs = rows[i].readAs
                               /\ rows'[i].verdict = rows[i].verdict /\ rows'[i].fb = rows[i].fb
          /\ i > Len(rows) => rows'[i].verdict = "none" /\ rows'[i].fb = {}

\* They keep the accounts.
LEMMA OrdinaryKeepsAccounts ==
    ASSUME AccountsAgree, Ordinary, ledger' = ledger, trust' = trust, case' = case
    PROVE  AccountsAgree'
<1>1. /\ Len(rows) \in Nat /\ Len(rows') \in Nat /\ Len(rows) <= Len(rows')
      /\ 1..Len(rows) \subseteq 1..Len(rows')
      /\ \A i \in 1..Len(rows') : i \in 1..Len(rows) <=> i <= Len(rows)
  BY DEF Ordinary
<1>2. RowsAgree'
  BY DEF Ordinary, RowsAgree, RowAgrees
<1>3. TrustIsCounted'
  <2> SUFFICES ASSUME NEW l \in Level, NEW v \in {"good", "bad"}
               PROVE  Settling(l, v)' = Settling(l, v)
    BY DEF AccountsAgree, TrustIsCounted, Granted
  <2>1. v # "none"
    OBVIOUS
  <2> QED BY <1>1, <2>1 DEF Ordinary, Settling, Foretells
<1>4. LedgerIsFed'
  <2>1. \A x \in ledger' : x.row \in 1..Len(rows')
    BY <1>1 DEF AccountsAgree, LedgerIsFed
  <2>2. ASSUME NEW i \in 1..Len(rows')
        PROVE  (\E x \in ledger' : x.row = i) <=> rows'[i].fb \cap Mistaken # {}
    <3>1. CASE i \in 1..Len(rows)
      BY <1>1, <3>1 DEF Ordinary, AccountsAgree, LedgerIsFed
    <3>2. CASE i \notin 1..Len(rows)
      <4>1. rows'[i].fb = {}
        BY <1>1, <3>2 DEF Ordinary
      <4> QED BY <3>2, <4>1 DEF AccountsAgree, LedgerIsFed
    <3> QED BY <3>1, <3>2
  <2> QED BY <2>1, <2>2 DEF LedgerIsFed
<1> QED BY <1>2, <1>3, <1>4 DEF AccountsAgree

\* One row changes, and it is as it may be.
LEMMA OneOrdinary ==
    ASSUME Tables, AccountsAgree, NEW i \in 1..Len(rows), NEW r, Kin(r, rows[i]),
           rows' = Replaced(i, r), r.fb = rows[i].fb, r.verdict = rows[i].verdict,
           r.readAs = rows[i].readAs, RowAgrees(r)
    PROVE  Ordinary
<1>1. rows' = [rows EXCEPT ![i] = r]
  BY DEF Replaced
<1>2. /\ Len(rows') = Len(rows) /\ rows'[i] = r /\ Len(rows) \in Nat
      /\ \A j \in 1..Len(rows) : j # i => rows'[j] = rows[j]
  BY <1>1, KinAreKnown, RowsAreKnown
<1>3. ASSUME NEW j \in 1..Len(rows')
      PROVE  /\ RowAgrees(rows'[j]) /\ rows'[j].level = rows[j].level
             /\ rows'[j].event = rows[j].event /\ rows'[j].readAs = rows[j].readAs
             /\ rows'[j].verdict = rows[j].verdict /\ rows'[j].fb = rows[j].fb
  <2>1. CASE j = i
    BY <1>2, <2>1 DEF Kin
  <2>2. CASE j # i
    <3>1. rows'[j] = rows[j] /\ j \in 1..Len(rows)
      BY <1>2, <2>2
    <3> QED BY <3>1 DEF AccountsAgree, RowsAgree
  <2> QED BY <2>1, <2>2
<1>4. \A j \in 1..Len(rows') : ~(j > Len(rows))
  BY <1>2
<1> HIDE DEF RowAgrees
<1> QED BY <1>2, <1>3, <1>4 DEF Ordinary

\* No row changes, or the sweep withdraws.
LEMMA SweepsAreOrdinary ==
    ASSUME Tables, AccountsAgree, rows' = rows \/ rows' = Swept
    PROVE  Ordinary
<1>1. Len(rows) \in Nat /\ TypesHold
  BY RowsAreKnown DEF Tables
<1>2. CASE rows' = rows
  BY <1>1, <1>2 DEF Ordinary, AccountsAgree, RowsAgree
<1>3. CASE rows' = Swept
  <2>1. /\ Len(rows') = Len(rows)
        /\ \A i \in 1..Len(rows) :
              /\ rows'[i] = Expired(rows[i])
              /\ rows'[i].level = rows[i].level /\ rows'[i].fb = rows[i].fb
              /\ rows'[i].verdict = rows[i].verdict /\ rows'[i].readAs = rows[i].readAs
              /\ rows'[i].event = rows[i].event
    BY <1>1, <1>3, SweptTypes
  <2>2. ASSUME NEW r \in AdviceRow, RowAgrees(r)
        PROVE  RowAgrees(Expired(r))
    <3>1. CASE r.column # "active" \/ r.deadline > now
      BY <2>2, <3>1 DEF Expired
    <3>2. CASE r.column = "active" /\ ~(r.deadline > now) /\ r.said = "active"
      <4>1. Expired(r) = [r EXCEPT !.said = "withdrawn", !.column = "withdrawn"]
        BY <3>2 DEF Expired
      <4>2. /\ Expired(r).said = "withdrawn" /\ Expired(r).column = "withdrawn"
            /\ Expired(r).event = r.event
        BY <4>1 DEF AdviceRow
      <4> QED BY <4>2 DEF RowAgrees
    <3>3. CASE r.column = "active" /\ r.said # "active"
      BY <2>2, <3>3 DEF RowAgrees
    <3> QED BY <3>1, <3>2, <3>3
  <2>3. \A i \in 1..Len(rows) : rows[i] \in AdviceRow /\ RowAgrees(rows[i])
    BY <1>1, RowTypes DEF AccountsAgree, RowsAgree
  <2>4. \A i \in 1..Len(rows') : i <= Len(rows) /\ ~(i > Len(rows))
    BY <1>1, <2>1
  <2>5. \A i \in 1..Len(rows') : RowAgrees(rows'[i])
    BY <2>1, <2>2, <2>3
  <2> QED BY <1>1, <2>1, <2>4, <2>5 DEF Ordinary
<1> QED BY <1>2, <1>3

\* A new row is in accord.
LEMMA InsertsAreOrdinary ==
    ASSUME Tables, AccountsAgree, NEW w \in Worker, Insert(w)
    PROVE  Ordinary
<1> DEFINE c == Candidate[worker[w].event]
           status == IF c.requested < 3 \/ c.reviewed THEN "active" ELSE "provisional"
           new == Row(w, status)
           n == Len(rows) + 1
<1>1. TypesHold /\ At(w, "insert")
  BY DEF Tables, Insert
<1>2. CASE rows' = rows
  BY <1>2, SweepsAreOrdinary
<1>3. CASE rows' = Append(rows, new)
  <2>1. /\ new \in AdviceRow /\ new.event = worker[w].event
        /\ new.column = status /\ new.said = status
        /\ new.fb = {} /\ new.verdict = "none"
    BY <1>1, NewRow
  <2>2. status \in {"active", "provisional"} /\ (c.requested < 3 => status = "active")
    OBVIOUS
  <2>3. RowAgrees(new)
    <3> HIDE DEF status, new
    <3> QED BY <2>1, <2>2 DEF RowAgrees
  <2> HIDE DEF new, c, status
  <2>4. /\ Len(rows') = n /\ rows'[n] = new /\ Len(rows) \in Nat
        /\ \A j \in 1..Len(rows) : rows'[j] = rows[j]
    BY <1>1, <1>3, <2>1, OneRowMore, RowsAreKnown
  <2>5. \A j \in 1..Len(rows') : (j \in 1..Len(rows) /\ ~(j > Len(rows))) \/ (j = n /\ ~(j <= Len(rows)))
    BY <2>4
  <2>6. Len(rows') \in Nat /\ Len(rows) <= Len(rows')
    BY <2>4
  <2>7. \A j \in 1..Len(rows) : RowAgrees(rows[j])
    BY DEF AccountsAgree, RowsAgree
  <2> HIDE DEF n
  <2> QED BY <2>1, <2>3, <2>4, <2>5, <2>6, <2>7 DEF Ordinary
<1> QED BY <1>2, <1>3, InsertCases

\* The ends of an evaluation keep a row in accord.
LEMMA EndsAreOrdinary ==
    ASSUME Tables, AccountsAgree, NEW w \in Worker, Discard(w) \/ Refine(w) \/ Unrefined(w)
    PROVE  Ordinary
<1>1. TypesHold
  BY DEF Tables
<1>2. PICK i \in 1..Len(rows) : i = worker[w].row
  <2>1. /\ worker[w] # Idle /\ worker[w].step \in {"discard", "refine"}
    BY <1>1, AtWork DEF Discard, Refine, Unrefined, Steps
  <2> QED BY <2>1 DEF Tables, WorkIsKnown
<1>3. rows[i] \in AdviceRow /\ RowAgrees(rows[i])
  BY <1>1, RowTypes DEF AccountsAgree, RowsAgree
<1>4. \/ rows' = Discarded(i) \/ rows' = Promoted(w, i)
      \/ rows' = Rewritten(w, i) /\ ~(Of(i).requested >= 3)
  BY <1>2 DEF Discard, Refine, Unrefined
<1>5. CASE rows' = Discarded(i)
  <2>1. CASE rows[i].column = "provisional"
    <3>1. PICK r : /\ Kin(r, rows[i]) /\ Discarded(i) = [rows EXCEPT ![i] = r]
                   /\ r.column = "none" /\ r.said = "none"
                   /\ r.fb = rows[i].fb /\ r.verdict = rows[i].verdict /\ r.readAs = rows[i].readAs
      BY <1>1, <2>1, DiscardedRow
    <3>2. RowAgrees(r)
      BY <1>3, <2>1, <3>1 DEF RowAgrees, Kin
    <3>3. rows' = Replaced(i, r)
      BY <1>5, <3>1 DEF Replaced
    <3> QED BY <3>1, <3>2, <3>3, OneOrdinary
  <2>2. CASE rows[i].column # "provisional"
    BY <1>1, <1>5, <2>2, DiscardedRow, SweepsAreOrdinary
  <2> QED BY <2>1, <2>2
<1>6. CASE rows' = Promoted(w, i)
  <2>1. CASE Promoted(w, i) = Discarded(i)
    BY <1>5, <1>6, <2>1
  <2>2. CASE /\ rows[i].column = "provisional"
             /\ \E r : /\ Kin(r, rows[i]) /\ Promoted(w, i) = [rows EXCEPT ![i] = r]
                       /\ r.column = "active" /\ r.said = "active"
                       /\ r.fb = rows[i].fb /\ r.verdict = rows[i].verdict /\ r.readAs = rows[i].readAs
    <3>1. PICK r : /\ Kin(r, rows[i]) /\ Promoted(w, i) = [rows EXCEPT ![i] = r]
                   /\ r.column = "active" /\ r.said = "active"
                   /\ r.fb = rows[i].fb /\ r.verdict = rows[i].verdict /\ r.readAs = rows[i].readAs
      BY <2>2
    <3>2. RowAgrees(r)
      BY <3>1 DEF RowAgrees
    <3>3. rows' = Replaced(i, r)
      BY <1>6, <3>1 DEF Replaced
    <3> QED BY <3>1, <3>2, <3>3, OneOrdinary
  <2> QED BY <1>1, <2>1, <2>2, PromotedRow
<1>7. CASE rows' = Rewritten(w, i) /\ ~(Of(i).requested >= 3)
  <2>1. PICK r : /\ Kin(r, rows[i]) /\ Rewritten(w, i) = [rows EXCEPT ![i] = r]
                 /\ r.column = rows[i].column /\ r.said = "active"
                 /\ r.fb = rows[i].fb /\ r.verdict = rows[i].verdict /\ r.readAs = rows[i].readAs
    BY <1>1, RewrittenRow
  <2>2. Candidate[r.event].requested < 3
    <3>1. r.event \in Event /\ Of(i) = Candidate[r.event]
      BY <1>1, <2>1, RowTypes DEF Kin, Of
    <3>2. Candidate[r.event].requested \in 1..4
      BY <3>1, CandidateAssumption DEF Level
    <3>3. ~(Candidate[r.event].requested >= 3)
      BY <1>7, <3>1
    <3> QED BY <3>2, <3>3
  <2>3. /\ r.column \notin {"none", "provisional"}
        /\ r.column \in {"adopted", "dismissed"} => r.fb \ {"guidance"} # {}
    BY <1>3, <2>1, <2>2 DEF RowAgrees, Kin
  <2>4. r.column \in Status
    BY <2>1 DEF Kin, AdviceRow
  <2>5. RowAgrees(r)
    BY <2>1, <2>2, <2>3, <2>4 DEF RowAgrees, Status
  <2>6. rows' = Replaced(i, r)
    BY <1>7, <2>1 DEF Replaced
  <2> QED BY <2>1, <2>5, <2>6, OneOrdinary
<1> QED BY <1>4, <1>5, <1>6, <1>7

\* An error is on the ledger once it was entered, and no other row's is touched.
LEMMA ErredEnters ==
    ASSUME TypesHold, NEW i \in 1..Len(rows), NEW kind, Erred(i, kind)
    PROVE  /\ \E x \in ledger' : x.row = i
           /\ \A x \in ledger' : x \in ledger \/ x.row = i
           /\ \A x \in ledger : x \in ledger'
<1> DEFINE new == [row |-> i, kind |-> kind, level |-> rows[i].level, at |-> now]
<1>1. CASE \E x \in ledger : x.row = i
  BY <1>1 DEF Erred
<1>2. CASE ~ \E x \in ledger : x.row = i
  <2>1. ledger' = ledger \cup {new} /\ new.row = i
    BY <1>2 DEF Erred
  <2> HIDE DEF new
  <2> QED BY <2>1
<1> QED BY <1>1, <1>2

\* What an answer or an outcome does to the ledger, according to what it adds to a row.
Fed(i, r) ==
    \/ /\ ledger' = ledger /\ r.fb \cap Mistaken = rows[i].fb \cap Mistaken
    \/ /\ r.fb \cap Mistaken # {}
       /\ \E x \in ledger' : x.row = i
       /\ \A x \in ledger' : x \in ledger \/ x.row = i
       /\ \A x \in ledger : x \in ledger'

\* The ledger stays fed.
LEMMA FedKeepsLedger ==
    ASSUME Tables, LedgerIsFed, NEW i \in 1..Len(rows), NEW r, Kin(r, rows[i]),
           rows' = Replaced(i, r), Fed(i, r)
    PROVE  LedgerIsFed'
<1>1. rows' = [rows EXCEPT ![i] = r]
  BY DEF Replaced
<1>2. /\ Len(rows') = Len(rows) /\ rows'[i] = r
      /\ \A j \in 1..Len(rows) : j # i => rows'[j] = rows[j]
  BY <1>1, KinAreKnown
<1>3. CASE ledger' = ledger /\ r.fb \cap Mistaken = rows[i].fb \cap Mistaken
  <2>1. \A j \in 1..Len(rows) : rows'[j].fb \cap Mistaken = rows[j].fb \cap Mistaken
    BY <1>2, <1>3
  <2> QED BY <1>2, <1>3, <2>1 DEF LedgerIsFed
<1>4. CASE /\ r.fb \cap Mistaken # {}
           /\ \E x \in ledger' : x.row = i
           /\ \A x \in ledger' : x \in ledger \/ x.row = i
           /\ \A x \in ledger : x \in ledger'
  <2>1. \A x \in ledger' : x.row \in 1..Len(rows')
    BY <1>2, <1>4 DEF LedgerIsFed
  <2>2. ASSUME NEW j \in 1..Len(rows')
        PROVE  (\E x \in ledger' : x.row = j) <=> rows'[j].fb \cap Mistaken # {}
    <3>1. CASE j = i
      BY <1>2, <1>4, <3>1
    <3>2. CASE j # i
      <4>1. j \in 1..Len(rows) /\ rows'[j] = rows[j]
        BY <1>2, <3>2
      <4> QED BY <1>4, <3>2, <4>1 DEF LedgerIsFed
    <3> QED BY <3>1, <3>2
  <2> QED BY <2>1, <2>2 DEF LedgerIsFed
<1> QED BY <1>3, <1>4 DEF Fed

\* Rows stay in accord when one that is takes the place of another.
LEMMA OneAgrees ==
    ASSUME Tables, RowsAgree, NEW i \in 1..Len(rows), NEW r, Kin(r, rows[i]),
           rows' = Replaced(i, r), RowAgrees(r)
    PROVE  RowsAgree'
<1>1. rows' = [rows EXCEPT ![i] = r]
  BY DEF Replaced
<1>2. /\ Len(rows') = Len(rows) /\ rows'[i] = r
      /\ \A j \in 1..Len(rows) : j # i => rows'[j] = rows[j]
  BY <1>1, KinAreKnown
<1>3. \A j \in 1..Len(rows') : RowAgrees(rows'[j])
  BY <1>2 DEF RowsAgree
<1> QED BY <1>3 DEF RowsAgree, RowAgrees

\* An answer keeps the accounts.
LEMMA FeedbackKeepsAccounts ==
    ASSUME Tables, AccountsAgree, NEW i \in 1..Len(rows), NEW kind \in Answers, Feedback(i, kind)
    PROVE  AccountsAgree'
<1> DEFINE r == Answered(rows[i], kind)
<1>1. TypesHold /\ rows[i] \in AdviceRow /\ RowAgrees(rows[i])
  BY RowTypes DEF Tables, AccountsAgree, RowsAgree
<1>2. /\ Kin(r, rows[i]) /\ r.verdict = rows[i].verdict /\ r.fb = rows[i].fb \cup {kind}
      /\ r.readAs = rows[i].readAs
      /\ kind = "guidance" => r.said = rows[i].said /\ r.column = rows[i].column
      /\ kind # "guidance" => r.said = r.column /\ r.column \in {"adopted", "dismissed"}
  BY <1>1, AnsweredRow
<1>3. /\ rows' = Replaced(i, r)
      /\ kind \in Errors => Erred(i, kind)
      /\ kind \notin Errors => ledger' = ledger
      /\ trust' = trust /\ case' = case
  BY DEF Feedback, Replaced
<1> HIDE DEF r
<1>4. RowAgrees(r)
  <2>1. CASE kind = "guidance"
    <3>1. r.fb \ {"guidance"} = rows[i].fb \ {"guidance"} /\ r.event = rows[i].event
      BY <1>2, <2>1 DEF Kin
    <3> QED BY <1>1, <1>2, <2>1, <3>1 DEF RowAgrees
  <2>2. CASE kind # "guidance"
    <3>1. r.fb \ {"guidance"} # {}
      BY <1>2, <2>2
    <3> QED BY <1>2, <2>2, <3>1 DEF RowAgrees
  <2> QED BY <2>1, <2>2
<1>5. Fed(i, r)
  <2>1. CASE kind \in Errors
    <3>1. r.fb \cap Mistaken # {}
      BY <1>2, <2>1 DEF Mistaken
    <3> QED BY <1>1, <1>3, <2>1, <3>1, ErredEnters DEF Fed
  <2>2. CASE kind \notin Errors
    <3>1. kind \notin Mistaken
      BY <2>2 DEF Mistaken, Answers
    <3>2. r.fb \cap Mistaken = rows[i].fb \cap Mistaken
      BY <1>2, <3>1
    <3> QED BY <1>3, <2>2, <3>2 DEF Fed
  <2> QED BY <2>1, <2>2
<1>6. RowsAgree' /\ LedgerIsFed'
  BY <1>2, <1>3, <1>4, <1>5, OneAgrees, FedKeepsLedger DEF AccountsAgree
<1>7. TrustIsCounted'
  <2>1. /\ Len(rows') = Len(rows) /\ rows'[i] = r
        /\ \A j \in 1..Len(rows) : j # i => rows'[j] = rows[j]
    BY <1>2, <1>3, KinAreKnown DEF Replaced
  <2>2. \A j \in 1..Len(rows) :
           /\ rows'[j].level = rows[j].level /\ rows'[j].verdict = rows[j].verdict
           /\ Foretells(rows'[j]) <=> Foretells(rows[j])
    BY <1>2, <2>1 DEF Kin, Foretells
  <2> SUFFICES ASSUME NEW l \in Level, NEW v \in {"good", "bad"}
               PROVE  Settling(l, v)' = Settling(l, v)
    BY <1>3 DEF AccountsAgree, TrustIsCounted, Granted
  <2> QED BY <2>1, <2>2 DEF Settling
<1> QED BY <1>6, <1>7 DEF AccountsAgree

\* There are finitely many rows.
LEMMA RowsAreFinite ==
    ASSUME Tables
    PROVE  IsFiniteSet(1..Len(rows))
BY RowsAreKnown, FS_Interval

\* Trust is counted up by the outcome that settles a row.
LEMMA OneMoreSettled ==
    ASSUME Tables, TrustIsCounted, NEW i \in 1..Len(rows), NEW r, Kin(r, rows[i]),
           rows' = Replaced(i, r), rows[i].verdict = "none", case' = case,
           NEW verdict \in {"good", "bad", "unknown"}, r.verdict = verdict,
           trust' = Trusting(rows[i].level, verdict, Foretells(r))
    PROVE  TrustIsCounted'
<1>1. TypesHold
  BY DEF Tables
<1>2. /\ Len(rows') = Len(rows) /\ rows'[i] = r /\ r.level = rows[i].level
      /\ \A j \in 1..Len(rows) : j # i => rows'[j] = rows[j]
  BY KinAreKnown DEF Replaced, Kin
<1>3. rows[i].level \in Level /\ trust \in [Level -> [good : Nat, bad : Nat]]
  BY <1>1, RowTypes DEF TypesHold
<1> SUFFICES ASSUME NEW l \in Level, NEW v \in {"good", "bad"}
             PROVE  trust'[l][v] = Cardinality(Settling(l, v)') + Granted(l, v)
  BY DEF TrustIsCounted, Granted
<1>4. trust[l][v] = Cardinality(Settling(l, v)) + Granted(l, v)
  BY DEF TrustIsCounted
<1>5. CASE l = rows[i].level /\ v = verdict /\ Foretells(r)
  <2> DEFINE A == Settling(l, v)
  <2>1. i \notin A /\ A \subseteq 1..Len(rows)
    BY DEF Settling
  <2>2. Settling(l, v)' = A \cup {i}
    BY <1>2, <1>5 DEF Settling
  <2> HIDE DEF A
  <2>3. IsFiniteSet(1..Len(rows))
    BY RowsAreFinite
  <2>4. IsFiniteSet(A)
    BY <2>1, <2>3, FS_Subset
  <2>5. Cardinality(A \cup {i}) = Cardinality(A) + 1
    BY <2>1, <2>4, FS_AddElement
  <2>6. Cardinality(A) \in Nat
    BY <2>4, FS_CardinalityType
  <2>7. Granted(l, v) \in Nat
    BY <1>1, CaseAssumption DEF Granted, TypesHold
  <2>8. trust'[l][v] = trust[l][v] + 1
    <3>1. trust' = [trust EXCEPT ![l][v] = @ + 1]
      BY <1>5 DEF Trusting
    <3>2. CASE v = "good"
      BY <1>3, <3>1, <3>2
    <3>3. CASE v = "bad"
      BY <1>3, <3>1, <3>3
    <3> QED BY <3>2, <3>3
  <2>9. trust[l][v] = Cardinality(A) + Granted(l, v)
    BY <1>4 DEF A
  <2>10. PICK n \in Nat, g \in Nat : n = Cardinality(A) /\ g = Granted(l, v)
    BY <2>6, <2>7
  <2>11. trust'[l][v] = (n + 1) + g
    BY <2>8, <2>9, <2>10
  <2> QED BY <2>2, <2>5, <2>10, <2>11
<1>6. CASE ~(l = rows[i].level /\ v = verdict /\ Foretells(r))
  <2>1. Settling(l, v)' = Settling(l, v)
    <3>1. /\ ~(rows[i].level = l /\ rows[i].verdict = v)
          /\ ~(r.level = l /\ r.verdict = v /\ Foretells(r))
      BY <1>2, <1>6
    <3> QED BY <1>2, <3>1 DEF Settling
  <2>2. trust'[l][v] = trust[l][v]
    <3>1. CASE verdict = "unknown" \/ ~Foretells(r)
      BY <3>1 DEF Trusting
    <3>2. CASE verdict = "good" /\ Foretells(r)
      <4>1. trust' = [trust EXCEPT ![rows[i].level].good = @ + 1]
        BY <3>2 DEF Trusting
      <4>2. ~(l = rows[i].level /\ v = verdict) /\ verdict = "good"
        BY <1>6, <3>2
      <4> QED BY <1>3, <4>1, <4>2
    <3>3. CASE verdict = "bad" /\ Foretells(r)
      <4>1. trust' = [trust EXCEPT ![rows[i].level].bad = @ + 1]
        BY <3>3 DEF Trusting
      <4>2. ~(l = rows[i].level /\ v = verdict) /\ verdict = "bad"
        BY <1>6, <3>3
      <4> QED BY <1>3, <4>1, <4>2
    <3> QED BY <3>1, <3>2, <3>3
  <2> QED BY <1>4, <2>1, <2>2
<1> QED BY <1>5, <1>6

\* An outcome keeps the accounts.
LEMMA OutcomeKeepsAccounts ==
    ASSUME Tables, AccountsAgree, NEW c \in Client, NEW verdict \in {"good", "bad", "unknown"},
           RecordOutcome(c, verdict)
    PROVE  AccountsAgree'
<1> DEFINE failed == Fails(c, verdict)
<1>1. TypesHold
  BY DEF Tables
<1>2. PICK i : i = judge[c].row
  OBVIOUS
<1>3. i \in 1..Len(rows) /\ judge[c] \in Reading /\ rows[i].verdict = "none"
  BY <1>2, OutcomeCases
<1>4. rows' = Replaced(i, Settled(rows[i], verdict, judge[c], failed))
  BY <1>2, OutcomeCases
<1>5. /\ failed => Erred(i, "prediction_error")
      /\ ~failed => ledger' = ledger
      /\ case' = case
  BY <1>2, OutcomeCases
<1>a. trust' = Trusting(rows[i].level, verdict, Calibrates(i, judge[c].said))
  BY <1>2, OutcomeCases
<1>6. failed \in BOOLEAN /\ rows[i] \in AdviceRow
  BY <1>1, <1>3, RowTypes DEF Fails
<1> HIDE DEF failed
<1>7. PICK r : /\ r = Settled(rows[i], verdict, judge[c], failed)
               /\ Kin(r, rows[i])
  BY <1>3, <1>6, SettledRow
<1>8. /\ r.verdict = verdict /\ r.column = "verified" /\ r.said = "verified"
      /\ r.readAs = judge[c].said
      /\ failed => r.fb = rows[i].fb \cup {"prediction_error"}
      /\ ~failed => r.fb = rows[i].fb
  <2>1. r = [rows[i] EXCEPT !.verdict = verdict, !.column = "verified", !.said = "verified",
                            !.deadline = judge[c].deadline, !.readAs = judge[c].said,
                            !.fb = rows[i].fb \cup IF failed THEN {"prediction_error"} ELSE {}]
    BY <1>7 DEF Settled
  <2>2. /\ r.verdict = verdict /\ r.column = "verified" /\ r.said = "verified"
        /\ r.readAs = judge[c].said
        /\ r.fb = rows[i].fb \cup IF failed THEN {"prediction_error"} ELSE {}
    BY <1>6, <2>1 DEF AdviceRow
  <2> QED BY <2>2
<1>9. rows' = Replaced(i, r)
  BY <1>4, <1>7
<1>10. RowAgrees(r)
  BY <1>8 DEF RowAgrees
<1>11. Fed(i, r)
  <2>1. CASE failed
    <3>1. r.fb \cap Mistaken # {}
      BY <1>8, <2>1 DEF Mistaken
    <3> QED BY <1>1, <1>3, <1>5, <2>1, <3>1, ErredEnters DEF Fed
  <2>2. CASE ~failed
    BY <1>5, <1>8, <2>2 DEF Fed
  <2> QED BY <2>1, <2>2
<1>12. RowsAgree' /\ LedgerIsFed'
  BY <1>3, <1>7, <1>9, <1>10, <1>11, OneAgrees, FedKeepsLedger DEF AccountsAgree
<1>13. TrustIsCounted'
  <2>1. Calibrates(i, judge[c].said) <=> Foretells(r)
    BY <1>7, <1>8 DEF Calibrates, Foretells, Kin, Of
  <2>2. trust' = Trusting(rows[i].level, verdict, Foretells(r))
    BY <1>a, <2>1 DEF Trusting
  <2> QED BY <2>2, <1>3, <1>5, <1>7, <1>8, <1>9, <1>a, OneMoreSettled DEF AccountsAgree
<1> QED BY <1>12, <1>13 DEF AccountsAgree

\* Everything else leaves the books and the rows alone.
LEMMA WhoTouchesAccounts ==
    ASSUME [Next]_vars
    PROVE  \/ rows' = rows /\ ledger' = ledger /\ trust' = trust /\ case' = case
           \/ \E w \in Worker : Evaluate(w)
           \/ List
           \/ \E i \in 1..Len(rows), kind \in Answers : Feedback(i, kind)
           \/ \E c \in Client, verdict \in {"good", "bad", "unknown"} : RecordOutcome(c, verdict)
<1> DEFINE Same == rows' = rows /\ ledger' = ledger /\ trust' = trust /\ case' = case
<1>1. ASSUME NEW w \in Worker, NEW e \in Event, Arrive(w, e) \/ Reanalyse(w, e)
      PROVE  Same
  BY <1>1 DEF Arrive, Reanalyse, books
<1>2. ASSUME NEW c \in Client, NEW i \in 1..Len(rows), ReadForOutcome(c, i)
      PROVE  Same
  BY <1>2 DEF ReadForOutcome, books
<1>3. ASSUME NEW c \in Client, RepeatOutcome(c)
      PROVE  Same
  BY <1>3 DEF RepeatOutcome, books
<1>4. ASSUME NEW granted \in case.charters, SetCharter(granted)
      PROVE  Same
  BY <1>4 DEF SetCharter, books
<1>5. ASSUME NEW c \in Client, NEW s \in Scope, Open(c, s)
      PROVE  Same
  BY <1>5 DEF Open, books
<1>6. ASSUME NEW c \in Client,
             NEW content \in [mode : Modes \cup {Inherit}, hears : {TRUE, FALSE, Inherit}],
             Save(c, content)
      PROVE  Same
  BY <1>6 DEF Save, books
<1>7. ASSUME NEW g \in Goal, Delete(g)
      PROVE  Same
  BY <1>7 DEF Delete, books
<1>8. CASE Tick \/ UNCHANGED vars
  BY <1>8 DEF Tick, vars, books
<1> QED BY <1>1, <1>2, <1>3, <1>4, <1>5, <1>6, <1>7, <1>8 DEF Next

\* Every step keeps the accounts.
LEMMA AccountsStep ==
    ASSUME Tables, AccountsAgree, [Next]_vars
    PROVE  AccountsAgree'
<1>1. CASE rows' = rows /\ ledger' = ledger /\ trust' = trust /\ case' = case
  BY <1>1, SweepsAreOrdinary, OrdinaryKeepsAccounts
<1>2. ASSUME NEW w \in Worker, Evaluate(w)
      PROVE  AccountsAgree'
  <2>1. ledger' = ledger /\ trust' = trust /\ case' = case
    BY <1>2, EvaluationsKeepBooks
  <2>2. Ordinary
    <3>1. CASE \/ Filter(w) \/ AskCharter(w) \/ AskTrust(w) \/ AskFreeze(w) \/ AskSilence(w)
               \/ AskPreference(w) \/ AskDuplicate(w)
      <4>1. rows' = rows \/ rows' = Swept
        BY <3>1 DEF Filter, AskCharter, AskTrust, AskFreeze, AskSilence, AskPreference,
                    AskDuplicate
      <4> QED BY <4>1, SweepsAreOrdinary
    <3>2. CASE Insert(w)
      BY <3>2, InsertsAreOrdinary
    <3>3. CASE Discard(w) \/ Refine(w) \/ Unrefined(w)
      BY <3>3, EndsAreOrdinary
    <3> QED BY <1>2, <3>1, <3>2, <3>3 DEF Evaluate
  <2> QED BY <2>1, <2>2, OrdinaryKeepsAccounts
<1>3. CASE List
  <2>1. rows' = Swept /\ ledger' = ledger /\ trust' = trust /\ case' = case
    BY <1>3 DEF List, reads, books
  <2> QED BY <2>1, SweepsAreOrdinary, OrdinaryKeepsAccounts
<1> QED BY <1>1, <1>2, <1>3, FeedbackKeepsAccounts, OutcomeKeepsAccounts, WhoTouchesAccounts

\* At first there are no accounts.
LEMMA AccountsInit ==
    ASSUME Init
    PROVE  AccountsAgree
<1>1. ledger = {} /\ case \in Cases
  BY DEF Init
<1>a. \A i \in 1..Len(rows) : /\ rows[i].verdict = "none" /\ rows[i].fb = {}
                              /\ rows[i].said = "active" /\ rows[i].column = "active"
  BY LegacyInit
<1>2. TrustIsCounted
  <2> SUFFICES ASSUME NEW l \in Level, NEW v \in {"good", "bad"}
               PROVE  trust[l][v] = Cardinality(Settling(l, v)) + Granted(l, v)
    BY DEF TrustIsCounted
  <2>1. Settling(l, v) = {}
    BY <1>a DEF Settling
  <2>2. Cardinality(Settling(l, v)) = 0
    BY <2>1, FS_EmptySet
  <2>3. case.trust[l] \in Nat
    BY <1>1, CaseAssumption
  <2>4. trust[l] = [good |-> case.trust[l], bad |-> 0]
    BY DEF Init
  <2>5. CASE v = "good"
    BY <2>2, <2>3, <2>4, <2>5 DEF Granted
  <2>6. CASE v = "bad"
    BY <2>2, <2>4, <2>6 DEF Granted
  <2> QED BY <2>5, <2>6
<1>3. RowsAgree /\ LedgerIsFed
  BY <1>1, <1>a DEF RowsAgree, RowAgrees, LedgerIsFed
<1> QED BY <1>2, <1>3 DEF AccountsAgree

\* The accounts of an advice agree: trust is what the outcomes say of which something was
\* foretold, each counted once, and no others; the ledger of errors holds exactly the
\* advice the user called wrong and that which was adopted and came to nothing; and what the API says of an
\* advice and what the duplicate gate knows of it differ only below level 3, for advice
\* answered, withdrawn or judged while a refinement of it was under way.
THEOREM BooksAreBalanced == Spec => []BooksBalance
<1>1. Init => AccountsAgree
  BY AccountsInit
<1>2. Tables /\ AccountsAgree /\ [Next]_vars => AccountsAgree'
  BY AccountsStep
<1>3. Tables /\ AccountsAgree => BooksBalance
  <2> SUFFICES ASSUME Tables, AccountsAgree
               PROVE  BooksBalance
    OBVIOUS
  <2>1. TypeOK
    BY TypesAreRight
  <2>2. ASSUME NEW l \in Level, NEW v \in {"good", "bad"}
        PROVE  trust[l][v] = Cardinality({i \in 1..Len(rows) :
                                             /\ rows[i].level = l /\ rows[i].verdict = v
                                             /\ Foreseen(i)})
                             + (IF v = "good" THEN case.trust[l] ELSE 0)
    <3>1. Settling(l, v) = {i \in 1..Len(rows) :
                               rows[i].level = l /\ rows[i].verdict = v /\ Foreseen(i)}
      BY DEF Settling, Foretells, Foreseen
    <3> QED BY <3>1 DEF AccountsAgree, TrustIsCounted, Granted
  <2>3. ASSUME NEW i \in 1..Len(rows)
        PROVE  /\ (\E x \in ledger : x.row = i) <=>
                     rows[i].fb \cap (Errors \cup {"prediction_error"}) # {}
               /\ rows[i].said # rows[i].column =>
                     /\ rows[i].said = "active" /\ Of(i).requested < 3
                     /\ \/ rows[i].column \in {"withdrawn", "verified"}
                        \/ rows[i].fb \ {"guidance"} # {}
    BY DEF AccountsAgree, LedgerIsFed, RowsAgree, RowAgrees, Mistaken, Of
  <2> QED BY <2>1, <2>2, <2>3 DEF BooksBalance
<1> QED BY <1>1, <1>2, <1>3, TablesStayInOrder, PTL DEF Spec

=================================================================================
