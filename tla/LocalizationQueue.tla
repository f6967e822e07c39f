-------------------------- MODULE LocalizationQueue --------------------------
(* The durable queue of display translations: which advice of an account    *)
(* that reads English gets a row (backend/app/storage.py,                   *)
(* enqueue_advice_localizations, update_advice), who may translate it       *)
(* (claim_next_advice_localization, complete, fail), how its worker goes    *)
(* about it (backend/app/advice_localization.py) and what the API shows     *)
(* meanwhile (advice_display_envelope).                                     *)
(*                                                                          *)
(* A text is a version and whether it is English; times are how long        *)
(* something still lasts, so that time may go on for ever.  The live        *)
(* analysis is seen only where it stands in the way: a job that is due, and *)
(* the slot of a process it occupies.                                       *)
(*                                                                          *)
(* A definition named Op_Variant is Op as a plausible slip would have       *)
(* written it; no specification uses it.                                    *)
EXTENDS Naturals, Sequences, FiniteSets

CONSTANTS
    Advice, User, Worker,   \* Worker: the consumers, one in each process
    Nobody,
    MaxAttempts,            \* MOUCHEN_ADVICE_LOCALIZATION_MAX_ATTEMPTS
    DailyLimit, Day,        \* paid translations of a user in a day
    Lease,                  \* ADVICE_LOCALIZATION_LEASE
    RetryAfter,             \* what a model may ask a caller to wait
    Cases                   \* where to begin, and the bounds from there: records of
                            \*   owner    whose advice it is
                            \*   locale   what the users read
                            \*   advice   the advice there is
                            \*   bounds   how many texts are refined, locales switched,
                            \*            jobs of the live analysis arrive, processes die

ASSUME LimitAssumption ==
    /\ MaxAttempts \in Nat /\ DailyLimit \in Nat \ {0}
    /\ Day \in Nat \ {0} /\ Lease \in Nat /\ RetryAfter \subseteq Nat

\* A text that was never written has no version; a visible or provisional one has.
Written == [status : {"none", "provisional", "visible", "deleted"}, v : Nat, english : BOOLEAN]

ASSUME CaseAssumption ==
    \A case \in Cases :
        /\ case.owner \in [Advice -> User] /\ case.advice \in [Advice -> Written]
        /\ \A a \in Advice :
              /\ case.advice[a].status = "none" => case.advice[a].v = 0
              /\ case.advice[a].status \in {"provisional", "visible"} => case.advice[a].v > 0

ASSUME ProcessAssumption == IsFiniteSet(Worker) /\ Nobody \notin Worker

VARIABLES
    owner,      \* advice.user_id
    locale,     \* users.locale
    asked,      \* users whose history is still to be enqueued
    advice,     \* table advice
    row,        \* table advice_localizations
    usage,      \* table global_model_usage: how long a paid call still counts
    work,       \* the claim a worker is at work on
    due,        \* a job of the live analysis is due
    busy,       \* processes whose analysis slot the live analysis holds
    made,       \* paid calls for the present text of an advice (history)
    bounds      \* what is left of the bounds

vars == <<owner, locale, asked, advice, row, usage, work, due, busy, made, bounds>>

NoRow == [status |-> "none"]
Idle == [step |-> "idle"]

Reads(u) == locale[u] = "en-US"
Visible(a) == advice[a].status = "visible"

\* A queued translation of the text v, not tried yet.
Fresh(v) == [status |-> "pending", source |-> v, attempts |-> 0, wait |-> 0,
             lease |-> 0, by |-> Nobody, text |-> 0]

Less(n, m) == IF n > m THEN n - m ELSE 0
Later(n, m) == IF n > m THEN n ELSE m

Init ==
    /\ \E case \in Cases : /\ owner = case.owner
                            /\ locale = case.locale
                            /\ advice = case.advice
                            /\ bounds = case.bounds
    /\ asked = {u \in User : Reads(u)}
    /\ row = [a \in Advice |-> NoRow]
    /\ usage = [u \in User |-> <<>>]
    /\ work = [w \in Worker |-> Idle]
    /\ due = FALSE
    /\ busy = {}
    /\ made = [a \in Advice |-> 0]

-----------------------------------------------------------------------------
(* What is enqueued.                                                       *)

\* The row of an advice after its text became, or is found to be, new.
Upserted(a, new) ==
    IF new.english THEN NoRow
    ELSE IF row[a] = NoRow \/ row[a].source # new.v THEN Fresh(new.v) ELSE row[a]

\* Choosing a locale and enqueuing the history are two transactions.
SetLocale(u, l) ==
    /\ bounds.switches > 0
    /\ locale' = [locale EXCEPT ![u] = l]
    /\ asked' = IF l = "en-US" THEN asked \cup {u} ELSE asked
    /\ bounds' = [bounds EXCEPT !.switches = @ - 1]
    /\ UNCHANGED <<owner, advice, row, usage, work, due, busy, made>>

Enqueue(u) ==
    /\ u \in asked
    /\ asked' = asked \ {u}
    /\ row' = [a \in Advice |->
                  IF Reads(u) /\ owner[a] = u /\ Visible(a)
                  THEN Upserted(a, advice[a]) ELSE row[a]]
    /\ UNCHANGED <<owner, locale, advice, usage, work, due, busy, made, bounds>>

\* An advice is published, or waits for its review.
Insert(a, english, status) ==
    /\ advice[a].status = "none"
    /\ advice' = [advice EXCEPT ![a] = [status |-> status, v |-> 1, english |-> english]]
    /\ UNCHANGED <<owner, locale, asked, row, usage, work, due, busy, made, bounds>>

Text(a, english) == [status |-> "visible", v |-> advice[a].v + 1, english |-> english]

\* promote_advice enqueues nothing.
Promote(a, english) ==
    /\ advice[a].status = "provisional"
    /\ advice' = [advice EXCEPT ![a] = Text(a, english)]
    /\ made' = [made EXCEPT ![a] = 0]
    /\ UNCHANGED <<owner, locale, asked, row, usage, work, due, busy, bounds>>

Discard(a) ==
    /\ advice[a].status = "provisional"
    /\ advice' = [advice EXCEPT ![a].status = "deleted"]
    /\ row' = [row EXCEPT ![a] = NoRow]
    /\ UNCHANGED <<owner, locale, asked, usage, work, due, busy, made, bounds>>

\* update_advice: visible advice is refined.
Refine(a, english) ==
    /\ Visible(a) /\ bounds.refined > 0
    /\ bounds' = [bounds EXCEPT !.refined = @ - 1]
    /\ advice' = [advice EXCEPT ![a] = Text(a, english)]
    /\ row' = IF Reads(owner[a]) THEN [row EXCEPT ![a] = Upserted(a, Text(a, english))]
              ELSE row
    /\ made' = [made EXCEPT ![a] = 0]
    /\ UNCHANGED <<owner, locale, asked, usage, work, due, busy>>

-----------------------------------------------------------------------------
(* Claiming.                                                               *)

\* How long a user has to wait for a paid translation.
Wait(u) ==
    LET n == Len(usage[u]) IN IF n < DailyLimit THEN 0 ELSE usage[u][n + 1 - DailyLimit]

Recovered_OnlyTheLast(r) ==
    IF r.status = "running" /\ r.lease = 0 /\ r.attempts >= MaxAttempts
    THEN [r EXCEPT !.status = "unavailable", !.by = Nobody] ELSE r

\* A lapsed lease is another attempt, or the last one was.
Recovered(r) ==
    IF r.status = "running" /\ r.lease = 0
    THEN [r EXCEPT !.status = IF r.attempts >= MaxAttempts
                              THEN "unavailable" ELSE "pending",
                   !.wait = 0, !.by = Nobody]
    ELSE r

Exhausted(r) ==
    IF r.status = "pending" /\ r.attempts >= MaxAttempts
    THEN [r EXCEPT !.status = "unavailable"] ELSE r

Candidates(rows) ==
    {a \in Advice : /\ rows[a].status = "pending" /\ rows[a].wait = 0
                    /\ rows[a].attempts < MaxAttempts
                    /\ Visible(a) /\ Reads(owner[a])}

Claimable(rows) ==
    {a \in Candidates(rows) : /\ Wait(owner[a]) = 0
                              /\ ~advice[a].english
                              /\ rows[a].source = advice[a].v}

\* The loop over the candidates: what it does with those it cannot hand out.
Passed(rows, seen) ==
    [a \in Advice |->
        IF Wait(owner[a]) > 0
        THEN IF rows[a].status = "pending" /\ \E b \in seen : owner[b] = owner[a]
             THEN [rows[a] EXCEPT !.wait = Later(@, Wait(owner[a]))] ELSE rows[a]
        ELSE IF a \notin seen THEN rows[a]
        ELSE IF advice[a].english THEN NoRow
        ELSE Fresh(advice[a].v)]

HandedOut(r, w) ==
    [r EXCEPT !.status = "running", !.attempts = @ + 1, !.lease = Lease, !.by = w]

\* One drain: the worker takes the process's analysis slot, recovers what others left,
\* gives way to the live analysis and leases a translation if it finds one.
Claim(w) ==
    /\ work[w] = Idle /\ w \notin busy
    /\ LET recovered == [a \in Advice |-> Recovered(row[a])]
           ready == [a \in Advice |-> Exhausted(recovered[a])]
       IN  IF due THEN row' = recovered /\ UNCHANGED work
           ELSE \E seen \in SUBSET (Candidates(ready) \ Claimable(ready)) :
                  LET after == Passed(ready, seen) IN
                  \/ /\ Candidates(after) = {}
                     /\ row' = after /\ UNCHANGED work
                  \/ \E a \in Claimable(after) :
                        /\ row' = [after EXCEPT ![a] = HandedOut(@, w)]
                        /\ work' = [work EXCEPT ![w] =
                                       [step |-> "claimed", advice |-> a, source |-> advice[a].v,
                                        attempt |-> after[a].attempts + 1]]
    /\ UNCHANGED <<owner, locale, asked, advice, usage, due, busy, made, bounds>>

-----------------------------------------------------------------------------
(* Translating.                                                            *)

Refused_AsClaimed(u) == FALSE

\* reserve_global_direct_model_call, for the purpose advice_translation.
Refused(u) == Wait(u) > 0

\* The row the worker's lease is still good for.
Holds(w) ==
    LET r == row[work[w].advice] IN
    r.status = "running" /\ r.by = w /\ r.source = work[w].source

Done(w) == work' = [work EXCEPT ![w] = Idle]

\* A paid call is charged before it is made.
Reserve(w) ==
    /\ work[w].step = "claimed"
    /\ LET a == work[w].advice
           u == owner[a]
       IN  /\ ~Refused(u)
           /\ usage' = [usage EXCEPT ![u] = Append(@, Day)]
           /\ made' = IF work[w].source = advice[a].v THEN [made EXCEPT ![a] = @ + 1] ELSE made
    /\ work' = [work EXCEPT ![w].step = "called"]
    /\ UNCHANGED <<owner, locale, asked, advice, row, due, busy, bounds>>

\* complete_advice_localization.
Complete(w) ==
    /\ work[w].step = "called"
    /\ LET a == work[w].advice
           v == work[w].source
       IN  row' = IF ~Visible(a) THEN row
                  ELSE IF advice[a].v # v
                  THEN IF row[a].status = "running" /\ row[a].by = w
                       THEN [row EXCEPT ![a] = Fresh(advice[a].v)] ELSE row
                  ELSE IF Holds(w)
                  THEN [row EXCEPT ![a] = [@ EXCEPT !.status = "ready", !.text = v, !.wait = 0,
                                                    !.lease = 0, !.by = Nobody]]
                  ELSE row
    /\ Done(w)
    /\ UNCHANGED <<owner, locale, asked, advice, usage, due, busy, made, bounds>>

\* The delay grows with the attempts, and is what the model or the budget asks for at least.
Delay(w, after) == Later(work[w].attempt - 1, after)

Failed(w, retryable, after) ==
    LET a == work[w].advice
        retry == retryable /\ work[w].attempt < MaxAttempts
    IN  IF ~Holds(w) THEN row
        ELSE [row EXCEPT ![a] = [@ EXCEPT !.status = IF retry THEN "pending" ELSE "unavailable",
                                          !.wait = Delay(w, after), !.text = 0,
                                          !.lease = 0, !.by = Nobody]]

\* fail_advice_localization: the budget is spent, the model fails or the content may not go out.
Fail(w) ==
    /\ work[w] # Idle
    /\ \/ /\ work[w].step = "claimed" /\ Refused(owner[work[w].advice])
          /\ row' = Failed(w, TRUE, Wait(owner[work[w].advice]))
       \/ \E retryable \in BOOLEAN, after \in RetryAfter : row' = Failed(w, retryable, after)
    /\ Done(w)
    /\ UNCHANGED <<owner, locale, asked, advice, usage, due, busy, made, bounds>>

-----------------------------------------------------------------------------
(* Everything else.                                                        *)

\* A process dies and starts again: its consumer enqueues for everybody who reads English.
Crash(w) ==
    /\ bounds.crashes > 0
    /\ bounds' = [bounds EXCEPT !.crashes = @ - 1]
    /\ work' = [work EXCEPT ![w] = Idle]
    /\ busy' = busy \ {w}
    /\ asked' = asked \cup {u \in User : Reads(u)}
    /\ UNCHANGED <<owner, locale, advice, row, usage, due, made>>

AnalysisArrives ==
    /\ bounds.arrivals > 0 /\ ~due
    /\ due' = TRUE
    /\ bounds' = [bounds EXCEPT !.arrivals = @ - 1]
    /\ UNCHANGED <<owner, locale, asked, advice, row, usage, work, busy, made>>

\* The live analysis takes its job and the slot of the process, and gives it back.
AnalysisTakes(w) ==
    /\ due /\ work[w] = Idle /\ w \notin busy
    /\ due' = FALSE
    /\ busy' = busy \cup {w}
    /\ UNCHANGED <<owner, locale, asked, advice, row, usage, work, made, bounds>>

AnalysisEnds(w) ==
    /\ w \in busy
    /\ busy' = busy \ {w}
    /\ UNCHANGED <<owner, locale, asked, advice, row, usage, work, due, made, bounds>>

\* The oldest calls come first, and are the first that count no more.
Aged(calls) ==
    LET gone == Cardinality({i \in DOMAIN calls : calls[i] <= 1})
    IN  [i \in 1..Len(calls) - gone |-> calls[i + gone] - 1]

Tick ==
    /\ row' = [a \in Advice |-> IF row[a] = NoRow THEN NoRow
                                ELSE [row[a] EXCEPT !.wait = Less(@, 1), !.lease = Less(@, 1)]]
    /\ usage' = [u \in User |-> Aged(usage[u])]
    /\ UNCHANGED <<owner, locale, asked, advice, work, due, busy, made, bounds>>

Next ==
    \/ \E u \in User, l \in {"zh-CN", "en-US"} : SetLocale(u, l)
    \/ \E u \in User : Enqueue(u)
    \/ \E a \in Advice, english \in BOOLEAN :
          \/ \E status \in {"visible", "provisional"} : Insert(a, english, status)
          \/ Promote(a, english)
          \/ Refine(a, english)
    \/ \E a \in Advice : Discard(a)
    \/ \E w \in Worker :
          \/ Claim(w) \/ Reserve(w) \/ Complete(w) \/ Fail(w)
          \/ Crash(w) \/ AnalysisTakes(w) \/ AnalysisEnds(w)
    \/ AnalysisArrives
    \/ Tick

Spec == Init /\ [][Next]_vars

\* Time passes, requests end, the consumers and the analysis of a running process poll, and
\* a call to a model ends in one way or another (its client has a timeout).
Fairness ==
    /\ WF_vars(Tick)
    /\ \A u \in User : WF_vars(Enqueue(u))
    /\ \A w \in Worker :
          /\ WF_vars(Claim(w))
          /\ WF_vars(Reserve(w) \/ Complete(w) \/ Fail(w))
          /\ WF_vars(AnalysisTakes(w))
          /\ WF_vars(AnalysisEnds(w))

FairSpec == Spec /\ Fairness

-----------------------------------------------------------------------------
(* Properties.                                                             *)

\* What the API tells a reader of English about a text in another language.
Shown(a) ==
    IF row[a] = NoRow \/ row[a].source # advice[a].v THEN "pending"
    ELSE IF row[a].status = "running" THEN "pending" ELSE row[a].status

TypeOK ==
    /\ \A a \in Advice : row[a] # NoRow =>
          /\ row[a].status \in {"pending", "running", "ready", "unavailable"}
          /\ row[a].source \in 1..advice[a].v
          /\ row[a].attempts \in 0..MaxAttempts
          /\ row[a].status = "running" <=> row[a].by # Nobody
    /\ \A w \in Worker : work[w] # Idle => work[w].advice \in Advice
    /\ asked \subseteq User

\* However workers stall and texts change, a translation is filed under the text it was made
\* from, two workers never hold one row, nothing unreviewed is translated, no text is paid
\* for more often than it may be tried, and no user's translations cost more than the day's
\* share (complete_advice_localization, _advice_localization_daily_limit).
TranslationsAreFaithful ==
    /\ TypeOK
    /\ \A a \in Advice :
          /\ row[a] # NoRow => Visible(a)
          /\ row[a].status = "ready" => row[a].text = row[a].source
          /\ \A w \in Worker :
                (row[a].status = "running" /\ row[a].by = w /\ work[w] # Idle /\ work[w].advice = a) =>
                    work[w].source = row[a].source /\ work[w].attempt = row[a].attempts
          /\ made[a] <= MaxAttempts
    /\ \A u \in User : Len(usage[u]) <= DailyLimit

\* What has been enqueued is shown as translated or given up, unless the reader or the text
\* turns to another language: not the live analysis, not the day's budget of this or another
\* user, and no dead worker keeps it pending for ever.
EveryTranslationSettles ==
    \A a \in Advice :
        row[a].status \in {"pending", "running"} ~>
            \/ Shown(a) \in {"ready", "unavailable"}
            \/ row[a] = NoRow
            \/ ~Reads(owner[a])
=============================================================================
