---------------------------- MODULE AnalysisQueue ----------------------------
(***************************************************************************)
(* The durable analysis queue of backend/app/analysis_queue.py and         *)
(* storage.py: jobs that are claimed under a lease, make up to two calls   *)
(* of a language model against an hourly budget shared by all tenants, and *)
(* end in advice or in none.                                               *)
(*                                                                         *)
(* Workers are processes that share the SQLite database, each with one     *)
(* analysis slot (ANALYSIS_SINGLE_FLIGHT).  Every transaction is a step,   *)
(* and a worker may stall or die between any two, so it may come back      *)
(* after its lease was given away.                                         *)
(*                                                                         *)
(* Times are kept relative to the present: wait is how long until          *)
(* next_attempt_at, an age how long ago a timestamp was taken, no further  *)
(* than it matters.  The code compares timestamps with the present only,   *)
(* so nothing is lost and time needs no bound.  Of the hourly and the      *)
(* daily limit, which work alike, one window is modelled.  Contents,       *)
(* prompts and gates are abstracted to a free choice of the outcome.       *)
(*                                                                         *)
(* A definition named Op_Variant is Op as a plausible slip would have      *)
(* written it; no specification uses it.                                   *)
(***************************************************************************)
EXTENDS Integers, FiniteSets

CONSTANTS
    User,        \* tenants
    Event,       \* stored events, each of which may get one job
    Owner,       \* whose event it is
    Topic,       \* what the advice would be about
    Refine,      \* jobs of kind refine_deterministic; the others discover
    Worker,      \* processes
    DirectCall,  \* rows of global_model_usage younger than the window
    Nobody,      \* the tenant of a row not in use
    MaxAttempts, \* MOUCHEN_ANALYSIS_MAX_ATTEMPTS
    Lease,       \* ANALYSIS_JOB_LEASE
    Window,      \* the hour the limits are about
    RetryDelay,  \* time until a failed attempt is repeated
    UserLimit,   \* model calls of one tenant per window
    GlobalLimit  \* model calls of all tenants per window

Calls == 2 \* ANALYSIS_JOB_RESERVED_MODEL_CALLS

ASSUME DomainAssumption ==
    /\ Owner \in [Event -> User]
    /\ Refine \subseteq Event
    /\ Nobody \notin User
    /\ \A e, f \in Event : Topic[e] = Topic[f] => Owner[e] = Owner[f]

ASSUME BoundAssumption ==
    /\ MaxAttempts \in Nat \ {0}
    /\ Lease \in Nat \ {0}
    /\ Window \in Nat \ {0}
    /\ RetryDelay \in Nat
    /\ UserLimit \in Nat
    /\ GlobalLimit \in Nat
    /\ IsFiniteSet(Event)
    /\ IsFiniteSet(DirectCall)

VARIABLES
    job,         \* analysis_jobs
    old,         \* events past the age at which discovery is pointless
    reservation, \* analysis_model_reservations, by event and attempt
    direct,      \* global_model_usage
    advice,      \* the nonterminal advice row of each event
    worker,      \* what each process is doing
    published    \* history: <<event, attempt>> whose advice became visible

vars == <<job, old, reservation, direct, advice, worker, published>>

-----------------------------------------------------------------------------
(* Types.                                                                  *)

Attempt == 1..MaxAttempts

Terminal == {"published", "no_intervention"}

Job == [status: {"none", "pending", "retry", "running"} \cup Terminal,
        attempts: 0..MaxAttempts,
        wait: Nat,      \* while pending or retry
        age: 0..Lease,  \* of updated_at, while running
        reason: {"none", "user budget", "global budget", "published", "merged"}]

Reservation == [state: {"none", "open", "settled"},
                calls: 0..Calls,  \* actual_calls
                age: 0..Window]

\* by is the attempt that inserted the row, which stands for its id.
Advice == [state: {"none", "provisional", "active"},
           by: 0..MaxAttempts,
           age: 0..Lease]

Usage == [user: User \cup {Nobody}, age: 0..Window - 1]

Idle == [step |-> "idle"]
Down == [step |-> "down"]
Outcome == {"published", "merged", "declined", "retry"}
Busy == [step: {"claimed", "drafted", "asked once", "asked twice", "settling"},
         event: Event, attempt: Attempt] \cup
        [step: {"dropping", "decided"}, event: Event, attempt: Attempt,
         outcome: Outcome]

TypeOK ==
    /\ job \in [Event -> Job]
    /\ old \subseteq Event
    /\ reservation \in [Event -> [Attempt -> Reservation]]
    /\ direct \in [DirectCall -> Usage]
    /\ advice \in [Event -> Advice]
    /\ worker \in [Worker -> Busy \cup {Idle, Down}]
    /\ published \subseteq Event \X Attempt

NewJob(status) == [status |-> status, attempts |-> 0, wait |-> 0, age |-> 0,
                   reason |-> "none"]

NoAdvice == [state |-> "none", by |-> 0, age |-> 0]

NoUsage == [user |-> Nobody, age |-> 0]

Init ==
    /\ job = [e \in Event |-> NewJob("none")]
    /\ old = {}
    /\ reservation = [e \in Event |-> [a \in Attempt |->
                         [state |-> "none", calls |-> 0, age |-> 0]]]
    /\ direct = [c \in DirectCall |-> NoUsage]
    /\ advice = [e \in Event |-> NoAdvice]
    /\ worker = [w \in Worker |-> Idle]
    /\ published = {}

-----------------------------------------------------------------------------
(* The tables as a transaction changes them: j stands for analysis_jobs    *)
(* and r for analysis_model_reservations.                                  *)

Mine(u) == {e \in Event : Owner[e] = u}

Waiting(j, e) == j[e].status \in {"pending", "retry"}

Lapsed(j, e) == j[e].status = "running" /\ j[e].age = Lease

Ended(row, status, reason) ==
    [row EXCEPT !.status = status, !.wait = 0, !.age = 0, !.reason = reason]

Again(row, delay) ==
    [row EXCEPT !.status = "retry", !.wait = delay, !.age = 0, !.reason = "none"]

\* The claim's own tenant: attempts are limited, lapsed leases start over.
Recovered(u) ==
    [e \in Event |->
        IF Owner[e] # u \/ ~(Waiting(job, e) \/ Lapsed(job, e)) THEN job[e]
        ELSE IF job[e].attempts >= MaxAttempts
             THEN Ended(job[e], "no_intervention", "none")
             ELSE IF Lapsed(job, e) THEN Again(job[e], 0) ELSE job[e]]

\* _reclaim_expired_analysis_leases_locked: all tenants.
Reclaimed(j) ==
    [e \in Event |-> IF Lapsed(j, e) THEN Again(j[e], 0) ELSE j[e]]

\* _retire_stale_analysis_jobs_locked: discovery that waited too long for
\* anything but the budget.
Retired(j, users) ==
    [e \in Event |->
        IF /\ Owner[e] \in users
           /\ e \in old \ Refine
           /\ Waiting(j, e)
           /\ j[e].reason \notin {"user budget", "global budget"}
        THEN Ended(j[e], "no_intervention", "none") ELSE j[e]]

\* A reservation whose attempt no longer runs.
Inactive_WhenTheJobEnded(j, e, a) == j[e].status \in Terminal

Inactive(j, e, a) == ~(j[e].status = "running" /\ j[e].attempts = a)

\* _settle_inactive_analysis_reservations_locked
Settled(j, r, users) ==
    [e \in Event |-> [a \in Attempt |->
        IF Owner[e] \in users /\ r[e][a].state = "open" /\ Inactive(j, e, a)
        THEN [r[e][a] EXCEPT !.state = "settled"] ELSE r[e][a]]]

-----------------------------------------------------------------------------
(* The budget.  An open reservation counts for all its calls, a settled    *)
(* one for those it made, each as one unit.                                *)

Counted_AsMade(entry) == entry.calls

Counted(entry) == IF entry.state = "open" THEN Calls ELSE entry.calls

\* The units of some tenants that are at least oldest, and still, in the window.
Reserved(r, users, oldest) ==
    {unit \in Event \X Attempt \X (1..Calls) :
        LET entry == r[unit[1]][unit[2]] IN
        /\ Owner[unit[1]] \in users
        /\ entry.age \in oldest..Window - 1
        /\ unit[3] <= Counted(entry)}

Direct(users, oldest) ==
    {c \in DirectCall : direct[c].user \in users /\ direct[c].age >= oldest}

Used(r, users, oldest) ==
    Cardinality(Reserved(r, users, oldest)) + Cardinality(Direct(users, oldest))

Affordable(r, users, needed, limit) == Used(r, users, 0) + needed <= limit

\* Whether enough of the oldest units have left the window by then.
Released(r, users, needed, limit, delay) ==
    Used(r, users, Window - delay) >= Used(r, users, 0) + needed - limit

\* _budget_defer_until: the first time they have.
DeferUntil(r, users, needed, limit) ==
    {delay \in 1..Window :
        IF needed > limit THEN delay = Window
        ELSE /\ Released(r, users, needed, limit, delay)
             /\ delay > 1 => ~Released(r, users, needed, limit, delay - 1)}

-----------------------------------------------------------------------------
(* claim_analysis_job, for any job of a tenant or for a given one (scope): *)
(* one transaction with three results.                                     *)

ClaimJobs(u) == Retired(Recovered(u), {u})

ClaimReservations(u) == Settled(ClaimJobs(u), reservation, {u})

BudgetJobs(u) == Reclaimed(ClaimJobs(u))

BudgetReservations(u) == Settled(BudgetJobs(u), ClaimReservations(u), User)

Due(u, scope) ==
    {e \in Mine(u) \cap scope : Waiting(ClaimJobs(u), e) /\ ClaimJobs(u)[e].wait = 0}

\* Nothing is due.
ClaimNothing(w, u, scope) ==
    /\ worker[w] = Idle
    /\ Due(u, scope) = {}
    /\ job' = ClaimJobs(u)
    /\ reservation' = ClaimReservations(u)
    /\ UNCHANGED <<old, direct, advice, worker, published>>

\* The budget is exhausted: all that is due waits until it is not.
Deferred(u, scope, delay, reason) ==
    [e \in Event |->
        IF e \in Mine(u) \cap scope /\ Waiting(BudgetJobs(u), e)
           /\ BudgetJobs(u)[e].wait = 0
        THEN [BudgetJobs(u)[e] EXCEPT !.wait = delay, !.reason = reason]
        ELSE BudgetJobs(u)[e]]

GloballyAffordable(u) == Affordable(BudgetReservations(u), User, Calls, GlobalLimit)

UserAffordable(u) == Affordable(BudgetReservations(u), {u}, Calls, UserLimit)

ClaimDeferred(w, u, scope) ==
    /\ worker[w] = Idle
    /\ Due(u, scope) # {}
    /\ \/ /\ ~GloballyAffordable(u)
          /\ \E delay \in DeferUntil(BudgetReservations(u), User, Calls, GlobalLimit) :
                job' = Deferred(u, scope, delay, "global budget")
       \/ /\ GloballyAffordable(u)
          /\ ~UserAffordable(u)
          /\ \E delay \in DeferUntil(BudgetReservations(u), {u}, Calls, UserLimit) :
                job' = Deferred(u, scope, delay, "user budget")
    /\ reservation' = BudgetReservations(u)
    /\ UNCHANGED <<old, direct, advice, worker, published>>

Started(row) == [row EXCEPT !.status = "running", !.attempts = @ + 1, !.age = 0,
                            !.wait = 0, !.reason = "none"]

\* A job is leased and its calls are reserved.  Which of the due ones is a
\* matter of priorities, which are not modelled.
ClaimJob(w, u, scope) ==
    /\ worker[w] = Idle
    /\ GloballyAffordable(u)
    /\ UserAffordable(u)
    /\ \E e \in Due(u, scope) :
          LET a == job[e].attempts + 1 IN
          /\ job' = [BudgetJobs(u) EXCEPT ![e] = Started(@)]
          /\ reservation' = [BudgetReservations(u) EXCEPT ![e][a] =
                                [state |-> "open", calls |-> 0, age |-> 0]]
          /\ advice' = IF advice[e].state = "provisional"
                       THEN [advice EXCEPT ![e] = NoAdvice] ELSE advice
          /\ worker' = [worker EXCEPT ![w] =
                           [step |-> "claimed", event |-> e, attempt |-> a]]
    /\ UNCHANGED <<old, direct, published>>

-----------------------------------------------------------------------------
(* _process_claim: the work on a claim.                                    *)

At(w, steps) == worker[w].step \in steps

Now(w, step) ==
    worker' = [worker EXCEPT ![w] = [step |-> step, event |-> worker[w].event,
                                     attempt |-> worker[w].attempt]]

Ending(w, step, outcome) ==
    worker' = [worker EXCEPT ![w] =
                  [step |-> step, event |-> worker[w].event,
                   attempt |-> worker[w].attempt, outcome |-> outcome]]

\* Advice about the topic exists, be it of this event (AdviceConflict) or of
\* another (active_duplicate).
Duplicate(e) == \E f \in Event : Topic[f] = Topic[e] /\ advice[f].state # "none"

\* _refine_deterministic: the rule's advice, invisible until reviewed.
Draft(w) ==
    LET e == worker[w].event IN
    /\ At(w, {"claimed"})
    /\ e \in Refine
    /\ IF Duplicate(e)
       THEN Ending(w, "decided", "merged") /\ UNCHANGED advice
       ELSE /\ advice' = [advice EXCEPT ![e] =
                 [state |-> "provisional", by |-> worker[w].attempt, age |-> 0]]
            /\ Now(w, "drafted")
    /\ UNCHANGED <<job, old, reservation, direct, published>>

\* What failed or was declined after a draft takes the draft back first.
GivesUp(w, outcome) ==
    Ending(w, IF worker[w].event \in Refine /\ ~At(w, {"claimed"})
              THEN "dropping" ELSE "decided", outcome)

\* record_analysis_model_call, then the call: the primary one and a review.
Ask(w) ==
    LET e     == worker[w].event
        a     == worker[w].attempt
        entry == reservation[e][a]
    IN  /\ \/ At(w, {"claimed"}) /\ e \notin Refine
           \/ At(w, {"drafted", "asked once"})
        /\ IF entry.state = "open" /\ entry.calls < Calls
           THEN /\ reservation' = [reservation EXCEPT ![e][a].calls = @ + 1]
                /\ Now(w, IF At(w, {"asked once"}) THEN "asked twice" ELSE "asked once")
           ELSE GivesUp(w, "retry") /\ UNCHANGED reservation
        /\ UNCHANGED <<job, old, direct, advice, published>>

\* Preferences, gates, a refusal or a failure of the model, a cancellation.
GiveUp(w) ==
    /\ At(w, {"claimed", "drafted", "asked once", "asked twice"})
    /\ \E outcome \in {"declined", "retry"} : GivesUp(w, outcome)
    /\ UNCHANGED <<job, old, reservation, direct, advice, published>>

\* delete_advice: this attempt's draft, if it is still there.
Drop(w) ==
    LET e == worker[w].event IN
    /\ At(w, {"dropping"})
    /\ advice' = IF /\ advice[e].state = "provisional"
                    /\ advice[e].by = worker[w].attempt
                 THEN [advice EXCEPT ![e] = NoAdvice] ELSE advice
    /\ Ending(w, "decided", worker[w].outcome)
    /\ UNCHANGED <<job, old, reservation, direct, published>>

\* Taking it back fails: the attempt is repeated, the draft stays.
DropFails(w) ==
    /\ At(w, {"dropping"})
    /\ Ending(w, "decided", "retry")
    /\ UNCHANGED <<job, old, reservation, direct, advice, published>>

\* _discover: advice below L3 needs no review, other advice passed it.
Publish(w) ==
    LET e == worker[w].event
        a == worker[w].attempt
    IN  /\ At(w, {"asked once", "asked twice"})
        /\ e \notin Refine
        /\ IF Duplicate(e)
           THEN Ending(w, "decided", "merged") /\ UNCHANGED <<advice, published>>
           ELSE /\ advice' = [advice EXCEPT ![e] =
                                 [state |-> "active", by |-> a, age |-> 0]]
                /\ published' = published \cup {<<e, a>>}
                /\ Ending(w, "decided", "published")
        /\ UNCHANGED <<job, old, reservation, direct>>

Promotable_ByEvidence(e, a) == advice[e].state = "provisional"

Promotable(e, a) == advice[e].state = "provisional" /\ advice[e].by = a

\* promote_advice: the reviewed draft becomes visible, if it is still there.
Promote(w) ==
    LET e == worker[w].event
        a == worker[w].attempt
    IN  /\ At(w, {"asked twice"})
        /\ e \in Refine
        /\ IF Promotable(e, a)
           THEN /\ advice' = [advice EXCEPT ![e].state = "active", ![e].age = 0]
                /\ published' = published \cup {<<e, advice[e].by>>}
                /\ Ending(w, "decided", "published")
           ELSE GivesUp(w, "retry") /\ UNCHANGED <<advice, published>>
        /\ UNCHANGED <<job, old, reservation, direct>>

Holds_SameAttempt(e, a) == job[e].attempts = a

Holds_Running(e, a) == job[e].status = "running"

\* WHERE ... status='running' AND attempts=?
Holds(e, a) == job[e].status = "running" /\ job[e].attempts = a

Concluded(row, outcome) ==
    CASE outcome \in {"published", "merged"} -> Ended(row, "published", outcome)
      [] outcome = "retry" /\ row.attempts < MaxAttempts -> Again(row, RetryDelay)
      [] OTHER -> Ended(row, "no_intervention", "none")

\* complete_analysis_job, retry_analysis_job
Conclude(w) ==
    LET e == worker[w].event IN
    /\ At(w, {"decided"})
    /\ job' = IF Holds(e, worker[w].attempt)
              THEN [job EXCEPT ![e] = Concluded(@, worker[w].outcome)] ELSE job
    /\ Now(w, "settling")
    /\ UNCHANGED <<old, reservation, direct, advice, published>>

\* The transaction fails: the failure is reported instead, unless that was the
\* report, or what failed is the conclusion of an exception handler.
ConcludeFails(w) ==
    /\ At(w, {"decided"})
    /\ \/ worker[w].outcome # "retry" /\ Ending(w, "decided", "retry")
       \/ worker[w].outcome \in {"retry", "declined"} /\ Now(w, "settling")
    /\ UNCHANGED <<job, old, reservation, direct, advice, published>>

\* Reading the preferences fails, outside the try block: nothing is concluded
\* and nothing settled.
Abandon(w) ==
    /\ At(w, {"claimed"})
    /\ worker' = [worker EXCEPT ![w] = Idle]
    /\ UNCHANGED <<job, old, reservation, direct, advice, published>>

\* Jobs asleep because of a budget.
Asleep(j, e, reason) == Waiting(j, e) /\ j[e].reason = reason /\ j[e].wait > 0

\* Released calls wake the tenant's own jobs and one of all the others.
Woken(u, chosen) ==
    [e \in Event |->
        IF \/ e \in Mine(u) /\ Asleep(job, e, "user budget")
           \/ e \in chosen
        THEN [job[e] EXCEPT !.wait = 0] ELSE job[e]]

\* settle_analysis_model_reservation, in the finally branch.
Settle(w) ==
    LET e     == worker[w].event
        a     == worker[w].attempt
        entry == reservation[e][a]
        tired == {f \in Event : Asleep(job, f, "global budget")}
    IN  /\ At(w, {"settling"})
        /\ IF entry.state = "open" /\ entry.calls < Calls
           THEN \E chosen \in SUBSET tired :
                   /\ Cardinality(chosen) = IF tired = {} THEN 0 ELSE 1
                   /\ job' = Woken(Owner[e], chosen)
           ELSE UNCHANGED job
        /\ reservation' = [reservation EXCEPT ![e][a].state = "settled"]
        /\ worker' = [worker EXCEPT ![w] = Idle]
        /\ UNCHANGED <<old, direct, advice, published>>

-----------------------------------------------------------------------------
(* Processes and their surroundings.                                       *)

Crash(w) ==
    /\ worker[w] # Down
    /\ worker' = [worker EXCEPT ![w] = Down]
    /\ UNCHANGED <<job, old, reservation, direct, advice, published>>

\* Opening the database drops abandoned drafts, starting the consumer makes
\* what was deferred for a budget due.
Restart(w) ==
    /\ worker[w] = Down
    /\ worker' = [worker EXCEPT ![w] = Idle]
    /\ job' = [e \in Event |->
                  IF \E reason \in {"user budget", "global budget"} : Asleep(job, e, reason)
                  THEN [job[e] EXCEPT !.wait = 0] ELSE job[e]]
    /\ advice' = [e \in Event |->
                     IF advice[e].state = "provisional" /\ advice[e].age = Lease
                     THEN NoAdvice ELSE advice[e]]
    /\ UNCHANGED <<old, reservation, direct, published>>

\* The event was ingested and its analysis authorized.
Enqueue(e) ==
    /\ job[e].status = "none"
    /\ job' = [job EXCEPT ![e] = NewJob("pending")]
    /\ UNCHANGED <<old, reservation, direct, advice, worker, published>>

\* next_due_analysis_user retires for all tenants before it looks.
Poll(w) ==
    /\ worker[w] = Idle
    /\ job' = Retired(job, User)
    /\ UNCHANGED <<old, reservation, direct, advice, worker, published>>

\* The event gets too old to discover anything in.
GrowOld(e) ==
    /\ e \notin old \cup Refine
    /\ old' = old \cup {e}
    /\ UNCHANGED <<job, reservation, direct, advice, worker, published>>

\* The advice is withdrawn, dismissed or judged.
Close(e) ==
    /\ advice[e].state = "active"
    /\ advice' = [advice EXCEPT ![e] = NoAdvice]
    /\ UNCHANGED <<job, old, reservation, direct, worker, published>>

\* reserve_global_direct_model_call by a tenant's chat, translation or review:
\* refused by the tenant's own budget ...
DirectRefused(u) ==
    LET r == Settled(job, reservation, {u}) IN
    /\ ~Affordable(r, {u}, 1, UserLimit)
    /\ reservation' = r
    /\ UNCHANGED <<job, old, direct, advice, worker, published>>

\* ... or decided by the shared one.
DirectDecided(u) ==
    LET r == Settled(Reclaimed(job), Settled(job, reservation, {u}), User) IN
    /\ Affordable(Settled(job, reservation, {u}), {u}, 1, UserLimit)
    /\ job' = Reclaimed(job)
    /\ reservation' = r
    /\ IF Affordable(r, User, 1, GlobalLimit)
       THEN \E c \in DirectCall :
               /\ direct[c] = NoUsage
               /\ direct' = [direct EXCEPT ![c] = [user |-> u, age |-> 0]]
       ELSE UNCHANGED direct
    /\ UNCHANGED <<old, advice, worker, published>>

Older(age, limit) == IF age < limit THEN age + 1 ELSE limit

Tick ==
    /\ job' = [e \in Event |->
          [job[e] EXCEPT !.wait = IF @ > 0 THEN @ - 1 ELSE 0,
                         !.age = IF job[e].status = "running" THEN Older(@, Lease) ELSE 0]]
    /\ reservation' = [e \in Event |-> [a \in Attempt |->
          [reservation[e][a] EXCEPT !.age = IF reservation[e][a].state = "none"
                                            THEN 0 ELSE Older(@, Window)]]]
    /\ direct' = [c \in DirectCall |->
          IF direct[c].user = Nobody \/ direct[c].age + 1 = Window THEN NoUsage
          ELSE [direct[c] EXCEPT !.age = @ + 1]]
    /\ advice' = [e \in Event |->
          [advice[e] EXCEPT !.age = IF advice[e].state = "provisional"
                                    THEN Older(@, Lease) ELSE 0]]
    /\ UNCHANGED <<old, worker, published>>

-----------------------------------------------------------------------------
Claim(w, u, scope) ==
    ClaimNothing(w, u, scope) \/ ClaimDeferred(w, u, scope) \/ ClaimJob(w, u, scope)

Proceed(w) ==
    \/ Draft(w)
    \/ Ask(w)
    \/ GiveUp(w)
    \/ Drop(w)
    \/ DropFails(w)
    \/ Publish(w)
    \/ Promote(w)
    \/ Conclude(w)
    \/ ConcludeFails(w)
    \/ Settle(w)

Next ==
    \/ \E w \in Worker :
          \/ \E u \in User, scope \in {Event} \cup {{e} : e \in Event} : Claim(w, u, scope)
          \/ Proceed(w)
          \/ Abandon(w)
          \/ Crash(w)
          \/ Restart(w)
          \/ Poll(w)
    \/ \E e \in Event :
          \/ Enqueue(e)
          \/ GrowOld(e)
          \/ Close(e)
    \/ \E u \in User : DirectRefused(u) \/ DirectDecided(u)
    \/ Tick

Spec == Init /\ [][Next]_vars

(* The consumer polls while its process runs, model calls have timeouts,   *)
(* and the container is restarted.                                         *)

CallsForClaim_Waiting(u) ==
    \E e \in Mine(u) : Waiting(job, e) /\ job[e].wait = 0

\* next_due_analysis_user
CallsForClaim(u) ==
    \E e \in Mine(u) :
        \/ Lapsed(job, e)
        \/ Waiting(job, e) /\ job[e].wait = 0

Consume(w) == \E u \in User : CallsForClaim(u) /\ Claim(w, u, Event)

Fairness ==
    /\ WF_vars(Tick)
    /\ \A w \in Worker :
          WF_vars(Consume(w)) /\ WF_vars(Proceed(w)) /\ WF_vars(Restart(w))

\* What may happen again and again, though not for ever: processes die, and
\* direct calls of the model take the budget.
Disturbance ==
    \/ \E w \in Worker : Crash(w)
    \/ \E u \in User : DirectDecided(u) /\ direct' # direct

FairSpec == Spec /\ Fairness /\ <>[][~Disturbance]_vars

-----------------------------------------------------------------------------
(* Safety.                                                                 *)

\* What counts against a window never exceeds a limit, the shared one or a
\* tenant's, although reservations are given up behind the back of workers that
\* are still at it (storage.py claim_analysis_job,
\* reserve_global_direct_model_call).  A call counts by the age of the
\* reservation it was charged to, as the code counts it: calls made late in an
\* attempt leave the window with the reservation, so the calls actually made in
\* a window of that length may be more.
BudgetHolds ==
    /\ Used(reservation, User, 0) <= GlobalLimit
    /\ \A u \in User : Used(reservation, {u}, 0) <= UserLimit

\* A worker that lost its lease makes no more calls: only the running attempt
\* of a job spends (storage.py record_analysis_model_call,
\* _settle_inactive_analysis_reservations_locked).
StaleWorkersCannotSpend ==
    [][\A e \in Event, a \in Attempt :
          reservation'[e][a].calls > reservation[e][a].calls => Holds(e, a)]_vars

\* Nothing becomes visible on the strength of another attempt's review: what an
\* attempt published it paid for, a warning of the rules with both calls
\* (advice_refiner.py refine, storage.py promote_advice).
NothingUnreviewedIsVisible ==
    \A e \in Event, a \in Attempt :
        <<e, a>> \in published =>
            reservation[e][a].calls >= IF e \in Refine THEN Calls ELSE 1

\* A job that reports advice of its own did make some visible, in the attempt
\* that reports it (analysis_queue.py _finish_evaluation).
PublishedTruthfully ==
    \A e \in Event :
        job[e].reason = "published" => <<e, job[e].attempts>> \in published

\* A decided job stays as it was decided, whatever late workers report, and no
\* attempt is ever taken back (storage.py complete_analysis_job,
\* retry_analysis_job).
DecidedOnce ==
    [][\A e \in Event :
          /\ job[e].status \in Terminal => job'[e] = job[e]
          /\ job'[e].attempts >= job[e].attempts]_vars

(* Liveness.                                                               *)

\* Every queued job is decided in the end: through lapsed leases, deferrals,
\* crashes and any competition for the budget that is not endless
\* (analysis_queue.py AnalysisQueueConsumer).
EveryJobIsDecided ==
    \A e \in Event : job[e].status = "pending" ~> job[e].status \in Terminal

(* What comments say and the code does not do.                             *)

\* "Waking one best job is enough; each subsequent settlement can wake the
\* next" (storage.py settle_analysis_model_reservation): while a job sleeps for
\* the shared budget although that budget and its tenant's can pay for it, some
\* job is due or at work and will settle.
WakingOneIsEnough ==
    \A e \in Event :
        /\ Asleep(job, e, "global budget")
        /\ Affordable(reservation, User, Calls, GlobalLimit)
        /\ Affordable(reservation, {Owner[e]}, Calls, UserLimit)
        => \/ \E u \in User : CallsForClaim(u)
           \/ \E w \in Worker : worker[w] # Idle

\* "Drain authorized durable model jobs without duplicating advice"
\* (analysis_queue.py AnalysisQueueProcessor): no event is brought before the
\* person twice.
NoDuplicateAdvice ==
    \A e \in Event, a, b \in Attempt :
        <<e, a>> \in published /\ <<e, b>> \in published => a = b
=============================================================================
