-------------------------- MODULE AnalysisQueueProofs --------------------------
(***************************************************************************)
(* What holds of the analysis queue for every number of tenants, events,   *)
(* processes and attempts and for every limit.                             *)
(***************************************************************************)
EXTENDS AnalysisQueue, FiniteSetTheorems, TLAPS

Reason == {"none", "user budget", "global budget", "published", "merged"}

Jobs == [Event -> Job]

Reservations == [Event -> [Attempt -> Reservation]]

Activities == [Worker -> Busy \cup {Idle, Down}]

-----------------------------------------------------------------------------
(* Types of what the transactions compute.                                 *)

LEMMA EndedType ==
    ASSUME NEW row \in Job, NEW status \in Terminal, NEW reason \in Reason
    PROVE  Ended(row, status, reason) \in Job
<1>0. 0 \in 0..Lease
  BY BoundAssumption
<1>1. [row EXCEPT !.status = status] \in Job
  BY DEF Job
<1>2. [row EXCEPT !.status = status, !.wait = 0] \in Job
  BY <1>1 DEF Job
<1>3. [row EXCEPT !.status = status, !.wait = 0, !.age = 0] \in Job
  BY <1>0, <1>2 DEF Job
<1>4. [row EXCEPT !.status = status, !.wait = 0, !.age = 0, !.reason = reason] \in Job
  BY <1>3 DEF Job, Reason
<1> QED BY <1>4 DEF Ended

LEMMA AgainType ==
    ASSUME NEW row \in Job, NEW delay \in Nat
    PROVE  Again(row, delay) \in Job
<1>0. 0 \in 0..Lease
  BY BoundAssumption
<1>1. [row EXCEPT !.status = "retry"] \in Job
  BY DEF Job
<1>2. [row EXCEPT !.status = "retry", !.wait = delay] \in Job
  BY <1>1 DEF Job
<1>3. [row EXCEPT !.status = "retry", !.wait = delay, !.age = 0] \in Job
  BY <1>0, <1>2 DEF Job
<1>4. [row EXCEPT !.status = "retry", !.wait = delay, !.age = 0, !.reason = "none"] \in Job
  BY <1>3 DEF Job
<1> QED BY <1>4 DEF Again

LEMMA RowFields ==
    ASSUME NEW row \in Job, NEW status, NEW reason, NEW delay
    PROVE  /\ Ended(row, status, reason).status = status
           /\ Ended(row, status, reason).attempts = row.attempts
           /\ Again(row, delay).status = "retry"
           /\ Again(row, delay).attempts = row.attempts
BY DEF Ended, Again, Job

LEMMA ReclaimedType ==
    ASSUME NEW j \in Jobs
    PROVE  Reclaimed(j) \in Jobs
BY AgainType DEF Reclaimed, Jobs

LEMMA RetiredType ==
    ASSUME NEW j \in Jobs, NEW users
    PROVE  Retired(j, users) \in Jobs
<1>1. \A e \in Event : Ended(j[e], "no_intervention", "none") \in Job
  BY EndedType DEF Jobs, Terminal, Reason
<1> QED BY <1>1 DEF Retired, Jobs

LEMMA RecoveredType ==
    ASSUME job \in Jobs, NEW u
    PROVE  Recovered(u) \in Jobs
<1>1. \A e \in Event : Ended(job[e], "no_intervention", "none") \in Job
  BY EndedType DEF Jobs, Terminal, Reason
<1>2. \A e \in Event : Again(job[e], 0) \in Job
  BY AgainType DEF Jobs
<1> QED BY <1>1, <1>2 DEF Recovered, Jobs

LEMMA SettledType ==
    ASSUME NEW j, NEW r \in Reservations, NEW users
    PROVE  Settled(j, r, users) \in Reservations
<1>1. \A e \in Event, a \in Attempt : [r[e][a] EXCEPT !.state = "settled"] \in Reservation
  BY DEF Reservations, Reservation
<1> QED BY <1>1 DEF Settled, Reservations

LEMMA ClaimTypes ==
    ASSUME job \in Jobs, reservation \in Reservations, NEW u
    PROVE  /\ ClaimJobs(u) \in Jobs
           /\ ClaimReservations(u) \in Reservations
           /\ BudgetJobs(u) \in Jobs
           /\ BudgetReservations(u) \in Reservations
<1>1. ClaimJobs(u) \in Jobs
  BY RecoveredType, RetiredType DEF ClaimJobs
<1>2. ClaimReservations(u) \in Reservations
  BY SettledType DEF ClaimReservations
<1>3. BudgetJobs(u) \in Jobs
  BY <1>1, ReclaimedType DEF BudgetJobs
<1> QED BY <1>1, <1>2, <1>3, SettledType DEF BudgetReservations

LEMMA StartedType ==
    ASSUME NEW row \in Job, row.attempts + 1 \in Attempt
    PROVE  Started(row) \in Job
<1>0. 0 \in 0..Lease /\ row.attempts + 1 \in 0..MaxAttempts
  <2>1. 0 \in 0..Lease
    BY BoundAssumption
  <2>2. row.attempts + 1 \in 0..MaxAttempts
    BY DEF Attempt
  <2> QED BY <2>1, <2>2
<1>1. [row EXCEPT !.status = "running"] \in Job
  BY DEF Job
<1>2. [row EXCEPT !.status = "running", !.attempts = @ + 1] \in Job
  BY <1>0, <1>1 DEF Job
<1>3. [row EXCEPT !.status = "running", !.attempts = @ + 1, !.age = 0] \in Job
  BY <1>0, <1>2 DEF Job
<1>4. [row EXCEPT !.status = "running", !.attempts = @ + 1, !.age = 0, !.wait = 0] \in Job
  BY <1>3 DEF Job
<1>5. [row EXCEPT !.status = "running", !.attempts = @ + 1, !.age = 0, !.wait = 0,
                  !.reason = "none"] \in Job
  BY <1>4 DEF Job
<1> QED BY <1>5 DEF Started

\* What is due after the exhausted jobs were ended has an attempt left, and
\* neither the claim nor the budget check changed its count.
LEMMA DueCanStart ==
    ASSUME job \in Jobs, NEW u, NEW scope, NEW e \in Due(u, scope)
    PROVE  /\ e \in Event
           /\ Owner[e] = u
           /\ job[e].attempts + 1 \in Attempt
           /\ BudgetJobs(u)[e].attempts = job[e].attempts
           /\ Waiting(BudgetJobs(u), e)
<1>1. e \in Event /\ Owner[e] = u /\ Waiting(ClaimJobs(u), e)
  BY DEF Due, Mine
<1>2. job[e] \in Job
  BY <1>1 DEF Jobs
<1>3. Waiting(Recovered(u), e) /\ ClaimJobs(u)[e] = Recovered(u)[e]
  <2>1. Recovered(u)[e] \in Job
    BY <1>1, RecoveredType DEF Jobs
  <2>2. Ended(Recovered(u)[e], "no_intervention", "none").status = "no_intervention"
    BY <2>1, RowFields
  <2> QED BY <1>1, <2>2 DEF ClaimJobs, Retired, Waiting
<1>4. /\ job[e].attempts < MaxAttempts
      /\ Recovered(u)[e].attempts = job[e].attempts
  <2>1. /\ Ended(job[e], "no_intervention", "none").status = "no_intervention"
        /\ Again(job[e], 0).attempts = job[e].attempts
    BY <1>2, RowFields
  <2>2. Waiting(job, e) \/ Lapsed(job, e)
    BY <1>1, <1>3 DEF Recovered, Waiting
  <2>3. ~(job[e].attempts >= MaxAttempts)
    BY <1>1, <1>3, <2>1, <2>2 DEF Recovered, Waiting
  <2>4. Recovered(u)[e].attempts = job[e].attempts
    BY <1>1, <2>1, <2>2, <2>3 DEF Recovered
  <2>5. MaxAttempts \in Nat
    BY BoundAssumption
  <2>6. job[e].attempts \in 0..MaxAttempts
    BY <1>2 DEF Job
  <2> QED BY <2>3, <2>4, <2>5, <2>6
<1>5. BudgetJobs(u)[e] = ClaimJobs(u)[e]
  BY <1>1 DEF BudgetJobs, Reclaimed, Lapsed, Waiting
<1>6. job[e].attempts + 1 \in Attempt
  <2>1. job[e].attempts \in 0..MaxAttempts
    BY <1>2 DEF Job
  <2>2. MaxAttempts \in Nat
    BY BoundAssumption
  <2> QED BY <1>4, <2>1, <2>2 DEF Attempt
<1> QED BY <1>1, <1>3, <1>4, <1>5, <1>6 DEF Waiting

LEMMA BusyFields ==
    ASSUME worker \in Activities, NEW w \in Worker, worker[w].step \notin {"idle", "down"}
    PROVE  /\ worker[w] \in Busy
           /\ worker[w].event \in Event
           /\ worker[w].attempt \in Attempt
           /\ worker[w].step \in {"dropping", "decided"} => worker[w].outcome \in Outcome
<1>1. worker[w] \in Busy
  BY DEF Activities, Idle, Down
<1> QED BY <1>1 DEF Busy

LEMMA NowType ==
    ASSUME worker \in Activities, NEW w \in Worker, worker[w].step \notin {"idle", "down"},
           NEW step \in {"claimed", "drafted", "asked once", "asked twice", "settling"},
           Now(w, step)
    PROVE  worker' \in Activities
<1>1. [step |-> step, event |-> worker[w].event, attempt |-> worker[w].attempt] \in Busy
  BY BusyFields DEF Busy
<1> QED BY <1>1 DEF Now, Activities

LEMMA EndingType ==
    ASSUME worker \in Activities, NEW w \in Worker, worker[w].step \notin {"idle", "down"},
           NEW step \in {"dropping", "decided"}, NEW outcome \in Outcome,
           Ending(w, step, outcome)
    PROVE  worker' \in Activities
<1>1. [step |-> step, event |-> worker[w].event, attempt |-> worker[w].attempt,
       outcome |-> outcome] \in Busy
  BY BusyFields DEF Busy
<1> QED BY <1>1 DEF Ending, Activities

LEMMA UnitsFinite ==
    ASSUME NEW r, NEW users, NEW oldest
    PROVE  /\ IsFiniteSet(Reserved(r, users, oldest))
           /\ IsFiniteSet(Direct(users, oldest))
<1>0. /\ 1 \in Int
      /\ MaxAttempts \in Int
      /\ Calls \in Int
  BY BoundAssumption DEF Calls
<1>1. IsFiniteSet(Attempt) /\ IsFiniteSet(1..Calls)
  BY <1>0, FS_Interval DEF Attempt
<1>2. IsFiniteSet(Event \X Attempt \X (1..Calls))
  <2> DEFINE S == (Event \X Attempt) \X (1..Calls)
             T == Event \X Attempt \X (1..Calls)
             f == [p \in S |-> <<p[1][1], p[1][2], p[2]>>]
  <2>1. IsFiniteSet(Event \X Attempt)
    BY <1>1, FS_Product, BoundAssumption
  <2>2. IsFiniteSet(S)
    BY <1>1, <2>1, FS_Product
  <2>3. f \in [S -> T]
    OBVIOUS
  <2>4. ASSUME NEW t \in T PROVE \E p \in S : f[p] = t
    <3>1. <<<<t[1], t[2]>>, t[3]>> \in S
      OBVIOUS
    <3>2. f[<<<<t[1], t[2]>>, t[3]>>] = t
      BY <3>1
    <3> QED BY <3>1, <3>2
  <2>5. f \in Surjection(S, T)
    BY <2>3, <2>4 DEF Surjection
  <2> QED BY <2>2, <2>5, FS_Surjection
<1>3. Reserved(r, users, oldest) \subseteq Event \X Attempt \X (1..Calls)
  BY DEF Reserved
<1> QED BY <1>2, <1>3, FS_Subset, BoundAssumption DEF Direct

-----------------------------------------------------------------------------
(* The type invariant.                                                     *)

LEMMA ClaimKeepsTypes ==
    ASSUME TypeOK, NEW w \in Worker, NEW u \in User, NEW scope, Claim(w, u, scope)
    PROVE  TypeOK'
<1>1. job \in Jobs /\ reservation \in Reservations /\ worker \in Activities
  BY DEF TypeOK, Jobs, Reservations, Activities
<1>2. CASE ClaimNothing(w, u, scope)
  BY <1>1, <1>2, ClaimTypes DEF ClaimNothing, TypeOK, Jobs, Reservations
<1>3. CASE ClaimDeferred(w, u, scope)
  <2>1. ASSUME NEW delay \in 1..Window, NEW reason \in Reason
        PROVE  Deferred(u, scope, delay, reason) \in Jobs
    <3>0. delay \in Nat
      BY BoundAssumption
    <3>1. ASSUME NEW e \in Event
          PROVE  [BudgetJobs(u)[e] EXCEPT !.wait = delay] \in Job
      <4>1. BudgetJobs(u)[e] \in Job
        BY <1>1, ClaimTypes DEF Jobs
      <4> QED BY <3>0, <4>1 DEF Job
    <3>2. \A e \in Event :
             [BudgetJobs(u)[e] EXCEPT !.wait = delay, !.reason = reason] \in Job
      BY <3>1 DEF Job, Reason
    <3> QED BY <1>1, <3>2, ClaimTypes DEF Deferred, Jobs
  <2>2. job' \in Jobs
    BY <1>3, <2>1 DEF ClaimDeferred, DeferUntil, Reason
  <2> QED BY <1>1, <1>3, <2>2, ClaimTypes DEF ClaimDeferred, TypeOK, Jobs, Reservations
<1>4. CASE ClaimJob(w, u, scope)
  <2>1. PICK e \in Due(u, scope) :
           /\ job' = [BudgetJobs(u) EXCEPT ![e] = Started(@)]
           /\ reservation' = [BudgetReservations(u) EXCEPT ![e][job[e].attempts + 1] =
                                 [state |-> "open", calls |-> 0, age |-> 0]]
           /\ advice' = IF advice[e].state = "provisional"
                        THEN [advice EXCEPT ![e] = NoAdvice] ELSE advice
           /\ worker' = [worker EXCEPT ![w] = [step |-> "claimed", event |-> e,
                                               attempt |-> job[e].attempts + 1]]
    BY <1>4 DEF ClaimJob
  <2>2. /\ e \in Event
        /\ job[e].attempts + 1 \in Attempt
        /\ BudgetJobs(u)[e].attempts = job[e].attempts
    BY DueCanStart, <1>1
  <2>3. Started(BudgetJobs(u)[e]) \in Job
    BY <1>1, <2>2, ClaimTypes, StartedType DEF Jobs
  <2>4. job' \in Jobs
    BY <1>1, <2>1, <2>2, <2>3, ClaimTypes DEF Jobs
  <2>5. [state |-> "open", calls |-> 0, age |-> 0] \in Reservation
    BY BoundAssumption DEF Reservation, Calls
  <2>6. reservation' \in Reservations
    BY <1>1, <2>1, <2>2, <2>5, ClaimTypes DEF Reservations
  <2>7. NoAdvice \in Advice
    BY BoundAssumption DEF NoAdvice, Advice
  <2>8. advice' \in [Event -> Advice]
    BY <2>1, <2>7 DEF TypeOK
  <2>9. [step |-> "claimed", event |-> e, attempt |-> job[e].attempts + 1] \in Busy
    BY <2>2 DEF Busy
  <2>10. worker' \in Activities
    BY <1>1, <2>1, <2>9 DEF Activities
  <2> QED BY <1>4, <2>4, <2>6, <2>8, <2>10
          DEF ClaimJob, TypeOK, Jobs, Reservations, Activities
<1> QED BY <1>2, <1>3, <1>4 DEF Claim

LEMMA ProceedKeepsTypes ==
    ASSUME TypeOK, NEW w \in Worker, Proceed(w)
    PROVE  TypeOK'
<1>1. job \in Jobs /\ reservation \in Reservations /\ worker \in Activities
  BY DEF TypeOK, Jobs, Reservations, Activities
<1>2. worker[w].step \notin {"idle", "down"}
  BY DEF Proceed, Draft, Ask, GiveUp, Drop, DropFails, Publish, Promote, Conclude,
         ConcludeFails, Settle, At
<1> DEFINE e == worker[w].event
           a == worker[w].attempt
<1>3. e \in Event /\ a \in Attempt
  BY <1>1, <1>2, BusyFields
<1>4. 0 \in 0..Lease /\ a \in 0..MaxAttempts
  <2>1. 0 \in 0..Lease
    BY BoundAssumption
  <2>2. MaxAttempts \in Nat
    BY BoundAssumption
  <2> QED BY <1>3, <2>1, <2>2 DEF Attempt
<1>5. NoAdvice \in Advice
  BY BoundAssumption DEF NoAdvice, Advice
<1>6. ASSUME NEW outcome \in Outcome, GivesUp(w, outcome)
      PROVE  worker' \in Activities
  BY <1>1, <1>2, <1>6, EndingType DEF GivesUp
<1>7. ASSUME Draft(w) PROVE TypeOK'
  <2>1. [state |-> "provisional", by |-> a, age |-> 0] \in Advice
    BY <1>4 DEF Advice
  <2>2. advice' \in [Event -> Advice]
    BY <1>7, <2>1 DEF Draft, TypeOK
  <2>3. worker' \in Activities
    BY <1>1, <1>2, <1>7, NowType, EndingType DEF Draft, Outcome
  <2> QED BY <1>7, <2>2, <2>3 DEF Draft, TypeOK, Activities
<1>8. ASSUME Ask(w) PROVE TypeOK'
  <2>1. worker' \in Activities
    <3>1. ASSUME NEW step \in {"asked once", "asked twice"}, Now(w, step)
          PROVE  worker' \in Activities
      BY <1>1, <1>2, <3>1, NowType
    <3> QED BY <1>6, <1>8, <3>1 DEF Ask, Outcome
  <2>2. reservation' \in Reservations
    <3>1. CASE reservation[e][a].state = "open" /\ reservation[e][a].calls < Calls
      <4>1. reservation[e][a] \in Reservation
        BY <1>1, <1>3 DEF Reservations
      <4>2. reservation[e][a].calls + 1 \in 0..Calls
        BY <3>1, <4>1 DEF Reservation, Calls
      <4>3. [reservation[e][a] EXCEPT !.calls = @ + 1] \in Reservation
        BY <4>1, <4>2 DEF Reservation
      <4>4. reservation' = [reservation EXCEPT ![e][a].calls = @ + 1]
        BY <1>8, <3>1 DEF Ask
      <4> QED BY <1>1, <1>3, <4>3, <4>4 DEF Reservations
    <3> QED BY <1>1, <1>8, <3>1 DEF Ask
  <2> QED BY <1>8, <2>1, <2>2 DEF Ask, TypeOK, Activities, Reservations
<1>9. ASSUME GiveUp(w) PROVE TypeOK'
  BY <1>6, <1>9 DEF GiveUp, Outcome, TypeOK, Activities
<1>10. ASSUME Drop(w) \/ DropFails(w) PROVE TypeOK'
  <2>1. worker' \in Activities
    BY <1>1, <1>2, <1>10, BusyFields, EndingType DEF Drop, DropFails, Outcome, At
  <2>2. advice' \in [Event -> Advice]
    BY <1>5, <1>10 DEF Drop, DropFails, TypeOK
  <2> QED BY <1>10, <2>1, <2>2 DEF Drop, DropFails, TypeOK, Activities
<1>11. ASSUME Publish(w) PROVE TypeOK'
  <2>1. [state |-> "active", by |-> a, age |-> 0] \in Advice
    BY <1>4 DEF Advice
  <2>2. advice' \in [Event -> Advice]
    BY <1>11, <2>1 DEF Publish, TypeOK
  <2>3. worker' \in Activities
    BY <1>1, <1>2, <1>11, EndingType DEF Publish, Outcome
  <2>4. published' \subseteq Event \X Attempt
    <3>1. published' = published \/ published' = published \cup {<<e, a>>}
      BY <1>11 DEF Publish
    <3> QED BY <1>3, <3>1 DEF TypeOK
  <2> QED BY <1>11, <2>2, <2>3, <2>4 DEF Publish, TypeOK, Activities
<1>12. ASSUME Promote(w) PROVE TypeOK'
  <2>1. [advice[e] EXCEPT !.state = "active", !.age = 0] \in Advice
    <3>1. advice[e] \in Advice
      BY <1>3 DEF TypeOK
    <3>2. [advice[e] EXCEPT !.state = "active"] \in Advice
      BY <3>1 DEF Advice
    <3> QED BY <1>4, <3>2 DEF Advice
  <2>2. advice' \in [Event -> Advice]
    <3>1. CASE Promotable(e, a)
      <4>1. advice' = [advice EXCEPT ![e].state = "active", ![e].age = 0]
        BY <1>12, <3>1 DEF Promote
      <4>2. advice' = [advice EXCEPT ![e] = [advice[e] EXCEPT !.state = "active", !.age = 0]]
        BY <1>3, <4>1 DEF TypeOK
      <4> QED BY <2>1, <4>2 DEF TypeOK
    <3> QED BY <1>12, <3>1 DEF Promote, TypeOK
  <2>3. worker' \in Activities
    BY <1>1, <1>2, <1>6, <1>12, EndingType DEF Promote, Outcome
  <2>4. published' \subseteq Event \X Attempt
    <3>1. published' = published \/ published' = published \cup {<<e, a>>}
      BY <1>12 DEF Promote, Promotable
    <3> QED BY <1>3, <3>1 DEF TypeOK
  <2> QED BY <1>12, <2>2, <2>3, <2>4 DEF Promote, TypeOK, Activities
<1>13. ASSUME Conclude(w) PROVE TypeOK'
  <2>1. RetryDelay \in Nat
    BY BoundAssumption
  <2>2. job[e] \in Job
    BY <1>1, <1>3 DEF Jobs
  <2>3. worker[w].outcome \in Outcome
    BY <1>1, <1>2, <1>13, BusyFields DEF Conclude, At
  <2>4. Concluded(job[e], worker[w].outcome) \in Job
    BY <2>1, <2>2, <2>3, EndedType, AgainType DEF Concluded, Outcome, Terminal, Reason
  <2>5. job' \in Jobs
    BY <1>1, <1>13, <2>4 DEF Conclude, Jobs
  <2>6. worker' \in Activities
    BY <1>1, <1>2, <1>13, NowType DEF Conclude
  <2> QED BY <1>13, <2>5, <2>6 DEF Conclude, TypeOK, Activities, Jobs
<1>14. ASSUME ConcludeFails(w) PROVE TypeOK'
  <2>1. worker' \in Activities
    BY <1>1, <1>2, <1>14, NowType, EndingType DEF ConcludeFails, Outcome
  <2> QED BY <1>14, <2>1 DEF ConcludeFails, TypeOK, Activities
<1>15. ASSUME Settle(w) PROVE TypeOK'
  <2>1. ASSUME NEW chosen PROVE Woken(Owner[e], chosen) \in Jobs
    <3>1. \A f \in Event : [job[f] EXCEPT !.wait = 0] \in Job
      BY <1>1 DEF Jobs, Job
    <3> QED BY <1>1, <3>1 DEF Woken, Jobs
  <2>2. job' \in Jobs
    <3>1. job' = job \/ \E chosen : job' = Woken(Owner[e], chosen)
      <4>1. CASE reservation[e][a].state = "open" /\ reservation[e][a].calls < Calls
        <5>1. \E chosen \in SUBSET {f \in Event : Asleep(job, f, "global budget")} :
                 job' = Woken(Owner[e], chosen)
          BY <1>15, <4>1 DEF Settle
        <5> QED BY <5>1
      <4>2. CASE ~(reservation[e][a].state = "open" /\ reservation[e][a].calls < Calls)
        BY <1>15, <4>2 DEF Settle
      <4> QED BY <4>1, <4>2
    <3> QED BY <1>1, <2>1, <3>1
  <2>3. [reservation[e][a] EXCEPT !.state = "settled"] \in Reservation
    <3>1. reservation[e][a] \in Reservation
      BY <1>1, <1>3 DEF Reservations
    <3> QED BY <3>1 DEF Reservation
  <2>4. reservation' = [reservation EXCEPT ![e][a].state = "settled"]
    BY <1>15 DEF Settle
  <2>5. reservation' \in Reservations
    BY <1>1, <1>3, <2>3, <2>4 DEF Reservations
  <2>6. worker' \in Activities
    BY <1>1, <1>15 DEF Settle, Activities
  <2> QED BY <1>15, <2>2, <2>5, <2>6 DEF Settle, TypeOK, Jobs, Reservations, Activities
<1> QED
  BY <1>7, <1>8, <1>9, <1>10, <1>11, <1>12, <1>13, <1>14, <1>15 DEF Proceed

LEMMA SurroundingsKeepTypes ==
    ASSUME TypeOK
    PROVE  /\ \A w \in Worker : Abandon(w) \/ Crash(w) \/ Restart(w) \/ Poll(w) => TypeOK'
           /\ \A e \in Event : Enqueue(e) \/ GrowOld(e) \/ Close(e) => TypeOK'
           /\ \A u \in User : DirectRefused(u) \/ DirectDecided(u) => TypeOK'
<1>1. job \in Jobs /\ reservation \in Reservations /\ worker \in Activities
  BY DEF TypeOK, Jobs, Reservations, Activities
<1>2. NoAdvice \in Advice
  BY BoundAssumption DEF NoAdvice, Advice
<1>3. ASSUME NEW w \in Worker, Abandon(w) \/ Crash(w) PROVE TypeOK'
  BY <1>3 DEF Abandon, Crash, TypeOK
<1>4. ASSUME NEW w \in Worker, Restart(w) PROVE TypeOK'
  <2>1. \A f \in Event : [job[f] EXCEPT !.wait = 0] \in Job
    BY <1>1 DEF Jobs, Job
  <2>2. job' \in Jobs
    BY <1>1, <1>4, <2>1 DEF Restart, Jobs
  <2>3. advice' \in [Event -> Advice]
    BY <1>2, <1>4 DEF Restart, TypeOK
  <2> QED BY <1>4, <2>2, <2>3 DEF Restart, TypeOK, Jobs
<1>5. ASSUME NEW w \in Worker, Poll(w) PROVE TypeOK'
  BY <1>1, <1>5, RetiredType DEF Poll, TypeOK, Jobs
<1>6. ASSUME NEW e \in Event, Enqueue(e) PROVE TypeOK'
  <2>1. NewJob("pending") \in Job
    BY BoundAssumption DEF NewJob, Job
  <2> QED BY <1>6, <2>1 DEF Enqueue, TypeOK
<1>7. ASSUME NEW e \in Event, GrowOld(e) PROVE TypeOK'
  BY <1>7 DEF GrowOld, TypeOK
<1>8. ASSUME NEW e \in Event, Close(e) PROVE TypeOK'
  BY <1>2, <1>8 DEF Close, TypeOK
<1>9. ASSUME NEW u \in User, DirectRefused(u) PROVE TypeOK'
  BY <1>1, <1>9, SettledType DEF DirectRefused, TypeOK, Reservations
<1>10. ASSUME NEW u \in User, DirectDecided(u) PROVE TypeOK'
  <2>1. job' \in Jobs
    BY <1>1, <1>10, ReclaimedType DEF DirectDecided
  <2>2. reservation' \in Reservations
    BY <1>1, <1>10, SettledType DEF DirectDecided
  <2>3. [user |-> u, age |-> 0] \in Usage
    BY BoundAssumption DEF Usage
  <2>4. direct' \in [DirectCall -> Usage]
    BY <1>10, <2>3 DEF DirectDecided, TypeOK
  <2> QED BY <1>10, <2>1, <2>2, <2>4 DEF DirectDecided, TypeOK, Jobs, Reservations
<1> QED BY <1>3, <1>4, <1>5, <1>6, <1>7, <1>8, <1>9, <1>10

LEMMA TickKeepsTypes == TypeOK /\ Tick => TypeOK'
<1> SUFFICES ASSUME TypeOK, Tick PROVE TypeOK'
  OBVIOUS
<1>0. Lease \in Nat \ {0} /\ Window \in Nat \ {0}
  BY BoundAssumption
<1>1. ASSUME NEW limit \in Nat, NEW age \in 0..limit PROVE Older(age, limit) \in 0..limit
  BY DEF Older
<1>2. job' \in [Event -> Job]
  <2>1. ASSUME NEW row \in Job, NEW wait \in Nat, NEW age \in 0..Lease
        PROVE  [row EXCEPT !.wait = wait, !.age = age] \in Job
    BY DEF Job
  <2>2. ASSUME NEW e \in Event
        PROVE  /\ (IF job[e].wait > 0 THEN job[e].wait - 1 ELSE 0) \in Nat
               /\ (IF job[e].status = "running" THEN Older(job[e].age, Lease) ELSE 0)
                     \in 0..Lease
    <3>1. job[e].wait \in Nat /\ job[e].age \in 0..Lease
      BY DEF TypeOK, Job
    <3>2. Older(job[e].age, Lease) \in 0..Lease
      BY <1>0, <1>1, <3>1
    <3> QED BY <1>0, <3>1, <3>2
  <2>3. ASSUME NEW e \in Event
        PROVE  [job[e] EXCEPT !.wait = IF @ > 0 THEN @ - 1 ELSE 0,
                 !.age = IF job[e].status = "running" THEN Older(@, Lease) ELSE 0] \in Job
    <3>1. job[e] \in Job
      BY DEF TypeOK
    <3> QED BY <2>1, <2>2, <3>1
  <2> QED BY <2>3 DEF Tick
<1>3. reservation' \in Reservations
  <2>1. ASSUME NEW e \in Event, NEW a \in Attempt
        PROVE  [reservation[e][a] EXCEPT !.age = IF reservation[e][a].state = "none"
                                            THEN 0 ELSE Older(@, Window)] \in Reservation
    <3>1. reservation[e][a] \in Reservation
      BY DEF TypeOK
    <3>2. reservation[e][a].age \in 0..Window
      BY <3>1 DEF Reservation
    <3>3. Older(reservation[e][a].age, Window) \in 0..Window /\ 0 \in 0..Window
      BY <1>0, <1>1, <3>2
    <3> QED BY <3>1, <3>3 DEF Reservation
  <2> QED BY <2>1 DEF Tick, Reservations
<1>4. direct' \in [DirectCall -> Usage]
  <2>1. ASSUME NEW c \in DirectCall, direct[c].age + 1 # Window
        PROVE  [direct[c] EXCEPT !.age = @ + 1] \in Usage
    <3>1. direct[c] \in Usage
      BY DEF TypeOK
    <3>2. direct[c].age \in 0..Window - 1
      BY <3>1 DEF Usage
    <3>3. direct[c].age + 1 \in 0..Window - 1
      BY <1>0, <2>1, <3>2
    <3> QED BY <3>1, <3>3 DEF Usage
  <2>2. NoUsage \in Usage
    BY <1>0 DEF NoUsage, Usage
  <2> QED BY <2>1, <2>2 DEF Tick
<1>5. advice' \in [Event -> Advice]
  <2>1. ASSUME NEW e \in Event
        PROVE  [advice[e] EXCEPT !.age = IF advice[e].state = "provisional"
                                    THEN Older(@, Lease) ELSE 0] \in Advice
    <3>1. advice[e] \in Advice
      BY DEF TypeOK
    <3>2. advice[e].age \in 0..Lease
      BY <3>1 DEF Advice
    <3>3. Older(advice[e].age, Lease) \in 0..Lease /\ 0 \in 0..Lease
      BY <1>0, <1>1, <3>2
    <3> QED BY <3>1, <3>3 DEF Advice
  <2> QED BY <2>1 DEF Tick
<1> QED BY <1>2, <1>3, <1>4, <1>5 DEF Tick, TypeOK, Reservations

\* Every variable keeps its type, for all tenants, processes and limits.
THEOREM TypeCorrect == Spec => []TypeOK
<1>1. Init => TypeOK
  <2> SUFFICES ASSUME Init PROVE TypeOK
    OBVIOUS
  <2>1. NewJob("none") \in Job /\ NoAdvice \in Advice /\ NoUsage \in Usage
    <3>1. Lease \in Nat \ {0} /\ Window \in Nat \ {0} /\ MaxAttempts \in Nat \ {0}
      BY BoundAssumption
    <3> QED BY <3>1 DEF NewJob, Job, NoAdvice, Advice, NoUsage, Usage
  <2>2. [state |-> "none", calls |-> 0, age |-> 0] \in Reservation
    BY BoundAssumption DEF Reservation, Calls
  <2> QED BY <2>1, <2>2 DEF Init, TypeOK
<1>2. TypeOK /\ [Next]_vars => TypeOK'
  <2> SUFFICES ASSUME TypeOK, [Next]_vars PROVE TypeOK'
    OBVIOUS
  <2>1. CASE Next
    BY <2>1, ClaimKeepsTypes, ProceedKeepsTypes, SurroundingsKeepTypes, TickKeepsTypes DEF Next
  <2>2. CASE UNCHANGED vars
    BY <2>2 DEF vars, TypeOK
  <2> QED BY <2>1, <2>2
<1> QED BY <1>1, <1>2, PTL DEF Spec

-----------------------------------------------------------------------------
(* The budget.                                                             *)

\* What is no dearer takes no unit that was not taken before.
NoDearer(r, s) ==
    \A e \in Event, a \in Attempt :
        r[e][a].age \in 0..Window - 1 /\ 1 <= Counted(r[e][a])
        => /\ s[e][a].age \in 0..Window - 1
           /\ Counted(r[e][a]) <= Counted(s[e][a])

NothingIsChargedUnreserved ==
    \A e \in Event, a \in Attempt :
        reservation[e][a].state = "none" => reservation[e][a].calls = 0

LEMMA CountedType ==
    ASSUME NEW r \in Reservations, NEW e \in Event, NEW a \in Attempt
    PROVE  /\ Counted(r[e][a]) \in 0..Calls
           /\ r[e][a].state = "open" => Counted(r[e][a]) = Calls
           /\ r[e][a].state # "open" => Counted(r[e][a]) = r[e][a].calls
<1>1. r[e][a] \in Reservation
  BY DEF Reservations
<1> QED BY <1>1 DEF Reservation, Counted, Calls

LEMMA NoDearerReserves ==
    ASSUME NEW r \in Reservations, NEW s \in Reservations, NoDearer(r, s), NEW users
    PROVE  Reserved(r, users, 0) \subseteq Reserved(s, users, 0)
<1> SUFFICES ASSUME NEW unit \in Reserved(r, users, 0)
             PROVE  unit \in Reserved(s, users, 0)
  OBVIOUS
<1>1. /\ unit \in Event \X Attempt \X (1..Calls)
      /\ Owner[unit[1]] \in users
      /\ r[unit[1]][unit[2]].age \in 0..Window - 1
      /\ unit[3] <= Counted(r[unit[1]][unit[2]])
  BY DEF Reserved
<1>2. unit[1] \in Event /\ unit[2] \in Attempt /\ unit[3] \in 1..Calls
  BY <1>1
<1>3. /\ Counted(r[unit[1]][unit[2]]) \in 0..Calls
      /\ Counted(s[unit[1]][unit[2]]) \in 0..Calls
  BY <1>2, CountedType
<1>4. 1 <= Counted(r[unit[1]][unit[2]])
  BY <1>1, <1>2, <1>3 DEF Calls
<1>5. /\ s[unit[1]][unit[2]].age \in 0..Window - 1
      /\ Counted(r[unit[1]][unit[2]]) <= Counted(s[unit[1]][unit[2]])
  BY <1>1, <1>2, <1>4 DEF NoDearer
<1>6. unit[3] <= Counted(s[unit[1]][unit[2]])
  BY <1>1, <1>2, <1>3, <1>5 DEF Calls
<1> QED BY <1>1, <1>5, <1>6 DEF Reserved

LEMMA SettledIsNoDearer ==
    ASSUME NEW j, NEW r \in Reservations, NEW users
    PROVE  NoDearer(Settled(j, r, users), r)
<1> SUFFICES ASSUME NEW e \in Event, NEW a \in Attempt
             PROVE  /\ Settled(j, r, users)[e][a].age = r[e][a].age
                    /\ Counted(Settled(j, r, users)[e][a]) <= Counted(r[e][a])
  BY DEF NoDearer
<1>1. r[e][a] \in Reservation
  BY DEF Reservations
<1>2. \/ Settled(j, r, users)[e][a] = r[e][a]
      \/ /\ r[e][a].state = "open"
         /\ Settled(j, r, users)[e][a] = [r[e][a] EXCEPT !.state = "settled"]
  BY DEF Settled
<1>3. Counted([r[e][a] EXCEPT !.state = "settled"]) = r[e][a].calls
  BY <1>1 DEF Counted, Reservation
<1>4. r[e][a].calls \in 0..Calls
  BY <1>1 DEF Reservation
<1>5. Counted(r[e][a]) \in 0..Calls /\ (r[e][a].state = "open" => Counted(r[e][a]) = Calls)
  BY CountedType
<1>6. [r[e][a] EXCEPT !.state = "settled"].age = r[e][a].age
  BY <1>1 DEF Reservation
<1>7. CASE Settled(j, r, users)[e][a] = r[e][a]
  BY <1>5, <1>7 DEF Calls
<1>8. CASE Settled(j, r, users)[e][a] = [r[e][a] EXCEPT !.state = "settled"]
      /\ r[e][a].state = "open"
  <2>1. Counted(Settled(j, r, users)[e][a]) = r[e][a].calls
    BY <1>3, <1>8
  <2>2. Settled(j, r, users)[e][a].age = r[e][a].age
    BY <1>6, <1>8
  <2>3. Counted(r[e][a]) = Calls
    BY <1>5, <1>8
  <2> QED BY <1>4, <2>1, <2>2, <2>3 DEF Calls
<1> QED BY <1>2, <1>7, <1>8

LEMMA SettledReserves ==
    ASSUME NEW j, NEW r \in Reservations, NEW users, NEW of
    PROVE  Reserved(Settled(j, r, of), users, 0) \subseteq Reserved(r, users, 0)
BY SettledIsNoDearer, SettledType, NoDearerReserves

LEMMA BudgetReserves ==
    ASSUME job \in Jobs, reservation \in Reservations, NEW u, NEW users
    PROVE  Reserved(BudgetReservations(u), users, 0) \subseteq Reserved(reservation, users, 0)
BY ClaimTypes, SettledReserves DEF BudgetReservations, ClaimReservations

LEMMA UsedType ==
    ASSUME NEW r, NEW users
    PROVE  Used(r, users, 0) \in Nat
BY UnitsFinite, FS_CardinalityType DEF Used

LEMMA UsedGrows ==
    ASSUME NEW r, NEW users, NEW X, NEW Y, IsFiniteSet(X), IsFiniteSet(Y),
           Reserved(reservation', users, 0) \subseteq Reserved(r, users, 0) \cup X,
           Direct(users, 0)' \subseteq Direct(users, 0) \cup Y
    PROVE  /\ Used(reservation, users, 0)' \in Nat
           /\ Used(reservation, users, 0)' <=
                 Used(r, users, 0) + Cardinality(X) + Cardinality(Y)
<1> DEFINE R == Reserved(r, users, 0)
           D == Direct(users, 0)
           S == Reserved(reservation', users, 0)
           E == Direct(users, 0)'
<1>1. IsFiniteSet(R) /\ IsFiniteSet(D)
  BY UnitsFinite
<1> HIDE DEF R, D, S, E
<1>2. ASSUME NEW A, NEW B, NEW C, IsFiniteSet(B), IsFiniteSet(C), A \subseteq B \cup C
      PROVE  /\ Cardinality(A) \in Nat
             /\ Cardinality(B) \in Nat
             /\ Cardinality(C) \in Nat
             /\ Cardinality(A) <= Cardinality(B) + Cardinality(C)
  <2>1. /\ IsFiniteSet(B \cup C)
        /\ Cardinality(B \cup C) = Cardinality(B) + Cardinality(C) - Cardinality(B \cap C)
    BY <1>2, FS_Union
  <2>2. IsFiniteSet(A) /\ Cardinality(A) <= Cardinality(B \cup C)
    BY <1>2, <2>1, FS_Subset
  <2>3. IsFiniteSet(B \cap C)
    BY <1>2, FS_Subset
  <2>4. /\ Cardinality(A) \in Nat
        /\ Cardinality(B) \in Nat
        /\ Cardinality(C) \in Nat
        /\ Cardinality(B \cap C) \in Nat
    BY <1>2, <2>2, <2>3, FS_CardinalityType
  <2> QED BY <2>1, <2>2, <2>4
<1>3. S \subseteq R \cup X /\ E \subseteq D \cup Y
  BY DEF S, R, E, D
<1>4. /\ Cardinality(S) \in Nat
      /\ Cardinality(R) \in Nat
      /\ Cardinality(X) \in Nat
      /\ Cardinality(S) <= Cardinality(R) + Cardinality(X)
  BY <1>1, <1>2, <1>3
<1>5. /\ Cardinality(E) \in Nat
      /\ Cardinality(D) \in Nat
      /\ Cardinality(Y) \in Nat
      /\ Cardinality(E) <= Cardinality(D) + Cardinality(Y)
  BY <1>1, <1>2, <1>3
<1>6. /\ Used(reservation, users, 0)' = Cardinality(S) + Cardinality(E)
      /\ Used(r, users, 0) = Cardinality(R) + Cardinality(D)
  BY DEF Used, S, E, R, D
<1> QED BY <1>4, <1>5, <1>6

\* A step that takes no unit keeps within the budget.
LEMMA BudgetKept ==
    ASSUME BudgetHolds,
           \A users \in SUBSET User :
              /\ Reserved(reservation', users, 0) \subseteq Reserved(reservation, users, 0)
              /\ Direct(users, 0)' \subseteq Direct(users, 0)
    PROVE  BudgetHolds'
<1>1. IsFiniteSet({}) /\ Cardinality({}) = 0
  BY FS_EmptySet
<1>2. ASSUME NEW users \in SUBSET User
      PROVE  /\ Used(reservation, users, 0)' \in Nat
             /\ Used(reservation, users, 0) \in Nat
             /\ Used(reservation, users, 0)' <= Used(reservation, users, 0)
  <2>1. /\ Reserved(reservation', users, 0) \subseteq Reserved(reservation, users, 0) \cup {}
        /\ Direct(users, 0)' \subseteq Direct(users, 0) \cup {}
    OBVIOUS
  <2>2. Used(reservation, users, 0)' \in Nat /\ Used(reservation, users, 0) \in Nat
    BY <1>1, <2>1, UsedGrows, UsedType
  <2>3. Used(reservation, users, 0)' <=
           Used(reservation, users, 0) + Cardinality({}) + Cardinality({})
    BY <1>1, <2>1, UsedGrows
  <2> QED BY <1>1, <2>2, <2>3
<1>3. UserLimit \in Nat /\ GlobalLimit \in Nat
  BY BoundAssumption
<1>4. Used(reservation, User, 0)' <= GlobalLimit
  <2>1. Used(reservation, User, 0) <= GlobalLimit
    BY DEF BudgetHolds
  <2> QED BY <1>2, <1>3, <2>1
<1>5. ASSUME NEW u \in User PROVE Used(reservation, {u}, 0)' <= UserLimit
  <2>1. Used(reservation, {u}, 0) <= UserLimit
    BY DEF BudgetHolds
  <2> QED BY <1>2, <1>3, <2>1
<1> QED BY <1>4, <1>5 DEF BudgetHolds

LEMMA ClaimKeepsBudget ==
    ASSUME TypeOK, BudgetHolds, NEW w \in Worker, NEW u \in User, NEW scope, Claim(w, u, scope)
    PROVE  BudgetHolds'
<1>1. job \in Jobs /\ reservation \in Reservations
  BY DEF TypeOK, Jobs, Reservations
<1>2. CASE ClaimNothing(w, u, scope)
  <2>1. \A users \in SUBSET User :
           Reserved(reservation', users, 0) \subseteq Reserved(reservation, users, 0)
    BY <1>1, <1>2, SettledReserves DEF ClaimNothing, ClaimReservations
  <2>2. \A users : Direct(users, 0)' \subseteq Direct(users, 0)
    BY <1>2 DEF ClaimNothing, Direct
  <2> QED BY <2>1, <2>2, BudgetKept
<1>3. CASE ClaimDeferred(w, u, scope)
  <2>1. \A users \in SUBSET User :
           Reserved(reservation', users, 0) \subseteq Reserved(reservation, users, 0)
    BY <1>1, <1>3, BudgetReserves DEF ClaimDeferred
  <2>2. \A users : Direct(users, 0)' \subseteq Direct(users, 0)
    BY <1>3 DEF ClaimDeferred, Direct
  <2> QED BY <2>1, <2>2, BudgetKept
<1>4. CASE ClaimJob(w, u, scope)
  <2> DEFINE R == BudgetReservations(u)
             Entry == [state |-> "open", calls |-> 0, age |-> 0]
  <2>1. PICK e \in Due(u, scope) :
           reservation' = [R EXCEPT ![e][job[e].attempts + 1] = Entry]
    BY <1>4 DEF ClaimJob
  <2>2. e \in Event /\ Owner[e] = u /\ job[e].attempts + 1 \in Attempt
    BY <1>1, DueCanStart
  <2> DEFINE a == job[e].attempts + 1
             X == {<<e, a, 1>>} \cup {<<e, a, 2>>}
  <2>3. IsFiniteSet(X) /\ Cardinality(X) \in Nat /\ Cardinality(X) <= 2
    <3>1. IsFiniteSet({<<e, a, 1>>}) /\ Cardinality({<<e, a, 1>>}) = 1
      BY FS_Singleton
    <3>2. /\ IsFiniteSet(X)
          /\ Cardinality(X) = IF <<e, a, 2>> \in {<<e, a, 1>>} THEN 1 ELSE 1 + 1
      BY <3>1, FS_AddElement
    <3> QED BY <3>2
  <2>4. R \in Reservations
    BY <1>1, ClaimTypes
  <2>5. ASSUME NEW users PROVE Reserved(reservation', users, 0) \subseteq Reserved(R, users, 0) \cup X
    <3> SUFFICES ASSUME NEW unit \in Reserved(reservation', users, 0),
                        unit \notin Reserved(R, users, 0)
                 PROVE  unit \in X
      OBVIOUS
    <3>1. /\ unit \in Event \X Attempt \X (1..2)
          /\ reservation'[unit[1]][unit[2]] # R[unit[1]][unit[2]]
      BY DEF Reserved, Calls
    <3>2. unit[1] \in Event /\ unit[2] \in Attempt /\ unit[3] \in {1, 2}
      BY <3>1
    <3>3. unit[1] = e /\ unit[2] = a
      <4> HIDE DEF R, Entry, a
      <4>1. reservation' = [R EXCEPT ![e] = [R[e] EXCEPT ![a] = Entry]]
        BY <2>1, <2>2, <2>4 DEF a, Reservations
      <4>2. CASE unit[1] # e
        BY <2>4, <3>1, <3>2, <4>1, <4>2 DEF Reservations
      <4>3. CASE unit[1] = e /\ unit[2] # a
        BY <2>2, <2>4, <3>1, <3>2, <4>1, <4>3 DEF Reservations
      <4> QED BY <4>2, <4>3
    <3>4. unit = <<unit[1], unit[2], unit[3]>>
      BY <3>1
    <3> QED BY <3>2, <3>3, <3>4
  <2>6. ASSUME NEW users, u \notin users
        PROVE  Reserved(reservation', users, 0) \subseteq Reserved(R, users, 0)
    <3>1. \A unit \in Reserved(reservation', users, 0) : Owner[unit[1]] \in users
      BY DEF Reserved
    <3>2. \A unit \in X : Owner[unit[1]] = u
      BY <2>2
    <3> QED BY <2>5, <2>6, <3>1, <3>2
  <2>7. IsFiniteSet({}) /\ Cardinality({}) = 0
    BY FS_EmptySet
  <2>8. ASSUME NEW users PROVE Direct(users, 0)' \subseteq Direct(users, 0) \cup {}
    BY <1>4 DEF ClaimJob, Direct
  <2> HIDE DEF R, X
  <2>9. ASSUME NEW users
        PROVE  /\ Used(reservation, users, 0)' \in Nat
               /\ Used(R, users, 0) \in Nat
               /\ Used(reservation, users, 0)' <= Used(R, users, 0) + 2
               /\ u \notin users =>
                    Used(reservation, users, 0)' <= Used(R, users, 0)
    <3>1. Used(R, users, 0) \in Nat
      BY UsedType
    <3>2. /\ Used(reservation, users, 0)' \in Nat
          /\ Used(reservation, users, 0)' <=
                Used(R, users, 0) + Cardinality(X) + Cardinality({})
      BY <2>3, <2>5, <2>7, <2>8, UsedGrows
    <3>3. CASE u \notin users
      <4>1. Reserved(reservation', users, 0) \subseteq Reserved(R, users, 0) \cup {}
        BY <2>6, <3>3
      <4>2. Used(reservation, users, 0)' <=
               Used(R, users, 0) + Cardinality({}) + Cardinality({})
        BY <2>7, <2>8, <4>1, UsedGrows
      <4> QED BY <2>3, <2>7, <3>1, <3>2, <4>2
    <3>4. CASE u \in users
      BY <2>3, <2>7, <3>1, <3>2, <3>4
    <3> QED BY <3>3, <3>4
  <2>10. UserLimit \in Nat /\ GlobalLimit \in Nat
    BY BoundAssumption
  <2>11. Used(reservation, User, 0)' <= GlobalLimit
    <3>1. Used(R, User, 0) + 2 <= GlobalLimit
      BY <1>4 DEF ClaimJob, GloballyAffordable, Affordable, Calls, R
    <3> QED BY <2>9, <2>10, <3>1
  <2>12. ASSUME NEW v \in User PROVE Used(reservation, {v}, 0)' <= UserLimit
    <3>1. CASE v = u
      <4>1. Used(R, {u}, 0) + 2 <= UserLimit
        BY <1>4 DEF ClaimJob, UserAffordable, Affordable, Calls, R
      <4>2. Used(reservation, {u}, 0)' <= UserLimit
        BY <2>9, <2>10, <4>1
      <4> QED BY <3>1, <4>2
    <3>2. CASE v # u
      <4>1. Used(reservation, {v}, 0) <= UserLimit
        BY DEF BudgetHolds
      <4>2. Used(reservation, {v}, 0) \in Nat
        BY UsedType
      <4>3. Used(R, {v}, 0) <= Used(reservation, {v}, 0)
        <5>1. Reserved(R, {v}, 0) \subseteq Reserved(reservation, {v}, 0)
          BY <1>1, BudgetReserves DEF R
        <5>2. IsFiniteSet(Reserved(R, {v}, 0)) /\ IsFiniteSet(Reserved(reservation, {v}, 0))
          BY UnitsFinite
        <5>3. IsFiniteSet(Direct({v}, 0))
          BY UnitsFinite
        <5>4. Cardinality(Reserved(R, {v}, 0)) <= Cardinality(Reserved(reservation, {v}, 0))
          BY <5>1, <5>2, FS_Subset
        <5>5. /\ Cardinality(Reserved(R, {v}, 0)) \in Nat
              /\ Cardinality(Reserved(reservation, {v}, 0)) \in Nat
              /\ Cardinality(Direct({v}, 0)) \in Nat
          BY <5>2, <5>3, FS_CardinalityType
        <5> QED BY <5>4, <5>5 DEF Used
      <4>4. /\ Used(reservation, {v}, 0)' \in Nat
            /\ Used(R, {v}, 0) \in Nat
            /\ Used(reservation, {v}, 0)' <= Used(R, {v}, 0)
        BY <2>9, <3>2
      <4> QED BY <2>10, <4>1, <4>2, <4>3, <4>4
    <3> QED BY <3>1, <3>2
  <2> QED BY <2>11, <2>12 DEF BudgetHolds
<1> QED BY <1>2, <1>3, <1>4 DEF Claim

LEMMA ProceedIsNoDearer ==
    ASSUME TypeOK, NEW w \in Worker, Proceed(w)
    PROVE  NoDearer(reservation', reservation)
<1>1. reservation \in Reservations /\ worker \in Activities
  BY DEF TypeOK, Reservations, Activities
<1>2. worker[w].step \notin {"idle", "down"}
  BY DEF Proceed, Draft, Ask, GiveUp, Drop, DropFails, Publish, Promote, Conclude,
         ConcludeFails, Settle, At
<1> DEFINE e == worker[w].event
           a == worker[w].attempt
<1>3. e \in Event /\ a \in Attempt
  BY <1>1, <1>2, BusyFields
<1>4. reservation[e][a] \in Reservation
  BY <1>1, <1>3 DEF Reservations
<1>5. \A f \in Event, b \in Attempt : Counted(reservation[f][b]) \in 0..Calls
  BY <1>1, CountedType
<1>6. ASSUME NEW entry, reservation' = [reservation EXCEPT ![e][a] = entry],
             entry.age = reservation[e][a].age,
             Counted(entry) <= Counted(reservation[e][a])
      PROVE  NoDearer(reservation', reservation)
  <2> SUFFICES ASSUME NEW f \in Event, NEW b \in Attempt
               PROVE  /\ reservation'[f][b].age = reservation[f][b].age
                      /\ Counted(reservation'[f][b]) <= Counted(reservation[f][b])
    BY DEF NoDearer
  <2>1. CASE f = e /\ b = a
    <3>1. reservation'[f][b] = entry
      BY <1>1, <1>3, <1>6, <2>1 DEF Reservations
    <3> QED BY <1>6, <2>1, <3>1
  <2>2. CASE ~(f = e /\ b = a)
    <3>1. reservation'[f][b] = reservation[f][b]
      BY <1>1, <1>3, <1>6, <2>2 DEF Reservations
    <3> QED BY <1>5, <3>1 DEF Calls
  <2> QED BY <2>1, <2>2
<1>7. ASSUME reservation' = reservation PROVE NoDearer(reservation', reservation)
  BY <1>5, <1>7 DEF NoDearer, Calls
<1>8. CASE Ask(w)
  <2>1. CASE reservation[e][a].state = "open" /\ reservation[e][a].calls < Calls
    <3> DEFINE entry == [reservation[e][a] EXCEPT !.calls = @ + 1]
    <3>1. reservation' = [reservation EXCEPT ![e][a].calls = @ + 1]
      BY <1>8, <2>1 DEF Ask
    <3>2. reservation' = [reservation EXCEPT ![e][a] = entry]
      BY <3>1
    <3>3. entry.age = reservation[e][a].age /\ entry.state = "open"
      BY <1>4, <2>1 DEF Reservation
    <3>4. Counted(entry) = Calls /\ Counted(reservation[e][a]) = Calls
      BY <2>1, <3>3 DEF Counted
    <3>5. Counted(entry) <= Counted(reservation[e][a])
      BY <3>4 DEF Calls
    <3> HIDE DEF entry
    <3> QED BY <1>6, <3>2, <3>3, <3>5
  <2> QED BY <1>7, <1>8, <2>1 DEF Ask
<1>9. CASE Settle(w)
  <2> DEFINE entry == [reservation[e][a] EXCEPT !.state = "settled"]
  <2>1. reservation' = [reservation EXCEPT ![e][a].state = "settled"]
    BY <1>9 DEF Settle
  <2>2. reservation' = [reservation EXCEPT ![e][a] = entry]
    BY <2>1
  <2>3. /\ entry.age = reservation[e][a].age
        /\ entry.state = "settled"
        /\ entry.calls = reservation[e][a].calls
        /\ reservation[e][a].calls \in 0..Calls
    BY <1>4 DEF Reservation
  <2>4. Counted(entry) <= Counted(reservation[e][a])
    <3>1. Counted(entry) = reservation[e][a].calls
      BY <2>3 DEF Counted
    <3> QED BY <2>3, <3>1 DEF Counted, Calls
  <2> HIDE DEF entry
  <2> QED BY <1>6, <2>2, <2>3, <2>4
<1> QED
  BY <1>7, <1>8, <1>9 DEF Proceed, Draft, GiveUp, Drop, DropFails, Publish, Promote,
     Conclude, ConcludeFails

LEMMA TickKeepsBudget ==
    ASSUME TypeOK, TypeOK', BudgetHolds, NothingIsChargedUnreserved, Tick
    PROVE  BudgetHolds'
<1>0. Window \in Nat \ {0}
  BY BoundAssumption
<1>1. reservation \in Reservations /\ reservation' \in Reservations
  BY DEF TypeOK, Reservations
<1>2. NoDearer(reservation', reservation)
  <2> SUFFICES ASSUME NEW e \in Event, NEW a \in Attempt,
                      reservation'[e][a].age \in 0..Window - 1,
                      1 <= Counted(reservation'[e][a])
               PROVE  /\ reservation[e][a].age \in 0..Window - 1
                      /\ Counted(reservation'[e][a]) <= Counted(reservation[e][a])
    BY DEF NoDearer
  <2>1. reservation[e][a] \in Reservation
    BY <1>1 DEF Reservations
  <2>2. reservation'[e][a] = [reservation[e][a] EXCEPT
           !.age = IF reservation[e][a].state = "none" THEN 0 ELSE Older(@, Window)]
    BY DEF Tick
  <2>3. /\ reservation'[e][a].state = reservation[e][a].state
        /\ reservation'[e][a].calls = reservation[e][a].calls
        /\ reservation[e][a].state # "none" =>
              reservation'[e][a].age = Older(reservation[e][a].age, Window)
    BY <2>1, <2>2 DEF Reservation
  <2>4. Counted(reservation'[e][a]) = Counted(reservation[e][a])
    BY <2>3 DEF Counted
  <2>5. reservation[e][a].state # "none"
    BY <2>4 DEF NothingIsChargedUnreserved, Counted
  <2>6. reservation[e][a].age \in 0..Window
    BY <2>1 DEF Reservation
  <2>7. reservation[e][a].age \in 0..Window - 1
    BY <1>0, <2>3, <2>5, <2>6 DEF Older
  <2>8. Counted(reservation[e][a]) \in 0..Calls
    BY <1>1, CountedType
  <2> QED BY <2>4, <2>7, <2>8 DEF Calls
<1>3. \A users : Reserved(reservation', users, 0) \subseteq Reserved(reservation, users, 0)
  BY <1>1, <1>2, NoDearerReserves
<1>4. ASSUME NEW users \in SUBSET User PROVE Direct(users, 0)' \subseteq Direct(users, 0)
  <2> SUFFICES ASSUME NEW c \in DirectCall, direct'[c].user \in users
               PROVE  direct[c].user \in users /\ direct[c].age >= 0
    BY DEF Direct
  <2>1. Nobody \notin users
    BY DomainAssumption
  <2>2. direct'[c] = [direct[c] EXCEPT !.age = @ + 1]
    BY <2>1 DEF Tick, NoUsage
  <2>3. direct[c] \in Usage
    BY DEF TypeOK
  <2>4. direct[c].age \in 0..Window - 1 /\ direct'[c].user = direct[c].user
    BY <2>2, <2>3 DEF Usage
  <2> QED BY <1>0, <2>4
<1> QED BY <1>3, <1>4, BudgetKept

LEMMA DirectDecidedKeepsBudget ==
    ASSUME TypeOK, BudgetHolds, NEW u \in User, DirectDecided(u)
    PROVE  BudgetHolds'
<1> DEFINE Q == Settled(job, reservation, {u})
           R == Settled(Reclaimed(job), Q, User)
<1>1. reservation \in Reservations /\ Q \in Reservations
  BY SettledType DEF TypeOK, Reservations
<1>2. reservation' = R /\ Affordable(Q, {u}, 1, UserLimit)
  BY DEF DirectDecided
<1>3. /\ \A users : Reserved(R, users, 0) \subseteq Reserved(Q, users, 0)
      /\ \A users : Reserved(Q, users, 0) \subseteq Reserved(reservation, users, 0)
  BY <1>1, SettledReserves
<1> HIDE DEF Q, R
<1>4. CASE direct' = direct
  <2>1. \A users \in SUBSET User :
           Reserved(reservation', users, 0) \subseteq Reserved(reservation, users, 0)
    BY <1>2, <1>3
  <2>2. \A users : Direct(users, 0)' \subseteq Direct(users, 0)
    BY <1>4 DEF Direct
  <2> QED BY <2>1, <2>2, BudgetKept
<1>5. CASE direct' # direct
  <2>1. /\ Affordable(R, User, 1, GlobalLimit)
        /\ \E c \in DirectCall :
              /\ direct[c] = NoUsage
              /\ direct' = [direct EXCEPT ![c] = [user |-> u, age |-> 0]]
    BY <1>5 DEF DirectDecided, Q, R
  <2>2. PICK c \in DirectCall : direct' = [direct EXCEPT ![c] = [user |-> u, age |-> 0]]
    BY <2>1
  <2>3. direct \in [DirectCall -> Usage]
    BY DEF TypeOK
  <2>4. /\ \A users : Direct(users, 0)' \subseteq Direct(users, 0) \cup {c}
        /\ \A users : u \notin users => Direct(users, 0)' \subseteq Direct(users, 0)
    BY <2>2, <2>3 DEF Direct
  <2>5. /\ IsFiniteSet({}) /\ Cardinality({}) = 0
        /\ IsFiniteSet({c}) /\ Cardinality({c}) = 1
    BY FS_EmptySet, FS_Singleton
  <2>6. UserLimit \in Nat /\ GlobalLimit \in Nat
    BY BoundAssumption
  <2>7. Used(reservation, User, 0)' <= GlobalLimit
    <3>1. Used(reservation, User, 0)' \in Nat /\ Used(R, User, 0) \in Nat
      BY <1>2, <2>4, <2>5, UsedGrows, UsedType
    <3>2. Used(reservation, User, 0)' <=
             Used(R, User, 0) + Cardinality({}) + Cardinality({c})
      BY <1>2, <2>4, <2>5, UsedGrows
    <3>3. Used(R, User, 0) + 1 <= GlobalLimit
      BY <2>1 DEF Affordable
    <3> QED BY <2>5, <2>6, <3>1, <3>2, <3>3
  <2>8. ASSUME NEW v \in User PROVE Used(reservation, {v}, 0)' <= UserLimit
    <3>1. CASE v = u
      <4>1. Reserved(reservation', {u}, 0) \subseteq Reserved(Q, {u}, 0) \cup {}
        BY <1>2, <1>3
      <4>2. Used(reservation, {u}, 0)' \in Nat /\ Used(Q, {u}, 0) \in Nat
        BY <2>4, <2>5, <4>1, UsedGrows, UsedType
      <4>3. Used(reservation, {u}, 0)' <=
               Used(Q, {u}, 0) + Cardinality({}) + Cardinality({c})
        BY <2>4, <2>5, <4>1, UsedGrows
      <4>4. Used(Q, {u}, 0) + 1 <= UserLimit
        BY <1>2 DEF Affordable
      <4>5. Used(reservation, {u}, 0)' <= UserLimit
        BY <2>5, <2>6, <4>2, <4>3, <4>4
      <4> QED BY <3>1, <4>5
    <3>2. CASE v # u
      <4>1. Reserved(reservation', {v}, 0) \subseteq Reserved(reservation, {v}, 0) \cup {}
        BY <1>2, <1>3
      <4>2. Direct({v}, 0)' \subseteq Direct({v}, 0) \cup {}
        BY <2>4, <3>2
      <4>3. Used(reservation, {v}, 0)' \in Nat /\ Used(reservation, {v}, 0) \in Nat
        BY <2>5, <4>1, <4>2, UsedGrows, UsedType
      <4>4. Used(reservation, {v}, 0)' <=
               Used(reservation, {v}, 0) + Cardinality({}) + Cardinality({})
        BY <2>5, <4>1, <4>2, UsedGrows
      <4>5. Used(reservation, {v}, 0) <= UserLimit
        BY DEF BudgetHolds
      <4> QED BY <2>5, <2>6, <4>3, <4>4, <4>5
    <3> QED BY <3>1, <3>2
  <2> QED BY <2>7, <2>8 DEF BudgetHolds
<1> QED BY <1>4, <1>5

\* Only what was reserved is charged.
LEMMA OnlyReservedIsCharged ==
    ASSUME TypeOK, NothingIsChargedUnreserved, [Next]_vars
    PROVE  NothingIsChargedUnreserved'
<1>1. reservation \in Reservations /\ job \in Jobs /\ worker \in Activities
  BY DEF TypeOK, Reservations, Jobs, Activities
<1>2. ASSUME NEW r \in Reservations, NEW j, NEW users, NEW e \in Event, NEW a \in Attempt
      PROVE  /\ Settled(j, r, users)[e][a].calls = r[e][a].calls
             /\ Settled(j, r, users)[e][a].state = "none" => r[e][a].state = "none"
  <2>1. r[e][a] \in Reservation
    BY DEF Reservations
  <2> QED BY <2>1 DEF Settled, Reservation
<1>3. ASSUME \A e \in Event, a \in Attempt :
                reservation'[e][a].state = "none" =>
                  /\ reservation[e][a].state = "none"
                  /\ reservation'[e][a].calls = reservation[e][a].calls
      PROVE  NothingIsChargedUnreserved'
  BY <1>3 DEF NothingIsChargedUnreserved
<1>4. ASSUME reservation' = reservation PROVE NothingIsChargedUnreserved'
  BY <1>4 DEF NothingIsChargedUnreserved
<1>5. ASSUME NEW w \in Worker, NEW u \in User, NEW scope, Claim(w, u, scope)
      PROVE  NothingIsChargedUnreserved'
  <2>1. CASE ClaimNothing(w, u, scope)
    BY <1>1, <1>2, <1>3, <2>1 DEF ClaimNothing, ClaimReservations
  <2>2. /\ BudgetReservations(u) \in Reservations
        /\ ClaimReservations(u) \in Reservations
    BY <1>1, ClaimTypes
  <2>3. \A e \in Event, a \in Attempt :
           BudgetReservations(u)[e][a].state = "none" =>
             /\ reservation[e][a].state = "none"
             /\ BudgetReservations(u)[e][a].calls = reservation[e][a].calls
    <3>1. \A e \in Event, a \in Attempt :
             ClaimReservations(u)[e][a].state = "none" =>
               /\ reservation[e][a].state = "none"
               /\ ClaimReservations(u)[e][a].calls = reservation[e][a].calls
      BY <1>1, <1>2 DEF ClaimReservations
    <3> QED BY <1>2, <2>2, <3>1 DEF BudgetReservations
  <2>4. CASE ClaimDeferred(w, u, scope)
    BY <1>3, <2>3, <2>4 DEF ClaimDeferred
  <2>5. CASE ClaimJob(w, u, scope)
    <3> DEFINE R == BudgetReservations(u)
               Entry == [state |-> "open", calls |-> 0, age |-> 0]
    <3>1. PICK f \in Due(u, scope) :
             reservation' = [R EXCEPT ![f][job[f].attempts + 1] = Entry]
      BY <2>5 DEF ClaimJob
    <3>2. Entry.state = "open"
      OBVIOUS
    <3> HIDE DEF R, Entry
    <3>3. \A e \in Event, a \in Attempt :
             reservation'[e][a] = R[e][a] \/ reservation'[e][a] = Entry
      BY <2>2, <3>1 DEF Reservations, R
    <3> QED BY <1>3, <2>3, <3>2, <3>3 DEF R
  <2> QED BY <1>5, <2>1, <2>4, <2>5 DEF Claim
<1>6. ASSUME NEW w \in Worker, Ask(w) \/ Settle(w) PROVE NothingIsChargedUnreserved'
  <2> DEFINE e == worker[w].event
             a == worker[w].attempt
  <2>1. e \in Event /\ a \in Attempt
    BY <1>1, <1>6, BusyFields DEF Ask, Settle, At
  <2>2. reservation[e][a] \in Reservation
    BY <1>1, <2>1 DEF Reservations
  <2>3. \/ reservation' = reservation
        \/ /\ reservation[e][a].state = "open"
           /\ reservation' = [reservation EXCEPT ![e][a].calls = @ + 1]
        \/ reservation' = [reservation EXCEPT ![e][a].state = "settled"]
    BY <1>6 DEF Ask, Settle
  <2>4. \/ reservation' = reservation
        \/ reservation' = [reservation EXCEPT ![e][a] =
                              [reservation[e][a] EXCEPT !.calls = @ + 1]]
           /\ [reservation[e][a] EXCEPT !.calls = @ + 1].state = "open"
        \/ reservation' = [reservation EXCEPT ![e][a] =
                              [reservation[e][a] EXCEPT !.state = "settled"]]
           /\ [reservation[e][a] EXCEPT !.state = "settled"].state = "settled"
    BY <2>2, <2>3 DEF Reservation
  <2>5. ASSUME NEW entry, reservation' = [reservation EXCEPT ![e][a] = entry],
               entry.state # "none"
        PROVE  NothingIsChargedUnreserved'
    <3>1. \A f \in Event, b \in Attempt :
             reservation'[f][b] = reservation[f][b] \/ reservation'[f][b] = entry
      BY <1>1, <2>5 DEF Reservations
    <3> QED BY <1>3, <2>5, <3>1
  <2> QED BY <1>4, <2>4, <2>5
<1>7. ASSUME NEW u \in User, DirectRefused(u) PROVE NothingIsChargedUnreserved'
  BY <1>1, <1>2, <1>3, <1>7 DEF DirectRefused
<1>8. ASSUME NEW u \in User, DirectDecided(u) PROVE NothingIsChargedUnreserved'
  <2> DEFINE Q == Settled(job, reservation, {u})
  <2>1. Q \in Reservations
    BY <1>1, SettledType
  <2>2. \A e \in Event, a \in Attempt :
           /\ Q[e][a].calls = reservation[e][a].calls
           /\ Q[e][a].state = "none" => reservation[e][a].state = "none"
    BY <1>1, <1>2
  <2>3. reservation' = Settled(Reclaimed(job), Q, User)
    BY <1>8 DEF DirectDecided
  <2> HIDE DEF Q
  <2>4. \A e \in Event, a \in Attempt :
           /\ reservation'[e][a].calls = Q[e][a].calls
           /\ reservation'[e][a].state = "none" => Q[e][a].state = "none"
    BY <1>2, <2>1, <2>3
  <2> QED BY <1>3, <2>2, <2>4
<1>9. ASSUME Tick PROVE NothingIsChargedUnreserved'
  <2>1. ASSUME NEW e \in Event, NEW a \in Attempt
        PROVE  /\ reservation'[e][a].state = reservation[e][a].state
               /\ reservation'[e][a].calls = reservation[e][a].calls
    <3>1. reservation[e][a] \in Reservation
      BY <1>1 DEF Reservations
    <3>2. reservation'[e][a] = [reservation[e][a] EXCEPT
             !.age = IF reservation[e][a].state = "none" THEN 0 ELSE Older(@, Window)]
      BY <1>9 DEF Tick
    <3> QED BY <3>1, <3>2 DEF Reservation
  <2> QED BY <1>3, <2>1
<1>10. ASSUME NEW w \in Worker, Proceed(w) PROVE NothingIsChargedUnreserved'
  BY <1>4, <1>6, <1>10 DEF Proceed, Draft, GiveUp, Drop, DropFails, Publish, Promote,
     Conclude, ConcludeFails
<1>11. CASE \E w \in Worker : Abandon(w) \/ Crash(w) \/ Restart(w) \/ Poll(w)
  BY <1>4, <1>11 DEF Abandon, Crash, Restart, Poll
<1>12. CASE \E e \in Event : Enqueue(e) \/ GrowOld(e) \/ Close(e)
  BY <1>4, <1>12 DEF Enqueue, GrowOld, Close
<1>13. CASE UNCHANGED vars
  BY <1>4, <1>13 DEF vars
<1> QED BY <1>5, <1>7, <1>8, <1>9, <1>10, <1>11, <1>12, <1>13 DEF Next

LEMMA StepKeepsBudget ==
    ASSUME TypeOK, TypeOK', BudgetHolds, NothingIsChargedUnreserved, [Next]_vars
    PROVE  BudgetHolds'
<1>1. reservation \in Reservations /\ reservation' \in Reservations
  BY DEF TypeOK, Reservations
<1>2. ASSUME NoDearer(reservation', reservation), direct' = direct PROVE BudgetHolds'
  <2>1. \A users : Reserved(reservation', users, 0) \subseteq Reserved(reservation, users, 0)
    BY <1>1, <1>2, NoDearerReserves
  <2>2. \A users : Direct(users, 0)' \subseteq Direct(users, 0)
    BY <1>2 DEF Direct
  <2> QED BY <2>1, <2>2, BudgetKept
<1>3. ASSUME reservation' = reservation, direct' = direct PROVE BudgetHolds'
  <2>1. \A users : Reserved(reservation', users, 0) \subseteq Reserved(reservation, users, 0)
    BY <1>3
  <2>2. \A users : Direct(users, 0)' \subseteq Direct(users, 0)
    BY <1>3 DEF Direct
  <2> QED BY <2>1, <2>2, BudgetKept
<1>4. ASSUME NEW w \in Worker, Proceed(w) PROVE BudgetHolds'
  <2>1. direct' = direct
    BY <1>4 DEF Proceed, Draft, Ask, GiveUp, Drop, DropFails, Publish, Promote, Conclude,
       ConcludeFails, Settle
  <2> QED BY <1>2, <1>4, <2>1, ProceedIsNoDearer
<1>5. ASSUME NEW u \in User, DirectRefused(u) PROVE BudgetHolds'
  BY <1>1, <1>2, <1>5, SettledIsNoDearer DEF DirectRefused
<1>6. CASE \E w \in Worker : Abandon(w) \/ Crash(w) \/ Restart(w) \/ Poll(w)
  BY <1>3, <1>6 DEF Abandon, Crash, Restart, Poll
<1>7. CASE \E e \in Event : Enqueue(e) \/ GrowOld(e) \/ Close(e)
  BY <1>3, <1>7 DEF Enqueue, GrowOld, Close
<1>8. CASE UNCHANGED vars
  BY <1>3, <1>8 DEF vars
<1> QED
  BY <1>4, <1>5, <1>6, <1>7, <1>8, ClaimKeepsBudget, DirectDecidedKeepsBudget,
     TickKeepsBudget DEF Next

\* What counts against a window, each call by the age of its reservation, stays within
\* every limit.
THEOREM BudgetRespected == Spec => []BudgetHolds
<1>1. Init => BudgetHolds /\ NothingIsChargedUnreserved
  <2> SUFFICES ASSUME Init PROVE BudgetHolds /\ NothingIsChargedUnreserved
    OBVIOUS
  <2>1. NothingIsChargedUnreserved
    BY DEF Init, NothingIsChargedUnreserved
  <2>2. ASSUME NEW users \in SUBSET User PROVE Used(reservation, users, 0) = 0
    <3>1. Reserved(reservation, users, 0) = {}
      <4>1. \A e \in Event, a \in Attempt : Counted(reservation[e][a]) = 0
        BY DEF Init, Counted
      <4> QED BY <4>1 DEF Reserved, Calls
    <3>2. Direct(users, 0) = {}
      BY DomainAssumption DEF Init, Direct, NoUsage
    <3> QED BY <3>1, <3>2, FS_EmptySet DEF Used
  <2>3. UserLimit \in Nat /\ GlobalLimit \in Nat
    BY BoundAssumption
  <2>4. Used(reservation, User, 0) = 0 /\ \A u \in User : Used(reservation, {u}, 0) = 0
    BY <2>2
  <2> QED BY <2>1, <2>3, <2>4 DEF BudgetHolds
<1>2. TypeOK /\ TypeOK' /\ NothingIsChargedUnreserved /\ BudgetHolds /\ [Next]_vars
      => BudgetHolds' /\ NothingIsChargedUnreserved'
  BY StepKeepsBudget, OnlyReservedIsCharged
<1> QED BY <1>1, <1>2, TypeCorrect, PTL DEF Spec

-----------------------------------------------------------------------------
(* Workers that lost their lease.                                          *)

\* A worker that may still call the model or conclude its attempt.
Engaged(w) == worker[w].step \notin {"idle", "down", "settling"}

AttemptsWereTaken ==
    \A w \in Worker : Engaged(w) => worker[w].attempt <= job[worker[w].event].attempts

AttemptsHaveOneWorker ==
    \A v, w \in Worker :
        /\ Engaged(v)
        /\ Engaged(w)
        /\ worker[v].event = worker[w].event
        /\ worker[v].attempt = worker[w].attempt
        => v = w

NewEventsHaveNoAttempts ==
    \A e \in Event : job[e].status = "none" => job[e].attempts = 0

\* The reservation of an attempt that is worked on is open no longer than the
\* attempt holds its job.
OpenReservationsAreHeld ==
    \A w \in Worker :
        Engaged(w) /\ reservation[worker[w].event][worker[w].attempt].state = "open"
        => Holds(worker[w].event, worker[w].attempt)

SpendInv ==
    /\ AttemptsWereTaken
    /\ AttemptsHaveOneWorker
    /\ NewEventsHaveNoAttempts
    /\ OpenReservationsAreHeld

\* What a transaction does to jobs it does not start.
Moved(j, k) ==
    \A e \in Event :
        /\ k[e].attempts = j[e].attempts
        /\ k[e].status = "none" => j[e].status = "none"

LEMMA TablesMove ==
    ASSUME NEW j \in Jobs, NEW users
    PROVE  Moved(j, Reclaimed(j)) /\ Moved(j, Retired(j, users))
<1> SUFFICES ASSUME NEW e \in Event
             PROVE  /\ Reclaimed(j)[e].attempts = j[e].attempts
                    /\ Reclaimed(j)[e].status = "none" => j[e].status = "none"
                    /\ Retired(j, users)[e].attempts = j[e].attempts
                    /\ Retired(j, users)[e].status = "none" => j[e].status = "none"
  BY DEF Moved
<1>1. j[e] \in Job
  BY DEF Jobs
<1>2. /\ Ended(j[e], "no_intervention", "none").status = "no_intervention"
      /\ Ended(j[e], "no_intervention", "none").attempts = j[e].attempts
      /\ Again(j[e], 0).status = "retry"
      /\ Again(j[e], 0).attempts = j[e].attempts
  BY <1>1, RowFields
<1> QED BY <1>2 DEF Reclaimed, Retired

LEMMA RecoveredMoves ==
    ASSUME job \in Jobs, NEW u
    PROVE  Moved(job, Recovered(u))
<1> SUFFICES ASSUME NEW e \in Event
             PROVE  /\ Recovered(u)[e].attempts = job[e].attempts
                    /\ Recovered(u)[e].status = "none" => job[e].status = "none"
  BY DEF Moved
<1>1. job[e] \in Job
  BY DEF Jobs
<1>2. /\ Ended(job[e], "no_intervention", "none").status = "no_intervention"
      /\ Ended(job[e], "no_intervention", "none").attempts = job[e].attempts
      /\ Again(job[e], 0).status = "retry"
      /\ Again(job[e], 0).attempts = job[e].attempts
  BY <1>1, RowFields
<1> QED BY <1>2 DEF Recovered

LEMMA ClaimMoves ==
    ASSUME job \in Jobs, reservation \in Reservations, NEW u
    PROVE  Moved(job, ClaimJobs(u)) /\ Moved(job, BudgetJobs(u))
<1>1. Moved(Recovered(u), ClaimJobs(u))
  BY RecoveredType, TablesMove DEF ClaimJobs
<1>2. Moved(ClaimJobs(u), BudgetJobs(u))
  BY ClaimTypes, TablesMove DEF BudgetJobs
<1> QED BY <1>1, <1>2, RecoveredMoves DEF Moved

LEMMA SettledWasOpen ==
    ASSUME NEW j, NEW r \in Reservations, NEW users, NEW e \in Event, NEW a \in Attempt,
           Settled(j, r, users)[e][a].state = "open"
    PROVE  r[e][a].state = "open"
<1>1. r[e][a] \in Reservation
  BY DEF Reservations
<1>2. [r[e][a] EXCEPT !.state = "settled"].state = "settled"
  BY <1>1 DEF Reservation
<1> QED BY <1>2 DEF Settled

\* What is open after settling is held.
LEMMA SettledIsHeld ==
    ASSUME NEW j, NEW r \in Reservations, NEW users, NEW e \in Event, NEW a \in Attempt,
           Settled(j, r, users)[e][a].state = "open", Owner[e] \in users
    PROVE  j[e].status = "running" /\ j[e].attempts = a
<1>1. r[e][a] \in Reservation
  BY DEF Reservations
<1>2. [r[e][a] EXCEPT !.state = "settled"].state = "settled"
  BY <1>1 DEF Reservation
<1>3. ~(r[e][a].state = "open" /\ Inactive(j, e, a))
  BY <1>2 DEF Settled
<1> QED BY <1>3, SettledWasOpen DEF Inactive

\* Steps by which no worker takes a new attempt, and no reservation outlives
\* the hold of its attempt.
LEMMA SpendKept ==
    ASSUME TypeOK, SpendInv, Moved(job, job'),
           \A w \in Worker : Engaged(w)' =>
              /\ Engaged(w)
              /\ worker'[w].event = worker[w].event
              /\ worker'[w].attempt = worker[w].attempt,
           \A w \in Worker :
              /\ Engaged(w)'
              /\ reservation'[worker[w].event][worker[w].attempt].state = "open"
              => Holds(worker[w].event, worker[w].attempt)'
    PROVE  SpendInv'
<1>1. ASSUME NEW w \in Worker, Engaged(w)
      PROVE  worker[w].event \in Event /\ worker[w].attempt \in Attempt
  BY <1>1, BusyFields DEF Engaged, TypeOK, Activities
<1>2. AttemptsWereTaken'
  BY <1>1 DEF SpendInv, AttemptsWereTaken, Moved
<1>3. AttemptsHaveOneWorker'
  BY DEF SpendInv, AttemptsHaveOneWorker
<1>4. NewEventsHaveNoAttempts'
  BY DEF SpendInv, NewEventsHaveNoAttempts, Moved
<1>5. OpenReservationsAreHeld'
  BY DEF OpenReservationsAreHeld, Holds
<1> QED BY <1>2, <1>3, <1>4, <1>5 DEF SpendInv

LEMMA ClaimKeepsSpend ==
    ASSUME TypeOK, SpendInv, NEW w \in Worker, NEW u \in User, NEW scope, Claim(w, u, scope)
    PROVE  SpendInv'
<1>1. job \in Jobs /\ reservation \in Reservations /\ worker \in Activities
  BY DEF TypeOK, Jobs, Reservations, Activities
<1>2. ASSUME NEW v \in Worker, Engaged(v)
      PROVE  worker[v].event \in Event /\ worker[v].attempt \in Attempt
  BY <1>1, <1>2, BusyFields DEF Engaged
<1>3. /\ ClaimReservations(u) \in Reservations
      /\ BudgetReservations(u) \in Reservations
      /\ BudgetJobs(u) \in Jobs
  BY <1>1, ClaimTypes
<1>4. Moved(job, ClaimJobs(u)) /\ Moved(job, BudgetJobs(u))
  BY <1>1, ClaimMoves
<1>5. CASE ClaimNothing(w, u, scope)
  <2>1. job' = ClaimJobs(u) /\ reservation' = ClaimReservations(u) /\ worker' = worker
    BY <1>5 DEF ClaimNothing
  <2>2. ASSUME NEW e \in Event, Owner[e] # u PROVE ClaimJobs(u)[e] = job[e]
    BY <2>2 DEF ClaimJobs, Retired, Recovered
  <2>3. ASSUME NEW e \in Event, NEW a \in Attempt,
               ClaimReservations(u)[e][a].state = "open"
        PROVE  /\ reservation[e][a].state = "open"
               /\ Owner[e] = u =>
                    ClaimJobs(u)[e].status = "running" /\ ClaimJobs(u)[e].attempts = a
    <3>1. Settled(ClaimJobs(u), reservation, {u})[e][a].state = "open"
      BY <2>3 DEF ClaimReservations
    <3>2. reservation[e][a].state = "open"
      BY <1>1, <3>1, SettledWasOpen
    <3>3. ASSUME Owner[e] \in {u}
          PROVE  ClaimJobs(u)[e].status = "running" /\ ClaimJobs(u)[e].attempts = a
      BY <1>1, <3>1, <3>3, SettledIsHeld
    <3> QED BY <3>2, <3>3
  <2>4. ASSUME NEW v \in Worker, Engaged(v),
               reservation'[worker[v].event][worker[v].attempt].state = "open"
        PROVE  Holds(worker[v].event, worker[v].attempt)'
    <3> DEFINE e == worker[v].event
               a == worker[v].attempt
    <3>1. e \in Event /\ a \in Attempt
      BY <1>2, <2>4
    <3>2. /\ reservation[e][a].state = "open"
          /\ Owner[e] = u => ClaimJobs(u)[e].status = "running" /\ ClaimJobs(u)[e].attempts = a
      BY <2>1, <2>4, <2>3, <3>1
    <3>3. CASE Owner[e] = u
      BY <2>1, <3>2, <3>3 DEF Holds
    <3>4. CASE Owner[e] # u
      <4>1. Holds(e, a)
        BY <2>4, <3>2 DEF SpendInv, OpenReservationsAreHeld
      <4>2. job'[e] = job[e]
        BY <2>1, <2>2, <3>1, <3>4
      <4> QED BY <4>1, <4>2, <2>1 DEF Holds
    <3> QED BY <3>3, <3>4
  <2>5. \A v \in Worker : Engaged(v)' = Engaged(v)
    BY <2>1 DEF Engaged
  <2> QED BY <1>4, <2>1, <2>4, <2>5, SpendKept
<1>6. ASSUME NEW e \in Event, NEW a \in Attempt,
             BudgetReservations(u)[e][a].state = "open"
      PROVE  BudgetJobs(u)[e].status = "running" /\ BudgetJobs(u)[e].attempts = a
  <2>1. Owner[e] \in User
    BY DomainAssumption
  <2>2. Settled(BudgetJobs(u), ClaimReservations(u), User)[e][a].state = "open"
    BY <1>6 DEF BudgetReservations
  <2> QED BY <1>3, <2>1, <2>2, SettledIsHeld
<1>7. CASE ClaimDeferred(w, u, scope)
  <2>1. /\ reservation' = BudgetReservations(u)
        /\ worker' = worker
        /\ \E delay \in 1..Window, reason \in Reason : job' = Deferred(u, scope, delay, reason)
    BY <1>7 DEF ClaimDeferred, DeferUntil, Reason
  <2>2. PICK delay \in 1..Window, reason \in Reason : job' = Deferred(u, scope, delay, reason)
    BY <2>1
  <2>3. ASSUME NEW e \in Event
        PROVE  /\ job'[e].attempts = BudgetJobs(u)[e].attempts
               /\ job'[e].status = BudgetJobs(u)[e].status
    <3>1. BudgetJobs(u)[e] \in Job
      BY <1>3 DEF Jobs
    <3>2. \/ job'[e] = BudgetJobs(u)[e]
          \/ job'[e] = [BudgetJobs(u)[e] EXCEPT !.wait = delay, !.reason = reason]
      BY <2>2 DEF Deferred
    <3> QED BY <3>1, <3>2 DEF Job
  <2>4. Moved(job, job')
    BY <1>4, <2>3 DEF Moved
  <2>5. \A v \in Worker : Engaged(v)' = Engaged(v)
    BY <2>1 DEF Engaged
  <2>6. \A v \in Worker :
           Engaged(v) /\ reservation'[worker[v].event][worker[v].attempt].state = "open"
           => Holds(worker[v].event, worker[v].attempt)'
    BY <1>2, <1>6, <2>1, <2>3 DEF Holds
  <2> QED BY <2>1, <2>4, <2>5, <2>6, SpendKept
<1>8. CASE ClaimJob(w, u, scope)
  <2>1. PICK e \in Due(u, scope) :
           /\ job' = [BudgetJobs(u) EXCEPT ![e] = Started(@)]
           /\ reservation' = [BudgetReservations(u) EXCEPT ![e][job[e].attempts + 1] =
                                 [state |-> "open", calls |-> 0, age |-> 0]]
           /\ worker' = [worker EXCEPT ![w] = [step |-> "claimed", event |-> e,
                                               attempt |-> job[e].attempts + 1]]
    BY <1>8 DEF ClaimJob
  <2> DEFINE a == job[e].attempts + 1
  <2>2. /\ e \in Event
        /\ a \in Attempt
        /\ BudgetJobs(u)[e].attempts = job[e].attempts
        /\ Waiting(BudgetJobs(u), e)
    BY <1>1, DueCanStart
  <2>3. /\ BudgetJobs(u)[e] \in Job
        /\ \A f \in Event : job[f].attempts \in Nat
    <3>1. MaxAttempts \in Nat
      BY BoundAssumption
    <3>2. \A f \in Event : job[f].attempts \in 0..MaxAttempts
      BY <1>1 DEF Jobs, Job
    <3> QED BY <1>3, <2>2, <3>1, <3>2 DEF Jobs
  <2>4. /\ job'[e].attempts = a
        /\ job'[e].status = "running"
        /\ \A f \in Event : f # e => job'[f] = BudgetJobs(u)[f]
    <3>1. job'[e] = Started(BudgetJobs(u)[e])
      BY <1>3, <2>1, <2>2 DEF Jobs
    <3>2. /\ Started(BudgetJobs(u)[e]).attempts = BudgetJobs(u)[e].attempts + 1
          /\ Started(BudgetJobs(u)[e]).status = "running"
      BY <2>3 DEF Started, Job
    <3>3. \A f \in Event : f # e => job'[f] = BudgetJobs(u)[f]
      BY <1>3, <2>1 DEF Jobs
    <3> QED BY <2>2, <3>1, <3>2, <3>3
  <2>5. /\ worker'[w].step = "claimed"
        /\ worker'[w].event = e
        /\ worker'[w].attempt = a
        /\ \A v \in Worker : v # w => worker'[v] = worker[v]
    BY <1>1, <2>1 DEF Activities
  <2>6. \A v \in Worker : v # w => Engaged(v)' = Engaged(v)
    BY <2>5 DEF Engaged
  <2>7. ASSUME NEW v \in Worker, Engaged(v) PROVE ~(worker[v].event = e /\ worker[v].attempt = a)
    <3>1. worker[v].attempt <= job[worker[v].event].attempts
      BY <2>7 DEF SpendInv, AttemptsWereTaken
    <3> QED BY <2>2, <2>3, <3>1
  <2>8. AttemptsWereTaken'
    <3> SUFFICES ASSUME NEW v \in Worker, Engaged(v)'
                 PROVE  worker'[v].attempt <= job'[worker'[v].event].attempts
      BY DEF AttemptsWereTaken
    <3>1. CASE v = w
      BY <2>2, <2>3, <2>4, <2>5, <3>1
    <3>2. CASE v # w
      <4>1. /\ Engaged(v)
            /\ worker'[v] = worker[v]
        BY <2>5, <2>6, <3>2
      <4>2. /\ worker[v].event \in Event
            /\ worker[v].attempt \in Nat
            /\ worker[v].attempt <= job[worker[v].event].attempts
        BY <1>2, <4>1 DEF SpendInv, AttemptsWereTaken, Attempt
      <4>3. job'[worker[v].event].attempts \in
               {job[worker[v].event].attempts, job[worker[v].event].attempts + 1}
        BY <1>4, <2>4, <4>2 DEF Moved
      <4> QED BY <2>3, <4>1, <4>2, <4>3
    <3> QED BY <3>1, <3>2
  <2>9. AttemptsHaveOneWorker'
    <3> SUFFICES ASSUME NEW v \in Worker, NEW x \in Worker, Engaged(v)', Engaged(x)',
                        worker'[v].event = worker'[x].event,
                        worker'[v].attempt = worker'[x].attempt
                 PROVE  v = x
      BY DEF AttemptsHaveOneWorker
    <3>1. CASE v # w /\ x # w
      BY <2>5, <2>6, <3>1 DEF SpendInv, AttemptsHaveOneWorker
    <3>2. CASE v = w /\ x # w
      BY <2>5, <2>6, <2>7, <3>2
    <3>3. CASE v # w /\ x = w
      BY <2>5, <2>6, <2>7, <3>3
    <3> QED BY <3>1, <3>2, <3>3
  <2>10. NewEventsHaveNoAttempts'
    <3> SUFFICES ASSUME NEW f \in Event, job'[f].status = "none" PROVE job'[f].attempts = 0
      BY DEF NewEventsHaveNoAttempts
    <3> QED BY <1>4, <2>4 DEF Moved, SpendInv, NewEventsHaveNoAttempts
  <2>11. OpenReservationsAreHeld'
    <3> SUFFICES ASSUME NEW v \in Worker, Engaged(v)',
                        reservation'[worker'[v].event][worker'[v].attempt].state = "open"
                 PROVE  /\ job'[worker'[v].event].status = "running"
                        /\ job'[worker'[v].event].attempts = worker'[v].attempt
      BY DEF OpenReservationsAreHeld, Holds
    <3>1. CASE v = w
      BY <2>4, <2>5, <3>1
    <3>2. CASE v # w
      <4> DEFINE f == worker[v].event
                 b == worker[v].attempt
      <4>1. Engaged(v) /\ worker'[v] = worker[v] /\ f \in Event /\ b \in Attempt
        BY <1>2, <2>5, <2>6, <3>2
      <4>2. ~(f = e /\ b = a)
        BY <2>7, <4>1
      <4>3. reservation'[f][b] = BudgetReservations(u)[f][b]
        BY <1>3, <2>1, <2>2, <4>1, <4>2 DEF Reservations
      <4>4. BudgetJobs(u)[f].status = "running" /\ BudgetJobs(u)[f].attempts = b
        BY <1>6, <4>1, <4>3
      <4>5. f # e
        BY <2>2, <4>4 DEF Waiting
      <4> QED BY <2>4, <4>1, <4>4, <4>5
    <3> QED BY <3>1, <3>2
  <2> QED BY <2>8, <2>9, <2>10, <2>11 DEF SpendInv
<1> QED BY <1>5, <1>7, <1>8 DEF Claim

LEMMA ProceedKeepsSpend ==
    ASSUME TypeOK, SpendInv, NEW w \in Worker, Proceed(w)
    PROVE  SpendInv'
<1>1. job \in Jobs /\ reservation \in Reservations /\ worker \in Activities
  BY DEF TypeOK, Jobs, Reservations, Activities
<1>2. ASSUME NEW v \in Worker, Engaged(v)
      PROVE  worker[v].event \in Event /\ worker[v].attempt \in Attempt
  BY <1>1, <1>2, BusyFields DEF Engaged
<1>3. ASSUME job' = job PROVE Moved(job, job')
  BY <1>3 DEF Moved
<1> DEFINE Onward == /\ Engaged(w)
                     /\ \A v \in Worker : v # w => worker'[v] = worker[v]
                     /\ worker'[w].event = worker[w].event
                     /\ worker'[w].attempt = worker[w].attempt
<1>4. ASSUME Engaged(w), NEW step, Now(w, step) PROVE Onward /\ worker'[w].step = step
  BY <1>1, <1>4 DEF Now, Activities
<1>5. ASSUME Engaged(w), NEW step, NEW outcome, Ending(w, step, outcome) PROVE Onward
  BY <1>1, <1>5 DEF Ending, Activities
<1>6. ASSUME Onward
      PROVE  \A v \in Worker : Engaged(v)' =>
                /\ Engaged(v)
                /\ worker'[v].event = worker[v].event
                /\ worker'[v].attempt = worker[v].attempt
  BY <1>6 DEF Engaged
<1>7. ASSUME Onward, job' = job,
             \A v \in Worker :
                /\ Engaged(v)
                /\ reservation'[worker[v].event][worker[v].attempt].state = "open"
                => reservation[worker[v].event][worker[v].attempt].state = "open"
      PROVE  SpendInv'
  <2>1. \A v \in Worker :
           /\ Engaged(v)'
           /\ reservation'[worker[v].event][worker[v].attempt].state = "open"
           => Holds(worker[v].event, worker[v].attempt)'
    BY <1>6, <1>7 DEF SpendInv, OpenReservationsAreHeld, Holds
  <2> HIDE DEF Onward
  <2> QED BY <1>3, <1>6, <1>7, <2>1, SpendKept
<1>8. ASSUME Onward, job' = job, reservation' = reservation PROVE SpendInv'
  BY <1>7, <1>8
<1>9. CASE Ask(w)
  <2>1. Engaged(w)
    BY <1>9 DEF Ask, Engaged, At
  <2>2. Onward /\ job' = job
    <3>1. \/ \E step : Now(w, step)
          \/ \E step : Ending(w, step, "retry")
      BY <1>9 DEF Ask, GivesUp
    <3> QED BY <1>4, <1>5, <1>9, <2>1, <3>1 DEF Ask
  <2> DEFINE e == worker[w].event
             a == worker[w].attempt
  <2>3. e \in Event /\ a \in Attempt
    BY <1>2, <2>1
  <2>4. \/ reservation' = reservation
        \/ /\ reservation[e][a].state = "open"
           /\ reservation' = [reservation EXCEPT ![e][a].calls = @ + 1]
    BY <1>9 DEF Ask
  <2>5. ASSUME NEW f \in Event, NEW b \in Attempt, reservation'[f][b].state = "open"
        PROVE  reservation[f][b].state = "open"
    <3>1. CASE f = e /\ b = a /\ reservation' # reservation
      BY <2>4, <3>1
    <3>2. CASE ~(f = e /\ b = a)
      <4>1. reservation'[f][b] = reservation[f][b]
        BY <1>1, <2>3, <2>4, <3>2 DEF Reservations
      <4> QED BY <2>5, <4>1
    <3>3. CASE reservation' = reservation
      BY <2>5, <3>3
    <3> QED BY <3>1, <3>2, <3>3
  <2> HIDE DEF Onward
  <2> QED BY <1>2, <1>7, <2>2, <2>5
<1>10. CASE Draft(w) \/ GiveUp(w) \/ Drop(w) \/ DropFails(w) \/ Publish(w) \/ Promote(w)
            \/ ConcludeFails(w)
  <2>1. Engaged(w)
    BY <1>10 DEF Draft, GiveUp, Drop, DropFails, Publish, Promote, ConcludeFails, Engaged, At
  <2>2. job' = job /\ reservation' = reservation
    BY <1>10 DEF Draft, GiveUp, Drop, DropFails, Publish, Promote, ConcludeFails
  <2>3. \/ \E step : Now(w, step)
        \/ \E step, outcome : Ending(w, step, outcome)
    BY <1>10 DEF Draft, GiveUp, Drop, DropFails, Publish, Promote, ConcludeFails, GivesUp
  <2>4. Onward
    BY <1>4, <1>5, <2>1, <2>3
  <2> HIDE DEF Onward
  <2> QED BY <1>8, <2>2, <2>4
<1>11. CASE Conclude(w)
  <2> DEFINE e == worker[w].event
             a == worker[w].attempt
  <2>1. Engaged(w) /\ Now(w, "settling") /\ reservation' = reservation
    BY <1>11 DEF Conclude, Engaged, At
  <2>2. Onward /\ worker'[w].step = "settling"
    BY <1>4, <2>1
  <2>3. e \in Event /\ a \in Attempt
    BY <1>2, <2>1
  <2>4. \/ job' = job
        \/ Holds(e, a) /\ job' = [job EXCEPT ![e] = Concluded(job[e], worker[w].outcome)]
    BY <1>11 DEF Conclude
  <2>5. /\ Concluded(job[e], worker[w].outcome).attempts = job[e].attempts
        /\ Concluded(job[e], worker[w].outcome).status # "none"
    <3>1. job[e] \in Job
      BY <1>1, <2>3 DEF Jobs
    <3> QED BY <3>1, RowFields DEF Concluded
  <2>6. Moved(job, job')
    <3>1. ASSUME job' = [job EXCEPT ![e] = Concluded(job[e], worker[w].outcome)]
          PROVE  Moved(job, job')
      BY <1>1, <2>3, <2>5, <3>1 DEF Moved, Jobs
    <3> QED BY <1>3, <2>4, <3>1
  <2>7. ASSUME NEW v \in Worker, Engaged(v)',
               reservation'[worker[v].event][worker[v].attempt].state = "open"
        PROVE  Holds(worker[v].event, worker[v].attempt)'
    <3>1. v # w
      BY <2>2, <2>7 DEF Engaged
    <3>2. Engaged(v)
      BY <1>6, <2>2, <2>7
    <3>3. Holds(worker[v].event, worker[v].attempt)
      BY <2>1, <2>7, <3>2 DEF SpendInv, OpenReservationsAreHeld
    <3>4. worker[v].event # e \/ job' = job
      <4>1. ASSUME worker[v].event = e, Holds(e, a) PROVE FALSE
        <5>1. worker[v].attempt = a
          BY <3>3, <4>1 DEF Holds
        <5> QED BY <2>1, <3>1, <3>2, <4>1, <5>1 DEF SpendInv, AttemptsHaveOneWorker
      <4> QED BY <2>4, <4>1
    <3>5. worker[v].event \in Event
      BY <1>2, <3>2
    <3>6. job'[worker[v].event] = job[worker[v].event]
      BY <1>1, <2>4, <3>4, <3>5 DEF Jobs
    <3>7. worker'[v] = worker[v]
      BY <2>2, <3>1
    <3> QED BY <3>3, <3>6, <3>7 DEF Holds
  <2> HIDE DEF Onward
  <2> QED BY <1>6, <2>2, <2>6, <2>7, SpendKept
<1>12. CASE Settle(w)
  <2> DEFINE e == worker[w].event
             a == worker[w].attempt
  <2>1. /\ worker' = [worker EXCEPT ![w] = Idle]
        /\ reservation' = [reservation EXCEPT ![e][a].state = "settled"]
        /\ At(w, {"settling"})
    BY <1>12 DEF Settle
  <2>2. ASSUME NEW v \in Worker, Engaged(v)'
        PROVE  Engaged(v) /\ worker'[v] = worker[v]
    BY <1>1, <2>1, <2>2 DEF Engaged, Idle, Activities
  <2>3. e \in Event /\ a \in Attempt
    BY <1>1, <2>1, BusyFields DEF At
  <2>4. ASSUME NEW f \in Event
        PROVE  job'[f].attempts = job[f].attempts /\ job'[f].status = job[f].status
    <3>1. job' = job \/ \E chosen : job' = Woken(Owner[e], chosen)
      <4>1. CASE reservation[e][a].state = "open" /\ reservation[e][a].calls < Calls
        <5>1. \E chosen \in SUBSET {g \in Event : Asleep(job, g, "global budget")} :
                 job' = Woken(Owner[e], chosen)
          BY <1>12, <4>1 DEF Settle
        <5> QED BY <5>1
      <4>2. CASE ~(reservation[e][a].state = "open" /\ reservation[e][a].calls < Calls)
        BY <1>12, <4>2 DEF Settle
      <4> QED BY <4>1, <4>2
    <3>2. job'[f] = job[f] \/ job'[f] = [job[f] EXCEPT !.wait = 0]
      BY <3>1 DEF Woken
    <3>3. job[f] \in Job
      BY <1>1 DEF Jobs
    <3> QED BY <3>2, <3>3 DEF Job
  <2>5. Moved(job, job')
    BY <2>4 DEF Moved
  <2>6. ASSUME NEW f \in Event, NEW b \in Attempt, reservation'[f][b].state = "open"
        PROVE  reservation[f][b].state = "open"
    <3>1. reservation[e][a] \in Reservation
      BY <1>1, <2>3 DEF Reservations
    <3>2. reservation' = [reservation EXCEPT ![e] = [reservation[e] EXCEPT ![a] =
                             [reservation[e][a] EXCEPT !.state = "settled"]]]
      BY <2>1
    <3>3. CASE f = e /\ b = a
      <4>1. reservation'[f][b] = [reservation[e][a] EXCEPT !.state = "settled"]
        BY <1>1, <2>3, <3>2, <3>3 DEF Reservations
      <4>2. [reservation[e][a] EXCEPT !.state = "settled"].state = "settled"
        BY <3>1 DEF Reservation
      <4> QED BY <2>6, <4>1, <4>2
    <3>4. CASE ~(f = e /\ b = a)
      <4>1. reservation'[f][b] = reservation[f][b]
        BY <1>1, <2>3, <3>2, <3>4 DEF Reservations
      <4> QED BY <2>6, <4>1
    <3> QED BY <3>3, <3>4
  <2>7. ASSUME NEW v \in Worker, Engaged(v)',
               reservation'[worker[v].event][worker[v].attempt].state = "open"
        PROVE  Holds(worker[v].event, worker[v].attempt)'
    <3>1. Engaged(v) /\ worker[v].event \in Event /\ worker[v].attempt \in Attempt
      BY <1>2, <2>2, <2>7
    <3>2. Holds(worker[v].event, worker[v].attempt)
      BY <2>6, <2>7, <3>1 DEF SpendInv, OpenReservationsAreHeld
    <3> QED BY <2>2, <2>4, <2>7, <3>1, <3>2 DEF Holds
  <2> QED BY <2>2, <2>5, <2>7, SpendKept
<1> QED BY <1>9, <1>10, <1>11, <1>12 DEF Proceed

LEMMA SurroundingsKeepSpend ==
    ASSUME TypeOK, SpendInv
    PROVE  /\ \A w \in Worker : Abandon(w) \/ Crash(w) \/ Restart(w) \/ Poll(w) => SpendInv'
           /\ \A e \in Event : Enqueue(e) \/ GrowOld(e) \/ Close(e) => SpendInv'
           /\ \A u \in User : DirectRefused(u) \/ DirectDecided(u) => SpendInv'
           /\ Tick => SpendInv'
<1>1. job \in Jobs /\ reservation \in Reservations /\ worker \in Activities
  BY DEF TypeOK, Jobs, Reservations, Activities
<1>2. ASSUME NEW v \in Worker, Engaged(v)
      PROVE  worker[v].event \in Event /\ worker[v].attempt \in Attempt
  BY <1>1, <1>2, BusyFields DEF Engaged
\* Steps that leave every hold alone.
<1>3. ASSUME \A v \in Worker : Engaged(v)' => Engaged(v) /\ worker'[v] = worker[v],
             \A e \in Event :
                /\ job'[e].attempts = job[e].attempts
                /\ job'[e].status = "none" => job[e].status = "none"
                /\ job[e].status = "running" => job'[e].status = "running",
             \A e \in Event, a \in Attempt :
                reservation'[e][a].state = "open" => reservation[e][a].state = "open"
      PROVE  SpendInv'
  <2>1. Moved(job, job')
    BY <1>3 DEF Moved
  <2>2. ASSUME NEW v \in Worker, Engaged(v)',
               reservation'[worker[v].event][worker[v].attempt].state = "open"
        PROVE  Holds(worker[v].event, worker[v].attempt)'
    <3>1. Engaged(v) /\ worker[v].event \in Event /\ worker[v].attempt \in Attempt
      BY <1>2, <1>3, <2>2
    <3>2. Holds(worker[v].event, worker[v].attempt)
      BY <1>3, <2>2, <3>1 DEF SpendInv, OpenReservationsAreHeld
    <3> QED BY <1>3, <2>2, <3>1, <3>2 DEF Holds
  <2> QED BY <1>3, <2>1, <2>2, SpendKept
<1>4. ASSUME NEW w \in Worker, Abandon(w) \/ Crash(w) PROVE SpendInv'
  <2>1. /\ job' = job
        /\ reservation' = reservation
        /\ worker' = [worker EXCEPT ![w] = Idle] \/ worker' = [worker EXCEPT ![w] = Down]
    BY <1>4 DEF Abandon, Crash
  <2>2. \A v \in Worker : Engaged(v)' => Engaged(v) /\ worker'[v] = worker[v]
    BY <1>1, <2>1 DEF Engaged, Idle, Down, Activities
  <2> QED BY <1>3, <2>1, <2>2
<1>5. ASSUME NEW w \in Worker, Restart(w) PROVE SpendInv'
  <2>1. ASSUME NEW e \in Event
        PROVE  job'[e].attempts = job[e].attempts /\ job'[e].status = job[e].status
    <3>1. job[e] \in Job
      BY <1>1 DEF Jobs
    <3>2. job'[e] = job[e] \/ job'[e] = [job[e] EXCEPT !.wait = 0]
      BY <1>5 DEF Restart
    <3> QED BY <3>1, <3>2 DEF Job
  <2>2. \A v \in Worker : Engaged(v)' => Engaged(v) /\ worker'[v] = worker[v]
    <3>1. worker' = [worker EXCEPT ![w] = Idle]
      BY <1>5 DEF Restart
    <3> QED BY <1>1, <3>1 DEF Engaged, Idle, Activities
  <2>3. reservation' = reservation
    BY <1>5 DEF Restart
  <2> QED BY <1>3, <2>1, <2>2, <2>3
<1>6. ASSUME NEW w \in Worker, Poll(w) PROVE SpendInv'
  <2>1. job' = Retired(job, User) /\ worker' = worker /\ reservation' = reservation
    BY <1>6 DEF Poll
  <2>2. Moved(job, job')
    BY <1>1, <2>1, TablesMove
  <2>3. \A e \in Event : job[e].status = "running" => job'[e] = job[e]
    BY <2>1 DEF Retired, Waiting
  <2>4. \A v \in Worker : Engaged(v)' => Engaged(v) /\ worker'[v] = worker[v]
    BY <2>1 DEF Engaged
  <2> QED BY <1>3, <2>1, <2>2, <2>3, <2>4 DEF Moved
<1>7. ASSUME NEW e \in Event, Enqueue(e) PROVE SpendInv'
  <2>1. /\ job[e].status = "none"
        /\ job' = [job EXCEPT ![e] = NewJob("pending")]
        /\ worker' = worker
        /\ reservation' = reservation
    BY <1>7 DEF Enqueue
  <2>2. job[e].attempts = 0
    BY <2>1 DEF SpendInv, NewEventsHaveNoAttempts
  <2>3. NewJob("pending").attempts = 0 /\ NewJob("pending").status = "pending"
    BY DEF NewJob
  <2>4. \A f \in Event :
           /\ job'[f].attempts = job[f].attempts
           /\ job'[f].status = "none" => job[f].status = "none"
           /\ job[f].status = "running" => job'[f].status = "running"
    BY <1>1, <2>1, <2>2, <2>3 DEF Jobs
  <2>5. \A v \in Worker : Engaged(v)' => Engaged(v) /\ worker'[v] = worker[v]
    BY <2>1 DEF Engaged
  <2> QED BY <1>3, <2>1, <2>4, <2>5
<1>8. ASSUME job' = job, reservation' = reservation, worker' = worker PROVE SpendInv'
  <2>1. \A v \in Worker : Engaged(v)' => Engaged(v) /\ worker'[v] = worker[v]
    BY <1>8 DEF Engaged
  <2> QED BY <1>3, <1>8, <2>1
<1>9. ASSUME NEW e \in Event, GrowOld(e) \/ Close(e) PROVE SpendInv'
  BY <1>8, <1>9 DEF GrowOld, Close
<1>10. ASSUME NEW u \in User, DirectRefused(u) PROVE SpendInv'
  <2>1. /\ job' = job
        /\ worker' = worker
        /\ reservation' = Settled(job, reservation, {u})
    BY <1>10 DEF DirectRefused
  <2>2. \A e \in Event, a \in Attempt :
           reservation'[e][a].state = "open" => reservation[e][a].state = "open"
    BY <1>1, <2>1, SettledWasOpen
  <2>3. \A v \in Worker : Engaged(v)' => Engaged(v) /\ worker'[v] = worker[v]
    BY <2>1 DEF Engaged
  <2> QED BY <1>3, <2>1, <2>2, <2>3
<1>11. ASSUME NEW u \in User, DirectDecided(u) PROVE SpendInv'
  <2> DEFINE Q == Settled(job, reservation, {u})
  <2>1. /\ job' = Reclaimed(job)
        /\ worker' = worker
        /\ reservation' = Settled(Reclaimed(job), Q, User)
    BY <1>11 DEF DirectDecided
  <2>2. Q \in Reservations
    BY <1>1, SettledType
  <2> HIDE DEF Q
  <2>3. Moved(job, job')
    BY <1>1, <2>1, TablesMove
  <2>4. ASSUME NEW v \in Worker, Engaged(v)',
               reservation'[worker[v].event][worker[v].attempt].state = "open"
        PROVE  Holds(worker[v].event, worker[v].attempt)'
    <3>1. Engaged(v)
      BY <2>1, <2>4 DEF Engaged
    <3>2. worker[v].event \in Event /\ worker[v].attempt \in Attempt
      BY <1>2, <3>1
    <3>3. Owner[worker[v].event] \in User
      BY <3>2, DomainAssumption
    <3>4. ASSUME NEW e \in Event, NEW a \in Attempt, Owner[e] \in User,
                 Settled(Reclaimed(job), Q, User)[e][a].state = "open"
          PROVE  Reclaimed(job)[e].status = "running" /\ Reclaimed(job)[e].attempts = a
      BY <2>2, <3>4, SettledIsHeld
    <3> QED BY <2>1, <2>4, <3>2, <3>3, <3>4 DEF Holds
  <2>5. \A v \in Worker : Engaged(v)' => Engaged(v) /\ worker'[v] = worker[v]
    BY <2>1 DEF Engaged
  <2> QED BY <2>3, <2>4, <2>5, SpendKept
<1>12. ASSUME Tick PROVE SpendInv'
  <2>1. ASSUME NEW e \in Event
        PROVE  job'[e].attempts = job[e].attempts /\ job'[e].status = job[e].status
    <3>1. job[e] \in Job
      BY <1>1 DEF Jobs
    <3>2. job'[e] = [job[e] EXCEPT !.wait = IF @ > 0 THEN @ - 1 ELSE 0,
                        !.age = IF job[e].status = "running" THEN Older(@, Lease) ELSE 0]
      BY <1>12 DEF Tick
    <3> QED BY <3>1, <3>2 DEF Job
  <2>2. ASSUME NEW e \in Event, NEW a \in Attempt
        PROVE  reservation'[e][a].state = reservation[e][a].state
    <3>1. reservation[e][a] \in Reservation
      BY <1>1 DEF Reservations
    <3>2. reservation'[e][a] = [reservation[e][a] EXCEPT
             !.age = IF reservation[e][a].state = "none" THEN 0 ELSE Older(@, Window)]
      BY <1>12 DEF Tick
    <3> QED BY <3>1, <3>2 DEF Reservation
  <2>3. \A v \in Worker : Engaged(v)' => Engaged(v) /\ worker'[v] = worker[v]
    BY <1>12 DEF Tick, Engaged
  <2> QED BY <1>3, <2>1, <2>2, <2>3
<1> QED BY <1>4, <1>5, <1>6, <1>7, <1>9, <1>10, <1>11, <1>12

\* An attempt is worked on by one worker at most, and its reservation is open
\* only while it holds its job.
THEOREM SpendingIsHeld == Spec => []SpendInv
<1>1. Init => SpendInv
  BY DEF Init, Idle, NewJob, SpendInv, AttemptsWereTaken, AttemptsHaveOneWorker,
     NewEventsHaveNoAttempts, OpenReservationsAreHeld, Engaged
<1>2. TypeOK /\ SpendInv /\ [Next]_vars => SpendInv'
  <2> SUFFICES ASSUME TypeOK, SpendInv, [Next]_vars PROVE SpendInv'
    OBVIOUS
  <2>1. CASE Next
    BY <2>1, ClaimKeepsSpend, ProceedKeepsSpend, SurroundingsKeepSpend DEF Next
  <2>2. CASE UNCHANGED vars
    BY <2>2 DEF vars, SpendInv, AttemptsWereTaken, AttemptsHaveOneWorker,
       NewEventsHaveNoAttempts, OpenReservationsAreHeld, Engaged, Holds
  <2> QED BY <2>1, <2>2
<1> QED BY <1>1, <1>2, TypeCorrect, PTL DEF Spec

\* Only a worker's request for a call is charged.
LEMMA OnlyAskingIsCharged ==
    ASSUME TypeOK, [Next]_vars, NEW e \in Event, NEW a \in Attempt,
           reservation'[e][a].calls > reservation[e][a].calls
    PROVE  \E w \in Worker :
              /\ Engaged(w)
              /\ worker[w].event = e
              /\ worker[w].attempt = a
              /\ reservation[e][a].state = "open"
<1>1. reservation \in Reservations /\ job \in Jobs /\ worker \in Activities
  BY DEF TypeOK, Reservations, Jobs, Activities
<1>2. reservation[e][a].calls \in 0..Calls
  BY <1>1 DEF Reservations, Reservation
<1>3. ASSUME reservation'[e][a].calls = reservation[e][a].calls PROVE FALSE
  BY <1>2, <1>3 DEF Calls
<1>4. ASSUME NEW r \in Reservations, NEW j, NEW users
      PROVE  Settled(j, r, users)[e][a].calls = r[e][a].calls
  <2>1. r[e][a] \in Reservation
    BY DEF Reservations
  <2> QED BY <2>1 DEF Settled, Reservation
<1>5. ASSUME NEW w \in Worker, NEW u \in User, NEW scope, Claim(w, u, scope) PROVE FALSE
  <2>1. ClaimReservations(u) \in Reservations /\ BudgetReservations(u) \in Reservations
    BY <1>1, ClaimTypes
  <2>2. ClaimReservations(u)[e][a].calls = reservation[e][a].calls
    BY <1>1, <1>4 DEF ClaimReservations
  <2>3. BudgetReservations(u)[e][a].calls = reservation[e][a].calls
    BY <1>4, <2>1, <2>2 DEF BudgetReservations
  <2>4. CASE ClaimNothing(w, u, scope)
    BY <1>3, <2>2, <2>4 DEF ClaimNothing
  <2>5. CASE ClaimDeferred(w, u, scope)
    BY <1>3, <2>3, <2>5 DEF ClaimDeferred
  <2>6. CASE ClaimJob(w, u, scope)
    <3>1. PICK f \in Due(u, scope) :
             reservation' = [BudgetReservations(u) EXCEPT ![f][job[f].attempts + 1] =
                                [state |-> "open", calls |-> 0, age |-> 0]]
      BY <2>6 DEF ClaimJob
    <3>2. \/ reservation'[e][a] = BudgetReservations(u)[e][a]
          \/ reservation'[e][a] = [state |-> "open", calls |-> 0, age |-> 0]
      BY <2>1, <3>1 DEF Reservations
    <3>3. CASE reservation'[e][a] = BudgetReservations(u)[e][a]
      BY <1>3, <2>3, <3>3
    <3>4. CASE reservation'[e][a] = [state |-> "open", calls |-> 0, age |-> 0]
      BY <1>2, <3>4 DEF Calls
    <3> QED BY <3>2, <3>3, <3>4
  <2> QED BY <1>5, <2>4, <2>5, <2>6 DEF Claim
<1>6. ASSUME NEW w \in Worker, Ask(w)
      PROVE  /\ Engaged(w)
             /\ worker[w].event = e
             /\ worker[w].attempt = a
             /\ reservation[e][a].state = "open"
  <2> DEFINE f == worker[w].event
             b == worker[w].attempt
  <2>1. Engaged(w)
    BY <1>6 DEF Ask, Engaged, At
  <2>2. f \in Event /\ b \in Attempt
    BY <1>1, <2>1, BusyFields DEF Engaged
  <2>3. \/ reservation' = reservation
        \/ /\ reservation[f][b].state = "open"
           /\ reservation' = [reservation EXCEPT ![f][b].calls = @ + 1]
    BY <1>6 DEF Ask
  <2>4. CASE ~(f = e /\ b = a)
    <3>1. reservation'[e][a] = reservation[e][a]
      BY <1>1, <2>2, <2>3, <2>4 DEF Reservations
    <3> QED BY <1>3, <3>1
  <2>5. CASE f = e /\ b = a
    BY <1>3, <2>1, <2>3, <2>5
  <2> QED BY <2>4, <2>5
<1>7. ASSUME NEW w \in Worker, Settle(w) PROVE FALSE
  <2> DEFINE f == worker[w].event
             b == worker[w].attempt
  <2>1. f \in Event /\ b \in Attempt
    BY <1>1, <1>7, BusyFields DEF Settle, At
  <2>2. reservation' = [reservation EXCEPT ![f][b].state = "settled"]
    BY <1>7 DEF Settle
  <2>3. reservation[f][b] \in Reservation
    BY <1>1, <2>1 DEF Reservations
  <2>4. [reservation[f][b] EXCEPT !.state = "settled"].calls = reservation[f][b].calls
    BY <2>3 DEF Reservation
  <2>5. reservation' = [reservation EXCEPT ![f] = [reservation[f] EXCEPT ![b] =
                           [reservation[f][b] EXCEPT !.state = "settled"]]]
    BY <2>2
  <2>6. reservation'[e][a].calls = reservation[e][a].calls
    BY <1>1, <2>1, <2>4, <2>5 DEF Reservations
  <2> QED BY <1>3, <2>6
<1>8. ASSUME NEW u \in User, DirectRefused(u) PROVE FALSE
  BY <1>1, <1>3, <1>4, <1>8 DEF DirectRefused
<1>9. ASSUME NEW u \in User, DirectDecided(u) PROVE FALSE
  <2> DEFINE Q == Settled(job, reservation, {u})
  <2>1. Q \in Reservations /\ Q[e][a].calls = reservation[e][a].calls
    BY <1>1, <1>4, SettledType
  <2>2. reservation' = Settled(Reclaimed(job), Q, User)
    BY <1>9 DEF DirectDecided
  <2> HIDE DEF Q
  <2> QED BY <1>3, <1>4, <2>1, <2>2
<1>10. ASSUME Tick PROVE FALSE
  <2>1. reservation[e][a] \in Reservation
    BY <1>1 DEF Reservations
  <2>2. reservation'[e][a] = [reservation[e][a] EXCEPT
           !.age = IF reservation[e][a].state = "none" THEN 0 ELSE Older(@, Window)]
    BY <1>10 DEF Tick
  <2>3. reservation'[e][a].calls = reservation[e][a].calls
    BY <2>1, <2>2 DEF Reservation
  <2> QED BY <1>3, <2>3
<1>11. ASSUME reservation' = reservation PROVE FALSE
  BY <1>3, <1>11
<1>12. ASSUME NEW w \in Worker, Proceed(w) PROVE Ask(w)
  BY <1>7, <1>11, <1>12 DEF Proceed, Draft, GiveUp, Drop, DropFails, Publish, Promote,
     Conclude, ConcludeFails
<1>13. ~\E w \in Worker : Abandon(w) \/ Crash(w) \/ Restart(w) \/ Poll(w)
  BY <1>11 DEF Abandon, Crash, Restart, Poll
<1>14. ~\E f \in Event : Enqueue(f) \/ GrowOld(f) \/ Close(f)
  BY <1>11 DEF Enqueue, GrowOld, Close
<1>15. ~UNCHANGED vars
  BY <1>11 DEF vars
<1>16. \E w \in Worker : Ask(w)
  BY <1>5, <1>8, <1>9, <1>10, <1>12, <1>13, <1>14, <1>15 DEF Next
<1> QED BY <1>6, <1>16

\* A worker that lost its lease makes no more calls of the model.
THEOREM StaleWorkersSpendNothing == Spec => StaleWorkersCannotSpend
<1>1. TypeOK /\ SpendInv /\ [Next]_vars
      => [\A e \in Event, a \in Attempt :
             reservation'[e][a].calls > reservation[e][a].calls => Holds(e, a)]_vars
  <2> SUFFICES ASSUME TypeOK, SpendInv, [Next]_vars, NEW e \in Event, NEW a \in Attempt,
                      reservation'[e][a].calls > reservation[e][a].calls
               PROVE  Holds(e, a)
    OBVIOUS
  <2> QED BY OnlyAskingIsCharged DEF SpendInv, OpenReservationsAreHeld
<1> QED BY <1>1, TypeCorrect, SpendingIsHeld, PTL DEF Spec, StaleWorkersCannotSpend

-----------------------------------------------------------------------------
(* Decided jobs.                                                           *)

\* Nothing is left to wait for, nor any lease to lapse.
DecidedRowsAreClear ==
    \A e \in Event :
        job[e].status \in Terminal => job[e].wait = 0 /\ job[e].age = 0

\* What every transaction makes of a row: a decided one stays as it is, and
\* another one is decided only with wait and age cleared.
Honours(j, k) ==
    \A e \in Event :
        /\ j[e].status \in Terminal => k[e] = j[e]
        /\ k[e].status \in Terminal => k[e] = j[e] \/ (k[e].wait = 0 /\ k[e].age = 0)

LEMMA RowsCleared ==
    ASSUME NEW row \in Job, NEW delay \in Nat, NEW status \in Terminal, NEW reason \in Reason
    PROVE  /\ Ended(row, status, reason).wait = 0
           /\ Ended(row, status, reason).age = 0
           /\ Again(row, delay).status \notin Terminal
BY DEF Ended, Again, Job, Terminal

LEMMA TablesHonour ==
    ASSUME NEW j \in Jobs, NEW users
    PROVE  Honours(j, Reclaimed(j)) /\ Honours(j, Retired(j, users))
<1>1. Honours(j, Reclaimed(j))
  <2> SUFFICES ASSUME NEW e \in Event
               PROVE  /\ j[e].status \in Terminal => Reclaimed(j)[e] = j[e]
                      /\ Reclaimed(j)[e].status \in Terminal => Reclaimed(j)[e] = j[e]
    BY DEF Honours
  <2>1. Again(j[e], 0).status \notin Terminal
    BY RowFields DEF Jobs, Terminal
  <2> QED BY <2>1 DEF Reclaimed, Lapsed, Terminal
<1>2. Honours(j, Retired(j, users))
  <2> SUFFICES ASSUME NEW e \in Event
               PROVE  /\ j[e].status \in Terminal => Retired(j, users)[e] = j[e]
                      /\ \/ Retired(j, users)[e] = j[e]
                         \/ Retired(j, users)[e].wait = 0 /\ Retired(j, users)[e].age = 0
    BY DEF Honours
  <2>1. /\ Ended(j[e], "no_intervention", "none").wait = 0
        /\ Ended(j[e], "no_intervention", "none").age = 0
    BY RowsCleared DEF Jobs, Terminal, Reason
  <2> QED BY <2>1 DEF Retired, Waiting, Terminal
<1> QED BY <1>1, <1>2

LEMMA RecoveredHonours ==
    ASSUME job \in Jobs, NEW u
    PROVE  Honours(job, Recovered(u))
<1> SUFFICES ASSUME NEW e \in Event
             PROVE  /\ job[e].status \in Terminal => Recovered(u)[e] = job[e]
                    /\ Recovered(u)[e].status \in Terminal =>
                         \/ Recovered(u)[e] = job[e]
                         \/ Recovered(u)[e].wait = 0 /\ Recovered(u)[e].age = 0
  BY DEF Honours
<1>1. /\ Ended(job[e], "no_intervention", "none").wait = 0
      /\ Ended(job[e], "no_intervention", "none").age = 0
      /\ Again(job[e], 0).status \notin Terminal
  BY RowsCleared, RowFields DEF Jobs, Terminal, Reason
<1> QED BY <1>1 DEF Recovered, Waiting, Lapsed, Terminal

LEMMA HonoursIsTransitive ==
    ASSUME NEW j, NEW k, NEW l, Honours(j, k), Honours(k, l)
    PROVE  Honours(j, l)
<1> SUFFICES ASSUME NEW e \in Event
             PROVE  /\ j[e].status \in Terminal => l[e] = j[e]
                    /\ l[e].status \in Terminal => l[e] = j[e] \/ (l[e].wait = 0 /\ l[e].age = 0)
  BY DEF Honours
<1>1. /\ j[e].status \in Terminal => k[e] = j[e]
      /\ k[e].status \in Terminal => k[e] = j[e] \/ (k[e].wait = 0 /\ k[e].age = 0)
      /\ k[e].status \in Terminal => l[e] = k[e]
      /\ l[e].status \in Terminal => l[e] = k[e] \/ (l[e].wait = 0 /\ l[e].age = 0)
  BY DEF Honours
<1> QED BY <1>1

LEMMA StepHonours ==
    ASSUME TypeOK, DecidedRowsAreClear, SpendInv, [Next]_vars
    PROVE  /\ Honours(job, job')
           /\ \A e \in Event : job'[e].attempts >= job[e].attempts
<1>1. job \in Jobs /\ reservation \in Reservations /\ worker \in Activities
  BY DEF TypeOK, Jobs, Reservations, Activities
<1>2. \A e \in Event : job[e].attempts \in Nat
  <2>1. MaxAttempts \in Nat
    BY BoundAssumption
  <2>2. \A e \in Event : job[e].attempts \in 0..MaxAttempts
    BY <1>1 DEF Jobs, Job
  <2> QED BY <2>1, <2>2
<1> DEFINE Goal == /\ Honours(job, job')
                   /\ \A e \in Event : job'[e].attempts >= job[e].attempts
<1>3. ASSUME Honours(job, job'), Moved(job, job') PROVE Goal
  <2>1. \A e \in Event : job'[e].attempts = job[e].attempts
    BY <1>3 DEF Moved
  <2> QED BY <1>2, <1>3, <2>1
<1>4. ASSUME job' = job PROVE Goal
  <2>1. Honours(job, job')
    BY <1>4 DEF Honours
  <2>2. Moved(job, job')
    BY <1>4 DEF Moved
  <2> QED BY <1>3, <2>1, <2>2
<1>5. ASSUME NEW w \in Worker, NEW u \in User, NEW scope, Claim(w, u, scope) PROVE Goal
  <2>1. /\ Honours(job, ClaimJobs(u)) /\ Honours(job, BudgetJobs(u))
        /\ Moved(job, ClaimJobs(u)) /\ Moved(job, BudgetJobs(u))
        /\ BudgetJobs(u) \in Jobs
    <3>1. Honours(Recovered(u), ClaimJobs(u))
      BY <1>1, RecoveredType, TablesHonour DEF ClaimJobs
    <3>2. Honours(ClaimJobs(u), BudgetJobs(u))
      BY <1>1, ClaimTypes, TablesHonour DEF BudgetJobs
    <3>3. Honours(job, ClaimJobs(u))
      BY <1>1, <3>1, RecoveredHonours, HonoursIsTransitive
    <3> QED BY <1>1, <3>2, <3>3, HonoursIsTransitive, ClaimMoves, ClaimTypes
  <2>2. CASE ClaimNothing(w, u, scope)
    BY <1>3, <2>1, <2>2 DEF ClaimNothing
  <2>3. CASE ClaimDeferred(w, u, scope)
    <3>1. \E delay \in 1..Window, reason \in Reason : job' = Deferred(u, scope, delay, reason)
      BY <2>3 DEF ClaimDeferred, DeferUntil, Reason
    <3>2. PICK delay \in 1..Window, reason \in Reason : job' = Deferred(u, scope, delay, reason)
      BY <3>1
    <3>3. ASSUME NEW e \in Event
          PROVE  /\ BudgetJobs(u)[e].status \in Terminal => job'[e] = BudgetJobs(u)[e]
                 /\ job'[e].status = BudgetJobs(u)[e].status
                 /\ job'[e].attempts = BudgetJobs(u)[e].attempts
      <4>1. BudgetJobs(u)[e] \in Job
        BY <2>1 DEF Jobs
      <4>2. \/ job'[e] = BudgetJobs(u)[e]
            \/ /\ Waiting(BudgetJobs(u), e)
               /\ job'[e] = [BudgetJobs(u)[e] EXCEPT !.wait = delay, !.reason = reason]
        BY <3>2 DEF Deferred
      <4> QED BY <4>1, <4>2 DEF Job, Waiting, Terminal
    <3>4. Honours(BudgetJobs(u), job')
      BY <3>3 DEF Honours
    <3>5. Honours(job, job')
      BY <2>1, <3>4, HonoursIsTransitive
    <3>6. Moved(job, job')
      BY <2>1, <3>3 DEF Moved
    <3> QED BY <1>3, <3>5, <3>6
  <2>4. CASE ClaimJob(w, u, scope)
    <3>1. PICK e \in Due(u, scope) : job' = [BudgetJobs(u) EXCEPT ![e] = Started(@)]
      BY <2>4 DEF ClaimJob
    <3>2. /\ e \in Event
          /\ BudgetJobs(u)[e].attempts = job[e].attempts
          /\ Waiting(BudgetJobs(u), e)
      BY <1>1, DueCanStart
    <3>3. /\ job'[e].status = "running"
          /\ job'[e].attempts = job[e].attempts + 1
          /\ \A f \in Event : f # e => job'[f] = BudgetJobs(u)[f]
      <4>1. BudgetJobs(u)[e] \in Job
        BY <2>1, <3>2 DEF Jobs
      <4>2. /\ Started(BudgetJobs(u)[e]).attempts = BudgetJobs(u)[e].attempts + 1
            /\ Started(BudgetJobs(u)[e]).status = "running"
        BY <4>1 DEF Started, Job
      <4>3. job'[e] = Started(BudgetJobs(u)[e])
        BY <2>1, <3>1, <3>2 DEF Jobs
      <4>4. \A f \in Event : f # e => job'[f] = BudgetJobs(u)[f]
        BY <2>1, <3>1 DEF Jobs
      <4> QED BY <3>2, <4>2, <4>3, <4>4
    <3>4. Honours(BudgetJobs(u), job')
      BY <3>2, <3>3 DEF Honours, Waiting, Terminal
    <3>5. Honours(job, job')
      BY <2>1, <3>4, HonoursIsTransitive
    <3>6. ASSUME NEW f \in Event PROVE job'[f].attempts >= job[f].attempts
      <4>1. CASE f = e
        BY <1>2, <3>2, <3>3, <4>1
      <4>2. CASE f # e
        <5>1. job'[f].attempts = job[f].attempts
          BY <2>1, <3>3, <4>2 DEF Moved
        <5> QED BY <1>2, <5>1
      <4> QED BY <4>1, <4>2
    <3> QED BY <3>5, <3>6
  <2> HIDE DEF Goal
  <2> QED BY <1>5, <2>2, <2>3, <2>4 DEF Claim
<1>6. ASSUME NEW w \in Worker, Conclude(w) PROVE Goal
  <2> DEFINE e == worker[w].event
             row == Concluded(job[e], worker[w].outcome)
  <2>1. e \in Event
    BY <1>1, <1>6, BusyFields DEF Conclude, At
  <2>2. \/ job' = job
        \/ Holds(e, worker[w].attempt) /\ job' = [job EXCEPT ![e] = row]
    BY <1>6 DEF Conclude
  <2>3. /\ row.attempts = job[e].attempts
        /\ row.status \in Terminal => row.wait = 0 /\ row.age = 0
        /\ row.status # "none"
    <3>1. job[e] \in Job
      BY <1>1, <2>1 DEF Jobs
    <3>2. worker[w].outcome \in Outcome
      BY <1>1, <1>6, BusyFields DEF Conclude, At
    <3>3. RetryDelay \in Nat
      BY BoundAssumption
    <3>4. /\ Ended(job[e], "published", worker[w].outcome).attempts = job[e].attempts
          /\ Ended(job[e], "published", worker[w].outcome).status = "published"
          /\ Ended(job[e], "no_intervention", "none").attempts = job[e].attempts
          /\ Ended(job[e], "no_intervention", "none").status = "no_intervention"
          /\ Again(job[e], RetryDelay).attempts = job[e].attempts
          /\ Again(job[e], RetryDelay).status = "retry"
      BY <3>1, RowFields
    <3>5. ASSUME worker[w].outcome \in {"published", "merged"}
          PROVE  /\ Ended(job[e], "published", worker[w].outcome).wait = 0
                 /\ Ended(job[e], "published", worker[w].outcome).age = 0
      <4>1. "published" \in Terminal /\ worker[w].outcome \in Reason
        BY <3>5 DEF Terminal, Reason
      <4> QED BY <3>1, <3>3, <4>1, RowsCleared
    <3>6. /\ Ended(job[e], "no_intervention", "none").wait = 0
          /\ Ended(job[e], "no_intervention", "none").age = 0
      BY <3>1, RowsCleared DEF Terminal, Reason
    <3> QED BY <3>4, <3>5, <3>6 DEF Concluded, Terminal
  <2> HIDE DEF row
  <2>4. ASSUME Holds(e, worker[w].attempt), job' = [job EXCEPT ![e] = row] PROVE Goal
    <3>1. /\ job'[e] = row
          /\ job[e].status = "running"
          /\ \A f \in Event : f # e => job'[f] = job[f]
      BY <1>1, <2>1, <2>4 DEF Jobs, Holds
    <3>2. Honours(job, job')
      BY <2>3, <3>1 DEF Honours, Terminal
    <3>3. Moved(job, job')
      BY <2>3, <3>1 DEF Moved
    <3> QED BY <1>3, <3>2, <3>3
  <2> HIDE DEF Goal
  <2> QED BY <1>4, <2>2, <2>4
<1>7. ASSUME \A e \in Event :
                \/ job'[e] = job[e]
                \/ /\ Waiting(job, e)
                   /\ job'[e] = [job[e] EXCEPT !.wait = 0]
      PROVE  Goal
  <2>1. ASSUME NEW e \in Event
        PROVE  /\ job[e].status \in Terminal => job'[e] = job[e]
               /\ job'[e].status = job[e].status
               /\ job'[e].attempts = job[e].attempts
    <3>1. job[e] \in Job
      BY <1>1 DEF Jobs
    <3> QED BY <1>7, <3>1 DEF Waiting, Terminal, Job
  <2>2. Honours(job, job')
    BY <2>1 DEF Honours
  <2>3. Moved(job, job')
    BY <2>1 DEF Moved
  <2> QED BY <1>3, <2>2, <2>3
<1>8. ASSUME NEW w \in Worker, Settle(w) PROVE Goal
  <2> DEFINE e == worker[w].event
             a == worker[w].attempt
             tired == {f \in Event : Asleep(job, f, "global budget")}
  <2>1. CASE reservation[e][a].state = "open" /\ reservation[e][a].calls < Calls
    <3>1. \E chosen \in SUBSET tired : job' = Woken(Owner[e], chosen)
      BY <1>8, <2>1 DEF Settle
    <3>2. PICK chosen \in SUBSET tired : job' = Woken(Owner[e], chosen)
      BY <3>1
    <3>3. ASSUME NEW f \in Event
          PROVE  \/ job'[f] = job[f]
                 \/ Waiting(job, f) /\ job'[f] = [job[f] EXCEPT !.wait = 0]
      BY <3>2 DEF Woken, Asleep
    <3> HIDE DEF Goal
    <3> QED BY <1>7, <3>3
  <2>2. CASE ~(reservation[e][a].state = "open" /\ reservation[e][a].calls < Calls)
    <3>1. job' = job
      BY <1>8, <2>2 DEF Settle
    <3> HIDE DEF Goal
    <3> QED BY <1>4, <3>1
  <2> QED BY <2>1, <2>2
<1>9. ASSUME NEW w \in Worker, Restart(w) PROVE Goal
  <2>1. ASSUME NEW f \in Event
        PROVE  \/ job'[f] = job[f]
               \/ Waiting(job, f) /\ job'[f] = [job[f] EXCEPT !.wait = 0]
    BY <1>9 DEF Restart, Asleep
  <2> HIDE DEF Goal
  <2> QED BY <1>7, <2>1
<1>10. ASSUME NEW w \in Worker, Poll(w) PROVE Goal
  BY <1>1, <1>3, <1>10, TablesHonour, TablesMove DEF Poll
<1>11. ASSUME NEW e \in Event, Enqueue(e) PROVE Goal
  <2>1. job[e].status = "none" /\ job' = [job EXCEPT ![e] = NewJob("pending")]
    BY <1>11 DEF Enqueue
  <2>2. NewJob("pending").attempts = 0 /\ NewJob("pending").status = "pending"
    BY DEF NewJob
  <2>3. job[e].attempts = 0
    BY <2>1 DEF SpendInv, NewEventsHaveNoAttempts
  <2>4. /\ job'[e] = NewJob("pending")
        /\ \A f \in Event : f # e => job'[f] = job[f]
    BY <1>1, <2>1 DEF Jobs
  <2>5. Honours(job, job')
    BY <2>1, <2>2, <2>4 DEF Honours, Terminal
  <2>6. Moved(job, job')
    BY <2>1, <2>2, <2>3, <2>4 DEF Moved
  <2> HIDE DEF Goal
  <2> QED BY <1>3, <2>5, <2>6
<1>12. ASSUME NEW u \in User, DirectDecided(u) PROVE Goal
  BY <1>1, <1>3, <1>12, TablesHonour, TablesMove DEF DirectDecided
<1>13. ASSUME Tick PROVE Goal
  <2>1. ASSUME NEW e \in Event
        PROVE  /\ job'[e].attempts = job[e].attempts
               /\ job'[e].status = job[e].status
               /\ job[e].status \in Terminal => job'[e] = job[e]
    <3>1. job[e] \in Job
      BY <1>1 DEF Jobs
    <3>2. job'[e] = [job[e] EXCEPT !.wait = IF @ > 0 THEN @ - 1 ELSE 0,
                        !.age = IF job[e].status = "running" THEN Older(@, Lease) ELSE 0]
      BY <1>13 DEF Tick
    <3>3. /\ job'[e].attempts = job[e].attempts
          /\ job'[e].status = job[e].status
      BY <3>1, <3>2 DEF Job
    <3>4. ASSUME job[e].status \in Terminal PROVE job'[e] = job[e]
      <4>1. job[e].wait = 0 /\ job[e].age = 0 /\ job[e].status # "running"
        BY <3>4 DEF DecidedRowsAreClear, Terminal
      <4>2. job'[e] = [job[e] EXCEPT !.wait = 0, !.age = 0]
        BY <3>2, <4>1
      <4> QED BY <3>1, <4>1, <4>2 DEF Job
    <3> QED BY <3>3, <3>4
  <2>2. Honours(job, job')
    BY <2>1 DEF Honours
  <2>3. Moved(job, job')
    BY <2>1 DEF Moved
  <2> HIDE DEF Goal
  <2> QED BY <1>3, <2>2, <2>3
<1> HIDE DEF Goal
<1>14. ASSUME NEW w \in Worker, Proceed(w) PROVE Goal
  <2>1. ASSUME Draft(w) \/ Ask(w) \/ GiveUp(w) \/ Drop(w) \/ DropFails(w) \/ Publish(w)
               \/ Promote(w) \/ ConcludeFails(w)
        PROVE  Goal
    BY <1>4, <2>1 DEF Draft, Ask, GiveUp, Drop, DropFails, Publish, Promote, ConcludeFails
  <2> QED BY <1>6, <1>8, <1>14, <2>1 DEF Proceed
<1>15. ASSUME \E w \in Worker : Abandon(w) \/ Crash(w) PROVE Goal
  BY <1>4, <1>15 DEF Abandon, Crash
<1>16. ASSUME \E e \in Event : GrowOld(e) \/ Close(e) PROVE Goal
  BY <1>4, <1>16 DEF GrowOld, Close
<1>17. ASSUME \E u \in User : DirectRefused(u) PROVE Goal
  BY <1>4, <1>17 DEF DirectRefused
<1>18. ASSUME UNCHANGED vars PROVE Goal
  BY <1>4, <1>18 DEF vars
<1>19. Goal
  BY <1>5, <1>9, <1>10, <1>11, <1>12, <1>13, <1>14, <1>15, <1>16, <1>17, <1>18 DEF Next
<1> QED BY <1>19 DEF Goal

\* A decided job has no time left to wait for and no lease to lapse.
THEOREM DecidedRowsStayClear == Spec => []DecidedRowsAreClear
<1>1. Init => DecidedRowsAreClear
  BY DEF Init, NewJob, DecidedRowsAreClear
<1>2. TypeOK /\ SpendInv /\ DecidedRowsAreClear /\ [Next]_vars => DecidedRowsAreClear'
  BY StepHonours DEF Honours, DecidedRowsAreClear
<1> QED BY <1>1, <1>2, TypeCorrect, SpendingIsHeld, PTL DEF Spec

\* What was decided stays decided, and attempts are counted upwards only.
THEOREM JobsAreDecidedOnce == Spec => DecidedOnce
<1>1. TypeOK /\ SpendInv /\ DecidedRowsAreClear /\ [Next]_vars
      => [\A e \in Event :
             /\ job[e].status \in Terminal => job'[e] = job[e]
             /\ job'[e].attempts >= job[e].attempts]_vars
  BY StepHonours DEF Honours
<1> QED
  BY <1>1, TypeCorrect, SpendingIsHeld, DecidedRowsStayClear, PTL DEF Spec, DecidedOnce


-----------------------------------------------------------------------------
(* What no step of the queue does.                                         *)

\* Settling what is inactive leaves the calls that were made alone.
LEMMA SettlingKeepsCalls ==
    ASSUME NEW r \in Reservations, NEW j, NEW users, NEW e \in Event, NEW a \in Attempt
    PROVE  Settled(j, r, users)[e][a].calls = r[e][a].calls
<1>1. r[e][a] \in Reservation
  BY DEF Reservations
<1> QED BY <1>1 DEF Settled, Reservation

\* The calls of an attempt that was taken are not forgotten by a claim: only
\* the attempt it starts begins at zero.
LEMMA ClaimsKeepCalls ==
    ASSUME TypeOK, NEW w \in Worker, NEW u \in User, NEW scope, Claim(w, u, scope),
           NEW e \in Event, NEW a \in Attempt, a <= job[e].attempts
    PROVE  reservation'[e][a].calls = reservation[e][a].calls
<1>1. reservation \in Reservations /\ job \in Jobs
  BY DEF TypeOK, Reservations, Jobs
<1>2. ClaimReservations(u) \in Reservations /\ BudgetReservations(u) \in Reservations
  BY <1>1, ClaimTypes
<1>3. ClaimReservations(u)[e][a].calls = reservation[e][a].calls
  BY <1>1, SettlingKeepsCalls DEF ClaimReservations
<1>4. BudgetReservations(u)[e][a].calls = reservation[e][a].calls
  BY <1>2, <1>3, SettlingKeepsCalls DEF BudgetReservations
<1>5. CASE ClaimNothing(w, u, scope)
  BY <1>3, <1>5 DEF ClaimNothing
<1>6. CASE ClaimDeferred(w, u, scope)
  BY <1>4, <1>6 DEF ClaimDeferred
<1>7. CASE ClaimJob(w, u, scope)
  <2>1. PICK f \in Due(u, scope) :
           reservation' = [BudgetReservations(u) EXCEPT ![f][job[f].attempts + 1] =
                              [state |-> "open", calls |-> 0, age |-> 0]]
    BY <1>7 DEF ClaimJob
  <2>2. f \in Event /\ job[f].attempts + 1 \in Attempt
    BY <1>1, DueCanStart
  <2>3. ~(f = e /\ a = job[f].attempts + 1)
    <3>1. MaxAttempts \in Nat
      BY BoundAssumption
    <3>2. a \in Nat
      BY <3>1 DEF Attempt
    <3>3. job[e].attempts \in Nat
      <4>1. job[e] \in Job
        BY <1>1 DEF Jobs
      <4> HIDE DEF Attempt
      <4>2. job[e].attempts \in 0..MaxAttempts
        BY <4>1 DEF Job
      <4> QED BY <3>1, <4>2
    <3> QED BY <3>2, <3>3
  <2>4. reservation'[e][a] = BudgetReservations(u)[e][a]
    BY <1>2, <2>1, <2>2, <2>3 DEF Reservations
  <2> QED BY <1>4, <2>4
<1> QED BY <1>5, <1>6, <1>7 DEF Claim

\* Nor by what a worker does on its claim.
LEMMA WorkKeepsCalls ==
    ASSUME TypeOK, NEW w \in Worker, Proceed(w), NEW e \in Event, NEW a \in Attempt
    PROVE  reservation'[e][a].calls >= reservation[e][a].calls
<1>1. reservation \in Reservations /\ worker \in Activities
  BY DEF TypeOK, Reservations, Activities
<1>2. reservation[e][a].calls \in 0..Calls
  BY <1>1 DEF Reservations, Reservation
<1>3. ASSUME reservation'[e][a].calls = reservation[e][a].calls
      PROVE  reservation'[e][a].calls >= reservation[e][a].calls
  BY <1>2, <1>3 DEF Calls
<1> DEFINE f == worker[w].event
           b == worker[w].attempt
<1>4. f \in Event /\ b \in Attempt
  <2>1. worker[w].step \notin {"idle", "down"}
    BY DEF Proceed, Draft, Ask, GiveUp, Drop, DropFails, Publish, Promote, Conclude,
           ConcludeFails, Settle, At
  <2> QED BY <1>1, <2>1, BusyFields
<1>5. reservation[f][b] \in Reservation
  BY <1>1, <1>4 DEF Reservations
<1>6. CASE Ask(w)
  <2>1. CASE reservation' = reservation
    BY <1>3, <2>1
  <2>2. CASE reservation' = [reservation EXCEPT ![f][b].calls = @ + 1]
    <3>1. CASE ~(f = e /\ b = a)
      <4>1. reservation'[e][a] = reservation[e][a]
        BY <1>1, <1>4, <2>2, <3>1 DEF Reservations
      <4> QED BY <1>3, <4>1
    <3>2. CASE f = e /\ b = a
      <4>1. reservation'[e][a].calls = reservation[e][a].calls + 1
        BY <1>1, <1>4, <1>5, <2>2, <3>2 DEF Reservations, Reservation
      <4> QED BY <1>2, <4>1 DEF Calls
    <3> QED BY <3>1, <3>2
  <2> QED BY <1>6, <2>1, <2>2 DEF Ask
<1>7. CASE Settle(w)
  <2>1. [reservation[f][b] EXCEPT !.state = "settled"].calls = reservation[f][b].calls
    BY <1>5 DEF Reservation
  <2>2. reservation' = [reservation EXCEPT ![f] = [reservation[f] EXCEPT ![b] =
                           [reservation[f][b] EXCEPT !.state = "settled"]]]
    BY <1>7 DEF Settle
  <2>3. reservation'[e][a].calls = reservation[e][a].calls
    BY <1>1, <1>4, <2>1, <2>2 DEF Reservations
  <2> QED BY <1>3, <2>3
<1>8. CASE reservation' = reservation
  BY <1>3, <1>8
<1> QED BY <1>6, <1>7, <1>8 DEF Proceed, Draft, GiveUp, Drop, DropFails, Publish, Promote,
           Conclude, ConcludeFails

\* So no step forgets a call that an attempt made.
LEMMA CallsAreNotForgotten ==
    ASSUME TypeOK, [Next]_vars, NEW e \in Event, NEW a \in Attempt, a <= job[e].attempts
    PROVE  reservation'[e][a].calls >= reservation[e][a].calls
<1>1. reservation \in Reservations
  BY DEF TypeOK, Reservations
<1>2. ASSUME reservation'[e][a].calls = reservation[e][a].calls
      PROVE  reservation'[e][a].calls >= reservation[e][a].calls
  <2>1. reservation[e][a].calls \in 0..Calls
    BY <1>1 DEF Reservations, Reservation
  <2> QED BY <1>2, <2>1 DEF Calls
<1> DEFINE Goal == reservation'[e][a].calls >= reservation[e][a].calls
<1>3. ASSUME reservation' = reservation PROVE Goal
  BY <1>2, <1>3
<1>4. ASSUME NEW w \in Worker, NEW u \in User, NEW scope, Claim(w, u, scope) PROVE Goal
  BY <1>2, <1>4, ClaimsKeepCalls
<1>5. ASSUME NEW w \in Worker, Proceed(w) PROVE Goal
  BY <1>5, WorkKeepsCalls
<1>6. ASSUME NEW u \in User, DirectRefused(u) PROVE Goal
  BY <1>1, <1>2, <1>6, SettlingKeepsCalls DEF DirectRefused
<1>7. ASSUME NEW u \in User, DirectDecided(u) PROVE Goal
  <2> DEFINE Q == Settled(job, reservation, {u})
  <2>1. Q \in Reservations /\ Q[e][a].calls = reservation[e][a].calls
    BY <1>1, SettlingKeepsCalls, SettledType
  <2>2. reservation' = Settled(Reclaimed(job), Q, User)
    BY <1>7 DEF DirectDecided
  <2> HIDE DEF Q
  <2> QED BY <1>2, <2>1, <2>2, SettlingKeepsCalls
<1>8. ASSUME Tick PROVE Goal
  <2>1. reservation[e][a] \in Reservation
    BY <1>1 DEF Reservations
  <2>2. reservation'[e][a] = [reservation[e][a] EXCEPT
           !.age = IF reservation[e][a].state = "none" THEN 0 ELSE Older(@, Window)]
    BY <1>8 DEF Tick
  <2> QED BY <1>2, <2>1, <2>2 DEF Reservation
<1> HIDE DEF Goal
<1>9. ASSUME NEW w \in Worker, Abandon(w) \/ Crash(w) \/ Restart(w) \/ Poll(w) PROVE Goal
  BY <1>3, <1>9 DEF Abandon, Crash, Restart, Poll
<1>10. ASSUME NEW f \in Event, Enqueue(f) \/ GrowOld(f) \/ Close(f) PROVE Goal
  BY <1>3, <1>10 DEF Enqueue, GrowOld, Close
<1>11. ASSUME UNCHANGED vars PROVE Goal
  BY <1>3, <1>11 DEF vars
<1>12. Goal
  BY <1>4, <1>5, <1>6, <1>7, <1>8, <1>9, <1>10, <1>11 DEF Next
<1> QED BY <1>12 DEF Goal

-----------------------------------------------------------------------------
(* What the steps do to workers and to what is visible.                    *)

HasAsked(w) == worker[w].step \in {"asked once", "asked twice"}

\* A worker that has asked was so already, or asks with this step.
LEMMA OnlyAskersHaveAsked ==
    ASSUME TypeOK, [Next]_vars, NEW w \in Worker,
           HasAsked(w)'
    PROVE  worker'[w] = worker[w] \/ Ask(w)
<1>1. worker \in Activities
  BY DEF TypeOK, Activities
<1> DEFINE Goal == worker'[w] = worker[w] \/ Ask(w)
<1>2. ASSUME worker' = worker PROVE Goal
  BY <1>2
<1>3. ASSUME NEW v \in Worker, NEW entry,
             worker' = [worker EXCEPT ![v] = entry],
             entry.step \notin {"asked once", "asked twice"}
      PROVE  Goal
  BY <1>1, <1>3 DEF Activities, HasAsked
<1>4. ASSUME NEW v \in Worker, NEW step, Now(v, step),
             step \notin {"asked once", "asked twice"}
      PROVE  Goal
  <2> DEFINE entry == [step |-> step, event |-> worker[v].event, attempt |-> worker[v].attempt]
  <2>1. worker' = [worker EXCEPT ![v] = entry] /\ entry.step \notin {"asked once", "asked twice"}
    BY <1>4 DEF Now
  <2> HIDE DEF entry, Goal
  <2> QED BY <1>3, <2>1
<1>5. ASSUME NEW v \in Worker, NEW step, NEW outcome, Ending(v, step, outcome),
             step \notin {"asked once", "asked twice"}
      PROVE  Goal
  <2> DEFINE entry == [step |-> step, event |-> worker[v].event,
                       attempt |-> worker[v].attempt, outcome |-> outcome]
  <2>1. worker' = [worker EXCEPT ![v] = entry] /\ entry.step \notin {"asked once", "asked twice"}
    BY <1>5 DEF Ending
  <2> HIDE DEF entry, Goal
  <2> QED BY <1>3, <2>1
<1>6. ASSUME NEW v \in Worker, Ask(v) PROVE Goal
  <2>1. CASE v = w
    BY <1>6, <2>1
  <2>2. CASE v # w
    <3>1. worker'[w] = worker[w]
      BY <1>1, <1>6, <2>2 DEF Ask, Now, GivesUp, Ending, Activities
    <3> QED BY <3>1
  <2> QED BY <2>1, <2>2
<1>7. ASSUME NEW v \in Worker, NEW u \in User, NEW scope, Claim(v, u, scope) PROVE Goal
  <2>1. CASE ClaimNothing(v, u, scope) \/ ClaimDeferred(v, u, scope)
    BY <1>2, <2>1 DEF ClaimNothing, ClaimDeferred
  <2>2. CASE ClaimJob(v, u, scope)
    <3>1. PICK e : worker' = [worker EXCEPT ![v] = [step |-> "claimed", event |-> e,
                                                     attempt |-> job[e].attempts + 1]]
      BY <2>2 DEF ClaimJob
    <3> DEFINE entry == [step |-> "claimed", event |-> e, attempt |-> job[e].attempts + 1]
    <3>2. worker' = [worker EXCEPT ![v] = entry] /\ entry.step \notin {"asked once", "asked twice"}
      BY <3>1
    <3> HIDE DEF entry, Goal
    <3> QED BY <1>3, <3>2
  <2> QED BY <1>7, <2>1, <2>2 DEF Claim
<1> HIDE DEF Goal
<1>8. ASSUME NEW v \in Worker, Abandon(v) \/ Crash(v) \/ Restart(v) \/ Poll(v) \/ Settle(v)
      PROVE  Goal
  <2>1. Idle.step \notin {"asked once", "asked twice"} /\ Down.step \notin {"asked once", "asked twice"}
    BY DEF Idle, Down
  <2> QED BY <1>2, <1>3, <1>8, <2>1 DEF Abandon, Crash, Restart, Poll, Settle
<1>9. ASSUME NEW v \in Worker, Draft(v) PROVE Goal
  BY <1>4, <1>5, <1>9 DEF Draft
<1>10. ASSUME NEW v \in Worker, NEW outcome, GivesUp(v, outcome) PROVE Goal
  BY <1>5, <1>10 DEF GivesUp
<1>11. ASSUME NEW v \in Worker,
              GiveUp(v) \/ Drop(v) \/ DropFails(v) \/ Publish(v) \/ Promote(v)
       PROVE  Goal
  <2>1. CASE GiveUp(v)
    BY <1>10, <2>1 DEF GiveUp
  <2>2. CASE Drop(v) \/ DropFails(v) \/ Publish(v)
    <3>1. \E outcome : Ending(v, "decided", outcome)
      BY <2>2 DEF Drop, DropFails, Publish
    <3> QED BY <1>5, <3>1
  <2>3. CASE Promote(v)
    <3>1. Ending(v, "decided", "published") \/ GivesUp(v, "retry")
      BY <2>3 DEF Promote
    <3> QED BY <1>5, <1>10, <3>1
  <2> QED BY <1>11, <2>1, <2>2, <2>3
<1>12. ASSUME NEW v \in Worker, Conclude(v) \/ ConcludeFails(v) PROVE Goal
  BY <1>4, <1>5, <1>12 DEF Conclude, ConcludeFails
<1>13. ASSUME NEW v \in Worker, Proceed(v) PROVE Goal
  BY <1>6, <1>8, <1>9, <1>11, <1>12, <1>13 DEF Proceed
<1>14. ASSUME \/ \E e \in Event : Enqueue(e) \/ GrowOld(e) \/ Close(e)
              \/ \E u \in User : DirectRefused(u) \/ DirectDecided(u)
              \/ Tick
              \/ UNCHANGED vars
       PROVE  Goal
  BY <1>2, <1>14 DEF Enqueue, GrowOld, Close, DirectRefused, DirectDecided, Tick, vars
<1>15. Goal
  BY <1>7, <1>8, <1>13, <1>14 DEF Next
<1> QED BY <1>15 DEF Goal

\* What becomes visible is the work of a worker that asked for it: once for a
\* discovery, twice for a warning of the rules.
LEMMA OnlyAskersPublish ==
    ASSUME TypeOK, [Next]_vars
    PROVE  \/ published' = published
           \/ \E w \in Worker :
                 /\ published' = published \cup {<<worker[w].event, worker[w].attempt>>}
                 /\ HasAsked(w)
                 /\ worker[w].event \in Refine => worker[w].step = "asked twice"
<1> DEFINE Goal == \/ published' = published
                   \/ \E w \in Worker :
                         /\ published' = published \cup {<<worker[w].event, worker[w].attempt>>}
                         /\ HasAsked(w)
                         /\ worker[w].event \in Refine => worker[w].step = "asked twice"
<1>1. ASSUME NEW w \in Worker, Publish(w) PROVE Goal
  <2>1. At(w, {"asked once", "asked twice"}) /\ worker[w].event \notin Refine
    BY <1>1 DEF Publish
  <2>2. \/ published' = published
        \/ published' = published \cup {<<worker[w].event, worker[w].attempt>>}
    BY <1>1 DEF Publish
  <2> QED BY <2>1, <2>2 DEF At, HasAsked
<1>2. ASSUME NEW w \in Worker, Promote(w) PROVE Goal
  <2>1. At(w, {"asked twice"})
    BY <1>2 DEF Promote
  <2>2. \/ published' = published
        \/ published' = published \cup {<<worker[w].event, worker[w].attempt>>}
    BY <1>2 DEF Promote, Promotable
  <2> QED BY <2>1, <2>2 DEF At, HasAsked
<1>3. ASSUME published' = published PROVE Goal
  BY <1>3
<1> HIDE DEF Goal
<1>4. ASSUME NEW w \in Worker, Proceed(w) PROVE Goal
  BY <1>1, <1>2, <1>3, <1>4 DEF Proceed, Draft, Ask, GiveUp, Drop, DropFails, Conclude,
     ConcludeFails, Settle
<1>5. ASSUME NEW w \in Worker, NEW u \in User, NEW scope, Claim(w, u, scope) PROVE Goal
  BY <1>3, <1>5 DEF Claim, ClaimNothing, ClaimDeferred, ClaimJob
<1>6. ASSUME NEW w \in Worker, Abandon(w) \/ Crash(w) \/ Restart(w) \/ Poll(w) PROVE Goal
  BY <1>3, <1>6 DEF Abandon, Crash, Restart, Poll
<1>7. ASSUME \/ \E e \in Event : Enqueue(e) \/ GrowOld(e) \/ Close(e)
             \/ \E u \in User : DirectRefused(u) \/ DirectDecided(u)
             \/ Tick
             \/ UNCHANGED vars
      PROVE  Goal
  BY <1>3, <1>7 DEF Enqueue, GrowOld, Close, DirectRefused, DirectDecided, Tick, vars
<1>8. Goal
  BY <1>4, <1>5, <1>6, <1>7 DEF Next
<1> QED BY <1>8 DEF Goal

-----------------------------------------------------------------------------
(* Nothing unreviewed is visible.                                          *)

\* What was published belongs to an attempt that was taken, so that no claim
\* resets its calls.
PublishedWereTaken ==
    \A e \in Event, a \in Attempt : <<e, a>> \in published => a <= job[e].attempts

\* What a worker at this step has been charged.
Owed(step) == IF step = "asked twice" THEN Calls ELSE 1

\* A worker that asked has paid, however its lease fares.
AskersHavePaid ==
    \A w \in Worker :
        HasAsked(w) =>
            reservation[worker[w].event][worker[w].attempt].calls >= Owed(worker[w].step)

PaidInv ==
    /\ PublishedWereTaken
    /\ AskersHavePaid
    /\ NothingUnreviewedIsVisible

\* Every step keeps that.
LEMMA StepKeepsPaid ==
    ASSUME TypeOK, TypeOK', SpendInv, DecidedRowsAreClear, PaidInv, [Next]_vars
    PROVE  PaidInv'
<1>1. /\ reservation \in Reservations /\ reservation' \in Reservations
      /\ worker \in Activities /\ worker' \in Activities
      /\ job \in Jobs
  BY DEF TypeOK, Reservations, Activities, Jobs
<1>2. ASSUME NEW e \in Event, NEW a \in Attempt
      PROVE  /\ a \in Nat
             /\ job[e].attempts \in Nat
             /\ job'[e].attempts \in Nat
             /\ reservation[e][a].calls \in Nat
             /\ reservation'[e][a].calls \in Nat
  <2>1. MaxAttempts \in Nat
    BY BoundAssumption
  <2>2. job'[e] \in Job /\ job[e] \in Job
    BY DEF TypeOK
  <2>3. job'[e].attempts \in 0..MaxAttempts /\ job[e].attempts \in 0..MaxAttempts
    BY <2>2 DEF Job
  <2>4. reservation[e][a] \in Reservation /\ reservation'[e][a] \in Reservation
    BY <1>1 DEF Reservations
  <2>5. reservation[e][a].calls \in Nat /\ reservation'[e][a].calls \in Nat
    BY <2>4 DEF Reservation, Calls
  <2>6. a \in Nat
    BY <2>1 DEF Attempt
  <2> QED BY <2>1, <2>3, <2>5, <2>6
<1>3. \A e \in Event : job'[e].attempts >= job[e].attempts
  BY StepHonours
<1>4. ASSUME NEW w \in Worker, HasAsked(w)
      PROVE  /\ worker[w].event \in Event
             /\ worker[w].attempt \in Attempt
             /\ worker[w].attempt <= job[worker[w].event].attempts
  <2>1. Engaged(w)
    BY <1>4 DEF Engaged, HasAsked
  <2> QED BY <1>1, <2>1, BusyFields DEF Engaged, SpendInv, AttemptsWereTaken
<1>5. PublishedWereTaken'
  <2> SUFFICES ASSUME NEW e \in Event, NEW a \in Attempt, <<e, a>> \in published'
               PROVE  a <= job'[e].attempts
    BY DEF PublishedWereTaken
  <2>1. a <= job[e].attempts
    <3>1. CASE <<e, a>> \in published
      BY <3>1 DEF PaidInv, PublishedWereTaken
    <3>2. CASE <<e, a>> \notin published
      <4>1. PICK w \in Worker :
               /\ published' = published \cup {<<worker[w].event, worker[w].attempt>>}
               /\ HasAsked(w)
        BY <3>2, OnlyAskersPublish
      <4>2. e = worker[w].event /\ a = worker[w].attempt
        BY <3>2, <4>1
      <4> QED BY <1>4, <4>1, <4>2
    <3> QED BY <3>1, <3>2
  <2> QED BY <1>2, <1>3, <2>1
<1>6. AskersHavePaid'
  <2> SUFFICES ASSUME NEW w \in Worker, HasAsked(w)'
               PROVE  reservation'[worker'[w].event][worker'[w].attempt].calls >=
                         Owed(worker'[w].step)
    BY DEF AskersHavePaid
  <2>1. CASE worker'[w] = worker[w]
    <3> DEFINE e == worker[w].event
               a == worker[w].attempt
    <3>1. e \in Event /\ a \in Attempt /\ a <= job[e].attempts
      BY <1>4, <2>1 DEF HasAsked
    <3>2. reservation'[e][a].calls >= reservation[e][a].calls
      BY <3>1, CallsAreNotForgotten
    <3>3. reservation[e][a].calls >= Owed(worker[w].step)
      BY <2>1 DEF PaidInv, AskersHavePaid, HasAsked
    <3>4. reservation[e][a].calls \in Nat /\ reservation'[e][a].calls \in Nat
      BY <1>2, <3>1
    <3>5. Owed(worker[w].step) \in Nat
      BY DEF Owed, Calls
    <3> DEFINE before == reservation[e][a].calls
               after == reservation'[e][a].calls
               owed == Owed(worker[w].step)
    <3>6. after >= owed
      <4> HIDE DEF before, after, owed
      <4>1. /\ before \in Nat /\ after \in Nat /\ owed \in Nat
            /\ after >= before /\ before >= owed
        BY <3>2, <3>3, <3>4, <3>5 DEF before, after, owed
      <4> QED BY <4>1
    <3> QED BY <2>1, <3>6
  <2>2. CASE Ask(w)
    <3> DEFINE e == worker[w].event
               a == worker[w].attempt
    <3>1. Engaged(w) /\ e \in Event /\ a \in Attempt
      <4>1. Engaged(w)
        BY <2>2 DEF Ask, At, Engaged
      <4> QED BY <1>1, <4>1, BusyFields DEF Engaged
    <3>2. reservation[e][a] \in Reservation /\ reservation[e][a].calls \in Nat
      BY <1>1, <1>2, <3>1 DEF Reservations
    <3>3. /\ reservation[e][a].state = "open" /\ reservation[e][a].calls < Calls
          /\ reservation' = [reservation EXCEPT ![e][a].calls = @ + 1]
          /\ Now(w, IF At(w, {"asked once"}) THEN "asked twice" ELSE "asked once")
      <4>1. ASSUME GivesUp(w, "retry") PROVE FALSE
        <5>1. worker'[w].step \in {"dropping", "decided"}
          BY <1>1, <4>1 DEF GivesUp, Ending, Activities
        <5> QED BY <5>1 DEF HasAsked
      <4> QED BY <2>2, <4>1 DEF Ask
    <3>4. reservation'[e][a].calls = reservation[e][a].calls + 1
      <4>1. [reservation[e][a] EXCEPT !.calls = @ + 1].calls = reservation[e][a].calls + 1
        BY <3>2 DEF Reservation
      <4>2. reservation' = [reservation EXCEPT ![e] = [reservation[e] EXCEPT ![a] =
                               [reservation[e][a] EXCEPT !.calls = @ + 1]]]
        BY <3>3
      <4> QED BY <1>1, <3>1, <4>1, <4>2 DEF Reservations
    <3>5. /\ worker'[w].event = e
          /\ worker'[w].attempt = a
          /\ worker'[w].step = IF worker[w].step = "asked once" THEN "asked twice" ELSE "asked once"
      BY <1>1, <3>3 DEF Now, At, Activities
    <3>6. CASE worker[w].step = "asked once"
      <4>1. reservation[e][a].calls >= 1
        BY <3>6 DEF PaidInv, AskersHavePaid, Owed, HasAsked
      <4>2. Owed(worker'[w].step) = 2
        BY <3>5, <3>6 DEF Owed, Calls
      <4>3. reservation'[e][a].calls >= 2
        BY <3>2, <3>4, <4>1
      <4> QED BY <3>5, <4>2, <4>3
    <3>7. CASE worker[w].step # "asked once"
      <4>1. Owed(worker'[w].step) = 1
        BY <3>5, <3>7 DEF Owed
      <4>2. reservation'[e][a].calls >= 1
        BY <3>2, <3>4
      <4> QED BY <3>5, <4>1, <4>2
    <3> QED BY <3>6, <3>7
  <2> QED BY <2>1, <2>2, OnlyAskersHaveAsked
<1>7. NothingUnreviewedIsVisible'
  <2> SUFFICES ASSUME NEW e \in Event, NEW a \in Attempt, <<e, a>> \in published'
               PROVE  reservation'[e][a].calls >= IF e \in Refine THEN Calls ELSE 1
    BY DEF NothingUnreviewedIsVisible
  <2> DEFINE Price == IF e \in Refine THEN Calls ELSE 1
  <2>0. Price \in Nat
    BY DEF Calls
  <2>1. /\ a <= job[e].attempts
        /\ reservation[e][a].calls >= Price
    <3>1. CASE <<e, a>> \in published
      BY <3>1 DEF PaidInv, PublishedWereTaken, NothingUnreviewedIsVisible
    <3>2. CASE <<e, a>> \notin published
      <4>1. PICK w \in Worker :
               /\ published' = published \cup {<<worker[w].event, worker[w].attempt>>}
               /\ HasAsked(w)
               /\ worker[w].event \in Refine => worker[w].step = "asked twice"
        BY <3>2, OnlyAskersPublish
      <4>2. e = worker[w].event /\ a = worker[w].attempt
        BY <3>2, <4>1
      <4>3. reservation[e][a].calls >= Owed(worker[w].step)
        BY <4>1, <4>2 DEF PaidInv, AskersHavePaid
      <4>4. a <= job[e].attempts
        BY <1>4, <4>1, <4>2
      <4>5. reservation[e][a].calls \in Nat
        BY <1>2
      <4>6. CASE e \in Refine
        <5>1. worker[w].step = "asked twice"
          BY <4>1, <4>2, <4>6
        <5>2. Owed(worker[w].step) = 2 /\ Price = 2
          BY <4>6, <5>1 DEF Owed, Calls
        <5> HIDE DEF Price
        <5>3. reservation[e][a].calls >= Price
          BY <4>3, <5>2
        <5> QED BY <4>4, <5>3
      <4>7. CASE e \notin Refine
        <5>1. Price = 1
          BY <4>7
        <5>2. Owed(worker[w].step) = 1 \/ Owed(worker[w].step) = 2
          BY DEF Owed, Calls
        <5> HIDE DEF Price
        <5>3. reservation[e][a].calls >= 1
          BY <4>3, <4>5, <5>2
        <5>4. reservation[e][a].calls >= Price
          BY <5>1, <5>3
        <5> QED BY <4>4, <5>4
      <4> QED BY <4>6, <4>7
    <3> QED BY <3>1, <3>2
  <2>2. reservation'[e][a].calls >= reservation[e][a].calls
    BY <2>1, CallsAreNotForgotten
  <2>3. reservation[e][a].calls \in Nat /\ reservation'[e][a].calls \in Nat
    BY <1>2
  <2> HIDE DEF Price
  <2>4. reservation'[e][a].calls >= Price
    BY <2>0, <2>1, <2>2, <2>3
  <2> QED BY <2>4 DEF Price
<1> QED BY <1>5, <1>6, <1>7 DEF PaidInv

\* What an attempt published it paid for, a warning of the rules with both
\* calls: no draft becomes visible on the review of another attempt, however
\* many workers lost their lease and went on.
THEOREM OnlyReviewedIsVisible == Spec => []NothingUnreviewedIsVisible
<1>1. Init => PaidInv
  <2> SUFFICES ASSUME Init PROVE PaidInv
    OBVIOUS
  <2>1. PublishedWereTaken /\ NothingUnreviewedIsVisible
    BY DEF Init, PublishedWereTaken, NothingUnreviewedIsVisible
  <2>2. AskersHavePaid
    BY DEF Init, Idle, AskersHavePaid, HasAsked
  <2> QED BY <2>1, <2>2 DEF PaidInv
<1>2. TypeOK /\ TypeOK' /\ SpendInv /\ DecidedRowsAreClear /\ PaidInv /\ [Next]_vars => PaidInv'
  BY StepKeepsPaid
<1>3. PaidInv => NothingUnreviewedIsVisible
  BY DEF PaidInv
<1> QED
  BY <1>1, <1>2, <1>3, TypeCorrect, SpendingIsHeld, DecidedRowsStayClear, PTL DEF Spec

-----------------------------------------------------------------------------
(* What is reported as published is visible.                               *)

\* The event and attempt of a worker that is about to report a publication.
Claims(w) ==
    /\ worker[w].step \in {"dropping", "decided"}
    /\ worker[w].outcome = "published"

ReportersPublished ==
    \A w \in Worker : Claims(w) => <<worker[w].event, worker[w].attempt>> \in published

TruthInv ==
    /\ ReportersPublished
    /\ PublishedTruthfully

\* A transaction that decides nothing reports nothing new.
Silent(j, k) ==
    \A e \in Event : k[e].reason = "published" => j[e].reason = "published"

\* The reasons that the transactions give, and those they keep.
LEMMA ReasonFields ==
    ASSUME NEW row \in Job, NEW status, NEW reason, NEW delay
    PROVE  /\ Ended(row, status, reason).reason = reason
           /\ Again(row, delay).reason = "none"
           /\ Started(row).reason = "none"
BY DEF Ended, Again, Started, Job

\* The tables are silent.
LEMMA TablesAreSilent ==
    ASSUME NEW j \in Jobs, NEW users
    PROVE  Silent(j, Reclaimed(j)) /\ Silent(j, Retired(j, users))
<1> SUFFICES ASSUME NEW e \in Event
             PROVE  /\ Reclaimed(j)[e].reason = "published" => j[e].reason = "published"
                    /\ Retired(j, users)[e].reason = "published" => j[e].reason = "published"
  BY DEF Silent
<1>1. j[e] \in Job
  BY DEF Jobs
<1>2. /\ Ended(j[e], "no_intervention", "none").reason = "none"
      /\ Again(j[e], 0).reason = "none"
  BY <1>1, ReasonFields
<1> QED BY <1>2 DEF Reclaimed, Retired

\* So is what a claim makes of its tenant's jobs, and of all of them.
LEMMA ClaimIsSilent ==
    ASSUME job \in Jobs, reservation \in Reservations, NEW u
    PROVE  Silent(job, ClaimJobs(u)) /\ Silent(job, BudgetJobs(u))
<1>1. Silent(job, Recovered(u))
  <2> SUFFICES ASSUME NEW e \in Event
               PROVE  Recovered(u)[e].reason = "published" => job[e].reason = "published"
    BY DEF Silent
  <2>1. job[e] \in Job
    BY DEF Jobs
  <2>2. /\ Ended(job[e], "no_intervention", "none").reason = "none"
        /\ Again(job[e], 0).reason = "none"
    BY <2>1, ReasonFields
  <2> QED BY <2>2 DEF Recovered
<1>2. Silent(Recovered(u), ClaimJobs(u))
  BY RecoveredType, TablesAreSilent DEF ClaimJobs
<1>3. Silent(ClaimJobs(u), BudgetJobs(u))
  BY ClaimTypes, TablesAreSilent DEF BudgetJobs
<1> QED BY <1>1, <1>2, <1>3 DEF Silent

\* A step that reports a publication is the conclusion of a worker that holds
\* the job and claims it.
LEMMA OnlyHoldersReport ==
    ASSUME TypeOK, [Next]_vars, NEW e \in Event, job'[e].reason = "published"
    PROVE  \/ job[e].reason = "published" /\ job'[e].attempts = job[e].attempts
           \/ \E w \in Worker :
                 /\ Claims(w)
                 /\ worker[w].event = e
                 /\ worker[w].attempt = job[e].attempts
                 /\ job'[e].attempts = job[e].attempts
<1>1. job \in Jobs /\ reservation \in Reservations /\ worker \in Activities
  BY DEF TypeOK, Jobs, Reservations, Activities
<1>2. job[e] \in Job
  BY <1>1 DEF Jobs
<1> DEFINE Goal == \/ job[e].reason = "published" /\ job'[e].attempts = job[e].attempts
                   \/ \E w \in Worker :
                         /\ Claims(w)
                         /\ worker[w].event = e
                         /\ worker[w].attempt = job[e].attempts
                         /\ job'[e].attempts = job[e].attempts
<1>3. ASSUME Silent(job, job'), Moved(job, job') PROVE Goal
  BY <1>3 DEF Silent, Moved
<1>4. ASSUME job' = job PROVE Goal
  BY <1>4
<1>5. ASSUME NEW w \in Worker, Conclude(w) PROVE Goal
  <2> DEFINE f == worker[w].event
             a == worker[w].attempt
  <2>1. /\ f \in Event
        /\ worker[w].step = "decided"
        /\ worker[w].outcome \in Outcome
    BY <1>1, <1>5, BusyFields DEF Conclude, At
  <2>2. CASE Holds(f, a) /\ f = e
    <3>1. job' = [job EXCEPT ![e] = Concluded(job[e], worker[w].outcome)]
      BY <1>5, <2>2 DEF Conclude
    <3>2. job'[e] = Concluded(job[e], worker[w].outcome)
      BY <1>1, <3>1 DEF Jobs
    <3>3. job'[e].attempts = job[e].attempts
      BY <1>2, <3>2, RowFields DEF Concluded
    <3>4. worker[w].outcome = "published"
      <4>1. /\ \A r \in Reason : Ended(job[e], "published", r).reason = r
            /\ Ended(job[e], "no_intervention", "none").reason = "none"
            /\ Again(job[e], RetryDelay).reason = "none"
        BY <1>2, ReasonFields
      <4>2. CASE worker[w].outcome \in {"published", "merged"}
        <5>1. job'[e].reason = worker[w].outcome
          BY <3>2, <4>1, <4>2 DEF Concluded, Reason
        <5> QED BY <5>1
      <4>3. CASE worker[w].outcome \notin {"published", "merged"}
        BY <3>2, <4>1, <4>3 DEF Concluded
      <4> QED BY <4>2, <4>3
    <3> QED BY <2>1, <2>2, <3>3, <3>4 DEF Claims, Holds
  <2>3. CASE ~(Holds(f, a) /\ f = e)
    <3>1. job'[e] = job[e]
      BY <1>1, <1>5, <2>1, <2>3 DEF Conclude, Jobs
    <3> QED BY <3>1
  <2> QED BY <2>2, <2>3
<1> HIDE DEF Goal
<1>6. ASSUME NEW w \in Worker, NEW u \in User, NEW scope, Claim(w, u, scope) PROVE Goal
  <2>1. /\ Silent(job, ClaimJobs(u)) /\ Silent(job, BudgetJobs(u))
        /\ Moved(job, ClaimJobs(u)) /\ Moved(job, BudgetJobs(u))
        /\ BudgetJobs(u) \in Jobs
    BY <1>1, ClaimIsSilent, ClaimMoves, ClaimTypes
  <2>2. CASE ClaimNothing(w, u, scope)
    BY <1>3, <2>1, <2>2 DEF ClaimNothing
  <2>3. CASE ClaimDeferred(w, u, scope)
    <3>1. PICK delay \in 1..Window, reason \in {"user budget", "global budget"} :
             job' = Deferred(u, scope, delay, reason)
      BY <2>3 DEF ClaimDeferred, DeferUntil
    <3>2. ASSUME NEW f \in Event
          PROVE  /\ job'[f].reason = "published" => BudgetJobs(u)[f].reason = "published"
                 /\ job'[f].attempts = BudgetJobs(u)[f].attempts
                 /\ job'[f].status = BudgetJobs(u)[f].status
      <4>1. BudgetJobs(u)[f] \in Job
        BY <2>1 DEF Jobs
      <4>2. \/ job'[f] = BudgetJobs(u)[f]
            \/ job'[f] = [BudgetJobs(u)[f] EXCEPT !.wait = delay, !.reason = reason]
        BY <3>1 DEF Deferred
      <4>3. [BudgetJobs(u)[f] EXCEPT !.wait = delay, !.reason = reason].reason # "published"
        BY <4>1 DEF Job
      <4> QED BY <4>1, <4>2, <4>3 DEF Job
    <3>3. Silent(job, job') /\ Moved(job, job')
      BY <2>1, <3>2 DEF Silent, Moved
    <3> QED BY <1>3, <3>3
  <2>4. CASE ClaimJob(w, u, scope)
    <3>1. PICK f \in Due(u, scope) : job' = [BudgetJobs(u) EXCEPT ![f] = Started(@)]
      BY <2>4 DEF ClaimJob
    <3>2. CASE f = e
      <4>1. job'[e] = Started(BudgetJobs(u)[e])
        BY <2>1, <3>1, <3>2 DEF Jobs
      <4>2. Started(BudgetJobs(u)[e]).reason = "none"
        BY <2>1, ReasonFields DEF Jobs, Reason
      <4> QED BY <4>1, <4>2
    <3>3. CASE f # e
      <4>1. job'[e] = BudgetJobs(u)[e]
        BY <2>1, <3>1, <3>3 DEF Jobs
      <4> QED BY <2>1, <4>1 DEF Silent, Moved, Goal
    <3> QED BY <3>2, <3>3
  <2> QED BY <1>6, <2>2, <2>3, <2>4 DEF Claim
\* Waits that end, jobs as they age.
<1>7. ASSUME NEW delay, \/ job'[e] = job[e]
                        \/ job'[e] = [job[e] EXCEPT !.wait = delay]
      PROVE  Goal
  <2>1. job'[e].reason = job[e].reason /\ job'[e].attempts = job[e].attempts
    <3>1. /\ [job[e] EXCEPT !.wait = delay].reason = job[e].reason
          /\ [job[e] EXCEPT !.wait = delay].attempts = job[e].attempts
      BY <1>2 DEF Job
    <3> QED BY <1>7, <3>1
  <2> QED BY <2>1 DEF Goal
<1>8. ASSUME NEW w \in Worker, Settle(w) PROVE Goal
  <2> DEFINE entry == reservation[worker[w].event][worker[w].attempt]
  <2>1. job' = job \/ \E chosen : job' = Woken(Owner[worker[w].event], chosen)
    <3>1. CASE entry.state = "open" /\ entry.calls < Calls
      <4>1. \E chosen \in SUBSET {g \in Event : Asleep(job, g, "global budget")} :
               job' = Woken(Owner[worker[w].event], chosen)
        BY <1>8, <3>1 DEF Settle
      <4> QED BY <4>1
    <3>2. CASE ~(entry.state = "open" /\ entry.calls < Calls)
      BY <1>8, <3>2 DEF Settle
    <3> QED BY <3>1, <3>2
  <2>2. job'[e] = job[e] \/ job'[e] = [job[e] EXCEPT !.wait = 0]
    BY <2>1 DEF Woken
  <2> QED BY <1>7, <2>2
<1>9. ASSUME NEW w \in Worker, Restart(w) PROVE Goal
  <2>1. job'[e] = job[e] \/ job'[e] = [job[e] EXCEPT !.wait = 0]
    BY <1>9 DEF Restart
  <2> QED BY <1>7, <2>1
<1>10. ASSUME NEW w \in Worker, Proceed(w) PROVE Goal
  BY <1>4, <1>5, <1>8, <1>10 DEF Proceed, Draft, Ask, GiveUp, Drop, DropFails, Publish,
     Promote, ConcludeFails
<1>11. ASSUME NEW w \in Worker, Poll(w) PROVE Goal
  BY <1>1, <1>3, <1>11, TablesAreSilent, TablesMove DEF Poll
<1>12. ASSUME NEW f \in Event, Enqueue(f) PROVE Goal
  <2>1. CASE f = e
    <3>1. job'[e] = NewJob("pending")
      BY <1>1, <1>12, <2>1 DEF Enqueue, Jobs
    <3> QED BY <3>1 DEF NewJob
  <2>2. CASE f # e
    <3>1. job'[e] = job[e]
      BY <1>1, <1>12, <2>2 DEF Enqueue, Jobs
    <3> QED BY <1>7, <3>1
  <2> QED BY <2>1, <2>2
<1>13. ASSUME NEW u \in User, DirectDecided(u) PROVE Goal
  BY <1>1, <1>3, <1>13, TablesAreSilent, TablesMove DEF DirectDecided
<1>14. ASSUME Tick PROVE Goal
  <2>1. job'[e] = [job[e] EXCEPT !.wait = IF @ > 0 THEN @ - 1 ELSE 0,
                      !.age = IF job[e].status = "running" THEN Older(@, Lease) ELSE 0]
    BY <1>14 DEF Tick
  <2>2. job'[e].reason = job[e].reason /\ job'[e].attempts = job[e].attempts
    BY <1>2, <2>1 DEF Job
  <2> QED BY <2>2 DEF Goal
<1>15. ASSUME \/ \E w \in Worker : Abandon(w) \/ Crash(w)
              \/ \E f \in Event : GrowOld(f) \/ Close(f)
              \/ \E u \in User : DirectRefused(u)
              \/ UNCHANGED vars
       PROVE  Goal
  BY <1>4, <1>15 DEF Abandon, Crash, GrowOld, Close, DirectRefused, vars
<1>16. Goal
  BY <1>6, <1>9, <1>10, <1>11, <1>12, <1>13, <1>14, <1>15 DEF Next
<1> QED BY <1>16 DEF Goal

\* A worker that claims a publication claimed it before, or publishes now.
LEMMA OnlyPublishersClaim ==
    ASSUME TypeOK, [Next]_vars, NEW w \in Worker, Claims(w)'
    PROVE  /\ worker'[w].event = worker[w].event
           /\ worker'[w].attempt = worker[w].attempt
           /\ \/ Claims(w)
              \/ <<worker[w].event, worker[w].attempt>> \in published'
<1>1. worker \in Activities
  BY DEF TypeOK, Activities
<1> DEFINE Goal == /\ worker'[w].event = worker[w].event
                   /\ worker'[w].attempt = worker[w].attempt
                   /\ \/ Claims(w)
                      \/ <<worker[w].event, worker[w].attempt>> \in published'
<1>2. ASSUME worker'[w] = worker[w] PROVE Goal
  BY <1>2 DEF Claims
<1>3. ASSUME NEW v \in Worker, NEW entry, worker' = [worker EXCEPT ![v] = entry],
             entry.step \notin {"dropping", "decided"}
      PROVE  Goal
  <2>1. v # w
    BY <1>1, <1>3 DEF Activities, Claims
  <2> QED BY <1>1, <1>2, <1>3, <2>1 DEF Activities
<1>4. ASSUME NEW v \in Worker, NEW step, Now(v, step), step \notin {"dropping", "decided"}
      PROVE  Goal
  <2> DEFINE entry == [step |-> step, event |-> worker[v].event, attempt |-> worker[v].attempt]
  <2>1. worker' = [worker EXCEPT ![v] = entry] /\ entry.step \notin {"dropping", "decided"}
    BY <1>4 DEF Now
  <2> HIDE DEF entry, Goal
  <2> QED BY <1>3, <2>1
\* A worker that ends with another outcome, or with one it has a right to.
<1>5. ASSUME NEW v \in Worker, NEW step, NEW outcome, Ending(v, step, outcome),
             outcome = "published" =>
                \/ Claims(v)
                \/ <<worker[v].event, worker[v].attempt>> \in published'
      PROVE  Goal
  <2>1. CASE v = w
    <3>1. /\ worker'[w].event = worker[w].event
          /\ worker'[w].attempt = worker[w].attempt
          /\ worker'[w].outcome = outcome
      BY <1>1, <1>5, <2>1 DEF Ending, Activities
    <3>2. outcome = "published"
      BY <3>1 DEF Claims
    <3> QED BY <1>5, <2>1, <3>1, <3>2
  <2>2. CASE v # w
    BY <1>1, <1>2, <1>5, <2>2 DEF Ending, Activities
  <2> QED BY <2>1, <2>2
<1> HIDE DEF Goal
<1>6. ASSUME NEW v \in Worker, NEW outcome, GivesUp(v, outcome), outcome # "published"
      PROVE  Goal
  BY <1>5, <1>6 DEF GivesUp
<1>7. ASSUME worker' = worker PROVE Goal
  BY <1>2, <1>7
<1>8. ASSUME NEW v \in Worker, NEW u \in User, NEW scope, Claim(v, u, scope) PROVE Goal
  <2>1. CASE ClaimNothing(v, u, scope) \/ ClaimDeferred(v, u, scope)
    BY <1>7, <2>1 DEF ClaimNothing, ClaimDeferred
  <2>2. CASE ClaimJob(v, u, scope)
    <3>1. PICK e : worker' = [worker EXCEPT ![v] = [step |-> "claimed", event |-> e,
                                                     attempt |-> job[e].attempts + 1]]
      BY <2>2 DEF ClaimJob
    <3> DEFINE entry == [step |-> "claimed", event |-> e, attempt |-> job[e].attempts + 1]
    <3>2. worker' = [worker EXCEPT ![v] = entry] /\ entry.step \notin {"dropping", "decided"}
      BY <3>1
    <3> HIDE DEF entry
    <3> QED BY <1>3, <3>2
  <2> QED BY <1>8, <2>1, <2>2 DEF Claim
<1>9. ASSUME NEW v \in Worker, Abandon(v) \/ Crash(v) \/ Restart(v) \/ Poll(v) \/ Settle(v)
      PROVE  Goal
  <2>1. Idle.step \notin {"dropping", "decided"} /\ Down.step \notin {"dropping", "decided"}
    BY DEF Idle, Down
  <2> QED BY <1>3, <1>7, <1>9, <2>1 DEF Abandon, Crash, Restart, Poll, Settle
<1>10. ASSUME NEW v \in Worker, Draft(v) PROVE Goal
  BY <1>4, <1>5, <1>10 DEF Draft
<1>11. ASSUME NEW v \in Worker, Ask(v) PROVE Goal
  BY <1>4, <1>6, <1>11 DEF Ask
<1>12. ASSUME NEW v \in Worker, GiveUp(v) \/ DropFails(v) \/ ConcludeFails(v) \/ Conclude(v)
       PROVE  Goal
  <2>1. CASE GiveUp(v)
    BY <1>6, <2>1 DEF GiveUp
  <2>2. CASE DropFails(v)
    BY <1>5, <2>2 DEF DropFails
  <2>3. CASE ConcludeFails(v) \/ Conclude(v)
    BY <1>4, <1>5, <2>3 DEF ConcludeFails, Conclude
  <2> QED BY <1>12, <2>1, <2>2, <2>3
<1>13. ASSUME NEW v \in Worker, Drop(v) PROVE Goal
  <2>1. Ending(v, "decided", worker[v].outcome) /\ At(v, {"dropping"})
    BY <1>13 DEF Drop
  <2>2. worker[v].outcome = "published" => Claims(v)
    BY <2>1 DEF Claims, At
  <2> QED BY <1>5, <2>1, <2>2
<1>14. ASSUME NEW v \in Worker, Publish(v) PROVE Goal
  <2>1. \/ Ending(v, "decided", "merged")
        \/ /\ Ending(v, "decided", "published")
           /\ <<worker[v].event, worker[v].attempt>> \in published'
    BY <1>14 DEF Publish
  <2> QED BY <1>5, <2>1
<1>15. ASSUME NEW v \in Worker, Promote(v) PROVE Goal
  <2>1. \/ GivesUp(v, "retry")
        \/ /\ Ending(v, "decided", "published")
           /\ <<worker[v].event, worker[v].attempt>> \in published'
    BY <1>15 DEF Promote, Promotable
  <2> QED BY <1>5, <1>6, <2>1
<1>16. ASSUME NEW v \in Worker, Proceed(v) PROVE Goal
  BY <1>9, <1>10, <1>11, <1>12, <1>13, <1>14, <1>15, <1>16 DEF Proceed
<1>17. ASSUME \/ \E e \in Event : Enqueue(e) \/ GrowOld(e) \/ Close(e)
              \/ \E u \in User : DirectRefused(u) \/ DirectDecided(u)
              \/ Tick
              \/ UNCHANGED vars
       PROVE  Goal
  BY <1>7, <1>17 DEF Enqueue, GrowOld, Close, DirectRefused, DirectDecided, Tick, vars
<1>18. Goal
  BY <1>8, <1>9, <1>16, <1>17 DEF Next
<1> QED BY <1>18 DEF Goal

\* Every step keeps reports truthful: nothing is ever unpublished, and who
\* concludes a publication made it.
LEMMA StepKeepsTruth ==
    ASSUME TypeOK, TruthInv, [Next]_vars
    PROVE  TruthInv'
<1>1. published \subseteq published'
  BY OnlyAskersPublish
<1>2. ReportersPublished'
  <2> SUFFICES ASSUME NEW w \in Worker, Claims(w)'
               PROVE  <<worker'[w].event, worker'[w].attempt>> \in published'
    BY DEF ReportersPublished
  <2>1. /\ worker'[w].event = worker[w].event
        /\ worker'[w].attempt = worker[w].attempt
        /\ Claims(w) \/ <<worker[w].event, worker[w].attempt>> \in published'
    BY OnlyPublishersClaim
  <2> QED BY <1>1, <2>1 DEF TruthInv, ReportersPublished
<1>3. PublishedTruthfully'
  <2> SUFFICES ASSUME NEW e \in Event, job'[e].reason = "published"
               PROVE  <<e, job'[e].attempts>> \in published'
    BY DEF PublishedTruthfully
  <2>1. CASE job[e].reason = "published" /\ job'[e].attempts = job[e].attempts
    BY <1>1, <2>1 DEF TruthInv, PublishedTruthfully
  <2>2. CASE \E w \in Worker :
                /\ Claims(w)
                /\ worker[w].event = e
                /\ worker[w].attempt = job[e].attempts
                /\ job'[e].attempts = job[e].attempts
    BY <1>1, <2>2 DEF TruthInv, ReportersPublished
  <2> QED BY <2>1, <2>2, OnlyHoldersReport
<1> QED BY <1>2, <1>3 DEF TruthInv

\* A job that reports advice of its own made some visible in the attempt that
\* reports it, although a worker that was overtaken may report at any time.
THEOREM ReportsAreTrue == Spec => []PublishedTruthfully
<1>1. Init => TruthInv
  <2> SUFFICES ASSUME Init PROVE TruthInv
    OBVIOUS
  <2>1. PublishedTruthfully
    BY DEF Init, NewJob, PublishedTruthfully
  <2>2. ReportersPublished
    BY DEF Init, Idle, ReportersPublished, Claims
  <2> QED BY <2>1, <2>2 DEF TruthInv
<1>2. TypeOK /\ TruthInv /\ [Next]_vars => TruthInv'
  BY StepKeepsTruth
<1>3. TruthInv => PublishedTruthfully
  BY DEF TruthInv
<1> QED BY <1>1, <1>2, <1>3, TypeCorrect, PTL DEF Spec

=============================================================================
