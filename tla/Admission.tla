------------------------------ MODULE Admission ------------------------------
(* Who may use what costs: the rolling windows every request passes first   *)
(* (backend/app/abuse_controls.py, RollingWindowLimiter), and the durable   *)
(* admission of model requests (storage.py, admit_direct_model_request) and *)
(* of speech recognition (stt_admission.py), which have the same rules, up  *)
(* to the end of the work (main.py, analyze; local_stt.py).                 *)
(*                                                                          *)
(* A scenario looks at one kind of request, and at the limiter in its way.  *)
(* Leases that were released or outlived are left out, and so are hints     *)
(* when to come back.                                                       *)
(*                                                                          *)
(* A definition named Op_Variant is Op as a plausible slip would have       *)
(* written it; no specification uses it.                                    *)
EXTENDS Integers, Sequences, FiniteSets, Functions

CONSTANTS
    Call, User, Source,
    All,                   \* the key of the requests of everybody
    HitWindow, UserHits, SourceHits, AllHits, \* of the rolling windows
    MaxKeys, MaxHits, SweepTime,
    RateWindow, Requests,  \* of a user
    UserSlots,             \* work of a user at a time
    LeaseTime,
    BodyTime, WorkTime,    \* how long the upload and the recognition may take
    Margin,                \* between a look at the clock and the use made of it
    Scenarios                  \* scenarios: the kind of requests, how much of their work there may be
                               \* at a time, how long model work takes, and
                               \* bounds on time, on requests, on those cancelled, on crashes and
                               \* failed releases, and on deleted accounts

\* The lease outlives the upload and the recognition.
LeaseAssumption == LeaseTime > BodyTime + WorkTime + Margin

\* Keys of different kinds have different prefixes.
KeyAssumption ==
    /\ User \cap Source = {}
    /\ (User \X Source) \cap (User \cup Source) = {}
    /\ All \notin User \cup Source \cup (User \X Source)

\* A limit is at least one.
LimitAssumption ==
    /\ {UserHits, SourceHits, AllHits, Requests, UserSlots, HitWindow, RateWindow} \subseteq Nat \ {0}
    /\ {LeaseTime, BodyTime, WorkTime, Margin} \subseteq Nat
    /\ IsFiniteSet(Call)

KindAssumption ==
    Scenarios \subseteq [kind: {"password", "template", "speech", "model"}, slots: Nat, work: Nat, time: Nat,
                        arrivals: Nat, cancels: Nat, faults: Nat, deletes: Nat]

VARIABLES
    scenario, clock,
    entries,    \* expiry of the hits of a key, in the order they came
    swept,      \* when all keys were last looked through
    requests,   \* the requests that count
    leases,     \* leases not released
    retired,    \* deleted users
    call,       \* requests under way
    adrift,     \* recognitions that go on though their request was cancelled
    granted     \* history: the requests let through that still count, for each key they count for

admissionVars == <<scenario, clock, entries, swept, requests, leases, retired, call, adrift,
                    granted>>

NoCall == [step |-> "idle"]
NoLease == 0
Key == User \cup (User \X Source) \cup Source \cup {All}
NoHits == [k \in {} |-> <<>>]

HitsOf(e, k) == IF k \in DOMAIN e THEN e[k] ELSE <<>>

Without(e) == [k \in {j \in DOMAIN e : e[j] # <<>>} |-> e[k]]

AdmissionInit ==
    /\ scenario \in Scenarios
    /\ clock = 0 /\ swept = 0
    /\ entries = NoHits /\ granted = {}
    /\ requests = {}
    /\ leases = {}
    /\ retired = {}
    /\ call = [c \in Call |-> NoCall]
    /\ adrift = {}

Busy(c) == call[c].step # "idle"
End(c) == call' = [call EXCEPT ![c] = NoCall]
Go(c, step, time) == call' = [call EXCEPT ![c].step = step, ![c].until = clock + time]

-----------------------------------------------------------------------------
(* The rolling windows.                                                    *)

\* The keys of a request, and what each allows.
SlotLimits(u, s) ==
    IF scenario.kind = "password"
    THEN {[key |-> u, limit |-> UserHits], [key |-> <<u, s>>, limit |-> UserHits],
          [key |-> s, limit |-> SourceHits]}
    ELSE {[key |-> u, limit |-> UserHits], [key |-> All, limit |-> AllHits]}

\* What is left of the hits of a key when those at the front that ended are dropped.
RunOut(hits, t) ==
    LET dead == {n \in 1..Len(hits) : \A i \in 1..n : hits[i] <= t}
    IN  SubSeq(hits, Cardinality(dead) + 1, Len(hits))

AllSwept(e, keys, t) ==
    Without([k \in DOMAIN e |-> IF k \in keys THEN RunOut(e[k], t) ELSE e[k]])

Hits(e) == SumFunction([k \in DOMAIN e |-> Len(e[k])])

\* There is room for new keys and hits.
Fits(e, keys) ==
    /\ Cardinality((DOMAIN e) \cup keys) <= MaxKeys
    /\ Hits(e) + Cardinality(keys) <= MaxHits

\* A number no row has.
FreshOf(rows) == CHOOSE i \in 1..(Cardinality(rows) + 1) : \A r \in rows : r.id # i

\* The bound on requests.
HitsCounted == scenario.arrivals > 0 /\ scenario' = [scenario EXCEPT !.arrivals = @ - 1]

\* A hit is counted for all keys of a request or for none; t is what the clock said.
Hit(c, u, s, t) ==
    LET limits == SlotLimits(u, s)
        keys == {l.key : l \in limits}
        sweep == t - swept >= SweepTime
        seen == AllSwept(entries, IF sweep THEN DOMAIN entries ELSE keys, t)
        full == \E l \in limits : Len(HitsOf(seen, l.key)) >= l.limit
        forced == ~full /\ ~Fits(seen, keys)
        kept == IF forced THEN AllSwept(seen, DOMAIN seen, t) ELSE seen
        counted(e) == [k \in (DOMAIN e) \cup keys |->
                           IF k \in keys THEN Append(HitsOf(e, k), t + HitWindow) ELSE e[k]]
    IN  /\ swept' = IF sweep \/ forced THEN t ELSE swept
        /\ IF full \/ ~Fits(kept, keys)
           THEN entries' = kept /\ End(c) /\ UNCHANGED granted
           ELSE /\ entries' = counted(kept)
                /\ granted' = granted \cup [id: {FreshOf(granted)}, key: keys, until: {t + HitWindow}]
                /\ call' = [call EXCEPT ![c] = [step |-> "asking", user |-> u, source |-> s,
                                                at |-> clock, until |-> clock + Margin,
                                                lease |-> NoLease]]
        /\ UNCHANGED <<clock, requests, leases, retired, adrift>>

\* The middleware counts every authenticated request.
RequestArrives(c, u) ==
    /\ scenario.kind # "password"
    /\ ~Busy(c) /\ u \notin retired
    /\ HitsCounted
    /\ Hit(c, u, All, clock)

\* Where a password is to be verified, threads read the clock and then wait for the lock.
Enter(c, u, s) ==
    /\ scenario.kind = "password"
    /\ ~Busy(c)
    /\ HitsCounted
    /\ call' = [call EXCEPT ![c] = [step |-> "entering", user |-> u, source |-> s, at |-> clock,
                                   until |-> clock + Margin, lease |-> NoLease]]
    /\ UNCHANGED <<clock, entries, swept, requests, leases, retired, adrift, granted>>

Reserve(c) ==
    /\ call[c].step = "entering"
    /\ Hit(c, call[c].user, call[c].source, call[c].at)
    /\ UNCHANGED scenario

\* The password was right, or wrong.
Verify(c) ==
    /\ call[c].step = "asking" /\ scenario.kind = "password"
    /\ LET own == {call[c].user, <<call[c].user, call[c].source>>}
       IN  \/ /\ entries' = [k \in (DOMAIN entries) \ own |-> entries[k]]
              /\ granted' = {g \in granted : g.key \notin own}
           \/ UNCHANGED <<entries, granted>>
    /\ End(c)
    /\ UNCHANGED <<scenario, clock, swept, requests, leases, retired, adrift>>

-----------------------------------------------------------------------------
(* Admission.                                                              *)

\* The transaction looks through the tables as of the moment the request read the clock.
Current(t) == {r \in requests : r.at > t - RateWindow}

OfUser(u, rows) == {r \in rows : r.user = u}

LiveLeases_AsOfTheUpload(t) == {l \in leases : l.expires > t + BodyTime + Margin}

LiveLeases(t) == {l \in leases : l.expires > t}

Free(u, t) ==
    /\ Cardinality(OfUser(u, LiveLeases(t))) < UserSlots
    /\ Cardinality(LiveLeases(t)) < scenario.slots

NewId == CHOOSE i \in 1..(Cardinality(leases) + Cardinality(Call) + 1) :
            i \notin {l.id : l \in leases} \cup {call[c].lease : c \in {d \in Call : Busy(d)}}

\* A request that is refused for want of a slot counts all the same; one that was
\* cancelled meanwhile leaves its lease behind.
Admit(c) ==
    /\ call[c].step \in {"asking", "gone"} /\ scenario.kind # "password"
    /\ LET u == call[c].user
           t == call[c].at
           rows == Current(t)
           lease == [id |-> NewId, user |-> u, expires |-> t + LeaseTime]
           starts == call[c].step = "asking"
       IN  \/ u \in retired /\ End(c) /\ UNCHANGED <<requests, leases>>
           \/ /\ u \notin retired /\ Cardinality(OfUser(u, rows)) >= Requests
              /\ End(c) /\ requests' = rows /\ leases' = LiveLeases(t)
           \/ /\ u \notin retired /\ Cardinality(OfUser(u, rows)) < Requests
              /\ requests' = rows \cup {[id |-> FreshOf(requests), user |-> u, at |-> t]}
              /\ \/ /\ scenario.kind = "template"
                    /\ End(c) /\ leases' = LiveLeases(t)
                 \/ /\ scenario.kind # "template" /\ ~Free(u, t)
                    /\ End(c) /\ leases' = LiveLeases(t)
                 \/ /\ scenario.kind # "template" /\ Free(u, t)
                    /\ leases' = LiveLeases(t) \cup {lease}
                    /\ call' = [call EXCEPT ![c] =
                          IF ~starts THEN NoCall
                          ELSE [@ EXCEPT !.lease = lease.id,
                                         !.step = IF scenario.kind = "speech" THEN "reading" ELSE "working",
                                         !.until = clock + IF scenario.kind = "speech"
                                                           THEN BodyTime ELSE scenario.work]]
    /\ UNCHANGED <<scenario, clock, entries, swept, retired, adrift, granted>>

-----------------------------------------------------------------------------
(* The work.                                                               *)

\* One recognition at a time; the upload may fail, or hold no speech.
Recognise(c) ==
    /\ call[c].step = "reading"
    /\ \/ Go(c, "releasing", Margin)
       \/ ~(\E d \in Call : call[d].step = "working") /\ Go(c, "working", WorkTime)
    /\ UNCHANGED <<scenario, clock, entries, swept, requests, leases, retired, adrift, granted>>

Finish(c) ==
    /\ call[c].step = "working"
    /\ Go(c, "releasing", Margin)
    /\ UNCHANGED <<scenario, clock, entries, swept, requests, leases, retired, adrift, granted>>

\* The client goes away.  A thread that recognises speech for it goes on, and the next
\* recognition may begin; a call to the model ends.
Cancel(c) ==
    /\ scenario.cancels > 0
    /\ scenario' = [scenario EXCEPT !.cancels = @ - 1]
    /\ \/ /\ call[c].step = "asking" /\ scenario.kind = "speech"
          /\ call' = [call EXCEPT ![c].step = "gone"]
          /\ UNCHANGED adrift
       \/ /\ call[c].step \in {"reading", "working"}
          /\ Go(c, "releasing", Margin)
          /\ adrift' = IF call[c].step = "working" /\ scenario.kind = "speech"
                       THEN adrift \cup {[user |-> call[c].user, until |-> call[c].until,
                                          expires |-> call[c].at + LeaseTime]}
                       ELSE adrift
    /\ UNCHANGED <<clock, entries, swept, requests, leases, retired, granted>>

\* What it recognises nobody hears.
ThreadEnds(r) ==
    /\ adrift' = adrift \ {r}
    /\ UNCHANGED <<scenario, clock, entries, swept, requests, leases, retired, call, granted>>

\* A lease that was outlived is not released again.
Release(c) ==
    /\ call[c].step = "releasing"
    /\ leases' = {l \in leases : l.id # call[c].lease}
    /\ End(c)
    /\ UNCHANGED <<scenario, clock, entries, swept, requests, retired, adrift, granted>>

Fault == scenario.faults > 0 /\ scenario' = [scenario EXCEPT !.faults = @ - 1]

ReleaseFails(c) ==
    /\ call[c].step = "releasing"
    /\ Fault /\ End(c)
    /\ UNCHANGED <<clock, entries, swept, requests, leases, retired, adrift, granted>>

\* The windows are in memory, the admission is not.
Crash ==
    /\ Fault
    /\ call' = [c \in Call |-> NoCall] /\ adrift' = {}
    /\ entries' = NoHits /\ granted' = {} /\ swept' = 0
    /\ UNCHANGED <<clock, requests, leases, retired>>

\* With an account go its rows, and what it occupied, though its work may go on.
DeleteUser(u) ==
    /\ scenario.deletes > 0 /\ u \notin retired
    /\ scenario' = [scenario EXCEPT !.deletes = @ - 1]
    /\ retired' = retired \cup {u}
    /\ requests' = requests \ OfUser(u, requests)
    /\ leases' = leases \ OfUser(u, leases)
    /\ UNCHANGED <<clock, entries, swept, call, adrift, granted>>

\* Time passes, but no time limit.
AdmissionTick ==
    /\ clock < scenario.time
    /\ \A c \in Call : Busy(c) => clock < call[c].until
    /\ \A r \in adrift : clock < r.until
    /\ clock' = clock + 1
    /\ granted' = {g \in granted : g.until > clock + 1}
    /\ UNCHANGED <<scenario, entries, swept, requests, leases, retired, call, adrift>>

AdmissionNext ==
    \/ \E c \in Call :
          \/ \E u \in User : RequestArrives(c, u)
          \/ \E u \in User, s \in Source : Enter(c, u, s)
          \/ Reserve(c) \/ Verify(c) \/ Admit(c)
          \/ Recognise(c) \/ Finish(c) \/ Cancel(c)
          \/ Release(c) \/ ReleaseFails(c)
    \/ \E r \in adrift : ThreadEnds(r)
    \/ \E u \in User : DeleteUser(u)
    \/ Crash
    \/ AdmissionTick

AdmissionSpec == AdmissionInit /\ [][AdmissionNext]_admissionVars

-----------------------------------------------------------------------------
(* Properties.                                                             *)

AdmissionTypeOK ==
    /\ \A l, m \in leases : l.id = m.id => l = m
    /\ \A u \in retired : OfUser(u, requests \cup leases) = {}
    /\ \A c, d \in Call : c # d /\ Busy(c) /\ Busy(d) /\ call[c].lease # NoLease =>
                             call[c].lease # call[d].lease

Allowed(k) == IF k = All THEN AllHits ELSE IF k \in Source THEN SourceHits ELSE UserHits

\* In no window are there more hits of a key than it allows; and a hit in a window is
\* that of a request let through, which counts for all its keys or for none.
WindowsHold ==
    \A k \in Key :
        LET counted == {g \in granted : g.key = k /\ g.until > clock}
            alive == {i \in DOMAIN HitsOf(entries, k) : HitsOf(entries, k)[i] > clock}
        IN  Cardinality(counted) <= Allowed(k) /\ Cardinality(alive) = Cardinality(counted)

\* However stale the clock of a request, whatever is cancelled, crashes or cannot be
\* released: nobody has more requests admitted in a window than the limit, nor more slots
\* at a time, nor have all; what is done for a request goes on under a lease that is
\* alive, except that of a deleted account and model work that takes longer than the
\* lease; a recognition that goes on without one, because its request was cancelled or
\* its account deleted, and beside the next, is over before the lease would have ended;
\* and the rolling windows let no more through than they allow
\* (RollingWindowLimiter.reserve, admit_direct_model_request,
\* SttAdmissionController.acquire, LocalSttService.transcribe).
LimitsHold ==
    /\ AdmissionTypeOK
    /\ WindowsHold
    /\ \A u \in User :
          /\ Cardinality(OfUser(u, Current(clock))) <= Requests
          /\ Cardinality(OfUser(u, LiveLeases(clock))) <= UserSlots
    /\ Cardinality(LiveLeases(clock)) <= scenario.slots
    /\ \A c \in Call :
          (call[c].step \in {"reading", "working"} /\ call[c].user \notin retired) =>
              \/ \E l \in LiveLeases(clock) : l.id = call[c].lease /\ l.user = call[c].user
              \/ scenario.kind = "model" /\ scenario.work + Margin >= LeaseTime
    /\ \A c \in Call : call[c].step = "working" /\ scenario.kind = "speech" => clock < call[c].at + LeaseTime
    /\ \A r \in adrift : clock < r.expires
=============================================================================
