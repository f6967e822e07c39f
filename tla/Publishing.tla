------------------------------- MODULE Publishing -------------------------------
(***************************************************************************)
(* What may be said to the user: the rule service (service.py), the        *)
(* publish gate, feedback, outcomes and preferences of storage.py, the     *)
(* refinement of deterministic advice (advice_refiner.py) and the routes   *)
(* of main.py that call them, for one user with goals in one domain.       *)
(*                                                                         *)
(* ProactiveService.evaluate asks the database one question after the      *)
(* other, each in a lock of its own, and then inserts; the preferences are *)
(* asked again in the transaction that publishes.  The user answers, goals *)
(* are muted and outcomes arrive meanwhile.  Only what the questions read  *)
(* is kept: a candidate's evidence, wording and score are not, and every   *)
(* candidate is worth saying.                                              *)
(*                                                                         *)
(* A definition named Op_Variant is Op as a plausible slip would have      *)
(* written it; no specification uses it.                                   *)
(***************************************************************************)
EXTENDS Integers, Sequences, FiniteSets

CONSTANTS
    Worker,         \* requests and background workers that evaluate
    Client,         \* settings screens
    Event, Goal, Topic,
    Global,         \* the scope of the preferences of all goals
    Inherit,        \* SQL NULL in a goal's preference
    Nobody,
    Candidate,      \* what rules or discovery make of an event, see CandidateAssumption
    Modes,          \* the frequency modes in use
    Quota,          \* max_per_window, for the modes that have one
    Cooldown,       \* of a mode, for the same modes
    Window,         \* in which publications are counted
    ErrorWindow, AllowedErrors, \* ERROR_BUDGETS, by level
    FreezeTime, SuppressTime,
    Life,           \* from publication to the prediction's deadline
    Needed, Weight, \* trust a level asks for, and what an incorrect outcome costs
    Cases,          \* scenarios: what may happen, with bounds on time, on revisions of a
                    \* preference and on settings screens open at once
    MaxRows         \* bound on advice rows

Level == 1..4

ASSUME CandidateAssumption ==
    \A e \in Event :
        /\ Candidate[e].goal \in Goal /\ Candidate[e].topic \in Topic
        /\ Candidate[e].requested \in Level
        /\ Candidate[e].bypass \in BOOLEAN   \* a manual problem or an emergency
        /\ Candidate[e].manual \in BOOLEAN
        /\ Candidate[e].reviewed \in BOOLEAN \* from discovery, which had it reviewed
        /\ Candidate[e].observable \in BOOLEAN \* its prediction can be told from the outcome
        /\ Candidate[e].foretold \in BOOLEAN \* with the result expected if it is adopted

ASSUME PolicyAssumption ==
    /\ Modes \subseteq {"active", "balanced", "quiet", "important_only", "paused"}
    /\ DOMAIN Quota = Modes \ {"important_only", "paused"} /\ DOMAIN Cooldown = DOMAIN Quota
    /\ \A mode \in DOMAIN Quota : Quota[mode] \in Nat /\ Cooldown[mode] \in Nat
    /\ AllowedErrors \in [2..4 -> Nat] /\ ErrorWindow \in [2..4 -> Nat] /\ DOMAIN Needed = 3..4
    /\ Window \in Nat /\ FreezeTime \in Nat /\ SuppressTime \in Nat /\ Life \in Nat /\ MaxRows \in Nat

Errors == {"fact_error", "timing_error"}
Answers == Errors \cup {"adopted", "dismissed", "stop_topic", "guidance"}
Scope == Goal \cup {Global}
Charters == [max : Level, redline : BOOLEAN]

\* The columns of the tables.
Status == {"none", "provisional", "active", "adopted", "dismissed", "withdrawn", "verified"}
Entry == [row : 1..MaxRows, kind : Errors \cup {"prediction_error"}, level : Level, at : Nat]
AdviceRow == [event : Event, level : Level, column : Status, said : Status, at : Nat,
              deadline : Nat, fb : SUBSET (Answers \cup {"prediction_error"}),
              verdict : {"none", "good", "bad", "unknown"}, readAs : Status,
              frozenBy : SUBSET Entry, weighed : Nat]
Contents == [mode : Modes \cup {"active", Inherit}, hears : {TRUE, FALSE, Inherit}]
Preference == [rev : Nat, mode : Modes \cup {"active", Inherit}, hears : {TRUE, FALSE, Inherit}]

\* What a settings screen shows, and what a request for an outcome has read.
Page == [scope : Scope, rev : Nat, content : Contents, deleted : BOOLEAN]
Reading == [row : 1..MaxRows, said : Status, deadline : Nat]

ASSUME CaseAssumption ==
    \A k \in Cases :
        /\ k.time \in Nat /\ k.revisions \in Nat /\ k.screens \in Nat
        /\ k.legacy \in Seq(Event) /\ Len(k.legacy) <= MaxRows
        /\ k.events \subseteq Event /\ k.answers \subseteq Answers /\ k.scopes \subseteq Scope
        /\ k.modes \subseteq Modes /\ k.hearing \subseteq BOOLEAN
        /\ k.trust \in [Level -> Nat]
        /\ k.charter \in Charters /\ k.charters \subseteq Charters

ASSUME NobodyAssumption == Global \notin Goal /\ Nobody \notin Page /\ Nobody \notin Reading

VARIABLES
    case, now,
    stored,     \* the events table
    queued,     \* events with a refine_deterministic job, held for review
    pref,       \* advice_preferences; revision 0 where there is no row
    page,       \* what a settings screen shows
    rows,       \* the advice table; the position is the id
    ledger,     \* error_ledger
    freeze,     \* speaking_freezes: expiry by level
    silence,    \* topic_suppressions: expiry by topic
    trust,      \* trust_accounts, by level
    charter,    \* charters: the level the user grants
    worker,     \* what an evaluation has read so far
    judge       \* outcome requests: the advice as they read it

vars == <<case, now, stored, queued, pref, page, rows, ledger, freeze, silence,
          trust, charter, worker, judge>>
books == <<ledger, freeze, silence, trust>>
settings == <<pref, page>>
intake == <<stored, queued>>

Idle == [step |-> "idle"]

\* What a scope without a row stands for.
Absent(s) == [rev |-> 0, mode |-> IF s = Global THEN "active" ELSE Inherit,
              hears |-> IF s = Global THEN TRUE ELSE Inherit]

\* Advice of before results of adoption were foretold.
LegacyRow(e) ==
    [event |-> e, level |-> Candidate[e].requested, column |-> "active", said |-> "active", at |-> 1,
     deadline |-> 1 + Life, fb |-> {}, verdict |-> "none", readAs |-> "none", frozenBy |-> {}, weighed |-> 0]

Init ==
    /\ case \in Cases
    /\ now = 1
    /\ stored = {case.legacy[i] : i \in 1..Len(case.legacy)} /\ queued = {}
    /\ pref = [s \in Scope |-> Absent(s)]
    /\ page = [c \in Client |-> Nobody]
    /\ rows = [i \in 1..Len(case.legacy) |-> LegacyRow(case.legacy[i])]
    /\ ledger = {}
    /\ freeze = [l \in 2..4 |-> 0]
    /\ silence = [t \in Topic |-> 0]
    /\ trust = [l \in Level |-> [good |-> case.trust[l], bad |-> 0]]
    /\ charter = case.charter
    /\ worker = [w \in Worker |-> Idle]
    /\ judge = [c \in Client |-> Nobody]

-----------------------------------------------------------------------------
(* Preferences in effect.                                                  *)

GoalMode(g) == IF pref[g].mode # Inherit THEN pref[g].mode ELSE pref[Global].mode

Says(g, mode) == pref[Global].mode = mode \/ GoalMode(g) = mode

Hears(g) == IF pref[g].hears # Inherit THEN pref[g].hears ELSE pref[Global].hears

-----------------------------------------------------------------------------
(* The publish gate.                                                       *)

Topical(i) == Candidate[rows[i].event].topic
Of(i) == Candidate[rows[i].event]

\* Advice published in the window of this moment; 0 stands for NULL.
Recent(S) == {i \in S : rows[i].at # 0 /\ rows[i].at >= now - Window}

Full(mode, S) == mode \in DOMAIN Quota /\ Cardinality(Recent(S)) >= Quota[mode]

Cooling(g) ==
    /\ GoalMode(g) \in DOMAIN Cooldown
    /\ \E i \in 1..Len(rows) : /\ Of(i).goal = g /\ rows[i].at # 0
                               /\ now - rows[i].at < Cooldown[GoalMode(g)]

OfGoal(g) == {i \in 1..Len(rows) : Of(i).goal = g}

\* _advice_publish_block_locked
Blocked_MayBypassTheFloor(c, level) ==
    \/ Says(c.goal, "paused")
    \/ ~c.bypass /\ Says(c.goal, "important_only") /\ level < 3
    \/ ~c.bypass /\ (Full(pref[Global].mode, 1..Len(rows)) \/ Cooling(c.goal)
                       \/ Full(pref[c.goal].mode, OfGoal(c.goal)))

Blocked(c, level) ==
    \/ Says(c.goal, "paused")
    \/ Says(c.goal, "important_only") /\ level < 3
    \/ ~c.bypass /\ (Full(pref[Global].mode, 1..Len(rows)) \/ Cooling(c.goal)
                       \/ Full(pref[c.goal].mode, OfGoal(c.goal)))

-----------------------------------------------------------------------------
(* Events.  An event is stored whatever the preferences say.               *)

At(w, step) == worker[w].step = step

Goes(w, next) == worker' = [worker EXCEPT ![w] = next]

Asks(w, step) == Goes(w, [worker[w] EXCEPT !.step = step])

Stops(w) == Goes(w, Idle)

Evaluation(e, step) ==
    [step |-> step, event |-> e, level |-> Candidate[e].requested, cap |-> 4, redline |-> FALSE,
     errors |-> {}, at |-> 0, row |-> 0]

\* POST /v1/events: a new event is stored and, unless the global preference says
\* otherwise, evaluated.
Arrive(w, e) ==
    /\ "arrive" \in case.ops
    /\ worker[w] = Idle /\ e \in case.events \ stored
    /\ stored' = stored \cup {e}
    /\ IF \/ pref[Global].mode = "paused"
          \/ ~pref[Global].hears /\ ~Candidate[e].manual
       THEN UNCHANGED worker
       ELSE Goes(w, Evaluation(e, "filter"))
    /\ UNCHANGED <<case, now, queued, settings, rows, books, charter, judge>>

\* The queue evaluates an event again that was held for review.
Reanalyse(w, e) ==
    /\ worker[w] = Idle /\ e \in queued
    /\ queued' = queued \ {e}
    /\ Goes(w, Evaluation(e, "filter"))
    /\ UNCHANGED <<case, now, stored, settings, rows, books, charter, judge>>

-----------------------------------------------------------------------------
(* ProactiveService.evaluate, question by question.                        *)

reads == <<case, now, intake, settings, books, charter, judge>>

\* _event_allowed_for_goal
Filter(w) ==
    /\ At(w, "filter")
    /\ LET c == Candidate[worker[w].event] IN
       IF c.manual \/ Hears(c.goal) THEN Asks(w, "charter") ELSE Stops(w)
    /\ UNCHANGED <<reads, rows>>

AskCharter(w) ==
    /\ At(w, "charter")
    /\ Goes(w, [worker[w] EXCEPT !.step = "trust", !.cap = charter.max, !.redline = charter.redline])
    /\ UNCHANGED <<reads, rows>>

Least(a, b) == IF a < b THEN a ELSE b

\* speaking_ceiling, from the outcomes at the requested level and below.
Total(l, kind) ==
    LET sum[k \in 0..l] == IF k = 0 THEN 0 ELSE sum[k - 1] + trust[k][kind] IN sum[l]

Earns(l, requested) ==
    Total(requested, "good") - Weight * Total(requested, "bad") >= Needed[l]

Ceiling(requested, cap, redline) ==
    IF requested = 4 /\ trust[4].bad > 0 THEN Least(cap, 2)
    ELSE IF redline /\ cap = 4 /\ Earns(4, requested) THEN 4
    ELSE IF cap >= 3 /\ Earns(3, requested) THEN 3
    ELSE Least(cap, 2)

AskTrust(w) ==
    /\ At(w, "trust")
    /\ Goes(w, [worker[w] EXCEPT
           !.step = "freeze",
           !.level = Least(@, Ceiling(@, worker[w].cap, worker[w].redline))])
    /\ UNCHANGED <<reads, rows>>

\* available_speaking_level: a frozen level is a barrier to those above it.
Available(level) ==
    LET frozen == {l \in 2..level : freeze[l] > now} IN
    IF frozen = {} THEN level ELSE (CHOOSE l \in frozen : \A k \in frozen : l <= k) - 1

AskFreeze(w) ==
    /\ At(w, "freeze")
    /\ Goes(w, [worker[w] EXCEPT !.step = "silence", !.level = Available(@),
                                 !.errors = ledger, !.at = now])
    /\ UNCHANGED <<reads, rows>>

\* No advice without the result expected if it is adopted, and then
\* active_topic_suppression.
AskSilence(w) ==
    /\ At(w, "silence")
    /\ LET c == Candidate[worker[w].event] IN
       IF ~c.foretold \/ silence[c.topic] > now THEN Stops(w) ELSE Asks(w, "preference")
    /\ UNCHANGED <<reads, rows>>

AskPreference(w) ==
    /\ At(w, "preference")
    /\ LET g == Candidate[worker[w].event].goal IN
       IF \/ Says(g, "paused")
          \/ Says(g, "important_only") /\ worker[w].level < 3
       THEN Stops(w) ELSE Asks(w, "duplicate")
    /\ UNCHANGED <<reads, rows>>

Live == {"provisional", "active", "adopted"}

\* _withdraw_expired_active: of a row whose column is active; where the payload says
\* otherwise the column follows it.
Expired(row) ==
    IF row.column # "active" \/ row.deadline > now THEN row
    ELSE IF row.said = "active" THEN [row EXCEPT !.said = "withdrawn", !.column = "withdrawn"]
    ELSE [row EXCEPT !.column = row.said]

Swept == [i \in 1..Len(rows) |-> Expired(rows[i])]

\* active_duplicate, which first withdraws what has expired.
AskDuplicate(w) ==
    /\ At(w, "duplicate")
    /\ rows' = Swept
    /\ IF \E i \in 1..Len(rows) : /\ rows'[i].column \in Live
                                  /\ Topical(i) = Candidate[worker[w].event].topic
       THEN Stops(w) ELSE Asks(w, "insert")
    /\ UNCHANGED reads

\* GET /v1/advice withdraws too.
List ==
    /\ Swept # rows
    /\ rows' = Swept
    /\ UNCHANGED <<reads, worker>>

-----------------------------------------------------------------------------
(* insert_advice and what becomes of the row.                              *)

Taken(e, topic) ==
    \E i \in 1..Len(rows) :
        \/ rows[i].event = e /\ rows[i].column \in Live
        \/ Topical(i) = topic /\ rows[i].column \in {"provisional", "active"}

Row(w, status) ==
    [event |-> worker[w].event, level |-> worker[w].level, column |-> status, said |-> status,
     at |-> IF status = "active" THEN now ELSE 0, deadline |-> now + Life, fb |-> {},
     verdict |-> "none", readAs |-> "none", frozenBy |-> worker[w].errors, weighed |-> worker[w].at]

Insert(w) ==
    /\ At(w, "insert") /\ Len(rows) < MaxRows
    /\ LET e == worker[w].event
           c == Candidate[e]
           status == IF c.requested < 3 \/ c.reviewed THEN "active" ELSE "provisional"
       IN  IF \/ status = "active" /\ Blocked(c, worker[w].level)
              \/ Taken(e, c.topic)
           THEN Stops(w) /\ UNCHANGED rows
           ELSE /\ rows' = Append(rows, Row(w, status))
                /\ \/ "refine" \in case.ops /\ ~c.reviewed
                      /\ Goes(w, [worker[w] EXCEPT !.step = "refine", !.row = Len(rows) + 1])
                   \/ /\ status = "provisional"
                      /\ Goes(w, [worker[w] EXCEPT !.step = "discard", !.row = Len(rows) + 1])
                   \/ status = "active" /\ Stops(w)
    /\ UNCHANGED reads

\* delete_advice: only a provisional row goes; "none" stands for no row.
Discarded(i) ==
    IF rows[i].column = "provisional"
    THEN [rows EXCEPT ![i].column = "none", ![i].said = "none"] ELSE rows

\* No review could be had at once: the row goes, and a job is left in its place.
Discard(w) ==
    /\ At(w, "discard")
    /\ rows' = Discarded(worker[w].row)
    /\ queued' = queued \cup {worker[w].event}
    /\ Stops(w)
    /\ UNCHANGED <<case, now, stored, settings, books, charter, judge>>

\* refine: the model's answer is written.  Advice of level 3 and above is published
\* by promote_advice, other advice is overwritten with the copy that was refined.
Promoted(w, i) ==
    IF rows[i].column # "provisional" \/ Blocked(Of(i), rows[i].level) THEN Discarded(i)
    ELSE [rows EXCEPT ![i].column = "active", ![i].said = "active", ![i].at = now,
                      ![i].deadline = now + Life]

Rewritten(w, i) == [rows EXCEPT ![i].said = "active", ![i].deadline = now + Life]

Refine(w) ==
    /\ At(w, "refine")
    /\ LET i == worker[w].row IN
       rows' = IF Of(i).requested >= 3 THEN Promoted(w, i) ELSE Rewritten(w, i)
    /\ Stops(w)
    /\ UNCHANGED reads

\* The model is not available, refuses, or takes too long: level 3 is held, other
\* advice stays as it is.
Unrefined(w) ==
    /\ At(w, "refine")
    /\ rows' = Discarded(worker[w].row)
    /\ queued' \in {queued, IF Of(worker[w].row).requested >= 3
                            THEN queued \cup {worker[w].event} ELSE queued}
    /\ Stops(w)
    /\ UNCHANGED <<case, now, stored, settings, books, charter, judge>>

-----------------------------------------------------------------------------
(* The user's answers, record_feedback, and outcomes, record_outcome.       *)

Visible(i) == rows[i].column \notin {"none", "provisional"}

\* Errors at a level that are still counted.
Counted(l, errors) == {x \in errors : x.level = l /\ x.at >= now - ErrorWindow[l]}

Erred_EachTime(i, kind) ==
    /\ ledger' = ledger \cup {[row |-> i, kind |-> kind, level |-> rows[i].level, at |-> now]}
    /\ freeze' = IF /\ rows[i].level >= 2
                    /\ Cardinality(Counted(rows[i].level, ledger')) > AllowedErrors[rows[i].level]
                 THEN [freeze EXCEPT ![rows[i].level] = now + FreezeTime] ELSE freeze

\* _record_error_locked: an advice is entered once, and one error too many freezes
\* its level.
Erred(i, kind) ==
    IF \E x \in ledger : x.row = i THEN UNCHANGED <<ledger, freeze>>
    ELSE
    /\ ledger' = ledger \cup {[row |-> i, kind |-> kind, level |-> rows[i].level, at |-> now]}
    /\ freeze' = IF /\ rows[i].level >= 2
                    /\ Cardinality(Counted(rows[i].level, ledger')) > AllowedErrors[rows[i].level]
                 THEN [freeze EXCEPT ![rows[i].level] = now + FreezeTime] ELSE freeze

Answered(row, kind) ==
    LET status == CASE kind = "adopted" -> "adopted"
                    [] kind = "guidance" -> "none"
                    [] OTHER -> "dismissed"
    IN  IF status = "none" THEN [row EXCEPT !.fb = @ \cup {kind}]
        ELSE [row EXCEPT !.fb = @ \cup {kind}, !.said = status, !.column = status]

\* An answer that was given before changes nothing, and only guidance is taken for
\* advice that is, by its payload, no longer active.  The unique index of evidence
\* stops a row from becoming live again beside another.
Feedback(i, kind) ==
    /\ kind \in case.answers
    /\ Visible(i) /\ kind \notin rows[i].fb
    /\ kind = "guidance" \/ rows[i].said = "active"
    /\ kind = "adopted" => ~ \E j \in 1..Len(rows) \ {i} : /\ rows[j].event = rows[i].event
                                                           /\ rows[j].column \in Live
    /\ rows' = [rows EXCEPT ![i] = Answered(@, kind)]
    /\ IF kind \in Errors THEN Erred(i, kind) ELSE UNCHANGED <<ledger, freeze>>
    /\ silence' = IF kind = "stop_topic" THEN [silence EXCEPT ![Topical(i)] = now + SuppressTime]
                  ELSE silence
    /\ UNCHANGED <<case, now, intake, settings, trust, charter, worker, judge>>

\* POST /v1/advice/{id}/outcome reads the advice and then records what it read.
ReadForOutcome(c, i) ==
    /\ "outcome" \in case.ops /\ judge[c] = Nobody
    /\ Visible(i)
    /\ judge' = [judge EXCEPT ![c] = [row |-> i, said |-> rows[i].said,
                                      deadline |-> rows[i].deadline]]
    /\ UNCHANGED <<case, now, intake, settings, rows, books, charter, worker>>

\* The outcomes table has one row for an advice.
Judged_WhenRead(c) == judge[c].said = "verified"
Judged(c) == rows[judge[c].row].verdict # "none"

Reported(c) == judge' = [judge EXCEPT ![c] = Nobody]

\* A verdict on advice that was adopted, as far as the request has read, is held against
\* the result foretold for it, any other against the risk; where there is nothing to hold
\* it against, it is not counted.
Calibrates(i, said) == IF said = "adopted" THEN Of(i).foretold ELSE Of(i).observable

RecordOutcome(c, verdict) ==
    /\ judge[c] # Nobody /\ ~Judged(c)
    /\ Reported(c)
    /\ LET i == judge[c].row
           failed == judge[c].said = "adopted" /\ verdict = "bad"
       IN  /\ rows' = [rows EXCEPT ![i].verdict = verdict, ![i].column = "verified",
                                   ![i].said = "verified", ![i].deadline = judge[c].deadline,
                                   ![i].readAs = judge[c].said,
                                   ![i].fb = @ \cup IF failed THEN {"prediction_error"} ELSE {}]
           /\ IF failed THEN Erred(i, "prediction_error") ELSE UNCHANGED <<ledger, freeze>>
           /\ trust' = IF verdict = "unknown" \/ ~Calibrates(i, judge[c].said) THEN trust
                       ELSE [trust EXCEPT ![rows[i].level][verdict] = @ + 1]
    /\ UNCHANGED <<case, now, intake, settings, silence, charter, worker>>

RepeatOutcome(c) ==
    /\ judge[c] # Nobody /\ Judged(c)
    /\ Reported(c)
    /\ UNCHANGED <<case, now, intake, settings, rows, books, charter, worker>>

SetCharter(granted) ==
    /\ granted # charter
    /\ charter' = granted
    /\ UNCHANGED <<case, now, intake, settings, rows, books, worker, judge>>

-----------------------------------------------------------------------------
(* Preferences: a settings screen shows a scope and saves it with the       *)
(* revision it has seen; a goal's preference can be deleted, and its        *)
(* revisions then start over.                                               *)

Content(p) == [mode |-> p.mode, hears |-> p.hears]

Choices(s) ==
    [mode : case.modes \cup (IF s = Global THEN {} ELSE {Inherit}),
     hears : case.hearing \cup (IF s = Global THEN {} ELSE {Inherit})]

\* GET /v1/advice-preferences; deleted is history: whether the goal's preference was
\* deleted since.
Open(c, s) ==
    /\ s \in case.scopes
    /\ Cardinality({d \in Client : page[d] # Nobody} \cup {c}) <= case.screens
    /\ page' = [page EXCEPT ![c] = [scope |-> s, rev |-> pref[s].rev,
                                    content |-> Content(pref[s]), deleted |-> FALSE]]
    /\ page' # page
    /\ UNCHANGED <<case, now, intake, pref, rows, books, charter, worker, judge>>

\* upsert_advice_preference: a stale revision is refused unless nothing would change.
Accepted_SameContent(s, rev, content) == rev = pref[s].rev \/ pref[s].rev > 0
Accepted(s, rev, content) == rev = pref[s].rev

Save(c, content) ==
    /\ page[c] # Nobody
    /\ LET s == page[c].scope
           same == (s = Global \/ pref[s].rev > 0) /\ content = Content(pref[s])
       IN  /\ content \in Choices(s)
           /\ IF same /\ (pref[s].rev > 0 \/ page[c].rev # pref[s].rev)
              THEN /\ page' = [page EXCEPT ![c].rev = pref[s].rev, ![c].content = content,
                                           ![c].deleted = FALSE]
                   /\ UNCHANGED pref
              ELSE IF Accepted(s, page[c].rev, content)
              THEN /\ pref[s].rev < case.revisions
                   /\ pref' = [pref EXCEPT ![s] = [rev |-> @.rev + 1, mode |-> content.mode,
                                                   hears |-> content.hears]]
                   /\ page' = [page EXCEPT ![c].rev = pref[s].rev + 1, ![c].content = content,
                                           ![c].deleted = FALSE]
              ELSE page' = [page EXCEPT ![c] = Nobody] /\ UNCHANGED pref
    /\ UNCHANGED <<case, now, intake, rows, books, charter, worker, judge>>

\* delete_goal_preference
Delete(g) ==
    /\ g \in case.scopes /\ pref[g].rev > 0
    /\ pref' = [pref EXCEPT ![g] = Absent(g)]
    /\ page' = [c \in Client |-> IF page[c] # Nobody /\ page[c].scope = g
                                 THEN [page[c] EXCEPT !.deleted = TRUE] ELSE page[c]]
    /\ UNCHANGED <<case, now, intake, rows, books, charter, worker, judge>>

Tick ==
    /\ now < case.time
    /\ now' = now + 1
    /\ UNCHANGED <<case, intake, settings, rows, books, charter, worker, judge>>

Evaluate(w) ==
    \/ Filter(w) \/ AskCharter(w) \/ AskTrust(w) \/ AskFreeze(w) \/ AskSilence(w)
    \/ AskPreference(w) \/ AskDuplicate(w) \/ Insert(w) \/ Discard(w) \/ Refine(w) \/ Unrefined(w)

Next ==
    \/ \E w \in Worker, e \in Event : Arrive(w, e) \/ Reanalyse(w, e)
    \/ \E w \in Worker : Evaluate(w)
    \/ List
    \/ \E i \in 1..Len(rows), kind \in Answers : Feedback(i, kind)
    \/ \E c \in Client, i \in 1..Len(rows) : ReadForOutcome(c, i)
    \/ \E c \in Client, verdict \in {"good", "bad", "unknown"} : RecordOutcome(c, verdict)
    \/ \E c \in Client : RepeatOutcome(c)
    \/ \E granted \in case.charters : SetCharter(granted)
    \/ \E c \in Client, s \in Scope : Open(c, s)
    \/ \E c \in Client : \E content \in [mode : Modes \cup {Inherit}, hears : {TRUE, FALSE, Inherit}] :
           Save(c, content)
    \/ \E g \in Goal : Delete(g)
    \/ Tick

Spec == Init /\ [][Next]_vars

-----------------------------------------------------------------------------
(* Properties.                                                             *)

\* The tables hold what their columns say.
TypeOK ==
    /\ case \in Cases /\ now \in Nat
    /\ stored \subseteq Event /\ queued \subseteq stored
    /\ Len(rows) <= MaxRows
    /\ \A i \in 1..Len(rows) : /\ rows[i] \in AdviceRow
                               /\ rows[i].event \in stored
                               /\ rows[i].frozenBy \subseteq ledger
    /\ ledger \subseteq Entry
    /\ \A s \in Scope : pref[s].rev \in 0..case.revisions
    /\ \A c \in Client : page[c] # Nobody => page[c].scope \in Scope

\* Whichever evaluations, reviews and settings interleave, nothing appears for the user
\* while its goal, or everything, is paused, below level 3 while only what is important
\* is wanted, or, unless it was asked for or an emergency, beyond what the modes then in
\* force allow in the window, all that was published in it counted
\* (_advice_publish_block_locked runs in the transaction that publishes).
PublishesWithinLimits ==
    [][\A i \in 1..Len(rows') :
          LET row == rows'[i]
              g == Candidate[row.event].goal
              shown(S) == {j \in S : rows'[j].at # 0 /\ rows'[j].at >= now - Window}
              ours == {j \in 1..Len(rows') : Candidate[rows'[j].event].goal = g}
          IN  (row.at # 0 /\ (i > Len(rows) \/ rows[i].at = 0)) =>
                  /\ ~Says(g, "paused")
                  /\ Says(g, "important_only") => row.level >= 3
                  /\ ~Candidate[row.event].bypass =>
                         /\ pref[Global].mode \in DOMAIN Quota =>
                                Cardinality(shown(1..Len(rows'))) <= Quota[pref[Global].mode]
                         /\ pref[g].mode \in DOMAIN Quota =>
                                Cardinality(shown(ours)) <= Quota[pref[g].mode]
                         /\ GoalMode(g) \in DOMAIN Cooldown =>
                                \A j \in ours \ {i} : rows'[j].at # 0 =>
                                    now - rows'[j].at >= Cooldown[GoalMode(g)]]_vars

\* The level at which advice speaks is below every level that the errors then on record
\* had frozen, also through candidates that ask for more (available_speaking_level), and
\* every mistake is on record once, however often and in whatever words it is reported.
\* The errors are those on record when the level was read (AskFreeze): a mistake that is
\* recorded between that reading and the publication lowers only what comes after.
FrozenBy(errors, l, at) ==
    \E x \in errors :
        /\ x.level = l /\ x.at + FreezeTime > at
        /\ Cardinality({y \in errors : y.level = l /\ y.at >= x.at - ErrorWindow[l] /\ y.at <= x.at})
             > AllowedErrors[l]

MistakesLowerTheVoice ==
    /\ \A i \in 1..Len(rows) :
           \A l \in 2..rows[i].level : ~FrozenBy(rows[i].frozenBy, l, rows[i].weighed)
    /\ \A x, y \in ledger : x.row = y.row => x = y

\* An outcome that something was foretold of: for advice its request read as adopted, the
\* result of adoption, and for other advice a risk that can be observed.
Foreseen(i) ==
    LET c == Candidate[rows[i].event] IN
    IF rows[i].readAs = "adopted" THEN c.foretold ELSE c.observable

\* The accounts of an advice agree.  Trust is what the outcomes say of which something was
\* foretold, each counted once, and no others, like those of adopted advice of before the
\* results of adoption were foretold; the ledger of errors holds exactly the advice the
\* user called wrong and that which was adopted and came to nothing (record_outcome,
\* _record_error_locked); and what the API says of an advice and what the duplicate gate
\* knows of it differ only below level 3, for advice answered, withdrawn or judged while a
\* refinement of it was under way.
BooksBalance ==
    /\ TypeOK
    /\ \A l \in Level, v \in {"good", "bad"} :
          trust[l][v] = Cardinality({i \in 1..Len(rows) :
                                        rows[i].level = l /\ rows[i].verdict = v /\ Foreseen(i)})
                        + (IF v = "good" THEN case.trust[l] ELSE 0)
    /\ \A i \in 1..Len(rows) :
          /\ (\E x \in ledger : x.row = i) <=>
                 rows[i].fb \cap (Errors \cup {"prediction_error"}) # {}
          /\ rows[i].said # rows[i].column =>
                 /\ rows[i].said = "active" /\ Of(i).requested < 3
                 /\ \/ rows[i].column \in {"withdrawn", "verified"}
                    \/ rows[i].fb \ {"guidance"} # {}

\* A settings screen overwrites only what it has shown: who saves with an old revision
\* loses nothing of others' (upsert_advice_preference), except that a goal's preference
\* that was deleted and made again may have the revision of the old one.
NothingOverwrittenUnseen ==
    [][\A s \in Scope :
          pref'[s].rev > pref[s].rev =>
              \E c \in Client :
                  /\ page[c] # Nobody /\ page'[c] # Nobody /\ page[c].scope = s
                  /\ page'[c].content = Content(pref'[s])
                  /\ page[c].deleted \/ page[c].content = Content(pref[s])]_vars

=============================================================================
