---------------------------- MODULE ReminderDelivery ----------------------------
(***************************************************************************)
(* Reminders of published advice: the table advice_attention and its       *)
(* attempts in backend/app/storage.py, the routes in backend/app/main.py,  *)
(* and the desktop client that shows them (agent.py and ui.py, which keeps *)
(* its receipts in the encrypted local store).                             *)
(*                                                                         *)
(* The server hands out at most two permits per advice over all devices of *)
(* a user.  A permit is spent when it is claimed, whether or not the       *)
(* device lives to show it.  After two reminders that were both shown and  *)
(* never answered, the advice counts as ignored.  Devices report what they *)
(* showed with receipts that survive a restart.                            *)
(*                                                                         *)
(* One user.  Advice is numbered by urgency (level, age, id), which is the *)
(* order in which claims serve it.  The answers that close an advice       *)
(* (dismissed, irrelevant, the three errors, stop_topic) are "dismissed".  *)
(* A device never gets a delivery number twice, so the client's branch for *)
(* a number it already showed is left out.                                 *)
(*                                                                         *)
(* A definition named Op_Variant is Op as a plausible slip would have      *)
(* written it; no specification uses it.                                   *)
(***************************************************************************)
EXTENDS Naturals, Sequences, FiniteSets

CONSTANTS
    NumAdvice,      \* number of recommendations
    Machine,         \* devices of the user
    Interval,       \* ATTENTION_REMINDER_INTERVAL
    Lease,          \* ATTENTION_CLAIM_LEASE
    Snooze,         \* how long "later" defers
    MaxTime,        \* bound on the clock
    Bounds          \* records of the deadlines predictions may have, the answers the
                    \* user may give, and bounds on restarts and lost messages, and on
                    \* changes of the pause switches

Advice == 1 .. NumAdvice
Time == 0 .. MaxTime
Answers == {"later", "guidance", "acknowledged", "adopted", "dismissed"}
Never == MaxTime + 1

ReminderAssumption ==
    /\ NumAdvice \in Nat /\ MaxTime \in Nat
    /\ Interval \in Nat /\ Lease \in Nat /\ Snooze \in Nat
    /\ Bounds \subseteq [deadlines : SUBSET Nat, answers : SUBSET Answers, faults : Nat, mutes : Nat]

VARIABLES
    clock,
    advised,       \* the rows of an advice: advice, attention, attempts, feedback
    muted,      \* advice whose goal, or whose user, has proactive advice paused
    held,       \* permits queued for the user interface of a device, in memory
    receipt,    \* what a device still has to report, in its local store
    round,      \* where the report round of a device's agent thread stands
    copy,       \* the receipts that round read when it began
    inflight,   \* reports the user interface has sent itself
    popups,     \* how often an advice was really shown, and when last
    left        \* what is left of the bounds

reminderVars == <<clock, advised, muted, held, receipt, round, copy, inflight, popups, left>>
client == <<held, receipt, round, copy, inflight, popups>>

-----------------------------------------------------------------------------
(* Types *)

Attempt == [device : Machine, expires : Nat,
            state : {"claimed", "delivered", "superseded", "cancelled", "failed"}]

Case == [status : {"absent", "active", "adopted", "dismissed", "withdrawn", "verified"},
         deadline : Nat, snooze : Nat, fb : SUBSET (Answers \cup {"ignored"}),
         state : {"none", "pending", "waiting", "claimed", "resolved"},
         count : 0 .. 2, nextAt : Nat, closeAt : Nat, later : BOOLEAN,
         token : Nat, tries : Seq(Attempt)]

NoReceipt == [token |-> 0, action |-> "none"]
Receipt == [token : Nat, action : {"complete", "fail"}] \cup {NoReceipt}
Report == [device : Machine, advice : Advice, receipt : Receipt]

ReminderTypeOK ==
    /\ clock \in Time
    /\ advised \in [Advice -> Case]
    /\ muted \subseteq Advice
    /\ held \in [Machine -> [Advice -> SUBSET Nat]]
    /\ receipt \in [Machine -> [Advice -> Receipt]]
    /\ round \in [Machine -> {"idle", "sending", "failing", "clean"}]
    /\ copy \in [Machine -> [Advice -> Receipt]]
    /\ inflight \subseteq Report
    /\ popups \in [Advice -> [times : Nat, last : Time]]
    /\ left.faults \in Nat /\ left.mutes \in Nat

-----------------------------------------------------------------------------
(* The server's transactions as functions on the rows of one advice *)

Earlier(x, y) == IF x < y THEN x ELSE y

SetAttempt(c, k, s) == [c EXCEPT !.tries[k].state = s]

\* The reminder cycle ends, whatever permit is still out.
Resolve(c) ==
    LET cancelled == IF c.token # 0 /\ c.tries[c.token].state = "claimed"
                     THEN SetAttempt(c, c.token, "cancelled") ELSE c
    IN  IF c.state \in {"none", "resolved"} THEN cancelled
        ELSE [cancelled EXCEPT !.state = "resolved", !.token = 0, !.nextAt = 0,
                               !.closeAt = Never]

\* "later": the remaining permit may be claimed when the snooze is over.
Defer(c) ==
    IF c.state \in {"none", "resolved"} THEN c
    ELSE IF c.count >= 2 \/ c.snooze = 0 THEN Resolve(c)
    ELSE [c EXCEPT !.state = IF @ = "claimed" THEN @ ELSE "waiting",
                   !.nextAt = c.snooze, !.closeAt = Never, !.later = TRUE]

\* A claim ends without a proof of display; the permit stays spent.
ReleasePermit(c, k, s) ==
    LET open == [SetAttempt(c, k, s) EXCEPT !.state = "waiting", !.token = 0]
    IN  IF c.count >= 2 /\ c.later THEN Resolve(open) ELSE open

\* Advice that predates the protocol is never replayed.
Ensure(c) ==
    IF c.status = "active" /\ c.state = "none" THEN [c EXCEPT !.state = "resolved"] ELSE c

ExpireDeadline(c) ==
    IF c.status # "active" THEN c
    ELSE IF c.deadline <= clock THEN Resolve([c EXCEPT !.status = "withdrawn"])
    ELSE [c EXCEPT !.nextAt = Earlier(@, c.deadline),
                   !.closeAt = IF @ = Never THEN @ ELSE Earlier(@, c.deadline)]

LapseClaim_PermitBack(c) ==
    IF c.state = "claimed" /\ c.tries[c.token].expires <= clock
    THEN [ReleasePermit(c, c.token, "superseded") EXCEPT !.count = @ - 1] ELSE c

LapseClaim(c) ==
    IF c.state = "claimed" /\ c.tries[c.token].expires <= clock
    THEN ReleasePermit(c, c.token, "superseded") ELSE c

Delivered(c) == Cardinality({k \in 1 .. Len(c.tries) : c.tries[k].state = "delivered"})

CloseIgnored_Unproved(c) ==
    IF ~(c.state = "waiting" /\ c.count = 2 /\ c.closeAt <= clock /\ c.status = "active")
    THEN c
    ELSE Resolve([c EXCEPT !.status = "dismissed", !.fb = @ \cup {"ignored"}])

CloseIgnored(c) ==
    IF ~(c.state = "waiting" /\ c.count = 2 /\ c.closeAt <= clock /\ c.status = "active")
    THEN c
    ELSE IF Delivered(c) # 2 THEN Resolve(c)
    ELSE Resolve([c EXCEPT !.status = "dismissed", !.fb = @ \cup {"ignored"}])

Sweep(c) == CloseIgnored(LapseClaim(ExpireDeadline(Ensure(c))))

Due(c) ==
    /\ c.status = "active" /\ c.state \in {"pending", "waiting"}
    /\ c.count < 2 /\ c.nextAt <= clock

Claimed(c, d) ==
    LET n == c.count + 1
        soon == Earlier(clock + Interval, c.deadline)
    IN  [c EXCEPT !.state = "claimed", !.count = n, !.token = Len(c.tries) + 1,
                  !.nextAt = IF n = 1 THEN soon ELSE 0,
                  !.closeAt = IF n = 2 /\ ~c.later THEN soon ELSE Never,
                  !.tries = Append(@, [device |-> d, state |-> "claimed",
                                       expires |-> clock + Lease])]

HoldsPermit(c, d, k) ==
    /\ c.tries[k].device = d /\ c.tries[k].state = "claimed"
    /\ c.state = "claimed" /\ c.token = k

Complete(c, d, k) ==
    IF ~HoldsPermit(c, d, k) THEN c
    ELSE IF c.tries[k].expires <= clock THEN ReleasePermit(c, k, "superseded")
    ELSE ReleasePermit(c, k, "delivered")

Fail(c, d, k) == IF HoldsPermit(c, d, k) THEN ReleasePermit(c, k, "failed") ELSE c

\* The server answers 409 to a report it does not accept; a repeated one it does.
Accepted(c, d, r) ==
    \/ c.tries[r.token].state = IF r.action = "complete" THEN "delivered" ELSE "failed"
    \/ HoldsPermit(c, d, r.token) /\ (r.action = "complete" => c.tries[r.token].expires > clock)

Reported(c, d, r) ==
    IF r.action = "complete" THEN Complete(c, d, r.token) ELSE Fail(c, d, r.token)

\* record_feedback: an answer counts once, and only guidance after a decision.
Heard(c, kind) ==
    IF kind \in c.fb \/ (kind # "guidance" /\ c.status # "active") THEN c
    ELSE LET told == [c EXCEPT
                        !.fb = @ \cup {kind},
                        !.snooze = CASE kind = "later" -> IF c.deadline > clock
                                            THEN Earlier(clock + Snooze, c.deadline) ELSE 0
                                     [] kind \in {"adopted", "dismissed"} -> 0
                                     [] OTHER -> @,
                        !.status = IF kind \in {"adopted", "dismissed"} THEN kind ELSE @]
         IN  IF kind = "later" THEN Defer(told) ELSE Resolve(told)

-----------------------------------------------------------------------------
(* Initial state *)

Unpublished == [status |-> "absent", deadline |-> 0, snooze |-> 0, fb |-> {}, state |-> "none",
                count |-> 0, nextAt |-> 0, closeAt |-> Never, later |-> FALSE, token |-> 0,
                tries |-> <<>>]

ReminderInit ==
    /\ clock = 0 /\ advised = [a \in Advice |-> Unpublished] /\ muted = {}
    /\ held = [d \in Machine |-> [a \in Advice |-> {}]]
    /\ receipt = [d \in Machine |-> [a \in Advice |-> NoReceipt]]
    /\ copy = receipt /\ round = [d \in Machine |-> "idle"] /\ inflight = {}
    /\ popups = [a \in Advice |-> [times |-> 0, last |-> 0]]
    /\ left \in Bounds

-----------------------------------------------------------------------------
(* The server *)

\* An HTTP call of a client is over, one way or the other, before time passes.
ReminderTick ==
    /\ clock < MaxTime /\ inflight = {} /\ \A d \in Machine : round[d] \notin {"sending", "failing"}
    /\ clock' = clock + 1
    /\ UNCHANGED <<advised, muted, client, left>>

\* Advice for the daily brief is not pushed; a row from before the protocol has
\* no attention row yet.
Publish(a) ==
    /\ advised[a].status = "absent"
    /\ \E due \in {t \in left.deadlines : t > clock}, s \in {"pending", "resolved", "none"} :
         advised' = [advised EXCEPT ![a].status = "active", ![a].deadline = due, ![a].state = s]
    /\ UNCHANGED <<clock, muted, client, left>>

Swept == [a \in Advice |-> Sweep(advised[a])]

\* Every read of the advice list sweeps first.
ListAdvice ==
    /\ advised' = Swept
    /\ UNCHANGED <<clock, muted, client, left>>

\* The duplicate gate of a new candidate withdraws, but leaves the reminder alone.
WithdrawExpired ==
    /\ advised' = [a \in Advice |-> IF advised[a].status = "active" /\ advised[a].deadline <= clock
                                    THEN [advised[a] EXCEPT !.status = "withdrawn"] ELSE advised[a]]
    /\ UNCHANGED <<clock, muted, client, left>>

RecordFeedback(a, kind) ==
    /\ advised[a].status # "absent"
    /\ advised' = [advised EXCEPT ![a] = Heard(@, kind)]
    /\ UNCHANGED <<clock, muted, client, left>>

\* An outcome may be reported for any advice, decided or not.
RecordOutcome(a) ==
    /\ advised[a].status \notin {"absent", "verified"}
    /\ advised' = [advised EXCEPT ![a].status = "verified"]
    /\ UNCHANGED <<clock, muted, client, left>>

SetPaused ==
    /\ left.mutes > 0 /\ left' = [left EXCEPT !.mutes = @ - 1]
    /\ muted' \in (SUBSET Advice) \ {muted}
    /\ UNCHANGED <<clock, advised, client>>

-----------------------------------------------------------------------------
(* A device.  The agent thread runs rounds: report what is unreported, then    *)
(* claim.  The user interface shows what was claimed and sends its report.     *)

Fault == left.faults > 0 /\ left' = [left EXCEPT !.faults = @ - 1]

Unsent(r) == \A a \in Advice : r[a] = NoReceipt

BeginRound(d) ==
    /\ round[d] = "idle"
    /\ copy' = [copy EXCEPT ![d] = receipt[d]]
    /\ round' = [round EXCEPT ![d] = IF Unsent(receipt[d]) THEN "clean" ELSE "sending"]
    /\ UNCHANGED <<clock, advised, muted, held, receipt, inflight, popups, left>>

\* What is written back is the copy read at the start of the round, without its
\* report when the server answered, even if the answer was 409.
WroteBack(d, a, saved, failed) ==
    /\ receipt' = [receipt EXCEPT ![d][a] = saved]
    /\ copy' = [copy EXCEPT ![d][a] = NoReceipt]
    /\ round' = [round EXCEPT ![d] =
                   IF ~Unsent(copy'[d]) THEN IF failed THEN "failing" ELSE @
                   ELSE IF failed \/ @ = "failing" THEN "idle" ELSE "clean"]

RetryAnswered(d, a) ==
    /\ copy[d][a] # NoReceipt
    /\ advised' = [advised EXCEPT ![a] = Reported(@, d, copy[d][a])]
    /\ WroteBack(d, a, NoReceipt, FALSE)
    /\ UNCHANGED <<clock, muted, held, inflight, popups, left>>

\* No answer: the report may have reached the server all the same.
RetryFails(d, a) ==
    /\ Fault
    /\ copy[d][a] # NoReceipt
    /\ advised' \in {advised, [advised EXCEPT ![a] = Reported(@, d, copy[d][a])]}
    /\ WroteBack(d, a, copy[d][a], TRUE)
    /\ UNCHANGED <<clock, muted, held, inflight, popups>>

\* claim_advice_attention: sweep, then the most urgent reminder that is due.
NextDue(a) == Due(Swept[a]) /\ a \notin muted
                 /\ \A b \in Advice : b < a => ~Due(Swept[b]) \/ b \in muted

Claim(d) ==
    /\ round[d] = "clean"
    /\ round' = [round EXCEPT ![d] = "idle"]
    /\ \/ \E a \in Advice :
            /\ NextDue(a)
            /\ advised' = [Swept EXCEPT ![a] = Claimed(@, d)]
            /\ \/ held' = [held EXCEPT ![d][a] = @ \cup {advised'[a].token}] /\ UNCHANGED left
               \/ Fault /\ UNCHANGED held            \* the answer is lost
       \/ /\ \A a \in Advice : ~NextDue(a)
          /\ advised' = Swept /\ UNCHANGED <<held, left>>
    /\ UNCHANGED <<clock, muted, receipt, copy, inflight, popups>>

\* The user interface takes the oldest permit of an advice from its queue.
Oldest(d, a) == CHOOSE k \in held[d][a] : \A j \in held[d][a] : k <= j

Seen(a) == popups' = [popups EXCEPT ![a] = [times |-> @.times + 1, last |-> clock]]

\* Show it, save the receipt, send the report; showing may fail, or
\* notifications may be off.
Show(d, a, action) ==
    /\ held[d][a] # {}
    /\ LET r == [token |-> Oldest(d, a), action |-> action] IN
         /\ held' = [held EXCEPT ![d][a] = @ \ {r.token}]
         /\ receipt' = [receipt EXCEPT ![d][a] = r]
         /\ inflight' = inflight \cup {[device |-> d, advice |-> a, receipt |-> r]}
    /\ IF action = "complete" THEN Seen(a) ELSE UNCHANGED popups
    /\ UNCHANGED <<clock, advised, muted, round, copy, left>>

\* The advice was decided meanwhile: the permit is dropped without a report.
Finalize(d, a) ==
    /\ held[d][a] # {} /\ advised[a].status # "active"
    /\ held' = [held EXCEPT ![d][a] = {}]
    /\ UNCHANGED <<clock, advised, muted, receipt, round, copy, inflight, popups, left>>

\* The answer to the interface's own report clears whatever receipt is stored;
\* an error, 409 included, leaves it to the next round.
ReportAnswered(r) ==
    LET d == r.device  a == r.advice IN
    /\ r \in inflight /\ inflight' = inflight \ {r}
    /\ advised' = [advised EXCEPT ![a] = Reported(@, d, r.receipt)]
    /\ receipt' = IF Accepted(advised[a], d, r.receipt)
                  THEN [receipt EXCEPT ![d][a] = NoReceipt] ELSE receipt
    /\ UNCHANGED <<clock, muted, held, round, copy, popups, left>>

ReportFails_Forgets(r) ==
    /\ Fault
    /\ r \in inflight /\ inflight' = inflight \ {r}
    /\ advised' \in {advised, [advised EXCEPT ![r.advice] = Reported(@, r.device, r.receipt)]}
    /\ receipt' = [receipt EXCEPT ![r.device][r.advice] = NoReceipt]
    /\ UNCHANGED <<clock, muted, held, round, copy, popups>>

ReportFails(r) ==
    /\ Fault
    /\ r \in inflight /\ inflight' = inflight \ {r}
    /\ advised' \in {advised, [advised EXCEPT ![r.advice] = Reported(@, r.device, r.receipt)]}
    /\ UNCHANGED <<clock, muted, held, receipt, round, copy, popups>>

\* The program ends and starts again, maybe while a reminder is on the screen
\* and its receipt not yet written.
Restart(d) ==
    /\ Fault
    /\ held' = [held EXCEPT ![d] = [a \in Advice |-> {}]]
    /\ copy' = [copy EXCEPT ![d] = [a \in Advice |-> NoReceipt]]
    /\ round' = [round EXCEPT ![d] = "idle"]
    /\ inflight' = {r \in inflight : r.device # d}
    /\ \/ UNCHANGED popups
       \/ \E a \in Advice : held[d][a] # {} /\ Seen(a)
    /\ UNCHANGED <<clock, advised, muted, receipt>>

-----------------------------------------------------------------------------
(* The specification *)

ReminderNext ==
    \/ ReminderTick \/ ListAdvice \/ WithdrawExpired \/ SetPaused
    \/ \E a \in Advice :
         Publish(a) \/ RecordOutcome(a) \/ \E kind \in left.answers : RecordFeedback(a, kind)
    \/ \E d \in Machine :
         \/ BeginRound(d) \/ Claim(d) \/ Restart(d)
         \/ \E a \in Advice :
              \/ RetryAnswered(d, a) \/ RetryFails(d, a) \/ Finalize(d, a)
              \/ \E action \in {"complete", "fail"} : Show(d, a, action)
    \/ \E r \in inflight : ReportAnswered(r) \/ ReportFails(r)

ReminderSpec == ReminderInit /\ [][ReminderNext]_reminderVars

-----------------------------------------------------------------------------
(* Properties *)

\* However many devices claim, crash, retry and answer late, the user sees a
\* reminder of one advice at most twice (the two global delivery permits); and
\* an attempt counts as claimed only while it is the permit of its advice: no
\* answer, sweep or late report leaves a second permit alive.
AtMostTwoReminders ==
    /\ ReminderTypeOK
    /\ \A a \in Advice :
          /\ popups[a].times <= 2
          /\ \A k \in 1 .. Len(advised[a].tries) :
                 advised[a].tries[k].state = "claimed" =>
                     advised[a].state = "claimed" /\ advised[a].token = k

\* "ignored" is learned only of a user who really saw both reminders, had the
\* time to react and gave no answer of any kind before the advice closed.
IgnoresTheSeen ==
    \A a \in Advice :
        "ignored" \in advised'[a].fb \ advised[a].fb =>
            /\ advised[a].fb = {} /\ advised[a].status = "active"
            /\ popups[a].times = 2 /\ popups[a].last + Interval <= clock + Lease

IgnoredMeansSeenTwice == [][IgnoresTheSeen]_reminderVars

\* A receipt, once written, is dropped only when the server no longer waits for it:
\* not by a crash, a lost answer or a failed retry.  The exception is the answer to
\* an older report of the same advice: whoever gets it clears, or writes a copy
\* over, the newer receipt.  This does not say that every reminder the user saw is
\* reported: a death between showing it and writing the receipt (ui.py
\* _report_attention_result), or retries that fail until the lease ends, still
\* lets its permit lapse.
ForgetsTheReported ==
    \A d \in Machine, a \in Advice :
        LET r == receipt[d][a] IN
        r # NoReceipt /\ receipt'[d][a] # r =>
            \/ advised'[a].tries[r.token].state # "claimed"
            \/ copy[d][a] # NoReceipt /\ copy[d][a].token < r.token
            \/ \E old \in inflight : /\ old.device = d /\ old.advice = a
                                    /\ old.receipt.token < r.token

ReportedBeforeForgotten == [][ForgetsTheReported]_reminderVars

=============================================================================
