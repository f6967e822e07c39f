# Mouchen: a verification development

Mouchen (`src/AI-Twin`) collects events from a person's devices, analyses them
with rules and a language model, and hands back pieces of advice. Its parts run
on an Android or iOS phone, on a desktop, on a small rented relay and on a
server, and most of its difficulty is in what happens between them: transfers
that expire, leases that lapse, acknowledgements that come late, processes that
die between two commits, budgets shared by workers, answers that arrive after
the account they were meant for has signed out.

This directory holds TLA+ models of those parts, TLC configurations that check
them on small instances, and proofs, checked by TLAPS, of the properties that
matter most for every instance. `PROJECT.json` names the source lines of every
definition. Source paths below are relative to `src/AI-Twin`.

Contents: 1 inventory, 2 modules and runs, 3 the relay store, 4 local processing
through the relay, 5 the analysis queue, 6 translations, 7 accounts, merged
histories and reminders, 8 publishing, admission and the desktop, 9 what is
proved, 10 what is only model-checked, 11 what is not modelled, 12 where code
and comments disagree, 13 plan.

## 1. Inventory

### Relay and local processing

| component | state it keeps | operations | talks to |
|---|---|---|---|
| Relay store, `relay/server.py` | SQLite tables `transfers` and `deliveries`; files `blobs/<id>` and `blobs/<id>.part`; running handlers | reserve, upload, inbox, claim, download, ack, release, status; a cleanup every minute and at every start | phone, bridge (HTTP) |
| Bridge and client, `relay/bridge.py`, `relay/client.py` | SQLite tables `received`, `inbox`, `deliveries`; one lock file | every 30 s: pull requests, have them imported, push responses, follow their transfers | relay, import endpoint |
| Phone relay client, `android/.../relay/*.kt` | Room tables `relay_requests`, `relay_receipts`, records on display | enqueue, send, receive, persist; one coroutine mutex; WorkManager retries | relay |
| Import endpoint, `backend/app/relay_import.py`, `Repository.atomic_relay_request` | `relay_receipts` and the business tables | one import, exactly once, with its receipt | bridge |
| Companion, configuration | files only | start, stop, write settings | bridge |

Hard: the same message travels several times; every hop has a crash between
"done" and "recorded"; expiry races every step; the relay deletes content on
the strength of an acknowledgement. Correct means: announced content is not
lost before its targets have it; nothing is acknowledged before it is kept; a
lease has one holder; finished transfers stay finished and give their space
back; a request takes effect at most once, is decided once, and the phone hears
that decision.

### Analysis and advice on the server

| component | state it keeps | operations | talks to |
|---|---|---|---|
| Ingest and rules, `backend/app/service.py`, `main.py` | `events`, `advice`, `topic_suppressions` | ingest, evaluate, hold or publish advice | analysis queue |
| Gates, trust and reviews, `domain/gates.py`, `trust.py`, `review_engine.py`, `storage.py` | `trust_accounts`, `charters`, `error_ledger`, `speaking_freezes`, feedback, outcomes | earn a level, freeze it, answer, judge | service |
| Preferences, `storage.py`, `main.py` | `advice_preferences` with revisions | replace, remove, ask at the publish gate | settings screens |
| Analysis queue and budget, `analysis_queue.py`, `storage.py` | `analysis_jobs` (status, attempts, due time, lease), `analysis_model_reservations` | enqueue, claim, run, complete, retry, defer, settle, reclaim, retire; one consumer per process, several processes foreseen | refiner, gateway |
| Advice refinement, `advice_refiner.py` | none of its own | two model calls, then keep, rewrite or withhold | gateway |
| Localization queue, `advice_localization.py`, `storage.py` | `advice_localizations`: one leased row per advice and language | enqueue, claim, translate, store, retry | gateway |
| Attention, `storage.py`, `main.py` | `advice_attention` and its attempts | claim permits, report, defer, close | phone, desktop |

Hard: a worker that outlives its lease still runs; a crash leaves a provisional
advice, a reservation and a running job; the budget is shared by all tenants
and a job turned away has to be woken by somebody; a new event of a topic merges
into advice that may yet be withdrawn; evaluation asks the database one question
after the other while the user answers, judges and changes settings. Correct
means: the budget is never exceeded; a stale worker changes nothing it no longer
owns; attempts are bounded; at most one live advice per piece of evidence; every
job is eventually decided; nobody is told more, or louder, than preferences and
trust allow; a mistake counts once; nobody is reminded more than twice.

### Accounts and admission on the server

| component | state it keeps | operations | talks to |
|---|---|---|---|
| Accounts, `storage.py`, `main.py`, `invite_admin.py` | users, invites, bootstrap code, sessions, failures | register, login, rotate, change the password, remove a device, delete | all clients |
| Export admission, `account_export_admission.py` | one lease, the last request of each user, spool files | admit, stream, release, sweep | clients |
| Abuse controls, `abuse_controls.py` | rolling windows in memory | admit, sweep | all clients |
| Model and speech admission, `storage.py`, `stt_admission.py`, `local_stt.py` | requests and leases | admit, release | all clients |
| Merge of databases, `deploy/scripts/merge_private_alpha_databases.py` | the destination and its import ledger | plan, merge, verify, repeat | operator |

Hard: hashing a password takes long and happens between two transactions;
requests authenticated before a change finish after it; a clock is read before a
lock is waited for; leases lapse under running work; a merge meets rows of the
same name, copies that went on to live apart, and its own earlier runs. Correct
means: a code makes one account; what was ended stays ended; guesses are
limited; a slot is given once; merged rows keep their references and nothing is
counted twice.

### Clients and operations

| component | state it keeps | hard part |
|---|---|---|
| Desktop agent and outbox (`desktop/mouchen_desktop/agent.py`, `local_store.py`) | settings, session epoch, encrypted SQLite outbox and cache | three workers and background tasks outlive the session they were started for |
| Desktop screens (`ui.py`) | what is displayed | answers to questions of an earlier account |
| Android event sync (`sync/*.kt`, `data/MouchenDao.kt`) | Room outbox, demand flag | two workers and a flag; acknowledged means deleted |
| Android session, attention, feedback | session store, claim marks | a late answer of an old session |
| Android collectors, input method, screens | device services | exclusive use of the microphone |
| iOS app and extension (`ios/`) | a queue file shared by two processes | two writers of one file |
| Web application | none | none |
| Deployment (`deploy/scripts`) | image, database, backup | order of backup, switch and rollback |

The hazards that follow from this, each at the line where it bites, are listed
in `PROJECT.json` with the property that would notice.

## 2. Modules and runs

| module | models | proofs |
|---|---|---|
| `TransferPromise` | what a store of transfers promises (abstract) | |
| `RelayStore` | the relay, implements `TransferPromise` | `RelayStoreProofs` |
| `RequestPromise` | what becomes of a request (abstract) | |
| `RelayLocalSync` | phone, bridge and import endpoint over an assumed relay; implements `RequestPromise` | `RelayLocalSyncProofs` |
| `AnalysisQueue` | jobs, budget, drafts | `AnalysisQueueProofs` |
| `LocalizationQueue` | translations | `LocalizationQueueProofs` |
| `Accounts` | registration, login, sessions, deletion, exports | `AccountsProofs` |
| `DatabaseMerge` | the merging tool | `ReminderMergeProofs` |
| `ReminderDelivery` | permits on the server, receipts on the devices | `ReminderMergeProofs` |
| `Publishing` | evaluation, gates, answers, verdicts, preferences | `PublishingProofs` |
| `Admission` | rolling windows, model and speech admission | `AdmissionDesktopProofs` |
| `Desktop` | sessions, workers and outbox of the desktop | `AdmissionDesktopProofs` |

A module `MCx` gives `x` the small instance TLC checks. `MCTenants` extends
`Accounts`, `DatabaseMerge` and `ReminderDelivery` (by their MC modules, where they
have one) and runs them as one, `MCService` does so with `Publishing`, `Admission`
and `Desktop`: the parts share no state that is modelled, so a behaviour of the
composite is a behaviour of one part, chosen at first (`part`), while the others
stand still in one of their own initial states. The parts' names are disjoint
(`MergeInit`, `ReminderNext`, `DesktopSpec`, ...), so that a property in a run is
the very definition that the theorem about it names.

| run | question |
|---|---|
| `store_leases` | can unread content count as delivered, a current lease be taken over, a finished transfer return; does the store implement `TransferPromise`? |
| `store_disk` | can announced content be lost or the quota be exceeded; does space always come back (liveness)? |
| `sync_order` | is nothing acknowledged before it is kept; does the bridge stop owing a response only when the phone has it; does the phone keep showing the newest data? |
| `sync_answer` | is a request applied once, decided once and answered in the end, whatever is lost (liveness); does a response that is owed again go out under an unused key? |
| `queue_stale` | what can stalled, late and dead workers make visible or decide? |
| `queue_competition` | can a budget be exceeded; is every job decided though tenants and chats compete (liveness)? |
| `queue_wake` | does a comment on waking hold? (no, section 12) |
| `queue_duplicate` | does a docstring on duplicates hold? (no, section 12) |
| `localization` | are translations filed under the text they were made from, paid within the budget, and settled in the end (liveness)? |
| `tenants` | what do racing requests, repeated merges and lost reminders do to a user's account, history and attention? |
| `service` | what do racing evaluations, admissions and sessions say, let in and leave behind? |
| `desktop_language` | does a docstring on the language of an account hold? (no, section 12) |

Every module takes its sets and limits as CONSTANTS with named assumptions, has
one action per handler, transaction or exchange, and declares no RECURSIVE
operator where theorems are stated. Deadlock is not checked anywhere: each of
these systems may rest when nothing is left to do or its bounds are used up.

## 3. The relay store

`RelayStore.tla` models `relay/server.py` completely as far as transfers,
deliveries and files go; authentication and reports are left out.

*State.* `row` and `delivery` are the two tables; `blob` and `part` the two
files of a transfer (none, the declared bytes, other bytes); `handler`,
`streams` and `unlinking` what runs in the process and dies with it; `up`
whether it runs; `now` the clock; `issued` numbers the lease tokens, which the
code draws at random; `received` is history: who has read which content to its
end under which token.

*Actions.* A transaction (`BEGIN IMMEDIATE`) is one step; what a handler does
outside is a step of its own:

| code | actions |
|---|---|
| `reserve` | `Reserve` (its cleanup included) |
| `upload` | `UploadBegin`, `UploadReceive`, `UploadCommit`, `UploadFail`, `UploadCommitFails` |
| `claim`, `release` | `Claim`, `Release` |
| `download` | `DownloadBegin`, `DownloadEnd`, `DownloadAbort` |
| `acknowledge` | `Acknowledge`, `AcknowledgeAgain`, then `Unlink` after the commit |
| `cleanup`, `janitor` | `Cleanup` |
| `initialize` | `Restart` (with its cleanup) |
| process death | `Crash` anywhere, `CrashInUpload` between rename and commit, `CrashInCleanup` and `CrashInRestart` between unlinks and commit |

*Abstractions.* All transfers have one size, so the byte quota and the limits
on counts are one count, `Quota`. A failed idempotency check (HTTP 409 for a key
reused with another fingerprint) and a full store change nothing beyond the
cleanup and are no steps. The state 'cancelled' is never assigned by the code.

*Runs.* `store_leases`: one transfer, two devices of which one or both are
receivers, two leases each, lifetimes of 2 and 3, clock to 4. `store_disk`: two
transfers, room for one, one receiver. `MaxTime` stops the clock and `MaxClaims`
the leases per delivery. With windows and leases of one tick, a clock of 4 lets
each of them end before or after each other one. Two leases are enough for a
stale token to meet a current one, and two transfers with room for one for one to
take the place of another that is still being received.

*Fairness* (`store_disk`). Time passes; the supervisor restarts the service
(`ai-relay.service`: `Restart=on-failure`); the janitor runs once a minute while
it is up; `asyncio.timeout(600)` ends every upload; the line after an
acknowledgement's commit runs unless the process dies. Devices promise nothing.

## 4. Local processing through the relay

`RelayLocalSync.tla` models `docs/relay-local-sync.md` as the code does it: the
phone (`RelaySync.kt`, `RelayDatabase.kt`, `RelayProtocol.kt`), the relay, the
bridge (`bridge.py`, `client.py`) and the import endpoint.

*State.* Phone: `request`, `receipts`, `shown` (age of the data on display) and
`phoneJob`, what its worker is in the middle of. Relay: `transfer`, `body`,
`lease`. Bridge: `received`, `inbox`, `delivery` and `bridgeJob`. Application:
`receipt` and, as history, `effects`. Worker and bridge each do one thing at a
time (a mutex, a lock file), so a job record holds all that a process death or
an exception takes away; every HTTP exchange and every transaction is a step.
`env` is chosen at first and never changes: which requests there are, which of
them the application refuses, on which of them work may be cut short, how many
keys and attempts are used, how many transfers of a response the relay may lose.

*Abstractions.* The loops over inbox, requests and deliveries are a free choice
of the next item, which covers all their orders. Reservations, content and
leases may run out whenever they are held, with one exception the properties
need: content of a request (24 hours) outlives the phone's own 24 hours, which it
starts to count before it reserves. The relay forgets a response only after the
bridge recorded its transfer, that is, the bridge is not away for seven days
between a push and the next line. A message id never comes with two contents.

The relay here is an assumption, not `RelayStore`. That it takes no step which
`TransferPromise` forbids is proved (`AssumedRelayIsLawful`), and so is that
`RelayStore` implements `TransferPromise`; but two implementations of one
specification need not agree, so this bounds the assumption from one side only.
What the phone and the bridge ask beyond `TransferPromise` are the two exceptions
of the paragraph before, which rest on the lifetimes the code gives (24 hours,
7 days) and on the clocks of two devices, and are assumed.

*Runs.* `sync_order`: one request whose response is lost once or asked for again
and on which work may be cut short anywhere, or two requests of which one is
subject to that. `sync_answer`: one request, accepted or refused, whose answer
is lost once, or whose first transfer expires unread or comes late so that a
second key is used: then the request may come twice, the second time after its
response was delivered, and the response is owed again (`EachAskIsServed`). `MaxKeys`, `MaxAttempt` and `lost` bound repetition; the second key and the
second attempt are where a stale copy meets a new one, and a third only repeats
that. Requests are independent except for what the phone displays.

*Fairness* (`sync_answer`). The phone's worker comes back (WorkManager, every 15
minutes), so does the bridge (30 seconds), the relay ends uploads, leases and
reservations, and timeouts end what cannot go on. Interruptions and lapsing
leases are allowed any number of times but not for ever: `FairSpec` adds
`<>[][~Disturbance]_vars`. A system in which every exchange is cut off promises
nothing, and the code makes no claim that it would.

## 5. The analysis queue

`AnalysisQueue.tla` models the durable queue of model jobs
(`backend/app/analysis_queue.py`, `advice_refiner.py` and their transactions in
`storage.py`): a job is claimed under a lease, makes one or two calls of a
language model against hourly budgets, one per tenant and one for all, and ends
in advice or in none. Several processes work on one database; each has one
analysis slot, which is what a `Worker` is.

*State.* `job` is `analysis_jobs`, with the time until `next_attempt_at` and the
age of the lease; `reservation` is `analysis_model_reservations`, by event and
attempt; `direct` the rows of `global_model_usage` that chats, translations and
reviews put into the same budget; `advice` the nonterminal advice of each event;
`worker` what each process is in the middle of, all of which dies with it;
`old` the events whose discovery is no longer worth a call. `published` is
history: which attempt of which event made advice visible. Every transaction is
one step; a worker may stall between any two, so that its lease lapses, others
take its job, and it comes back.

| code | actions |
|---|---|
| `claim_analysis_job` | `ClaimNothing`, `ClaimDeferred`, `ClaimJob`, each with the recovery, retirement, reclaiming and settling the transaction begins with |
| `_refine_deterministic` | `Draft`, `Ask` (twice), `Promote`; `GiveUp`, `Drop`, `DropFails` |
| `_discover` | `Ask`, `Publish`, `GiveUp` |
| `record_analysis_model_call` | `Ask`, refused when the reservation is settled or used up |
| `complete_analysis_job`, `retry_analysis_job` | `Conclude`, `ConcludeFails` |
| `settle_analysis_model_reservation` | `Settle`, which wakes sleeping jobs |
| an exception outside the `try` block | `Abandon` |
| `next_due_analysis_user` | `Poll`; `CallsForClaim` is its condition |
| `reserve_global_direct_model_call` | `DirectRefused`, `DirectDecided` |
| start of a process | `Restart` (abandoned drafts, deferred jobs) |
| the rest of the world | `Enqueue`, `GrowOld`, `Close`, `Crash`, `Tick` |

*Time* is relative: a lease and a reservation have an age, a deferred job a time
to wait, each counted no further than the code distinguishes. `Tick` advances
all of them, so the state space is finite without a bound on the clock.

*Abstractions.* What the model answers and what gates and preferences say is a
free choice of the outcome. Discoveries of low severity need no second call and
others do; `Publish` may follow either. Which due job is taken is a free choice,
which covers all priorities. The hourly and the daily limit work alike and one
window stands for both. That an attempt reserves two calls is the code's
constant (`Calls`).

*Runs.* `queue_stale`: one deterministic job, two processes, three attempts, so
that a stale worker meets two successors. `queue_competition`: two tenants with a
job each, one process and a chat, and a budget that pays for one attempt at a
time. `queue_wake`: two tenants, three discoveries, two processes, nothing fails.
`queue_duplicate`: one discovery, one process. A lease lapses after one tick and
a window closes after two, so a reservation outlives its lease and leaves the
window while its worker is still at it.

*Fairness* (`queue_competition`). Time passes; a process that runs polls for due
work (`AnalysisQueueConsumer`) and goes on with what it claimed, since model
calls have timeouts; the container is restarted after it died. Crashes, and
direct calls that take the budget, may happen any number of times but not for
ever (`<>[][~Disturbance]_vars`): a chat that takes every call released would
keep the queue waiting, and the code sets nothing aside for the queue.

## 6. Translations

`LocalizationQueue.tla` models the durable queue of display translations
(`advice_localization.py` and its transactions in `storage.py`): advice of an
account that reads English gets a row, a worker of some process leases it, pays
for a call, translates and stores.

*State.* `advice` is reduced to its status, the version of its text and whether
that is English; `row` is `advice_localizations`, one per advice, with the
version it is about, attempts, lease and holder; `usage` the paid calls of a user
that still count; `work` what the worker of each process has claimed; `asked`
the users whose history is still to be enqueued, which is a transaction of its
own after the choice of a language; `due` and `busy` the live analysis, as far as
it goes first and holds the slot of a process. `made` is history: paid calls for
the present text.

| code | actions |
|---|---|
| choice of language, `enqueue_advice_localizations` | `SetLocale`, then `Enqueue` |
| `insert_advice`, `promote_advice`, `delete_advice`, `update_advice` | `Insert`, `Promote`, `Discard`, `Refine` |
| `claim_next_advice_localization` | `Claim`, with the recovery of lapsed leases and the rows it passes over |
| a translation | `Reserve`, `Complete`, `Fail` |
| start of a process | `Crash` (the new one enqueues everybody's history) |
| live analysis | `AnalysisArrives`, `AnalysisTakes`, `AnalysisEnds` |
| time | `Tick`, relative as in section 5 |

*Run.* `localization`: two advices of one or two users and two processes, from
four beginnings: the language is switched back and forth and the text refined
once (`Changing`); it is refined twice and a process dies (`Refining`); two
translations compete for one paid call a day (`Share`); two users, with live
analysis in between (`Users`). Two attempts, a lease of one tick and a day of two
let a lease lapse under a worker while its payment still counts.

*Fairness.* Time passes; requests end; the consumers and the analysis of a
running process poll (`AdviceLocalizationConsumer`, `AnalysisQueueConsumer`); a
call to a model ends in one way or another, since its client has a timeout.
Deaths of processes and arrivals of live analysis are bounded by the case.

## 7. Accounts, merged histories, reminders

One run, `tenants`, holds the three.

### Accounts

`Accounts.tla` models registration, login, sessions, password changes, deletion
and account exports. Hashing a password is slow and happens outside the database
lock, so those requests read, work, and write in another transaction; a request
with a session is authenticated before all of that. A `Caller` is a request
under way and `call[c]` what it has read so far. The tables are `users`, `codes`
(invitations and the bootstrap code), `sessions`, `failures`, `lease`, and
`spools` on disk; `rows` stands for everything else a tenant owns and `retired`
for the ids of deleted users. Random ids are drawn from a counter. History:
`joined` (who registered with which code), `epoch` (when a password was last
changed), `guesses` (wrong passwords tried in a window).

`Register`, `Login` and the operations that `StartSession` enters are the first
halves, `FinishRegister`, `FinishLogin`, `FailLogin`, `ChangePassword`,
`DeleteAccount` the second ones; `AcquireLease`, `StartSpool`, `FinishSpool`,
`FailSpool`, `FinishStream` are an export; `CreateInvite` and `RevokeInvite` the
operator's tool.

*Scenarios*, with two requests at a time: registrations with one invitation, the
bootstrap code or none, with or without a tenant of before there were accounts;
a password change against logins, other changes and deletion; devices that come
and go; deletion while work goes on, and the name taken again; guessing; exports
of two accounts with crashes. All limits are 2. So that
a limit can be exceeded, the case of devices begins with two live sessions and two
ended ones: a login from a third device then has to end one, and the history has
to give one up. The ids of a case (`ids`) bound how many logins and registrations
can finish: 9 let two logins of that case finish, 7 let a login and a change of
password finish in either order, also a login that had checked the old password
before the change.

`EndedStaysEnded` says that no session *issued before* a change of password is good
after it. It does not say that the old password gets nobody in: `login_account`
checks the hash, which takes long, and issues the session in another transaction
that looks at the hash no more (`storage.py:2544`); a login overtaken by a change
gets a session, and puts a hash of the old password back if the one it read was
weak. The model does both.

### Merged histories

`DatabaseMerge.tla` models the operator's tool that merges users of one database
into the account of another (`merge_private_alpha_databases.py`): a run walks
tables, users and rows in one transaction (`db` is what it sees, `saved` what a
failure or a dry run goes back to), records every row in its ledger, renames what
collides and adds up what may be added. `SourceDrift` and `Abort` end a run;
`EnsureAttention`, `ClaimReminder`, `Answer` are the application between runs and
`SourceMovesOn` the source. Four pairs of histories: an answered copy and a
stranger; two copies of one account that use the destination's ids; orphans; two
strangers with the same ids. Two partitions can come in either order, together,
and again. What a history may be is `HistoryAssumption`: tables hold what their
columns, keys and unique indexes let in (`TableHolds`, `OneIsLive`), and no id is
yet one that a run would make for a row of the source, these being digests
(`Renamed`, `_deterministic_id`). And `BooksAssumption`: no trust account claims more
judgements than its user has judged advices (`Backed`; `record_outcome` counts one in
the transaction that keeps the outcome, and no advice is deleted once it was
published), and no two judged advices of a source have the same content, since the
digest covers the moment the prediction is due, which every detector and the refiner
take from the clock. TLC evaluates both assumptions on the four pairs.

### Reminders

`ReminderDelivery.tla` models `advice_attention` with its attempts on the server,
the desktop's receipts and its two threads that report them. `case` is what the
server keeps of an advice; `held` the permits a device has in memory, `receipt`
what it still has to report, on disk, `round` and `copy` the report round of the
agent's thread (which read the receipts when it began), `inflight` the reports
of the user interface. `popups` is history: what the user really saw. `Claim`,
`Show`, `ReportAnswered`, `ReportFails`, `BeginRound`, `RetryAnswered`,
`RetryFails`, `Finalize`, `Restart` are the device; `Publish`, `RecordFeedback`,
`RecordOutcome`, `ListAdvice`, `WithdrawExpired`, `SetPaused` the rest. One advice on
two devices, interval 2, lease 1, clock to 4: a second permit can go to the other
device while the report of the first is still on its way. Three cases: a restart
or a lost message with an answer that ends the reminders (`Faulty`) or defers
them (`Deferred`), and a pause (`Paused`). In `Deferred` the advice is withdrawn at
its deadline before it could be closed as ignored; the other two close it.

`ReportedBeforeForgotten` is about receipts that were written: they are not dropped
while the server still waits for them. A device that dies after it showed a reminder
and before the receipt is on disk (`ui.py:2374`), or cannot reach the server until
the lease ends, does let the permit lapse; the model contains both.

## 8. Publishing, admission, the desktop

One run, `service`, holds the three.

### Publishing

`Publishing.tla` models what may be said to one user: `ProactiveService.evaluate`,
which asks the database one question after the other, each in a lock of its own,
the gate in the transaction that publishes, refinement and its review, answers,
outcomes and preferences. `worker` is what an evaluation has read so far, `judge`
what a request for an outcome has, `page` what a settings screen shows. An
advice has two states, as in the code: `column`, which the duplicate gate reads,
and `said`, the payload the API shows. Candidates are constants: rules and
discovery turn events into them, and only what the gates read is kept.
`Arrive`, `Reanalyse`, `Evaluate` are evaluations; `Feedback`, `ReadForOutcome`,
`RecordOutcome`, `RepeatOutcome` the answers; `SetCharter`, `Open`, `Save`,
`Delete` the settings; `List` the reading that withdraws what has expired.

Scenarios: preferences that change under way (`Limits`, `LaterLimits`), quotas
and cooldowns (`Quotas`, `Important`), errors that freeze levels (`Mistakes`),
answers during refinement (`Judging`), advice of before results of adoption were
foretold, answered and judged (`Legacy`), silenced topics (`Silence`), two screens
(`Settings`).

A verdict counts for trust only if something was foretold that it can be held against:
for advice read as adopted the result of adoption, for other advice a risk that can be
observed (`Calibrates`, `storage.py:6586`). Evaluation lets no advice out without a
result of adoption (`service.py:109`), so only rows of before lack one, which is why
that case begins with two. `MistakesLowerTheVoice` speaks of the errors on record when
the level was read: one recorded between that reading and the insertion lowers only
what comes after.

### Admission

`Admission.tla` models the rolling windows every request passes, with their
reservations, sweep and loss at a restart, and the durable admission of model
requests and of speech recognition up to the end of the work: look at the clock,
wait for the lock, admit, read the body, work, release, any of which may be
cancelled, fail or outlive the lease. Cancelling a request does not end the thread that
recognises speech for it (`asyncio.to_thread`): the lease is released, the lock is free,
the next recognition may begin, and the thread runs on (`adrift`) until it ends by itself
(`ThreadEnds`). `LimitsHold` says that it is over before the lease would have ended; how
many such threads run at a time is bounded by the rate of requests, not by the slots. A scenario looks at one kind of request
(`Speech`, `Deleted`, `Model`, `Slow`, `Template`, `Password`), with two requests
at a time.

### The desktop

`Desktop.tla` models the agent between the user's screen, its three workers
(collector, events, advice), the screen's background tasks and the server. A
context is the session epoch with the identity of the settings, taken before a
request and compared after it; the model keeps every such pair of moments apart.
Action groups are named after what goes on: `Observing`, `Syncing`, `Advising`,
`Choosing` (a language), `Responding`, `SubmitProblem`, `SigningOut`,
`SigningIn`, `Launches`, `LoopEnds`, `Drops`, `ProgramDies`; at the server `Revoke` and
`SpeakElsewhere`. History: `astray`, the events that reached another account than
the one they were observed under. Eight cases with one or two of each thing that
may happen: another account follows, the session ends, the program dies, no
consent, choices of language here and elsewhere, answers.

## 9. What is proved

TLAPS checks the theorems below for every value of the constants that satisfies
the named assumptions of the module. Each has the same three parts: Init implies
the inductive invariant, every step keeps it (one case per action), and the
invariant implies the property. Of the larger invariants TLC checked the
formula on the instances of section 2 before it was proved.

### The relay store, `RelayStoreProofs`

From `DomainAssumption` (the null values are none of the devices and keys,
lifetimes are positive) and `BoundAssumption` (limits are naturals).

| theorem | property | inductive invariant |
|---|---|---|
| `TypeCorrect` | `TypeOK` | itself |
| `ContentIsSafe` | `NoLossBeforeDelivery` | `ContentInv` |
| `DeliveryIsTruthful` | `DeliveredMeansEveryTargetRead` | `DeliveryInv` |
| `QuotaHolds` | `QuotaRespected` | `QuotaInv` |
| `LeasesAreExclusive` | `LeaseIsExclusive` | types suffice |
| `NothingIsRevived` | `NoRevival` | `DeliveryInv` |
| `RelayKeepsPromise` | `KeepsPromise` | `DeliveryInv`, `TokenInv` |

`NoLossBeforeDelivery` alone is not inductive: `Unlink` removes a file because
an earlier step put its transfer on a list, and an upload publishes a file on the
strength of what its handler verified earlier. `ContentInv` therefore adds that
every pending unlink belongs to a delivered (or deleted) record, and that a
handler that verified its content has that content in its `.part` file, unless a
cleanup took it away. `DeliveryInv` states per delivery what its flag is worth: a
delivery marked downloaded or acknowledged has its token in `received`, a
transfer that does not exist yet has no deliveries, and a delivered one has no
outstanding ones. `QuotaInv` adds that the live transfers are finitely many,
which `Cardinality` needs and no type gives, since `Id` may be infinite.

`RelayKeepsPromise` is the refinement: a cleanup is a `Sweep` of the abstract
store (`SweepIsPromised`), also the one a restart makes over the rows it has put
back (`RecoveryIsUnseen`); a reservation is `Open` in the room its cleanup made;
the second transaction of an upload is `Publish`; an acknowledgement is `Take`,
and all else is a stutter. That an acknowledgement takes a transfer off the list
of that device needs `TokenInv`: a delivery that waits has no token, so whoever
shows one holds the lease.

### Local processing, `RelayLocalSyncProofs`

From `BoundAssumption` and `EnvironmentAssumption` (every case of `env` stays within
the bounds).

| theorem | property |
|---|---|
| `ChainHolds`, `TypeCorrect`, `AnswersAreDecisions` | (the invariants themselves, types) |
| `AcksFollowContent` | `NothingAckedBeforeKept` |
| `BridgeStopsTruthfully` | `StopsOnlyWhenAnswered` |
| `NewestShown` | `ShowsTheNewest` |
| `PromiseIsKept` | `KeepsPromise`, that is, `RequestPromise` |
| `AsksAreServed` | `EachAskIsServed` |
| `AssumedRelayKeepsPromise` | (the assumed relay takes no step `TransferPromise` forbids) |

The invariant follows a message along its chain: what a job of the phone or the
bridge is in the middle of agrees with the transfer it is on; what is in a
transfer was kept by its sender; what the bridge has recorded as received is in
its inbox or processed; a response says what the application's receipt says.
`AsksAreServed` needs `KeysInv` beside it: the bridge sends under the latest key of a
delivery that is open and not yet noted as sent, no later key has been used, and a
transfer the bridge was told is delivered still is (the relay forgets no response
whose transfer the bridge has not noted). `BridgeOpens` shows that nobody else opens
the transfer of a response.

### The analysis queue, `AnalysisQueueProofs`

From `DomainAssumption` (every event has an owner) and `BoundAssumption`
(durations and attempts are positive, limits naturals, events and direct calls
finitely many).

| theorem | property | inductive invariant |
|---|---|---|
| `TypeCorrect` | `TypeOK` | itself |
| `BudgetRespected` | `BudgetHolds` | with `NothingIsChargedUnreserved` |
| `SpendingIsHeld` | `SpendInv` | itself |
| `StaleWorkersSpendNothing` | `StaleWorkersCannotSpend` | `SpendInv` |
| `JobsAreDecidedOnce` | `DecidedOnce` | `SpendInv`, `DecidedRowsAreClear` |
| `OnlyReviewedIsVisible` | `NothingUnreviewedIsVisible` | `PaidInv` |
| `ReportsAreTrue` | `PublishedTruthfully` | `TruthInv` |

*Budget.* What a window holds is a set of units: the calls reserved, or made,
one by one, and the direct calls. `NoDearer` compares two reservation tables
entry by entry; settling, recording a call and growing older lead to a table
that is no dearer, so to a subset of the units. Only two steps add any, and each
of them in the transaction that counted: a claim adds the two units of its
reservation, a direct call one. That an entry without reservation carries no
calls is needed because its age is not kept. As in the code a call has the age of its
reservation, not its own: calls made late in an attempt leave the window with the
reservation, so the calls actually made within a window may be more than the limit.

*Stale workers.* `StaleWorkersCannotSpend` says that a call is charged only to
the running attempt of a job, and the code checks no such thing: it checks that
the reservation is open. `SpendInv` is why that is enough: every transaction
that takes a job from an attempt settles the attempt's reservation in the same
breath, or is the conclusion of the very worker that would spend. For the latter
no two workers may be at work on one attempt, which follows from attempts being
numbered upwards, and this in turn from a job not yet enqueued having none.

*Decisions.* `Tick` leaves a decided row alone only because nothing is left to
wait for in it, which is `DecidedRowsAreClear` (a lemma, `DecidedRowsStayClear`).

*What is visible.* The gate that publishes does not look at reviews: it trusts
the worker that calls it. `PaidInv` relates where a worker stands to the calls
its attempt has been charged, so that whoever stands before a promotion has had
its reviewing call, and `TruthInv` relates the report a worker is about to write
to what was published under its attempt.

### Translations, `LocalizationQueueProofs`

From `LimitAssumption`, `CaseAssumption` (where it begins) and
`ProcessAssumption`. `QueueStaysInOrder` proves the invariant `Translating`,
`TranslationsStayFaithful` the property `TranslationsAreFaithful` from it.
`Translating` is the conjunction of `TypesHold`, `TextsAreNumbered` (versions only
grow, so an old claim never meets its number again), `WorkIsOnTexts`,
`RowsAreGood` (a running row is the attempt of the worker it names, and paid calls
for the present text are covered by the attempts of its row, one of them perhaps
still to be made), `EnglishIsFree` and `BudgetsHold` (the calls of a user stand in
the order of their age, so that the first to be forgotten is the first of the
list; a call is only added where the day has room). The last is why the waiting
time the code computes from one entry of the list is right.

### Accounts, `AccountsProofs`

From `StartAssumption` (the database a case begins with keeps its own unique
indexes and limits), `LimitAssumption` and `NobodyAssumption`.

| theorem | property | inductive invariant |
|---|---|---|
| `RecordsStayInOrder` | | `Grounds`: types, references, and what every pending request has read |
| `CodesMakeOneAccount` | `CodesAreHonoured` | `Grounds`, `CodesAreAccounted`, `LegacyIsClaimed` |
| `NothingComesBack` | `EndedStaysEnded` | the same with `SessionsAreCurrent` |
| `PasswordsGuardAccounts` | `OnlyWithThePasswordInForce` | `Grounds` |
| `ExportsTakeTurns` | `OneExportAtATime` | `Grounds`, `ExportsHoldTheLease` |
| `LoginsStayLimited` | `LoginsAreLimited` | `Grounds` with the counts of sessions, hashes and `GuessesAreCounted` |

`OnlyWithThePasswordInForce` needs `HashesAreSeen`, a part of `Grounds`: what a
request compares with the row in its second transaction is the hash whose word it
verified before. `SessionsAreCurrent` numbers sessions and password changes by
the ids drawn, so that "from before the change" is an inequality. `LoginsAreLimited`
bounds guesses although a failure counts only after its slow hash: wrong passwords
tried in a window are those counted plus those still to come from requests that
read the row before it was locked, and there are fewer of these than hash slots.

### Reminders, `ReminderMergeProofs`

From `ReminderAssumption`. `RemindersStayInOrder` proves the invariant
`Reminders`; `RemindedAtMostTwice`, `IgnoredWasSeenTwice` and
`ReportedIsNotForgotten` prove the module's `AtMostTwoReminders`,
`IgnoredMeansSeenTwice` and `ReportedBeforeForgotten`, of which the run `tenants`
checks the instances. Two permits do not bound popups by themselves: a permit
may wait in a device's memory, be shown, be reported late or twice, or be dropped.
`Reminders` counts them: popups shown plus permits waiting are no more than
permits given, permits reported as delivered no more than popups, and when both
were delivered the last popup came before the second expired. For this each
device's permits and reports are ordered (a report is older than every permit
waiting, a copy read by a round no newer than the receipt on disk), each permit
is reported by one device, and of the attempts of an advice only the last can be
claimed, each later one expiring later.

### Publishing, `PublishingProofs`

From `CandidateAssumption`, `PolicyAssumption`, `CaseAssumption` and
`NobodyAssumption`.

| theorem | property | inductive invariant |
|---|---|---|
| `TablesStayInOrder` | | `Tables`: types, what evaluations hold is stored, revisions bounded |
| `PublishesInLimits` | `PublishesWithinLimits` | `Tables` |
| `MistakesLower` | `MistakesLowerTheVoice` | `FreezesHold`, `VoicesAreQuiet` |
| `BooksAreBalanced` | `BooksBalance` | `AccountsAgree` |
| `NothingIsOverwrittenUnseen` | `NothingOverwrittenUnseen` | `ScreensAreTruthful` |

`freeze` has one expiry per level, overwritten by every error that exceeds the
budget, while the property speaks of all errors on record. `FreezesHold` bridges
the two: every error that exceeded its level's budget when it came is outlived by
the freeze of that level, or has ended. `VoicesAreQuiet` then relates the level an
advice was given to the errors its evaluation had read. `AccountsAgree` is three
agreements: column and payload of a row differ only as a pending refinement
explains, trust counts the verdicts on what was foretold, and the ledger is fed by exactly the rows
answered or judged wrong. `ScreensAreTruthful` says that a screen that shows the
present revision shows the present content.

### Admission, `AdmissionDesktopProofs`

From `KeyAssumption` (keys of different kinds are different), `LimitAssumption`
(limits and windows positive, durations naturals, requests under way finitely
many), `LeaseAssumption` (a lease outlives upload and recognition, as
`SttAdmissionConfig` makes it) and `CaseAssumption`. `AdmissionStaysInOrder`
proves `AdmissionInv`, `AdmissionLimits` the module's `LimitsHold`, of which the
run `service` checks an instance.

A request looks at the clock, and may get the lock only later: it sweeps the
deques and the tables as of a moment that is past, and appends hits out of order.
Three parts of the invariant carry the proof. `Windows` says that for every
moment from now on the deque of a key holds as many hits that outlive it as were
let through; for the present moment alone this is not inductive, since two
deques that agree now may end at different times. A sweep keeps it because it
drops a prefix, all of it dead at a moment before now (`DeadPrefix`,
`ExpiredKeepsTheLiving`). `Slots` bounds the tables as they are, with the rows
that have ended and were not looked through: the count a late request takes is
then never too small. `Covered` says that the lease of a request outlives the
*rest* of its upload and work, not only the present; hence no sweep, however late,
takes it away, and a release takes only its own, ids being unique even against
requests whose lease is gone (`NewIdIsFree`). With a sweep that ran ahead of
the clock the proof fails at `LookingThroughCovers`, where it should.

`granted` and the tables are sets of rows with numbers, as the tables are; the
deques are sequences.

### The desktop, `AdmissionDesktopProofs`

From `NamesAssumption` (no account has the null name, the system's language is one,
and no language is taken for the outcome of a request), `TriesAssumption` (a limit on
attempts is a natural) and `SituationsAssumption` (what the program may begin with).
`DesktopAgrees` proves the invariant `DesktopInv`, `DesktopKeepsAccountsApart` the
module's `AccountsAreKeptApart`, of which the run `service` checks an instance.

The property names the store and the screen only, but an event of one account is
sent under another by a worker that read the store, or its context, long before.
`WorkersServeOneAccount` therefore says of every thread, whatever place it has
reached, that it belongs to an epoch not later than the present one, that no thread
lives while accounts are being changed (the reason is `Joined`: the screen goes on
only when all three are dead, and a timeout goes back), and that between its first
look at the settings and its last the user is the same and the token is one of that
user's sessions. `SessionIsItsUsers` is the same for the settings and the screen.
`EventsAreTheUsers` relates the store to the settings except between new settings and
an emptied store, which is where a death of the program leaves `torn`;
`BatchesHaveTries` and `EventsNumbered` are needed for its types.

`LanguageIsTheServers` speaks of a moment at which nothing is under way, so the
invariant has to follow a choice of language from the click to the settings.
`ChoicesInOrder` says that at most one request about the language is at the server,
because the lock around it is shared with the refresh, that tickets, choices let in
and choices clicked are ordered, and that a choice that was overtaken leaves a newer
one behind. `LanguageKnown` then says, unless the language may have changed behind
the program's back, where the server's language is known: in the settings, in what
was last confirmed, in the answer the event worker holds, or in the answer of a
choice still to be settled. The proof found two defects of an earlier version of the
model: launching with an accepted token has to leave the epoch as it is, and a death
of the program makes the language unsure exactly if it differs from the server's.

### Merged histories, `ReminderMergeProofs`

From `UserAssumption` (finitely many partitions) and `HistoryAssumption` (section 7);
`JudgementsStayBacked` from `BooksAssumption` too.

| theorem | property |
|---|---|
| `MergeAgrees` | (the inductive invariant `MergeInv`) |
| `IndexesNeverStopAMerge` | `OneLiveAdvice` |
| `ImportsRemindNobody` | `NoReminderReplayed` |
| `ImportsKeepTheirReferences` | `ReferencesSurvive` |
| `RunsDoWhatTheySay` | `RunsKeepTheirWord` |
| `JudgementsStayBacked` | `JudgementsAreBacked` |

`ImportsRemindNobody` says two things: an advice that an import brought has no reminder
due, and what was answered at the source, by its status or by feedback, has none due or
claimed here, though the destination had that advice and reminded of it. For the second
`RemindersHold` follows each ledger entry to the reminder of what it became.

`MergeInv` has four parts: `SourceHolds`; `Holds` of the destination as the run sees
it and, since a failure goes back to it, of the one committed; and `RunAgrees` of the
run. `Holds` states what a destination owes to its own ledger: `Books` (one entry for
a row; none before the entries of all goals, events and advice its row may refer to,
which is what the order of tables is for), `NamesMade` (an id of the making of a run
is there only if its row was imported, so that a new one is free), `RemindersHold`,
`OneIsLive`, and `ImportsHold`, which follows every entry to the row it became.
`ReferencesSurvive` is a consequence; it is not inductive by itself, since a row
imported now refers to what an *earlier* run recorded. `RunHolds` relates the run to
the ledger: the places passed are dealt with, those of the present place except for
what is left to do, and the id map holds nothing the ledger does not. `Settled` is
why a run with nothing left to do is at its end: nothing lies ahead of it. `Progress`
compares with the last commit: entries only grow, nothing was taken, and if anything
changed, some row of the users had not been imported.

Every way to deal with a row shows only that it is `Lawful`, which is about the
rows, reminders and the entry of the table at hand; `LawfulHolds` derives `Holds` of
the new destination from that once and for all, `RunDeals` and `OnwardGoes` the
progress of the run, `HandledKeeps` all of `MergeInv`. `Onward` chooses the least
place ahead; that there is one comes from the well-foundedness of the order of
places (`WFMin` of the library), not from an induction.

`IndexesNeverStopAMerge` states exactly the two unique indexes: one open advice
(provisional or active) for a topic, one live advice (adopted ones as well) for an
evidence. A stronger form, in which adopted advice is alone with its topic too, is
false for histories that the indexes admit.

`JudgementsStayBacked` needs an invariant of its own, `BooksInv`, beside `MergeInv`. That
accounts claim no more than there are outcomes is not inductive: the outcomes of a user
arrive tables before the account that claims them, and in between they must not be
credited to anyone. So `AccountBacked` counts judged advice *without* what is set aside
(`SetAside`): advice of users nothing of whose advice was there before and whose account
is still to come. When such an account comes it is added up (`sum_once`), and what it
claims is just what is set aside no more: every judged advice of the user became a judged
advice (`ImagesAreJudged`), no two the same (`ImagesBack`, an injection), none of it set
aside for someone else (`ImagesAreFree`), and all of it was till now (`ImagesWereAside`),
so that the two claims have nothing in common (`BothBacked`). When some advice was there
(`component_max`) each claim is backed by itself. What carries these four is the rest of
`BooksInv`: an advice has the content of each of its entries; two entries that found no
advice like theirs have different ones; a judged advice's image is judged once both rows
are in; after a commit either all accounts of a user are in or nothing is (`Whole`, from
`RunsKeepTheirWord`); and within a run (`RunBooks`) the set of overlapping users misses no
one whose advice was there, and of two users that share an advice the later one is the
one that found it. `BooksBack` shows the claim while a run is in progress, too.

## 10. What is only model-checked

TLAPS, in this version, proves neither liveness under fairness nor facts about
ENABLED, and no induction over data. These remain with TLC:

- Liveness: `EverythingIsReclaimed`, `EveryRequestIsAnswered`,
  `EveryJobIsDecided`, `EveryTranslationSettles`.
- The three statements that code and comments disagree on (section 12) are
  counterexamples, found by TLC.

The proofs are about the modules as written. That a module says what the code
does rests on reading; `PROJECT.json` gives the lines for each definition.

## 11. What is not modelled

*Relay:* authentication of devices, limits on header and metadata size, status
reports, byte-exact sizes (an expired upload goes on filling its `.part` file
outside the quota until its handler ends).

*Local processing:* the stop-sync flag, changes of the connection settings,
quarantine of malformed messages, the batches of 100 and an item that fails for
ever in front of others.

*Analysis queue:* priorities, the second window, the refinement that answers an
upload directly without a job (`main.py`), a waiting job that becomes
deterministic when its event is sent again, the consent for cloud models,
backfill. A draft that a stale worker inserts after the claim of its job removed
the drafts may swallow the warning of the attempt after it (`service.py:198`);
the code counts that as published, and no property contradicts it.

*Translations:* rows of advice published later than the last enqueueing round are
enqueued by the next one; a refusal by the daily budget uses up an attempt, as in
the code; the texts themselves.

*Accounts:* legacy principals and tokens, expiry of rows that count failures, the order of equally old sessions (a
free choice), a clock that moves while a login hashes. Deleting an account
frees the export lease it holds while its stream goes on.

*Merging:* the backup before the transaction, the revision of a merged
preference, sums of trust where goals had come to differ.

*Publishing:* a topic silenced between the reading of the silenced topics and
the insertion is published once more (`service.py:165`, modelled, and no property
says otherwise); an adoption is refused after the advice was called wrong
(`test_error_budget.py:427`), but not when a refinement under way has written the
payload back in between, which `BooksBalance` describes; an outcome may be
judged on what was read before an adoption; goals of several domains; event types
in preferences.

*Desktop:* legacy mode, edited settings, a manual pause, time and back-off. A
program that dies between new settings and an emptied store (`agent.py:560`) is
modelled (`torn`), and `AccountsAreKeptApart` makes no claim for its next session.
The lists of goals that one account asked for and another sees (`list_goals` and
`create_goal` are not bound to a session), the write-backs of a stale copy of the
settings (`agent.py:1185` and following) are left out.

*Components without a module* are listed in `PROJECT.json` with the reason for
each: Android (event synchronisation, session, attention, device services), iOS,
the web application, deployment, privacy and text rules, the companion and
one-off scripts. Rules over text, prompts and screens have no state to go wrong
in the sense of this development.

## 12. Where code and comments disagree

*Waking one job is not always enough* (`queue_wake`, `storage.py:4358`). When an
attempt gives calls back, the settlement wakes one of the jobs that sleep for the
shared budget, on the grounds that each settlement wakes the next. The job it
picks may belong to a tenant whose own budget is used up: the next claim then
puts it to sleep for that budget, nothing is settled, and the jobs of other
tenants sleep on although the shared budget could pay for them. They wake when
their own deferral ends, at the latest after a window, so no job is lost
(`EveryJobIsDecided`).

*The queue may repeat advice* (`queue_duplicate`, `analysis_queue.py:120`).
Publishing and completing are two transactions. If the process dies in between,
the job runs again; what keeps the second advice away is the first one, and once
the person has dismissed it before the lease lapsed, the same event is brought up
a second time.

*Refreshing the language may end synchronisation* (`desktop_language`,
`agent.py:930`). The comment says that a locale refresh "must never make
collection or event synchronization appear offline". When a choice of language
was let in while the refresh was reading, `_refresh_account_locale_once` returns
None and `_sync_loop` returns (`agent.py:935`): the event worker of a session
that goes on is gone until the next sign-in or start of the program. Events stay
in the store meanwhile.

## 13. Plan

Every safety property that a passing run checks is now a theorem. What the merge owes
without `BooksAssumption` is less: a source with two judged advices of the same content
would come to a destination as one advice with one outcome, while its account is taken
over with both judgements (`component_max`), and an account that begins with more
judgements than outcomes keeps them. Candidates for further modules are the event synchronisation and the
session fences of the Android client, which repeat the protocols of `Desktop` with
two workers and one flag, and the queue of the iOS client, which two processes share.
