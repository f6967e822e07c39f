--------------------------- MODULE RelayLocalSync ---------------------------
(***************************************************************************)
(* Requests from the phone to the business application on the computer and *)
(* back (docs/relay-local-sync.md).  Four parties: the phone's worker      *)
(* (RelaySync.kt), the relay (relay/server.py, here reduced to what the    *)
(* two ask of it), the bridge on the computer                              *)
(* (relay/bridge.py, relay/client.py) and the application's import         *)
(* endpoint (relay_import.py, Repository.atomic_relay_request).            *)
(*                                                                         *)
(* The worker (one coroutine mutex) and the bridge (one lock file) each do *)
(* one thing at a time: phoneJob and bridgeJob say what, and are all that  *)
(* a process death, a lost answer or any other exception takes with it.    *)
(* Every HTTP exchange and every transaction is one step.  The loops over  *)
(* inbox, requests and deliveries are abstracted to a free choice of the   *)
(* next item, so every order the loops can produce is covered.             *)
(*                                                                         *)
(* Time is abstracted: a reservation, a finished transfer or a lease may   *)
(* run out whenever it is held, except that content of a request (ttl 24   *)
(* hours) does not run out before the phone's own 24 hours have passed,    *)
(* which it counts from before it reserved the transfer.                   *)
(*                                                                         *)
(* A definition named Op_Variant is Op as a plausible slip would have      *)
(* written it; no specification uses it.                                   *)
(***************************************************************************)
EXTENDS Integers, FiniteSets

CONSTANTS
    Request,    \* message ids
    MaxKeys,    \* bound: transport keys the phone uses for one request
    MaxAttempt, \* bound: last attempt number of a response
    Environment \* what a behaviour may be given to cope with, see env

ASSUME BoundAssumption ==
    /\ MaxKeys \in Nat \ {0}
    /\ MaxAttempt \in Nat

\* The requests the phone submits; the ones of them the application refuses with
\* HTTP 400/409/413/422; the ones on which work may be cut short; how many keys
\* and attempts may be used; and how many transfers of one response the relay
\* may lose.
ASSUME EnvironmentAssumption ==
    Environment \subseteq [submitted: SUBSET Request, malformed: SUBSET Request,
                          cut: SUBSET Request, keys: 1..MaxKeys, attempts: 0..MaxAttempt, lost: Nat]

VARIABLES
    env,       \* what this behaviour has to cope with; it never changes
    request,   \* phone: relay_requests
    receipts,  \* phone: relay_receipts, the response taken for each request
    shown,     \* phone: responseAt of the records on display
    phoneJob,  \* phone: what the worker is doing
    transfer,  \* relay: state of each transfer
    body,      \* relay: the response a transfer carries
    lease,     \* relay: whether its receiver holds a current lease
    received,  \* bridge: transfers in table received
    inbox,     \* bridge: status and response in table inbox
    delivery,  \* bridge: table deliveries
    bridgeJob, \* bridge: what the process is doing
    receipt,   \* application: relay_receipts
    effects    \* application: business mutations made for a request

phoneVars == <<request, receipts, shown>>
relayVars == <<transfer, body, lease>>
bridgeVars == <<received, inbox, delivery>>
appVars == <<receipt, effects, env>>
vars == <<env, request, receipts, shown, phoneJob, transfer, body, lease, received,
          inbox, delivery, bridgeJob, receipt, effects>>

-----------------------------------------------------------------------------
(* A request travels under the phone's n-th transport key for it, a        *)
(* response under the key digest(response, attempt, target).               *)

ToComputer(m, n) == [of |-> m, kind |-> "sync-request", n |-> n]
ToPhone(m, a) == [of |-> m, kind |-> "sync-response", n |-> a]

Transfer ==
    [of: Request, kind: {"sync-request"}, n: 1..MaxKeys] \cup
    [of: Request, kind: {"sync-response"}, n: 0..MaxAttempt]

IsRequest(t) == t.kind = "sync-request"
TransferState == {"none", "uploading", "writing", "ready", "expired",
                  "delivered", "gone"}

\* A response: its ok field and created_at.  The snapshot of goals and advice
\* in it is the application's state at that moment, so created_at stands for
\* it too.  A response the bridge makes up carries none.
Response == [ok: BOOLEAN, at: Nat]
NoResponse == [none |-> TRUE]
MaybeResponse == Response \cup {NoResponse}
Refusal == [ok |-> FALSE, at |-> 0]

PhoneRequest == [state: {"none", "pending", "completed", "rejected"},
                 key: 0..MaxKeys,     \* transportKey
                 started: BOOLEAN,    \* transportStartedAt # 0
                 stale: BOOLEAN,      \* 24 hours after transportStartedAt
                 uploaded: BOOLEAN]   \* uploadedAt # 0

InboxRow == [status: {"none", "pending", "applied"}, response: MaybeResponse]

DeliveryRow == [status: {"none", "pending", "uploaded", "delivered"},
                attempt: 0..MaxAttempt,
                sent: BOOLEAN]        \* transfer_id is this attempt's

\* Sending: "post", "put", "sent", "told" (saw is the state the relay named).
\* Receiving: "claimed", "read" (whole body verified), "saved" (committed).
\* Importing: "calling", "answered" (saw is the answer).
NoJob == [step |-> "idle"]
Sending == [step: {"post", "put", "sent"}, on: Transfer] \cup
           [step: {"told"}, on: Transfer, saw: TransferState]
Receiving == [step: {"claimed", "read", "saved"}, on: Transfer]
Importing == [step: {"calling"}, of: Request] \cup
             [step: {"answered"}, of: Request, saw: Response]

TypeOK ==
    /\ env \in Environment
    /\ request \in [Request -> PhoneRequest]
    /\ receipts \in [Request -> MaybeResponse]
    /\ shown \in Nat
    /\ phoneJob \in {NoJob} \cup Sending \cup Receiving
    /\ transfer \in [Transfer -> TransferState]
    /\ body \in [Transfer -> MaybeResponse]
    /\ lease \in [Transfer -> BOOLEAN]
    /\ received \subseteq Transfer
    /\ inbox \in [Request -> InboxRow]
    /\ delivery \in [Request -> DeliveryRow]
    /\ bridgeJob \in {NoJob} \cup Sending \cup Receiving \cup Importing
    /\ receipt \in [Request -> MaybeResponse]
    /\ effects \in [Request -> Nat]

Init ==
    /\ env \in Environment
    /\ request = [m \in Request |-> [state |-> "none", key |-> 0,
                    started |-> FALSE, stale |-> FALSE, uploaded |-> FALSE]]
    /\ receipts = [m \in Request |-> NoResponse]
    /\ shown = 0
    /\ phoneJob = NoJob
    /\ transfer = [t \in Transfer |-> "none"]
    /\ body = [t \in Transfer |-> NoResponse]
    /\ lease = [t \in Transfer |-> FALSE]
    /\ received = {}
    /\ inbox = [m \in Request |-> [status |-> "none", response |-> NoResponse]]
    /\ delivery = [m \in Request |-> [status |-> "none", attempt |-> 0,
                                      sent |-> FALSE]]
    /\ bridgeJob = NoJob
    /\ receipt = [m \in Request |-> NoResponse]
    /\ effects = [m \in Request |-> 0]

-----------------------------------------------------------------------------
(* What a process is doing ends with an exception where it cannot go on,   *)
(* and elsewhere where env lets it.                                         *)

Stuck(job) ==
    \/ job.step = "put" /\ transfer[job.on] # "uploading"
    \/ job.step = "sent" /\ transfer[job.on] = "uploading"
    \/ job.step \in {"claimed", "saved"} /\ ~lease[job.on]

On(job) == IF job.step \in {"calling", "answered"} THEN job.of ELSE job.on.of

MayBeCut(job) == Stuck(job) \/ On(job) \in env.cut

-----------------------------------------------------------------------------
(* The relay's answers, each for both parties; job is the caller's state   *)
(* and next its state afterwards.                                           *)

KeyInUse(t) == transfer[t] # "none"

\* POST /v1/transfers: a key in use returns the transfer there is.
Post(job, next, content) ==
    LET t == job.on IN
    /\ job.step = "post"
    /\ IF ~KeyInUse(t)
       THEN /\ transfer' = [transfer EXCEPT ![t] = "uploading"]
            /\ body' = [body EXCEPT ![t] = content]
            /\ next = [step |-> "put", on |-> t]
       ELSE /\ next = IF transfer[t] = "uploading"
                      THEN [step |-> "put", on |-> t]
                      ELSE [step |-> "told", on |-> t, saw |-> transfer[t]]
            /\ UNCHANGED <<transfer, body>>
    /\ UNCHANGED lease

\* PUT .../content starts an upload the relay finishes or drops by itself.
Put(job, next) ==
    LET t == job.on IN
    /\ job.step = "put"
    /\ transfer[t] = "uploading"
    /\ transfer' = [transfer EXCEPT ![t] = "writing"]
    /\ next = [step |-> "sent", on |-> t]
    /\ UNCHANGED <<body, lease>>

\* The upload is over.  The phone asks for the state then; the bridge takes the
\* upload's answer.  One that expired while it ran may end either way.
Uploaded(job, next, state) ==
    /\ job.step = "sent"
    /\ transfer[job.on] \in {"ready", "delivered", "expired"}
    /\ next = [step |-> "told", on |-> job.on, saw |-> state]
    /\ UNCHANGED relayVars

\* POST .../claim: refused while a lease is current.
ClaimOf(t, job, next) ==
    /\ job = NoJob
    /\ transfer[t] = "ready"
    /\ ~lease[t]
    /\ lease' = [lease EXCEPT ![t] = TRUE]
    /\ next = [step |-> "claimed", on |-> t]
    /\ UNCHANGED <<transfer, body>>

\* GET .../content, read to its end and verified.
Read(job, next) ==
    /\ job.step = "claimed"
    /\ transfer[job.on] = "ready"
    /\ lease[job.on]
    /\ next = [job EXCEPT !.step = "read"]
    /\ UNCHANGED relayVars

Ack_BeforeSaving(job, next) ==
    LET t == job.on IN
    /\ job.step \in {"read", "saved"}
    /\ transfer[t] = "ready"
    /\ lease[t]
    /\ transfer' = [transfer EXCEPT ![t] = "delivered"]
    /\ lease' = [lease EXCEPT ![t] = FALSE]
    /\ next = NoJob
    /\ UNCHANGED body

\* POST .../ack under the lease.
Ack(job, next) ==
    LET t == job.on IN
    /\ job.step = "saved"
    /\ transfer[t] = "ready"
    /\ lease[t]
    /\ transfer' = [transfer EXCEPT ![t] = "delivered"]
    /\ lease' = [lease EXCEPT ![t] = FALSE]
    /\ next = NoJob
    /\ UNCHANGED body

\* Any exception while receiving: POST .../release, then give up.
ReleaseOf(job, next) ==
    /\ job.step \in {"claimed", "read", "saved"}
    /\ MayBeCut(job)
    /\ lease' = [lease EXCEPT ![job.on] = FALSE]
    /\ next = NoJob
    /\ UNCHANGED <<transfer, body>>

-----------------------------------------------------------------------------
(* The relay by itself.  Losses the peers can only repair with another     *)
(* transfer stay within the bounds.                                        *)

\* A bridge that found its transfer "writing" relies on that upload.
ReliesOn(m, a) ==
    \/ delivery[m].sent /\ delivery[m].attempt = a
    \/ bridgeJob = [step |-> "told", on |-> ToPhone(m, a), saw |-> "writing"]

Lost(m) == {a \in 0..MaxAttempt :
               \/ transfer[ToPhone(m, a)] \in {"expired", "gone"}
               \/ transfer[ToPhone(m, a)] = "uploading" /\ ReliesOn(m, a)}

Replaceable(t) ==
    IF IsRequest(t)
    THEN t.n < request[t.of].key \/ request[t.of].key < env.keys
    ELSE t.n \in Lost(t.of) \/ Cardinality(Lost(t.of)) < env.lost

RelayStores(t) ==
    /\ transfer[t] = "writing"
    /\ transfer' = [transfer EXCEPT ![t] = "ready"]
    /\ UNCHANGED <<phoneVars, bridgeVars, appVars, body, lease, phoneJob, bridgeJob>>

RelayDrops(t) ==
    /\ transfer[t] = "writing"
    /\ ~IsRequest(t) /\ ReliesOn(t.of, t.n) => Replaceable(t)
    /\ transfer' = [transfer EXCEPT ![t] = "uploading"]
    /\ UNCHANGED <<phoneVars, bridgeVars, appVars, body, lease, phoneJob, bridgeJob>>

RelayExpires(t) ==
    /\ transfer[t] \in {"uploading", "writing", "ready"}
    /\ Replaceable(t)
    /\ transfer[t] = "ready" /\ IsRequest(t) =>
           t.n < request[t.of].key \/ request[t.of].stale
    /\ transfer' = [transfer EXCEPT ![t] = "expired"]
    /\ lease' = [lease EXCEPT ![t] = FALSE]
    /\ UNCHANGED <<phoneVars, bridgeVars, appVars, body, phoneJob, bridgeJob>>

\* The record is deleted (after 7 days): only of a response, whose sender
\* looks no further back than its current attempt.
RelayForgets(t) ==
    /\ ~IsRequest(t)
    /\ transfer[t] \in {"expired", "delivered"}
    /\ Replaceable(t)
    /\ t.n < delivery[t.of].attempt \/ delivery[t.of].sent
    /\ transfer' = [transfer EXCEPT ![t] = "gone"]
    /\ UNCHANGED <<phoneVars, bridgeVars, appVars, body, lease, phoneJob, bridgeJob>>

LeaseLapses(t) ==
    /\ lease[t]
    /\ t.of \in env.cut
    /\ lease' = [lease EXCEPT ![t] = FALSE]
    /\ UNCHANGED <<phoneVars, bridgeVars, appVars, transfer, body, phoneJob, bridgeJob>>

-----------------------------------------------------------------------------
(* The phone.                                                              *)

PhoneEnqueue(m) ==
    /\ m \in env.submitted
    /\ request[m].state = "none"
    /\ request' = [request EXCEPT ![m] = [@ EXCEPT !.state = "pending"]]
    /\ UNCHANGED <<receipts, shown, relayVars, bridgeVars, appVars, phoneJob, bridgeJob>>

\* 24 hours pass since the current key was first used.
PhoneDayPasses(m) ==
    /\ request[m].started
    /\ ~request[m].stale
    /\ request[m].key < env.keys
    /\ request' = [request EXCEPT ![m] = [@ EXCEPT !.stale = TRUE]]
    /\ UNCHANGED <<receipts, shown, relayVars, bridgeVars, appVars, phoneJob, bridgeJob>>

NeedsTransportRetry_UntilUploaded(m) ==
    request[m].state = "pending" /\ ~request[m].uploaded

NeedsTransportRetry(m) ==
    request[m].state = "pending" /\ (~request[m].uploaded \/ request[m].stale)

\* send(): a new transport key if the old one never started or is a day old.
PhoneSend(m) ==
    /\ phoneJob = NoJob
    /\ NeedsTransportRetry(m)
    /\ IF ~request[m].started \/ request[m].stale
       THEN /\ request[m].key < env.keys
            /\ request' = [request EXCEPT ![m] = [@ EXCEPT !.key = request[m].key + 1,
                                 !.started = TRUE, !.stale = FALSE, !.uploaded = FALSE]]
            /\ phoneJob' = [step |-> "post", on |-> ToComputer(m, request[m].key + 1)]
       ELSE /\ phoneJob' = [step |-> "post", on |-> ToComputer(m, request[m].key)]
            /\ UNCHANGED request
    /\ UNCHANGED <<receipts, shown, relayVars, bridgeVars, appVars, bridgeJob>>

PhoneExchange ==
    /\ \/ Post(phoneJob, phoneJob', NoResponse)
       \/ Put(phoneJob, phoneJob')
       \/ Uploaded(phoneJob, phoneJob', transfer[phoneJob.on])
       \/ Read(phoneJob, phoneJob')
       \/ Ack(phoneJob, phoneJob')
    /\ UNCHANGED <<phoneVars, bridgeVars, appVars, bridgeJob>>

\* What the relay said decides what the request row remembers.
PhoneConclude ==
    /\ phoneJob.step = "told"
    /\ LET m == phoneJob.on.of IN
       request' = CASE phoneJob.saw \in {"ready", "delivered"} ->
                           [request EXCEPT ![m] = [@ EXCEPT !.uploaded = TRUE]]
                    [] phoneJob.saw = "expired" ->
                           [request EXCEPT ![m] = [@ EXCEPT !.started = FALSE, !.stale = FALSE,
                                                            !.uploaded = FALSE]]
                    [] OTHER -> request
    /\ phoneJob' = NoJob
    /\ UNCHANGED <<receipts, shown, relayVars, bridgeVars, appVars, bridgeJob>>

PhoneClaim(m, a) ==
    /\ ClaimOf(ToPhone(m, a), phoneJob, phoneJob')
    /\ UNCHANGED <<phoneVars, bridgeVars, appVars, bridgeJob>>

NewestWins_Always(r) == r.at

\* Records only give way to those of a response as recent.
NewestWins(r) == IF r.at >= shown THEN r.at ELSE shown

\* persistResponse(): one transaction.  A repeated response changes nothing.
PhonePersist ==
    LET m == phoneJob.on.of
        r == body[phoneJob.on]
    IN  /\ phoneJob.step = "read"
        /\ receipts[m] \in {NoResponse, r}
        /\ receipts' = [receipts EXCEPT ![m] = r]
        /\ IF receipts[m] = NoResponse /\ request[m].state = "pending"
           THEN /\ request' = [request EXCEPT ![m] =
                                  [@ EXCEPT !.state = IF r.ok THEN "completed" ELSE "rejected"]]
                /\ shown' = IF r.ok THEN NewestWins(r) ELSE shown
           ELSE UNCHANGED <<request, shown>>
        /\ phoneJob' = [phoneJob EXCEPT !.step = "saved"]
        /\ UNCHANGED <<relayVars, bridgeVars, appVars, bridgeJob>>

PhoneRelease ==
    /\ ReleaseOf(phoneJob, phoneJob')
    /\ UNCHANGED <<phoneVars, bridgeVars, appVars, bridgeJob>>

\* An exception elsewhere, a lost answer, or the end of the process.
PhoneInterrupted ==
    /\ phoneJob # NoJob
    /\ MayBeCut(phoneJob)
    /\ phoneJob' = NoJob
    /\ UNCHANGED <<phoneVars, relayVars, bridgeVars, appVars, bridgeJob>>

-----------------------------------------------------------------------------
(* The bridge.                                                             *)

BridgeExchange ==
    /\ \/ Post(bridgeJob, bridgeJob', inbox[bridgeJob.on.of].response)
       \/ Put(bridgeJob, bridgeJob')
       \/ Uploaded(bridgeJob, bridgeJob', "ready")
       \/ Read(bridgeJob, bridgeJob')
       \/ Ack(bridgeJob, bridgeJob')
    /\ UNCHANGED <<phoneVars, bridgeVars, appVars, phoneJob>>

BridgeClaim(m, n) ==
    /\ ClaimOf(ToComputer(m, n), bridgeJob, bridgeJob')
    /\ UNCHANGED <<phoneVars, bridgeVars, appVars, phoneJob>>

\* A request that comes again after its response was delivered asks for the
\* response once more.
AskedAgain_SameKey(m) ==
    IF delivery[m].status = "delivered"
    THEN [delivery EXCEPT ![m] = [@ EXCEPT !.status = "pending", !.sent = FALSE]]
    ELSE delivery

AskedAgain(m) ==
    IF delivery[m].status = "delivered"
    THEN [delivery EXCEPT ![m] = [status |-> "pending", attempt |-> @.attempt + 1,
                                  sent |-> FALSE]]
    ELSE delivery

\* saved(): one transaction, before the relay is told.
BridgeSave ==
    LET t == bridgeJob.on
        m == t.of
    IN  /\ bridgeJob.step = "read"
        /\ IF t \in received THEN UNCHANGED bridgeVars
           ELSE /\ delivery[m].status = "delivered" => delivery[m].attempt < env.attempts
                /\ received' = received \cup {t}
                /\ inbox' = IF inbox[m].status = "none"
                            THEN [inbox EXCEPT ![m] = [@ EXCEPT !.status = "pending"]] ELSE inbox
                /\ delivery' = AskedAgain(m)
        /\ bridgeJob' = [bridgeJob EXCEPT !.step = "saved"]
        /\ UNCHANGED <<phoneVars, relayVars, appVars, phoneJob>>

BridgeRelease ==
    /\ ReleaseOf(bridgeJob, bridgeJob')
    /\ UNCHANGED <<phoneVars, bridgeVars, appVars, phoneJob>>

BridgeProcess(m) ==
    /\ bridgeJob = NoJob
    /\ inbox[m].status = "pending"
    /\ bridgeJob' = [step |-> "calling", of |-> m]
    /\ UNCHANGED <<phoneVars, relayVars, bridgeVars, appVars, phoneJob>>

\* process(): the answer and the delivery row it calls for, in one transaction.
BridgeRecordAnswer ==
    /\ bridgeJob.step = "answered"
    /\ LET m == bridgeJob.of IN
       /\ inbox' = [inbox EXCEPT ![m] = [status |-> "applied",
                                         response |-> bridgeJob.saw]]
       /\ delivery' = IF delivery[m].status = "none"
                      THEN [delivery EXCEPT ![m] = [@ EXCEPT !.status = "pending"]] ELSE delivery
    /\ bridgeJob' = NoJob
    /\ UNCHANGED <<phoneVars, relayVars, received, appVars, phoneJob>>

\* The transfer expired, or the relay answers 404 for it.
NeverArrives(s) == s \in {"expired", "gone"}

\* send(), a recorded transfer: done, still on its way, or to be sent again.
BridgePoll(m) ==
    LET t == ToPhone(m, delivery[m].attempt) IN
    /\ bridgeJob = NoJob
    /\ delivery[m].status \in {"pending", "uploaded"}
    /\ delivery[m].sent
    /\ \/ /\ transfer[t] = "delivered"
          /\ delivery' = [delivery EXCEPT ![m] = [@ EXCEPT !.status = "delivered"]]
          /\ UNCHANGED bridgeJob
       \/ /\ NeverArrives(transfer[t])
          /\ delivery[m].attempt < env.attempts
          /\ delivery' = [delivery EXCEPT ![m] = [status |-> "pending",
                             attempt |-> @.attempt + 1, sent |-> FALSE]]
          /\ bridgeJob' = [step |-> "post", on |-> ToPhone(m, delivery[m].attempt + 1)]
    /\ UNCHANGED <<phoneVars, relayVars, received, inbox, appVars, phoneJob>>

\* send(), nothing recorded: push under this attempt's key.
BridgePush(m) ==
    /\ bridgeJob = NoJob
    /\ delivery[m].status \in {"pending", "uploaded"}
    /\ ~delivery[m].sent
    /\ bridgeJob' = [step |-> "post", on |-> ToPhone(m, delivery[m].attempt)]
    /\ UNCHANGED <<phoneVars, relayVars, bridgeVars, appVars, phoneJob>>

PushedStatus_OnUpload(s) == IF s \in {"ready", "delivered"} THEN "delivered" ELSE "uploaded"

PushedStatus(s) == IF s = "delivered" THEN "delivered" ELSE "uploaded"

\* send(): remember what became of the push.
BridgeRecordPush ==
    /\ bridgeJob.step = "told"
    /\ LET m == bridgeJob.on.of IN
       IF bridgeJob.saw = "expired"
       THEN /\ delivery[m].attempt < env.attempts
            /\ delivery' = [delivery EXCEPT ![m] = [@ EXCEPT !.attempt = delivery[m].attempt + 1,
                                                       !.sent = FALSE]]
       ELSE delivery' = [delivery EXCEPT ![m] =
                          [@ EXCEPT !.sent = TRUE, !.status = PushedStatus(bridgeJob.saw)]]
    /\ bridgeJob' = NoJob
    /\ UNCHANGED <<phoneVars, relayVars, received, inbox, appVars, phoneJob>>

BridgeInterrupted ==
    /\ bridgeJob # NoJob
    /\ MayBeCut(bridgeJob)
    /\ bridgeJob' = NoJob
    /\ UNCHANGED <<phoneVars, relayVars, bridgeVars, appVars, phoneJob>>

-----------------------------------------------------------------------------
(* The application: POST /v1/relay/import.                                 *)

Clock == Cardinality({m \in Request : receipt[m] # NoResponse})

\* A kept receipt is answered again; otherwise the business change, or its
\* rollback, commits together with the receipt.
Imported_EveryTime(m, ok) ==
    /\ receipt' = [receipt EXCEPT ![m] = [ok |-> ok, at |-> Clock + 1]]
    /\ effects' = IF ok THEN [effects EXCEPT ![m] = @ + 1] ELSE effects

Imported(m, ok) ==
    IF receipt[m] # NoResponse THEN UNCHANGED <<receipt, effects>>
    ELSE /\ receipt' = [receipt EXCEPT ![m] = [ok |-> ok, at |-> Clock + 1]]
         /\ effects' = IF ok THEN [effects EXCEPT ![m] = @ + 1] ELSE effects

Import ==
    /\ bridgeJob.step = "calling"
    /\ LET m == bridgeJob.of IN
       /\ m \notin env.malformed
       /\ \E ok \in BOOLEAN : Imported(m, ok)
       /\ bridgeJob' = [step |-> "answered", of |-> m, saw |-> receipt'[m]]
    /\ UNCHANGED <<phoneVars, relayVars, bridgeVars, phoneJob, env>>

\* Refused before the transaction; the bridge answers by itself.
ImportRefused ==
    /\ bridgeJob.step = "calling"
    /\ bridgeJob.of \in env.malformed
    /\ bridgeJob' = [step |-> "answered", of |-> bridgeJob.of, saw |-> Refusal]
    /\ UNCHANGED <<phoneVars, relayVars, bridgeVars, appVars, phoneJob>>

-----------------------------------------------------------------------------
Next ==
    \/ \E m \in Request :
          \/ PhoneEnqueue(m)
          \/ PhoneDayPasses(m)
          \/ PhoneSend(m)
          \/ \E a \in 0..MaxAttempt : PhoneClaim(m, a)
          \/ \E n \in 1..MaxKeys : BridgeClaim(m, n)
          \/ BridgeProcess(m)
          \/ BridgePoll(m)
          \/ BridgePush(m)
    \/ \E t \in Transfer :
          \/ RelayStores(t)
          \/ RelayDrops(t)
          \/ RelayExpires(t)
          \/ RelayForgets(t)
          \/ LeaseLapses(t)
    \/ PhoneExchange
    \/ PhoneConclude
    \/ PhonePersist
    \/ PhoneRelease
    \/ PhoneInterrupted
    \/ BridgeExchange
    \/ BridgeSave
    \/ BridgeRelease
    \/ BridgeRecordAnswer
    \/ BridgeRecordPush
    \/ BridgeInterrupted
    \/ Import
    \/ ImportRefused

Spec == Init /\ [][Next]_vars

(* The worker and the bridge run again and again (WorkManager retries and  *)
(* every 15 minutes, the bridge every 30 seconds), the relay ends uploads, *)
(* leases and reservations, and an exception ends what cannot go on.       *)

Fairness ==
    /\ \A m \in Request :
          /\ WF_vars(PhoneSend(m))
          /\ WF_vars(\E a \in 0..MaxAttempt : PhoneClaim(m, a))
          /\ WF_vars(\E n \in 1..MaxKeys : BridgeClaim(m, n))
          /\ WF_vars(BridgeProcess(m))
          /\ WF_vars(BridgePoll(m))
          /\ WF_vars(BridgePush(m))
    /\ WF_vars(PhoneExchange \/ PhoneConclude \/ PhonePersist)
    /\ WF_vars(Stuck(phoneJob) /\ PhoneInterrupted)
    /\ WF_vars(BridgeExchange \/ BridgeSave \/ BridgeRecordAnswer \/ BridgeRecordPush)
    /\ WF_vars(Import \/ ImportRefused)
    /\ WF_vars(Stuck(bridgeJob) /\ BridgeInterrupted)
    /\ \A t \in Transfer :
          WF_vars(RelayStores(t)) /\ WF_vars(LeaseLapses(t)) /\ WF_vars(RelayExpires(t))

\* A job cut short although it could go on, or a lease lost while it is used.
Cut(job) == job # NoJob /\ ~Stuck(job)

Disturbance ==
    \/ Cut(phoneJob) /\ (PhoneInterrupted \/ PhoneRelease) /\ ~PhoneConclude
    \/ Cut(bridgeJob) /\ (BridgeInterrupted \/ BridgeRelease)
    \/ \E t \in Transfer :
          \/ RelayDrops(t)
          \/ /\ LeaseLapses(t)
             /\ \E job \in {phoneJob, bridgeJob} :
                   job.step \in {"claimed", "read", "saved"} /\ job.on = t

\* There comes a time from which exchanges run undisturbed.
FairSpec == Spec /\ Fairness /\ <>[][~Disturbance]_vars

-----------------------------------------------------------------------------
(* Safety.                                                                 *)

Answered(m) == request[m].state \in {"completed", "rejected"}

\* The relay's copy of a message only goes away as delivered once its content
\* is kept: a request in the bridge's inbox, a response in the phone's database
\* (relay/client.py pull calls on_saved before the ack; RelaySync.kt receive).
NothingAckedBeforeKept ==
    \A t \in Transfer :
        transfer[t] = "delivered" =>
            IF IsRequest(t) THEN inbox[t.of].status # "none"
            ELSE receipts[t.of] = body[t] /\ Answered(t.of)

\* The bridge stops sending a response only when the phone has recorded that
\* very response (relay/bridge.py send, saved).
StopsOnlyWhenAnswered ==
    \A m \in Request :
        delivery[m].status = "delivered" =>
            /\ Answered(m)
            /\ receipts[m] = inbox[m].response

\* The phone's records are those of the newest accepted response, in whatever
\* order and however often responses arrive (RelaySync.kt persistResponse).
ShowsTheNewest ==
    LET taken == {receipts[m].at : m \in {n \in Request : request[n].state = "completed"}}
    IN  /\ shown \in taken \cup {0}
        /\ \A at \in taken : at <= shown

-----------------------------------------------------------------------------
(* What a step may never do.                                               *)

\* A response goes out under a transport key the relay has never seen, also when it
\* is owed once more after it was delivered, or the relay would name the old transfer;
\* and it stops being owed only when the transfer under its latest key is delivered
\* (relay/bridge.py saved, send).
EachAskIsServed ==
    [][\A m \in Request :
          LET latest == ToPhone(m, delivery'[m].attempt)
              reopened == delivery[m].status = "delivered" /\ delivery'[m].status # "delivered"
              closed == delivery[m].status # "delivered" /\ delivery'[m].status = "delivered"
          IN  /\ reopened \/ delivery'[m].attempt # delivery[m].attempt => transfer[latest] = "none"
              /\ closed => transfer[latest] = "delivered"]_vars

-----------------------------------------------------------------------------
(* Promises.                                                               *)

Progress(m) ==
    CASE request[m].state = "none" -> "new"
      [] Answered(m) -> request[m].state
      [] request[m].state = "pending" /\ receipt[m] # NoResponse ->
             IF receipt[m].ok THEN "accepted" ELSE "refused"
      [] request[m].state = "pending" /\ receipt[m] = NoResponse ->
             IF inbox[m].status = "applied" THEN "refused" ELSE "pending"

Kept == INSTANCE RequestPromise
        WITH progress <- [m \in Request |-> Progress(m)]

\* To its user the whole chain is RequestPromise: one effect at most, one
\* decision, and the phone told that one (docs/relay-local-sync.md).
KeepsPromise == Kept!Spec

RelayStatus(t) == CASE transfer[t] = "none" -> "free"
                    [] transfer[t] \in {"uploading", "writing"} -> "open"
                    [] OTHER -> transfer[t]

Receiver(t) == IF IsRequest(t) THEN "computer" ELSE "phone"

Assumed == INSTANCE TransferPromise
          WITH Id <- Transfer, Device <- {"computer", "phone"},
               status <- [t \in Transfer |-> RelayStatus(t)],
               awaiting <- [t \in Transfer |->
                   IF transfer[t] \in {"none", "delivered", "gone"} THEN {}
                   ELSE {Receiver(t)}]

\* The relay assumed here takes no step that TransferPromise forbids: it revives no
\* finished transfer and delivers none that was not ready.  This bounds the assumption
\* from one side only.  That relay/server.py shows the phone and the bridge no other
\* behaviour does not follow, and is not claimed.
AssumedRelayIsLawful == Assumed!Spec

(* Liveness.                                                               *)

\* A submitted request is eventually answered, whatever expires, is lost or
\* is interrupted on the way a bounded number of times; and the bridge eventually
\* learns that the phone has the response, so it does not send it forever.
EveryRequestIsAnswered ==
    \A m \in Request :
        /\ request[m].state = "pending" ~> Answered(m)
        /\ delivery[m].status \in {"pending", "uploaded"} ~> delivery[m].status = "delivered"
=============================================================================
