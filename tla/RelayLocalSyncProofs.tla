------------------------ MODULE RelayLocalSyncProofs ------------------------
(***************************************************************************)
(* Theorems about RelayLocalSync for every set of requests, every number   *)
(* of keys and attempts and every environment.                             *)
(***************************************************************************)
EXTENDS RelayLocalSync, FiniteSetTheorems, TLAPS

-----------------------------------------------------------------------------
(* Type correctness.                                                       *)

Jobs == {NoJob} \cup Sending \cup Receiving
BridgeJobs == Jobs \cup Importing

\* A case of the environment stays within the bounds.
LEMMA EnvType ==
    ASSUME TypeOK
    PROVE  /\ env.keys \in 1..MaxKeys
           /\ env.attempts \in 0..MaxAttempt
           /\ MaxAttempt \in Nat
           /\ MaxKeys \in Nat
<1>1. env \in [submitted: SUBSET Request, malformed: SUBSET Request,
               cut: SUBSET Request, keys: 1..MaxKeys, attempts: 0..MaxAttempt, lost: Nat]
  BY EnvironmentAssumption DEF TypeOK
<1> QED BY <1>1, BoundAssumption

\* Which transfers there are.
LEMMA TransferOf ==
    /\ \A t \in Transfer : t.of \in Request
    /\ \A m \in Request, n \in 1..MaxKeys : ToComputer(m, n) \in Transfer
    /\ \A m \in Request, a \in 0..MaxAttempt : ToPhone(m, a) \in Transfer
BY DEF Transfer, ToComputer, ToPhone

\* A process that talks to the relay talks about a transfer.
LEMMA OnTransfer ==
    ASSUME NEW job \in BridgeJobs,
           job.step \in {"post", "put", "sent", "told", "claimed", "read", "saved"}
    PROVE  job.on \in Transfer
<1>1. \A j \in Sending \cup Receiving : j.on \in Transfer
  BY DEF Sending, Receiving
<1>2. \A j \in {NoJob} \cup Importing : j.step \in {"idle", "calling", "answered"}
  BY DEF NoJob, Importing
<1> QED BY <1>1, <1>2 DEF BridgeJobs, Jobs

\* A step of one of the exchanges with the relay keeps the relay's tables in their
\* types and leaves the caller with a proper job.
LEMMA ExchangeTypes ==
    ASSUME TypeOK, NEW job \in BridgeJobs, NEW next, NEW content \in MaybeResponse,
           NEW state \in TransferState,
           \/ Post(job, next, content) \/ Put(job, next) \/ Uploaded(job, next, state)
           \/ Read(job, next) \/ Ack(job, next) \/ ReleaseOf(job, next)
    PROVE  /\ next \in Jobs
           /\ transfer' \in [Transfer -> TransferState]
           /\ body' \in [Transfer -> MaybeResponse]
           /\ lease' \in [Transfer -> BOOLEAN]
<1> USE DEF TransferState
<1>1. CASE Post(job, next, content)
  <2>1. job.on \in Transfer
    BY <1>1, OnTransfer DEF Post
  <2>2. CASE ~KeyInUse(job.on)
    BY <1>1, <2>1, <2>2 DEF Post, TypeOK, Jobs, Sending
  <2>3. CASE KeyInUse(job.on) /\ transfer[job.on] = "uploading"
    BY <1>1, <2>1, <2>3 DEF Post, TypeOK, Jobs, Sending
  <2>4. CASE KeyInUse(job.on) /\ transfer[job.on] # "uploading"
    <3>1. transfer[job.on] \in TransferState
      BY <2>1 DEF TypeOK
    <3>2. next \in [step: {"told"}, on: Transfer, saw: TransferState]
      BY <1>1, <2>1, <2>4, <3>1 DEF Post
    <3> QED BY <1>1, <2>4, <3>2 DEF Post, TypeOK, Jobs, Sending
  <2> QED BY <2>2, <2>3, <2>4
<1>2. CASE Put(job, next)
  <2>1. job.on \in Transfer
    BY <1>2, OnTransfer DEF Put
  <2> QED BY <1>2, <2>1 DEF Put, TypeOK, Jobs, Sending
<1>3. CASE Uploaded(job, next, state)
  <2>1. job.on \in Transfer
    BY <1>3, OnTransfer DEF Uploaded
  <2>2. next \in [step: {"told"}, on: Transfer, saw: TransferState]
    BY <1>3, <2>1 DEF Uploaded
  <2> QED BY <1>3, <2>2 DEF Uploaded, TypeOK, Jobs, Sending, relayVars
<1>4. CASE Read(job, next)
  <2>1. job \in [step: {"claimed", "read", "saved"}, on: Transfer]
    BY <1>4 DEF Read, BridgeJobs, Jobs, NoJob, Sending, Receiving, Importing
  <2>2. next \in Receiving
    BY <1>4, <2>1 DEF Read, Receiving
  <2> QED BY <1>4, <2>2 DEF Read, TypeOK, Jobs, relayVars
<1>5. CASE Ack(job, next)
  BY <1>5 DEF Ack, TypeOK, Jobs
<1>6. CASE ReleaseOf(job, next)
  BY <1>6 DEF ReleaseOf, TypeOK, Jobs
<1> QED BY <1>1, <1>2, <1>3, <1>4, <1>5, <1>6

\* So does a claim.
LEMMA ClaimTypes ==
    ASSUME TypeOK, NEW t \in Transfer, NEW job, NEW next, ClaimOf(t, job, next)
    PROVE  /\ next \in Jobs
           /\ transfer' \in [Transfer -> TransferState]
           /\ body' \in [Transfer -> MaybeResponse]
           /\ lease' \in [Transfer -> BOOLEAN]
BY DEF ClaimOf, TypeOK, Jobs, Receiving

\* The relay's own steps keep its tables in their types.
LEMMA RelayKeepsTypes ==
    ASSUME TypeOK, NEW t \in Transfer,
           \/ RelayStores(t) \/ RelayDrops(t) \/ RelayExpires(t)
           \/ RelayForgets(t) \/ LeaseLapses(t)
    PROVE  TypeOK'
<1>1. /\ transfer' \in [Transfer -> TransferState]
      /\ body' = body
      /\ lease' \in [Transfer -> BOOLEAN]
  BY DEF RelayStores, RelayDrops, RelayExpires, RelayForgets, LeaseLapses, TypeOK, TransferState
<1>2. UNCHANGED <<phoneVars, bridgeVars, appVars, phoneJob, bridgeJob>>
  BY DEF RelayStores, RelayDrops, RelayExpires, RelayForgets, LeaseLapses
<1> QED BY <1>1, <1>2 DEF TypeOK, phoneVars, bridgeVars, appVars

\* A key is in use once its transport has started.
StartedHaveKeys == \A m \in Request : request[m].started => request[m].key # 0

\* The updates of a request row.
Same(p, q) == p.state = q.state /\ p.key = q.key

\* What the updates of a row yield.
LEMMA RowUpdates ==
    ASSUME NEW q \in PhoneRequest
    PROVE  /\ \A s \in {"none", "pending", "completed", "rejected"} :
                 /\ [q EXCEPT !.state = s] \in PhoneRequest
                 /\ [q EXCEPT !.state = s].state = s
                 /\ [q EXCEPT !.state = s].key = q.key
                 /\ [q EXCEPT !.state = s].started = q.started
           /\ [q EXCEPT !.stale = TRUE] \in PhoneRequest
           /\ Same([q EXCEPT !.stale = TRUE], q)
           /\ [q EXCEPT !.stale = TRUE].started = q.started
           /\ [q EXCEPT !.uploaded = TRUE] \in PhoneRequest
           /\ Same([q EXCEPT !.uploaded = TRUE], q)
           /\ [q EXCEPT !.uploaded = TRUE].started = q.started
           /\ [q EXCEPT !.started = FALSE, !.stale = FALSE, !.uploaded = FALSE] \in PhoneRequest
           /\ Same([q EXCEPT !.started = FALSE, !.stale = FALSE, !.uploaded = FALSE], q)
           /\ ~[q EXCEPT !.started = FALSE, !.stale = FALSE, !.uploaded = FALSE].started
BY DEF PhoneRequest, Same

\* A new transport key stays within the bound and belongs to the same request.
LEMMA NewKey ==
    ASSUME NEW q \in PhoneRequest, q.key + 1 \in 1..MaxKeys
    PROVE  LET p == [q EXCEPT !.key = q.key + 1, !.started = TRUE, !.stale = FALSE, !.uploaded = FALSE]
           IN  p \in PhoneRequest /\ p.state = q.state /\ p.key = q.key + 1
<1>1. [q EXCEPT !.key = q.key + 1] \in PhoneRequest
  BY DEF PhoneRequest
<1> QED BY <1>1 DEF PhoneRequest

\* Replacing one row by a proper one keeps the table in its type.
LEMMA RowChanged ==
    ASSUME request \in [Request -> PhoneRequest], StartedHaveKeys, NEW m \in Request,
           NEW p \in PhoneRequest, p.started => p.key # 0,
           request' = [request EXCEPT ![m] = p]
    PROVE  request' \in [Request -> PhoneRequest] /\ StartedHaveKeys'
BY DEF StartedHaveKeys

\* So do the steps of the phone.
LEMMA PhoneKeepsRequests ==
    ASSUME TypeOK, StartedHaveKeys, NEW m \in Request,
           PhoneEnqueue(m) \/ PhoneDayPasses(m) \/ PhoneSend(m)
    PROVE  TypeOK' /\ StartedHaveKeys'
<1>a. /\ request \in [Request -> PhoneRequest]
      /\ request[m] \in PhoneRequest
  BY DEF TypeOK
<1>1. CASE PhoneEnqueue(m) \/ PhoneDayPasses(m)
  <2>1. \/ request' = [request EXCEPT ![m] = [@ EXCEPT !.state = "pending"]]
        \/ request' = [request EXCEPT ![m] = [@ EXCEPT !.stale = TRUE]]
    BY <1>1 DEF PhoneEnqueue, PhoneDayPasses
  <2>2. PICK p \in PhoneRequest : /\ request' = [request EXCEPT ![m] = p]
                                  /\ p.started = request[m].started
                                  /\ p.key = request[m].key
    <3>1. /\ [request[m] EXCEPT !.state = "pending"] \in PhoneRequest
          /\ [request[m] EXCEPT !.state = "pending"].started = request[m].started
          /\ [request[m] EXCEPT !.state = "pending"].key = request[m].key
          /\ [request[m] EXCEPT !.stale = TRUE] \in PhoneRequest
          /\ [request[m] EXCEPT !.stale = TRUE].started = request[m].started
          /\ [request[m] EXCEPT !.stale = TRUE].key = request[m].key
      BY <1>a, RowUpdates DEF Same
    <3> QED BY <2>1, <3>1
  <2>3. request' \in [Request -> PhoneRequest] /\ StartedHaveKeys'
    BY <1>a, <2>2, RowChanged DEF StartedHaveKeys
  <2> QED BY <1>1, <2>3 DEF PhoneEnqueue, PhoneDayPasses, TypeOK, phoneVars, relayVars, bridgeVars, appVars
<1>2. CASE PhoneSend(m)
  <2>1. request[m].key \in 0..MaxKeys
    BY <1>a DEF PhoneRequest
  <2>2. CASE ~request[m].started \/ request[m].stale
    <3>1. request[m].key + 1 \in 1..MaxKeys
      BY <1>2, <2>1, <2>2, EnvType DEF PhoneSend
    <3>2. phoneJob' \in Sending
      BY <1>2, <2>2, <3>1, TransferOf DEF PhoneSend, Sending
    <3>3. request' \in [Request -> PhoneRequest] /\ StartedHaveKeys'
      <4> DEFINE p == [request[m] EXCEPT !.key = request[m].key + 1, !.started = TRUE,
                                         !.stale = FALSE, !.uploaded = FALSE]
      <4>1. p \in PhoneRequest /\ p.key = request[m].key + 1
        BY <1>a, <3>1, NewKey
      <4>2. p.key # 0
        BY <2>1, <4>1, EnvType
      <4>3. request' = [request EXCEPT ![m] = p]
        BY <1>2, <2>2 DEF PhoneSend
      <4> HIDE DEF p
      <4> QED BY <1>a, <4>1, <4>2, <4>3, RowChanged
    <3> QED BY <1>2, <3>2, <3>3 DEF PhoneSend, TypeOK, relayVars, bridgeVars, appVars
  <2>3. CASE ~(~request[m].started \/ request[m].stale)
    <3>1. phoneJob' = [step |-> "post", on |-> ToComputer(m, request[m].key)] /\ request' = request
      BY <1>2, <2>3 DEF PhoneSend
    <3>2. request[m].key \in 1..MaxKeys
      BY <2>1, <2>3, EnvType DEF StartedHaveKeys
    <3>3. phoneJob' \in Sending
      BY <3>1, <3>2, TransferOf DEF Sending
    <3> QED BY <1>2, <3>1, <3>3 DEF PhoneSend, TypeOK, StartedHaveKeys, relayVars, bridgeVars, appVars
  <2> QED BY <2>2, <2>3
<1> QED BY <1>1, <1>2

\* What is said to the relay and what is kept of it, phone and bridge alike.
LEMMA PhoneJobType ==
    ASSUME TypeOK
    PROVE  phoneJob \in BridgeJobs /\ bridgeJob \in BridgeJobs
BY DEF TypeOK, BridgeJobs, Jobs

\* What the phone has read of a transfer is a response.
ReadsAResponse == phoneJob.step = "read" => body[phoneJob.on] \in Response

\* The steps of the worker keep the types: what it reads is a response, so what it
\* records has a time.
LEMMA PhoneKeepsJobs ==
    ASSUME TypeOK, StartedHaveKeys, ReadsAResponse,
           \/ PhoneExchange \/ PhoneConclude \/ PhonePersist \/ PhoneRelease \/ PhoneInterrupted
           \/ \E m \in Request, a \in 0..MaxAttempt : PhoneClaim(m, a)
    PROVE  TypeOK' /\ StartedHaveKeys'
<1>1. CASE PhoneExchange \/ PhoneRelease
  <2>1. ASSUME phoneJob.step = "sent" PROVE transfer[phoneJob.on] \in TransferState
    BY <2>1, OnTransfer, PhoneJobType DEF TypeOK
  <2>2. CASE PhoneExchange /\ Uploaded(phoneJob, phoneJob', transfer[phoneJob.on])
    BY <2>1, <2>2, ExchangeTypes, PhoneJobType
       DEF PhoneExchange, Uploaded, TypeOK, StartedHaveKeys, Jobs, MaybeResponse, phoneVars, bridgeVars, appVars
  <2>3. CASE PhoneRelease
    BY <2>3, ExchangeTypes, PhoneJobType
       DEF PhoneRelease, TypeOK, StartedHaveKeys, Jobs, MaybeResponse, TransferState, phoneVars, bridgeVars, appVars
  <2>4. CASE PhoneExchange /\ ~Uploaded(phoneJob, phoneJob', transfer[phoneJob.on])
    <3>1. /\ phoneJob' \in Jobs
          /\ transfer' \in [Transfer -> TransferState]
          /\ body' \in [Transfer -> MaybeResponse]
          /\ lease' \in [Transfer -> BOOLEAN]
      BY <2>4, ExchangeTypes, PhoneJobType DEF PhoneExchange, MaybeResponse, TransferState
    <3> QED BY <2>4, <3>1 DEF PhoneExchange, TypeOK, StartedHaveKeys, Jobs, phoneVars, bridgeVars, appVars
  <2> QED BY <1>1, <2>2, <2>3, <2>4
<1>2. CASE PhoneConclude
  <2>1. phoneJob.on.of \in Request
    BY <1>2, OnTransfer, PhoneJobType, TransferOf DEF PhoneConclude
  <2>2. request' \in [Request -> PhoneRequest] /\ StartedHaveKeys'
    <3> DEFINE m == phoneJob.on.of
    <3>1. \/ request' = request
          \/ request' = [request EXCEPT ![m] = [@ EXCEPT !.uploaded = TRUE]]
          \/ request' = [request EXCEPT ![m] = [@ EXCEPT !.started = FALSE, !.stale = FALSE,
                                                       !.uploaded = FALSE]]
      BY <1>2 DEF PhoneConclude
    <3>2. request \in [Request -> PhoneRequest] /\ request[m] \in PhoneRequest
      BY <2>1 DEF TypeOK
    <3>3. PICK p \in PhoneRequest : /\ request' = [request EXCEPT ![m] = p]
                                    /\ p.started => request[m].started
                                    /\ p.key = request[m].key
      <4>1. /\ [request[m] EXCEPT !.uploaded = TRUE] \in PhoneRequest
            /\ [request[m] EXCEPT !.uploaded = TRUE].started = request[m].started
            /\ [request[m] EXCEPT !.uploaded = TRUE].key = request[m].key
        BY <3>2, RowUpdates DEF Same
      <4>2. LET q == [request[m] EXCEPT !.started = FALSE, !.stale = FALSE, !.uploaded = FALSE]
            IN  q \in PhoneRequest /\ ~q.started /\ q.key = request[m].key
        BY <3>2, RowUpdates DEF Same
      <4>3. request' = [request EXCEPT ![m] = request[m]] \/ request' # request
        BY <3>2
      <4> QED BY <3>1, <3>2, <4>1, <4>2, <4>3
    <3> QED BY <2>1, <3>2, <3>3, RowChanged DEF StartedHaveKeys
  <2> QED BY <1>2, <2>2 DEF PhoneConclude, TypeOK, Jobs, relayVars, bridgeVars, appVars
<1>3. CASE PhonePersist
  <2> DEFINE m == phoneJob.on.of
             r == body[phoneJob.on]
  <2>1. m \in Request /\ phoneJob.on \in Transfer
    BY <1>3, OnTransfer, PhoneJobType, TransferOf DEF PhonePersist
  <2>2. r \in MaybeResponse
    BY <2>1 DEF TypeOK
  <2>3. receipts' \in [Request -> MaybeResponse]
    BY <1>3, <2>1, <2>2 DEF PhonePersist, TypeOK
  <2>4. request' \in [Request -> PhoneRequest] /\ StartedHaveKeys'
    <3>1. \/ request' = request
          \/ \E s \in {"completed", "rejected"} :
                 request' = [request EXCEPT ![m] = [@ EXCEPT !.state = s]]
      BY <1>3 DEF PhonePersist
    <3>2. request \in [Request -> PhoneRequest] /\ request[m] \in PhoneRequest
      BY <2>1 DEF TypeOK
    <3>3. ASSUME NEW s \in {"completed", "rejected"},
                 request' = [request EXCEPT ![m] = [@ EXCEPT !.state = s]]
          PROVE  request' \in [Request -> PhoneRequest] /\ StartedHaveKeys'
      <4> DEFINE p == [request[m] EXCEPT !.state = s]
      <4>1. /\ p \in PhoneRequest
            /\ p.started = request[m].started
            /\ p.key = request[m].key
        BY <3>2 DEF PhoneRequest
      <4>2. request' = [request EXCEPT ![m] = p]
        BY <3>3
      <4> HIDE DEF p
      <4> QED BY <2>1, <3>2, <4>1, <4>2, RowChanged DEF StartedHaveKeys
    <3> QED BY <3>1, <3>2, <3>3 DEF StartedHaveKeys
  <2>5. shown' \in Nat
    <3>1. shown \in Nat
      BY DEF TypeOK
    <3>2. r.at \in Nat
      BY <1>3 DEF PhonePersist, ReadsAResponse, Response
    <3> QED BY <1>3, <3>1, <3>2 DEF PhonePersist, NewestWins
  <2>6. phoneJob' \in Receiving
    BY <1>3, <2>1 DEF PhonePersist, Receiving, TypeOK, NoJob, Sending
  <2> QED BY <1>3, <2>3, <2>4, <2>5, <2>6 DEF PhonePersist, TypeOK, relayVars, bridgeVars, appVars
<1>4. CASE PhoneInterrupted
  BY <1>4 DEF PhoneInterrupted, TypeOK, StartedHaveKeys, phoneVars, relayVars, bridgeVars, appVars
<1>5. ASSUME NEW m \in Request, NEW a \in 0..MaxAttempt, PhoneClaim(m, a)
      PROVE  TypeOK' /\ StartedHaveKeys'
  BY <1>5, ClaimTypes, TransferOf DEF PhoneClaim, TypeOK, StartedHaveKeys, Jobs, phoneVars, bridgeVars, appVars
<1> QED BY <1>1, <1>2, <1>3, <1>4, <1>5

\* The rows of the bridge, as its steps change them.
LEMMA DeliveryUpdates ==
    ASSUME TypeOK, NEW m \in Request
    PROVE  /\ \A s \in {"pending", "uploaded", "delivered"} :
                 [delivery EXCEPT ![m] = [@ EXCEPT !.status = s]] \in [Request -> DeliveryRow]
           /\ \A s \in {"pending", "uploaded", "delivered"} :
                 [delivery EXCEPT ![m] = [@ EXCEPT !.sent = TRUE, !.status = s]]
                     \in [Request -> DeliveryRow]
           /\ delivery[m].attempt < env.attempts =>
                 /\ delivery[m].attempt + 1 \in 0..MaxAttempt
                 /\ [delivery EXCEPT ![m] = [status |-> "pending", attempt |-> @.attempt + 1,
                                             sent |-> FALSE]] \in [Request -> DeliveryRow]
                 /\ [delivery EXCEPT ![m] = [@ EXCEPT !.attempt = delivery[m].attempt + 1,
                                                      !.sent = FALSE]] \in [Request -> DeliveryRow]
<1>1. /\ delivery \in [Request -> DeliveryRow]
      /\ delivery[m] \in DeliveryRow
      /\ delivery[m].attempt \in 0..MaxAttempt
  BY DEF TypeOK, DeliveryRow
<1>2. ASSUME NEW s \in {"pending", "uploaded", "delivered"}
      PROVE  /\ [delivery[m] EXCEPT !.status = s] \in DeliveryRow
             /\ [delivery[m] EXCEPT !.sent = TRUE, !.status = s] \in DeliveryRow
  BY <1>1 DEF DeliveryRow
<1>3. ASSUME delivery[m].attempt < env.attempts
      PROVE  /\ delivery[m].attempt + 1 \in 0..MaxAttempt
             /\ [status |-> "pending", attempt |-> delivery[m].attempt + 1, sent |-> FALSE] \in DeliveryRow
             /\ [delivery[m] EXCEPT !.attempt = delivery[m].attempt + 1, !.sent = FALSE] \in DeliveryRow
  <2>1. delivery[m].attempt + 1 \in 0..MaxAttempt
    BY <1>1, <1>3, EnvType
  <2> QED BY <1>1, <2>1 DEF DeliveryRow
<1> QED BY <1>1, <1>2, <1>3

\* The inbox, as the bridge changes it.
LEMMA InboxUpdates ==
    ASSUME TypeOK, NEW m \in Request
    PROVE  /\ [inbox EXCEPT ![m] = [@ EXCEPT !.status = "pending"]] \in [Request -> InboxRow]
           /\ \A r \in MaybeResponse :
                 [inbox EXCEPT ![m] = [status |-> "applied", response |-> r]] \in [Request -> InboxRow]
BY DEF TypeOK, InboxRow

\* So do the steps of the bridge and of the application.
LEMMA BridgeKeepsExchange ==
    ASSUME TypeOK,
           \/ BridgeExchange \/ BridgeRelease
           \/ \E m \in Request, n \in 1..MaxKeys : BridgeClaim(m, n)
    PROVE  TypeOK'
<1>1. CASE BridgeExchange
  <2>1. ASSUME bridgeJob.step = "post" PROVE inbox[bridgeJob.on.of].response \in MaybeResponse
    BY <2>1, OnTransfer, PhoneJobType, TransferOf DEF TypeOK, InboxRow
  <2>2. /\ bridgeJob' \in Jobs
        /\ transfer' \in [Transfer -> TransferState]
        /\ body' \in [Transfer -> MaybeResponse]
        /\ lease' \in [Transfer -> BOOLEAN]
    <3>1. CASE Post(bridgeJob, bridgeJob', inbox[bridgeJob.on.of].response)
      <4>1. inbox[bridgeJob.on.of].response \in MaybeResponse
        BY <2>1, <3>1 DEF Post
      <4> QED BY <3>1, <4>1, ExchangeTypes, PhoneJobType DEF TransferState
    <3>2. CASE \/ Put(bridgeJob, bridgeJob') \/ Uploaded(bridgeJob, bridgeJob', "ready")
               \/ Read(bridgeJob, bridgeJob') \/ Ack(bridgeJob, bridgeJob')
      BY <3>2, ExchangeTypes, PhoneJobType DEF TransferState, MaybeResponse
    <3> QED BY <1>1, <3>1, <3>2 DEF BridgeExchange
  <2> QED BY <1>1, <2>2 DEF BridgeExchange, TypeOK, Jobs, phoneVars, bridgeVars, appVars
<1>2. CASE BridgeRelease
  BY <1>2, ExchangeTypes, PhoneJobType
     DEF BridgeRelease, TypeOK, Jobs, MaybeResponse, TransferState, phoneVars, bridgeVars, appVars
<1>3. ASSUME NEW m \in Request, NEW n \in 1..MaxKeys, BridgeClaim(m, n)
      PROVE  TypeOK'
  BY <1>3, ClaimTypes, TransferOf DEF BridgeClaim, TypeOK, Jobs, phoneVars, bridgeVars, appVars
<1> QED BY <1>1, <1>2, <1>3

\* The other steps of the bridge change its own rows only.
LEMMA BridgeKeepsTypes ==
    ASSUME TypeOK,
           \/ BridgeSave \/ BridgeRecordAnswer \/ BridgeRecordPush \/ BridgeInterrupted
           \/ \E m \in Request : BridgeProcess(m) \/ BridgePoll(m) \/ BridgePush(m)
    PROVE  TypeOK'
<1>1. CASE BridgeSave
  <2> DEFINE t == bridgeJob.on
             m == t.of
  <2>1. t \in Transfer /\ m \in Request
    BY <1>1, OnTransfer, PhoneJobType, TransferOf DEF BridgeSave
  <2>2. bridgeJob' \in Receiving
    BY <1>1, <2>1 DEF BridgeSave, Receiving, TypeOK, NoJob, Sending, Importing
  <2>3. /\ received' \subseteq Transfer
        /\ inbox' \in [Request -> InboxRow]
    BY <1>1, <2>1, InboxUpdates DEF BridgeSave, TypeOK, bridgeVars
  <2>4. delivery' \in [Request -> DeliveryRow]
    <3>1. delivery' = delivery \/ (delivery[m].attempt < env.attempts /\ delivery' = AskedAgain(m))
          \/ (delivery[m].status # "delivered" /\ delivery' = AskedAgain(m))
      BY <1>1 DEF BridgeSave, bridgeVars
    <3>2. delivery \in [Request -> DeliveryRow]
      BY DEF TypeOK
    <3>3. CASE delivery[m].attempt < env.attempts
      <4>1. [delivery EXCEPT ![m] = [status |-> "pending", attempt |-> @.attempt + 1, sent |-> FALSE]]
                \in [Request -> DeliveryRow]
        BY <2>1, <3>3, DeliveryUpdates
      <4> QED BY <3>1, <3>2, <4>1 DEF AskedAgain
    <3> QED BY <3>1, <3>2, <3>3 DEF AskedAgain
  <2> QED BY <1>1, <2>2, <2>3, <2>4 DEF BridgeSave, TypeOK, phoneVars, relayVars, appVars
<1>2. CASE BridgeRecordAnswer
  <2> DEFINE m == bridgeJob.of
  <2>1. m \in Request /\ bridgeJob.saw \in Response
    BY <1>2 DEF BridgeRecordAnswer, TypeOK, NoJob, Sending, Receiving, Importing
  <2>2. inbox' \in [Request -> InboxRow] /\ delivery' \in [Request -> DeliveryRow]
    BY <1>2, <2>1, InboxUpdates, DeliveryUpdates DEF BridgeRecordAnswer, TypeOK, MaybeResponse
  <2> QED BY <1>2, <2>2 DEF BridgeRecordAnswer, TypeOK, phoneVars, relayVars, appVars
<1>3. CASE BridgeRecordPush
  <2> DEFINE m == bridgeJob.on.of
  <2>1. m \in Request
    BY <1>3, OnTransfer, PhoneJobType, TransferOf DEF BridgeRecordPush
  <2>2. delivery' \in [Request -> DeliveryRow]
    <3>1. CASE bridgeJob.saw = "expired"
      <4>1. delivery[m].attempt < env.attempts
        BY <1>3, <3>1 DEF BridgeRecordPush
      <4>2. [delivery EXCEPT ![m] = [@ EXCEPT !.attempt = delivery[m].attempt + 1, !.sent = FALSE]]
                \in [Request -> DeliveryRow]
        BY <2>1, <4>1, DeliveryUpdates
      <4> QED BY <1>3, <3>1, <4>2 DEF BridgeRecordPush
    <3>2. CASE bridgeJob.saw # "expired"
      <4>1. PushedStatus(bridgeJob.saw) \in {"pending", "uploaded", "delivered"}
        BY DEF PushedStatus
      <4>2. [delivery EXCEPT ![m] = [@ EXCEPT !.sent = TRUE, !.status = PushedStatus(bridgeJob.saw)]]
                \in [Request -> DeliveryRow]
        BY <2>1, <4>1, DeliveryUpdates
      <4> QED BY <1>3, <3>2, <4>2 DEF BridgeRecordPush
    <3> QED BY <3>1, <3>2
  <2> QED BY <1>3, <2>2 DEF BridgeRecordPush, TypeOK, phoneVars, relayVars, appVars
<1>4. CASE BridgeInterrupted
  BY <1>4 DEF BridgeInterrupted, TypeOK, phoneVars, relayVars, bridgeVars, appVars
<1>5. ASSUME NEW m \in Request, BridgeProcess(m) \/ BridgePoll(m) \/ BridgePush(m)
      PROVE  TypeOK'
  <2>1. CASE BridgeProcess(m)
    BY <2>1 DEF BridgeProcess, TypeOK, Importing, phoneVars, relayVars, bridgeVars, appVars
  <2>2. CASE BridgePush(m)
    <3>1. delivery[m].attempt \in 0..MaxAttempt
      BY DEF TypeOK, DeliveryRow
    <3>2. bridgeJob' \in Sending
      BY <2>2, <3>1, TransferOf DEF BridgePush, Sending
    <3> QED BY <2>2, <3>2 DEF BridgePush, TypeOK, phoneVars, relayVars, bridgeVars, appVars
  <2>3. CASE BridgePoll(m)
    <3>1. CASE /\ delivery' = [delivery EXCEPT ![m] = [@ EXCEPT !.status = "delivered"]]
               /\ UNCHANGED bridgeJob
      <4>1. delivery' \in [Request -> DeliveryRow]
        BY <3>1, DeliveryUpdates
      <4> QED BY <2>3, <3>1, <4>1 DEF BridgePoll, TypeOK, phoneVars, relayVars, appVars
    <3>2. CASE /\ delivery[m].attempt < env.attempts
               /\ delivery' = [delivery EXCEPT ![m] = [status |-> "pending",
                                  attempt |-> @.attempt + 1, sent |-> FALSE]]
               /\ bridgeJob' = [step |-> "post", on |-> ToPhone(m, delivery[m].attempt + 1)]
      <4>1. delivery' \in [Request -> DeliveryRow] /\ delivery[m].attempt + 1 \in 0..MaxAttempt
        BY <3>2, DeliveryUpdates
      <4>2. bridgeJob' \in Sending
        BY <3>2, <4>1, TransferOf DEF Sending
      <4> QED BY <2>3, <4>1, <4>2 DEF BridgePoll, TypeOK, phoneVars, relayVars, appVars
    <3> QED BY <2>3, <3>1, <3>2 DEF BridgePoll
  <2> QED BY <1>5, <2>1, <2>2, <2>3
<1> QED BY <1>1, <1>2, <1>3, <1>4, <1>5

\* The clock of the application counts its receipts; with finitely many requests it
\* is a number.
LEMMA ImportKeepsTypes ==
    ASSUME TypeOK, Clock \in Nat, Import \/ ImportRefused
    PROVE  TypeOK'
<1>1. CASE Import
  <2> DEFINE m == bridgeJob.of
  <2>1. m \in Request
    BY <1>1 DEF Import, TypeOK, NoJob, Sending, Receiving, Importing
  <2>2. PICK ok \in BOOLEAN : Imported(m, ok)
    BY <1>1 DEF Import
  <2>3. receipt' \in [Request -> MaybeResponse] /\ effects' \in [Request -> Nat]
    BY <2>1, <2>2 DEF Imported, TypeOK, MaybeResponse, Response
  <2>4. receipt'[m] \in Response
    BY <2>1, <2>2 DEF Imported, TypeOK, MaybeResponse, Response
  <2>5. bridgeJob' \in Importing
    BY <1>1, <2>1, <2>4 DEF Import, Importing
  <2> QED BY <1>1, <2>3, <2>5 DEF Import, TypeOK, phoneVars, relayVars, bridgeVars
<1>2. CASE ImportRefused
  <2>1. bridgeJob.of \in Request
    BY <1>2 DEF ImportRefused, TypeOK, NoJob, Sending, Receiving, Importing
  <2> QED BY <1>2, <2>1
          DEF ImportRefused, TypeOK, Importing, Refusal, Response, phoneVars, relayVars, bridgeVars, appVars
<1> QED BY <1>1, <1>2

-----------------------------------------------------------------------------
(* What is known along the chain from the phone to the application and     *)
(* back.  An answer is the same in the bridge's inbox, in every transfer   *)
(* that carries it and in the phone's receipts, and each of these tables   *)
(* has a row only when the one before it has.                              *)

Sends(job) == job.step \in {"post", "put", "sent", "told"}
Receives(job) == job.step \in {"claimed", "read", "saved"}

PhoneWork ==
    /\ Sends(phoneJob) =>
          IsRequest(phoneJob.on) /\ request[phoneJob.on.of].state # "none"
    /\ Receives(phoneJob) =>
          ~IsRequest(phoneJob.on) /\ transfer[phoneJob.on] # "none"
    /\ phoneJob.step = "saved" => receipts[phoneJob.on.of] # NoResponse

BridgeWork ==
    /\ Sends(bridgeJob) =>
          ~IsRequest(bridgeJob.on) /\ inbox[bridgeJob.on.of].status = "applied"
    /\ bridgeJob.step = "told" /\ bridgeJob.saw = "delivered" =>
          receipts[bridgeJob.on.of] # NoResponse
    /\ Receives(bridgeJob) =>
          IsRequest(bridgeJob.on) /\ transfer[bridgeJob.on] # "none"
    /\ bridgeJob.step = "saved" => inbox[bridgeJob.on.of].status # "none"
    /\ bridgeJob.step \in {"calling", "answered"} => inbox[bridgeJob.of].status = "pending"

Known(t) ==
    /\ transfer[t] # "none" =>
          IF IsRequest(t) THEN request[t.of].state # "none"
          ELSE inbox[t.of].status = "applied" /\ body[t] = inbox[t.of].response
    /\ transfer[t] = "delivered" =>
          IF IsRequest(t) THEN inbox[t.of].status # "none"
          ELSE receipts[t.of] # NoResponse

Travelling == \A t \in Transfer : Known(t)

Linked(m) ==
    /\ inbox[m].status # "none" => request[m].state # "none"
    /\ inbox[m].status = "applied" => inbox[m].response \in Response
    /\ delivery[m].status # "none" => inbox[m].status = "applied"
    /\ delivery[m].status = "delivered" => receipts[m] # NoResponse
    /\ receipts[m] # NoResponse =>
          /\ inbox[m].status = "applied"
          /\ receipts[m] = inbox[m].response
          /\ Answered(m)
    /\ Answered(m) => receipts[m] # NoResponse

Rows == \A m \in Request : Linked(m)

Noted == \A t \in received : inbox[t.of].status # "none"

ChainInv == PhoneWork /\ BridgeWork /\ Travelling /\ Rows /\ Noted

\* A response is not the absence of one.
LEMMA ResponsesAreSome == \A r \in Response : r # NoResponse
<1> SUFFICES ASSUME NEW r \in Response PROVE r # NoResponse
  OBVIOUS
<1>1. DOMAIN r = {"ok", "at"}
  BY DEF Response
<1>2. DOMAIN NoResponse = {"none"}
  BY DEF NoResponse
<1> QED BY <1>1, <1>2

\* Steps of the relay by itself, or of a party at the relay, that deliver nothing and open
\* no transfer.
Quiet ==
    /\ \A t \in Transfer : /\ transfer'[t] = "none" <=> transfer[t] = "none"
                           /\ transfer'[t] = "delivered" => transfer[t] = "delivered"
    /\ body' = body

\* Such steps change nothing that the transfers are known by.
LEMMA QuietKeepsTravelling ==
    ASSUME Travelling, Quiet, UNCHANGED <<request, inbox, receipts>>
    PROVE  Travelling'
BY DEF Travelling, Known, Quiet, IsRequest

\* The relay by itself keeps the chain: it drops, expires and forgets, it never delivers.
LEMMA RelayKeepsChain ==
    ASSUME TypeOK, ChainInv, NEW t \in Transfer,
           \/ RelayStores(t) \/ RelayDrops(t) \/ RelayExpires(t)
           \/ RelayForgets(t) \/ LeaseLapses(t)
    PROVE  ChainInv'
<1>1. UNCHANGED <<request, receipts, shown, received, inbox, delivery, phoneJob, bridgeJob>>
  BY DEF RelayStores, RelayDrops, RelayExpires, RelayForgets, LeaseLapses, phoneVars, bridgeVars
<1>2. Quiet
  BY DEF Quiet, TypeOK, RelayStores, RelayDrops, RelayExpires, RelayForgets, LeaseLapses
<1>3. PhoneWork' /\ BridgeWork'
  <2>1. \A job \in BridgeJobs : Receives(job) => job.on \in Transfer
    BY OnTransfer DEF Receives
  <2> QED BY <1>1, <1>2, <2>1, PhoneJobType
          DEF ChainInv, PhoneWork, BridgeWork, Quiet, Sends, Receives, IsRequest
<1>4. Travelling'
  BY <1>1, <1>2, QuietKeepsTravelling DEF ChainInv
<1>5. Rows' /\ Noted'
  BY <1>1 DEF ChainInv, Rows, Linked, Answered, Noted
<1> QED BY <1>3, <1>4, <1>5 DEF ChainInv

\* An exchange of one party changes nothing of what another holds at the relay.
LEMMA ExchangeKeepsKnown ==
    ASSUME TypeOK, Travelling, NEW job \in BridgeJobs, NEW next, NEW content, NEW state,
           UNCHANGED <<request, inbox, receipts>>,
           Sends(job) => IF IsRequest(job.on) THEN request[job.on.of].state # "none"
                         ELSE /\ inbox[job.on.of].status = "applied"
                              /\ content = inbox[job.on.of].response,
           job.step = "saved" => IF IsRequest(job.on) THEN inbox[job.on.of].status # "none"
                                 ELSE receipts[job.on.of] # NoResponse,
           \/ Post(job, next, content) \/ Put(job, next) \/ Uploaded(job, next, state)
           \/ Read(job, next) \/ Ack(job, next) \/ ReleaseOf(job, next)
    PROVE  /\ Travelling'
           /\ \A t \in Transfer : transfer[t] # "none" => transfer'[t] # "none"
           /\ Receives(next) => Receives(job) /\ next.on = job.on /\ next.step # "saved"
           /\ Sends(next) => Sends(job) /\ next.on = job.on
           /\ next.step \notin {"calling", "answered"}
           /\ next.step = "told" /\ next.saw = "delivered" =>
                 transfer[job.on] = "delivered" \/ state = "delivered"
<1>a. /\ job.step \in {"post", "put", "sent", "told", "claimed", "read", "saved"} => job.on \in Transfer
      /\ transfer \in [Transfer -> TransferState]
      /\ body \in [Transfer -> MaybeResponse]
  BY OnTransfer DEF TypeOK
<1> USE DEF Sends, Receives
<1>1. CASE Post(job, next, content)
  <2>1. job.on \in Transfer
    BY <1>1, <1>a DEF Post
  <2>2. CASE ~KeyInUse(job.on)
    <3>1. /\ transfer' = [transfer EXCEPT ![job.on] = "uploading"]
          /\ body' = [body EXCEPT ![job.on] = content]
          /\ next = [step |-> "put", on |-> job.on]
      BY <1>1, <2>2 DEF Post
    <3>2. ASSUME NEW t \in Transfer PROVE Known(t)'
      BY <1>1, <1>a, <2>1, <3>1 DEF Post, Travelling, Known, IsRequest
    <3> QED BY <1>1, <1>a, <2>1, <3>1, <3>2 DEF Post, Travelling
  <2>3. CASE KeyInUse(job.on)
    <3>1. /\ UNCHANGED <<transfer, body>>
          /\ \/ next = [step |-> "put", on |-> job.on]
             \/ next = [step |-> "told", on |-> job.on, saw |-> transfer[job.on]]
      BY <1>1, <2>3 DEF Post
    <3>2. Travelling'
      BY <3>1 DEF Travelling, Known, IsRequest
    <3> QED BY <1>1, <3>1, <3>2 DEF Post
  <2> QED BY <2>2, <2>3
<1>2. CASE Put(job, next)
  <2>1. Quiet
    BY <1>2, <1>a DEF Put, Quiet
  <2> QED BY <1>2, <2>1, QuietKeepsTravelling DEF Put, Quiet
<1>3. CASE Uploaded(job, next, state)
  <2>1. Quiet
    BY <1>3 DEF Uploaded, Quiet, relayVars
  <2> QED BY <1>3, <2>1, QuietKeepsTravelling DEF Uploaded, Quiet
<1>4. CASE Read(job, next)
  <2>1. Quiet
    BY <1>4 DEF Read, Quiet, relayVars
  <2>2. next.step = "read" /\ next.on = job.on
    BY <1>4 DEF Read, BridgeJobs, Jobs, NoJob, Sending, Receiving, Importing
  <2> QED BY <1>4, <2>1, <2>2, QuietKeepsTravelling DEF Read, Quiet
<1>5. CASE Ack(job, next)
  <2>1. job.on \in Transfer /\ next = NoJob
    BY <1>5, <1>a DEF Ack
  <2>2. ASSUME NEW t \in Transfer PROVE Known(t)'
    <3>1. Known(t)
      BY DEF Travelling
    <3> QED BY <1>5, <1>a, <2>1, <3>1 DEF Ack, Known, IsRequest
  <2> QED BY <1>5, <1>a, <2>1, <2>2 DEF Ack, Travelling, NoJob
<1>6. CASE ReleaseOf(job, next)
  <2>1. Quiet /\ next = NoJob
    BY <1>6 DEF ReleaseOf, Quiet
  <2> QED BY <2>1, QuietKeepsTravelling DEF Quiet, NoJob
<1> QED BY <1>1, <1>2, <1>3, <1>4, <1>5, <1>6

\* The states of the requests move on, and nothing else that the chain is about.
StatesMove ==
    /\ UNCHANGED <<receipts, inbox, delivery, received, transfer, body, bridgeJob>>
    /\ \A m \in Request : \/ request'[m].state = request[m].state
                          \/ request[m].state = "none" /\ request'[m].state = "pending"

\* So the chain holds whenever only states of requests move on.
LEMMA RequestsMove ==
    ASSUME TypeOK, ChainInv, StatesMove, PhoneWork'
    PROVE  ChainInv'
<1> USE DEF StatesMove
<1>1. Travelling'
  BY TransferOf DEF ChainInv, Travelling, Known, IsRequest
<1>2. Rows' /\ Noted'
  BY DEF ChainInv, Rows, Linked, Answered, Noted
<1>3. BridgeWork'
  BY DEF ChainInv, BridgeWork, Sends, Receives, IsRequest
<1> QED BY <1>1, <1>2, <1>3 DEF ChainInv

\* Submitting a request and choosing a transport key keep the chain.
LEMMA PhoneRequestsKeepChain ==
    ASSUME TypeOK, ChainInv, NEW m \in Request,
           PhoneEnqueue(m) \/ PhoneDayPasses(m) \/ PhoneSend(m)
    PROVE  ChainInv'
<1>a. /\ request \in [Request -> PhoneRequest]
      /\ request[m] \in PhoneRequest
      /\ \A job \in BridgeJobs : Sends(job) => job.on.of \in Request
  BY OnTransfer, TransferOf DEF TypeOK, Sends
<1>1. UNCHANGED <<receipts, inbox, delivery, received, transfer, body, bridgeJob>>
  BY DEF PhoneEnqueue, PhoneDayPasses, PhoneSend, relayVars, bridgeVars
<1>2. /\ \A n \in Request : n # m => request'[n] = request[n]
      /\ \/ request'[m].state = request[m].state
         \/ request[m].state = "none" /\ request'[m].state = "pending"
  <2>1. CASE PhoneEnqueue(m)
    <3>1. [request[m] EXCEPT !.state = "pending"].state = "pending"
      BY <1>a, RowUpdates
    <3> QED BY <1>a, <2>1, <3>1 DEF PhoneEnqueue
  <2>2. CASE PhoneDayPasses(m)
    <3>1. [request[m] EXCEPT !.stale = TRUE].state = request[m].state
      BY <1>a, RowUpdates DEF Same
    <3> QED BY <1>a, <2>2, <3>1 DEF PhoneDayPasses
  <2>3. CASE PhoneSend(m)
    <3>1. [request[m] EXCEPT !.key = request[m].key + 1, !.started = TRUE, !.stale = FALSE,
                             !.uploaded = FALSE].state = request[m].state
      BY <1>a DEF PhoneRequest
    <3> QED BY <1>a, <2>3, <3>1 DEF PhoneSend
  <2> QED BY <2>1, <2>2, <2>3
<1>3. PhoneWork'
  <2>1. CASE PhoneSend(m)
    <3>1. /\ phoneJob'.step = "post"
          /\ IsRequest(phoneJob'.on)
          /\ phoneJob'.on.of = m
          /\ request[m].state # "none"
      BY <2>1 DEF PhoneSend, NeedsTransportRetry, IsRequest, ToComputer
    <3> QED BY <1>2, <3>1 DEF PhoneWork, Sends, Receives, IsRequest
  <2>2. CASE PhoneEnqueue(m) \/ PhoneDayPasses(m)
    <3>1. phoneJob' = phoneJob
      BY <2>2 DEF PhoneEnqueue, PhoneDayPasses
    <3>2. Sends(phoneJob) => request'[phoneJob.on.of].state # "none"
      BY <1>a, <1>2, PhoneJobType DEF ChainInv, PhoneWork
    <3> QED BY <1>1, <3>1, <3>2 DEF ChainInv, PhoneWork, Sends, Receives, IsRequest
  <2> QED BY <2>1, <2>2
<1>4. StatesMove
  BY <1>1, <1>2 DEF StatesMove
<1> QED BY <1>3, <1>4, RequestsMove

\* The worker keeps the chain: it acknowledges only what persistResponse has committed.
LEMMA PhoneJobsKeepChain ==
    ASSUME TypeOK, ChainInv,
           \/ PhoneExchange \/ PhoneConclude \/ PhonePersist \/ PhoneRelease \/ PhoneInterrupted
           \/ \E m \in Request, a \in 0..MaxAttempt : PhoneClaim(m, a)
    PROVE  ChainInv'
<1>1. CASE PhoneExchange \/ PhoneRelease
  <2>1. UNCHANGED <<request, receipts, inbox, delivery, received, bridgeJob>>
    BY <1>1 DEF PhoneExchange, PhoneRelease, phoneVars, bridgeVars
  <2>2. /\ Travelling'
        /\ \A t \in Transfer : transfer[t] # "none" => transfer'[t] # "none"
        /\ Receives(phoneJob') => /\ Receives(phoneJob)
                                  /\ phoneJob'.on = phoneJob.on
                                  /\ phoneJob'.step # "saved"
        /\ Sends(phoneJob') => Sends(phoneJob) /\ phoneJob'.on = phoneJob.on
    BY <1>1, <2>1, ExchangeKeepsKnown, PhoneJobType
       DEF PhoneExchange, PhoneRelease, ChainInv, PhoneWork, Sends, Receives
  <2>3. PhoneWork'
    BY <2>1, <2>2, OnTransfer, PhoneJobType DEF ChainInv, PhoneWork, Sends, Receives, IsRequest
  <2>4. BridgeWork'
    <3>1. Receives(bridgeJob) => bridgeJob.on \in Transfer
      BY OnTransfer, PhoneJobType DEF Receives
    <3> QED BY <2>1, <2>2, <3>1 DEF ChainInv, BridgeWork, Sends, Receives, IsRequest
  <2>5. Rows' /\ Noted'
    BY <2>1 DEF ChainInv, Rows, Linked, Answered, Noted
  <2> QED BY <2>2, <2>3, <2>4, <2>5 DEF ChainInv
<1>2. CASE PhoneConclude
  <2> DEFINE m == phoneJob.on.of
  <2>1. UNCHANGED <<receipts, inbox, delivery, received, transfer, body, bridgeJob>> /\ phoneJob' = NoJob
    BY <1>2 DEF PhoneConclude, relayVars, bridgeVars
  <2>2. m \in Request
    BY <1>2, OnTransfer, PhoneJobType, TransferOf DEF PhoneConclude
  <2>3. \A n \in Request : request'[n].state = request[n].state
    <3>1. \/ request' = request
          \/ request' = [request EXCEPT ![m] = [@ EXCEPT !.uploaded = TRUE]]
          \/ request' = [request EXCEPT ![m] = [@ EXCEPT !.started = FALSE, !.stale = FALSE,
                                                       !.uploaded = FALSE]]
      BY <1>2 DEF PhoneConclude
    <3>2. request \in [Request -> PhoneRequest] /\ request[m] \in PhoneRequest
      BY <2>2 DEF TypeOK
    <3>3. /\ [request[m] EXCEPT !.uploaded = TRUE].state = request[m].state
          /\ [request[m] EXCEPT !.started = FALSE, !.stale = FALSE, !.uploaded = FALSE].state
                = request[m].state
      BY <3>2, RowUpdates DEF Same
    <3> QED BY <2>2, <3>1, <3>2, <3>3
  <2>4. PhoneWork'
    BY <2>1 DEF PhoneWork, Sends, Receives, NoJob
  <2>5. StatesMove
    BY <2>1, <2>3 DEF StatesMove
  <2> QED BY <2>4, <2>5, RequestsMove
<1>3. CASE PhonePersist
  <2> DEFINE t == phoneJob.on
             m == t.of
             r == body[t]
  <2>1. t \in Transfer /\ m \in Request
    BY <1>3, OnTransfer, PhoneJobType, TransferOf DEF PhonePersist
  <2>2. /\ inbox[m].status = "applied"
        /\ r = inbox[m].response
        /\ r \in Response
        /\ r # NoResponse
        /\ request[m].state # "none"
    BY <1>3, <2>1, ResponsesAreSome
       DEF PhonePersist, ChainInv, PhoneWork, Travelling, Known, Rows, Linked, Receives
  <2>3. UNCHANGED <<inbox, delivery, received, transfer, body, bridgeJob>>
    BY <1>3 DEF PhonePersist, relayVars, bridgeVars
  <2>4. /\ receipts' = [receipts EXCEPT ![m] = r]
        /\ receipts \in [Request -> MaybeResponse]
        /\ request \in [Request -> PhoneRequest]
        /\ request[m] \in PhoneRequest
    BY <1>3, <2>1 DEF PhonePersist, TypeOK
  <2>5. /\ \A n \in Request : n # m => request'[n] = request[n] /\ receipts'[n] = receipts[n]
        /\ receipts'[m] = r
        /\ request'[m].state \in {"completed", "rejected"}
    <3>1. CASE receipts[m] = NoResponse /\ request[m].state = "pending"
      <4>1. request' = [request EXCEPT ![m] =
                           [@ EXCEPT !.state = IF r.ok THEN "completed" ELSE "rejected"]]
        BY <1>3, <3>1 DEF PhonePersist
      <4> QED BY <2>1, <2>4, <4>1 DEF PhoneRequest
    <3>2. CASE ~(receipts[m] = NoResponse /\ request[m].state = "pending")
      <4>1. request' = request
        BY <1>3, <3>2 DEF PhonePersist
      <4>2. Answered(m)
        BY <2>1, <2>2, <2>4, <3>2 DEF ChainInv, Rows, Linked, Answered, PhoneRequest
      <4> QED BY <2>1, <2>4, <4>1, <4>2 DEF Answered
    <3> QED BY <3>1, <3>2
  <2>6. Travelling'
    BY <2>1, <2>2, <2>3, <2>5, TransferOf DEF ChainInv, Travelling, Known, IsRequest
  <2>7. Rows'
    <3> SUFFICES ASSUME NEW n \in Request PROVE Linked(n)'
      BY DEF Rows
    <3>1. CASE n = m
      BY <2>1, <2>2, <2>3, <2>5, <3>1 DEF ChainInv, Rows, Linked, Answered
    <3>2. CASE n # m
      BY <2>3, <2>5, <3>2 DEF ChainInv, Rows, Linked, Answered
    <3> QED BY <3>1, <3>2
  <2>8. BridgeWork'
    <3>1. Sends(bridgeJob) => bridgeJob.on.of \in Request
      BY OnTransfer, TransferOf, PhoneJobType DEF Sends
    <3>2. \A n \in Request : receipts[n] # NoResponse => receipts'[n] # NoResponse
      BY <2>1, <2>2, <2>5
    <3> QED BY <2>3, <3>1, <3>2 DEF ChainInv, BridgeWork, Sends, Receives, IsRequest
  <2>9. PhoneWork'
    <3>1. phoneJob'.step = "saved" /\ phoneJob'.on = t
      BY <1>3, <2>1 DEF PhonePersist, TypeOK, NoJob, Sending, Receiving
    <3> QED BY <1>3, <2>1, <2>2, <2>3, <2>5, <3>1
            DEF PhonePersist, ChainInv, PhoneWork, Sends, Receives, IsRequest
  <2> QED BY <2>3, <2>6, <2>7, <2>8, <2>9 DEF ChainInv, Noted
<1>4. CASE PhoneInterrupted
  <2>1. UNCHANGED <<request, receipts, inbox, delivery, received, transfer, body, bridgeJob>> /\ phoneJob' = NoJob
    BY <1>4 DEF PhoneInterrupted, phoneVars, relayVars, bridgeVars
  <2>2. PhoneWork' /\ StatesMove
    BY <2>1 DEF PhoneWork, StatesMove, Sends, Receives, NoJob
  <2> QED BY <2>2, RequestsMove
<1>5. ASSUME NEW m \in Request, NEW a \in 0..MaxAttempt, PhoneClaim(m, a)
      PROVE  ChainInv'
  <2>1. UNCHANGED <<request, receipts, inbox, delivery, received, transfer, body, bridgeJob>>
    BY <1>5 DEF PhoneClaim, ClaimOf, phoneVars, bridgeVars
  <2>2. PhoneWork'
    BY <1>5, <2>1 DEF PhoneClaim, ClaimOf, PhoneWork, Sends, Receives, IsRequest, ToPhone
  <2>3. StatesMove
    BY <2>1 DEF StatesMove
  <2> QED BY <2>2, <2>3, RequestsMove
<1> QED BY <1>1, <1>2, <1>3, <1>4, <1>5

\* Only the bridge's rows change, and only as the chain allows.
RowsMove(m) ==
    /\ UNCHANGED <<request, receipts, transfer, body, phoneJob>>
    /\ \A n \in Request : n # m => inbox'[n] = inbox[n] /\ delivery'[n] = delivery[n]
    /\ \/ inbox'[m] = inbox[m]
       \/ /\ inbox[m].status = "none"
          /\ inbox'[m].status = "pending"
       \/ /\ inbox[m].status = "pending"
          /\ inbox'[m].status = "applied"
          /\ inbox'[m].response \in Response
    /\ inbox'[m].status # "none" => request[m].state # "none"
    /\ delivery'[m].status # "none" => inbox'[m].status = "applied"
    /\ delivery'[m].status = "delivered" => receipts[m] # NoResponse
    /\ received' = received \/ \E t \in Transfer : /\ received' = received \cup {t}
                                                  /\ t.of = m
                                                  /\ inbox'[m].status # "none"

\* A row of the bridge that moves so keeps the chain.
LEMMA BridgeRowsMove ==
    ASSUME TypeOK, ChainInv, NEW m \in Request, RowsMove(m), BridgeWork'
    PROVE  ChainInv'
<1> USE DEF RowsMove
<1>1. PhoneWork'
  BY DEF ChainInv, PhoneWork, Sends, Receives, IsRequest
<1>2. Travelling'
  <2> SUFFICES ASSUME NEW t \in Transfer PROVE Known(t)'
    BY DEF Travelling
  <2>1. Known(t) /\ Linked(t.of) /\ t.of \in Request
    BY TransferOf DEF ChainInv, Travelling, Rows
  <2> QED BY <2>1 DEF Known, Linked, IsRequest
<1>3. Rows'
  <2> SUFFICES ASSUME NEW n \in Request PROVE Linked(n)'
    BY DEF Rows
  <2>1. Linked(n)
    BY DEF ChainInv, Rows
  <2> QED BY <2>1 DEF Linked, Answered
<1>4. Noted'
  <2>1. received \subseteq Transfer
    BY DEF TypeOK
  <2> QED BY <2>1, TransferOf DEF ChainInv, Noted
<1> QED BY <1>1, <1>2, <1>3, <1>4 DEF ChainInv

\* The bridge at the relay keeps the chain: what it uploads is the answer in its inbox,
\* and it acknowledges only what is in its inbox.
LEMMA BridgeExchangeKeepsChain ==
    ASSUME TypeOK, ChainInv, BridgeExchange \/ BridgeRelease
    PROVE  ChainInv'
<1>1. UNCHANGED <<request, receipts, inbox, delivery, received, phoneJob>>
  BY DEF BridgeExchange, BridgeRelease, phoneVars, bridgeVars
<1>a. Receives(bridgeJob) \/ Sends(bridgeJob) =>
          bridgeJob.on \in Transfer /\ bridgeJob.on.of \in Request
  BY OnTransfer, TransferOf, PhoneJobType DEF Sends, Receives
<1>2. /\ Travelling'
      /\ \A t \in Transfer : transfer[t] # "none" => transfer'[t] # "none"
      /\ Receives(bridgeJob') => /\ Receives(bridgeJob)
                                 /\ bridgeJob'.on = bridgeJob.on
                                 /\ bridgeJob'.step # "saved"
      /\ Sends(bridgeJob') => Sends(bridgeJob) /\ bridgeJob'.on = bridgeJob.on
      /\ bridgeJob'.step \notin {"calling", "answered"}
      /\ bridgeJob'.step = "told" /\ bridgeJob'.saw = "delivered" =>
            transfer[bridgeJob.on] = "delivered"
  <2> DEFINE content == inbox[bridgeJob.on.of].response
  <2>1. /\ Travelling
        /\ bridgeJob \in BridgeJobs
        /\ Sends(bridgeJob) =>
              IF IsRequest(bridgeJob.on) THEN request[bridgeJob.on.of].state # "none"
              ELSE inbox[bridgeJob.on.of].status = "applied" /\ content = inbox[bridgeJob.on.of].response
        /\ bridgeJob.step = "saved" =>
              IF IsRequest(bridgeJob.on) THEN inbox[bridgeJob.on.of].status # "none"
              ELSE receipts[bridgeJob.on.of] # NoResponse
    BY PhoneJobType DEF ChainInv, BridgeWork, Sends, Receives
  <2>2. \/ Post(bridgeJob, bridgeJob', content) \/ Put(bridgeJob, bridgeJob')
        \/ Uploaded(bridgeJob, bridgeJob', "ready")
        \/ Read(bridgeJob, bridgeJob') \/ Ack(bridgeJob, bridgeJob')
        \/ ReleaseOf(bridgeJob, bridgeJob')
    BY DEF BridgeExchange, BridgeRelease
  <2> HIDE DEF content
  <2> DEFINE state == "ready"
             next == bridgeJob'
  <2>3. \/ Post(bridgeJob, next, content) \/ Put(bridgeJob, next)
        \/ Uploaded(bridgeJob, next, state)
        \/ Read(bridgeJob, next) \/ Ack(bridgeJob, next)
        \/ ReleaseOf(bridgeJob, next)
    BY <2>2
  <2>4. state # "delivered"
    OBVIOUS
  <2> HIDE DEF state, next
  <2>5. /\ Travelling'
        /\ \A t \in Transfer : transfer[t] # "none" => transfer'[t] # "none"
        /\ Receives(next) => Receives(bridgeJob) /\ next.on = bridgeJob.on /\ next.step # "saved"
        /\ Sends(next) => Sends(bridgeJob) /\ next.on = bridgeJob.on
        /\ next.step \notin {"calling", "answered"}
        /\ next.step = "told" /\ next.saw = "delivered" =>
              transfer[bridgeJob.on] = "delivered" \/ state = "delivered"
    BY <1>1, <2>1, <2>3, ExchangeKeepsKnown
  <2> QED BY <2>4, <2>5 DEF next
<1>3. PhoneWork'
  <2>1. Receives(phoneJob) => phoneJob.on \in Transfer
    BY OnTransfer, PhoneJobType DEF Receives
  <2> QED BY <1>1, <1>2, <2>1 DEF ChainInv, PhoneWork, Sends, Receives, IsRequest
<1>4. BridgeWork'
  <2>1. Sends(bridgeJob') => ~IsRequest(bridgeJob'.on) /\ inbox[bridgeJob'.on.of].status = "applied"
    BY <1>2 DEF ChainInv, BridgeWork, IsRequest
  <2>2. Receives(bridgeJob') => IsRequest(bridgeJob'.on) /\ transfer'[bridgeJob'.on] # "none"
    BY <1>2, <1>a DEF ChainInv, BridgeWork, IsRequest
  <2>3. bridgeJob'.step = "told" /\ bridgeJob'.saw = "delivered" =>
            receipts[bridgeJob'.on.of] # NoResponse
    <3> SUFFICES ASSUME bridgeJob'.step = "told", bridgeJob'.saw = "delivered"
                 PROVE  receipts[bridgeJob'.on.of] # NoResponse
      OBVIOUS
    <3>1. /\ Sends(bridgeJob)
          /\ bridgeJob'.on = bridgeJob.on
          /\ transfer[bridgeJob.on] = "delivered"
          /\ bridgeJob.on \in Transfer
      BY <1>2, <1>a DEF Sends
    <3> QED BY <3>1 DEF ChainInv, BridgeWork, Travelling, Known
  <2> QED BY <1>1, <1>2, <2>1, <2>2, <2>3 DEF BridgeWork, Sends, Receives, IsRequest
<1>5. Rows' /\ Noted'
  BY <1>1 DEF ChainInv, Rows, Linked, Answered, Noted
<1> QED BY <1>2, <1>3, <1>4, <1>5 DEF ChainInv

\* The bridge's own tables keep the chain: an answer makes a delivery, and a delivery is
\* closed only after the relay has said that the phone took it.
LEMMA BridgeKeepsChain ==
    ASSUME TypeOK, ChainInv,
           \/ BridgeSave \/ BridgeRecordAnswer \/ BridgeRecordPush \/ BridgeInterrupted
           \/ \E m \in Request : BridgeProcess(m) \/ BridgePoll(m) \/ BridgePush(m)
           \/ \E m \in Request, n \in 1..MaxKeys : BridgeClaim(m, n)
    PROVE  ChainInv'
<1>a. /\ inbox \in [Request -> InboxRow]
      /\ delivery \in [Request -> DeliveryRow]
  BY DEF TypeOK
<1>1. CASE BridgeSave
  <2> DEFINE t == bridgeJob.on
             m == t.of
  <2>1. t \in Transfer /\ m \in Request
    BY <1>1, OnTransfer, PhoneJobType, TransferOf DEF BridgeSave
  <2>2. IsRequest(t) /\ request[m].state # "none" /\ Linked(m)
    BY <1>1, <2>1 DEF BridgeSave, ChainInv, BridgeWork, Travelling, Known, Receives, Rows
  <2>3. UNCHANGED <<request, receipts, transfer, body, phoneJob>>
    BY <1>1 DEF BridgeSave, phoneVars, relayVars
  <2>4. \/ inbox' = inbox
        \/ inbox[m].status = "none" /\ inbox' = [inbox EXCEPT ![m] = [@ EXCEPT !.status = "pending"]]
    BY <1>1 DEF BridgeSave, bridgeVars
  <2>5. delivery' = delivery \/ delivery' = AskedAgain(m)
    BY <1>1 DEF BridgeSave, bridgeVars
  <2>6. [inbox[m] EXCEPT !.status = "pending"].status = "pending"
    BY <1>a, <2>1 DEF InboxRow
  <2>7. inbox'[m].status # "none"
    <3>1. CASE t \in received
      BY <1>1, <3>1 DEF BridgeSave, bridgeVars, ChainInv, Noted
    <3>2. CASE t \notin received
      BY <1>1, <1>a, <2>1, <2>6, <3>2 DEF BridgeSave
    <3> QED BY <3>1, <3>2
  <2>8. RowsMove(m)
    <3>1. /\ \A n \in Request : n # m => inbox'[n] = inbox[n] /\ delivery'[n] = delivery[n]
          /\ delivery'[m].status # "none" => delivery[m].status # "none"
          /\ delivery'[m].status = "delivered" => delivery[m].status = "delivered"
          /\ inbox'[m] = inbox[m] \/ (inbox[m].status = "none" /\ inbox'[m].status = "pending")
      BY <1>a, <2>1, <2>4, <2>5, <2>6 DEF AskedAgain
    <3>2. received' = received \/ received' = received \cup {t}
      BY <1>1 DEF BridgeSave, bridgeVars
    <3>3. delivery'[m].status # "none" => inbox'[m].status = "applied"
      BY <2>2, <3>1 DEF Linked
    <3>4. delivery'[m].status = "delivered" => receipts[m] # NoResponse
      BY <2>2, <3>1 DEF Linked
    <3> QED BY <2>1, <2>2, <2>3, <2>7, <3>1, <3>2, <3>3, <3>4 DEF RowsMove
  <2>9. BridgeWork'
    <3>1. bridgeJob'.step = "saved" /\ bridgeJob'.on = t
      BY <1>1, <2>1 DEF BridgeSave, TypeOK, NoJob, Sending, Receiving, Importing
    <3> QED BY <1>1, <2>1, <2>2, <2>3, <2>7, <3>1
            DEF BridgeSave, ChainInv, BridgeWork, Sends, Receives, IsRequest
  <2> QED BY <2>1, <2>8, <2>9, BridgeRowsMove
<1>2. CASE BridgeRecordAnswer
  <2> DEFINE m == bridgeJob.of
  <2>1. m \in Request /\ bridgeJob.saw \in Response
    BY <1>2 DEF BridgeRecordAnswer, TypeOK, NoJob, Sending, Receiving, Importing
  <2>2. /\ UNCHANGED <<request, receipts, transfer, body, phoneJob, received>>
        /\ inbox' = [inbox EXCEPT ![m] = [status |-> "applied", response |-> bridgeJob.saw]]
        /\ delivery' = delivery \/ delivery' = [delivery EXCEPT ![m] = [@ EXCEPT !.status = "pending"]]
        /\ bridgeJob' = NoJob
    BY <1>2 DEF BridgeRecordAnswer, phoneVars, relayVars
  <2>3. Linked(m) /\ inbox[m].status = "pending"
    BY <1>2, <2>1 DEF BridgeRecordAnswer, ChainInv, Rows, BridgeWork
  <2>4. [delivery[m] EXCEPT !.status = "pending"].status = "pending"
    BY <1>a, <2>1 DEF DeliveryRow
  <2>5. RowsMove(m)
    <3>1. delivery'[m].status = "delivered" => receipts[m] # NoResponse
      BY <1>a, <2>1, <2>2, <2>3, <2>4 DEF Linked
    <3> QED BY <1>a, <2>1, <2>2, <2>3, <3>1 DEF RowsMove, Linked
  <2>6. BridgeWork'
    BY <2>2 DEF BridgeWork, Sends, Receives, NoJob
  <2> QED BY <2>1, <2>5, <2>6, BridgeRowsMove
<1>3. CASE BridgeRecordPush
  <2> DEFINE m == bridgeJob.on.of
  <2>1. m \in Request
    BY <1>3, OnTransfer, PhoneJobType, TransferOf DEF BridgeRecordPush
  <2>2. UNCHANGED <<request, receipts, transfer, body, phoneJob, received, inbox>> /\ bridgeJob' = NoJob
    BY <1>3 DEF BridgeRecordPush, phoneVars, relayVars
  <2>3. /\ Linked(m)
        /\ inbox[m].status = "applied"
        /\ bridgeJob.saw = "delivered" => receipts[m] # NoResponse
    BY <1>3, <2>1 DEF BridgeRecordPush, ChainInv, Rows, BridgeWork, Sends
  <2>4. delivery[m] \in DeliveryRow
    BY <1>a, <2>1
  <2>5. delivery'[m].status = "delivered" => receipts[m] # NoResponse
    <3>1. CASE bridgeJob.saw = "expired"
      <4>1. delivery' = [delivery EXCEPT ![m] = [@ EXCEPT !.attempt = delivery[m].attempt + 1, !.sent = FALSE]]
        BY <1>3, <3>1 DEF BridgeRecordPush
      <4>2. [delivery[m] EXCEPT !.attempt = delivery[m].attempt + 1, !.sent = FALSE].status = delivery[m].status
        BY <2>4 DEF DeliveryRow
      <4> QED BY <1>a, <2>1, <2>3, <4>1, <4>2 DEF Linked
    <3>2. CASE bridgeJob.saw # "expired"
      <4>1. delivery' = [delivery EXCEPT ![m] =
                            [@ EXCEPT !.sent = TRUE, !.status = PushedStatus(bridgeJob.saw)]]
        BY <1>3, <3>2 DEF BridgeRecordPush
      <4>2. [delivery[m] EXCEPT !.sent = TRUE, !.status = PushedStatus(bridgeJob.saw)].status
                = PushedStatus(bridgeJob.saw)
        BY <2>4 DEF DeliveryRow
      <4> QED BY <1>a, <2>1, <2>3, <4>1, <4>2 DEF PushedStatus
    <3> QED BY <3>1, <3>2
  <2>6. \A n \in Request : n # m => delivery'[n] = delivery[n]
    BY <1>3, <1>a, <2>1 DEF BridgeRecordPush
  <2>7. RowsMove(m)
    BY <2>1, <2>2, <2>3, <2>5, <2>6 DEF RowsMove, Linked
  <2>8. BridgeWork'
    BY <2>2 DEF BridgeWork, Sends, Receives, NoJob
  <2> QED BY <2>1, <2>7, <2>8, BridgeRowsMove
<1>4. CASE BridgeInterrupted
  <2>1. UNCHANGED <<request, receipts, inbox, delivery, received, transfer, body, phoneJob>> /\ bridgeJob' = NoJob
    BY <1>4 DEF BridgeInterrupted, phoneVars, relayVars, bridgeVars
  <2> QED BY <2>1 DEF ChainInv, PhoneWork, BridgeWork, Travelling, Known, Rows, Linked, Answered, Noted,
                      Sends, Receives, IsRequest, NoJob
<1>5. ASSUME NEW m \in Request, BridgeProcess(m) \/ BridgePush(m)
      PROVE  ChainInv'
  <2>1. UNCHANGED <<request, receipts, inbox, delivery, received, transfer, body, phoneJob>>
    BY <1>5 DEF BridgeProcess, BridgePush, phoneVars, relayVars, bridgeVars
  <2>2. BridgeWork'
    <3>1. CASE BridgeProcess(m)
      BY <2>1, <3>1 DEF BridgeProcess, BridgeWork, Sends, Receives
    <3>2. CASE BridgePush(m)
      <4>1. inbox[m].status = "applied"
        BY <3>2 DEF BridgePush, ChainInv, Rows, Linked
      <4> QED BY <2>1, <3>2, <4>1 DEF BridgePush, BridgeWork, Sends, Receives, IsRequest, ToPhone
    <3> QED BY <1>5, <3>1, <3>2
  <2>3. PhoneWork' /\ Travelling' /\ Rows' /\ Noted'
    BY <2>1 DEF ChainInv, PhoneWork, Travelling, Known, Rows, Linked, Answered, Noted, Sends, Receives, IsRequest
  <2> QED BY <2>2, <2>3 DEF ChainInv
<1>6. ASSUME NEW m \in Request, BridgePoll(m)
      PROVE  ChainInv'
  <2>1. /\ UNCHANGED <<request, receipts, inbox, received, transfer, body, phoneJob>>
        /\ Linked(m)
        /\ inbox[m].status = "applied"
        /\ delivery[m] \in DeliveryRow
    BY <1>6, <1>a DEF BridgePoll, phoneVars, relayVars, ChainInv, Rows, Linked
  <2>2. /\ \A n \in Request : n # m => delivery'[n] = delivery[n]
        /\ delivery'[m].status = "delivered" => receipts[m] # NoResponse
        /\ bridgeJob' = bridgeJob \/ \E a \in 0..MaxAttempt :
                                       bridgeJob' = [step |-> "post", on |-> ToPhone(m, a)]
    <3>1. CASE /\ transfer[ToPhone(m, delivery[m].attempt)] = "delivered"
               /\ delivery' = [delivery EXCEPT ![m] = [@ EXCEPT !.status = "delivered"]]
               /\ UNCHANGED bridgeJob
      <4>1. delivery[m].attempt \in 0..MaxAttempt
        BY <2>1 DEF DeliveryRow
      <4>2. ToPhone(m, delivery[m].attempt) \in Transfer
        BY <4>1, TransferOf
      <4>3. Known(ToPhone(m, delivery[m].attempt))
        BY <4>2 DEF ChainInv, Travelling
      <4>4. receipts[m] # NoResponse
        BY <3>1, <4>3 DEF Known, IsRequest, ToPhone
      <4> QED BY <1>a, <3>1, <4>4
    <3>2. CASE /\ delivery[m].attempt < env.attempts
               /\ delivery' = [delivery EXCEPT ![m] = [status |-> "pending",
                                  attempt |-> @.attempt + 1, sent |-> FALSE]]
               /\ bridgeJob' = [step |-> "post", on |-> ToPhone(m, delivery[m].attempt + 1)]
      <4>1. delivery[m].attempt + 1 \in 0..MaxAttempt
        BY <3>2, DeliveryUpdates
      <4> QED BY <1>a, <3>2, <4>1
    <3> QED BY <1>6, <3>1, <3>2 DEF BridgePoll
  <2>3. RowsMove(m)
    BY <2>1, <2>2 DEF RowsMove, Linked
  <2>4. BridgeWork'
    <3>1. CASE bridgeJob' = bridgeJob
      BY <2>1, <3>1 DEF ChainInv, BridgeWork, Sends, Receives, IsRequest
    <3>2. CASE \E a \in 0..MaxAttempt : bridgeJob' = [step |-> "post", on |-> ToPhone(m, a)]
      BY <2>1, <3>2 DEF BridgeWork, Sends, Receives, IsRequest, ToPhone
    <3> QED BY <2>2, <3>1, <3>2
  <2> QED BY <2>3, <2>4, BridgeRowsMove
<1>7. ASSUME NEW m \in Request, NEW n \in 1..MaxKeys, BridgeClaim(m, n)
      PROVE  ChainInv'
  <2>1. UNCHANGED <<request, receipts, inbox, delivery, received, transfer, body, phoneJob>>
    BY <1>7 DEF BridgeClaim, ClaimOf, phoneVars, bridgeVars
  <2>2. BridgeWork'
    BY <1>7, <2>1 DEF BridgeClaim, ClaimOf, BridgeWork, Sends, Receives, IsRequest, ToComputer
  <2>3. PhoneWork' /\ Travelling' /\ Rows' /\ Noted'
    BY <2>1 DEF ChainInv, PhoneWork, Travelling, Known, Rows, Linked, Answered, Noted, Sends, Receives, IsRequest
  <2> QED BY <2>2, <2>3 DEF ChainInv
<1> QED BY <1>1, <1>2, <1>3, <1>4, <1>5, <1>6, <1>7

\* The application answers without touching any of the chain's tables.
LEMMA ImportKeepsChain ==
    ASSUME TypeOK, ChainInv, Import \/ ImportRefused
    PROVE  ChainInv'
<1>1. /\ UNCHANGED <<request, receipts, inbox, delivery, received, transfer, body, phoneJob>>
      /\ bridgeJob.step = "calling"
      /\ bridgeJob'.step = "answered"
      /\ bridgeJob'.of = bridgeJob.of
  BY DEF Import, ImportRefused, phoneVars, relayVars, bridgeVars
<1>2. BridgeWork'
  BY <1>1 DEF ChainInv, BridgeWork, Sends, Receives
<1>3. PhoneWork' /\ Travelling' /\ Rows' /\ Noted'
  BY <1>1 DEF ChainInv, PhoneWork, Travelling, Known, Rows, Linked, Answered, Noted, Sends, Receives, IsRequest
<1> QED BY <1>2, <1>3 DEF ChainInv
-----------------------------------------------------------------------------
(* The invariant.                                                          *)

\* Only finitely many receipts exist at any time, so the clock is a number, for
\* any set of requests.
Receipted == {m \in Request : receipt[m] # NoResponse}
FewReceipts == IsFiniteSet(Receipted)

ChainedInv == TypeOK /\ StartedHaveKeys /\ ChainInv /\ FewReceipts

\* What the phone reads is an answer of the application or of the bridge.
LEMMA OnlyAnswersAreRead ==
    ASSUME TypeOK, ChainInv
    PROVE  ReadsAResponse
<1> SUFFICES ASSUME phoneJob.step = "read" PROVE body[phoneJob.on] \in Response
  BY DEF ReadsAResponse
<1>1. phoneJob.on \in Transfer /\ phoneJob.on.of \in Request
  BY OnTransfer, PhoneJobType, TransferOf
<1>2. ~IsRequest(phoneJob.on) /\ transfer[phoneJob.on] # "none"
  BY DEF ChainInv, PhoneWork, Receives
<1>3. Known(phoneJob.on) /\ Linked(phoneJob.on.of)
  BY <1>1 DEF ChainInv, Travelling, Rows
<1> QED BY <1>2, <1>3 DEF Known, Linked

\* One import adds one receipt.
LEMMA FewReceiptsStay ==
    ASSUME TypeOK, FewReceipts, Import
    PROVE  FewReceipts'
<1> DEFINE m == bridgeJob.of
<1>1. PICK ok \in BOOLEAN : Imported(m, ok)
  BY DEF Import
<1>2. receipt' = receipt \/ receipt' = [receipt EXCEPT ![m] = [ok |-> ok, at |-> Clock + 1]]
  BY <1>1 DEF Imported
<1>3. Receipted' \subseteq Receipted \cup {m}
  BY <1>2 DEF Receipted, TypeOK
<1>4. IsFiniteSet(Receipted \cup {m})
  BY FS_AddElement DEF FewReceipts
<1>5. IsFiniteSet(Receipted')
  BY <1>3, <1>4, FS_Subset
<1> QED BY <1>5 DEF FewReceipts

\* So created_at, which counts receipts, is a number.
LEMMA ClockIsANumber ==
    ASSUME FewReceipts
    PROVE  Clock \in Nat
BY FS_CardinalityType DEF FewReceipts, Receipted, Clock

\* The invariant holds at the start.
LEMMA InitChained ==
    ASSUME Init
    PROVE  ChainedInv
<1>1. TypeOK
  <2>1. env \in Environment /\ 0 \in 0..MaxKeys /\ 0 \in 0..MaxAttempt
    BY BoundAssumption DEF Init
  <2> QED BY <2>1 DEF Init, TypeOK, PhoneRequest, InboxRow, DeliveryRow, MaybeResponse, TransferState
<1>2. StartedHaveKeys
  BY DEF Init, StartedHaveKeys
<1>3. ChainInv
  BY DEF Init, ChainInv, PhoneWork, BridgeWork, Travelling, Known, Rows, Linked, Noted,
         Answered, Sends, Receives, NoJob
<1>4. FewReceipts
  <2>1. Receipted = {}
    BY DEF Init, Receipted
  <2> QED BY <2>1, FS_EmptySet DEF FewReceipts
<1> QED BY <1>1, <1>2, <1>3, <1>4 DEF ChainedInv

\* The steps by who takes them.
PhoneRequestStep == \E m \in Request : PhoneEnqueue(m) \/ PhoneDayPasses(m) \/ PhoneSend(m)
PhoneJobStep ==
    \/ PhoneExchange \/ PhoneConclude \/ PhonePersist \/ PhoneRelease \/ PhoneInterrupted
    \/ \E m \in Request, a \in 0..MaxAttempt : PhoneClaim(m, a)
RelayStep == \E t \in Transfer :
    RelayStores(t) \/ RelayDrops(t) \/ RelayExpires(t) \/ RelayForgets(t) \/ LeaseLapses(t)
BridgeStep ==
    \/ BridgeSave \/ BridgeRecordAnswer \/ BridgeRecordPush \/ BridgeInterrupted
    \/ \E m \in Request : BridgeProcess(m) \/ BridgePoll(m) \/ BridgePush(m)
BridgeRelayStep ==
    \/ BridgeExchange \/ BridgeRelease
    \/ \E m \in Request, n \in 1..MaxKeys : BridgeClaim(m, n)

\* Every step is one of these.
LEMMA StepOf ==
    ASSUME Next
    PROVE  PhoneRequestStep \/ PhoneJobStep \/ RelayStep \/ BridgeStep \/ BridgeRelayStep
           \/ Import \/ ImportRefused
BY DEF Next, PhoneRequestStep, PhoneJobStep, RelayStep, BridgeStep, BridgeRelayStep

\* Only the application's import writes receipts.
LEMMA ReceiptsOfOthers ==
    ASSUME \/ PhoneRequestStep \/ PhoneJobStep \/ RelayStep \/ BridgeStep \/ BridgeRelayStep
           \/ ImportRefused
    PROVE  UNCHANGED <<receipt, effects, env>>
<1>1. CASE PhoneRequestStep \/ RelayStep
  BY <1>1 DEF PhoneRequestStep, RelayStep, PhoneEnqueue, PhoneDayPasses, PhoneSend, RelayStores,
              RelayDrops, RelayExpires, RelayForgets, LeaseLapses, appVars
<1>2. CASE PhoneJobStep
  BY <1>2 DEF PhoneJobStep, PhoneExchange, PhoneConclude, PhonePersist, PhoneRelease,
              PhoneInterrupted, PhoneClaim, appVars
<1>3. CASE BridgeStep
  BY <1>3 DEF BridgeStep, BridgeSave, BridgeRecordAnswer, BridgeRecordPush, BridgeInterrupted,
              BridgeProcess, BridgePoll, BridgePush, appVars
<1>4. CASE BridgeRelayStep \/ ImportRefused
  BY <1>4 DEF BridgeRelayStep, BridgeExchange, BridgeRelease, BridgeClaim, ImportRefused, appVars
<1> QED BY <1>1, <1>2, <1>3, <1>4

\* Every step keeps the invariant.
LEMMA StepChained ==
    ASSUME ChainedInv, [Next]_vars
    PROVE  ChainedInv'
<1> USE DEF ChainedInv
<1>a. ReadsAResponse /\ Clock \in Nat
  BY OnlyAnswersAreRead, ClockIsANumber
<1>1. CASE PhoneRequestStep
  BY <1>1, <1>a, PhoneKeepsRequests, PhoneRequestsKeepChain, ReceiptsOfOthers
     DEF PhoneRequestStep, FewReceipts, Receipted
<1>2. CASE PhoneJobStep
  <2>1. TypeOK' /\ StartedHaveKeys' /\ ChainInv'
    BY <1>2, <1>a, PhoneKeepsJobs, PhoneJobsKeepChain DEF PhoneJobStep
  <2> QED BY <1>2, <2>1, ReceiptsOfOthers DEF FewReceipts, Receipted
<1>3. CASE RelayStep
  <2>1. PICK t \in Transfer :
            RelayStores(t) \/ RelayDrops(t) \/ RelayExpires(t) \/ RelayForgets(t) \/ LeaseLapses(t)
    BY <1>3 DEF RelayStep
  <2>2. TypeOK' /\ ChainInv'
    BY <2>1, RelayKeepsTypes, RelayKeepsChain
  <2>3. request' = request
    BY <2>1 DEF RelayStores, RelayDrops, RelayExpires, RelayForgets, LeaseLapses, phoneVars
  <2> QED BY <1>3, <2>2, <2>3, ReceiptsOfOthers DEF FewReceipts, Receipted, StartedHaveKeys
<1>4. CASE BridgeStep
  <2>1. TypeOK' /\ ChainInv'
    BY <1>4, BridgeKeepsTypes, BridgeKeepsChain DEF BridgeStep
  <2>2. request' = request
    BY <1>4 DEF BridgeStep, BridgeSave, BridgeRecordAnswer, BridgeRecordPush, BridgeInterrupted,
                BridgeProcess, BridgePoll, BridgePush, phoneVars
  <2> QED BY <1>4, <2>1, <2>2, ReceiptsOfOthers DEF FewReceipts, Receipted, StartedHaveKeys
<1>5. CASE BridgeRelayStep
  <2>1. TypeOK' /\ ChainInv'
    BY <1>5, BridgeKeepsExchange, BridgeExchangeKeepsChain, BridgeKeepsChain DEF BridgeRelayStep
  <2>2. request' = request
    BY <1>5 DEF BridgeRelayStep, BridgeExchange, BridgeRelease, BridgeClaim, phoneVars
  <2> QED BY <1>5, <2>1, <2>2, ReceiptsOfOthers DEF FewReceipts, Receipted, StartedHaveKeys
<1>6. CASE Import
  <2>1. TypeOK' /\ ChainInv' /\ FewReceipts'
    BY <1>6, <1>a, ImportKeepsTypes, ImportKeepsChain, FewReceiptsStay
  <2> QED BY <1>6, <2>1 DEF Import, StartedHaveKeys, phoneVars
<1>7. CASE ImportRefused
  <2>1. TypeOK' /\ ChainInv'
    BY <1>7, <1>a, ImportKeepsTypes, ImportKeepsChain
  <2> QED BY <1>7, <2>1, ReceiptsOfOthers
          DEF ImportRefused, StartedHaveKeys, FewReceipts, Receipted, phoneVars
<1>8. CASE UNCHANGED vars
  BY <1>8 DEF vars, TypeOK, StartedHaveKeys, ChainInv, PhoneWork, BridgeWork, Travelling, Known,
              Rows, Linked, Noted, Answered, Sends, Receives, IsRequest, FewReceipts, Receipted
<1> QED BY <1>1, <1>2, <1>3, <1>4, <1>5, <1>6, <1>7, <1>8, StepOf

\* The chain holds in every behaviour.
THEOREM ChainHolds == Spec => []ChainedInv
BY InitChained, StepChained, PTL DEF Spec

\* Every variable keeps its type.
THEOREM TypeCorrect == Spec => []TypeOK
<1>1. ChainedInv => TypeOK
  BY DEF ChainedInv
<1> QED BY <1>1, ChainHolds, PTL

\* No acknowledgement reaches the relay before the content is kept: what the relay gave
\* up as delivered is in the inbox of the bridge or in the database of the phone.
THEOREM AcksFollowContent == Spec => []NothingAckedBeforeKept
<1>1. ChainedInv => NothingAckedBeforeKept
  <2> SUFFICES ASSUME ChainedInv, NEW t \in Transfer, transfer[t] = "delivered"
               PROVE  IF IsRequest(t) THEN inbox[t.of].status # "none"
                      ELSE receipts[t.of] = body[t] /\ Answered(t.of)
    BY DEF NothingAckedBeforeKept
  <2>1. Known(t) /\ Linked(t.of)
    BY TransferOf DEF ChainedInv, ChainInv, Travelling, Rows
  <2> QED BY <2>1 DEF Known, Linked
<1> QED BY <1>1, ChainHolds, PTL

\* The bridge closes a delivery only when the phone has recorded the very response that
\* the bridge holds.
THEOREM BridgeStopsTruthfully == Spec => []StopsOnlyWhenAnswered
<1>1. ChainedInv => StopsOnlyWhenAnswered
  <2> SUFFICES ASSUME ChainedInv, NEW m \in Request, delivery[m].status = "delivered"
               PROVE  Answered(m) /\ receipts[m] = inbox[m].response
    BY DEF StopsOnlyWhenAnswered
  <2>1. Linked(m)
    BY DEF ChainedInv, ChainInv, Rows
  <2> QED BY <2>1 DEF Linked
<1> QED BY <1>1, ChainHolds, PTL

-----------------------------------------------------------------------------
(* What the phone shows.                                                   *)

Completed == {n \in Request : request[n].state = "completed"}

\* Only submitting a request and taking a response move the state of a request.
LEMMA StatesOfOthers ==
    ASSUME ChainedInv, [Next]_vars, ~PhonePersist, \A m \in Request : ~PhoneEnqueue(m)
    PROVE  /\ UNCHANGED <<receipts, shown>>
           /\ \A n \in Request : request'[n].state = request[n].state
<1>a. request \in [Request -> PhoneRequest]
  BY DEF ChainedInv, TypeOK
<1>1. ASSUME NEW m \in Request, PhoneDayPasses(m) \/ PhoneSend(m)
      PROVE  UNCHANGED <<receipts, shown>> /\ \A n \in Request : request'[n].state = request[n].state
  <2>1. UNCHANGED <<receipts, shown>>
    BY <1>1 DEF PhoneDayPasses, PhoneSend
  <2>2. request[m] \in PhoneRequest
    BY <1>a
  <2>3. CASE PhoneDayPasses(m)
    <3>1. [request[m] EXCEPT !.stale = TRUE].state = request[m].state
      BY <2>2, RowUpdates DEF Same
    <3> QED BY <1>a, <2>1, <2>3, <3>1 DEF PhoneDayPasses
  <2>4. CASE PhoneSend(m)
    <3>1. [request[m] EXCEPT !.key = request[m].key + 1, !.started = TRUE, !.stale = FALSE,
                             !.uploaded = FALSE].state = request[m].state
      BY <2>2 DEF PhoneRequest
    <3> QED BY <1>a, <2>1, <2>4, <3>1 DEF PhoneSend
  <2> QED BY <1>1, <2>3, <2>4
<1>2. CASE PhoneConclude
  <2> DEFINE m == phoneJob.on.of
  <2>1. m \in Request /\ request[m] \in PhoneRequest
    BY <1>a, <1>2, OnTransfer, PhoneJobType, TransferOf DEF PhoneConclude, ChainedInv
  <2>2. \/ request' = request
        \/ request' = [request EXCEPT ![m] = [@ EXCEPT !.uploaded = TRUE]]
        \/ request' = [request EXCEPT ![m] = [@ EXCEPT !.started = FALSE, !.stale = FALSE,
                                                     !.uploaded = FALSE]]
    BY <1>2 DEF PhoneConclude
  <2>3. /\ [request[m] EXCEPT !.uploaded = TRUE].state = request[m].state
        /\ [request[m] EXCEPT !.started = FALSE, !.stale = FALSE,
                              !.uploaded = FALSE].state = request[m].state
    BY <2>1, RowUpdates DEF Same
  <2>4. \A n \in Request : request'[n].state = request[n].state
    BY <1>a, <2>1, <2>2, <2>3
  <2> QED BY <1>2, <2>4 DEF PhoneConclude
<1>3. CASE PhoneExchange \/ PhoneRelease \/ PhoneInterrupted
           \/ \E m \in Request, a \in 0..MaxAttempt : PhoneClaim(m, a)
  BY <1>3 DEF PhoneExchange, PhoneRelease, PhoneInterrupted, PhoneClaim, phoneVars
<1>4. CASE RelayStep
  BY <1>4 DEF RelayStep, RelayStores, RelayDrops, RelayExpires, RelayForgets, LeaseLapses, phoneVars
<1>5. CASE BridgeStep
  BY <1>5 DEF BridgeStep, BridgeSave, BridgeRecordAnswer, BridgeRecordPush, BridgeInterrupted,
              BridgeProcess, BridgePoll, BridgePush, phoneVars
<1>6. CASE BridgeRelayStep \/ Import \/ ImportRefused
  BY <1>6 DEF BridgeRelayStep, BridgeExchange, BridgeRelease, BridgeClaim, Import, ImportRefused, phoneVars
<1>7. CASE UNCHANGED vars
  BY <1>7 DEF vars
<1> QED BY <1>1, <1>2, <1>3, <1>4, <1>5, <1>6, <1>7, StepOf DEF PhoneRequestStep, PhoneJobStep

\* Only taking a response completes a request or changes what is shown.
LEMMA DisplayOfOthers ==
    ASSUME ChainedInv, [Next]_vars, ~PhonePersist
    PROVE  UNCHANGED <<receipts, shown>> /\ Completed' = Completed
<1>1. ASSUME NEW m \in Request, PhoneEnqueue(m)
      PROVE  UNCHANGED <<receipts, shown>> /\ Completed' = Completed
  <2>1. request \in [Request -> PhoneRequest] /\ request[m] \in PhoneRequest
    BY DEF ChainedInv, TypeOK
  <2>2. [request[m] EXCEPT !.state = "pending"].state = "pending"
    BY <2>1, RowUpdates
  <2>3. \A n \in Request : request'[n].state = "completed" <=> request[n].state = "completed"
    BY <1>1, <2>1, <2>2 DEF PhoneEnqueue
  <2> QED BY <1>1, <2>3 DEF PhoneEnqueue, Completed
<1> QED BY <1>1, StatesOfOthers DEF Completed

\* ShowsTheNewest without its set of times.
Newest ==
    /\ shown = 0 \/ \E n \in Completed : receipts[n].at = shown
    /\ \A n \in Completed : receipts[n].at <= shown

\* The two say the same.
LEMMA NewestIsShown == Newest <=> ShowsTheNewest
BY DEF Newest, ShowsTheNewest, Completed

\* persistResponse keeps the newest on display: an older response never replaces
\* what is shown.
LEMMA PersistKeepsNewest ==
    ASSUME ChainedInv, Newest, PhonePersist
    PROVE  Newest'
<1> DEFINE m == phoneJob.on.of
           r == body[phoneJob.on]
<1>1. m \in Request /\ phoneJob.on \in Transfer
  BY OnTransfer, PhoneJobType, TransferOf DEF ChainedInv, PhonePersist
<1>2. r \in Response /\ r.at \in Nat /\ shown \in Nat
  <2>1. r \in Response
    BY OnlyAnswersAreRead DEF ChainedInv, ReadsAResponse, PhonePersist
  <2> QED BY <2>1 DEF ChainedInv, TypeOK, Response
<1>3. /\ Answered(m) <=> receipts[m] # NoResponse
      /\ request \in [Request -> PhoneRequest]
      /\ receipts \in [Request -> MaybeResponse]
      /\ request[m] \in PhoneRequest
  BY <1>1 DEF ChainedInv, ChainInv, Rows, Linked, TypeOK
<1>4. \A n \in Completed : receipts[n].at \in Nat
  <2> SUFFICES ASSUME NEW n \in Completed PROVE receipts[n].at \in Nat
    OBVIOUS
  <2>1. n \in Request /\ receipts[n] # NoResponse
    BY DEF Completed, ChainedInv, ChainInv, Rows, Linked, Answered
  <2> QED BY <1>3, <2>1 DEF MaybeResponse, Response
<1>5. receipts' = [receipts EXCEPT ![m] = r] /\ receipts[m] \in {NoResponse, r}
  BY DEF PhonePersist
<1> HIDE DEF m, r
<1>6. CASE receipts[m] = NoResponse /\ request[m].state = "pending"
  <2> DEFINE s == IF r.ok THEN "completed" ELSE "rejected"
  <2>1. /\ request' = [request EXCEPT ![m] = [@ EXCEPT !.state = s]]
        /\ shown' = IF r.ok THEN NewestWins(r) ELSE shown
    BY <1>6 DEF PhonePersist, m, r
  <2>2. [request[m] EXCEPT !.state = s].state = s
    BY <1>3 DEF PhoneRequest
  <2>3. m \notin Completed
    BY <1>6 DEF Completed
  <2>4. Completed' = IF r.ok THEN Completed \cup {m} ELSE Completed
    BY <1>1, <1>3, <2>1, <2>2, <2>3 DEF Completed
  <2>5. /\ \A n \in Completed : receipts'[n] = receipts[n]
        /\ receipts'[m] = r
    BY <1>1, <1>3, <1>5, <2>3
  <2> HIDE DEF s
  <2> QED BY <1>2, <1>4, <2>1, <2>3, <2>4, <2>5 DEF Newest, NewestWins
<1>7. CASE ~(receipts[m] = NoResponse /\ request[m].state = "pending")
  <2>1. UNCHANGED <<request, shown>>
    BY <1>7 DEF PhonePersist, m, r
  <2>2. \A n \in Completed : receipts'[n] = receipts[n]
    BY <1>1, <1>3, <1>5 DEF Completed, Answered
  <2> QED BY <2>1, <2>2 DEF Newest, Completed
<1> QED BY <1>6, <1>7

\* The records on display are those of the newest response the phone has taken.
THEOREM NewestShown == Spec => []ShowsTheNewest
<1>1. Init => Newest
  BY DEF Init, Newest, Completed
<1>2. ChainedInv /\ Newest /\ [Next]_vars => Newest'
  <2> SUFFICES ASSUME ChainedInv, Newest, [Next]_vars, ~PhonePersist PROVE Newest'
    BY PersistKeepsNewest
  <2>1. UNCHANGED <<receipts, shown>> /\ Completed' = Completed
    BY DisplayOfOthers
  <2> QED BY <2>1 DEF Newest
<1> QED BY <1>1, <1>2, ChainHolds, NewestIsShown, PTL DEF Spec

-----------------------------------------------------------------------------
(* One decision: the answer in the bridge's inbox is the application's     *)
(* receipt, or the bridge's own refusal of a request the application never *)
(* takes.                                                                  *)

AnswerOf(m, r) == IF receipt[m] # NoResponse THEN r = receipt[m]
                  ELSE m \in env.malformed /\ r = Refusal

Decided(m) ==
    /\ inbox[m].status = "applied" => AnswerOf(m, inbox[m].response)
    /\ receipt[m] # NoResponse => m \notin env.malformed /\ inbox[m].status # "none"

DecisionInv ==
    /\ \A m \in Request : Decided(m)
    /\ bridgeJob.step = "answered" => AnswerOf(bridgeJob.of, bridgeJob.saw)

\* Steps that record no answer and make none.
LEMMA DecisionOfOthers ==
    ASSUME ChainedInv, DecisionInv, [Next]_vars,
           ~Import, ~ImportRefused, ~BridgeRecordAnswer
    PROVE  /\ UNCHANGED <<receipt, effects, env>>
           /\ \A m \in Request : /\ inbox'[m].status = "applied" <=> inbox[m].status = "applied"
                                 /\ inbox'[m].response = inbox[m].response
                                 /\ inbox[m].status # "none" => inbox'[m].status # "none"
           /\ bridgeJob'.step = "answered" => bridgeJob' = bridgeJob
<1>1. CASE PhoneRequestStep \/ RelayStep
  BY <1>1, ReceiptsOfOthers DEF PhoneRequestStep, RelayStep, PhoneEnqueue, PhoneDayPasses, PhoneSend, RelayStores,
              RelayDrops, RelayExpires, RelayForgets, LeaseLapses, bridgeVars
<1>2. CASE PhoneJobStep
  BY <1>2, ReceiptsOfOthers DEF PhoneJobStep, PhoneExchange, PhoneConclude, PhonePersist, PhoneRelease,
              PhoneInterrupted, PhoneClaim, bridgeVars
<1>3. CASE BridgeSave
  <2> DEFINE m == bridgeJob.on.of
  <2>1. m \in Request /\ inbox \in [Request -> InboxRow]
    BY <1>3, OnTransfer, PhoneJobType, TransferOf DEF BridgeSave, ChainedInv, TypeOK
  <2>2. \/ inbox' = inbox
        \/ inbox[m].status = "none" /\ inbox' = [inbox EXCEPT ![m] = [@ EXCEPT !.status = "pending"]]
    BY <1>3 DEF BridgeSave, bridgeVars
  <2>3. /\ [inbox[m] EXCEPT !.status = "pending"].status = "pending"
        /\ [inbox[m] EXCEPT !.status = "pending"].response = inbox[m].response
    BY <2>1 DEF InboxRow
  <2>4. bridgeJob'.step = "saved"
    BY <1>3 DEF BridgeSave, ChainedInv, TypeOK, NoJob, Sending, Receiving, Importing
  <2> HIDE DEF m
  <2>5. \A n \in Request : \/ inbox'[n] = inbox[n]
                           \/ /\ inbox[n].status = "none"
                              /\ inbox'[n].status = "pending"
                              /\ inbox'[n].response = inbox[n].response
    BY <2>1, <2>2, <2>3
  <2> QED BY <1>3, <2>4, <2>5, ReceiptsOfOthers DEF BridgeStep
<1>4. CASE BridgeRecordPush \/ BridgeInterrupted
           \/ \E m \in Request : BridgeProcess(m) \/ BridgePoll(m) \/ BridgePush(m)
  <2>1. UNCHANGED inbox
    BY <1>4 DEF BridgeRecordPush, BridgeInterrupted, BridgeProcess, BridgePoll, BridgePush, bridgeVars
  <2>2. bridgeJob'.step # "answered" \/ bridgeJob' = bridgeJob
    BY <1>4 DEF BridgeRecordPush, BridgeInterrupted, BridgeProcess, BridgePoll, BridgePush, NoJob
  <2> QED BY <1>4, <2>1, <2>2, ReceiptsOfOthers DEF BridgeStep
<1>5. CASE BridgeRelayStep
  <2>1. UNCHANGED inbox
    BY <1>5 DEF BridgeRelayStep, BridgeExchange, BridgeRelease, BridgeClaim, bridgeVars
  <2>2. bridgeJob'.step # "answered"
    <3>1. CASE BridgeExchange
      <4>1. bridgeJob' \in Jobs
        <5>3. Post(bridgeJob, bridgeJob', inbox[bridgeJob.on.of].response) => bridgeJob' \in Jobs
          BY <3>1, OnTransfer, PhoneJobType, ExchangeTypes, TransferOf
             DEF Post, Jobs, Sending, ChainedInv, TypeOK, InboxRow
        <5>4. Put(bridgeJob, bridgeJob') \/ Uploaded(bridgeJob, bridgeJob', "ready")
              \/ Read(bridgeJob, bridgeJob') \/ Ack(bridgeJob, bridgeJob') => bridgeJob' \in Jobs
          BY PhoneJobType, ExchangeTypes DEF ChainedInv, TransferState, MaybeResponse
        <5> QED BY <3>1, <5>3, <5>4 DEF BridgeExchange
      <4> QED BY <4>1 DEF Jobs, NoJob, Sending, Receiving
    <3>2. CASE BridgeRelease \/ \E m \in Request, n \in 1..MaxKeys : BridgeClaim(m, n)
      BY <3>2 DEF BridgeRelease, ReleaseOf, BridgeClaim, ClaimOf, NoJob
    <3> QED BY <1>5, <3>1, <3>2 DEF BridgeRelayStep
  <2> QED BY <1>5, <2>1, <2>2, ReceiptsOfOthers
<1>6. CASE UNCHANGED vars
  BY <1>6 DEF vars
<1> QED BY <1>1, <1>2, <1>3, <1>4, <1>5, <1>6, StepOf DEF BridgeStep

\* Every step keeps to the one decision.
LEMMA StepDecision ==
    ASSUME ChainedInv, DecisionInv, [Next]_vars
    PROVE  DecisionInv'
<1> DEFINE m == bridgeJob.of
<1>1. CASE Import
  <2>1. m \in Request /\ m \notin env.malformed /\ inbox[m].status = "pending"
    BY <1>1 DEF Import, ChainedInv, ChainInv, BridgeWork, TypeOK, NoJob, Sending, Receiving, Importing
  <2>2. PICK ok \in BOOLEAN : Imported(m, ok)
    BY <1>1 DEF Import
  <2>3. /\ receipt \in [Request -> MaybeResponse]
        /\ Clock \in Nat
    BY ClockIsANumber DEF ChainedInv, TypeOK
  <2>4. /\ receipt'[m] # NoResponse
        /\ receipt[m] # NoResponse => receipt'[m] = receipt[m]
        /\ \A n \in Request : n # m => receipt'[n] = receipt[n]
    <3>1. [ok |-> ok, at |-> Clock + 1] \in Response
      BY <2>3 DEF Response
    <3> QED BY <2>1, <2>2, <2>3, <3>1, ResponsesAreSome DEF Imported
  <2>5. /\ UNCHANGED <<inbox, env>>
        /\ bridgeJob' = [step |-> "answered", of |-> m, saw |-> receipt'[m]]
    BY <1>1 DEF Import, bridgeVars
  <2> HIDE DEF m
  <2> QED BY <2>1, <2>4, <2>5 DEF DecisionInv, Decided, AnswerOf
<1>2. CASE ImportRefused
  <2>1. m \in Request /\ m \in env.malformed
    BY <1>2 DEF ImportRefused, ChainedInv, TypeOK, NoJob, Sending, Receiving, Importing
  <2>2. /\ UNCHANGED <<inbox, receipt, env>>
        /\ bridgeJob' = [step |-> "answered", of |-> m, saw |-> Refusal]
    BY <1>2 DEF ImportRefused, bridgeVars, appVars
  <2> HIDE DEF m
  <2> QED BY <2>1, <2>2 DEF DecisionInv, Decided, AnswerOf
<1>3. CASE BridgeRecordAnswer
  <2>1. m \in Request /\ inbox \in [Request -> InboxRow] /\ AnswerOf(m, bridgeJob.saw)
    BY <1>3 DEF BridgeRecordAnswer, DecisionInv, ChainedInv, TypeOK, NoJob, Sending, Receiving, Importing
  <2>2. /\ UNCHANGED <<receipt, env>>
        /\ inbox' = [inbox EXCEPT ![m] = [status |-> "applied", response |-> bridgeJob.saw]]
        /\ bridgeJob' = NoJob
    BY <1>3 DEF BridgeRecordAnswer, appVars
  <2> HIDE DEF m
  <2> QED BY <2>1, <2>2 DEF DecisionInv, Decided, AnswerOf, NoJob
<1>4. CASE ~Import /\ ~ImportRefused /\ ~BridgeRecordAnswer
  <2>1. /\ UNCHANGED <<receipt, effects, env>>
        /\ \A n \in Request : /\ inbox'[n].status = "applied" <=> inbox[n].status = "applied"
                              /\ inbox'[n].response = inbox[n].response
                              /\ inbox[n].status # "none" => inbox'[n].status # "none"
        /\ bridgeJob'.step = "answered" => bridgeJob' = bridgeJob
    BY <1>4, DecisionOfOthers
  <2> QED BY <2>1 DEF DecisionInv, Decided, AnswerOf
<1> QED BY <1>1, <1>2, <1>3, <1>4

\* An answer is one decision.
THEOREM AnswersAreDecisions == Spec => []DecisionInv
<1>1. Init => DecisionInv
  BY DEF Init, DecisionInv, Decided, NoJob
<1> QED BY <1>1, StepDecision, ChainHolds, PTL DEF Spec

-----------------------------------------------------------------------------
(* To its user the chain keeps RequestPromise.                             *)

\* Progress, case by case.
LEMMA ProgressIs ==
    ASSUME NEW m \in Request
    PROVE  /\ request[m].state = "none" => Progress(m) = "new"
           /\ Answered(m) => Progress(m) = request[m].state
           /\ request[m].state = "pending" /\ receipt[m] # NoResponse =>
                 Progress(m) = IF receipt[m].ok THEN "accepted" ELSE "refused"
           /\ request[m].state = "pending" /\ receipt[m] = NoResponse =>
                 Progress(m) = IF inbox[m].status = "applied" THEN "refused" ELSE "pending"
BY DEF Progress, Answered

\* Where nothing that counts changes, a request stands where it stood.
LEMMA StandsStill ==
    ASSUME NEW m \in Request, request[m] \in PhoneRequest,
           request'[m].state = request[m].state, receipt'[m] = receipt[m],
           receipt[m] = NoResponse =>
               (inbox'[m].status = "applied" <=> inbox[m].status = "applied")
    PROVE  Progress(m)' = Progress(m)
<1>1. request[m].state \in {"none", "pending", "completed", "rejected"}
  BY DEF PhoneRequest
<1> QED BY <1>1 DEF Progress, Answered

\* One request moves and the others stand still.
OneMoves(m) == \A n \in Request : n # m => Progress(n)' = Progress(n)

\* A request that moves along the promise takes one of its steps.
LEMMA KeptSteps ==
    ASSUME NEW m \in Request, OneMoves(m), effects \in [Request -> Nat]
    PROVE  /\ Progress(m) = "new" /\ Progress(m)' = "pending" /\ UNCHANGED effects => Kept!Submit(m)
           /\ Progress(m) = "pending" /\ Progress(m)' = "refused" /\ UNCHANGED effects => Kept!Refuse(m)
           /\ Progress(m) = "pending" /\ Progress(m)' = "accepted"
                 /\ effects' = [effects EXCEPT ![m] = @ + 1] => Kept!Accept(m)
           /\ Progress(m) = "accepted" /\ Progress(m)' = "completed" /\ UNCHANGED effects => Kept!Report(m)
           /\ Progress(m) = "refused" /\ Progress(m)' = "rejected" /\ UNCHANGED effects => Kept!Report(m)
BY DEF OneMoves, Kept!Submit, Kept!Refuse, Kept!Accept, Kept!Report

\* When no request moves the promise stutters.
LEMMA AllStand ==
    ASSUME \A m \in Request : Progress(m)' = Progress(m), effects' = effects
    PROVE  UNCHANGED Kept!vars
BY DEF Kept!vars

\* The first import decides and takes effect; every later one answers from the receipt.
LEMMA ImportKeepsPromise ==
    ASSUME ChainedInv, DecisionInv, Import
    PROVE  [Kept!Next]_(Kept!vars)
<1>0. PICK m \in Request : m = bridgeJob.of
  BY DEF Import, ChainedInv, TypeOK, NoJob, Sending, Receiving, Importing
<1>1. m \notin env.malformed /\ inbox[m].status = "pending"
  BY <1>0 DEF Import, ChainedInv, ChainInv, BridgeWork
<1>2. PICK ok \in BOOLEAN : Imported(m, ok)
  BY <1>0 DEF Import
<1>3. /\ receipt \in [Request -> MaybeResponse]
      /\ request \in [Request -> PhoneRequest]
      /\ effects \in [Request -> Nat]
      /\ UNCHANGED <<request, inbox>>
  BY DEF ChainedInv, TypeOK, Import, phoneVars, bridgeVars
<1>4. request[m].state = "pending"
  BY <1>1, <1>3 DEF ChainedInv, ChainInv, Rows, Linked, Answered, PhoneRequest
<1>5. CASE receipt[m] # NoResponse
  <2>1. UNCHANGED <<receipt, effects>>
    BY <1>2, <1>5 DEF Imported
  <2>2. \A n \in Request : Progress(n)' = Progress(n)
    BY <1>3, <2>1, StandsStill
  <2> QED BY <2>1, <2>2, AllStand
<1>6. CASE receipt[m] = NoResponse
  <2> DEFINE r == [ok |-> ok, at |-> Clock + 1]
  <2>1. /\ receipt' = [receipt EXCEPT ![m] = r]
        /\ effects' = IF ok THEN [effects EXCEPT ![m] = @ + 1] ELSE effects
    BY <1>2, <1>6 DEF Imported
  <2>2. r \in Response /\ r.ok = ok
    BY ClockIsANumber DEF ChainedInv, Response
  <2>3. r # NoResponse
    BY <2>2, ResponsesAreSome
  <2> HIDE DEF r
  <2>4. receipt'[m] = r /\ \A n \in Request : n # m => receipt'[n] = receipt[n]
    BY <1>1, <1>3, <2>1
  <2>5. OneMoves(m)
    BY <1>3, <2>4, StandsStill DEF OneMoves
  <2>6. Progress(m) = "pending"
    BY <1>1, <1>4, <1>6, ProgressIs
  <2>7. Progress(m)' = IF ok THEN "accepted" ELSE "refused"
    BY <1>3, <1>4, <2>2, <2>3, <2>4 DEF Progress, Answered
  <2>8. Kept!Accept(m) \/ Kept!Refuse(m)
    BY <1>1, <1>3, <2>1, <2>5, <2>6, <2>7, KeptSteps
  <2> QED BY <1>1, <2>8 DEF Kept!Next
<1> QED BY <1>5, <1>6

\* Recording an answer decides a request only when the bridge made the answer up.
LEMMA RecordKeepsPromise ==
    ASSUME ChainedInv, DecisionInv, BridgeRecordAnswer
    PROVE  [Kept!Next]_(Kept!vars)
<1>0. PICK m \in Request : m = bridgeJob.of
  BY DEF BridgeRecordAnswer, ChainedInv, TypeOK, NoJob, Sending, Receiving, Importing
<1>1. inbox[m].status = "pending" /\ AnswerOf(m, bridgeJob.saw)
  BY <1>0 DEF BridgeRecordAnswer, DecisionInv, ChainedInv, ChainInv, BridgeWork
<1>2. /\ receipt \in [Request -> MaybeResponse]
      /\ inbox \in [Request -> InboxRow]
      /\ request \in [Request -> PhoneRequest]
      /\ effects \in [Request -> Nat]
      /\ UNCHANGED <<request, receipt, effects>>
      /\ inbox' = [inbox EXCEPT ![m] = [status |-> "applied", response |-> bridgeJob.saw]]
  BY <1>0 DEF ChainedInv, TypeOK, BridgeRecordAnswer, phoneVars, appVars
<1>3. request[m].state = "pending"
  BY <1>1, <1>2 DEF ChainedInv, ChainInv, Rows, Linked, Answered, PhoneRequest
<1>4. inbox'[m].status = "applied" /\ \A n \in Request : n # m => inbox'[n] = inbox[n]
  BY <1>1, <1>2
<1>5. OneMoves(m)
  BY <1>2, <1>4, StandsStill DEF OneMoves
<1>6. CASE receipt[m] # NoResponse
  <2>1. Progress(m)' = Progress(m)
    BY <1>1, <1>2, <1>6, StandsStill
  <2> QED BY <1>2, <1>5, <2>1, AllStand DEF OneMoves
<1>7. CASE receipt[m] = NoResponse
  <2>1. Progress(m) = "pending"
    BY <1>1, <1>3, <1>7, ProgressIs
  <2>2. Progress(m)' = "refused"
    BY <1>2, <1>3, <1>4, <1>7 DEF Progress, Answered
  <2>3. Kept!Refuse(m)
    BY <1>1, <1>2, <1>5, <2>1, <2>2, KeptSteps
  <2> QED BY <1>1, <2>3 DEF Kept!Next
<1> QED BY <1>6, <1>7

\* Taking a response reports the decision; a response taken before changes nothing.
LEMMA PersistKeepsPromise ==
    ASSUME ChainedInv, DecisionInv, PhonePersist
    PROVE  [Kept!Next]_(Kept!vars)
<1> DEFINE r == body[phoneJob.on]
<1>1. phoneJob.on \in Transfer /\ phoneJob.on.of \in Request
  BY OnTransfer, PhoneJobType, TransferOf DEF ChainedInv, PhonePersist
<1>0. PICK m \in Request : m = phoneJob.on.of
  BY <1>1
<1>2. /\ request \in [Request -> PhoneRequest]
      /\ effects \in [Request -> Nat]
      /\ UNCHANGED <<receipt, effects, inbox>>
  BY DEF ChainedInv, TypeOK, PhonePersist, bridgeVars, appVars
<1>3. inbox[m].status = "applied" /\ r = inbox[m].response /\ AnswerOf(m, r)
  <2>1. ~IsRequest(phoneJob.on) /\ transfer[phoneJob.on] # "none" /\ Known(phoneJob.on)
    BY <1>1 DEF PhonePersist, ChainedInv, ChainInv, PhoneWork, Travelling, Receives
  <2> QED BY <1>0, <2>1 DEF Known, DecisionInv, Decided
<1>4. CASE receipts[m] = NoResponse /\ request[m].state = "pending"
  <2> DEFINE s == IF r.ok THEN "completed" ELSE "rejected"
  <2>1. request' = [request EXCEPT ![m] = [@ EXCEPT !.state = s]]
    BY <1>0, <1>4 DEF PhonePersist
  <2> HIDE DEF r
  <2>2. [request[m] EXCEPT !.state = s].state = s
    BY <1>1, <1>2 DEF PhoneRequest
  <2>3. request'[m].state = s /\ \A n \in Request : n # m => request'[n] = request[n]
    BY <1>1, <1>2, <2>1, <2>2
  <2>4. OneMoves(m)
    BY <1>2, <2>3, StandsStill DEF OneMoves
  <2>5. Progress(m) = IF r.ok THEN "accepted" ELSE "refused"
    BY <1>1, <1>3, <1>4, ProgressIs DEF AnswerOf, Refusal
  <2>6. Progress(m)' = s
    BY <2>3 DEF Progress, Answered
  <2>7. Kept!Report(m)
    BY <1>1, <1>2, <2>4, <2>5, <2>6, KeptSteps
  <2> QED BY <1>1, <2>7 DEF Kept!Next
<1>5. CASE ~(receipts[m] = NoResponse /\ request[m].state = "pending")
  <2>1. UNCHANGED request
    BY <1>0, <1>5 DEF PhonePersist
  <2>2. \A n \in Request : Progress(n)' = Progress(n)
    BY <1>2, <2>1, StandsStill
  <2> QED BY <1>2, <2>2, AllStand
<1> QED BY <1>4, <1>5

\* Submitting a request starts it.
LEMMA EnqueueKeepsPromise ==
    ASSUME ChainedInv, DecisionInv, NEW m \in Request, PhoneEnqueue(m)
    PROVE  [Kept!Next]_(Kept!vars)
<1>1. /\ request \in [Request -> PhoneRequest]
      /\ effects \in [Request -> Nat]
      /\ UNCHANGED <<receipt, effects, inbox>>
      /\ request[m].state = "none"
      /\ request' = [request EXCEPT ![m] = [@ EXCEPT !.state = "pending"]]
  BY DEF ChainedInv, TypeOK, PhoneEnqueue, bridgeVars, appVars
<1>2. inbox[m].status = "none" /\ receipt[m] = NoResponse
  BY <1>1 DEF ChainedInv, ChainInv, Rows, Linked, DecisionInv, Decided
<1>3. [request[m] EXCEPT !.state = "pending"].state = "pending"
  BY <1>1, RowUpdates
<1>4. request'[m].state = "pending" /\ \A n \in Request : n # m => request'[n] = request[n]
  BY <1>1, <1>3
<1>5. OneMoves(m)
  BY <1>1, <1>4, StandsStill DEF OneMoves
<1>6. Progress(m) = "new" /\ Progress(m)' = "pending"
  BY <1>1, <1>2, <1>4 DEF Progress, Answered
<1>7. Kept!Submit(m)
  BY <1>1, <1>5, <1>6, KeptSteps
<1> QED BY <1>7 DEF Kept!Next

\* Every step of the chain is a step of the promise or none.
LEMMA StepKeepsPromise ==
    ASSUME ChainedInv, DecisionInv, [Next]_vars
    PROVE  [Kept!Next]_(Kept!vars)
<1>1. ASSUME ~Import, ~ImportRefused, ~BridgeRecordAnswer, ~PhonePersist,
             \A m \in Request : ~PhoneEnqueue(m)
      PROVE  UNCHANGED Kept!vars
  <2>1. /\ UNCHANGED <<receipt, effects>>
        /\ \A m \in Request : /\ inbox'[m].status = "applied" <=> inbox[m].status = "applied"
                              /\ request'[m].state = request[m].state
    BY <1>1, DecisionOfOthers, StatesOfOthers
  <2>2. \A m \in Request : request[m] \in PhoneRequest
    BY DEF ChainedInv, TypeOK
  <2>3. \A m \in Request : Progress(m)' = Progress(m)
    BY <2>1, <2>2, StandsStill
  <2> QED BY <2>1, <2>3, AllStand
<1>2. CASE ImportRefused
  <2>1. UNCHANGED <<request, receipt, effects, inbox>>
    BY <1>2 DEF ImportRefused, phoneVars, bridgeVars, appVars
  <2>2. \A m \in Request : request[m] \in PhoneRequest
    BY DEF ChainedInv, TypeOK
  <2>3. \A m \in Request : Progress(m)' = Progress(m)
    BY <2>1, <2>2, StandsStill
  <2> QED BY <2>1, <2>3, AllStand
<1> QED BY <1>1, <1>2, ImportKeepsPromise, RecordKeepsPromise, PersistKeepsPromise, EnqueueKeepsPromise

\* The whole chain of phone, relay, bridge and application implements RequestPromise:
\* whatever is lost, repeated, reordered or interrupted, a request changes the business
\* data at most once, is decided once, and the phone records that decision.
THEOREM PromiseIsKept == Spec => KeepsPromise
<1>1. Init => Kept!Init
  BY DEF Init, Kept!Init, Progress, Answered
<1> QED BY <1>1, StepKeepsPromise, ChainHolds, AnswersAreDecisions, PTL DEF Spec, KeepsPromise, Kept!Spec

-----------------------------------------------------------------------------
(* The transport keys of the responses.                                    *)

\* A response goes out under its latest key until the bridge has noted that, no later
\* key has been used, and what the bridge was told of a delivery is still so.
Latest(m) == ToPhone(m, delivery[m].attempt)

SendsLatest ==
    Sends(bridgeJob) => /\ bridgeJob.on = Latest(bridgeJob.on.of)
                        /\ ~delivery[bridgeJob.on.of].sent
                        /\ delivery[bridgeJob.on.of].status # "delivered"

Unused(m) == \A n \in 0..MaxAttempt : n > delivery[m].attempt => transfer[ToPhone(m, n)] = "none"

LaterKeysUnused == \A m \in Request : Unused(m)

ToldTruly ==
    bridgeJob.step = "told" /\ bridgeJob.saw = "delivered" => transfer[bridgeJob.on] = "delivered"

KeysInv == SendsLatest /\ LaterKeysUnused /\ ToldTruly

\* What EachAskIsServed says of one step.
Served(m) ==
    LET latest == ToPhone(m, delivery'[m].attempt)
        reopened == delivery[m].status = "delivered" /\ delivery'[m].status # "delivered"
        closed == delivery[m].status # "delivered" /\ delivery'[m].status = "delivered"
    IN  /\ reopened \/ delivery'[m].attempt # delivery[m].attempt => transfer[latest] = "none"
        /\ closed => transfer[latest] = "delivered"

\* Where the deliveries stand still.
LEMMA NothingOwed ==
    ASSUME delivery' = delivery
    PROVE  \A m \in Request : Served(m)
BY DEF Served

\* Only the bridge opens the transfer of a response, and only the one it sends.
LEMMA BridgeOpens ==
    ASSUME ChainedInv, [Next]_vars, NEW t \in Transfer, ~IsRequest(t),
           transfer[t] = "none", transfer'[t] # "none"
    PROVE  BridgeExchange /\ Sends(bridgeJob) /\ bridgeJob.on = t
<1>a. transfer \in [Transfer -> TransferState]
  BY DEF ChainedInv, TypeOK
<1>1. CASE RelayStep
  BY <1>1, <1>a DEF RelayStep, RelayStores, RelayDrops, RelayExpires, RelayForgets, LeaseLapses
<1>2. ASSUME NEW job \in BridgeJobs, NEW next, NEW content, NEW state,
             \/ Post(job, next, content) \/ Put(job, next) \/ Uploaded(job, next, state)
             \/ Read(job, next) \/ Ack(job, next) \/ ReleaseOf(job, next)
      PROVE  Post(job, next, content) /\ job.on = t
  BY <1>2, <1>a DEF Post, Put, Uploaded, Read, Ack, ReleaseOf, relayVars
<1>3. CASE PhoneExchange \/ PhoneRelease
  <2>1. PICK next, content, state :
            \/ Post(phoneJob, next, content) \/ Put(phoneJob, next) \/ Uploaded(phoneJob, next, state)
            \/ Read(phoneJob, next) \/ Ack(phoneJob, next) \/ ReleaseOf(phoneJob, next)
    BY <1>3 DEF PhoneExchange, PhoneRelease
  <2>2. phoneJob.step = "post" /\ phoneJob.on = t
    BY <1>2, <2>1, PhoneJobType DEF Post, ChainedInv
  <2> QED BY <2>2 DEF ChainedInv, ChainInv, PhoneWork, Sends
<1>4. CASE BridgeExchange \/ BridgeRelease
  <2>1. PICK next, content, state :
            \/ Post(bridgeJob, next, content) \/ Put(bridgeJob, next) \/ Uploaded(bridgeJob, next, state)
            \/ Read(bridgeJob, next) \/ Ack(bridgeJob, next) \/ ReleaseOf(bridgeJob, next)
    BY <1>4 DEF BridgeExchange, BridgeRelease
  <2>2. bridgeJob.step = "post" /\ bridgeJob.on = t
    BY <1>2, <2>1, PhoneJobType DEF Post, ChainedInv
  <2> QED BY <1>4, <2>2 DEF Sends, BridgeRelease, ReleaseOf
<1>5. CASE PhoneRequestStep \/ (PhoneJobStep /\ ~PhoneExchange /\ ~PhoneRelease)
  BY <1>5 DEF PhoneRequestStep, PhoneEnqueue, PhoneDayPasses, PhoneSend, PhoneJobStep, PhoneConclude,
              PhonePersist, PhoneInterrupted, PhoneClaim, ClaimOf, relayVars
<1>6. CASE BridgeStep \/ (BridgeRelayStep /\ ~BridgeExchange /\ ~BridgeRelease)
  BY <1>6 DEF BridgeStep, BridgeSave, BridgeRecordAnswer, BridgeRecordPush, BridgeInterrupted,
              BridgeProcess, BridgePoll, BridgePush, BridgeRelayStep, BridgeClaim, ClaimOf, relayVars
<1>7. CASE Import \/ ImportRefused
  BY <1>7 DEF Import, ImportRefused, relayVars
<1>8. CASE UNCHANGED vars
  BY <1>8 DEF vars
<1> QED BY <1>1, <1>3, <1>4, <1>5, <1>6, <1>7, <1>8, StepOf

\* So no key is used before its attempt has come, however the deliveries move on.
LEMMA KeysStayUnused ==
    ASSUME ChainedInv, KeysInv, [Next]_vars,
           \A m \in Request : delivery'[m].attempt \in 0..MaxAttempt
                              /\ delivery'[m].attempt >= delivery[m].attempt
    PROVE  LaterKeysUnused'
<1> SUFFICES ASSUME NEW m \in Request, NEW n \in 0..MaxAttempt, n > delivery'[m].attempt,
                    transfer'[ToPhone(m, n)] # "none"
             PROVE  FALSE
  BY DEF LaterKeysUnused, Unused, ToPhone
<1> DEFINE t == ToPhone(m, n)
<1>1. delivery[m].attempt \in 0..MaxAttempt /\ n > delivery[m].attempt
  <2>1. delivery[m] \in DeliveryRow
    BY DEF ChainedInv, TypeOK
  <2> QED BY <2>1, BoundAssumption DEF DeliveryRow
<1>2. t \in Transfer /\ ~IsRequest(t) /\ transfer[t] = "none"
  BY <1>1, TransferOf DEF KeysInv, LaterKeysUnused, Unused, IsRequest, ToPhone
<1>3. Sends(bridgeJob) /\ bridgeJob.on = t
  BY <1>2, BridgeOpens
<1>4. bridgeJob.on.of = m /\ bridgeJob.on.n = n
  BY <1>3 DEF ToPhone
<1>5. ToPhone(m, delivery[m].attempt).n = n
  BY <1>3, <1>4 DEF KeysInv, SendsLatest, Latest
<1> QED BY <1>1, <1>5 DEF ToPhone

\* Steps of the others, and of the bridge at the relay.
LEMMA OthersKeepKeys ==
    ASSUME ChainedInv, KeysInv, [Next]_vars, delivery' = delivery,
           \/ ~Sends(bridgeJob')
           \/ /\ UNCHANGED bridgeJob
              /\ \A t \in Transfer : t = bridgeJob.on /\ transfer[t] = "delivered" => transfer'[t] = "delivered"
    PROVE  KeysInv' /\ \A m \in Request : Served(m)
<1>1. \A m \in Request : delivery'[m].attempt \in 0..MaxAttempt
                         /\ delivery'[m].attempt >= delivery[m].attempt
  <2>1. \A m \in Request : delivery[m] \in DeliveryRow
    BY DEF ChainedInv, TypeOK
  <2> QED BY <2>1, BoundAssumption DEF DeliveryRow
<1>2. LaterKeysUnused'
  BY <1>1, KeysStayUnused
<1>3. SendsLatest'
  BY DEF KeysInv, SendsLatest, Sends, Latest, ToPhone
<1>4. ToldTruly'
  <2> SUFFICES ASSUME bridgeJob'.step = "told", bridgeJob'.saw = "delivered"
               PROVE  transfer'[bridgeJob'.on] = "delivered"
    BY DEF ToldTruly
  <2>1. Sends(bridgeJob') /\ bridgeJob' = bridgeJob
    BY DEF Sends
  <2>2. bridgeJob.on \in Transfer
    BY <2>1, OnTransfer, PhoneJobType DEF Sends, ChainedInv
  <2> QED BY <2>1, <2>2 DEF KeysInv, ToldTruly
<1> QED BY <1>2, <1>3, <1>4, NothingOwed DEF KeysInv

\* The bridge at the relay goes on with the transfer it sends.
LEMMA ExchangeKeepsKeys ==
    ASSUME ChainedInv, KeysInv, [Next]_vars, BridgeExchange
    PROVE  KeysInv' /\ \A m \in Request : Served(m)
<1>1. UNCHANGED delivery
  BY DEF BridgeExchange, bridgeVars
<1>2. CASE ~Sends(bridgeJob')
  BY <1>1, <1>2, OthersKeepKeys
<1>3. CASE Sends(bridgeJob')
  <2>1. /\ Sends(bridgeJob) /\ bridgeJob'.on = bridgeJob.on
        /\ bridgeJob'.step = "told" /\ bridgeJob'.saw = "delivered" =>
              transfer[bridgeJob.on] = "delivered" /\ transfer' = transfer
    <3>1. CASE Post(bridgeJob, bridgeJob', inbox[bridgeJob.on.of].response)
      BY <3>1 DEF Post, KeyInUse, Sends
    <3>2. CASE Put(bridgeJob, bridgeJob') \/ Uploaded(bridgeJob, bridgeJob', "ready")
      BY <3>2 DEF Put, Uploaded, Sends
    <3>3. CASE Ack(bridgeJob, bridgeJob')
      BY <1>3, <3>3 DEF Ack, Sends, NoJob
    <3>4. CASE Read(bridgeJob, bridgeJob')
      <4>1. bridgeJob.step = "claimed" /\ bridgeJob' = [bridgeJob EXCEPT !.step = "read"]
        BY <3>4 DEF Read
      <4>2. bridgeJob \in Receiving
        BY <4>1 DEF ChainedInv, TypeOK, NoJob, Sending, Importing
      <4> QED BY <1>3, <4>1, <4>2 DEF Receiving, Sends
    <3> QED BY <3>1, <3>2, <3>3, <3>4 DEF BridgeExchange
  <2>2. \A m \in Request : delivery'[m].attempt \in 0..MaxAttempt
                           /\ delivery'[m].attempt >= delivery[m].attempt
    <3>1. \A m \in Request : delivery[m] \in DeliveryRow
      BY DEF ChainedInv, TypeOK
    <3> QED BY <1>1, <3>1, BoundAssumption DEF DeliveryRow
  <2>3. LaterKeysUnused'
    BY <2>2, KeysStayUnused
  <2>4. SendsLatest'
    BY <1>1, <2>1 DEF KeysInv, SendsLatest, Latest, ToPhone
  <2>5. ToldTruly'
    BY <2>1 DEF ToldTruly
  <2> QED BY <1>1, <2>3, <2>4, <2>5, NothingOwed DEF KeysInv
<1> QED BY <1>2, <1>3

\* One delivery moves to another row.
OneRow(m, row) == /\ row \in DeliveryRow
                  /\ row.attempt >= delivery[m].attempt
                  /\ delivery' = [delivery EXCEPT ![m] = row]

\* The steps that move a delivery: to a key not used yet, or to delivered when the
\* latest key's transfer is.
LEMMA RowKeepsKeys ==
    ASSUME ChainedInv, KeysInv, [Next]_vars, NEW m \in Request, NEW row, OneRow(m, row),
           transfer' = transfer,
           Sends(bridgeJob') => /\ bridgeJob' = [step |-> "post", on |-> ToPhone(m, row.attempt)]
                                /\ ~row.sent
                                /\ row.status # "delivered",
           \/ row.attempt > delivery[m].attempt
           \/ /\ row.attempt = delivery[m].attempt
              /\ (row.status = "delivered" => transfer[Latest(m)] = "delivered")
              /\ (delivery[m].status = "delivered" => row.status = "delivered"),
           row.attempt > delivery[m].attempt => row.status # "delivered" \/ delivery[m].status = "delivered"
    PROVE  KeysInv' /\ \A x \in Request : Served(x)
<1>1. /\ delivery'[m] = row
      /\ \A x \in Request : x # m => delivery'[x] = delivery[x]
      /\ \A x \in Request : delivery[x] \in DeliveryRow
      /\ row.attempt \in 0..MaxAttempt
  BY DEF OneRow, ChainedInv, TypeOK, DeliveryRow
<1>2. LaterKeysUnused'
  <2>1. \A x \in Request : delivery'[x].attempt \in 0..MaxAttempt
                           /\ delivery'[x].attempt >= delivery[x].attempt
    BY <1>1, BoundAssumption DEF DeliveryRow, OneRow
  <2> QED BY <2>1, KeysStayUnused
<1>3. SendsLatest'
  <2> SUFFICES ASSUME Sends(bridgeJob') PROVE SendsLatest'
    BY DEF SendsLatest, Sends
  <2>1. bridgeJob' = [step |-> "post", on |-> ToPhone(m, row.attempt)] /\ ~row.sent /\ row.status # "delivered"
    OBVIOUS
  <2>2. bridgeJob'.on = ToPhone(m, row.attempt) /\ bridgeJob'.on.of = m
    BY <2>1 DEF ToPhone
  <2> QED BY <1>1, <2>1, <2>2 DEF SendsLatest, Latest, ToPhone
<1>4. ToldTruly'
  BY DEF ToldTruly, Sends
<1>5. Served(m)
  <2>1. CASE row.attempt > delivery[m].attempt
    <3>1. transfer[ToPhone(m, row.attempt)] = "none"
      BY <1>1, <2>1 DEF KeysInv, LaterKeysUnused, Unused
    <3> QED BY <1>1, <2>1, <3>1 DEF Served
  <2>2. CASE /\ row.attempt = delivery[m].attempt
             /\ row.status = "delivered" => transfer[Latest(m)] = "delivered"
             /\ delivery[m].status = "delivered" => row.status = "delivered"
    BY <1>1, <2>2 DEF Served, Latest
  <2> QED BY <2>1, <2>2
<1>6. \A x \in Request : x # m => Served(x)
  BY <1>1 DEF Served
<1> QED BY <1>2, <1>3, <1>4, <1>5, <1>6 DEF KeysInv

\* Every step keeps the keys in order and serves what is asked.
LEMMA StepKeys ==
    ASSUME ChainedInv, KeysInv, [Next]_vars
    PROVE  KeysInv' /\ \A m \in Request : Served(m)
<1>a. \A m \in Request : /\ delivery[m] \in DeliveryRow
                         /\ delivery[m].attempt \in 0..MaxAttempt
                         /\ delivery[m].attempt \in Nat
  BY BoundAssumption DEF ChainedInv, TypeOK, DeliveryRow
<1>b. delivery \in [Request -> DeliveryRow] /\ TypeOK
  BY DEF ChainedInv, TypeOK
<1>1. CASE RelayStep
  <2>1. UNCHANGED <<delivery, bridgeJob>>
    BY <1>1 DEF RelayStep, RelayStores, RelayDrops, RelayExpires, RelayForgets, LeaseLapses, bridgeVars
  <2>2. CASE Sends(bridgeJob)
    <3>1. /\ bridgeJob.on = Latest(bridgeJob.on.of)
          /\ ~delivery[bridgeJob.on.of].sent
      BY <2>2 DEF KeysInv, SendsLatest
    <3>2. bridgeJob.on.n = delivery[bridgeJob.on.of].attempt /\ bridgeJob.on.of \in Request
      <4>1. bridgeJob.on \in Transfer
        BY <1>b, <2>2, OnTransfer, PhoneJobType DEF Sends
      <4> QED BY <3>1, <4>1, TransferOf DEF Latest, ToPhone
    <3>3. ~RelayForgets(bridgeJob.on)
      BY <1>a, <3>1, <3>2 DEF RelayForgets
    <3>4. transfer \in [Transfer -> TransferState]
      BY <1>b DEF TypeOK
    <3>5. \A t \in Transfer : t = bridgeJob.on /\ transfer[t] = "delivered" => transfer'[t] = "delivered"
      BY <1>1, <3>3, <3>4 DEF RelayStep, RelayStores, RelayDrops, RelayExpires, RelayForgets, LeaseLapses
    <3> QED BY <2>1, <3>5, OthersKeepKeys
  <2> QED BY <2>1, <2>2, OthersKeepKeys
<1>2. CASE PhoneRequestStep \/ PhoneJobStep
  <2>1. UNCHANGED <<delivery, bridgeJob>>
    BY <1>2 DEF PhoneRequestStep, PhoneEnqueue, PhoneDayPasses, PhoneSend, PhoneJobStep, PhoneExchange,
                PhoneConclude, PhonePersist, PhoneRelease, PhoneInterrupted, PhoneClaim, bridgeVars
  <2>2. \A t \in Transfer : transfer[t] = "delivered" => transfer'[t] = "delivered"
    <3>1. transfer \in [Transfer -> TransferState]
      BY <1>b DEF TypeOK
    <3> QED BY <1>2, <3>1
            DEF PhoneRequestStep, PhoneEnqueue, PhoneDayPasses, PhoneSend, PhoneJobStep, PhoneExchange,
                PhoneConclude, PhonePersist, PhoneRelease, PhoneInterrupted, PhoneClaim, ClaimOf, Post, Put,
                Uploaded, Read, Ack, ReleaseOf, KeyInUse, relayVars
  <2> QED BY <2>1, <2>2, OthersKeepKeys
<1>3. CASE BridgeInterrupted \/ Import \/ ImportRefused \/ BridgeRelease
           \/ \E m \in Request : BridgeProcess(m) \/ \E n \in 1..MaxKeys : BridgeClaim(m, n)
  <2>1. UNCHANGED delivery
    BY <1>3 DEF BridgeInterrupted, Import, ImportRefused, BridgeRelease, BridgeProcess, BridgeClaim, bridgeVars
  <2>2. ~Sends(bridgeJob')
    BY <1>3 DEF BridgeInterrupted, Import, ImportRefused, BridgeRelease, ReleaseOf, BridgeProcess, BridgeClaim,
                ClaimOf, Sends, NoJob
  <2> QED BY <2>1, <2>2, OthersKeepKeys
<1>4. ASSUME NEW m \in Request, BridgePush(m)
      PROVE  KeysInv' /\ \A x \in Request : Served(x)
  <2>1. OneRow(m, delivery[m])
    BY <1>4, <1>a, <1>b DEF BridgePush, bridgeVars, OneRow
  <2>2. /\ transfer' = transfer
        /\ bridgeJob' = [step |-> "post", on |-> ToPhone(m, delivery[m].attempt)]
        /\ ~delivery[m].sent /\ delivery[m].status # "delivered"
    BY <1>4 DEF BridgePush, relayVars
  <2> QED BY <1>a, <2>1, <2>2, RowKeepsKeys
<1>5. ASSUME NEW m \in Request, BridgePoll(m)
      PROVE  KeysInv' /\ \A x \in Request : Served(x)
  <2>1. transfer' = transfer /\ bridgeJob = NoJob /\ delivery[m].status \in {"pending", "uploaded"}
    BY <1>5 DEF BridgePoll, relayVars
  <2>2. CASE /\ transfer[Latest(m)] = "delivered"
             /\ delivery' = [delivery EXCEPT ![m] = [@ EXCEPT !.status = "delivered"]]
             /\ UNCHANGED bridgeJob
    <3> DEFINE row == [delivery[m] EXCEPT !.status = "delivered"]
    <3>1. row \in DeliveryRow /\ row.status = "delivered" /\ row.attempt = delivery[m].attempt
      BY <1>a DEF DeliveryRow
    <3>2. delivery' = [delivery EXCEPT ![m] = row]
      BY <2>2
    <3>3. ~Sends(bridgeJob')
      BY <2>1, <2>2 DEF Sends, NoJob
    <3> HIDE DEF row
    <3>4. OneRow(m, row)
      BY <1>a, <3>1, <3>2 DEF OneRow
    <3> QED BY <1>a, <2>1, <2>2, <3>1, <3>3, <3>4, RowKeepsKeys
  <2>3. CASE /\ delivery[m].attempt < env.attempts
             /\ delivery' = [delivery EXCEPT ![m] = [status |-> "pending",
                                attempt |-> @.attempt + 1, sent |-> FALSE]]
             /\ bridgeJob' = [step |-> "post", on |-> ToPhone(m, delivery[m].attempt + 1)]
    <3> DEFINE row == [status |-> "pending", attempt |-> delivery[m].attempt + 1, sent |-> FALSE]
    <3>1. delivery[m].attempt + 1 \in 0..MaxAttempt
      BY <1>b, <2>3, DeliveryUpdates
    <3>2. /\ row \in DeliveryRow
          /\ row.status = "pending" /\ row.attempt = delivery[m].attempt + 1 /\ ~row.sent
      BY <3>1 DEF DeliveryRow
    <3>3. delivery' = [delivery EXCEPT ![m] = row]
      BY <2>3
    <3> HIDE DEF row
    <3>4. OneRow(m, row) /\ row.attempt > delivery[m].attempt
      BY <1>a, <3>2, <3>3 DEF OneRow
    <3> QED BY <2>1, <2>3, <3>2, <3>4, RowKeepsKeys
  <2> QED BY <1>5, <2>2, <2>3 DEF BridgePoll, Latest
<1>6. CASE BridgeSave
  <2> DEFINE m == bridgeJob.on.of
  <2>1. m \in Request
    BY <1>6, <1>b, OnTransfer, PhoneJobType, TransferOf DEF BridgeSave
  <2>2. transfer' = transfer /\ ~Sends(bridgeJob')
    <3>1. bridgeJob' = [bridgeJob EXCEPT !.step = "saved"] /\ bridgeJob.step = "read"
      BY <1>6 DEF BridgeSave
    <3>2. bridgeJob'.step = "saved"
      <4>1. bridgeJob \in Receiving
        BY <1>b, <3>1 DEF TypeOK, NoJob, Sending, Importing
      <4> QED BY <3>1, <4>1 DEF Receiving
    <3> QED BY <1>6, <3>2 DEF BridgeSave, Sends, relayVars
  <2>3. CASE delivery' = delivery
    BY <2>2, <2>3, OthersKeepKeys
  <2>4. CASE /\ delivery[m].status = "delivered"
             /\ delivery[m].attempt < env.attempts
             /\ delivery' = [delivery EXCEPT ![m] = [status |-> "pending", attempt |-> @.attempt + 1,
                                                     sent |-> FALSE]]
    <3> HIDE DEF m
    <3> DEFINE row == [status |-> "pending", attempt |-> delivery[m].attempt + 1, sent |-> FALSE]
    <3>1. delivery[m].attempt + 1 \in 0..MaxAttempt
      BY <1>b, <2>1, <2>4, DeliveryUpdates
    <3>2. /\ row \in DeliveryRow
          /\ row.status = "pending" /\ row.attempt = delivery[m].attempt + 1 /\ ~row.sent
      BY <3>1 DEF DeliveryRow
    <3>3. delivery' = [delivery EXCEPT ![m] = row]
      BY <2>4
    <3> HIDE DEF row
    <3>4. OneRow(m, row) /\ row.attempt > delivery[m].attempt
      BY <1>a, <2>1, <3>2, <3>3 DEF OneRow
    <3> QED BY <2>1, <2>2, <3>2, <3>4, RowKeepsKeys
  <2> QED BY <1>6, <2>3, <2>4 DEF BridgeSave, AskedAgain, bridgeVars
<1>7. CASE BridgeRecordAnswer
  <2> DEFINE m == bridgeJob.of
  <2>1. m \in Request
    BY <1>7, <1>b DEF BridgeRecordAnswer, TypeOK, NoJob, Sending, Receiving, Importing
  <2>2. transfer' = transfer /\ ~Sends(bridgeJob')
    BY <1>7 DEF BridgeRecordAnswer, Sends, NoJob, relayVars
  <2>3. CASE delivery' = delivery
    BY <2>2, <2>3, OthersKeepKeys
  <2>4. CASE delivery[m].status = "none" /\ delivery' = [delivery EXCEPT ![m] = [@ EXCEPT !.status = "pending"]]
    <3> HIDE DEF m
    <3> DEFINE row == [delivery[m] EXCEPT !.status = "pending"]
    <3>1. row \in DeliveryRow /\ row.status = "pending" /\ row.attempt = delivery[m].attempt
      BY <1>a, <2>1 DEF DeliveryRow
    <3>2. delivery' = [delivery EXCEPT ![m] = row]
      BY <2>4
    <3> HIDE DEF row
    <3>3. OneRow(m, row)
      BY <1>a, <2>1, <3>1, <3>2 DEF OneRow
    <3> QED BY <1>a, <2>1, <2>2, <2>4, <3>1, <3>3, RowKeepsKeys
  <2> QED BY <1>7, <2>3, <2>4 DEF BridgeRecordAnswer
<1>8. CASE BridgeRecordPush
  <2> DEFINE m == bridgeJob.on.of
  <2>1. m \in Request
    BY <1>8, <1>b, OnTransfer, PhoneJobType, TransferOf DEF BridgeRecordPush
  <2>2. transfer' = transfer /\ ~Sends(bridgeJob')
    BY <1>8 DEF BridgeRecordPush, Sends, NoJob, relayVars
  <2>3. /\ bridgeJob.on = Latest(m)
        /\ delivery[m].status # "delivered"
        /\ bridgeJob.saw = "delivered" => transfer[bridgeJob.on] = "delivered"
    BY <1>8 DEF BridgeRecordPush, KeysInv, SendsLatest, ToldTruly, Sends
  <2>4. CASE /\ bridgeJob.saw = "expired"
             /\ delivery[m].attempt < env.attempts
             /\ delivery' = [delivery EXCEPT ![m] = [@ EXCEPT !.attempt = delivery[m].attempt + 1,
                                                              !.sent = FALSE]]
    <3> HIDE DEF m
    <3> DEFINE row == [delivery[m] EXCEPT !.attempt = delivery[m].attempt + 1, !.sent = FALSE]
    <3>1. delivery[m].attempt + 1 \in 0..MaxAttempt
      BY <1>b, <2>1, <2>4, DeliveryUpdates
    <3>2. /\ row \in DeliveryRow
          /\ row.status = delivery[m].status /\ row.attempt = delivery[m].attempt + 1 /\ ~row.sent
      BY <1>a, <2>1, <3>1 DEF DeliveryRow
    <3>3. delivery' = [delivery EXCEPT ![m] = row]
      BY <2>4
    <3> HIDE DEF row
    <3>4. OneRow(m, row) /\ row.attempt > delivery[m].attempt
      BY <1>a, <2>1, <3>2, <3>3 DEF OneRow
    <3> QED BY <2>1, <2>2, <2>3, <3>2, <3>4, RowKeepsKeys
  <2>5. CASE delivery' = [delivery EXCEPT ![m] = [@ EXCEPT !.sent = TRUE, !.status = PushedStatus(bridgeJob.saw)]]
    <3> DEFINE row == [delivery[m] EXCEPT !.sent = TRUE, !.status = PushedStatus(bridgeJob.saw)]
    <3>1. /\ row \in DeliveryRow
          /\ row.status = PushedStatus(bridgeJob.saw) /\ row.attempt = delivery[m].attempt
      BY <1>a, <2>1 DEF DeliveryRow, PushedStatus
    <3>2. delivery' = [delivery EXCEPT ![m] = row]
      BY <2>5
    <3>3. row.status = "delivered" => transfer[Latest(m)] = "delivered"
      BY <2>3, <3>1 DEF PushedStatus
    <3> HIDE DEF row, m
    <3>4. OneRow(m, row)
      BY <1>a, <2>1, <3>1, <3>2 DEF OneRow
    <3> QED BY <1>a, <2>1, <2>2, <2>3, <3>1, <3>3, <3>4, RowKeepsKeys
  <2> QED BY <1>8, <2>4, <2>5 DEF BridgeRecordPush
<1>9. CASE UNCHANGED vars
  <2>1. UNCHANGED <<delivery, bridgeJob, transfer>>
    BY <1>9 DEF vars
  <2> QED BY <2>1, OthersKeepKeys
<1> QED BY <1>1, <1>2, <1>3, <1>4, <1>5, <1>6, <1>7, <1>8, <1>9, ExchangeKeepsKeys, StepOf
        DEF BridgeStep, BridgeRelayStep

\* Every time a response is owed, first or again, it goes under a key the relay has never
\* seen, and the bridge closes it only on the delivery of the latest one.
THEOREM AsksAreServed == Spec => EachAskIsServed
<1>1. Init => KeysInv
  BY DEF Init, KeysInv, SendsLatest, LaterKeysUnused, Unused, ToldTruly, Sends, NoJob, Transfer, ToPhone
<1>2. ChainedInv /\ KeysInv /\ [Next]_vars => KeysInv' /\ \A m \in Request : Served(m)
  BY StepKeys
<1>3. (\A m \in Request : Served(m)) =>
          [\A m \in Request :
              LET latest == ToPhone(m, delivery'[m].attempt)
                  reopened == delivery[m].status = "delivered" /\ delivery'[m].status # "delivered"
                  closed == delivery[m].status # "delivered" /\ delivery'[m].status = "delivered"
              IN  /\ reopened \/ delivery'[m].attempt # delivery[m].attempt => transfer[latest] = "none"
                  /\ closed => transfer[latest] = "delivered"]_vars
  BY DEF Served
<1> QED BY <1>1, <1>2, <1>3, ChainHolds, PTL DEF Spec, EachAskIsServed

-----------------------------------------------------------------------------
(* The relay this module assumes does no more than TransferPromise allows. *)

\* How one transfer moves.
Opens(t, s) == transfer[t] = "none" /\ s = "uploading"
Fills(t, s) == transfer[t] = "writing" /\ s = "ready"
Works(t, s) == transfer[t] \in {"uploading", "writing"} /\ s \in {"uploading", "writing"}
Expires(t, s) == transfer[t] \in {"uploading", "writing", "ready"} /\ s = "expired"
Forgets(t, s) == transfer[t] \in {"expired", "delivered"} /\ s = "gone"
Delivers(t, s) == transfer[t] = "ready" /\ s = "delivered"

Moves(t, s) ==
    \/ Opens(t, s) \/ Fills(t, s) \/ Works(t, s)
    \/ Expires(t, s) \/ Forgets(t, s) \/ Delivers(t, s)

OneTransferMoves ==
    \E t \in Transfer, s \in TransferState :
        transfer' = [transfer EXCEPT ![t] = s] /\ Moves(t, s)

\* An exchange with the relay moves one transfer at most, and along its states.
LEMMA ExchangeMoves ==
    ASSUME NEW job \in BridgeJobs, NEW next, NEW content, NEW state,
           \/ Post(job, next, content) \/ Put(job, next) \/ Uploaded(job, next, state)
           \/ Read(job, next) \/ Ack(job, next) \/ ReleaseOf(job, next)
    PROVE  transfer' = transfer \/ OneTransferMoves
<1>1. CASE Post(job, next, content) /\ ~KeyInUse(job.on)
  <2>1. /\ job.on \in Transfer
        /\ transfer' = [transfer EXCEPT ![job.on] = "uploading"]
        /\ Opens(job.on, "uploading")
    BY <1>1, OnTransfer DEF Post, Opens, KeyInUse
  <2> QED BY <2>1 DEF OneTransferMoves, Moves, TransferState
<1>2. CASE Put(job, next)
  <2>1. /\ job.on \in Transfer
        /\ transfer' = [transfer EXCEPT ![job.on] = "writing"]
        /\ Works(job.on, "writing")
    BY <1>2, OnTransfer DEF Put, Works
  <2> QED BY <2>1 DEF OneTransferMoves, Moves, TransferState
<1>3. CASE Ack(job, next)
  <2>1. /\ job.on \in Transfer
        /\ transfer' = [transfer EXCEPT ![job.on] = "delivered"]
        /\ Delivers(job.on, "delivered")
    BY <1>3, OnTransfer DEF Ack, Delivers
  <2> QED BY <2>1 DEF OneTransferMoves, Moves, TransferState
<1>4. CASE \/ Post(job, next, content) /\ KeyInUse(job.on)
           \/ Uploaded(job, next, state) \/ Read(job, next) \/ ReleaseOf(job, next)
  BY <1>4 DEF Post, Uploaded, Read, ReleaseOf, relayVars
<1> QED BY <1>1, <1>2, <1>3, <1>4

\* So does every step.
LEMMA TransfersMove ==
    ASSUME ChainedInv, [Next]_vars
    PROVE  transfer' = transfer \/ OneTransferMoves
<1>1. CASE RelayStep
  <2>1. PICK t \in Transfer : RelayStores(t) \/ RelayDrops(t) \/ RelayExpires(t)
                              \/ RelayForgets(t) \/ LeaseLapses(t)
    BY <1>1 DEF RelayStep
  <2>2. \/ transfer' = transfer
        \/ \E s \in {"ready", "uploading", "expired", "gone"} :
              transfer' = [transfer EXCEPT ![t] = s] /\ Moves(t, s)
    BY <2>1 DEF RelayStores, RelayDrops, RelayExpires, RelayForgets, LeaseLapses,
                Moves, Fills, Works, Expires, Forgets
  <2> QED BY <2>2 DEF OneTransferMoves, TransferState
<1>2. CASE PhoneExchange \/ PhoneRelease
  BY <1>2, ExchangeMoves, PhoneJobType DEF PhoneExchange, PhoneRelease, ChainedInv
<1>3. CASE BridgeExchange \/ BridgeRelease
  BY <1>3, ExchangeMoves, PhoneJobType DEF BridgeExchange, BridgeRelease, ChainedInv
<1>4. CASE PhoneRequestStep
  BY <1>4 DEF PhoneRequestStep, PhoneEnqueue, PhoneDayPasses, PhoneSend, relayVars
<1>5. CASE PhoneJobStep /\ ~PhoneExchange /\ ~PhoneRelease
  BY <1>5 DEF PhoneJobStep, PhoneConclude, PhonePersist, PhoneInterrupted, PhoneClaim, ClaimOf, relayVars
<1>6. CASE BridgeStep
  BY <1>6 DEF BridgeStep, BridgeSave, BridgeRecordAnswer, BridgeRecordPush, BridgeInterrupted,
              BridgeProcess, BridgePoll, BridgePush, relayVars
<1>7. CASE BridgeRelayStep /\ ~BridgeExchange /\ ~BridgeRelease
  BY <1>7 DEF BridgeRelayStep, BridgeClaim, ClaimOf
<1>8. CASE Import \/ ImportRefused
  BY <1>8 DEF Import, ImportRefused, relayVars
<1>9. CASE UNCHANGED vars
  BY <1>9 DEF vars
<1> QED BY <1>1, <1>2, <1>3, <1>4, <1>5, <1>6, <1>7, <1>8, <1>9, StepOf

\* The refinement mapping, transfer by transfer.
Awaited(t) == IF transfer[t] \in {"none", "delivered", "gone"} THEN {} ELSE {Receiver(t)}

\* A sweep that finds nothing changes nothing.
LEMMA SweptByNone ==
    Assumed!Swept({}, {}) = [t \in Transfer |-> RelayStatus(t)] /\
    Assumed!SweptAwaiting({}) = [t \in Transfer |-> Awaited(t)]
BY DEF Assumed!Swept, Assumed!SweptAwaiting, Awaited

\* Every such move is one that TransferPromise allows.
LEMMA MoveIsPromised ==
    ASSUME transfer \in [Transfer -> TransferState], NEW t \in Transfer, NEW s \in TransferState,
           transfer' = [transfer EXCEPT ![t] = s], Moves(t, s)
    PROVE  [Assumed!Next]_(Assumed!vars)
<1>1. /\ transfer'[t] = s
      /\ \A x \in Transfer : x # t => transfer'[x] = transfer[x]
  OBVIOUS
<1>2. \A x \in Transfer : x # t => RelayStatus(x)' = RelayStatus(x) /\ Awaited(x)' = Awaited(x)
  BY <1>1 DEF RelayStatus, Awaited, Receiver, IsRequest
<1>3. Receiver(t) \in {"computer", "phone"}
  BY DEF Receiver
<1>4. CASE Opens(t, s)
  <2>1. RelayStatus(t) = "free" /\ RelayStatus(t)' = "open" /\ Awaited(t)' = {Receiver(t)}
    BY <1>1, <1>4 DEF Opens, RelayStatus, Awaited, Receiver, IsRequest
  <2>2. [x \in Transfer |-> RelayStatus(x)]' = [Assumed!Swept({}, {}) EXCEPT ![t] = "open"]
    BY <1>2, <2>1, SweptByNone
  <2>3. [x \in Transfer |-> Awaited(x)]' = [Assumed!SweptAwaiting({}) EXCEPT ![t] = {Receiver(t)}]
    BY <1>2, <2>1, SweptByNone
  <2>4. Assumed!Open(t, {Receiver(t)})
    BY <2>1, <2>2, <2>3 DEF Assumed!Open, Awaited
  <2>5. {Receiver(t)} \in SUBSET {"computer", "phone"}
    BY <1>3
  <2> QED BY <2>4, <2>5 DEF Assumed!Next
<1>5. CASE Fills(t, s)
  <2>1. RelayStatus(t) = "open" /\ RelayStatus(t)' = "ready" /\ Awaited(t)' = Awaited(t)
    BY <1>1, <1>5 DEF Fills, RelayStatus, Awaited, Receiver, IsRequest
  <2>2. Assumed!Publish(t)
    BY <1>2, <2>1 DEF Assumed!Publish, Awaited
  <2> QED BY <2>2 DEF Assumed!Next
<1>6. CASE Works(t, s)
  <2>1. RelayStatus(t)' = RelayStatus(t) /\ Awaited(t)' = Awaited(t)
    BY <1>1, <1>6 DEF Works, RelayStatus, Awaited, Receiver, IsRequest
  <2> QED BY <1>2, <2>1 DEF Assumed!vars, Awaited
<1>7. CASE Expires(t, s)
  <2>1. /\ RelayStatus(t) \in {"open", "ready"}
        /\ RelayStatus(t)' = "expired"
        /\ Awaited(t)' = Awaited(t)
    BY <1>1, <1>7 DEF Expires, RelayStatus, Awaited, Receiver, IsRequest
  <2>2. {t} \in SUBSET Assumed!InState(Assumed!Live) /\ {} \in SUBSET ({t} \cup Assumed!InState(Assumed!Finished))
    BY <2>1 DEF Assumed!InState, Assumed!Live
  <2>3. [x \in Transfer |-> RelayStatus(x)]' = Assumed!Swept({t}, {})
    BY <1>2, <2>1 DEF Assumed!Swept
  <2>4. [x \in Transfer |-> Awaited(x)]' = Assumed!SweptAwaiting({})
    BY <1>2, <2>1, SweptByNone
  <2>5. Assumed!Sweep
    BY <2>2, <2>3, <2>4 DEF Assumed!Sweep, Awaited
  <2> QED BY <2>5 DEF Assumed!Next
<1>8. CASE Forgets(t, s)
  <2>1. /\ RelayStatus(t) \in {"expired", "delivered"}
        /\ RelayStatus(t)' = "gone"
        /\ Awaited(t)' = {}
    BY <1>1, <1>8 DEF Forgets, RelayStatus, Awaited
  <2>2. {} \in SUBSET Assumed!InState(Assumed!Live) /\ {t} \in SUBSET ({} \cup Assumed!InState(Assumed!Finished))
    BY <2>1 DEF Assumed!InState, Assumed!Finished
  <2>3. [x \in Transfer |-> RelayStatus(x)]' = Assumed!Swept({}, {t})
    BY <1>2, <2>1 DEF Assumed!Swept
  <2>4. [x \in Transfer |-> Awaited(x)]' = Assumed!SweptAwaiting({t})
    BY <1>2, <2>1 DEF Assumed!SweptAwaiting, Awaited
  <2>5. Assumed!Sweep
    BY <2>2, <2>3, <2>4 DEF Assumed!Sweep, Awaited
  <2> QED BY <2>5 DEF Assumed!Next
<1>9. CASE Delivers(t, s)
  <2>1. /\ RelayStatus(t) = "ready"
        /\ RelayStatus(t)' = "delivered"
        /\ Awaited(t) = {Receiver(t)}
        /\ Awaited(t)' = {}
    BY <1>1, <1>9 DEF Delivers, RelayStatus, Awaited
  <2>2. Assumed!Take(t, Receiver(t))
    BY <1>2, <2>1 DEF Assumed!Take, Awaited
  <2> QED BY <1>3, <2>2 DEF Assumed!Next
<1> QED BY <1>4, <1>5, <1>6, <1>7, <1>8, <1>9 DEF Moves

\* The relay assumed here takes no step that TransferPromise forbids.  It says nothing
\* of relay/server.py, which may do what this relay does not.
THEOREM AssumedRelayKeepsPromise == Spec => AssumedRelayIsLawful
<1>1. Init => Assumed!Init
  BY DEF Init, Assumed!Init, RelayStatus
<1>2. ChainedInv /\ [Next]_vars => [Assumed!Next]_(Assumed!vars)
  <2> SUFFICES ASSUME ChainedInv, [Next]_vars PROVE [Assumed!Next]_(Assumed!vars)
    OBVIOUS
  <2>1. CASE transfer' = transfer
    BY <2>1 DEF Assumed!vars, RelayStatus, Receiver, IsRequest
  <2>2. CASE OneTransferMoves
    BY <2>2, MoveIsPromised DEF OneTransferMoves, ChainedInv, TypeOK
  <2> QED BY <2>1, <2>2, TransfersMove
<1> QED BY <1>1, <1>2, ChainHolds, PTL DEF Spec, AssumedRelayIsLawful, Assumed!Spec
=============================================================================
