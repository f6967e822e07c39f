----------------------------- MODULE RelayStore -----------------------------
(***************************************************************************)
(* The temporary transfer store of relay/server.py: one process, a SQLite  *)
(* table of transfers with one delivery per target device, and a directory *)
(* of files (blobs/<id> for finished content, blobs/<id>.part for content  *)
(* being received).                                                        *)
(*                                                                         *)
(* Database transactions run under BEGIN IMMEDIATE, so each is one step.   *)
(* Whatever a handler does outside its transaction (receiving a body,      *)
(* streaming a download, unlinking a file after the commit) is a step of   *)
(* its own, and a crash can tear a handler between the file system and the *)
(* database.  Sizes are one unit, so the byte quota is a count of          *)
(* transfers; names, checksums and metadata are abstracted to whether the  *)
(* bytes are the declared ones ("good") or not ("bad").                    *)
(*                                                                         *)
(* A definition named Op_Variant is Op as a plausible slip would have      *)
(* written it; no specification uses it.  Putting it in Op's place shows   *)
(* which property notices.                                                 *)
(***************************************************************************)
EXTENDS Integers, FiniteSets

CONSTANTS
    Id,           \* transfer identifiers; uuid4, so one is never used twice
    Device,       \* authenticated devices, senders and receivers alike
    Key,          \* idempotency keys a sender may choose
    NoOne,        \* the source and key of an identifier without a record
    Ttl,          \* lifetimes a sender may ask for (1 to 72 hours)
    UploadWindow, \* seconds a reservation waits for its content (900)
    LeaseSeconds, \* length of a receive lease (900)
    RecordAge,    \* how long a finished record is kept (RECORD_DAYS)
    RecordLimit,  \* how many finished records are kept (RECORD_LIMIT)
    Quota,        \* transfers that may be live at once (QUOTA / size)
    MaxTime,      \* bound: the clock stops here
    MaxClaims     \* bound: leases granted per delivery

ASSUME DomainAssumption ==
    /\ NoOne \notin Device
    /\ NoOne \notin Key
    /\ Ttl \subseteq Nat \ {0}

ASSUME BoundAssumption ==
    /\ UploadWindow \in Nat \ {0}
    /\ LeaseSeconds \in Nat \ {0}
    /\ RecordAge \in Nat
    /\ RecordLimit \in Nat
    /\ Quota \in Nat
    /\ MaxTime \in Nat
    /\ MaxClaims \in Nat

VARIABLES
    now,       \* time.time()
    up,        \* whether the service process runs
    row,       \* table transfers
    delivery,  \* table deliveries
    issued,    \* lease tokens granted so far to each delivery
    blob,      \* blobs/<id>
    part,      \* blobs/<id>.part
    handler,   \* running PUT .../content request of a transfer
    streams,   \* running GET .../content responses <<id, device, token>>
    unlinking, \* acknowledged transfers whose file is still to be unlinked
    received   \* history: <<id, device, token>> whose body was read to its end

diskVars == <<row, delivery, issued, blob, part>>
volatileVars == <<handler, streams, unlinking>>
vars == <<now, up, row, delivery, issued, blob, part, handler, streams,
          unlinking, received>>

-----------------------------------------------------------------------------
(* Types.  State "none" is an identifier not generated yet, "gone" one     *)
(* whose record the cleanup deleted.  The code never assigns 'cancelled'.  *)

Live == {"uploading", "writing", "ready"}
Terminal == {"expired", "delivered"}
RowState == Live \cup Terminal \cup {"none", "gone"}

Row == [state: RowState,
        source: Device \cup {NoOne},
        key: Key \cup {NoOne},
        expires: Nat,
        deadline: Nat,
        completed: Nat]

\* Token 0 is NULL; token k is the k-th secrets.token_urlsafe of the delivery.
Delivery == [state: {"none", "pending", "leased", "acked"},
             token: Nat,
             until: Nat,
             downloaded: BOOLEAN]

FileState == {"none", "good", "bad"}
HandlerState == {"idle", "begun", "good", "bad"}
Stream == Id \X Device \X Nat

EmptyRow(s) == [state |-> s, source |-> NoOne, key |-> NoOne,
                expires |-> 0, deadline |-> 0, completed |-> 0]

NewDelivery(s) == [state |-> s, token |-> 0, until |-> 0, downloaded |-> FALSE]

TypeOK ==
    /\ now \in Nat
    /\ up \in BOOLEAN
    /\ row \in [Id -> Row]
    /\ delivery \in [Id -> [Device -> Delivery]]
    /\ issued \in [Id -> [Device -> Nat]]
    /\ blob \in [Id -> FileState]
    /\ part \in [Id -> FileState]
    /\ handler \in [Id -> HandlerState]
    /\ streams \subseteq Stream
    /\ unlinking \subseteq Id
    /\ received \subseteq Stream

Init ==
    /\ now = 0
    /\ up = TRUE
    /\ row = [t \in Id |-> EmptyRow("none")]
    /\ delivery = [t \in Id |-> [d \in Device |-> NewDelivery("none")]]
    /\ issued = [t \in Id |-> [d \in Device |-> 0]]
    /\ blob = [t \in Id |-> "none"]
    /\ part = [t \in Id |-> "none"]
    /\ handler = [t \in Id |-> "idle"]
    /\ streams = {}
    /\ unlinking = {}
    /\ received = {}

-----------------------------------------------------------------------------
(* cleanup(): expire what is overdue, unlink the files of every terminal   *)
(* record, then forget records that are too old or beyond the newest       *)
(* RecordLimit.  r is the transfers table the cleanup starts from.         *)

LiveRows(r) == {t \in Id : r[t].state \in Live}

Overdue_UploadsOnly(r) ==
    {t \in LiveRows(r) :
        r[t].state \in {"uploading", "writing"} /\ r[t].deadline <= now}

Overdue(r) ==
    {t \in LiveRows(r) :
        \/ r[t].expires <= now
        \/ r[t].state \in {"uploading", "writing"} /\ r[t].deadline <= now}

Finished(r) == Overdue(r) \cup {t \in Id : r[t].state \in Terminal}

CompletedAt(r, t) == IF t \in Overdue(r) THEN now ELSE r[t].completed

Aged(r) == {t \in Finished(r) : CompletedAt(r, t) + RecordAge < now}

\* The records beyond the newest RecordLimit; equal times come in any order.
Surplus(r, drop) ==
    LET candidates == Finished(r) \ Aged(r)
        kept       == candidates \ drop
    IN  /\ drop \subseteq candidates
        /\ Cardinality(candidates) <= RecordLimit => drop = {}
        /\ Cardinality(candidates) > RecordLimit =>
               /\ Cardinality(kept) = RecordLimit
               /\ \A old \in drop, new \in kept :
                      CompletedAt(r, old) <= CompletedAt(r, new)

SweptRow(r, drop) ==
    [t \in Id |->
        IF t \in Aged(r) \cup drop THEN EmptyRow("gone")
        ELSE IF t \in Overdue(r)
             THEN [r[t] EXCEPT !.state = "expired", !.completed = now]
             ELSE r[t]]

\* Deliveries go with their transfer (ON DELETE CASCADE).
SweptDelivery(r, drop) ==
    [t \in Id |->
        IF t \in Aged(r) \cup drop
        THEN [d \in Device |-> NewDelivery("none")]
        ELSE delivery[t]]

\* Also swept: files whose record is gone and that are too old (20 minutes) to
\* belong to a running upload (10 minutes at most).
SweptFiles(r, files) ==
    [t \in Id |->
        IF t \in Finished(r) \/ (r[t].state = "gone" /\ handler[t] = "idle")
        THEN "none" ELSE files[t]]

\* The janitor's pass, once a minute while the service runs.
Cleanup ==
    /\ up
    /\ \E drop \in SUBSET Finished(row) :
          /\ Surplus(row, drop)
          /\ row' = SweptRow(row, drop)
          /\ delivery' = SweptDelivery(row, drop)
    /\ blob' = SweptFiles(row, blob)
    /\ part' = SweptFiles(row, part)
    /\ UNCHANGED <<now, up, issued, handler, streams, unlinking, received>>

-----------------------------------------------------------------------------
(* POST /v1/transfers: a cleanup, then the reservation.  A key this source *)
(* already used only returns the old record, and a full store refuses;     *)
(* both leave the store as the cleanup did.                                *)

KeyInUse(r, d, k) ==
    \E t \in Id : /\ r[t].state \in Live \cup Terminal
                  /\ r[t].source = d
                  /\ r[t].key = k

Reserve(t, d, k, targets, ttl) ==
    /\ up
    /\ row[t].state = "none"
    /\ now + ttl <= MaxTime
    /\ \E drop \in SUBSET Finished(row) :
          LET swept == SweptRow(row, drop) IN
          /\ Surplus(row, drop)
          /\ ~KeyInUse(swept, d, k)
          /\ Cardinality(LiveRows(swept)) + 1 <= Quota
          /\ row' = [swept EXCEPT ![t] =
                        [state |-> "uploading", source |-> d, key |-> k,
                         expires |-> now + ttl, deadline |-> now + UploadWindow,
                         completed |-> 0]]
          /\ delivery' = [SweptDelivery(row, drop) EXCEPT ![t] =
                [e \in Device |->
                    NewDelivery(IF e \in targets THEN "pending" ELSE "none")]]
    /\ blob' = SweptFiles(row, blob)
    /\ part' = SweptFiles(row, part)
    /\ UNCHANGED <<now, up, issued, handler, streams, unlinking, received>>

-----------------------------------------------------------------------------
(* PUT /v1/transfers/{id}/content by the source.                           *)

\* First transaction: take the reservation.
UploadBegin(t) ==
    /\ up
    /\ row[t].state = "uploading"
    /\ row[t].expires > now
    /\ row[t].deadline > now
    /\ row' = [row EXCEPT ![t].state = "writing"]
    /\ handler' = [handler EXCEPT ![t] = "begun"]
    /\ UNCHANGED <<now, up, delivery, issued, blob, part, streams, unlinking,
                   received>>

\* The body arrives in the .part file: the declared bytes, or others.
UploadReceive(t, content) ==
    /\ up
    /\ handler[t] = "begun"
    /\ handler' = [handler EXCEPT ![t] = content]
    /\ part' = [part EXCEPT ![t] = content]
    /\ UNCHANGED <<now, up, row, delivery, issued, blob, streams, unlinking,
                   received>>

CanPublish_Unverified(t) ==
    /\ handler[t] \in {"good", "bad"}
    /\ row[t].state = "writing"
    /\ row[t].expires > now
    /\ part[t] # "none"

CanPublish(t) ==
    /\ handler[t] = "good"
    /\ row[t].state = "writing"
    /\ row[t].expires > now
    /\ part[t] # "none"

\* part.replace(destination)
Renamed(t) ==
    /\ blob' = [blob EXCEPT ![t] = part[t]]
    /\ part' = [part EXCEPT ![t] = "none"]

\* Second transaction: the verified file takes its final name, then 'ready'.
UploadCommit(t) ==
    /\ up
    /\ CanPublish(t)
    /\ Renamed(t)
    /\ row' = [row EXCEPT ![t].state = "ready"]
    /\ handler' = [handler EXCEPT ![t] = "idle"]
    /\ UNCHANGED <<now, up, delivery, issued, streams, unlinking, received>>

\* except BaseException: drop the .part file and reopen the reservation, if
\* the transfer is still this upload's.
Reopened_Unconditionally(t) == row' = [row EXCEPT ![t].state = "uploading"]

Reopened(t) ==
    row' = [row EXCEPT ![t].state = IF @ = "writing" THEN "uploading" ELSE @]

\* Disconnect, timeout, wrong size or checksum, or a refused publication.
UploadFail(t) ==
    /\ up
    /\ handler[t] # "idle"
    /\ part' = [part EXCEPT ![t] = "none"]
    /\ Reopened(t)
    /\ handler' = [handler EXCEPT ![t] = "idle"]
    /\ UNCHANGED <<now, up, delivery, issued, blob, streams, unlinking, received>>

\* The file was renamed, then fsync or the commit failed and rolled back.
UploadCommitFails(t) ==
    /\ up
    /\ CanPublish(t)
    /\ Renamed(t)
    /\ Reopened(t)
    /\ handler' = [handler EXCEPT ![t] = "idle"]
    /\ UNCHANGED <<now, up, delivery, issued, streams, unlinking, received>>

-----------------------------------------------------------------------------
(* The receiving side.                                                     *)

Earlier(a, b) == IF a <= b THEN a ELSE b

Unexpired(t) == row[t].state \in Live \cup {"delivered"} /\ row[t].expires > now

LeaseCurrent_UntilDownloaded(t, d) ==
    /\ delivery[t][d].state = "leased"
    /\ delivery[t][d].until > now
    /\ ~delivery[t][d].downloaded

LeaseCurrent(t, d) ==
    delivery[t][d].state = "leased" /\ delivery[t][d].until > now

\* verify_lease: the request carries the token the delivery holds now.
HoldsToken(t, d, k) == k # 0 /\ delivery[t][d].token = k

\* GET /v1/inbox
Inbox(d) ==
    {t \in Id : /\ row[t].state = "ready"
                /\ row[t].expires > now
                /\ \/ delivery[t][d].state = "pending"
                   \/ delivery[t][d].state = "leased" /\ ~LeaseCurrent(t, d)}

\* POST .../claim
Claim(t, d) ==
    /\ up
    /\ issued[t][d] < MaxClaims
    /\ delivery[t][d].state \in {"pending", "leased"}
    /\ Unexpired(t)
    /\ row[t].state = "ready"
    /\ ~LeaseCurrent(t, d)
    /\ issued' = [issued EXCEPT ![t][d] = @ + 1]
    /\ delivery' = [delivery EXCEPT ![t][d] =
          [state |-> "leased", token |-> issued[t][d] + 1,
           until |-> Earlier(now + LeaseSeconds, row[t].expires),
           downloaded |-> FALSE]]
    /\ UNCHANGED <<now, up, row, blob, part, handler, streams, unlinking,
                   received>>

\* GET .../content: checked and opened under a current lease...
DownloadBegin(t, d, k) ==
    /\ up
    /\ HoldsToken(t, d, k)
    /\ Unexpired(t)
    /\ row[t].state = "ready"
    /\ LeaseCurrent(t, d)
    /\ blob[t] # "none"
    /\ streams' = streams \cup {<<t, d, k>>}
    /\ UNCHANGED <<now, up, row, delivery, issued, blob, part, handler,
                   unlinking, received>>

\* ... streamed to its end, whatever happened to the lease meanwhile; only the
\* lease that opened it is marked downloaded ...
DownloadEnd(t, d, k) ==
    /\ up
    /\ <<t, d, k>> \in streams
    /\ streams' = streams \ {<<t, d, k>>}
    /\ received' = received \cup {<<t, d, k>>}
    /\ delivery' = IF delivery[t][d].token = k /\ delivery[t][d].state = "leased"
                   THEN [delivery EXCEPT ![t][d].downloaded = TRUE]
                   ELSE delivery
    /\ UNCHANGED <<now, up, row, issued, blob, part, handler, unlinking>>

\* ... or broken off by the client.
DownloadAbort(t, d, k) ==
    /\ up
    /\ <<t, d, k>> \in streams
    /\ streams' = streams \ {<<t, d, k>>}
    /\ UNCHANGED <<now, up, row, delivery, issued, blob, part, handler,
                   unlinking, received>>

AllOthersAcked_OrLeased(t, d) ==
    \A e \in Device \ {d} : delivery[t][e].state # "pending"

AllOthersAcked(t, d) ==
    \A e \in Device \ {d} : delivery[t][e].state \in {"none", "acked"}

\* POST .../ack: the transaction.
Acknowledge(t, d, k) ==
    /\ up
    /\ HoldsToken(t, d, k)
    /\ delivery[t][d].state # "acked"
    /\ Unexpired(t)
    /\ row[t].state = "ready"
    /\ delivery[t][d].until > now
    /\ delivery[t][d].downloaded
    /\ delivery' = [delivery EXCEPT ![t][d].state = "acked"]
    /\ IF AllOthersAcked(t, d)
       THEN /\ row' = [row EXCEPT ![t].state = "delivered", ![t].completed = now]
            /\ unlinking' = unlinking \cup {t}
       ELSE UNCHANGED <<row, unlinking>>
    /\ UNCHANGED <<now, up, issued, blob, part, handler, streams, received>>

\* A repeated ack of an acknowledged delivery changes no row, but unlinks again.
AcknowledgeAgain(t, d, k) ==
    /\ up
    /\ HoldsToken(t, d, k)
    /\ delivery[t][d].state = "acked"
    /\ row[t].state = "delivered"
    /\ unlinking' = unlinking \cup {t}
    /\ UNCHANGED <<now, up, row, delivery, issued, blob, part, handler, streams,
                   received>>

\* POST .../ack: after the commit the file of a delivered transfer is unlinked.
Unlink(t) ==
    /\ up
    /\ t \in unlinking
    /\ blob' = [blob EXCEPT ![t] = "none"]
    /\ unlinking' = unlinking \ {t}
    /\ UNCHANGED <<now, up, row, delivery, issued, part, handler, streams, received>>

\* POST .../release
Release(t, d, k) ==
    /\ up
    /\ HoldsToken(t, d, k)
    /\ delivery[t][d].state = "leased"
    /\ delivery' = [delivery EXCEPT ![t][d] = NewDelivery("pending")]
    /\ UNCHANGED <<now, up, row, issued, blob, part, handler, streams, unlinking,
                   received>>

-----------------------------------------------------------------------------
(* Crash, restart and time.                                                *)

Halt ==
    /\ up
    /\ up' = FALSE
    /\ handler' = [t \in Id |-> "idle"]
    /\ streams' = {}
    /\ unlinking' = {}
    /\ UNCHANGED <<now, delivery, row, issued, received>>

Crash == Halt /\ UNCHANGED <<blob, part>>

\* Between part.replace and the commit that says 'ready'.
CrashInUpload(t) == Halt /\ CanPublish(t) /\ Renamed(t)

\* Between the unlinks of a cleanup and its commit.
CrashInCleanup ==
    /\ Halt
    /\ blob' = SweptFiles(row, blob)
    /\ part' = SweptFiles(row, part)

\* initialize(): interrupted uploads start over, then a cleanup.
Recovered_Everything ==
    [t \in Id |-> IF row[t].state \in {"writing", "ready"}
                  THEN [row[t] EXCEPT !.state = "uploading"] ELSE row[t]]

Recovered ==
    [t \in Id |-> IF row[t].state = "writing"
                  THEN [row[t] EXCEPT !.state = "uploading"] ELSE row[t]]

\* The files a restart leaves: none of an unfinished upload, none it sweeps.
RecoveredFiles ==
    /\ blob' = [t \in Id |-> IF Recovered[t].state = "uploading"
                             THEN "none" ELSE SweptFiles(Recovered, blob)[t]]
    /\ part' = [t \in Id |-> "none"]

Restart ==
    /\ ~up
    /\ up' = TRUE
    /\ \E drop \in SUBSET Finished(Recovered) :
          /\ Surplus(Recovered, drop)
          /\ row' = SweptRow(Recovered, drop)
          /\ delivery' = SweptDelivery(Recovered, drop)
    /\ RecoveredFiles
    /\ UNCHANGED <<now, issued, handler, streams, unlinking, received>>

\* The restart itself dies after its unlinks and before its commits.
CrashInRestart ==
    /\ ~up
    /\ RecoveredFiles
    /\ UNCHANGED <<now, up, row, delivery, issued, handler, streams, unlinking,
                   received>>

Tick ==
    /\ now < MaxTime
    /\ now' = now + 1
    /\ UNCHANGED <<up, row, delivery, issued, blob, part, handler, streams,
                   unlinking, received>>

-----------------------------------------------------------------------------
Next ==
    \/ \E t \in Id :
          \/ \E d \in Device, k \in Key, targets \in (SUBSET Device) \ {{}}, ttl \in Ttl :
                Reserve(t, d, k, targets, ttl)
          \/ UploadBegin(t)
          \/ \E content \in {"good", "bad"} : UploadReceive(t, content)
          \/ UploadCommit(t)
          \/ UploadFail(t)
          \/ UploadCommitFails(t)
          \/ Unlink(t)
          \/ CrashInUpload(t)
          \/ \E d \in Device :
                \/ Claim(t, d)
                \/ \E k \in 1..issued[t][d] :
                      \/ DownloadBegin(t, d, k)
                      \/ DownloadEnd(t, d, k)
                      \/ DownloadAbort(t, d, k)
                      \/ Acknowledge(t, d, k)
                      \/ AcknowledgeAgain(t, d, k)
                      \/ Release(t, d, k)
    \/ Cleanup
    \/ Crash
    \/ CrashInCleanup
    \/ Restart
    \/ CrashInRestart
    \/ Tick

Spec == Init /\ [][Next]_vars

(* The process supervisor restarts the service, the janitor runs while it  *)
(* is up, asyncio.timeout(600) ends every upload, a started response ends  *)
(* and the line after an ack's commit runs; devices promise nothing.       *)
Fairness ==
    /\ WF_vars(Tick)
    /\ WF_vars(Cleanup)
    /\ WF_vars(Restart)
    /\ \A t \in Id : WF_vars(UploadFail(t)) /\ WF_vars(Unlink(t))

FairSpec == Spec /\ Fairness

-----------------------------------------------------------------------------
(* Safety.                                                                 *)

\* A transfer announced as ready keeps its verified content until it expires
\* or every target has it: no failed upload, crash, restart, cleanup or
\* acknowledgement by one of several targets takes the file away
\* (relay/server.py initialize, cleanup, upload, acknowledge).
NoLossBeforeDelivery ==
    \A t \in Id :
        row[t].state = "ready" /\ row[t].expires > now => blob[t] = "good"

\* A device counts as served only if it read the whole body under the very
\* lease it acknowledges with, and a transfer counts as delivered only if
\* every target does (relay/server.py download, acknowledge).
DeliveredMeansEveryTargetRead ==
    \A t \in Id, d \in Device :
        /\ delivery[t][d].state = "acked" => <<t, d, delivery[t][d].token>> \in received
        /\ row[t].state = "delivered" => delivery[t][d].state \in {"none", "acked"}

\* The live transfers never outnumber the quota, although expired uploads are
\* still being received when their place is given away (relay/server.py
\* reserve, upload's except branch).
QuotaRespected == Cardinality(LiveRows(row)) <= Quota

\* While a lease is current nobody else receives the delivery: its token stays
\* until the holder acknowledges or releases it (relay/server.py claim).
LeaseIsExclusive ==
    [][\A t \in Id, d \in Device :
          /\ delivery[t][d].state = "leased"
          /\ delivery[t][d].until > now
          /\ delivery'[t][d].state = "leased"
          => delivery'[t][d].token = delivery[t][d].token]_vars

\* Expired and delivered transfers never come back, a ready one is never
\* uploaded again, and an acknowledged delivery stays so; a record only goes
\* when the cleanup deletes it, once finished.
NoRevival ==
    [][\A t \in Id :
          /\ row[t].state \in Terminal => row'[t].state \in {row[t].state, "gone"}
          /\ row[t].state = "ready" => row'[t].state \notin {"uploading", "writing"}
          /\ \A d \in Device :
                delivery[t][d].state = "acked" /\ row'[t].state # "gone"
                    => delivery'[t][d].state = "acked"]_vars

(* Liveness.                                                               *)

\* Whatever clients and crashes do, a transfer is eventually finished and from
\* then on occupies no disk space (relay/server.py cleanup, janitor).
EverythingIsReclaimed ==
    \A t \in Id :
        row[t].state \in Live ~>
            [](row[t].state \notin Live /\ blob[t] = "none" /\ part[t] = "none")
-----------------------------------------------------------------------------
(* The promise.  What clients observe of a transfer, without the clock, the *)
(* leases, the files and the crashes.                                      *)

Status(t) == CASE row[t].state = "none" -> "free"
               [] row[t].state \in {"uploading", "writing"} -> "open"
               [] OTHER -> row[t].state

Awaiting(t) == {d \in Device : delivery[t][d].state \in {"pending", "leased"}}

Promise == INSTANCE TransferPromise
           WITH status <- [t \in Id |-> Status(t)],
                awaiting <- [t \in Id |-> Awaiting(t)]

\* Leases, retries, cleanups, crashes and restarts are all either invisible to
\* the devices or one step of TransferPromise (relay/server.py).
KeepsPromise == Promise!Spec
=============================================================================
