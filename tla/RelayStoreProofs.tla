-------------------------- MODULE RelayStoreProofs --------------------------
(***************************************************************************)
(* Theorems about RelayStore for every set of devices and keys, every      *)
(* lifetime, window, lease and quota.                                      *)
(***************************************************************************)
EXTENDS RelayStore, FiniteSetTheorems, TLAPS

-----------------------------------------------------------------------------
(* What a cleanup yields, and that the helpers return values of their type. *)

\* A cleanup of a well-typed table leaves well-typed tables and files.
LEMMA SweepTypes ==
    ASSUME TypeOK, NEW r \in [Id -> Row], NEW drop \in SUBSET Finished(r)
    PROVE  /\ SweptRow(r, drop) \in [Id -> Row]
           /\ SweptDelivery(r, drop) \in [Id -> [Device -> Delivery]]
           /\ \A files \in [Id -> FileState] :
                 SweptFiles(r, files) \in [Id -> FileState]
<1>1. EmptyRow("gone") \in Row
  BY DEF EmptyRow, Row, RowState
<1>2. ASSUME NEW t \in Id
      PROVE  [r[t] EXCEPT !.state = "expired", !.completed = now] \in Row
  BY DEF Row, RowState, Live, Terminal, TypeOK
<1>3. SweptRow(r, drop) \in [Id -> Row]
  BY <1>1, <1>2 DEF SweptRow
<1>4. NewDelivery("none") \in Delivery
  BY DEF NewDelivery, Delivery
<1>5. SweptDelivery(r, drop) \in [Id -> [Device -> Delivery]]
  BY <1>4 DEF SweptDelivery, TypeOK
<1>6. \A files \in [Id -> FileState] : SweptFiles(r, files) \in [Id -> FileState]
  BY DEF SweptFiles, FileState
<1>. QED  BY <1>3, <1>5, <1>6

\* The table a restart begins its cleanup with is well-typed.
LEMMA RecoveredType == TypeOK => Recovered \in [Id -> Row]
<1>. SUFFICES ASSUME TypeOK, NEW t \in Id
              PROVE  [row[t] EXCEPT !.state = "uploading"] \in Row
  BY DEF Recovered, TypeOK
<1>. QED  BY DEF TypeOK, Row, RowState, Live

-----------------------------------------------------------------------------
(* Type correctness.                                                       *)

LEMMA InitType == Init => TypeOK
<1>. SUFFICES ASSUME Init PROVE TypeOK
  OBVIOUS
<1>1. row \in [Id -> Row]
  BY DEF Init, EmptyRow, Row, RowState
<1>2. delivery \in [Id -> [Device -> Delivery]]
  BY DEF Init, NewDelivery, Delivery
<1>. QED
  BY <1>1, <1>2 DEF Init, TypeOK, FileState, HandlerState, Stream

\* Every step keeps every variable in its type.
LEMMA StepType == TypeOK /\ [Next]_vars => TypeOK'
<1>. SUFFICES ASSUME TypeOK, [Next]_vars PROVE TypeOK'
  OBVIOUS
<1>a. /\ now \in Nat  /\ up \in BOOLEAN
      /\ row \in [Id -> Row]
      /\ delivery \in [Id -> [Device -> Delivery]]
      /\ issued \in [Id -> [Device -> Nat]]
      /\ blob \in [Id -> FileState]  /\ part \in [Id -> FileState]
      /\ handler \in [Id -> HandlerState]
      /\ streams \subseteq Stream  /\ unlinking \subseteq Id
      /\ received \subseteq Stream
  BY DEF TypeOK
<1>b. \A s \in RowState, t \in Id : [row[t] EXCEPT !.state = s] \in Row
  BY <1>a DEF Row
<1>c. \A s \in {"none", "pending"} : NewDelivery(s) \in Delivery
  BY DEF NewDelivery, Delivery
<1>d. ASSUME NEW t \in Id, NEW d \in Device
      PROVE  /\ [delivery[t][d] EXCEPT !.downloaded = TRUE] \in Delivery
             /\ [delivery[t][d] EXCEPT !.state = "acked"] \in Delivery
  <2>1. delivery[t][d] \in Delivery
    BY <1>a
  <2>. QED  BY <2>1 DEF Delivery
<1>e. \A t \in Id : [row[t] EXCEPT !.state = "delivered", !.completed = now] \in Row
  BY <1>a DEF Row, RowState, Terminal
<1>1. ASSUME NEW t \in Id, NEW d \in Device, NEW k \in Key,
             NEW targets \in (SUBSET Device) \ {{}}, NEW ttl \in Ttl,
             Reserve(t, d, k, targets, ttl)
      PROVE  TypeOK'
  <2>1. PICK drop \in SUBSET Finished(row) :
           /\ row' = [SweptRow(row, drop) EXCEPT ![t] =
                        [state |-> "uploading", source |-> d, key |-> k,
                         expires |-> now + ttl, deadline |-> now + UploadWindow,
                         completed |-> 0]]
           /\ delivery' = [SweptDelivery(row, drop) EXCEPT ![t] =
                [e \in Device |->
                    NewDelivery(IF e \in targets THEN "pending" ELSE "none")]]
    BY <1>1 DEF Reserve
  <2>2. [state |-> "uploading", source |-> d, key |-> k, expires |-> now + ttl,
         deadline |-> now + UploadWindow, completed |-> 0] \in Row
    BY <1>a, DomainAssumption, BoundAssumption DEF Row, RowState, Live
  <2>3. row' \in [Id -> Row]
    BY <1>a, <2>1, <2>2, SweepTypes
  <2>4. [e \in Device |-> NewDelivery(IF e \in targets THEN "pending" ELSE "none")]
           \in [Device -> Delivery]
    BY <1>c
  <2>5. delivery' \in [Id -> [Device -> Delivery]]
    BY <1>a, <2>1, <2>4, SweepTypes
  <2>6. blob' \in [Id -> FileState] /\ part' \in [Id -> FileState]
    BY <1>1, <1>a, <2>1, SweepTypes DEF Reserve
  <2>. QED  BY <1>1, <1>a, <2>3, <2>5, <2>6 DEF Reserve, TypeOK
<1>2. ASSUME NEW t \in Id, UploadBegin(t)
      PROVE  TypeOK'
  BY <1>2, <1>a, <1>b DEF UploadBegin, TypeOK, RowState, Live, HandlerState
<1>3. ASSUME NEW t \in Id, NEW content \in {"good", "bad"}, UploadReceive(t, content)
      PROVE  TypeOK'
  BY <1>3, <1>a DEF UploadReceive, TypeOK, HandlerState, FileState
<1>4. ASSUME NEW t \in Id, UploadCommit(t)
      PROVE  TypeOK'
  BY <1>4, <1>a, <1>b
     DEF UploadCommit, Renamed, TypeOK, RowState, Live, HandlerState, FileState
<1>5. ASSUME NEW t \in Id, Reopened(t)
      PROVE  row' \in [Id -> Row]
  BY <1>5, <1>a, <1>b DEF Reopened, Row, RowState, Live
<1>6. ASSUME NEW t \in Id, UploadFail(t)
      PROVE  TypeOK'
  BY <1>5, <1>6, <1>a DEF UploadFail, TypeOK, HandlerState, FileState
<1>7. ASSUME NEW t \in Id, UploadCommitFails(t)
      PROVE  TypeOK'
  BY <1>5, <1>7, <1>a DEF UploadCommitFails, Renamed, TypeOK, HandlerState, FileState
<1>8. ASSUME NEW t \in Id, Unlink(t)
      PROVE  TypeOK'
  BY <1>8, <1>a DEF Unlink, TypeOK, FileState
<1>9. ASSUME NEW t \in Id, CrashInUpload(t)
      PROVE  TypeOK'
  BY <1>9, <1>a DEF CrashInUpload, Halt, Renamed, TypeOK, FileState, HandlerState
<1>10. ASSUME NEW t \in Id, NEW d \in Device, Claim(t, d)
       PROVE  TypeOK'
  <2>1. Earlier(now + LeaseSeconds, row[t].expires) \in Nat
    BY <1>a, BoundAssumption DEF Earlier, Row
  <2>2. [state |-> "leased", token |-> issued[t][d] + 1,
         until |-> Earlier(now + LeaseSeconds, row[t].expires),
         downloaded |-> FALSE] \in Delivery
    BY <1>a, <2>1 DEF Delivery
  <2>3. delivery' \in [Id -> [Device -> Delivery]]
    BY <1>10, <1>a, <2>2 DEF Claim
  <2>. QED  BY <1>10, <1>a, <2>3 DEF Claim, TypeOK
<1>11. ASSUME NEW t \in Id, NEW d \in Device, NEW k \in 1..issued[t][d]
       PROVE  /\ DownloadBegin(t, d, k) => TypeOK'
              /\ DownloadEnd(t, d, k) => TypeOK'
              /\ DownloadAbort(t, d, k) => TypeOK'
              /\ Acknowledge(t, d, k) => TypeOK'
              /\ AcknowledgeAgain(t, d, k) => TypeOK'
              /\ Release(t, d, k) => TypeOK'
  <2>1. <<t, d, k>> \in Stream
    BY <1>a DEF Stream
  <2>2. DownloadBegin(t, d, k) => TypeOK'
    BY <1>a, <2>1 DEF DownloadBegin, TypeOK
  <2>3. ASSUME DownloadEnd(t, d, k) PROVE TypeOK'
    <3>1. delivery' \in [Id -> [Device -> Delivery]]
      BY <2>3, <1>a, <1>d DEF DownloadEnd
    <3>. QED  BY <2>3, <1>a, <2>1, <3>1 DEF DownloadEnd, TypeOK
  <2>4. DownloadAbort(t, d, k) => TypeOK'
    BY <1>a DEF DownloadAbort, TypeOK
  <2>5. ASSUME Acknowledge(t, d, k) PROVE TypeOK'
    <3>1. delivery' \in [Id -> [Device -> Delivery]]
      BY <2>5, <1>a, <1>d DEF Acknowledge
    <3>2. row' \in [Id -> Row] /\ unlinking' \subseteq Id
      BY <2>5, <1>a, <1>e DEF Acknowledge
    <3>. QED  BY <2>5, <1>a, <3>1, <3>2 DEF Acknowledge, TypeOK
  <2>6. AcknowledgeAgain(t, d, k) => TypeOK'
    BY <1>a DEF AcknowledgeAgain, TypeOK
  <2>7. Release(t, d, k) => TypeOK'
    BY <1>a, <1>c DEF Release, TypeOK
  <2>. QED  BY <2>2, <2>3, <2>4, <2>5, <2>6, <2>7
<1>12. CASE Cleanup
  <2>1. row' \in [Id -> Row] /\ delivery' \in [Id -> [Device -> Delivery]]
    BY <1>12, <1>a, SweepTypes DEF Cleanup
  <2>2. blob' \in [Id -> FileState] /\ part' \in [Id -> FileState]
    BY <1>12, <1>a, SweepTypes DEF Cleanup
  <2>. QED  BY <1>12, <1>a, <2>1, <2>2 DEF Cleanup, TypeOK
<1>13. CASE Crash
  BY <1>13, <1>a DEF Crash, Halt, TypeOK, HandlerState
<1>14. CASE CrashInCleanup
  <2>1. blob' \in [Id -> FileState] /\ part' \in [Id -> FileState]
    BY <1>14, <1>a, SweepTypes DEF CrashInCleanup
  <2>. QED  BY <1>14, <1>a, <2>1 DEF CrashInCleanup, Halt, TypeOK, HandlerState
<1>15. ASSUME RecoveredFiles
       PROVE  blob' \in [Id -> FileState] /\ part' \in [Id -> FileState]
  BY <1>15, <1>a, RecoveredType, SweepTypes DEF RecoveredFiles, FileState
<1>16. CASE Restart
  <2>1. row' \in [Id -> Row] /\ delivery' \in [Id -> [Device -> Delivery]]
    BY <1>16, RecoveredType, SweepTypes DEF Restart
  <2>2. blob' \in [Id -> FileState] /\ part' \in [Id -> FileState]
    BY <1>15, <1>16 DEF Restart
  <2>. QED  BY <1>16, <1>a, <2>1, <2>2 DEF Restart, TypeOK
<1>17. CASE CrashInRestart
  BY <1>15, <1>17, <1>a DEF CrashInRestart, TypeOK
<1>18. CASE Tick
  BY <1>18, <1>a DEF Tick, TypeOK
<1>19. CASE UNCHANGED vars
  BY <1>19 DEF vars, TypeOK
<1>. QED
  BY <1>1, <1>2, <1>3, <1>4, <1>6, <1>7, <1>8, <1>9, <1>10, <1>11, <1>12,
     <1>13, <1>14, <1>16, <1>17, <1>18, <1>19 DEF Next

\* The store's tables, files and running requests always have their types.
THEOREM TypeCorrect == Spec => []TypeOK
  BY InitType, StepType, PTL DEF Spec

-----------------------------------------------------------------------------
(* The content of a ready transfer.                                        *)

\* What makes NoLossBeforeDelivery inductive: only verified bytes wait in the
\* .part file of a handler about to publish, and only files of delivered
\* transfers wait to be unlinked.
ContentInv ==
    /\ \A t \in Id : handler[t] = "good" => part[t] \in {"good", "none"}
    /\ \A t \in unlinking : row[t].state \in {"delivered", "gone"}
    /\ NoLossBeforeDelivery

\* A cleanup leaves a live record, if it stays live, exactly as it was.
LEMMA SweepKeepsLive ==
    ASSUME NEW r \in [Id -> Row], NEW drop \in SUBSET Finished(r), NEW t \in Id
    PROVE  /\ SweptRow(r, drop)[t].state \in Live \cup {"none"} =>
                 /\ SweptRow(r, drop)[t] = r[t]
                 /\ t \notin Finished(r)
           /\ r[t].state \in Terminal => SweptRow(r, drop)[t].state \in {r[t].state, "gone"}
           /\ r[t].state = "gone" => SweptRow(r, drop)[t].state = "gone"
           /\ SweptRow(r, drop)[t].state = "gone" => t \in Finished(r) \/ r[t].state = "gone"
           /\ SweptRow(r, drop)[t].state = "delivered" => r[t].state = "delivered"
<1>1. SweptRow(r, drop)[t] = IF t \in Aged(r) \cup drop THEN EmptyRow("gone")
                             ELSE IF t \in Overdue(r)
                             THEN [r[t] EXCEPT !.state = "expired", !.completed = now]
                             ELSE r[t]
  BY DEF SweptRow
<1>2. EmptyRow("gone").state = "gone"
  BY DEF EmptyRow
<1>3. [r[t] EXCEPT !.state = "expired", !.completed = now].state = "expired"
  BY DEF Row
<1>4. Aged(r) \cup drop \subseteq Finished(r)
  BY DEF Aged
<1>5. r[t].state \in Terminal => t \notin Overdue(r)
  BY DEF Overdue, LiveRows, Live, Terminal
<1>6. r[t].state \in {"gone", "none"} => t \notin Finished(r)
  BY DEF Finished, Overdue, LiveRows, Live, Terminal
<1>7. t \in Finished(r) => t \in Overdue(r) \/ r[t].state \in Terminal
  BY DEF Finished
<1>8. CASE t \in Aged(r) \cup drop
  BY <1>1, <1>2, <1>4, <1>6, <1>8 DEF Live, Terminal
<1>9. CASE t \notin Aged(r) \cup drop /\ t \in Overdue(r)
  BY <1>1, <1>3, <1>5, <1>9 DEF Live, Terminal, Overdue, LiveRows
<1>10. CASE t \notin Aged(r) \cup drop /\ t \notin Overdue(r)
  BY <1>1, <1>7, <1>10 DEF Live, Terminal
<1>. QED  BY <1>8, <1>9, <1>10

\* A file stays through a cleanup when its record is live afterwards.
LEMMA SweepKeepsFiles ==
    ASSUME NEW r \in [Id -> Row], NEW files, NEW t \in Id
    PROVE  /\ SweptFiles(r, files)[t] \in {files[t], "none"}
           /\ r[t].state \in Live /\ t \notin Finished(r) => SweptFiles(r, files)[t] = files[t]
  BY DEF SweptFiles, Live

\* An unexpired ready record is not one the cleanup finishes.
LEMMA ReadyNotFinished ==
    ASSUME NEW r \in [Id -> Row], NEW t \in Id, r[t].state = "ready",
           now \in Nat, r[t].expires > now
    PROVE  t \notin Finished(r)
<1>1. r[t].expires \in Nat
  BY DEF Row
<1>. QED  BY <1>1 DEF Finished, Overdue, Terminal

LEMMA InitContent == Init => ContentInv
  BY DEF Init, ContentInv, NoLossBeforeDelivery, EmptyRow

\* Every step keeps the content of ready transfers safe.
LEMMA StepContent == TypeOK /\ ContentInv /\ [Next]_vars => ContentInv'
<1>. SUFFICES ASSUME TypeOK, ContentInv, [Next]_vars PROVE ContentInv'
  OBVIOUS
<1>a. /\ now \in Nat  /\ row \in [Id -> Row]  /\ unlinking \subseteq Id
      /\ blob \in [Id -> FileState]  /\ part \in [Id -> FileState]
      /\ handler \in [Id -> HandlerState]
  BY DEF TypeOK
<1>b. /\ \A t \in Id : handler[t] = "good" => part[t] \in {"good", "none"}
      /\ \A t \in unlinking : row[t].state \in {"delivered", "gone"}
      /\ \A t \in Id : row[t].state = "ready" /\ row[t].expires > now => blob[t] = "good"
  BY DEF ContentInv, NoLossBeforeDelivery
<1>1. ASSUME NEW drop \in SUBSET Finished(row), UNCHANGED <<now, handler, unlinking>>,
             blob' = SweptFiles(row, blob), part' = SweptFiles(row, part),
             NEW fresh, fresh \notin unlinking \/ row[fresh].state # "none",
             \A t \in Id \ {fresh} : row'[t] = SweptRow(row, drop)[t],
             fresh \in Id => row'[fresh].state \notin {"ready"},
             fresh \in Id => row[fresh].state = "none"
      PROVE  ContentInv'
  <2>1. \A t \in Id : handler'[t] = "good" => part'[t] \in {"good", "none"}
    BY <1>1, <1>a, <1>b, SweepKeepsFiles
  <2>2. \A t \in unlinking' : row'[t].state \in {"delivered", "gone"}
    BY <1>1, <1>a, <1>b, SweepKeepsLive DEF Terminal
  <2>3. ASSUME NEW t \in Id, row'[t].state = "ready", row'[t].expires > now'
        PROVE  blob'[t] = "good"
    <3>1. t # fresh /\ row'[t] = SweptRow(row, drop)[t]
      BY <1>1, <2>3
    <3>2. row[t] = row'[t] /\ t \notin Finished(row)
      BY <1>a, <2>3, <3>1, SweepKeepsLive DEF Live
    <3>. QED  BY <1>1, <1>a, <1>b, <2>3, <3>2, SweepKeepsFiles DEF Live
  <2>. QED  BY <2>1, <2>2, <2>3 DEF ContentInv, NoLossBeforeDelivery
<1>2. ASSUME NEW t \in Id, NEW d \in Device, NEW k \in Key,
             NEW targets \in (SUBSET Device) \ {{}}, NEW ttl \in Ttl,
             Reserve(t, d, k, targets, ttl)
      PROVE  ContentInv'
  <2>1. PICK drop \in SUBSET Finished(row) :
           row' = [SweptRow(row, drop) EXCEPT ![t] =
                     [state |-> "uploading", source |-> d, key |-> k,
                      expires |-> now + ttl, deadline |-> now + UploadWindow,
                      completed |-> 0]]
    BY <1>2 DEF Reserve
  <2>2. SweptRow(row, drop) = [u \in Id |-> SweptRow(row, drop)[u]]
    BY DEF SweptRow
  <2>3. /\ \A u \in Id \ {t} : row'[u] = SweptRow(row, drop)[u]
        /\ row'[t].state = "uploading"
    BY <2>1, <2>2
  <2>4. row[t].state = "none" /\ t \notin unlinking
    BY <1>2, <1>b DEF Reserve
  <2>. QED  BY <1>1, <1>2, <2>3, <2>4 DEF Reserve
<1>3. ASSUME NEW t \in Id, UploadBegin(t)
      PROVE  ContentInv'
  BY <1>3, <1>a, <1>b DEF UploadBegin, ContentInv, NoLossBeforeDelivery, Row
<1>4. ASSUME NEW t \in Id, NEW content \in {"good", "bad"}, UploadReceive(t, content)
      PROVE  ContentInv'
  BY <1>4, <1>a, <1>b DEF UploadReceive, ContentInv, NoLossBeforeDelivery
<1>5. ASSUME NEW t \in Id, UploadCommit(t)
      PROVE  ContentInv'
  BY <1>5, <1>a, <1>b
     DEF UploadCommit, CanPublish, Renamed, ContentInv, NoLossBeforeDelivery, Row
<1>6. ASSUME NEW t \in Id, Reopened(t)
      PROVE  \A u \in Id : /\ row'[u].state \in {"ready", "delivered", "gone"} \/
                                row[u].state \in {"ready", "delivered", "gone"}
                                  => row'[u] = row[u]
  BY <1>6, <1>a DEF Reopened, Row
<1>7. ASSUME NEW t \in Id, UploadFail(t)
      PROVE  ContentInv'
  BY <1>6, <1>7, <1>a, <1>b DEF UploadFail, ContentInv, NoLossBeforeDelivery
<1>8. ASSUME NEW t \in Id, UploadCommitFails(t)
      PROVE  ContentInv'
  BY <1>6, <1>8, <1>a, <1>b
     DEF UploadCommitFails, CanPublish, Renamed, ContentInv, NoLossBeforeDelivery
<1>9. ASSUME NEW t \in Id, Unlink(t)
      PROVE  ContentInv'
  BY <1>9, <1>a, <1>b DEF Unlink, ContentInv, NoLossBeforeDelivery
<1>10. ASSUME NEW t \in Id, CrashInUpload(t)
       PROVE  ContentInv'
  BY <1>10, <1>a, <1>b
     DEF CrashInUpload, Halt, CanPublish, Renamed, ContentInv, NoLossBeforeDelivery
<1>11. ASSUME NEW t \in Id, NEW d \in Device, NEW k \in 1..issued[t][d],
              Acknowledge(t, d, k)
       PROVE  ContentInv'
  BY <1>11, <1>a, <1>b DEF Acknowledge, ContentInv, NoLossBeforeDelivery, Row
<1>12. ASSUME NEW t \in Id, NEW d \in Device, NEW k \in 1..issued[t][d],
              AcknowledgeAgain(t, d, k)
       PROVE  ContentInv'
  BY <1>12, <1>a, <1>b DEF AcknowledgeAgain, ContentInv, NoLossBeforeDelivery
<1>13. ASSUME UNCHANGED <<now, row, blob, part, handler, unlinking>>
       PROVE  ContentInv'
  BY <1>13, <1>b DEF ContentInv, NoLossBeforeDelivery
<1>14. CASE Cleanup
  <2>1. PICK drop \in SUBSET Finished(row) : row' = SweptRow(row, drop)
    BY <1>14 DEF Cleanup
  <2>2. PICK fresh : fresh \notin Id \cup unlinking
    BY NoSetContainsEverything
  <2>. QED  BY <1>1, <1>14, <2>1, <2>2 DEF Cleanup
<1>15. CASE Crash
  BY <1>15, <1>a, <1>b DEF Crash, Halt, ContentInv, NoLossBeforeDelivery
<1>16. CASE CrashInCleanup
  <2>1. ASSUME NEW t \in Id, row[t].state = "ready", row[t].expires > now
        PROVE  SweptFiles(row, blob)[t] = "good"
    BY <1>a, <1>b, <2>1, ReadyNotFinished, SweepKeepsFiles DEF Live
  <2>. QED  BY <1>16, <1>a, <2>1
            DEF CrashInCleanup, Halt, ContentInv, NoLossBeforeDelivery
<1>17. ASSUME NEW t \in Id, RecoveredFiles, row[t].state = "ready", row[t].expires > now
       PROVE  blob'[t] = "good"
  <2>1. Recovered[t] = row[t] /\ Recovered \in [Id -> Row]
    BY <1>17, RecoveredType DEF Recovered
  <2>2. SweptFiles(Recovered, blob)[t] = "good"
    BY <1>a, <1>b, <1>17, <2>1, ReadyNotFinished, SweepKeepsFiles DEF Live
  <2>. QED  BY <1>17, <2>1, <2>2 DEF RecoveredFiles
<1>18. CASE Restart
  <2>1. PICK drop \in SUBSET Finished(Recovered) : row' = SweptRow(Recovered, drop)
    BY <1>18 DEF Restart
  <2>2. Recovered \in [Id -> Row]
    BY RecoveredType
  <2>3. ASSUME NEW t \in Id, row'[t].state = "ready", row'[t].expires > now'
        PROVE  blob'[t] = "good"
    <3>1. row'[t] = Recovered[t]
      BY <2>1, <2>2, <2>3, SweepKeepsLive DEF Live
    <3>2. Recovered[t] = row[t]
      BY <1>a, <2>3, <3>1 DEF Recovered, Row
    <3>. QED  BY <1>17, <1>18, <2>3, <3>1, <3>2 DEF Restart
  <2>4. \A t \in unlinking : Recovered[t].state \in {"delivered", "gone"}
    BY <1>a, <1>b DEF Recovered
  <2>5. \A t \in unlinking' : row'[t].state \in {"delivered", "gone"}
    BY <1>18, <1>a, <2>1, <2>2, <2>4, SweepKeepsLive DEF Restart, Terminal
  <2>6. \A t \in Id : part'[t] = "none"
    BY <1>18 DEF Restart, RecoveredFiles
  <2>. QED  BY <2>3, <2>5, <2>6 DEF ContentInv, NoLossBeforeDelivery
<1>19. CASE CrashInRestart
  <2>1. \A t \in Id : part'[t] = "none"
    BY <1>19 DEF CrashInRestart, RecoveredFiles
  <2>. QED  BY <1>17, <1>19, <1>b, <2>1
            DEF CrashInRestart, ContentInv, NoLossBeforeDelivery
<1>20. CASE Tick
  <2>1. \A t \in Id : row[t].expires > now + 1 => row[t].expires > now
    BY <1>a DEF Row
  <2>. QED  BY <1>20, <1>a, <1>b, <2>1 DEF Tick, ContentInv, NoLossBeforeDelivery
<1>21. ASSUME NEW t \in Id, NEW d \in Device, Claim(t, d)
       PROVE  ContentInv'
  BY <1>13, <1>21 DEF Claim
<1>22. ASSUME NEW t \in Id, NEW d \in Device, NEW k \in 1..issued[t][d]
       PROVE  /\ DownloadBegin(t, d, k) => ContentInv'
              /\ DownloadEnd(t, d, k) => ContentInv'
              /\ DownloadAbort(t, d, k) => ContentInv'
              /\ Release(t, d, k) => ContentInv'
  BY <1>13 DEF DownloadBegin, DownloadEnd, DownloadAbort, Release
<1>23. CASE UNCHANGED vars
  BY <1>13, <1>23 DEF vars
<1>. QED
  BY <1>2, <1>3, <1>4, <1>5, <1>7, <1>8, <1>9, <1>10, <1>11, <1>12, <1>14,
     <1>15, <1>16, <1>18, <1>19, <1>20, <1>21, <1>22, <1>23 DEF Next

\* No ready and unexpired transfer ever loses its verified content.
THEOREM ContentIsSafe == Spec => []NoLossBeforeDelivery
<1>1. ContentInv => NoLossBeforeDelivery
  BY DEF ContentInv
<1>. QED  BY <1>1, InitContent, StepContent, TypeCorrect, PTL DEF Spec

-----------------------------------------------------------------------------
(* Acknowledgement.                                                        *)

\* What makes DeliveredMeansEveryTargetRead inductive: the downloaded flag, too,
\* speaks of the token the delivery holds now, and an identifier not handed
\* out yet has no delivery.
\* entry is the delivery of a transfer in the given state to device d.
Truthful(state, entry, t, d) ==
    /\ state = "none" => entry.state = "none"
    /\ entry.downloaded \/ entry.state = "acked" => <<t, d, entry.token>> \in received
    /\ state = "delivered" => entry.state \in {"none", "acked"}

DeliveryInv ==
    \A t \in Id, d \in Device : Truthful(row[t].state, delivery[t][d], t, d)

LEMMA InitDelivery == Init => DeliveryInv
  BY DEF Init, DeliveryInv, Truthful, EmptyRow, NewDelivery

\* A cleanup keeps a delivery or deletes it with its record.
LEMMA SweepKeepsDelivery ==
    ASSUME NEW r \in [Id -> Row], NEW drop \in SUBSET Finished(r), NEW t \in Id
    PROVE  \/ SweptDelivery(r, drop)[t] = delivery[t]
           \/ /\ SweptDelivery(r, drop)[t] = [d \in Device |-> NewDelivery("none")]
              /\ SweptRow(r, drop)[t].state = "gone"
  BY DEF SweptDelivery, SweptRow, EmptyRow

\* The three conjuncts survive a cleanup.
LEMMA SweepDelivery ==
    ASSUME DeliveryInv, NEW r \in [Id -> Row], NEW drop \in SUBSET Finished(r),
           NEW t \in Id, NEW d \in Device,
           r[t].state = row[t].state \/ r[t].state \notin {"none", "delivered"}
    PROVE  Truthful(SweptRow(r, drop)[t].state, SweptDelivery(r, drop)[t][d], t, d)
<1>1. CASE SweptDelivery(r, drop)[t] = delivery[t]
  <2>1. SweptRow(r, drop)[t].state \in {"none", "delivered"} =>
           row[t].state = SweptRow(r, drop)[t].state
    BY SweepKeepsLive
  <2>. QED  BY <1>1, <2>1 DEF DeliveryInv, Truthful
<1>2. CASE /\ SweptDelivery(r, drop)[t] = [e \in Device |-> NewDelivery("none")]
           /\ SweptRow(r, drop)[t].state = "gone"
  BY <1>2 DEF NewDelivery, Truthful
<1>. QED  BY <1>1, <1>2, SweepKeepsDelivery

\* Every step keeps the deliveries' bookkeeping truthful.
LEMMA StepDelivery == TypeOK /\ DeliveryInv /\ [Next]_vars => DeliveryInv'
<1>. SUFFICES ASSUME TypeOK, DeliveryInv, [Next]_vars PROVE DeliveryInv'
  OBVIOUS
<1>a. /\ row \in [Id -> Row]
      /\ delivery \in [Id -> [Device -> Delivery]]
      /\ issued \in [Id -> [Device -> Nat]]
  BY DEF TypeOK
<1>b. ASSUME NEW t \in Id, NEW d \in Device
      PROVE  delivery[t][d] \in Delivery
  BY <1>a
<1>1. ASSUME NEW t \in Id, NEW d \in Device, NEW k \in Key,
             NEW targets \in (SUBSET Device) \ {{}}, NEW ttl \in Ttl,
             Reserve(t, d, k, targets, ttl)
      PROVE  DeliveryInv'
  <2>1. PICK drop \in SUBSET Finished(row) :
           /\ row' = [SweptRow(row, drop) EXCEPT ![t] =
                        [state |-> "uploading", source |-> d, key |-> k,
                         expires |-> now + ttl, deadline |-> now + UploadWindow,
                         completed |-> 0]]
           /\ delivery' = [SweptDelivery(row, drop) EXCEPT ![t] =
                [e \in Device |->
                    NewDelivery(IF e \in targets THEN "pending" ELSE "none")]]
    BY <1>1 DEF Reserve
  <2>2. /\ SweptRow(row, drop) = [u \in Id |-> SweptRow(row, drop)[u]]
        /\ SweptDelivery(row, drop) = [u \in Id |-> SweptDelivery(row, drop)[u]]
    BY DEF SweptRow, SweptDelivery
  <2>3. \A e \in Device : /\ delivery'[t][e].state \in {"pending", "none"}
                          /\ ~delivery'[t][e].downloaded
    BY <2>1, <2>2 DEF NewDelivery
  <2>4. row'[t].state = "uploading"
    BY <2>1, <2>2
  <2>5. \A u \in Id \ {t} : /\ row'[u] = SweptRow(row, drop)[u]
                            /\ delivery'[u] = SweptDelivery(row, drop)[u]
    BY <2>1, <2>2
  <2>6. received' = received
    BY <1>1 DEF Reserve
  <2>7. ASSUME NEW u \in Id \ {t}, NEW e \in Device
        PROVE  Truthful(row'[u].state, delivery'[u][e], u, e)
    BY <1>a, <2>5, SweepDelivery
  <2>. QED  BY <2>3, <2>4, <2>6, <2>7 DEF DeliveryInv, Truthful
<1>2. ASSUME UNCHANGED <<delivery, received>>,
             \A u \in Id : row'[u].state \in {"none", "delivered"} => row'[u].state = row[u].state
      PROVE  DeliveryInv'
  BY <1>2 DEF DeliveryInv, Truthful
<1>3. ASSUME NEW t \in Id
      PROVE  /\ UploadBegin(t) => DeliveryInv'
             /\ UploadCommit(t) => DeliveryInv'
             /\ UploadFail(t) => DeliveryInv'
             /\ UploadCommitFails(t) => DeliveryInv'
  <2>1. Reopened(t) => \A u \in Id : row'[u].state \in {"none", "delivered"}
                                        => row'[u].state = row[u].state
    BY <1>a DEF Reopened, Row
  <2>2. UploadBegin(t) => DeliveryInv'
    BY <1>2, <1>a DEF UploadBegin, Row
  <2>3. UploadCommit(t) => DeliveryInv'
    BY <1>2, <1>a DEF UploadCommit, Row
  <2>4. UploadFail(t) => DeliveryInv'
    BY <1>2, <2>1 DEF UploadFail
  <2>5. UploadCommitFails(t) => DeliveryInv'
    BY <1>2, <2>1 DEF UploadCommitFails
  <2>. QED  BY <2>2, <2>3, <2>4, <2>5
<1>4. ASSUME UNCHANGED <<row, delivery, received>>
      PROVE  DeliveryInv'
  BY <1>2, <1>4
<1>5. ASSUME NEW t \in Id, NEW d \in Device, Claim(t, d)
      PROVE  DeliveryInv'
  <2>1. /\ row' = row /\ received' = received /\ row[t].state = "ready"
        /\ delivery'[t][d].state = "leased" /\ ~delivery'[t][d].downloaded
        /\ \A u \in Id, e \in Device : u # t \/ e # d => delivery'[u][e] = delivery[u][e]
    BY <1>5, <1>a DEF Claim
  <2>. QED  BY <2>1 DEF DeliveryInv, Truthful
<1>6. ASSUME NEW t \in Id, NEW d \in Device, NEW k \in 1..issued[t][d],
             DownloadEnd(t, d, k)
      PROVE  DeliveryInv'
  <2>1. /\ row' = row /\ received' = received \cup {<<t, d, k>>}
        /\ \A u \in Id, e \in Device :
              u # t \/ e # d => delivery'[u][e] = delivery[u][e]
    BY <1>6, <1>a DEF DownloadEnd
  <2>2. /\ delivery'[t][d].state = delivery[t][d].state
        /\ delivery'[t][d].token = delivery[t][d].token
        /\ delivery'[t][d].downloaded => delivery[t][d].downloaded \/ delivery[t][d].token = k
    BY <1>6, <1>a, <1>b DEF DownloadEnd, Delivery
  <2>. QED  BY <2>1, <2>2 DEF DeliveryInv, Truthful
<1>7. ASSUME NEW t \in Id, NEW d \in Device, NEW k \in 1..issued[t][d],
             Acknowledge(t, d, k)
      PROVE  DeliveryInv'
  <2>1. /\ received' = received /\ row[t].state = "ready" /\ delivery[t][d].downloaded
        /\ \A u \in Id \ {t} : row'[u] = row[u]
        /\ \A u \in Id, e \in Device :
              u # t \/ e # d => delivery'[u][e] = delivery[u][e]
    BY <1>7, <1>a DEF Acknowledge
  <2>2. /\ delivery'[t][d].state = "acked"
        /\ delivery'[t][d].token = delivery[t][d].token
    BY <1>7, <1>a, <1>b DEF Acknowledge, Delivery
  <2>3. /\ row'[t].state \in {"ready", "delivered"}
        /\ row'[t].state = "delivered" => AllOthersAcked(t, d)
    BY <1>7, <1>a, <2>1 DEF Acknowledge, Row
  <2>4. Truthful(row[t].state, delivery[t][d], t, d)
    BY DEF DeliveryInv
  <2>5. <<t, d, delivery'[t][d].token>> \in received'
    BY <2>1, <2>2, <2>4 DEF Truthful
  <2>6. Truthful(row[t].state, delivery[t][d], t, d)'
    BY <2>2, <2>3, <2>5 DEF Truthful
  <2>7. ASSUME NEW e \in Device \ {d}
        PROVE  Truthful(row[t].state, delivery[t][e], t, e)'
    BY <2>1, <2>3, <2>7 DEF DeliveryInv, Truthful, AllOthersAcked
  <2>8. ASSUME NEW u \in Id \ {t}, NEW e \in Device
        PROVE  Truthful(row[u].state, delivery[u][e], u, e)'
    BY <2>1, <2>8 DEF DeliveryInv, Truthful
  <2>. QED  BY <2>6, <2>7, <2>8 DEF DeliveryInv
<1>8. ASSUME NEW t \in Id, NEW d \in Device, NEW k \in 1..issued[t][d],
             Release(t, d, k)
      PROVE  DeliveryInv'
  <2>1. /\ row' = row /\ received' = received /\ delivery[t][d].state = "leased"
        /\ delivery'[t][d].state = "pending" /\ ~delivery'[t][d].downloaded
        /\ \A u \in Id, e \in Device : u # t \/ e # d => delivery'[u][e] = delivery[u][e]
    BY <1>8, <1>a DEF Release, NewDelivery
  <2>2. Truthful(row[t].state, delivery[t][d], t, d)'
    BY <2>1 DEF DeliveryInv, Truthful
  <2>3. ASSUME NEW u \in Id, NEW e \in Device, u # t \/ e # d
        PROVE  Truthful(row[u].state, delivery[u][e], u, e)'
    BY <2>1, <2>3 DEF DeliveryInv, Truthful
  <2>. QED  BY <2>2, <2>3 DEF DeliveryInv
<1>9. CASE Cleanup
  <2>1. PICK drop \in SUBSET Finished(row) :
           row' = SweptRow(row, drop) /\ delivery' = SweptDelivery(row, drop)
    BY <1>9 DEF Cleanup
  <2>2. ASSUME NEW u \in Id, NEW e \in Device
        PROVE  Truthful(row'[u].state, delivery'[u][e], u, e)
    BY <1>a, <2>1, SweepDelivery
  <2>3. received' = received
    BY <1>9 DEF Cleanup
  <2>. QED  BY <2>2, <2>3 DEF DeliveryInv, Truthful
<1>10. CASE Restart
  <2>1. PICK drop \in SUBSET Finished(Recovered) :
           row' = SweptRow(Recovered, drop) /\ delivery' = SweptDelivery(Recovered, drop)
    BY <1>10 DEF Restart
  <2>2. \A u \in Id : \/ Recovered[u].state = row[u].state
                      \/ Recovered[u].state \notin {"none", "delivered"}
    BY <1>a DEF Recovered, Row
  <2>3. ASSUME NEW u \in Id, NEW e \in Device
        PROVE  Truthful(row'[u].state, delivery'[u][e], u, e)
    BY <2>1, <2>2, RecoveredType, SweepDelivery
  <2>4. received' = received
    BY <1>10 DEF Restart
  <2>. QED  BY <2>3, <2>4 DEF DeliveryInv, Truthful
<1>11. ASSUME NEW t \in Id, NEW d \in Device, NEW k \in 1..issued[t][d]
       PROVE  /\ DownloadBegin(t, d, k) => DeliveryInv'
              /\ DownloadAbort(t, d, k) => DeliveryInv'
              /\ AcknowledgeAgain(t, d, k) => DeliveryInv'
  BY <1>4 DEF DownloadBegin, DownloadAbort, AcknowledgeAgain
<1>12. ASSUME NEW t \in Id, NEW content \in {"good", "bad"}
       PROVE  /\ UploadReceive(t, content) => DeliveryInv'
              /\ Unlink(t) => DeliveryInv'
              /\ CrashInUpload(t) => DeliveryInv'
  BY <1>4 DEF UploadReceive, Unlink, CrashInUpload, Halt
<1>13. Crash \/ CrashInCleanup \/ CrashInRestart \/ Tick \/ UNCHANGED vars => DeliveryInv'
  BY <1>4 DEF Crash, CrashInCleanup, CrashInRestart, Tick, Halt, vars
<1>. QED
  BY <1>1, <1>3, <1>5, <1>6, <1>7, <1>8, <1>9, <1>10, <1>11, <1>12, <1>13 DEF Next

\* Only devices that read the whole body under the lease they confirm are ever
\* counted as served, and all targets are before a transfer is delivered.
THEOREM DeliveryIsTruthful == Spec => []DeliveredMeansEveryTargetRead
<1>1. DeliveryInv => DeliveredMeansEveryTargetRead
  BY DEF DeliveryInv, Truthful, DeliveredMeansEveryTargetRead
<1>. QED  BY <1>1, InitDelivery, StepDelivery, TypeCorrect, PTL DEF Spec

-----------------------------------------------------------------------------
(* Capacity.                                                               *)

\* Finiteness comes along so that cardinalities can be compared.
QuotaInv == IsFiniteSet(LiveRows(row)) /\ QuotaRespected

LEMMA InitQuota == Init => QuotaInv
<1>. SUFFICES ASSUME Init PROVE QuotaInv
  OBVIOUS
<1>1. LiveRows(row) = {}
  BY DEF Init, LiveRows, Live, EmptyRow
<1>. QED  BY <1>1, FS_EmptySet, BoundAssumption DEF QuotaInv, QuotaRespected

\* Fewer live transfers are still within the quota.
LEMMA QuotaShrinks ==
    ASSUME QuotaInv, LiveRows(row') \subseteq LiveRows(row)
    PROVE  QuotaInv'
<1>1. /\ IsFiniteSet(LiveRows(row'))
      /\ Cardinality(LiveRows(row')) <= Cardinality(LiveRows(row))
  BY FS_Subset DEF QuotaInv
<1>2. Cardinality(LiveRows(row)) \in Nat /\ Cardinality(LiveRows(row')) \in Nat
  BY <1>1, FS_CardinalityType DEF QuotaInv
<1>. QED  BY <1>1, <1>2, BoundAssumption DEF QuotaInv, QuotaRespected

\* A cleanup makes no record live.
LEMMA SweepNotLive ==
    ASSUME NEW r \in [Id -> Row], NEW drop \in SUBSET Finished(r)
    PROVE  LiveRows(SweptRow(r, drop)) \subseteq LiveRows(r)
  BY SweepKeepsLive DEF LiveRows

LEMMA StepQuota == TypeOK /\ QuotaInv /\ [Next]_vars => QuotaInv'
<1>. SUFFICES ASSUME TypeOK, QuotaInv, [Next]_vars PROVE QuotaInv'
  OBVIOUS
<1>a. row \in [Id -> Row]
  BY DEF TypeOK
<1>1. ASSUME NEW t \in Id, NEW d \in Device, NEW k \in Key,
             NEW targets \in (SUBSET Device) \ {{}}, NEW ttl \in Ttl,
             Reserve(t, d, k, targets, ttl)
      PROVE  QuotaInv'
  <2>1. PICK drop \in SUBSET Finished(row) :
           /\ Cardinality(LiveRows(SweptRow(row, drop))) + 1 <= Quota
           /\ row' = [SweptRow(row, drop) EXCEPT ![t] =
                        [state |-> "uploading", source |-> d, key |-> k,
                         expires |-> now + ttl, deadline |-> now + UploadWindow,
                         completed |-> 0]]
    BY <1>1 DEF Reserve
  <2>2. IsFiniteSet(LiveRows(SweptRow(row, drop)))
    BY <1>a, FS_Subset, SweepNotLive DEF QuotaInv
  <2>3. SweptRow(row, drop) = [u \in Id |-> SweptRow(row, drop)[u]]
    BY DEF SweptRow
  <2>4. LiveRows(row') = LiveRows(SweptRow(row, drop)) \cup {t}
    BY <2>1, <2>3 DEF LiveRows, Live
  <2>5. \A S : IsFiniteSet(S) => /\ IsFiniteSet(S \cup {t})
                                 /\ Cardinality(S) \in Nat
                                 /\ Cardinality(S \cup {t}) <= Cardinality(S) + 1
    <3>. SUFFICES ASSUME NEW S, IsFiniteSet(S)
                  PROVE  /\ IsFiniteSet(S \cup {t})
                         /\ Cardinality(S) \in Nat
                         /\ Cardinality(S \cup {t}) <= Cardinality(S) + 1
      OBVIOUS
    <3>1. Cardinality(S) \in Nat
      BY FS_CardinalityType
    <3>2. /\ IsFiniteSet(S \cup {t})
          /\ Cardinality(S \cup {t}) \in {Cardinality(S), Cardinality(S) + 1}
      BY FS_AddElement
    <3>. QED  BY <3>1, <3>2
  <2>6. /\ IsFiniteSet(LiveRows(row'))
        /\ Cardinality(LiveRows(row')) \in Nat
        /\ Cardinality(LiveRows(row')) <= Cardinality(LiveRows(SweptRow(row, drop))) + 1
        /\ Cardinality(LiveRows(SweptRow(row, drop))) \in Nat
    BY <2>2, <2>4, <2>5, FS_CardinalityType
  <2>. QED  BY <2>1, <2>6, BoundAssumption DEF QuotaInv, QuotaRespected
<1>2. ASSUME NEW t \in Id
      PROVE  /\ UploadBegin(t) => QuotaInv'
             /\ UploadCommit(t) => QuotaInv'
             /\ Reopened(t) => QuotaInv'
  <2>1. UploadBegin(t) \/ UploadCommit(t) \/ Reopened(t)
           => LiveRows(row') \subseteq LiveRows(row)
    BY <1>a DEF UploadBegin, UploadCommit, CanPublish, Reopened, LiveRows, Live, Row
  <2>. QED  BY <2>1, QuotaShrinks
<1>3. ASSUME NEW t \in Id, NEW d \in Device, NEW k \in 1..issued[t][d],
             Acknowledge(t, d, k)
      PROVE  QuotaInv'
  <2>1. LiveRows(row') \subseteq LiveRows(row)
    BY <1>3, <1>a DEF Acknowledge, LiveRows, Live, Row
  <2>. QED  BY <2>1, QuotaShrinks
<1>4. CASE Cleanup
  <2>1. PICK drop \in SUBSET Finished(row) : row' = SweptRow(row, drop)
    BY <1>4 DEF Cleanup
  <2>. QED  BY <1>a, <2>1, SweepNotLive, QuotaShrinks
<1>5. CASE Restart
  <2>1. PICK drop \in SUBSET Finished(Recovered) : row' = SweptRow(Recovered, drop)
    BY <1>5 DEF Restart
  <2>2. LiveRows(Recovered) \subseteq LiveRows(row)
    BY DEF Recovered, LiveRows, Live
  <2>3. LiveRows(row') \subseteq LiveRows(row)
    BY <2>1, <2>2, RecoveredType, SweepNotLive
  <2>. QED  BY <2>3, QuotaShrinks
<1>6. ASSUME UNCHANGED row
      PROVE  QuotaInv'
  BY <1>6, QuotaShrinks
<1>7. ASSUME NEW t \in Id, NEW content \in {"good", "bad"}
      PROVE  /\ UploadReceive(t, content) => QuotaInv'
             /\ UploadFail(t) => QuotaInv'
             /\ UploadCommitFails(t) => QuotaInv'
             /\ Unlink(t) => QuotaInv'
             /\ CrashInUpload(t) => QuotaInv'
  BY <1>2, <1>6 DEF UploadReceive, UploadFail, UploadCommitFails, Unlink, CrashInUpload, Halt
<1>8. ASSUME NEW t \in Id, NEW d \in Device, NEW k \in 1..issued[t][d]
      PROVE  /\ Claim(t, d) => QuotaInv'
             /\ DownloadBegin(t, d, k) => QuotaInv'
             /\ DownloadEnd(t, d, k) => QuotaInv'
             /\ DownloadAbort(t, d, k) => QuotaInv'
             /\ AcknowledgeAgain(t, d, k) => QuotaInv'
             /\ Release(t, d, k) => QuotaInv'
  BY <1>6 DEF Claim, DownloadBegin, DownloadEnd, DownloadAbort, AcknowledgeAgain, Release
<1>9. ASSUME NEW t \in Id, NEW d \in Device
      PROVE  Claim(t, d) => QuotaInv'
  BY <1>6 DEF Claim
<1>10. Crash \/ CrashInCleanup \/ CrashInRestart \/ Tick \/ UNCHANGED vars => QuotaInv'
  BY <1>6 DEF Crash, CrashInCleanup, CrashInRestart, Tick, Halt, vars
<1>. QED
  BY <1>1, <1>2, <1>3, <1>4, <1>5, <1>7, <1>8, <1>9, <1>10 DEF Next

\* The quota bounds the live transfers whatever uploads, crashes and cleanups do.
THEOREM QuotaHolds == Spec => []QuotaRespected
<1>1. QuotaInv => QuotaRespected
  BY DEF QuotaInv
<1>. QED  BY <1>1, InitQuota, StepQuota, TypeCorrect, PTL DEF Spec

-----------------------------------------------------------------------------
(* What a step may never do.                                               *)

\* No step hands a delivery under a current lease to another token.
THEOREM LeasesAreExclusive == Spec => LeaseIsExclusive
<1>1. ASSUME TypeOK, [Next]_vars, NEW t \in Id, NEW d \in Device,
             delivery[t][d].state = "leased", delivery[t][d].until > now,
             delivery'[t][d].state = "leased"
      PROVE  delivery'[t][d].token = delivery[t][d].token
  <2>a. row \in [Id -> Row] /\ delivery \in [Id -> [Device -> Delivery]]
    BY <1>1 DEF TypeOK
  <2>b. \A e \in Device, u \in Id : delivery[u][e] \in Delivery
    BY <2>a
  <2>1. ASSUME NEW r \in [Id -> Row], NEW drop \in SUBSET Finished(r)
        PROVE  SweptDelivery(r, drop)[t][d].state = "leased" =>
                  SweptDelivery(r, drop)[t][d] = delivery[t][d]
    BY SweepKeepsDelivery DEF NewDelivery
  <2>2. ASSUME NEW u \in Id, NEW e \in Device, NEW k \in Key,
               NEW targets \in (SUBSET Device) \ {{}}, NEW ttl \in Ttl,
               Reserve(u, e, k, targets, ttl)
        PROVE  delivery'[t][d] = delivery[t][d]
    <3>1. PICK drop \in SUBSET Finished(row) :
             delivery' = [SweptDelivery(row, drop) EXCEPT ![u] =
                [x \in Device |->
                    NewDelivery(IF x \in targets THEN "pending" ELSE "none")]]
      BY <2>2 DEF Reserve
    <3>2. SweptDelivery(row, drop) = [x \in Id |-> SweptDelivery(row, drop)[x]]
      BY DEF SweptDelivery
    <3>3. u # t
      BY <1>1, <3>1, <3>2 DEF NewDelivery
    <3>. QED  BY <1>1, <2>1, <2>a, <3>1, <3>2, <3>3
  <2>3. ASSUME NEW u \in Id, NEW e \in Device, Claim(u, e)
        PROVE  delivery'[t][d] = delivery[t][d]
    <3>1. u # t \/ e # d
      BY <1>1, <2>3 DEF Claim, LeaseCurrent
    <3>. QED  BY <2>3, <2>a, <3>1 DEF Claim
  <2>4. ASSUME NEW u \in Id, NEW e \in Device, NEW k \in 1..issued[u][e],
               \/ DownloadEnd(u, e, k)
               \/ Acknowledge(u, e, k)
               \/ Release(u, e, k)
        PROVE  delivery'[t][d].token = delivery[t][d].token
    BY <1>1, <2>4, <2>a, <2>b DEF DownloadEnd, Acknowledge, Release, NewDelivery, Delivery
  <2>5. CASE Cleanup
    BY <1>1, <2>1, <2>5, <2>a DEF Cleanup
  <2>6. CASE Restart
    BY <1>1, <2>1, <2>6, RecoveredType DEF Restart
  <2>7. ASSUME NEW u \in Id, NEW content \in {"good", "bad"},
               \/ UploadBegin(u)  \/ UploadReceive(u, content)  \/ UploadCommit(u)
               \/ UploadFail(u)   \/ UploadCommitFails(u)
               \/ Unlink(u)       \/ CrashInUpload(u)
        PROVE  delivery' = delivery
    BY <2>7 DEF UploadBegin, UploadReceive, UploadCommit, UploadFail,
                UploadCommitFails, Unlink, CrashInUpload, Halt
  <2>8. ASSUME NEW u \in Id, NEW e \in Device, NEW k \in 1..issued[u][e],
               \/ DownloadBegin(u, e, k)
               \/ DownloadAbort(u, e, k)
               \/ AcknowledgeAgain(u, e, k)
        PROVE  delivery' = delivery
    BY <2>8 DEF DownloadBegin, DownloadAbort, AcknowledgeAgain
  <2>9. Crash \/ CrashInCleanup \/ CrashInRestart \/ Tick \/ UNCHANGED vars
           => delivery' = delivery
    BY DEF Crash, CrashInCleanup, CrashInRestart, Tick, Halt, vars
  <2>. QED
    BY <1>1, <2>2, <2>3, <2>4, <2>5, <2>6, <2>7, <2>8, <2>9 DEF Next
<1>2. TypeOK /\ [Next]_vars =>
         [\A t \in Id, d \in Device :
             /\ delivery[t][d].state = "leased"
             /\ delivery[t][d].until > now
             /\ delivery'[t][d].state = "leased"
             => delivery'[t][d].token = delivery[t][d].token]_vars
  BY <1>1
<1>. QED  BY <1>2, TypeCorrect, PTL DEF Spec, LeaseIsExclusive

\* Finished transfers and acknowledged deliveries stay what they are until the
\* cleanup deletes the record.
THEOREM NothingIsRevived == Spec => NoRevival
<1>1. ASSUME TypeOK, DeliveryInv, [Next]_vars, NEW t \in Id
      PROVE  /\ row[t].state \in Terminal => row'[t].state \in {row[t].state, "gone"}
             /\ row[t].state = "ready" => row'[t].state \notin {"uploading", "writing"}
             /\ \A d \in Device :
                   delivery[t][d].state = "acked" /\ row'[t].state # "gone"
                       => delivery'[t][d].state = "acked"
  <2> DEFINE RowKept(old, new) ==
               /\ old \in Terminal => new \in {old, "gone"}
               /\ old = "ready" => new \notin {"uploading", "writing"}
             AckKept == \A d \in Device :
                   delivery[t][d].state = "acked" /\ row'[t].state # "gone"
                       => delivery'[t][d].state = "acked"
  <2>. SUFFICES RowKept(row[t].state, row'[t].state) /\ AckKept
    OBVIOUS
  <2>a. /\ row \in [Id -> Row] /\ delivery \in [Id -> [Device -> Delivery]]
        /\ \A e \in Device, u \in Id : delivery[u][e] \in Delivery
    BY <1>1 DEF TypeOK
  <2>1. ASSUME NEW r \in [Id -> Row], NEW drop \in SUBSET Finished(r)
        PROVE  /\ RowKept(r[t].state, SweptRow(r, drop)[t].state)
               /\ \/ SweptDelivery(r, drop)[t] = delivery[t]
                  \/ SweptRow(r, drop)[t].state = "gone"
    <3>1. SweptRow(r, drop)[t].state \in {"uploading", "writing"} =>
             r[t].state \in {"uploading", "writing"}
      BY SweepKeepsLive DEF Live
    <3>. QED  BY <3>1, SweepKeepsLive, SweepKeepsDelivery
  <2>2. ASSUME NEW u \in Id, NEW e \in Device, NEW k \in Key,
               NEW targets \in (SUBSET Device) \ {{}}, NEW ttl \in Ttl,
               Reserve(u, e, k, targets, ttl)
        PROVE  RowKept(row[t].state, row'[t].state) /\ AckKept
    <3>1. PICK drop \in SUBSET Finished(row) :
             /\ row' = [SweptRow(row, drop) EXCEPT ![u] =
                          [state |-> "uploading", source |-> e, key |-> k,
                           expires |-> now + ttl, deadline |-> now + UploadWindow,
                           completed |-> 0]]
             /\ delivery' = [SweptDelivery(row, drop) EXCEPT ![u] =
                  [x \in Device |->
                      NewDelivery(IF x \in targets THEN "pending" ELSE "none")]]
      BY <2>2 DEF Reserve
    <3>2. CASE u = t
      <4>1. row[t].state = "none"
        BY <2>2, <3>2 DEF Reserve
      <4>2. \A d \in Device : delivery[t][d].state = "none"
        BY <1>1, <4>1 DEF DeliveryInv, Truthful
      <4>. QED  BY <4>1, <4>2 DEF Terminal
    <3>3. CASE u # t
      <4>1. row'[t] = SweptRow(row, drop)[t] /\ delivery'[t] = SweptDelivery(row, drop)[t]
        BY <3>1, <3>3 DEF SweptRow, SweptDelivery
      <4>. QED  BY <2>a, <2>1, <4>1
    <3>. QED  BY <3>2, <3>3
  <2>3. ASSUME NEW u \in Id, \/ UploadBegin(u) \/ UploadCommit(u)
                             \/ UploadFail(u)  \/ UploadCommitFails(u)
        PROVE  RowKept(row[t].state, row'[t].state) /\ AckKept
    <3>1. delivery' = delivery
      BY <2>3 DEF UploadBegin, UploadCommit, UploadFail, UploadCommitFails
    <3>2. row[t].state \in {"ready", "expired", "delivered"} => row'[t] = row[t]
      BY <2>3, <2>a DEF UploadBegin, UploadCommit, CanPublish, UploadFail,
                        UploadCommitFails, Reopened, Row
    <3>. QED  BY <3>1, <3>2 DEF Terminal
  <2>4. ASSUME NEW u \in Id, NEW e \in Device, NEW k \in 1..issued[u][e],
               Acknowledge(u, e, k)
        PROVE  RowKept(row[t].state, row'[t].state) /\ AckKept
    <3>1. \/ row'[t] = row[t]
          \/ row[t].state = "ready" /\ row'[t].state = "delivered"
      BY <2>4, <2>a DEF Acknowledge, Row
    <3>2. \A d \in Device : \/ delivery'[t][d] = delivery[t][d]
                            \/ delivery'[t][d].state = "acked"
      BY <2>4, <2>a DEF Acknowledge, Delivery
    <3>. QED  BY <3>1, <3>2 DEF Terminal
  <2>5. ASSUME NEW u \in Id, NEW e \in Device, NEW k \in 1..issued[u][e],
               DownloadEnd(u, e, k) \/ Release(u, e, k)
        PROVE  RowKept(row[t].state, row'[t].state) /\ AckKept
    <3>1. row' = row
      BY <2>5 DEF DownloadEnd, Release
    <3>2. u # t \/ delivery[t][e].state # "acked" \/ delivery' = delivery
      BY <2>5 DEF DownloadEnd, Release
    <3>3. \A d \in Device : u # t \/ d # e => delivery'[t][d] = delivery[t][d]
      BY <2>5, <2>a DEF DownloadEnd, Release
    <3>. QED  BY <3>1, <3>2, <3>3 DEF Terminal
  <2>6. ASSUME NEW u \in Id, NEW e \in Device, Claim(u, e)
        PROVE  RowKept(row[t].state, row'[t].state) /\ AckKept
    <3>1. row' = row
      BY <2>6 DEF Claim
    <3>2. \A d \in Device : delivery[t][d].state = "acked" => delivery'[t][d] = delivery[t][d]
      BY <2>6, <2>a DEF Claim
    <3>. QED  BY <3>1, <3>2 DEF Terminal
  <2>7. CASE Cleanup
    BY <2>1, <2>7, <2>a DEF Cleanup
  <2>8. CASE Restart
    <3>1. PICK drop \in SUBSET Finished(Recovered) :
             row' = SweptRow(Recovered, drop) /\ delivery' = SweptDelivery(Recovered, drop)
      BY <2>8 DEF Restart
    <3>2. row[t].state \in Terminal \cup {"ready"} => Recovered[t].state = row[t].state
      BY <2>a DEF Recovered, Terminal
    <3>3. /\ RowKept(Recovered[t].state, row'[t].state)
          /\ delivery'[t] = delivery[t] \/ row'[t].state = "gone"
      BY <1>1, <2>1, <3>1, RecoveredType
    <3>4. RowKept(row[t].state, row'[t].state)
      BY <3>2, <3>3
    <3>. QED  BY <3>3, <3>4
  <2>9. ASSUME row' = row, delivery' = delivery
        PROVE  RowKept(row[t].state, row'[t].state) /\ AckKept
    BY <2>9 DEF Terminal
  <2>10. ASSUME NEW u \in Id, NEW content \in {"good", "bad"},
                UploadReceive(u, content) \/ Unlink(u) \/ CrashInUpload(u)
         PROVE  RowKept(row[t].state, row'[t].state) /\ AckKept
    BY <2>9, <2>10 DEF UploadReceive, Unlink, CrashInUpload, Halt
  <2>11. ASSUME NEW u \in Id, NEW e \in Device, NEW k \in 1..issued[u][e],
                DownloadBegin(u, e, k) \/ DownloadAbort(u, e, k) \/ AcknowledgeAgain(u, e, k)
         PROVE  RowKept(row[t].state, row'[t].state) /\ AckKept
    BY <2>9, <2>11 DEF DownloadBegin, DownloadAbort, AcknowledgeAgain
  <2>12. Crash \/ CrashInCleanup \/ CrashInRestart \/ Tick \/ UNCHANGED vars
            => RowKept(row[t].state, row'[t].state) /\ AckKept
    BY <2>9 DEF Crash, CrashInCleanup, CrashInRestart, Tick, Halt, vars
  <2> HIDE DEF RowKept, AckKept
  <2>. QED
    BY <1>1, <2>2, <2>3, <2>4, <2>5, <2>6, <2>7, <2>8, <2>10, <2>11, <2>12 DEF Next
<1>2. TypeOK /\ DeliveryInv /\ [Next]_vars =>
         [\A t \in Id :
             /\ row[t].state \in Terminal => row'[t].state \in {row[t].state, "gone"}
             /\ row[t].state = "ready" => row'[t].state \notin {"uploading", "writing"}
             /\ \A d \in Device :
                   delivery[t][d].state = "acked" /\ row'[t].state # "gone"
                       => delivery'[t][d].state = "acked"]_vars
  BY <1>1
<1>. QED
  BY <1>2, InitDelivery, StepDelivery, TypeCorrect, PTL DEF Spec, NoRevival

-----------------------------------------------------------------------------
(* The promise.                                                            *)

\* A step can only take a delivery from the device whose token it shows, so a
\* delivery that waits, or is no delivery, must have no token.
TokenInv ==
    \A t \in Id, d \in Device :
        delivery[t][d].state \in {"none", "pending"} => delivery[t][d].token = 0

\* Tokens are given by a claim and go with a release.
LEMMA StepToken == TypeOK /\ TokenInv /\ [Next]_vars => TokenInv'
<1>. SUFFICES ASSUME TypeOK, TokenInv, [Next]_vars, NEW t \in Id, NEW d \in Device,
                     delivery'[t][d].state \in {"none", "pending"}
              PROVE  delivery'[t][d].token = 0
  BY DEF TokenInv
<1>a. /\ row \in [Id -> Row] /\ delivery \in [Id -> [Device -> Delivery]]
      /\ \A e \in Device, u \in Id : delivery[u][e] \in Delivery
  BY DEF TypeOK
<1>b. ASSUME NEW r \in [Id -> Row], NEW drop \in SUBSET Finished(r)
      PROVE  SweptDelivery(r, drop)[t][d] \in {delivery[t][d], NewDelivery("none")}
  BY SweepKeepsDelivery
<1>c. ASSUME delivery'[t][d] \in {delivery[t][d], NewDelivery("none"), NewDelivery("pending")}
      PROVE  delivery'[t][d].token = 0
  BY <1>c DEF TokenInv, NewDelivery
<1>1. ASSUME NEW u \in Id, NEW e \in Device, NEW k \in Key,
             NEW targets \in (SUBSET Device) \ {{}}, NEW ttl \in Ttl,
             Reserve(u, e, k, targets, ttl)
      PROVE  delivery'[t][d].token = 0
  <2>1. PICK drop \in SUBSET Finished(row) :
           delivery' = [SweptDelivery(row, drop) EXCEPT ![u] =
              [x \in Device |->
                  NewDelivery(IF x \in targets THEN "pending" ELSE "none")]]
    BY <1>1 DEF Reserve
  <2>2. \/ delivery'[t] = SweptDelivery(row, drop)[t]
        \/ delivery'[t] = [x \in Device |->
                  NewDelivery(IF x \in targets THEN "pending" ELSE "none")]
    BY <2>1 DEF SweptDelivery
  <2>. QED  BY <1>a, <1>b, <1>c, <2>2
<1>2. ASSUME NEW u \in Id, NEW e \in Device, Claim(u, e)
      PROVE  delivery'[t][d].token = 0
  <2>1. delivery'[t][d] = delivery[t][d] \/ delivery'[t][d].state = "leased"
    BY <1>2, <1>a DEF Claim
  <2>. QED  BY <1>c, <2>1
<1>3. ASSUME NEW u \in Id, NEW e \in Device, NEW k \in 1..issued[u][e],
             DownloadEnd(u, e, k) \/ Acknowledge(u, e, k) \/ Release(u, e, k)
      PROVE  delivery'[t][d].token = 0
  <2>1. CASE DownloadEnd(u, e, k)
    <3>1. delivery'[t][d] = delivery[t][d] \/ delivery'[t][d].state = "leased"
      BY <2>1, <1>a DEF DownloadEnd, Delivery
    <3>. QED  BY <1>c, <3>1
  <2>2. CASE Acknowledge(u, e, k)
    <3>1. delivery'[t][d] = delivery[t][d] \/ delivery'[t][d].state = "acked"
      BY <2>2, <1>a DEF Acknowledge, Delivery
    <3>. QED  BY <1>c, <3>1
  <2>3. CASE Release(u, e, k)
    <3>1. delivery'[t][d] = delivery[t][d] \/ delivery'[t][d] = NewDelivery("pending")
      BY <2>3, <1>a DEF Release
    <3>. QED  BY <1>c, <3>1
  <2>. QED  BY <1>3, <2>1, <2>2, <2>3
<1>4. CASE Cleanup
  BY <1>4, <1>a, <1>b, <1>c DEF Cleanup
<1>5. CASE Restart
  BY <1>5, <1>b, <1>c, RecoveredType DEF Restart
<1>6. ASSUME NEW u \in Id, NEW content \in {"good", "bad"},
             \/ UploadBegin(u)  \/ UploadReceive(u, content)  \/ UploadCommit(u)
             \/ UploadFail(u)   \/ UploadCommitFails(u)
             \/ Unlink(u)       \/ CrashInUpload(u)
      PROVE  delivery' = delivery
  BY <1>6 DEF UploadBegin, UploadReceive, UploadCommit, UploadFail,
              UploadCommitFails, Unlink, CrashInUpload, Halt
<1>7. ASSUME NEW u \in Id, NEW e \in Device, NEW k \in 1..issued[u][e],
             DownloadBegin(u, e, k) \/ DownloadAbort(u, e, k) \/ AcknowledgeAgain(u, e, k)
      PROVE  delivery' = delivery
  BY <1>7 DEF DownloadBegin, DownloadAbort, AcknowledgeAgain
<1>8. Crash \/ CrashInCleanup \/ CrashInRestart \/ Tick \/ UNCHANGED vars
         => delivery' = delivery
  BY DEF Crash, CrashInCleanup, CrashInRestart, Tick, Halt, vars
<1>. QED  BY <1>c, <1>1, <1>2, <1>3, <1>4, <1>5, <1>6, <1>7, <1>8 DEF Next

\* What the devices see of a state of a transfer, and of its deliveries.
StatusOf(state) ==
    CASE state = "none" -> "free"
      [] state \in {"uploading", "writing"} -> "open"
      [] OTHER -> state

AwaitedIn(entries) == {d \in Device : entries[d].state \in {"pending", "leased"}}

LEMMA Seen ==
    \A t \in Id : /\ Status(t) = StatusOf(row[t].state)
                  /\ Status(t)' = StatusOf(row'[t].state)
                  /\ Awaiting(t) = AwaitedIn(delivery[t])
                  /\ Awaiting(t)' = AwaitedIn(delivery'[t])
  BY DEF Status, StatusOf, Awaiting, AwaitedIn

\* A table that looks to the devices as the present one does.
LooksTheSame(r) == \A t \in Id : StatusOf(r[t].state) = Status(t)

LEMMA RecoveryIsUnseen == TypeOK => LooksTheSame(row) /\ LooksTheSame(Recovered)
<1>. SUFFICES ASSUME TypeOK, NEW t \in Id
              PROVE  /\ StatusOf(row[t].state) = Status(t)
                     /\ StatusOf(Recovered[t].state) = Status(t)
  BY DEF LooksTheSame
<1>1. row[t] \in Row
  BY DEF TypeOK
<1>2. \/ Recovered[t] = row[t]
      \/ row[t].state = "writing" /\ Recovered[t].state = "uploading"
  BY <1>1 DEF Recovered, Row
<1>. QED  BY <1>2, Seen DEF StatusOf

\* A cleanup expires live transfers and forgets finished ones.
LEMMA SweepIsPromised ==
    ASSUME TypeOK, NEW r \in [Id -> Row], LooksTheSame(r), NEW drop \in SUBSET Finished(r)
    PROVE  \E late \in SUBSET Promise!InState(Promise!Live) :
              \E old \in SUBSET (late \cup Promise!InState(Promise!Finished)) :
                 \A t \in Id :
                    /\ StatusOf(SweptRow(r, drop)[t].state) = Promise!Swept(late, old)[t]
                    /\ AwaitedIn(SweptDelivery(r, drop)[t]) = Promise!SweptAwaiting(old)[t]
<1> DEFINE late == Overdue(r)
           old == Aged(r) \cup drop
<1>1. late \in SUBSET Promise!InState(Promise!Live)
  <2>. SUFFICES ASSUME NEW t \in Overdue(r)
                PROVE  t \in Id /\ Status(t) \in {"open", "ready"}
    BY DEF Promise!InState, Promise!Live
  <2>. QED  BY DEF Overdue, LiveRows, Live, LooksTheSame, StatusOf
<1>2. old \in SUBSET (late \cup Promise!InState(Promise!Finished))
  <2>. SUFFICES ASSUME NEW t \in Finished(r), t \notin Overdue(r)
                PROVE  t \in Id /\ Status(t) \in {"expired", "delivered"}
    BY DEF Promise!InState, Promise!Finished, Aged
  <2>. QED  BY DEF Finished, Terminal, LooksTheSame, StatusOf
<1>3. ASSUME NEW t \in Id
      PROVE  /\ StatusOf(SweptRow(r, drop)[t].state) = Promise!Swept(late, old)[t]
             /\ AwaitedIn(SweptDelivery(r, drop)[t]) = Promise!SweptAwaiting(old)[t]
  <2>1. StatusOf(SweptRow(r, drop)[t].state) = IF t \in old THEN "gone"
                                               ELSE IF t \in late THEN "expired" ELSE Status(t)
    <3>1. SweptRow(r, drop)[t].state = IF t \in old THEN "gone"
                                       ELSE IF t \in late THEN "expired" ELSE r[t].state
      <4>1. r[t] \in Row
        OBVIOUS
      <4>. QED  BY <4>1 DEF SweptRow, EmptyRow, Row
    <3>. QED  BY <3>1 DEF StatusOf, LooksTheSame
  <2>2. AwaitedIn(SweptDelivery(r, drop)[t]) = IF t \in old THEN {} ELSE Awaiting(t)
    BY Seen DEF SweptDelivery, AwaitedIn, NewDelivery
  <2>3. Promise!Swept(late, old)[t] = IF t \in old THEN "gone"
                                      ELSE IF t \in late THEN "expired" ELSE Status(t)
    BY DEF Promise!Swept
  <2>4. Promise!SweptAwaiting(old)[t] = IF t \in old THEN {} ELSE Awaiting(t)
    BY DEF Promise!SweptAwaiting
  <2>. QED  BY <2>1, <2>2, <2>3, <2>4
<1>. HIDE DEF late, old
<1>. QED  BY <1>1, <1>2, <1>3

\* A reservation is a sweep that makes room, and an opening.
LEMMA ReserveIsPromised ==
    ASSUME TypeOK, DeliveryInv, NEW u \in Id, NEW e \in Device, NEW k \in Key,
           NEW targets \in (SUBSET Device) \ {{}}, NEW ttl \in Ttl,
           Reserve(u, e, k, targets, ttl)
    PROVE  Promise!Open(u, targets)
<1>1. PICK drop \in SUBSET Finished(row) :
         /\ row' = [SweptRow(row, drop) EXCEPT ![u] =
                      [state |-> "uploading", source |-> e, key |-> k,
                       expires |-> now + ttl, deadline |-> now + UploadWindow,
                       completed |-> 0]]
         /\ delivery' = [SweptDelivery(row, drop) EXCEPT ![u] =
              [x \in Device |->
                  NewDelivery(IF x \in targets THEN "pending" ELSE "none")]]
  BY DEF Reserve
<1>2. PICK late \in SUBSET Promise!InState(Promise!Live) :
         \E old \in SUBSET (late \cup Promise!InState(Promise!Finished)) :
            \A t \in Id :
               /\ StatusOf(SweptRow(row, drop)[t].state) = Promise!Swept(late, old)[t]
               /\ AwaitedIn(SweptDelivery(row, drop)[t]) = Promise!SweptAwaiting(old)[t]
  BY SweepIsPromised, RecoveryIsUnseen DEF TypeOK
<1>3. PICK old \in SUBSET (late \cup Promise!InState(Promise!Finished)) :
         \A t \in Id :
            /\ StatusOf(SweptRow(row, drop)[t].state) = Promise!Swept(late, old)[t]
            /\ AwaitedIn(SweptDelivery(row, drop)[t]) = Promise!SweptAwaiting(old)[t]
  BY <1>2
<1>a. /\ SweptRow(row, drop) = [t \in Id |-> SweptRow(row, drop)[t]]
      /\ SweptDelivery(row, drop) = [t \in Id |-> SweptDelivery(row, drop)[t]]
  BY DEF SweptRow, SweptDelivery
<1>4. ASSUME NEW t \in Id, t # u
      PROVE  /\ row'[t] = SweptRow(row, drop)[t]
             /\ delivery'[t] = SweptDelivery(row, drop)[t]
  BY <1>1, <1>4, <1>a
<1>5. row'[u].state = "uploading" /\ AwaitedIn(delivery'[u]) = targets
  <2>1. row'[u].state = "uploading"
    BY <1>1, <1>a
  <2>2. delivery'[u] = [x \in Device |->
                           NewDelivery(IF x \in targets THEN "pending" ELSE "none")]
    BY <1>1, <1>a
  <2>3. AwaitedIn(delivery'[u]) = targets
    BY <2>2 DEF AwaitedIn, NewDelivery
  <2>. QED  BY <2>1, <2>3
<1>6. [t \in Id |-> Status(t)]' = [Promise!Swept(late, old) EXCEPT ![u] = "open"]
  <2>1. ASSUME NEW t \in Id
        PROVE  Status(t)' = IF t = u THEN "open" ELSE Promise!Swept(late, old)[t]
    BY <1>3, <1>4, <1>5, Seen DEF StatusOf
  <2>2. Promise!Swept(late, old) = [t \in Id |-> Promise!Swept(late, old)[t]]
    BY DEF Promise!Swept
  <2>. QED  BY <2>1, <2>2
<1>7. [t \in Id |-> Awaiting(t)]' = [Promise!SweptAwaiting(old) EXCEPT ![u] = targets]
  <2>1. ASSUME NEW t \in Id
        PROVE  Awaiting(t)' = IF t = u THEN targets ELSE Promise!SweptAwaiting(old)[t]
    BY <1>3, <1>4, <1>5, Seen
  <2>2. Promise!SweptAwaiting(old) = [t \in Id |-> Promise!SweptAwaiting(old)[t]]
    BY DEF Promise!SweptAwaiting
  <2>. QED  BY <2>1, <2>2
<1>8. Status(u) = "free" /\ targets # {}
  <2>1. row[u].state = "none"
    BY DEF Reserve
  <2>. QED  BY <2>1 DEF Status
<1>. QED  BY <1>2, <1>3, <1>6, <1>7, <1>8 DEF Promise!Open

\* An acknowledgement takes the transfer off the device's list, and the last one
\* delivers it.
LEMMA AcknowledgeIsPromised ==
    ASSUME TypeOK, DeliveryInv, TokenInv, NEW u \in Id, NEW e \in Device, NEW k \in Nat,
           Acknowledge(u, e, k)
    PROVE  Promise!Take(u, e)
<1>a. /\ row \in [Id -> Row] /\ row[u] \in Row
      /\ delivery \in [Id -> [Device -> Delivery]]
      /\ \A d \in Device : delivery[u][d] \in Delivery
  BY DEF TypeOK
<1>1. Status(u) = "ready" /\ e \in Awaiting(u)
  BY <1>a DEF Acknowledge, HoldsToken, TokenInv, Status, Awaiting, Delivery
<1>2. \A t \in Id : Awaiting(t)' = IF t = u THEN Awaiting(u) \ {e} ELSE Awaiting(t)
  <2>1. ASSUME NEW t \in Id, t # u
        PROVE  delivery'[t] = delivery[t]
    BY <2>1, <1>a DEF Acknowledge
  <2>2. ASSUME NEW d \in Device, d # e
        PROVE  delivery'[u][d] = delivery[u][d]
    BY <2>2, <1>a DEF Acknowledge
  <2>3. delivery'[u][e].state = "acked"
    BY <1>a DEF Acknowledge, Delivery
  <2>. QED  BY <2>1, <2>2, <2>3 DEF Awaiting
<1>3. AllOthersAcked(u, e) <=> Awaiting(u) = {e}
  BY <1>1, <1>a DEF AllOthersAcked, Awaiting, Delivery
<1>4. \A t \in Id : Status(t)' = IF t = u /\ Awaiting(u) = {e} THEN "delivered" ELSE Status(t)
  <2>1. CASE AllOthersAcked(u, e)
    <3>1. /\ row'[u].state = "delivered"
          /\ \A t \in Id : t # u => row'[t] = row[t]
      BY <2>1, <1>a DEF Acknowledge, Row
    <3>. QED  BY <2>1, <1>3, <3>1 DEF Status
  <2>2. CASE ~AllOthersAcked(u, e)
    BY <2>2, <1>3 DEF Acknowledge, Status
  <2>. QED  BY <2>1, <2>2
<1>5. [t \in Id |-> Awaiting(t)]' = [[t \in Id |-> Awaiting(t)] EXCEPT ![u] = Awaiting(u) \ {e}]
  BY <1>2
<1>6. [t \in Id |-> Status(t)]' = IF Awaiting(u) = {e}
                                  THEN [[t \in Id |-> Status(t)] EXCEPT ![u] = "delivered"]
                                  ELSE [t \in Id |-> Status(t)]
  BY <1>4
<1>. QED  BY <1>1, <1>5, <1>6 DEF Promise!Take

\* Every other step is a cleanup, a publication or nothing the devices see.
LEMMA StepIsPromised ==
    TypeOK /\ DeliveryInv /\ TokenInv /\ [Next]_vars => [Promise!Next]_(Promise!vars)
<1>. SUFFICES ASSUME TypeOK, DeliveryInv, TokenInv, [Next]_vars
              PROVE  [Promise!Next]_(Promise!vars)
  OBVIOUS
<1>a. /\ row \in [Id -> Row] /\ delivery \in [Id -> [Device -> Delivery]]
      /\ \A u \in Id : row[u] \in Row
      /\ \A u \in Id, e \in Device : delivery[u][e] \in Delivery
      /\ \A u \in Id, e \in Device : issued[u][e] \in Nat
  BY DEF TypeOK
<1>b. ASSUME \A t \in Id : StatusOf(row'[t].state) = StatusOf(row[t].state),
             \A t \in Id : AwaitedIn(delivery'[t]) = AwaitedIn(delivery[t])
      PROVE  [Promise!Next]_(Promise!vars)
  <2>1. \A t \in Id : Status(t)' = Status(t) /\ Awaiting(t)' = Awaiting(t)
    BY <1>b, Seen
  <2>. QED  BY <2>1 DEF Promise!vars
<1>c. ASSUME NEW r \in [Id -> Row], LooksTheSame(r), NEW drop \in SUBSET Finished(r),
             row' = SweptRow(r, drop), delivery' = SweptDelivery(r, drop)
      PROVE  [Promise!Next]_(Promise!vars)
  <2>1. PICK late \in SUBSET Promise!InState(Promise!Live) :
           \E old \in SUBSET (late \cup Promise!InState(Promise!Finished)) :
              \A t \in Id :
                 /\ StatusOf(row'[t].state) = Promise!Swept(late, old)[t]
                 /\ AwaitedIn(delivery'[t]) = Promise!SweptAwaiting(old)[t]
    BY <1>c, SweepIsPromised
  <2>2. PICK old \in SUBSET (late \cup Promise!InState(Promise!Finished)) :
           \A t \in Id : /\ Status(t)' = Promise!Swept(late, old)[t]
                         /\ Awaiting(t)' = Promise!SweptAwaiting(old)[t]
    BY <2>1, Seen
  <2>3. /\ Promise!Swept(late, old) = [t \in Id |-> Promise!Swept(late, old)[t]]
        /\ Promise!SweptAwaiting(old) = [t \in Id |-> Promise!SweptAwaiting(old)[t]]
    BY DEF Promise!Swept, Promise!SweptAwaiting
  <2>4. /\ [t \in Id |-> Status(t)]' = Promise!Swept(late, old)
        /\ [t \in Id |-> Awaiting(t)]' = Promise!SweptAwaiting(old)
    BY <2>2, <2>3
  <2>5. Promise!Sweep
    BY <2>1, <2>2, <2>4 DEF Promise!Sweep
  <2>. QED  BY <2>5 DEF Promise!Next
<1>1. ASSUME NEW u \in Id, NEW e \in Device, NEW k \in Key,
             NEW targets \in (SUBSET Device) \ {{}}, NEW ttl \in Ttl,
             Reserve(u, e, k, targets, ttl)
      PROVE  [Promise!Next]_(Promise!vars)
  BY <1>1, ReserveIsPromised DEF Promise!Next
<1>2. ASSUME NEW u \in Id, UploadCommit(u)
      PROVE  [Promise!Next]_(Promise!vars)
  <2>1. /\ row'[u].state = "ready" /\ row[u].state = "writing"
        /\ \A t \in Id : t # u => row'[t] = row[t]
        /\ delivery' = delivery
    BY <1>2, <1>a DEF UploadCommit, CanPublish, Row
  <2>2. /\ Status(u) = "open"
        /\ \A t \in Id : Status(t)' = IF t = u THEN "ready" ELSE Status(t)
        /\ \A t \in Id : Awaiting(t)' = Awaiting(t)
    BY <2>1 DEF Status, Awaiting
  <2>3. Promise!Publish(u)
    BY <2>2 DEF Promise!Publish
  <2>. QED  BY <2>3 DEF Promise!Next
<1>3. ASSUME NEW u \in Id, UploadBegin(u) \/ UploadFail(u) \/ UploadCommitFails(u)
      PROVE  [Promise!Next]_(Promise!vars)
  <2>1. /\ \A t \in Id : t # u => row'[t] = row[t]
        /\ delivery' = delivery
    BY <1>3, <1>a DEF UploadBegin, UploadFail, UploadCommitFails, Reopened
  <2>2. \/ row'[u].state = row[u].state
        \/ row'[u].state \in {"uploading", "writing"} /\ row[u].state \in {"uploading", "writing"}
    BY <1>3, <1>a DEF UploadBegin, UploadFail, UploadCommitFails, Reopened, Row
  <2>. QED  BY <1>b, <2>1, <2>2 DEF StatusOf
<1>4. ASSUME NEW u \in Id, NEW e \in Device, NEW k \in 1..issued[u][e], Acknowledge(u, e, k)
      PROVE  [Promise!Next]_(Promise!vars)
  BY <1>4, <1>a, AcknowledgeIsPromised DEF Promise!Next
<1>5. ASSUME NEW u \in Id, NEW e \in Device, NEW k \in 1..issued[u][e],
             DownloadEnd(u, e, k) \/ Release(u, e, k)
      PROVE  [Promise!Next]_(Promise!vars)
  <2>1. row' = row
    BY <1>5 DEF DownloadEnd, Release
  <2>2. \A t \in Id, d \in Device : t # u \/ d # e => delivery'[t][d] = delivery[t][d]
    BY <1>5, <1>a DEF DownloadEnd, Release
  <2>3. \/ delivery'[u][e] = delivery[u][e]
        \/ /\ delivery[u][e].state = "leased"
           /\ delivery'[u][e].state \in {"leased", "pending"}
    <3>1. CASE DownloadEnd(u, e, k)
      BY <3>1, <1>a DEF DownloadEnd, Delivery
    <3>2. CASE Release(u, e, k)
      BY <3>2, <1>a DEF Release, NewDelivery
    <3>. QED  BY <1>5, <3>1, <3>2
  <2>. QED  BY <1>b, <2>1, <2>2, <2>3 DEF AwaitedIn
<1>14. ASSUME NEW u \in Id, NEW e \in Device, Claim(u, e)
      PROVE  [Promise!Next]_(Promise!vars)
  <2>1. row' = row
    BY <1>14 DEF Claim
  <2>2. \A t \in Id, d \in Device : t # u \/ d # e => delivery'[t][d] = delivery[t][d]
    BY <1>14, <1>a DEF Claim
  <2>3. delivery[u][e].state \in {"pending", "leased"} /\ delivery'[u][e].state = "leased"
    BY <1>14, <1>a DEF Claim
  <2>. QED  BY <1>b, <2>1, <2>2, <2>3 DEF AwaitedIn
<1>6. CASE Cleanup
  BY <1>6, <1>a, <1>c, RecoveryIsUnseen DEF Cleanup
<1>7. CASE Restart
  BY <1>7, <1>c, RecoveryIsUnseen, RecoveredType DEF Restart
<1>8. ASSUME NEW u \in Id, NEW content \in {"good", "bad"},
             UploadReceive(u, content) \/ Unlink(u) \/ CrashInUpload(u)
      PROVE  row' = row /\ delivery' = delivery
  BY <1>8 DEF UploadReceive, Unlink, CrashInUpload, Halt
<1>9. ASSUME NEW u \in Id, NEW e \in Device, NEW k \in 1..issued[u][e],
             DownloadBegin(u, e, k) \/ DownloadAbort(u, e, k) \/ AcknowledgeAgain(u, e, k)
      PROVE  row' = row /\ delivery' = delivery
  BY <1>9 DEF DownloadBegin, DownloadAbort, AcknowledgeAgain
<1>10. Crash \/ CrashInCleanup \/ CrashInRestart \/ Tick \/ UNCHANGED vars
          => row' = row /\ delivery' = delivery
  BY DEF Crash, CrashInCleanup, CrashInRestart, Tick, Halt, vars
<1>11. row' = row /\ delivery' = delivery => [Promise!Next]_(Promise!vars)
  BY <1>b
<1>. DEFINE Kept == [Promise!Next]_(Promise!vars)
<1>12. CASE \E u \in Id, d \in Device, k \in Key, targets \in (SUBSET Device) \ {{}}, ttl \in Ttl :
               Reserve(u, d, k, targets, ttl)
  BY <1>1, <1>12
<1>13. CASE \E u \in Id, d \in Device : \E k \in 1..issued[u][d] :
               \/ DownloadBegin(u, d, k)
               \/ DownloadEnd(u, d, k)
               \/ DownloadAbort(u, d, k)
               \/ Acknowledge(u, d, k)
               \/ AcknowledgeAgain(u, d, k)
               \/ Release(u, d, k)
  BY <1>4, <1>5, <1>9, <1>11, <1>13
<1>. HIDE DEF Kept
<1>. SUFFICES Kept
  BY DEF Kept
<1>. QED
  BY <1>2, <1>3, <1>14, <1>6, <1>7, <1>8, <1>10, <1>11, <1>12, <1>13 DEF Next, Kept

\* The relay keeps the promise that the devices rely on: leases, retries,
\* cleanups, crashes and restarts show as a step of TransferPromise or not at all.
THEOREM RelayKeepsPromise == Spec => KeepsPromise
<1>1. Init => Promise!Init /\ TokenInv
  <2>. SUFFICES ASSUME Init PROVE Promise!Init /\ TokenInv
    OBVIOUS
  <2>1. \A t \in Id : Status(t) = "free" /\ Awaiting(t) = {}
    BY DEF Init, Status, Awaiting, EmptyRow, NewDelivery
  <2>2. TokenInv
    BY DEF Init, TokenInv, NewDelivery
  <2>. QED  BY <2>1, <2>2 DEF Promise!Init
<1>. QED
  BY <1>1, InitDelivery, StepDelivery, StepToken, StepIsPromised, TypeCorrect, PTL
     DEF Spec, KeepsPromise, Promise!Spec
=============================================================================
