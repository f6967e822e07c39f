---------------------------- MODULE DatabaseMerge ----------------------------
(***************************************************************************)
(* The tool that merges the history of some users of one database into the *)
(* account of one user of another                                          *)
(* (deploy/scripts/merge_private_alpha_databases.py).                       *)
(*                                                                         *)
(* A run works through the tables in a fixed order, for each through the   *)
(* users it was given, and for each through the rows in no particular      *)
(* order.  It is one transaction: db is what the run sees, saved what a    *)
(* failure, a process death or a dry run goes back to.  Every row handled  *)
(* is recorded in the import ledger, which makes the run repeatable.       *)
(* Between runs the application works on the destination; during one it is *)
(* stopped, as the tool asks for.                                          *)
(*                                                                         *)
(* A row is a record whose id is its primary key without the user.  Texts, *)
(* observations, evidence references and the like are opaque; the semantic *)
(* digest of a row is the tuple of the fields it covers.                   *)
(*                                                                         *)
(* A definition named Op_Variant is Op as a plausible slip would have      *)
(* written it; no specification uses it.                                   *)
(***************************************************************************)
EXTENDS Integers, Sequences, FiniteSets

CONSTANTS
    User,    \* partitions of the source
    Target,   \* the destination's user, whose name a partition may share
    None,    \* SQL NULL
    History,   \* what source and destination may hold at first, see MergeInit
    MaxAt    \* bound: the last moment a goal is reaffirmed at the source

Tables == <<"goal", "event", "advice", "feedback", "relevance", "outcome",
            "charter", "trust", "preference", "mute">>

TableNames == {Tables[i] : i \in 1..Len(Tables)}

Referenced == {"goal", "event", "advice"}

\* The fields of the rows of a table.
Fields ==
    [goal |-> {"id", "text", "at"}, event |-> {"id", "observed", "ref", "label"},
     advice |-> {"id", "goal", "event", "text", "topic", "ref", "status"},
     feedback |-> {"id", "advice", "key", "kind"}, relevance |-> {"id", "weight", "at"},
     outcome |-> {"id", "result"}, charter |-> {"id", "level", "redline"}, trust |-> {"id", "judged"},
     preference |-> {"id", "value", "at", "rev"}, mute |-> {"id", "advice", "until"}]

\* The fields that are counts or moments.
Counts ==
    [t \in TableNames |-> Fields[t] \cap {"at", "weight", "level", "judged", "rev", "until"}]

\* A table: rows of its fields, one row for an id, and an id for a referenced one.
TableHolds(t, rows) ==
    /\ \A r \in rows : DOMAIN r = Fields[t] /\ \A f \in Counts[t] : r[f] \in Nat
    /\ t = "relevance" => \A r \in rows : DOMAIN r.id = {"advice", "signal"}
    /\ t \in Referenced => \A r \in rows : r.id # None
    /\ \A r, s \in rows : r.id = s.id => r = s

\* The tables whose rows get another id when the destination uses theirs.
Renaming == {"goal", "event", "advice", "feedback"}

Renamed(t, u, id) == [table |-> t, user |-> u, was |-> id]

Nonterminal == {"provisional", "active", "adopted"}

IsLive(a) == a.status \in Nonterminal

IsOpen(a) == a.status \in {"provisional", "active"}

SameTopic(a, b) == a.topic # None /\ a.topic = b.topic
SameEvidence(a, b) == a.ref # None /\ a.ref = b.ref

\* The unique indexes on advice: one open row for a topic, one live for an evidence.
OneIsLive(rows) ==
    \A a, b \in rows :
        (IsOpen(a) /\ IsOpen(b) /\ SameTopic(a, b)) \/ (IsLive(a) /\ IsLive(b) /\ SameEvidence(a, b)) => a = b

ASSUME UserAssumption == IsFiniteSet(User)

\* Tables hold what their keys, columns and indexes let in, and no id is yet one that
\* a run would make for a row (a digest).
ASSUME HistoryAssumption ==
    \A c \in History :
        /\ DOMAIN c.own = TableNames /\ DOMAIN c.source = User
        /\ \A t \in TableNames : TableHolds(t, c.own[t])
        /\ OneIsLive(c.own.advice)
        /\ \A u \in User :
              /\ DOMAIN c.source[u] = TableNames
              /\ \A t \in TableNames : TableHolds(t, c.source[u][t])
              /\ \A t \in Renaming : \A s \in c.source[u][t] :
                    /\ Renamed(t, u, s.id) # None
                    /\ \A r \in c.own[t] \cup UNION {c.source[v][t] : v \in User} : r.id # Renamed(t, u, s.id)

\* The advice that was judged.
JudgedAdvice(rows) == {a.id : a \in rows.advice} \cap {o.id : o \in rows.outcome}

\* No trust account claims more judgements than there are judged advices.
Backed(rows) ==
    /\ IsFiniteSet(rows.outcome)
    /\ \A t \in rows.trust : t.judged <= Cardinality(JudgedAdvice(rows))

\* The application counts a judgement when it keeps the outcome (record_outcome), and no
\* two judged advices have the same content, which holds the moment, from the clock, that
\* their prediction is due (_semantic_digest).
ASSUME BooksAssumption ==
    \A c \in History :
        /\ Backed(c.own)
        /\ \A u \in User :
              /\ Backed(c.source[u])
              /\ \A a, b \in c.source[u].advice :
                    {a.id, b.id} \subseteq JudgedAdvice(c.source[u])
                       /\ a.text = b.text /\ a.topic = b.topic /\ a.ref = b.ref => a = b

VARIABLES
    source,  \* the source database: rows by user and table
    db,      \* the destination: tables, reminders and import ledger
    saved,   \* the destination as of the last commit
    run      \* the run in progress

mergeVars == <<source, db, saved, run>>

\* open: advice whose reminders are due; closed: resolved attention rows;
\* claimed: advice whose reminder a device has claimed.
NoReminders == [open |-> {}, closed |-> {}, claimed |-> {}]

NoRun == [users |-> <<>>]

MergeInit ==
    \E c \in History :
        /\ source = c.source
        /\ db = [rows |-> c.own, reminders |-> NoReminders, ledger |-> {}]
        /\ saved = db
        /\ run = NoRun

-----------------------------------------------------------------------------
(* One run.                                                                *)

Running == run # NoRun
Current == run.users[run.user]
Table == Tables[run.table]

\* Each user once, in the order given.
UserLists == UNION {{s \in [1..n -> User] : \A i, j \in 1..n : s[i] = s[j] => i = j} :
                    n \in 1..Cardinality(User)}

\* After the last row of a user in a table come those of the next user, then the next
\* table.
Onward(r) ==
    LET rows(p) == source[r.users[p[2]]][Tables[p[1]]]
        ahead == {p \in (1..Len(Tables)) \X (1..Len(r.users)) :
                      /\ p[1] > r.table \/ (p[1] = r.table /\ p[2] > r.user)
                      /\ rows(p) # {}}
        next == CHOOSE p \in ahead : \A q \in ahead : p[1] < q[1] \/ (p[1] = q[1] /\ p[2] <= q[2])
    IN  IF r.todo # {} \/ ahead = {} THEN r
        ELSE [r EXCEPT !.table = next[1], !.user = next[2], !.todo = rows(next)]

BeginRun(users, apply) ==
    /\ ~Running
    /\ run' = Onward([users |-> users, apply |-> apply, table |-> 1, user |-> 1,
                      todo |-> source[users[1]].goal, map |-> {}, overlap |-> {}])
    /\ UNCHANGED <<source, db, saved>>

Finished == Running /\ run.todo = {}

\* The destination never has fewer rows than before.
NothingLost == \A t \in TableNames : Cardinality(db.rows[t]) >= Cardinality(saved.rows[t])

Conclude ==
    /\ Finished
    /\ NothingLost
    /\ db' = IF run.apply THEN db ELSE saved
    /\ saved' = db'
    /\ run' = NoRun
    /\ UNCHANGED source

\* An exception or the death of the process, anywhere.
Abort ==
    /\ Running
    /\ db' = saved
    /\ run' = NoRun
    /\ UNCHANGED <<source, saved>>

-----------------------------------------------------------------------------
(* The import ledger, and where a row of the source went.                  *)

Entries(row) ==
    {e \in db.ledger : e.user = Current /\ e.table = Table /\ e.key = row.id}

\* Imported before, as it is now.
Prior(row) == {e \in Entries(row) : e.row = row}

\* Imported before with other content: the run fails.
SourceDrift ==
    /\ Running
    /\ \E row \in run.todo : Entries(row) # {} /\ Prior(row) = {}
    /\ db' = saved
    /\ run' = NoRun
    /\ UNCHANGED <<source, saved>>

Link(row, to) ==
    IF Table \in Referenced /\ to # None
    THEN {[table |-> Table, user |-> Current, was |-> row.id, is |-> to]} ELSE {}

AlreadyImported ==
    /\ Running
    /\ \E row \in run.todo : \E e \in Prior(row) :
          run' = Onward([run EXCEPT
                     !.todo = @ \ {row},
                     !.map = @ \cup Link(row, e.to),
                     !.overlap = IF Table = "advice" /\ e.action = "deduplicated"
                                 THEN @ \cup {Current} ELSE @])
    /\ UNCHANGED <<source, db, saved>>

Fresh(t) == IF Running /\ Table = t THEN {row \in run.todo : Entries(row) = {}} ELSE {}

Links_OfAnyUser(t, id) == {m \in run.map : m.table = t /\ m.was = id}

Links(t, id) == {m \in run.map : m.table = t /\ m.user = Current /\ m.was = id}

Mapped(t, id) ==
    IF Links(t, id) = {} THEN id ELSE (CHOOSE m \in Links(t, id) : TRUE).is

\* An id the destination uses is replaced by one derived from the source row.
FreeId(row) ==
    IF \E r \in db.rows[Table] : r.id = row.id
    THEN Renamed(Table, Current, row.id) ELSE row.id

Recorded(d, row, to, action) ==
    [d EXCEPT !.ledger = @ \cup {[user |-> Current, table |-> Table, key |-> row.id,
                                  row |-> row, to |-> to, action |-> action]}]

\* The row is dealt with: d is the destination then, to where the row went.
Handled(d, row, to, action) ==
    /\ db' = Recorded(d, row, to, action)
    /\ run' = Onward([run EXCEPT !.todo = @ \ {row}, !.map = @ \cup Link(row, to)])
    /\ UNCHANGED <<source, saved>>

Inserted(row) == [db EXCEPT !.rows[Table] = @ \cup {row}]
Replaced(old, new) == [db EXCEPT !.rows[Table] = (@ \ {old}) \cup {new}]

Later(a, b) == IF a >= b THEN a ELSE b

-----------------------------------------------------------------------------
(* Goals, events and advice: the same content is the same row.             *)

MergeGoal ==
    \E row \in Fresh("goal") :
        LET twins == {g \in db.rows.goal : g.text = row.text}
            id == FreeId(row)
        IN  \/ /\ twins = {}
               /\ Handled(Inserted([row EXCEPT !.id = id]), row, id, "inserted")
            \/ \E g \in twins :
                  IF row.at > g.at
                  THEN Handled(Replaced(g, [g EXCEPT !.at = row.at]), row, g.id, "merged")
                  ELSE Handled(db, row, g.id, "deduplicated")

\* The same evidence of the same observation is the same event, whatever the
\* consent label it was uploaded under.
SameEvent(e, row) ==
    /\ e.ref = row.ref
    /\ e.observed = row.observed
    /\ e.label = row.label \/ e.ref # None

\* Evidence of another observation gets a reference of its own.
FreeReference(row) ==
    IF row.ref # None /\ \E e \in db.rows.event : e.ref = row.ref
    THEN [import |-> row.ref, user |-> Current, of |-> row.id] ELSE row.ref

MergeEvent ==
    \E row \in Fresh("event") :
        LET twins == {e \in db.rows.event : SameEvent(e, row)}
            id == FreeId(row)
            ref == FreeReference(row)
        IN  \/ /\ twins = {}
               /\ Handled(Inserted([row EXCEPT !.id = id, !.ref = ref]), row, id,
                          IF id = row.id /\ ref = row.ref THEN "inserted"
                          ELSE "conflict_preserved")
            \/ \E e \in twins : Handled(db, row, e.id, "deduplicated")

\* The attention row of an imported advice: no reminder is ever due for it.
NoReplay(d, id) ==
    IF id \in d.reminders.open \cup d.reminders.closed THEN d
    ELSE [d EXCEPT !.reminders.closed = @ \cup {id}]

\* What the person did at the source ends the reminders at the destination.
Resolved_SparesClaims(d, id) ==
    IF id \in d.reminders.claimed \/ ~\E a \in d.rows.advice : a.id = id THEN d
    ELSE [d EXCEPT !.reminders.open = @ \ {id}, !.reminders.closed = @ \cup {id}]

Resolved(d, id) ==
    IF ~\E a \in d.rows.advice : a.id = id THEN d
    ELSE [d EXCEPT !.reminders = [open |-> @.open \ {id}, closed |-> @.closed \cup {id},
                                  claimed |-> @.claimed \ {id}]]

Collides_OnTopic(a) ==
    IsLive(a) /\ \E b \in db.rows.advice : IsLive(b) /\ SameTopic(a, b)

\* Live advice on a topic or evidence that live advice is about already.
Collides(a) ==
    IsLive(a) /\ \E b \in db.rows.advice : IsLive(b) /\ (SameTopic(a, b) \/ SameEvidence(a, b))

MergeAdvice ==
    \E row \in Fresh("advice") :
        LET moved == [row EXCEPT !.goal = Mapped("goal", @), !.event = Mapped("event", @)]
            content(a) == <<a.goal, a.event, a.text, a.topic, a.ref>>
            twins == {a \in db.rows.advice : content(a) = content(moved)}
            id == FreeId(row)
            gone == row.status = "provisional" \/ Collides(row)
            new == [moved EXCEPT !.id = id, !.status = IF gone THEN "withdrawn" ELSE @]
        IN  \/ /\ twins = {}
               /\ Handled(NoReplay(Inserted(new), id), row, id,
                          IF id # row.id \/ Collides(row) THEN "conflict_preserved"
                          ELSE "inserted")
            \/ \E a \in twins :
                  /\ db' = Recorded(IF row.status \in {"active", "provisional"} THEN db
                                    ELSE Resolved(db, a.id), row, a.id, "deduplicated")
                  /\ run' = Onward([run EXCEPT !.todo = @ \ {row}, !.map = @ \cup Link(row, a.id),
                                               !.overlap = @ \cup {Current}])
                  /\ UNCHANGED <<source, saved>>

-----------------------------------------------------------------------------
(* What hangs on advice.                                                   *)

HasAdvice(id) == \E a \in db.rows.advice : a.id = id

\* feedback: fid identifies the tap, key the meaning (one per advice).
MergeFeedback ==
    \E row \in Fresh("feedback") :
        LET parent == Mapped("advice", row.advice)
            new == [row EXCEPT !.advice = parent]
            sameKey == {f \in db.rows.feedback :
                            f.advice = parent /\ f.key = row.key /\ row.key # None}
            sameTap == {f \in db.rows.feedback : f.id = row.id}
        IN  IF ~HasAdvice(parent)
            THEN Handled(db, row, None, "skipped_missing_parent")
            ELSE IF sameKey # {}
            THEN \E f \in sameKey :
                    Handled(Resolved(db, parent), row, f.id,
                            IF f.kind = row.kind THEN "deduplicated"
                            ELSE "conflict_preserved")
            ELSE IF \E f \in sameTap : f.advice = parent /\ f.kind = row.kind
            THEN Handled(Resolved(db, parent), row, row.id, "deduplicated")
            ELSE LET id == FreeId(row) IN
                 Handled(Resolved(Inserted([new EXCEPT !.id = id]), parent), row, id,
                         "inserted")

\* relevance_ledger: the stronger weight and the later moment.
MergeRelevance ==
    \E row \in Fresh("relevance") :
        LET parent == Mapped("advice", row.id.advice)
            new == [row EXCEPT !.id.advice = parent]
            old == {r \in db.rows.relevance : r.id = new.id}
        IN  IF ~HasAdvice(parent)
            THEN Handled(db, row, None, "skipped_missing_parent")
            ELSE \/ old = {} /\ Handled(Inserted(new), row, new.id, "inserted")
                 \/ \E r \in old :
                       Handled(Replaced(r, [new EXCEPT !.weight = Later(@, r.weight),
                                                       !.at = Later(@, r.at)]),
                               row, new.id, "merged")

MergedOutcome_Source(old, new) == Replaced(old, new)

\* One outcome per advice: the destination's.
MergedOutcome(old, new) == db

MergeOutcome ==
    \E row \in Fresh("outcome") :
        LET parent == Mapped("advice", row.id)
            new == [row EXCEPT !.id = parent]
            old == {o \in db.rows.outcome : o.id = parent}
        IN  IF ~HasAdvice(parent)
            THEN Handled(db, row, None, "skipped_missing_parent")
            ELSE \/ old = {} /\ Handled(Inserted(new), row, parent, "inserted")
                 \/ \E o \in old :
                       Handled(MergedOutcome(o, new), row, parent,
                               IF o = new THEN "deduplicated" ELSE "conflict_preserved")

-----------------------------------------------------------------------------
(* Standing and settings of the account.                                   *)

Upsert(row, merged) ==
    LET old == {r \in db.rows[Table] : r.id = row.id}
    IN  IF old = {} THEN Inserted(row)
        ELSE LET r == CHOOSE x \in old : TRUE IN Replaced(r, merged[r])

MergeCharter ==
    \E row \in Fresh("charter") :
        LET merged == [r \in db.rows.charter |->
                           [r EXCEPT !.level = Later(@, row.level), !.redline = @ \/ row.redline]]
        IN  Handled(Upsert(row, merged), row, row.id, "merged")

Conservative_OwnNameOnly == Current = Target

\* Aggregates of a history the destination shares already, in part at least.
Conservative == Current = Target \/ Current \in run.overlap

MergeTrust ==
    \E row \in Fresh("trust") :
        LET merged == [r \in db.rows.trust |->
                           [r EXCEPT !.judged = IF Conservative THEN Later(@, row.judged)
                                                ELSE @ + row.judged]]
        IN  Handled(Upsert(row, merged), row, row.id, "merged")

\* advice_preferences: the later one, under the higher revision.
MergePreference ==
    \E row \in Fresh("preference") :
        LET new == [row EXCEPT !.id = Mapped("goal", @)]
            old == {p \in db.rows.preference : p.id = new.id}
        IN  \/ old = {} /\ Handled(Inserted(new), row, new.id, "inserted")
            \/ \E p \in old :
                  IF new.at > p.at
                  THEN Handled(Replaced(p, [new EXCEPT !.rev = Later(@, p.rev)]),
                               row, new.id, "merged")
                  ELSE Handled(db, row, new.id,
                               IF p = new THEN "deduplicated" ELSE "conflict_preserved")

\* topic_suppressions: the one that lasts longer.
MergeMute ==
    \E row \in Fresh("mute") :
        LET new == [row EXCEPT !.advice = Mapped("advice", @)]
            merged == [r \in db.rows.mute |-> IF new.until >= r.until THEN new ELSE r]
        IN  Handled(Upsert(new, merged), row, row.id, "merged")

Merge ==
    \/ MergeGoal \/ MergeEvent \/ MergeAdvice \/ MergeFeedback \/ MergeRelevance
    \/ MergeOutcome \/ MergeCharter \/ MergeTrust \/ MergePreference \/ MergeMute

-----------------------------------------------------------------------------
(* Between runs.                                                           *)

Application(d) ==
    /\ ~Running
    /\ db' = d
    /\ saved' = d
    /\ UNCHANGED <<source, run>>

\* Any use of the application gives active advice without attention row one.
EnsureAttention ==
    LET missing == {a.id : a \in {b \in db.rows.advice : b.status = "active"}}
                       \ (db.reminders.open \cup db.reminders.closed)
    IN  /\ missing # {}
        /\ Application([db EXCEPT !.reminders.open = @ \cup missing])

ClaimReminder ==
    \E id \in db.reminders.open \ db.reminders.claimed :
        Application([db EXCEPT !.reminders.claimed = @ \cup {id}])

\* The person answers at the destination.
Answer ==
    \E a \in {b \in db.rows.advice : b.status = "active"} :
        Application([Resolved(db, a.id) EXCEPT !.rows.advice =
                        (@ \ {a}) \cup {[a EXCEPT !.status = "dismissed"]}])

\* The source is used again: a later copy of it is another snapshot.
SourceMovesOn ==
    /\ ~Running
    /\ \E u \in User : \E g \in source[u].goal :
          /\ g.at < MaxAt
          /\ source' = [source EXCEPT ![u].goal = (@ \ {g}) \cup {[g EXCEPT !.at = @ + 1]}]
    /\ UNCHANGED <<db, saved, run>>

-----------------------------------------------------------------------------
MergeNext ==
    \/ \E users \in UserLists, apply \in BOOLEAN : BeginRun(users, apply)
    \/ SourceDrift
    \/ AlreadyImported
    \/ Merge
    \/ Conclude
    \/ Abort
    \/ EnsureAttention
    \/ ClaimReminder
    \/ Answer
    \/ SourceMovesOn

MergeSpec == MergeInit /\ [][MergeNext]_mergeVars

-----------------------------------------------------------------------------
(* Safety.                                                                 *)

\* Every row has one id, every ledger entry one row; a reminder is due, done with
\* or neither, and claimed only while it is due; and saved is the last commit.
MergeTypeOK ==
    /\ \A t \in TableNames : \A r, s \in db.rows[t] : r.id = s.id => r = s
    /\ \A e, f \in db.ledger :
          <<e.user, e.table, e.key>> = <<f.user, f.table, f.key>> => e = f
    /\ db.reminders.open \cap db.reminders.closed = {}
    /\ ~Running => saved = db

\* The keys hold, and at most one open advice is about a topic, and one live advice
\* about an evidence, in every state of the transaction: the unique indexes of the
\* destination never stop a merge half-way (merge_advice,
\* idx_advice_user_topic_nonterminal, idx_advice_user_evidence_nonterminal).
OneLiveAdvice ==
    /\ MergeTypeOK
    /\ OneIsLive(db.rows.advice)

\* Advice that came with an import never becomes a reminder; and no reminder is due, nor
\* claimed by a device, for what was answered at the source, though the destination had
\* that advice already and reminded of it: neither when the advice came as answered nor
\* when feedback on it came (SKIPPED_TABLE_REASONS, "old notification state must never be
\* replayed"; merge_advice, merge_feedback).
NoReminderReplayed ==
    /\ \A e \in db.ledger :
          /\ e.table = "advice" /\ (e.action = "deduplicated" => ~IsOpen(e.row)) =>
                e.to \notin db.reminders.open
          /\ e.table = "feedback" /\ e.to # None =>
                \A f \in db.rows.feedback : f.id = e.to => f.advice \notin db.reminders.open
    /\ db.reminders.claimed \subseteq db.reminders.open

Went(t, u, was, is) ==
    \A e \in db.ledger : e.table = t /\ e.user = u /\ e.key = was => e.to = is

Arrived(e) == CHOOSE r \in db.rows[e.table] : r.id = e.to

\* Whatever ids collide, every imported row is there with its content, and hangs
\* on the rows that its own goal, event or advice became, though these were
\* merged, renamed, or imported by an earlier run (maps, _restore_map_from_prior).
ReferencesSurvive ==
    \A e \in db.ledger :
        /\ e.to # None => \E r \in db.rows[e.table] : r.id = e.to
        /\ e.table = "goal" => Arrived(e).text = e.row.text
        /\ e.table = "event" => Arrived(e).observed = e.row.observed
        /\ e.table = "advice" =>
              /\ Arrived(e).text = e.row.text
              /\ Went("goal", e.user, e.row.goal, Arrived(e).goal)
              /\ Went("event", e.user, e.row.event, Arrived(e).event)
        /\ e.table = "feedback" /\ e.to # None =>
              Went("advice", e.user, e.row.advice, Arrived(e).advice)
        /\ e.table = "outcome" /\ e.to # None => Went("advice", e.user, e.key, e.to)
        /\ e.table = "relevance" /\ e.to # None =>
              Went("advice", e.user, e.key.advice, e.to.advice)

\* A committed trust account claims no more judgements than there are judged
\* advices: copies of a history that overlap are not added up, and no run adds
\* the same rows twice (merge_trust, component_max and sum_once).
JudgementsAreBacked ==
    ~Running => \A t \in db.rows.trust : t.judged <= Cardinality(db.rows.outcome)

Rows(users) == UNION {{<<users[i], t, r>> : r \in source[users[i]][t]} :
                      i \in 1..Len(users), t \in TableNames}

Imported(d) == {<<e.user, e.table, e.row>> : e \in d.ledger}

\* What new holds of old.
NothingTaken(old, new) ==
    /\ \A g \in old.goal :
          \E h \in new.goal : h.id = g.id /\ h.text = g.text /\ h.at >= g.at
    /\ \A t \in {"event", "advice", "feedback", "outcome"} : old[t] \subseteq new[t]
    /\ \A c \in old.charter : \E d \in new.charter : d.id = c.id /\ d.level >= c.level
    /\ \A c \in old.trust : \E d \in new.trust : d.id = c.id /\ d.judged >= c.judged

\* A run that got to its end
\*  - has changed nothing if an earlier run imported all its rows ("Repeating the
\*    same immutable snapshot and import label is idempotent");
\*  - has imported every row of its users as it is now: a source that changed
\*    under a used label aborts ("source drift detected");
\*  - has taken from the destination or rewritten nothing that it held: goals
\*    keep their text, advice its content and status, outcomes and feedback stay,
\*    and permissions and counts only grow (destination_won, "row loss detected").
RunsKeepTheirWord ==
    Finished =>
        /\ Rows(run.users) \subseteq Imported(saved) => db = saved
        /\ Rows(run.users) \subseteq Imported(db)
        /\ NothingTaken(saved.rows, db.rows)

=============================================================================
