------------------------- MODULE ReminderMergeProofs -------------------------
(* What an account keeps: its reminders, and a history merged into it.       *)
(*                                                                           *)
(* Reminders for every number of advices and devices, every interval, lease  *)
(* and horizon: a reminder is seen at most twice, the advice counts as       *)
(* ignored only if it was, and a device forgets a receipt only when the      *)
(* server waits for it no longer.                                            *)
(*                                                                           *)
(* The merge tool (DatabaseMerge) for every set of users and every source    *)
(* and destination whose keys and indexes hold: no merge breaks an index,    *)
(* replays a reminder, loses a reference or takes what the destination held, *)
(* nor does an account come to claim judgements that nothing backs, whatever *)
(* the order of the rows, and wherever a run is cut off.  The two modules    *)
(* share nothing, and so do the two parts.                                   *)
EXTENDS DatabaseMerge, ReminderDelivery, FiniteSetTheorems, SequenceTheorems, WellFoundedInduction, TLAPS

-----------------------------------------------------------------------------
(* REMINDERS                                                                 *)
(* What is true of the rows of an advice.                                  *)

Attempts(c) == 1 .. Len(c.tries)

\* The permit that is out is the last attempt, and the only one that is still claimed.
Permits(c) ==
    /\ Len(c.tries) = c.count
    /\ c.state = "claimed" <=> c.token # 0
    /\ c.token \in {0, c.count}
    /\ \A k \in Attempts(c) : c.tries[k].state = "claimed" <=> c.token = k

\* Later attempts expire later.
Expiries(c) ==
    /\ \A k \in Attempts(c) : c.tries[k].expires <= clock + Lease
    /\ \A j, k \in Attempts(c) : j <= k => c.tries[j].expires <= c.tries[k].expires

\* The time to react runs from the second claim, and never runs for what was deferred.
Closing(c) ==
    c.closeAt # Never =>
        /\ c.count = 2 /\ ~c.later
        /\ c.closeAt >= c.deadline \/ c.closeAt + Lease >= c.tries[2].expires + Interval

\* Reminders that still run were not answered, or deferred.
Answered(c) == c.fb # {} /\ c.state \notin {"none", "resolved"} => c.later

Sound(c) == c \in Case /\ Permits(c) /\ Expiries(c) /\ Closing(c)
Fits(c) == Sound(c) /\ Answered(c) /\ (c.status = "absent" => c = Unpublished)

\* What a transaction may do to the attempts when it adds none and proves those of a set.
Evolves(c, n, proved) ==
    /\ n.count = c.count /\ Len(n.tries) = Len(c.tries)
    /\ \A k \in Attempts(c) :
          /\ n.tries[k].device = c.tries[k].device
          /\ n.tries[k].expires = c.tries[k].expires
          /\ n.tries[k].state = "delivered" => c.tries[k].state = "delivered" \/ k \in proved
          /\ n.tries[k].state = "claimed" => c.tries[k].state = "claimed"

-----------------------------------------------------------------------------
(* The server's transactions keep rows in order.                           *)

\* The attempts of an advice.
LEMMA TriesAreTries ==
    ASSUME NEW c \in Case
    PROVE  /\ Len(c.tries) \in Nat /\ DOMAIN c.tries = Attempts(c)
           /\ \A k \in Attempts(c) : c.tries[k] \in Attempt
<1>1. c.tries \in Seq(Attempt)
  BY DEF Case
<1>2. /\ Len(c.tries) \in Nat /\ DOMAIN c.tries = 1 .. Len(c.tries)
      /\ c.tries \in [1 .. Len(c.tries) -> Attempt]
  BY <1>1, LenProperties
<1> QED BY <1>2 DEF Attempts

AttemptStates == {"claimed", "delivered", "superseded", "cancelled", "failed"}

\* Only the state of one attempt was set.
TriesSet(c, k, s, tries) ==
    /\ Len(tries) = Len(c.tries)
    /\ tries[k].state = s
    /\ \A j \in Attempts(c) : /\ tries[j].device = c.tries[j].device
                              /\ tries[j].expires = c.tries[j].expires
                              /\ j # k => tries[j].state = c.tries[j].state

SetTo(c, k, s, n) ==
    /\ n \in Case
    /\ n.status = c.status /\ n.deadline = c.deadline /\ n.snooze = c.snooze
    /\ n.fb = c.fb /\ n.state = c.state /\ n.count = c.count
    /\ n.nextAt = c.nextAt /\ n.closeAt = c.closeAt /\ n.later = c.later
    /\ n.token = c.token
    /\ TriesSet(c, k, s, n.tries)

\* That is what SetAttempt does.
LEMMA SetAttemptSets ==
    ASSUME NEW c \in Case, NEW k \in Attempts(c), NEW s \in AttemptStates
    PROVE  SetTo(c, k, s, SetAttempt(c, k, s))
<1> SUFFICES ASSUME NEW n, n = SetAttempt(c, k, s) PROVE SetTo(c, k, s, n)
  OBVIOUS
<1> DEFINE t == [c.tries[k] EXCEPT !.state = s]
           m == [c.tries EXCEPT ![k] = t]
<1>1. c.tries \in Seq(Attempt) /\ c.tries[k] \in Attempt /\ k \in 1 .. Len(c.tries)
  BY TriesAreTries DEF Case, Attempts
<1>2. t \in Attempt /\ t.state = s /\ t.device = c.tries[k].device
      /\ t.expires = c.tries[k].expires
  BY <1>1 DEF Attempt, AttemptStates
<1> HIDE DEF t
<1>3. m \in Seq(Attempt) /\ Len(m) = Len(c.tries) /\ m[k] = t
      /\ \A j \in 1 .. Len(c.tries) : j # k => m[j] = c.tries[j]
  BY <1>1, <1>2, ExceptSeq
<1>4. n = [c EXCEPT !.tries = m]
  BY <1>1 DEF SetAttempt, t, Case
<1> HIDE DEF m
<1>5. n \in Case
  BY <1>3, <1>4 DEF Case
<1>6. n.tries = m
  BY <1>4 DEF Case
<1>7. /\ n.status = c.status /\ n.deadline = c.deadline /\ n.snooze = c.snooze
      /\ n.fb = c.fb /\ n.state = c.state /\ n.count = c.count
      /\ n.nextAt = c.nextAt /\ n.closeAt = c.closeAt /\ n.later = c.later
      /\ n.token = c.token
  BY <1>4 DEF Case
<1>8. Len(n.tries) = Len(c.tries) /\ Attempts(n) = Attempts(c) /\ n.tries[k].state = s
  BY <1>2, <1>3, <1>6 DEF Attempts
<1>9. ASSUME NEW j \in Attempts(c)
      PROVE  /\ n.tries[j].device = c.tries[j].device
             /\ n.tries[j].expires = c.tries[j].expires
             /\ j # k => n.tries[j].state = c.tries[j].state
  BY <1>2, <1>3, <1>6, <1>9 DEF Attempts
<1> QED BY <1>5, <1>7, <1>8, <1>9 DEF SetTo, TriesSet

\* The attempt of the permit that is out.
LEMMA PermitIsAnAttempt ==
    ASSUME NEW c, Sound(c), c.token # 0
    PROVE  /\ c.token \in Attempts(c) /\ c.token = c.count /\ c.state = "claimed"
           /\ c.tries[c.token].state = "claimed"
           /\ \A k \in Attempts(c) : k # c.token => c.tries[k].state # "claimed"
<1>1. Len(c.tries) \in Nat /\ Len(c.tries) = c.count /\ c.token = c.count /\ c.token # 0
  BY TriesAreTries DEF Sound, Permits
<1>2. c.token \in Attempts(c)
  BY <1>1 DEF Attempts
<1> QED BY <1>1, <1>2 DEF Sound, Permits

\* Rows with the same attempts and clocks are as sound, if their permit fits.
LEMMA SameAttempts ==
    ASSUME NEW c, Sound(c), NEW n \in Case, n.tries = c.tries, n.count = c.count,
           n.deadline = c.deadline, n.token = c.token, n.state = "claimed" <=> c.state = "claimed",
           n.closeAt # Never => n.closeAt = c.closeAt /\ n.later = c.later
    PROVE  Sound(n) /\ Evolves(c, n, {})
<1>1. Attempts(n) = Attempts(c)
  BY DEF Attempts
<1>2. Permits(n)
  BY <1>1 DEF Sound, Permits
<1>3. Expiries(n)
  BY <1>1 DEF Sound, Expiries
<1>4. Closing(n)
  BY DEF Sound, Closing
<1>5. Evolves(c, n, {})
  BY DEF Evolves
<1> QED BY <1>2, <1>3, <1>4, <1>5 DEF Sound

\* Nothing is claimed.
NoneClaimed(n) == \A k \in Attempts(n) : n.tries[k].state # "claimed"

\* When the only claimed attempt is set to something else, none is claimed, and nothing but
\* that state has changed.
LEMMA SettingTheOnlyClaim ==
    ASSUME NEW c, NEW t \in Attempts(c), NEW n, NEW s, s # "claimed", TriesSet(c, t, s, n.tries),
           \A k \in Attempts(c) : k # t => c.tries[k].state # "claimed"
    PROVE  /\ Attempts(n) = Attempts(c) /\ NoneClaimed(n)
           /\ Expiries(c) => Expiries(n)
           /\ n.count = c.count => Evolves(c, n, IF s = "delivered" THEN {t} ELSE {})
           /\ 2 \in Attempts(c) => n.tries[2].expires = c.tries[2].expires
<1>1. /\ Len(n.tries) = Len(c.tries)
      /\ n.tries[t].state = s
      /\ \A j \in Attempts(c) : /\ n.tries[j].device = c.tries[j].device
                                /\ n.tries[j].expires = c.tries[j].expires
                                /\ j # t => n.tries[j].state = c.tries[j].state
  BY DEF TriesSet
<1>2. Attempts(n) = Attempts(c)
  BY <1>1 DEF Attempts
<1>3. NoneClaimed(n)
  BY <1>1, <1>2 DEF NoneClaimed
<1>4. Expiries(c) => Expiries(n)
  BY <1>1, <1>2 DEF Expiries
<1>5. n.count = c.count => Evolves(c, n, IF s = "delivered" THEN {t} ELSE {})
  BY <1>1, <1>3 DEF Evolves, NoneClaimed
<1> QED BY <1>1, <1>2, <1>3, <1>4, <1>5

\* The permit is over: what follows is sound.
LEMMA PermitEnds ==
    ASSUME NEW c, Sound(c), c.token # 0, NEW s \in AttemptStates, s # "claimed",
           NEW n \in Case, TriesSet(c, c.token, s, n.tries), n.count = c.count,
           n.deadline = c.deadline, n.token = 0, n.state # "claimed",
           n.closeAt # Never => n.closeAt = c.closeAt /\ n.later = c.later
    PROVE  Sound(n) /\ Evolves(c, n, IF s = "delivered" THEN {c.token} ELSE {})
<1>1. /\ c.token \in Attempts(c) /\ c.token = c.count
      /\ \A k \in Attempts(c) : k # c.token => c.tries[k].state # "claimed"
  BY PermitIsAnAttempt
<1>2. /\ Attempts(n) = Attempts(c) /\ NoneClaimed(n)
      /\ Expiries(c) => Expiries(n)
      /\ n.count = c.count => Evolves(c, n, IF s = "delivered" THEN {c.token} ELSE {})
      /\ 2 \in Attempts(c) => n.tries[2].expires = c.tries[2].expires
  <2> DEFINE t == c.token
  <2>1. t \in Attempts(c) /\ TriesSet(c, t, s, n.tries)
        /\ \A k \in Attempts(c) : k # t => c.tries[k].state # "claimed"
    BY <1>1
  <2> HIDE DEF t
  <2>2. /\ Attempts(n) = Attempts(c) /\ NoneClaimed(n)
        /\ Expiries(c) => Expiries(n)
        /\ n.count = c.count => Evolves(c, n, IF s = "delivered" THEN {t} ELSE {})
        /\ 2 \in Attempts(c) => n.tries[2].expires = c.tries[2].expires
    BY <2>1, SettingTheOnlyClaim
  <2> QED BY <2>2 DEF t
<1>3. Permits(n)
  <2>1. Len(n.tries) = c.count
    BY DEF TriesSet, Sound, Permits
  <2>2. \A k \in Attempts(n) : k # 0
    BY <1>2, TriesAreTries DEF Attempts
  <2> QED BY <1>2, <2>1, <2>2 DEF Permits, NoneClaimed
<1>4. Closing(n)
  <2> SUFFICES ASSUME n.closeAt # Never
               PROVE  /\ n.count = 2 /\ ~n.later
                      /\ \/ n.closeAt >= n.deadline
                         \/ n.closeAt + Lease >= n.tries[2].expires + Interval
    BY DEF Closing
  <2>1. /\ c.count = 2 /\ ~c.later
        /\ c.closeAt >= c.deadline \/ c.closeAt + Lease >= c.tries[2].expires + Interval
    BY DEF Sound, Closing
  <2>2. 2 \in Attempts(c)
    BY <2>1 DEF Sound, Permits, Attempts
  <2> QED BY <1>2, <2>1, <2>2
<1> QED BY <1>2, <1>3, <1>4 DEF Sound

\* Where nothing is proved or added twice, nothing is.
LEMMA EvolvesOn ==
    ASSUME NEW c, NEW n, NEW m, NEW p, NEW q, Evolves(c, n, p), Evolves(n, m, q)
    PROVE  Evolves(c, m, p \cup q)
BY DEF Evolves, Attempts

\* What becomes of rows whose reminders end or go on, whatever is answered.
Goes(c, n) ==
    /\ Sound(n) /\ Evolves(c, n, {})
    /\ n.status = c.status /\ n.fb = c.fb /\ n.deadline = c.deadline

\* Rows whose reminders are over are rows.
LEMMA OverIsARow ==
    ASSUME NEW c \in Case, Never \in Nat
    PROVE  [c EXCEPT !.state = "resolved", !.token = 0, !.nextAt = 0, !.closeAt = Never] \in Case
BY DEF Case

\* The end of a reminder cycle.
LEMMA ResolveResolves ==
    ASSUME ReminderAssumption, NEW c, Sound(c)
    PROVE  Goes(c, Resolve(c)) /\ Resolve(c).state \in {"none", "resolved"}
<1> SUFFICES ASSUME NEW n, n = Resolve(c)
             PROVE  Goes(c, n) /\ n.state \in {"none", "resolved"}
  OBVIOUS
<1>1. c \in Case /\ Never \in Nat
  BY DEF Sound, Never, ReminderAssumption
<1>2. CASE c.token # 0
  <2>1. c.token \in Attempts(c) /\ c.state = "claimed" /\ c.tries[c.token].state = "claimed"
    BY <1>2, PermitIsAnAttempt
  <2>2. PICK m : m = SetAttempt(c, c.token, "cancelled")
    OBVIOUS
  <2>3. SetTo(c, c.token, "cancelled", m)
    BY <1>1, <2>1, <2>2, SetAttemptSets DEF AttemptStates
  <2>4. /\ m \in Case /\ m.status = c.status /\ m.fb = c.fb /\ m.deadline = c.deadline
        /\ m.count = c.count /\ TriesSet(c, c.token, "cancelled", m.tries)
    BY <2>3 DEF SetTo
  <2>5. n = [m EXCEPT !.state = "resolved", !.token = 0, !.nextAt = 0, !.closeAt = Never]
    BY <1>2, <2>1, <2>2 DEF Resolve
  <2>6. n \in Case
    BY <1>1, <2>4, <2>5, OverIsARow
  <2>7. /\ n.tries = m.tries /\ n.count = c.count /\ n.deadline = c.deadline /\ n.token = 0
        /\ n.state = "resolved" /\ n.closeAt = Never /\ n.status = c.status /\ n.fb = c.fb
    BY <2>4, <2>5 DEF Case
  <2>8. TriesSet(c, c.token, "cancelled", n.tries) /\ n.state # "claimed"
    BY <2>4, <2>7
  <2>9. "cancelled" \in AttemptStates /\ "cancelled" # "claimed" /\ "cancelled" # "delivered"
    BY DEF AttemptStates
  <2>10. Sound(n) /\ Evolves(c, n, {})
    BY <1>2, <2>6, <2>7, <2>8, <2>9, PermitEnds
  <2> QED BY <2>7, <2>10 DEF Goes
<1>3. CASE c.token = 0
  <2>1. c.state # "claimed"
    BY <1>3 DEF Sound, Permits
  <2>2. CASE c.state \in {"none", "resolved"}
    <3>1. n = c
      BY <1>3, <2>2 DEF Resolve
    <3>2. Evolves(c, c, {})
      BY DEF Evolves
    <3> QED BY <2>2, <3>1, <3>2 DEF Goes
  <2>3. CASE c.state \notin {"none", "resolved"}
    <3>1. n = [c EXCEPT !.state = "resolved", !.token = 0, !.nextAt = 0, !.closeAt = Never]
      BY <1>3, <2>3 DEF Resolve
    <3>2. n \in Case
      BY <1>1, <3>1, OverIsARow
    <3>3. /\ n.tries = c.tries /\ n.count = c.count /\ n.deadline = c.deadline
          /\ n.token = c.token /\ n.state = "resolved" /\ n.closeAt = Never
          /\ n.status = c.status /\ n.fb = c.fb
      BY <1>1, <1>3, <3>1 DEF Case
    <3>4. Sound(n) /\ Evolves(c, n, {})
      BY <2>1, <3>2, <3>3, SameAttempts
    <3> QED BY <3>3, <3>4 DEF Goes
  <2> QED BY <2>2, <2>3
<1> QED BY <1>2, <1>3

\* What becomes of rows whose permit is given back.
Released(c, s, n) ==
    /\ Sound(n)
    /\ s = "delivered" => Evolves(c, n, {c.token})
    /\ s # "delivered" => Evolves(c, n, {})
    /\ n.status = c.status /\ n.fb = c.fb /\ n.deadline = c.deadline
    /\ n.state = "resolved" \/ (n.state = "waiting" /\ n.later = c.later)
    /\ n.tries[c.token].state = s

\* A permit is given back unproved or proved, and the reminders go on if there is one left.
LEMMA ReleaseReleases ==
    ASSUME ReminderAssumption, NEW c, Sound(c), c.token # 0,
           NEW s \in AttemptStates, s # "claimed", NEW n, n = ReleasePermit(c, c.token, s)
    PROVE  Released(c, s, n)
<1>1. c \in Case /\ c.token \in Attempts(c)
  BY PermitIsAnAttempt DEF Sound
<1>2. PICK m : m = SetAttempt(c, c.token, s)
  OBVIOUS
<1>3. SetTo(c, c.token, s, m)
  BY <1>1, <1>2, SetAttemptSets
<1>4. /\ m \in Case /\ m.status = c.status /\ m.fb = c.fb /\ m.deadline = c.deadline
      /\ m.count = c.count /\ m.closeAt = c.closeAt /\ m.later = c.later
      /\ TriesSet(c, c.token, s, m.tries)
  BY <1>3 DEF SetTo
<1>5. PICK o : o = [m EXCEPT !.state = "waiting", !.token = 0]
  OBVIOUS
<1>6. o \in Case
  BY <1>4, <1>5 DEF Case
<1>7. /\ o.tries = m.tries /\ o.count = c.count /\ o.deadline = c.deadline /\ o.token = 0
      /\ o.state = "waiting" /\ o.closeAt = c.closeAt /\ o.status = c.status /\ o.fb = c.fb
      /\ o.later = c.later
  BY <1>4, <1>5 DEF Case
<1>8. TriesSet(c, c.token, s, o.tries) /\ o.state # "claimed"
  BY <1>4, <1>7
<1>9. Sound(o) /\ Evolves(c, o, IF s = "delivered" THEN {c.token} ELSE {})
  BY <1>6, <1>7, <1>8, PermitEnds
<1>10. o.tries[c.token].state = s
  BY <1>8 DEF TriesSet
<1> SUFFICES /\ Sound(n)
             /\ Evolves(c, n, IF s = "delivered" THEN {c.token} ELSE {})
             /\ n.status = c.status /\ n.fb = c.fb /\ n.deadline = c.deadline
             /\ n.state = "resolved" \/ (n.state = "waiting" /\ n.later = c.later)
             /\ n.tries[c.token].state = s
  <2>1. CASE s = "delivered"
    BY <2>1 DEF Released
  <2>2. CASE s # "delivered"
    BY <2>2 DEF Released
  <2> QED BY <2>1, <2>2
<1>11. n = IF c.count >= 2 /\ c.later THEN Resolve(o) ELSE o
  BY <1>2, <1>5 DEF ReleasePermit
<1>12. CASE n = o
  BY <1>7, <1>9, <1>10, <1>12
<1>13. CASE n = Resolve(o)
  <2>1. o.state \notin {"none", "resolved"} /\ o.token = 0
    BY <1>7
  <2>2. n = [o EXCEPT !.state = "resolved", !.token = 0, !.nextAt = 0, !.closeAt = Never]
    BY <1>13, <2>1 DEF Resolve
  <2>3. n.tries = o.tries /\ n.state = "resolved"
    BY <1>6, <2>2 DEF Case
  <2>4. Goes(o, n)
    BY <1>9, <1>13, ResolveResolves
  <2>5. Sound(n) /\ n.status = o.status /\ n.fb = o.fb /\ n.deadline = o.deadline
        /\ Evolves(o, n, {})
    BY <2>4 DEF Goes
  <2>6. Evolves(c, n, IF s = "delivered" THEN {c.token} ELSE {})
    <3> DEFINE P == IF s = "delivered" THEN {c.token} ELSE {}
    <3>1. Evolves(c, o, P)
      BY <1>9
    <3> HIDE DEF P
    <3>2. Evolves(c, n, P \cup {})
      BY <2>5, <3>1, EvolvesOn
    <3>3. P \cup {} = P
      OBVIOUS
    <3> QED BY <3>2, <3>3 DEF P
  <2> QED BY <1>7, <1>10, <2>3, <2>5, <2>6
<1> QED BY <1>11, <1>12, <1>13

-----------------------------------------------------------------------------
(* The sweep.                                                              *)

\* A part of a sweep: nothing is answered, added or proved.
Follows(c, n) ==
    /\ Fits(n) /\ Evolves(c, n, {})
    /\ n.fb = c.fb /\ n.deadline = c.deadline
    /\ n.status = "active" => c.status = "active"

\* Nothing is a part of a sweep.
LEMMA NothingFollows ==
    ASSUME NEW c, Fits(c)
    PROVE  Follows(c, c)
BY DEF Follows, Evolves

\* One part follows another.
LEMMA FollowsOn ==
    ASSUME NEW c, NEW n, NEW m, Follows(c, n), Follows(n, m)
    PROVE  Follows(c, m)
<1>1. Evolves(c, n, {}) /\ Evolves(n, m, {})
  BY DEF Follows
<1>2. Evolves(c, m, {} \cup {})
  BY <1>1, EvolvesOn
<1>3. {} \cup {} = {}
  OBVIOUS
<1>4. Evolves(c, m, {})
  BY <1>2, <1>3
<1> QED BY <1>4 DEF Follows

\* What was never published is in order.
LEMMA UnpublishedFits ==
    ASSUME ReminderAssumption
    PROVE  Fits(Unpublished)
<1> DEFINE c == Unpublished
<1>1. c.tries = <<>> /\ c.count = 0 /\ c.token = 0 /\ c.state = "none" /\ c.closeAt = Never
      /\ c.fb = {}
  BY DEF Unpublished
<1>2. Attempts(c) = {}
  BY <1>1 DEF Attempts
<1>3. c \in Case
  <2>1. Never \in Nat /\ <<>> \in Seq(Attempt)
    BY EmptySeq DEF Never, ReminderAssumption
  <2> QED BY <2>1 DEF Case, Unpublished
<1> HIDE DEF c
<1>4. Permits(c) /\ Expiries(c) /\ Closing(c) /\ Answered(c)
  BY <1>1, <1>2 DEF Permits, Expiries, Closing, Answered
<1>5. Fits(c)
  BY <1>3, <1>4 DEF Fits, Sound, c
<1> QED BY <1>5 DEF c

\* Advice without reminders is never reminded of.
LEMMA EnsureFollows ==
    ASSUME ReminderAssumption, NEW c, Fits(c)
    PROVE  Follows(c, Ensure(c))
<1> SUFFICES ASSUME NEW n, n = Ensure(c) PROVE Follows(c, n)
  OBVIOUS
<1>1. CASE n = c
  BY <1>1, NothingFollows
<1>2. CASE c.status = "active" /\ c.state = "none" /\ n = [c EXCEPT !.state = "resolved"]
  <2>1. c \in Case /\ Sound(c)
    BY DEF Fits, Sound
  <2>2. n \in Case
    BY <1>2, <2>1 DEF Case
  <2>3. /\ n.tries = c.tries /\ n.count = c.count /\ n.deadline = c.deadline
        /\ n.token = c.token /\ n.state = "resolved" /\ n.closeAt = c.closeAt
        /\ n.later = c.later /\ n.fb = c.fb /\ n.status = c.status
    BY <1>2, <2>1 DEF Case
  <2>4. Sound(n) /\ Evolves(c, n, {})
    BY <1>2, <2>1, <2>2, <2>3, SameAttempts
  <2> QED BY <1>2, <2>3, <2>4 DEF Follows, Fits, Answered
<1> QED BY <1>1, <1>2 DEF Ensure

\* Advice whose deadline is over is withdrawn; that of other advice caps the waiting.
LEMMA ExpireDeadlineFollows ==
    ASSUME ReminderAssumption, NEW c, Fits(c)
    PROVE  /\ Follows(c, ExpireDeadline(c))
           /\ ExpireDeadline(c).status = "active" => ~(c.deadline <= clock)
<1> SUFFICES ASSUME NEW n, n = ExpireDeadline(c)
             PROVE  Follows(c, n) /\ (n.status = "active" => ~(c.deadline <= clock))
  OBVIOUS
<1>1. c \in Case /\ Sound(c)
  BY DEF Fits, Sound
<1>2. CASE c.status # "active"
  BY <1>2, NothingFollows DEF ExpireDeadline
<1>3. CASE c.status = "active" /\ c.deadline <= clock
  <2>1. PICK m : m = [c EXCEPT !.status = "withdrawn"]
    OBVIOUS
  <2>2. m \in Case
    BY <1>1, <2>1 DEF Case
  <2>3. /\ m.tries = c.tries /\ m.count = c.count /\ m.deadline = c.deadline
        /\ m.token = c.token /\ m.state = c.state /\ m.closeAt = c.closeAt
        /\ m.later = c.later /\ m.fb = c.fb /\ m.status = "withdrawn"
    BY <1>1, <2>1 DEF Case
  <2>4. Sound(m) /\ Evolves(c, m, {})
    BY <1>1, <2>2, <2>3, SameAttempts
  <2>5. n = Resolve(m)
    BY <1>3, <2>1 DEF ExpireDeadline
  <2>6. Goes(m, n) /\ n.state \in {"none", "resolved"}
    BY <2>4, <2>5, ResolveResolves
  <2>7. Evolves(c, n, {})
    <3>1. Evolves(c, n, {} \cup {})
      BY <2>4, <2>6, EvolvesOn DEF Goes
    <3>2. {} \cup {} = {}
      OBVIOUS
    <3> QED BY <3>1, <3>2
  <2>8. Fits(n)
    BY <2>3, <2>6 DEF Goes, Fits, Answered
  <2> QED BY <2>3, <2>6, <2>7, <2>8 DEF Follows, Goes
<1>4. CASE c.status = "active" /\ ~(c.deadline <= clock)
  <2> DEFINE close == IF c.closeAt = Never THEN c.closeAt ELSE Earlier(c.closeAt, c.deadline)
  <2>1. n = [c EXCEPT !.nextAt = Earlier(c.nextAt, c.deadline), !.closeAt = close]
    BY <1>1, <1>4 DEF ExpireDeadline, Case
  <2>2. c.nextAt \in Nat /\ c.deadline \in Nat /\ c.closeAt \in Nat
    BY <1>1 DEF Case
  <2>3. Earlier(c.nextAt, c.deadline) \in Nat /\ close \in Nat
    BY <2>2 DEF Earlier
  <2>4. c.closeAt # Never => close = c.closeAt \/ close = c.deadline
    BY DEF Earlier
  <2>5. c.closeAt = Never => close = Never
    OBVIOUS
  <2> HIDE DEF close
  <2>6. n \in Case
    BY <1>1, <2>1, <2>3 DEF Case
  <2>7. /\ n.tries = c.tries /\ n.count = c.count /\ n.deadline = c.deadline
        /\ n.token = c.token /\ n.state = c.state /\ n.closeAt = close
        /\ n.later = c.later /\ n.fb = c.fb /\ n.status = c.status
    BY <1>1, <2>1 DEF Case
  <2>8. Attempts(n) = Attempts(c)
    BY <2>7 DEF Attempts
  <2>9. Permits(n) /\ Expiries(n)
    BY <1>1, <2>7, <2>8 DEF Sound, Permits, Expiries
  <2>10. Closing(n)
    <3>1. CASE close = Never
      BY <2>7, <3>1 DEF Closing
    <3>2. CASE close # Never
      <4>1. c.closeAt # Never
        BY <2>5, <3>2
      <4>2. c.count = 2 /\ ~c.later
            /\ (c.closeAt >= c.deadline \/ c.closeAt + Lease >= c.tries[2].expires + Interval)
        BY <1>1, <4>1 DEF Sound, Closing
      <4>3. close = c.deadline => close >= c.deadline
        BY <2>2
      <4> QED BY <2>4, <2>7, <4>1, <4>2, <4>3 DEF Closing
    <3> QED BY <3>1, <3>2
  <2>11. Evolves(c, n, {})
    BY <2>7 DEF Evolves
  <2> QED BY <1>4, <2>6, <2>7, <2>9, <2>10, <2>11 DEF Follows, Fits, Sound, Answered
<1> QED BY <1>2, <1>3, <1>4

\* A permit that was not reported in time stays spent.
LEMMA LapseClaimFollows ==
    ASSUME ReminderAssumption, NEW c, Fits(c)
    PROVE  Follows(c, LapseClaim(c))
<1> SUFFICES ASSUME NEW n, n = LapseClaim(c) PROVE Follows(c, n)
  OBVIOUS
<1>1. CASE n = c
  BY <1>1, NothingFollows
<1>2. CASE c.state = "claimed" /\ n = ReleasePermit(c, c.token, "superseded")
  <2>1. c \in Case /\ Sound(c) /\ c.token # 0
    BY <1>2 DEF Fits, Sound, Permits
  <2>2. "superseded" \in AttemptStates /\ "superseded" # "claimed" /\ "superseded" # "delivered"
    BY DEF AttemptStates
  <2>a. Released(c, "superseded", n)
    BY <1>2, <2>1, <2>2, ReleaseReleases
  <2>3. /\ Sound(n) /\ Evolves(c, n, {})
        /\ n.status = c.status /\ n.fb = c.fb /\ n.deadline = c.deadline
        /\ n.state = "resolved" \/ (n.state = "waiting" /\ n.later = c.later)
    BY <2>2, <2>a DEF Released
  <2>4. c.status # "absent"
    BY <1>2 DEF Fits, Unpublished
  <2>5. Fits(n)
    BY <1>2, <2>3, <2>4 DEF Fits, Answered
  <2> QED BY <2>3, <2>5 DEF Follows
<1> QED BY <1>1, <1>2 DEF LapseClaim

\* Who may be said to have ignored an advice: who saw both reminders, gave no answer and
\* has had the time to.
Ignorable(c) ==
    /\ c.fb = {} /\ c.status = "active" /\ c.count = 2
    /\ c.tries[1].state = "delivered" /\ c.tries[2].state = "delivered"
    /\ c.tries[2].expires + Interval <= clock + Lease

\* There are two permits.
LEMMA TwoAreTwo == IsFiniteSet(1..2) /\ Cardinality(1..2) = 2
<1>1. 1 \in Int /\ 2 \in Int
  OBVIOUS
<1>2. Cardinality(1..2) = IF 1 > 2 THEN 0 ELSE 2 - 1 + 1
  BY <1>1, FS_Interval
<1>3. IsFiniteSet(1..2)
  BY <1>1, FS_Interval
<1> QED BY <1>2, <1>3

\* What is ignored is closed with that answer, and only what is ignored.
LEMMA CloseIgnoredCloses ==
    ASSUME ReminderAssumption, clock \in Time, NEW c, Fits(c),
           c.status = "active" => ~(c.deadline <= clock)
    PROVE  LET n == CloseIgnored(c) IN
           /\ Fits(n) /\ Evolves(c, n, {})
           /\ n.fb = c.fb \/ (n.fb = c.fb \cup {"ignored"} /\ Ignorable(c))
<1> SUFFICES ASSUME NEW n, n = CloseIgnored(c)
             PROVE  /\ Fits(n) /\ Evolves(c, n, {})
                    /\ n.fb = c.fb \/ (n.fb = c.fb \cup {"ignored"} /\ Ignorable(c))
  OBVIOUS
<1> DEFINE closes == c.state = "waiting" /\ c.count = 2 /\ c.closeAt <= clock /\ c.status = "active"
<1>1. c \in Case /\ Sound(c)
  BY DEF Fits, Sound
<1>2. CASE ~closes
  <2>1. n = c
    BY <1>2 DEF CloseIgnored
  <2> QED BY <2>1, NothingFollows DEF Follows
<1>3. CASE closes /\ Delivered(c) # 2
  <2>1. n = Resolve(c)
    BY <1>3 DEF CloseIgnored
  <2>2. Goes(c, n) /\ n.state \in {"none", "resolved"}
    BY <1>1, <2>1, ResolveResolves
  <2>3. Fits(n)
    BY <1>3, <2>2 DEF Goes, Fits, Answered
  <2> QED BY <2>2, <2>3 DEF Goes
<1>4. CASE closes /\ Delivered(c) = 2
  <2>1. PICK m : m = [c EXCEPT !.status = "dismissed", !.fb = c.fb \cup {"ignored"}]
    OBVIOUS
  <2>2. m \in Case
    <3>1. c.fb \cup {"ignored"} \in SUBSET (Answers \cup {"ignored"})
      BY <1>1 DEF Case
    <3> QED BY <1>1, <2>1, <3>1 DEF Case
  <2>3. /\ m.tries = c.tries /\ m.count = c.count /\ m.deadline = c.deadline
        /\ m.token = c.token /\ m.state = c.state /\ m.closeAt = c.closeAt
        /\ m.later = c.later /\ m.fb = c.fb \cup {"ignored"} /\ m.status = "dismissed"
    BY <1>1, <2>1 DEF Case
  <2>4. Sound(m) /\ Evolves(c, m, {})
    BY <1>1, <2>2, <2>3, SameAttempts
  <2>5. n = Resolve(m)
    <3>1. m = [c EXCEPT !.status = "dismissed", !.fb = @ \cup {"ignored"}]
      BY <1>1, <2>1 DEF Case
    <3>2. n = Resolve([c EXCEPT !.status = "dismissed", !.fb = @ \cup {"ignored"}])
      BY <1>4 DEF CloseIgnored
    <3> QED BY <3>1, <3>2
  <2>6. Goes(m, n) /\ n.state \in {"none", "resolved"}
    BY <2>4, <2>5, ResolveResolves
  <2>7. Evolves(c, n, {})
    <3>1. Evolves(c, n, {} \cup {})
      BY <2>4, <2>6, EvolvesOn DEF Goes
    <3>2. {} \cup {} = {}
      OBVIOUS
    <3> QED BY <3>1, <3>2
  <2>8. Fits(n)
    BY <2>3, <2>6 DEF Goes, Fits, Answered
  <2>9. Ignorable(c)
    <3>1. c.closeAt # Never
      <4>1. clock \in Nat /\ clock <= MaxTime /\ MaxTime \in Nat /\ c.closeAt \in Nat
        BY <1>1 DEF Time, ReminderAssumption, Case
      <4> QED BY <1>4, <4>1 DEF Never
    <3>2. /\ ~c.later
          /\ c.closeAt >= c.deadline \/ c.closeAt + Lease >= c.tries[2].expires + Interval
      BY <1>1, <3>1 DEF Sound, Closing
    <3>3. c.fb = {}
      BY <1>4, <3>2 DEF Fits, Answered
    <3>4. c.tries[2].expires + Interval <= clock + Lease
      <4>1. c.tries[2].expires \in Nat
        <5>1. 2 \in Attempts(c)
          BY <1>1, <1>4 DEF Sound, Permits, Attempts
        <5>2. c.tries[2] \in Attempt
          BY <1>1, <5>1, TriesAreTries
        <5> QED BY <5>2 DEF Attempt
      <4>2. clock \in Nat /\ c.closeAt \in Nat /\ c.deadline \in Nat
            /\ Lease \in Nat /\ Interval \in Nat
        BY <1>1 DEF Time, ReminderAssumption, Case
      <4>3. c.closeAt <= clock /\ ~(c.deadline <= clock)
        BY <1>4
      <4> QED BY <3>2, <4>1, <4>2, <4>3
    <3>5. \A k \in 1..2 : c.tries[k].state = "delivered"
      <4> DEFINE D == {k \in 1 .. Len(c.tries) : c.tries[k].state = "delivered"}
      <4>1. Len(c.tries) = 2
        BY <1>1, <1>4 DEF Sound, Permits
      <4>2. D \in SUBSET (1..2) /\ Cardinality(D) = 2
        BY <1>4, <4>1 DEF Delivered
      <4>3. IsFiniteSet(1..2) /\ Cardinality(1..2) = 2
        BY TwoAreTwo
      <4>4. D = 1..2
        <5> HIDE DEF D
        <5> QED BY <4>2, <4>3, FS_Subset
      <4> QED BY <4>4
    <3> QED BY <1>4, <3>3, <3>4, <3>5 DEF Ignorable
  <2> QED BY <2>3, <2>6, <2>7, <2>8, <2>9 DEF Goes
<1> QED BY <1>2, <1>3, <1>4

\* A sweep keeps rows in order, adds and proves nothing, and hears at most that an advice
\* was ignored.
LEMMA SweepSweeps ==
    ASSUME ReminderAssumption, clock \in Time, NEW c, Fits(c)
    PROVE  /\ Fits(Sweep(c)) /\ Evolves(c, Sweep(c), {})
           /\ Sweep(c).fb = c.fb \/ (Sweep(c).fb = c.fb \cup {"ignored"} /\ Ignorable(c))
<1> SUFFICES ASSUME NEW n, n = Sweep(c)
             PROVE  /\ Fits(n) /\ Evolves(c, n, {})
                    /\ n.fb = c.fb \/ (n.fb = c.fb \cup {"ignored"} /\ Ignorable(c))
  OBVIOUS
<1>1. PICK c1 : c1 = Ensure(c)
  OBVIOUS
<1>2. PICK c2 : c2 = ExpireDeadline(c1)
  OBVIOUS
<1>3. PICK c3 : c3 = LapseClaim(c2)
  OBVIOUS
<1>4. n = CloseIgnored(c3)
  BY <1>1, <1>2, <1>3 DEF Sweep
<1>6. Follows(c, c1)
  BY <1>1, EnsureFollows
<1>7. Fits(c1)
  BY <1>6 DEF Follows
<1>8. Follows(c1, c2) /\ (c2.status = "active" => ~(c1.deadline <= clock))
  BY <1>2, <1>7, ExpireDeadlineFollows
<1>9. Fits(c2)
  BY <1>8 DEF Follows
<1>10. Follows(c2, c3)
  BY <1>3, <1>9, LapseClaimFollows
<1>11. Follows(c, c3)
  BY <1>6, <1>8, <1>10, FollowsOn
<1>12. Fits(c3) /\ Evolves(c, c3, {}) /\ c3.fb = c.fb
       /\ (c3.status = "active" => c.status = "active")
  BY <1>11 DEF Follows
<1>13. c3.status = "active" => ~(c3.deadline <= clock)
  BY <1>8, <1>10 DEF Follows
<1>14. /\ Fits(n) /\ Evolves(c3, n, {})
       /\ n.fb = c3.fb \/ (n.fb = c3.fb \cup {"ignored"} /\ Ignorable(c3))
  BY <1>4, <1>12, <1>13, CloseIgnoredCloses
<1>15. Evolves(c, n, {})
  <2>1. Evolves(c, n, {} \cup {})
    BY <1>12, <1>14, EvolvesOn
  <2>2. {} \cup {} = {}
    OBVIOUS
  <2> QED BY <2>1, <2>2
<1>16. ASSUME Ignorable(c3) PROVE Ignorable(c)
  <2>1. c.count = 2 /\ Len(c.tries) = 2
    BY <1>12, <1>16 DEF Ignorable, Evolves, Fits, Sound, Permits
  <2>2. 1 \in Attempts(c) /\ 2 \in Attempts(c)
    BY <2>1 DEF Attempts
  <2>3. c.tries[1].state = "delivered" /\ c.tries[2].state = "delivered"
        /\ c.tries[2].expires = c3.tries[2].expires
    BY <1>12, <1>16, <2>2 DEF Ignorable, Evolves
  <2> QED BY <1>12, <1>16, <2>1, <2>3 DEF Ignorable
<1>17. n.fb = c.fb \/ (n.fb = c.fb \cup {"ignored"} /\ Ignorable(c))
  BY <1>12, <1>14, <1>16
<1> QED BY <1>14, <1>15, <1>17

-----------------------------------------------------------------------------
(* Answers, reports and claims.                                            *)

\* What an answer of the user may do to an advice.
HeardOf(c, kind, n) ==
    /\ Fits(n) /\ Evolves(c, n, {})
    /\ n.fb = c.fb \/ n.fb = c.fb \cup {kind}

\* It ends the reminders, or defers the rest.
LEMMA HeardIsHeard ==
    ASSUME ReminderAssumption, clock \in Time, NEW c, Fits(c), c.status # "absent",
           NEW kind \in Answers
    PROVE  HeardOf(c, kind, Heard(c, kind))
<1> SUFFICES ASSUME NEW n, n = Heard(c, kind) PROVE HeardOf(c, kind, n)
  OBVIOUS
<1>1. c \in Case /\ Sound(c)
  BY DEF Fits, Sound
<1>2. CASE n = c
  BY <1>2, NothingFollows DEF Follows, HeardOf
<1> DEFINE sn == CASE kind = "later" -> IF c.deadline > clock
                                        THEN Earlier(clock + Snooze, c.deadline) ELSE 0
                   [] kind \in {"adopted", "dismissed"} -> 0
                   [] OTHER -> c.snooze
           st == IF kind \in {"adopted", "dismissed"} THEN kind ELSE c.status
<1>3. CASE n # c
  <2>1. PICK m : m = [c EXCEPT !.fb = c.fb \cup {kind}, !.snooze = sn, !.status = st]
    OBVIOUS
  <2>2. n = IF kind = "later" THEN Defer(m) ELSE Resolve(m)
    <3>1. m = [c EXCEPT
                 !.fb = @ \cup {kind},
                 !.snooze = CASE kind = "later" -> IF c.deadline > clock
                                     THEN Earlier(clock + Snooze, c.deadline) ELSE 0
                              [] kind \in {"adopted", "dismissed"} -> 0
                              [] OTHER -> @,
                 !.status = IF kind \in {"adopted", "dismissed"} THEN kind ELSE @]
      BY <1>1, <2>1 DEF Case
    <3> HIDE DEF sn, st
    <3> QED BY <1>3, <3>1 DEF Heard
  <2>3. sn \in Nat
    <3>1. c.deadline \in Nat /\ c.snooze \in Nat /\ clock \in Nat /\ Snooze \in Nat
      BY <1>1 DEF Case, Time, ReminderAssumption
    <3>2. (IF c.deadline > clock THEN Earlier(clock + Snooze, c.deadline) ELSE 0) \in Nat
      BY <3>1 DEF Earlier
    <3>3. CASE kind = "later"
      BY <3>2, <3>3
    <3>4. CASE kind # "later" /\ kind \in {"adopted", "dismissed"}
      BY <3>4
    <3>5. CASE kind # "later" /\ kind \notin {"adopted", "dismissed"}
      BY <3>1, <3>5
    <3> QED BY <3>3, <3>4, <3>5
  <2>4. /\ c.fb \cup {kind} \in SUBSET (Answers \cup {"ignored"})
        /\ st \in {"absent", "active", "adopted", "dismissed", "withdrawn", "verified"}
        /\ st # "absent"
    BY <1>1 DEF Case
  <2> HIDE DEF sn, st
  <2>5. m \in Case
    BY <1>1, <2>1, <2>3, <2>4 DEF Case
  <2>6. /\ m.tries = c.tries /\ m.count = c.count /\ m.deadline = c.deadline
        /\ m.token = c.token /\ m.state = c.state /\ m.closeAt = c.closeAt
        /\ m.later = c.later /\ m.fb = c.fb \cup {kind} /\ m.status = st
    BY <1>1, <2>1 DEF Case
  <2>7. Sound(m) /\ Evolves(c, m, {})
    BY <1>1, <2>5, <2>6, SameAttempts
  <2>8. ASSUME Evolves(m, n, {}) PROVE Evolves(c, n, {})
    <3>1. Evolves(c, n, {} \cup {})
      BY <2>7, <2>8, EvolvesOn
    <3>2. {} \cup {} = {}
      OBVIOUS
    <3> QED BY <3>1, <3>2
  <2>9. CASE n = Resolve(m)
    <3>1. Goes(m, n) /\ n.state \in {"none", "resolved"}
      BY <2>7, <2>9, ResolveResolves
    <3>2. Fits(n)
      BY <2>4, <2>6, <3>1 DEF Goes, Fits, Answered
    <3> QED BY <2>6, <2>8, <3>1, <3>2 DEF Goes, HeardOf
  <2>10. CASE n = m /\ m.state \in {"none", "resolved"}
    <3>1. Fits(n)
      BY <2>4, <2>6, <2>7, <2>10 DEF Fits, Answered
    <3> QED BY <2>6, <2>7, <2>10, <3>1 DEF HeardOf
  <2>11. CASE n = [m EXCEPT !.state = IF @ = "claimed" THEN @ ELSE "waiting",
                            !.nextAt = m.snooze, !.closeAt = Never, !.later = TRUE]
    <3> DEFINE ns == IF m.state = "claimed" THEN m.state ELSE "waiting"
    <3>1. n = [m EXCEPT !.state = ns, !.nextAt = m.snooze, !.closeAt = Never, !.later = TRUE]
      BY <2>5, <2>11 DEF Case
    <3>2. ns \in {"claimed", "waiting"} /\ (ns = "claimed" <=> m.state = "claimed")
      OBVIOUS
    <3> HIDE DEF ns
    <3>3. Never \in Nat /\ m.snooze \in Nat
      BY <2>5 DEF Never, ReminderAssumption, Case
    <3>4. n \in Case
      BY <2>5, <3>1, <3>2, <3>3 DEF Case
    <3>5. /\ n.tries = m.tries /\ n.count = m.count /\ n.deadline = m.deadline
          /\ n.token = m.token /\ n.state = ns /\ n.closeAt = Never
          /\ n.later = TRUE /\ n.fb = m.fb /\ n.status = m.status
      BY <2>5, <3>1 DEF Case
    <3>6. Sound(n) /\ Evolves(m, n, {})
      BY <2>7, <3>2, <3>4, <3>5, SameAttempts
    <3>7. Fits(n)
      BY <2>4, <2>6, <3>5, <3>6 DEF Fits, Answered
    <3> QED BY <2>6, <2>8, <3>5, <3>6, <3>7 DEF HeardOf
  <2> QED BY <2>2, <2>9, <2>10, <2>11 DEF Defer
<1> QED BY <1>2, <1>3

\* What a report of a device may do to an advice.
ToldOf(c, d, r, n) ==
    /\ Fits(n) /\ n.fb = c.fb
    /\ \/ Evolves(c, n, {})
       \/ /\ r.action = "complete" /\ r.token \in Attempts(c)
          /\ c.tries[r.token].device = d /\ ~(c.tries[r.token].expires <= clock)
          /\ Evolves(c, n, {r.token})
    /\ r.token \in Attempts(c) /\ c.tries[r.token].device = d =>
          n.tries[r.token].state # "claimed"

\* The permit of the report is no longer out, and is proved only by a report in time.
LEMMA ReportedIsTold ==
    ASSUME ReminderAssumption, NEW c, Fits(c), NEW d, NEW r
    PROVE  ToldOf(c, d, r, Reported(c, d, r))
<1> SUFFICES ASSUME NEW n, n = Reported(c, d, r) PROVE ToldOf(c, d, r, n)
  OBVIOUS
<1> DEFINE k == r.token
<1>1. Sound(c) /\ c \in Case
  BY DEF Fits, Sound
<1>2. ASSUME ~HoldsPermit(c, d, k), n = c PROVE ToldOf(c, d, r, n)
  <2>1. ASSUME k \in Attempts(c), c.tries[k].device = d PROVE c.tries[k].state # "claimed"
    <3> SUFFICES ASSUME c.tries[k].state = "claimed" PROVE FALSE
      OBVIOUS
    <3>1. c.token = k /\ c.token # 0
      <4>1. c.token = k
        BY <1>1, <2>1 DEF Sound, Permits
      <4>2. k # 0
        BY <1>1, <2>1, TriesAreTries DEF Attempts
      <4> QED BY <4>1, <4>2
    <3>2. c.state = "claimed"
      BY <1>1, <3>1 DEF Sound, Permits
    <3> QED BY <1>2, <2>1, <3>1, <3>2 DEF HoldsPermit
  <2> QED BY <1>2, <2>1, NothingFollows DEF ToldOf, Follows
<1>3. ASSUME NEW s \in AttemptStates, s # "claimed", HoldsPermit(c, d, k), n = ReleasePermit(c, k, s),
             s = "delivered" => r.action = "complete" /\ ~(c.tries[k].expires <= clock)
      PROVE  ToldOf(c, d, r, n)
  <2>1. c.state = "claimed" /\ c.token = k /\ c.tries[k].device = d
    BY <1>3 DEF HoldsPermit
  <2>2. c.token # 0
    BY <1>1, <2>1 DEF Sound, Permits
  <2>3. k \in Attempts(c)
    BY <1>1, <2>1, <2>2, PermitIsAnAttempt
  <2>4. Released(c, s, n)
    BY <1>1, <1>3, <2>1, <2>2, ReleaseReleases
  <2>5. c.status # "absent"
    BY <2>1 DEF Fits, Unpublished
  <2>6. Fits(n)
    BY <2>1, <2>4, <2>5 DEF Released, Fits, Answered
  <2> QED BY <1>3, <2>1, <2>3, <2>4, <2>6 DEF Released, ToldOf
<1>4. /\ "superseded" \in AttemptStates /\ "superseded" # "claimed" /\ "superseded" # "delivered"
      /\ "failed" \in AttemptStates /\ "failed" # "claimed" /\ "failed" # "delivered"
      /\ "delivered" \in AttemptStates /\ "delivered" # "claimed"
  BY DEF AttemptStates
<1>5. CASE r.action = "complete"
  <2>1. n = Complete(c, d, k)
    BY <1>5 DEF Reported
  <2>2. CASE ~HoldsPermit(c, d, k)
    BY <1>2, <2>1, <2>2 DEF Complete
  <2>3. CASE HoldsPermit(c, d, k) /\ c.tries[k].expires <= clock
    <3>1. n = ReleasePermit(c, k, "superseded")
      BY <2>1, <2>3 DEF Complete
    <3> QED BY <1>3, <1>4, <2>3, <3>1
  <2>4. CASE HoldsPermit(c, d, k) /\ ~(c.tries[k].expires <= clock)
    <3>1. n = ReleasePermit(c, k, "delivered")
      BY <2>1, <2>4 DEF Complete
    <3> QED BY <1>3, <1>4, <1>5, <2>4, <3>1
  <2> QED BY <2>2, <2>3, <2>4
<1>6. CASE r.action # "complete"
  <2>1. n = Fail(c, d, k)
    BY <1>6 DEF Reported
  <2>2. CASE ~HoldsPermit(c, d, k)
    BY <1>2, <2>1, <2>2 DEF Fail
  <2>3. CASE HoldsPermit(c, d, k)
    <3>1. n = ReleasePermit(c, k, "failed")
      BY <2>1, <2>3 DEF Fail
    <3> QED BY <1>3, <1>4, <2>3, <3>1
  <2> QED BY <2>2, <2>3
<1> QED BY <1>5, <1>6

\* What a claim does to an advice: there is one attempt more.
Grows(c, d, n) ==
    /\ c.count < 2 /\ n.count = c.count + 1 /\ n.fb = c.fb
    /\ Len(n.tries) = Len(c.tries) + 1 /\ n.token = n.count
    /\ n.tries[n.count].device = d /\ n.tries[n.count].state = "claimed"
    /\ \A k \in Attempts(c) : n.tries[k] = c.tries[k]

\* A row with another permit is a row.
LEMMA ClaimIsARow ==
    ASSUME NEW c \in Case, NEW num \in 0..2, NEW token \in Nat, NEW na \in Nat, NEW ca \in Nat,
           NEW ts \in Seq(Attempt)
    PROVE  [c EXCEPT !.state = "claimed", !.count = num, !.token = token,
                     !.nextAt = na, !.closeAt = ca, !.tries = ts] \in Case
BY DEF Case

\* A claim hands out a permit that is not out, within its lease.
LEMMA ClaimedGrows ==
    ASSUME ReminderAssumption, clock \in Time, NEW c, Fits(c), Due(c), NEW d \in Machine
    PROVE  Fits(Claimed(c, d)) /\ Grows(c, d, Claimed(c, d))
<1> SUFFICES ASSUME NEW n, n = Claimed(c, d) PROVE Fits(n) /\ Grows(c, d, n)
  OBVIOUS
<1> DEFINE num == c.count + 1
           soon == Earlier(clock + Interval, c.deadline)
           new == [device |-> d, state |-> "claimed", expires |-> clock + Lease]
           na == IF num = 1 THEN soon ELSE 0
           ca == IF num = 2 /\ ~c.later THEN soon ELSE Never
           ts == Append(c.tries, new)
<1>1. /\ c \in Case /\ Sound(c) /\ c.count < 2 /\ c.status = "active"
      /\ c.state \in {"pending", "waiting"}
  BY DEF Fits, Sound, Due
<1>2. c.count \in Nat /\ c.deadline \in Nat /\ c.tries \in Seq(Attempt) /\ Len(c.tries) = c.count
  <2>1. c.count \in 0..2 /\ c.deadline \in Nat /\ c.tries \in Seq(Attempt)
    BY <1>1 DEF Case
  <2> QED BY <1>1, <2>1 DEF Sound, Permits
<1>3. clock \in Nat /\ Interval \in Nat /\ Lease \in Nat /\ Never \in Nat
  BY DEF Time, ReminderAssumption, Never
<1>4. soon \in Nat /\ na \in Nat /\ ca \in Nat /\ num \in 0..2
  BY <1>1, <1>2, <1>3 DEF Earlier
<1>5. new \in Attempt
  BY <1>3 DEF Attempt
<1>6. /\ ts \in Seq(Attempt) /\ Len(ts) = num /\ ts[num] = new
      /\ \A k \in Attempts(c) : ts[k] = c.tries[k]
  BY <1>2, <1>5, AppendProperties DEF Attempts
<1>7. n = [c EXCEPT !.state = "claimed", !.count = num, !.token = Len(c.tries) + 1,
                    !.nextAt = na, !.closeAt = ca, !.tries = ts]
  BY <1>1 DEF Claimed, Case
<1>8. Len(c.tries) + 1 = num /\ num \in Nat
  BY <1>2
<1>9. new.device = d /\ new.state = "claimed" /\ new.expires = clock + Lease
  OBVIOUS
<1>10. ca # Never => num = 2 /\ ~c.later /\ ca = soon
  OBVIOUS
<1>11. soon = c.deadline \/ soon = clock + Interval
  BY DEF Earlier
<1>12. num = c.count + 1
  OBVIOUS
<1> HIDE DEF num, soon, new, na, ca, ts
<1>13. n \in Case
  <2>1. n = [c EXCEPT !.state = "claimed", !.count = num, !.token = num,
                      !.nextAt = na, !.closeAt = ca, !.tries = ts]
    BY <1>7, <1>8
  <2>2. [c EXCEPT !.state = "claimed", !.count = num, !.token = num,
                  !.nextAt = na, !.closeAt = ca, !.tries = ts] \in Case
    BY <1>1, <1>4, <1>6, <1>8, ClaimIsARow
  <2> QED BY <2>1, <2>2
<1>14. /\ n.tries = ts /\ n.count = num /\ n.deadline = c.deadline
       /\ n.token = num /\ n.state = "claimed" /\ n.closeAt = ca
       /\ n.later = c.later /\ n.fb = c.fb /\ n.status = c.status
  BY <1>1, <1>7, <1>8 DEF Case
<1>15. Attempts(n) = Attempts(c) \cup {num} /\ num \notin Attempts(c) /\ num # 0
  BY <1>2, <1>6, <1>12, <1>14 DEF Attempts
<1>16. c.token = 0 /\ \A k \in Attempts(c) : c.tries[k].state # "claimed"
  <2>1. c.token = 0
    BY <1>1 DEF Sound, Permits
  <2>2. \A k \in Attempts(c) : k # 0
    BY <1>1, TriesAreTries DEF Attempts
  <2> QED BY <1>1, <2>1, <2>2 DEF Sound, Permits
<1>17. Permits(n)
  <2>1. ASSUME NEW k \in Attempts(n) PROVE n.tries[k].state = "claimed" <=> n.token = k
    <3>1. CASE k = num
      BY <1>6, <1>9, <1>14, <3>1
    <3>2. CASE k # num
      <4>1. k \in Attempts(c)
        BY <1>15, <3>2
      <4> QED BY <1>6, <1>14, <1>16, <3>2, <4>1
    <3> QED BY <3>1, <3>2
  <2> QED BY <1>6, <1>14, <1>15, <2>1 DEF Permits
<1>18. ASSUME NEW k \in Attempts(c) PROVE n.tries[k].expires <= clock + Lease
  BY <1>1, <1>6, <1>14, <1>18 DEF Sound, Expiries
<1>19. n.tries[num].expires = clock + Lease
  BY <1>6, <1>9, <1>14
<1>20. Expiries(n)
  <2>1. ASSUME NEW k \in Attempts(n) PROVE n.tries[k].expires <= clock + Lease
    BY <1>3, <1>15, <1>18, <1>19
  <2>2. ASSUME NEW j \in Attempts(n), NEW k \in Attempts(n), j <= k
        PROVE  n.tries[j].expires <= n.tries[k].expires
    <3>1. CASE k = num
      BY <1>19, <2>1, <3>1
    <3>2. CASE k # num
      <4>1. k \in Attempts(c) /\ k <= c.count /\ k \in Nat
        BY <1>2, <1>15, <3>2 DEF Attempts
      <4>2. j # num
        BY <1>2, <1>12, <2>2, <4>1
      <4>3. j \in Attempts(c)
        BY <1>15, <4>2
      <4> QED BY <1>1, <1>6, <1>14, <2>2, <4>1, <4>3 DEF Sound, Expiries
    <3> QED BY <3>1, <3>2
  <2> QED BY <2>1, <2>2 DEF Expiries
<1>21. Closing(n)
  <2> SUFFICES ASSUME ca # Never
               PROVE  /\ n.count = 2 /\ ~n.later
                      /\ n.closeAt >= n.deadline \/ n.closeAt + Lease >= n.tries[2].expires + Interval
    BY <1>14 DEF Closing
  <2>1. num = 2 /\ ~c.later /\ ca = soon
    BY <1>10
  <2>2. n.closeAt >= n.deadline \/ n.closeAt + Lease >= n.tries[2].expires + Interval
    BY <1>2, <1>3, <1>11, <1>14, <1>19, <2>1
  <2> QED BY <1>14, <2>1, <2>2
<1>22. Answered(n)
  BY <1>1, <1>14 DEF Fits, Answered
<1>23. Fits(n)
  BY <1>1, <1>13, <1>14, <1>17, <1>20, <1>21, <1>22 DEF Fits, Sound
<1>24. Grows(c, d, n)
  BY <1>1, <1>2, <1>6, <1>9, <1>12, <1>14 DEF Grows
<1> QED BY <1>23, <1>24

\* Advice that is withdrawn or verified keeps its reminders.
LEMMA ClosedFits ==
    ASSUME NEW c, Fits(c), NEW st \in {"withdrawn", "verified"}, c.status # "absent",
           NEW n, n = [c EXCEPT !.status = st]
    PROVE  Fits(n) /\ Evolves(c, n, {}) /\ n.fb = c.fb
<1>1. c \in Case /\ Sound(c)
  BY DEF Fits, Sound
<1>2. n \in Case
  BY <1>1 DEF Case
<1>3. /\ n.tries = c.tries /\ n.count = c.count /\ n.deadline = c.deadline
      /\ n.token = c.token /\ n.state = c.state /\ n.closeAt = c.closeAt
      /\ n.later = c.later /\ n.fb = c.fb /\ n.status = st
  BY <1>1 DEF Case
<1>4. Sound(n) /\ Evolves(c, n, {})
  BY <1>1, <1>2, <1>3, SameAttempts
<1> QED BY <1>3, <1>4 DEF Fits, Answered

\* What is published has had no reminder yet.
LEMMA PublishedFits ==
    ASSUME ReminderAssumption, NEW c, Fits(c), c.status = "absent", NEW deadline \in Nat,
           NEW s \in {"pending", "resolved", "none"},
           NEW n, n = [c EXCEPT !.status = "active", !.deadline = deadline, !.state = s]
    PROVE  Fits(n) /\ Evolves(c, n, {}) /\ n.fb = c.fb
<1>1. c = Unpublished /\ c \in Case /\ Sound(c)
  BY DEF Fits, Sound
<1>2. c.closeAt = Never /\ c.fb = {} /\ c.count = 0 /\ c.state = "none" /\ c.token = 0
  BY <1>1 DEF Unpublished
<1>3. n \in Case
  BY <1>1 DEF Case
<1>4. /\ n.tries = c.tries /\ n.count = c.count
      /\ n.token = c.token /\ n.state = s /\ n.closeAt = c.closeAt
      /\ n.later = c.later /\ n.fb = c.fb /\ n.status = "active"
  BY <1>1 DEF Case
<1>5. Attempts(n) = Attempts(c)
  BY <1>4 DEF Attempts
<1>6. Permits(n) /\ Expiries(n)
  BY <1>1, <1>2, <1>4, <1>5 DEF Sound, Permits, Expiries
<1>7. Closing(n) /\ Answered(n)
  BY <1>2, <1>4 DEF Closing, Answered
<1>8. Evolves(c, n, {})
  BY <1>4 DEF Evolves
<1> QED BY <1>3, <1>4, <1>6, <1>7, <1>8 DEF Fits, Sound

-----------------------------------------------------------------------------
(* The invariant: what devices hold and report are attempts of theirs, and what was shown *)
(* or may still be shown is counted.                                                     *)

TypesHold ==
    /\ ReminderTypeOK
    /\ left \in [deadlines : SUBSET Nat, answers : SUBSET Answers, faults : Nat, mutes : Nat]

RowsFit == \A a \in Advice : Fits(advised[a])

\* A device holds permits that it claimed and that it never proved.
HeldBy(c, d, H) ==
    \A k \in H : /\ k \in Attempts(c) /\ c.tries[k].device = d
                 /\ c.tries[k].state # "delivered"

Sent(d, a) == {q.receipt : q \in {p \in inflight : p.device = d /\ p.advice = a}}
Reports(d, a) == ({receipt[d][a], copy[d][a]} \cup Sent(d, a)) \ {NoReceipt}

\* It reports permits that it held, the oldest first, and of each one thing.
ReportedBy(c, d, H, R) ==
    \A r \in R : /\ r.token \in Attempts(c) /\ c.tries[r.token].device = d
                 /\ \A k \in H : r.token < k
                 /\ \A q \in R : q.token = r.token => q = r

\* A round never knows of more than what is stored.
CopyIsOlder(d, a) ==
    copy[d][a] # NoReceipt /\ receipt[d][a] # NoReceipt => copy[d][a].token <= receipt[d][a].token

DeviceInOrder(d, a) ==
    /\ HeldBy(advised[a], d, held[d][a])
    /\ ReportedBy(advised[a], d, held[d][a], Reports(d, a))
    /\ CopyIsOlder(d, a)

\* What may still be shown, and what was certainly shown.
Waiting(a) == {k \in Attempts(advised[a]) : \E d \in Machine : k \in held[d][a]}
Proved(a) ==
    {k \in Attempts(advised[a]) :
        \/ advised[a].tries[k].state = "delivered"
        \/ \E d \in Machine : \E r \in Reports(d, a) : r.action = "complete" /\ r.token = k}

\* Every popup spends a permit, every proof is of a popup, and two proofs are in time.
Counted(c, W, P, p) ==
    /\ p.times + Cardinality(W) <= c.count
    /\ Cardinality(P) <= p.times
    /\ 2 \in Attempts(c) /\ c.tries[1].state = "delivered" /\ c.tries[2].state = "delivered" =>
           p.last < c.tries[2].expires

InOrder(a) ==
    /\ \A d \in Machine : DeviceInOrder(d, a)
    /\ popups[a].last <= clock
    /\ Counted(advised[a], Waiting(a), Proved(a), popups[a])

Reminders == TypesHold /\ RowsFit /\ \A a \in Advice : InOrder(a)

-----------------------------------------------------------------------------
(* What no popup and no claim happens to stays in order.                   *)

\* The attempts of a row are the first and the second.
LEMMA AtMostTwoAttempts ==
    ASSUME NEW c, Fits(c)
    PROVE  /\ Len(c.tries) = c.count /\ c.count \in {0, 1, 2}
           /\ \A k \in Attempts(c) : k \in {1, 2} /\ k <= c.count
           /\ 2 \in Attempts(c) => 1 \in Attempts(c)
           /\ \A k \in Attempts(c) : c.tries[k].expires \in Nat
<1>1. c \in Case /\ Sound(c) /\ Len(c.tries) = c.count
  BY DEF Fits, Sound, Permits
<1>2. c.count \in {0, 1, 2}
  <2>1. c.count \in 0 .. 2
    BY <1>1 DEF Case
  <2> QED BY <2>1
<1>3. /\ \A k \in Attempts(c) : k \in {1, 2} /\ k <= c.count
      /\ 2 \in Attempts(c) => 1 \in Attempts(c)
  BY <1>1, <1>2 DEF Attempts
<1>4. \A k \in Attempts(c) : c.tries[k].expires \in Nat
  BY <1>1, TriesAreTries DEF Attempt
<1> QED BY <1>1, <1>2, <1>3, <1>4

\* A set of attempts is finite, and its size a number.
LEMMA AttemptsAreCounted ==
    ASSUME NEW c, Fits(c), NEW S \in SUBSET Attempts(c)
    PROVE  IsFiniteSet(S) /\ Cardinality(S) \in Nat
<1>1. Len(c.tries) \in Nat
  BY AtMostTwoAttempts
<1>2. IsFiniteSet(Attempts(c))
  BY <1>1, FS_Interval DEF Attempts
<1>3. IsFiniteSet(S)
  BY <1>2, FS_Subset
<1> QED BY <1>3, FS_CardinalityType

\* A device whose permits and reports only go away stays in order.
LEMMA DeviceStays ==
    ASSUME NEW c, NEW n, NEW P, Evolves(c, n, P), NEW d, NEW H, NEW R,
           HeldBy(c, d, H), ReportedBy(c, d, H, R), P \cap H = {},
           NEW H2 \in SUBSET H, NEW R2 \in SUBSET R
    PROVE  HeldBy(n, d, H2) /\ ReportedBy(n, d, H2, R2)
<1>1. Attempts(n) = Attempts(c)
  BY DEF Evolves, Attempts
<1>2. HeldBy(n, d, H2)
  BY <1>1 DEF HeldBy, Evolves
<1>3. ReportedBy(n, d, H2, R2)
  BY <1>1 DEF ReportedBy, Evolves
<1> QED BY <1>2, <1>3

\* The count stays right when nothing is shown, and what is proved is proved in time.
LEMMA CountedStays ==
    ASSUME NEW c, Fits(c), NEW n, NEW P, Evolves(c, n, P),
           NEW W \in SUBSET Attempts(c), NEW Q \in SUBSET Attempts(c), NEW p,
           clock \in Nat, p.times \in Nat, p.last \in Nat, p.last <= clock, Counted(c, W, Q, p),
           NEW W2 \in SUBSET W, NEW Q2 \in SUBSET Q,
           \A k \in P : k \in Attempts(c) /\ ~(c.tries[k].expires <= clock)
    PROVE  Counted(n, W2, Q2, p)
<1>1. Attempts(n) = Attempts(c) /\ n.count = c.count /\ c.count \in Nat
  BY AtMostTwoAttempts DEF Evolves, Attempts
<1>2. /\ IsFiniteSet(W) /\ IsFiniteSet(Q) /\ Cardinality(W) \in Nat /\ Cardinality(Q) \in Nat
      /\ Cardinality(W2) \in Nat /\ Cardinality(Q2) \in Nat
  BY AttemptsAreCounted
<1>3. Cardinality(W2) <= Cardinality(W) /\ Cardinality(Q2) <= Cardinality(Q)
  BY <1>2, FS_Subset
<1>4. ASSUME 2 \in Attempts(n), n.tries[1].state = "delivered", n.tries[2].state = "delivered"
      PROVE  p.last < n.tries[2].expires
  <2>1. /\ 1 \in Attempts(c) /\ 2 \in Attempts(c)
        /\ c.tries[1].expires \in Nat /\ c.tries[2].expires \in Nat
    BY <1>1, <1>4, AtMostTwoAttempts
  <2>2. n.tries[2].expires = c.tries[2].expires
    BY <2>1 DEF Evolves
  <2>3. c.tries[1].expires <= c.tries[2].expires
    BY <2>1 DEF Fits, Sound, Expiries
  <2>4. /\ c.tries[1].state = "delivered" \/ 1 \in P
        /\ c.tries[2].state = "delivered" \/ 2 \in P
    BY <1>4, <2>1 DEF Evolves
  <2>5. CASE c.tries[1].state = "delivered" /\ c.tries[2].state = "delivered"
    BY <2>1, <2>2, <2>5 DEF Counted
  <2>6. CASE 1 \in P
    BY <2>1, <2>2, <2>3, <2>6
  <2>7. CASE 2 \in P
    BY <2>1, <2>2, <2>7
  <2> QED BY <2>4, <2>5, <2>6, <2>7
<1>5. p.times + Cardinality(W2) <= n.count /\ Cardinality(Q2) <= p.times
  BY <1>1, <1>2, <1>3 DEF Counted
<1> QED BY <1>4, <1>5 DEF Counted

\* Nothing of an advice is shown or claimed, and its attempts of P are proved in time.
Quiet(a, P) ==
    /\ Evolves(advised[a], advised'[a], P)
    /\ \A d \in Machine : /\ held'[d][a] \subseteq held[d][a]
                          /\ Reports(d, a)' \subseteq Reports(d, a)
                          /\ CopyIsOlder(d, a)'
    /\ popups'[a] = popups[a]
    /\ \A k \in P : /\ k \in Attempts(advised[a]) /\ ~(advised[a].tries[k].expires <= clock)
                    /\ \E d \in Machine : \E r \in Reports(d, a) : r.action = "complete" /\ r.token = k

\* The attempts of the device of the report are not held.
LEMMA ReportedIsNotHeld ==
    ASSUME NEW a, Fits(advised[a]), InOrder(a), NEW d \in Machine, NEW r \in Reports(d, a),
           NEW e \in Machine
    PROVE  r.token \notin held[e][a]
<1> SUFFICES ASSUME r.token \in held[e][a] PROVE FALSE
  OBVIOUS
<1>1. /\ r.token \in Attempts(advised[a]) /\ advised[a].tries[r.token].device = d
      /\ \A k \in held[d][a] : r.token < k
  BY DEF InOrder, DeviceInOrder, ReportedBy
<1>2. advised[a].tries[r.token].device = e
  BY DEF InOrder, DeviceInOrder, HeldBy
<1>3. r.token < r.token
  BY <1>1, <1>2
<1>4. r.token \in {1, 2}
  BY <1>1, AtMostTwoAttempts
<1> QED BY <1>3, <1>4

\* Where it is quiet, the order stays.
LEMMA QuietKeepsOrder ==
    ASSUME ReminderAssumption, TypesHold, clock' = clock, NEW a \in Advice, Fits(advised[a]), InOrder(a),
           NEW P, Quiet(a, P)
    PROVE  InOrder(a)'
<1>1. ASSUME NEW d \in Machine PROVE P \cap held[d][a] = {}
  BY ReportedIsNotHeld DEF Quiet
<1>2. ASSUME NEW d \in Machine PROVE DeviceInOrder(d, a)'
  <2>1. /\ HeldBy(advised[a], d, held[d][a])
        /\ ReportedBy(advised[a], d, held[d][a], Reports(d, a))
        /\ Evolves(advised[a], advised'[a], P)
        /\ held'[d][a] \in SUBSET held[d][a] /\ Reports(d, a)' \in SUBSET Reports(d, a)
    BY DEF InOrder, DeviceInOrder, Quiet
  <2>2. HeldBy(advised'[a], d, held'[d][a]) /\ ReportedBy(advised'[a], d, held'[d][a], Reports(d, a)')
    BY <1>1, <2>1, DeviceStays
  <2>3. CopyIsOlder(d, a)'
    BY DEF Quiet
  <2> QED BY <2>2, <2>3 DEF DeviceInOrder
<1>3. Attempts(advised'[a]) = Attempts(advised[a])
  BY DEF Quiet, Evolves, Attempts
<1>4. Waiting(a)' \in SUBSET Waiting(a)
  BY <1>3 DEF Waiting, Quiet
<1>5. Proved(a)' \in SUBSET Proved(a)
  <2> SUFFICES ASSUME NEW k \in Proved(a)' PROVE k \in Proved(a)
    OBVIOUS
  <2>1. k \in Attempts(advised[a])
    BY <1>3 DEF Proved
  <2>2. CASE advised'[a].tries[k].state = "delivered"
    <3>1. advised[a].tries[k].state = "delivered" \/ k \in P
      BY <2>1, <2>2 DEF Quiet, Evolves
    <3> QED BY <2>1, <3>1 DEF Quiet, Proved
  <2>3. CASE \E d \in Machine : \E r \in Reports(d, a)' : r.action = "complete" /\ r.token = k
    BY <2>1, <2>3 DEF Quiet, Proved
  <2> QED BY <2>2, <2>3 DEF Proved
<1>6. Waiting(a) \in SUBSET Attempts(advised[a]) /\ Proved(a) \in SUBSET Attempts(advised[a])
  BY DEF Waiting, Proved
<1>7. clock \in Nat /\ popups[a].times \in Nat /\ popups[a].last \in Nat
  BY DEF TypesHold, ReminderTypeOK, Time
<1>8. popups[a].last <= clock /\ Counted(advised[a], Waiting(a), Proved(a), popups[a])
  BY DEF InOrder
<1>9. /\ Evolves(advised[a], advised'[a], P)
      /\ \A k \in P : k \in Attempts(advised[a]) /\ ~(advised[a].tries[k].expires <= clock)
  BY DEF Quiet
<1>10. Counted(advised'[a], Waiting(a)', Proved(a)', popups[a])
  BY <1>4, <1>5, <1>6, <1>7, <1>8, <1>9, CountedStays
<1>11. popups'[a] = popups[a]
  BY DEF Quiet
<1> QED BY <1>2, <1>8, <1>10, <1>11 DEF InOrder

-----------------------------------------------------------------------------
(* What a popup and a claim do to the count.                               *)

\* A popup spends the permit it is of.
LEMMA CountedShows ==
    ASSUME NEW c, Fits(c), NEW W \in SUBSET Attempts(c), NEW Q \in SUBSET Attempts(c), NEW p,
           p.times \in Nat, Counted(c, W, Q, p), NEW k \in W, c.tries[k].state # "delivered",
           NEW W2 \in SUBSET (W \ {k}), NEW Q2 \in SUBSET (Q \cup {k}),
           NEW p2, p2.times = p.times + 1
    PROVE  Counted(c, W2, Q2, p2)
<1>1. c.count \in Nat /\ (2 \in Attempts(c) => k \in {1, 2})
  BY AtMostTwoAttempts
<1>2. W \ {k} \in SUBSET Attempts(c) /\ Q \cup {k} \in SUBSET Attempts(c)
      /\ W2 \in SUBSET Attempts(c) /\ Q2 \in SUBSET Attempts(c)
  OBVIOUS
<1>3. /\ IsFiniteSet(W) /\ IsFiniteSet(Q) /\ Cardinality(W) \in Nat /\ Cardinality(Q) \in Nat
      /\ IsFiniteSet(W \ {k}) /\ IsFiniteSet(Q \cup {k})
      /\ Cardinality(W2) \in Nat /\ Cardinality(Q2) \in Nat
      /\ Cardinality(W \ {k}) \in Nat /\ Cardinality(Q \cup {k}) \in Nat
  BY <1>2, AttemptsAreCounted
<1>4. Cardinality(W2) <= Cardinality(W \ {k}) /\ Cardinality(Q2) <= Cardinality(Q \cup {k})
  BY <1>3, FS_Subset
<1>5. Cardinality(W \ {k}) = Cardinality(W) - 1
  BY <1>3, FS_RemoveElement
<1>6. Cardinality(Q \cup {k}) <= Cardinality(Q) + 1
  <2>1. CASE k \in Q
    <3>1. Q \cup {k} = Q
      BY <2>1
    <3>2. Cardinality(Q \cup {k}) = Cardinality(Q)
      BY <3>1, Zenon
    <3> QED BY <1>3, <3>2
  <2>2. CASE k \notin Q
    <3>1. Cardinality(Q \cup {k}) = Cardinality(Q) + 1
      BY <1>3, <2>2, FS_AddElement
    <3> QED BY <1>3, <3>1
  <2> QED BY <2>1, <2>2
<1>7. p2.times + Cardinality(W2) <= c.count /\ Cardinality(Q2) <= p2.times
  BY <1>1, <1>3, <1>4, <1>5, <1>6 DEF Counted
<1> QED BY <1>1, <1>7 DEF Counted

\* A claim brings a permit to show and proves nothing.
LEMMA CountedClaims ==
    ASSUME NEW c, Fits(c), NEW s, Evolves(c, s, {}), NEW d, NEW n, Fits(n), Grows(s, d, n),
           NEW W \in SUBSET Attempts(c), NEW Q \in SUBSET Attempts(c), NEW p,
           p.times \in Nat, Counted(c, W, Q, p),
           NEW W2 \in SUBSET (W \cup {n.count}), NEW Q2 \in SUBSET Q
    PROVE  Counted(n, W2, Q2, p)
<1>1. /\ s.count = c.count /\ n.count = c.count + 1 /\ n.tries[n.count].state = "claimed"
      /\ Len(s.tries) = Len(c.tries) /\ Len(n.tries) = Len(c.tries) + 1
  BY DEF Evolves, Grows
<1>2. /\ c.count \in {0, 1, 2} /\ Len(c.tries) = c.count
      /\ n.count \in {0, 1, 2} /\ Len(n.tries) = n.count
  BY AtMostTwoAttempts
<1>3. n.count \in Attempts(n) /\ Attempts(c) \subseteq Attempts(n)
      /\ W \cup {n.count} \in SUBSET Attempts(n) /\ n.count \notin W
  <2> DEFINE i == c.count
             j == n.count
  <2>1. i \in Nat /\ j = i + 1 /\ Attempts(c) = 1 .. i /\ Attempts(n) = 1 .. j
    BY <1>1, <1>2 DEF Attempts
  <2> HIDE DEF i, j
  <2>2. j \in 1 .. j /\ 1 .. i \subseteq 1 .. j /\ j \notin 1 .. i
    BY <2>1
  <2>3. j \in Attempts(n) /\ Attempts(c) \subseteq Attempts(n) /\ j \notin Attempts(c)
    BY <2>1, <2>2
  <2>4. j \in Attempts(n) /\ Attempts(c) \subseteq Attempts(n)
        /\ W \cup {j} \in SUBSET Attempts(n) /\ j \notin W
    BY <2>3
  <2> QED BY <2>4 DEF j
<1>4. W2 \in SUBSET Attempts(n)
  BY <1>3
<1>5. /\ IsFiniteSet(W) /\ IsFiniteSet(Q) /\ Cardinality(W) \in Nat /\ Cardinality(Q) \in Nat
      /\ Cardinality(Q2) \in Nat
  BY AttemptsAreCounted
<1>6. /\ IsFiniteSet(W \cup {n.count}) /\ Cardinality(W2) \in Nat
      /\ Cardinality(W \cup {n.count}) \in Nat
  BY <1>3, <1>4, AttemptsAreCounted
<1>7. Cardinality(W2) <= Cardinality(W \cup {n.count}) /\ Cardinality(Q2) <= Cardinality(Q)
  BY <1>5, <1>6, FS_Subset
<1>8. Cardinality(W \cup {n.count}) = Cardinality(W) + 1
  BY <1>3, <1>5, FS_AddElement
<1>9. p.times + Cardinality(W2) <= n.count /\ Cardinality(Q2) <= p.times
  <2>1. p.times + Cardinality(W) <= c.count /\ Cardinality(Q) <= p.times
    BY DEF Counted
  <2>2. c.count \in Nat
    BY <1>2
  <2> QED BY <1>1, <1>5, <1>6, <1>7, <1>8, <2>1, <2>2
<1>10. 2 \in Attempts(n) => n.tries[2].state # "delivered"
  <2> SUFFICES ASSUME 2 \in Attempts(n) PROVE n.tries[2].state # "delivered"
    OBVIOUS
  <2>1. n.count = 2
    BY <1>2 DEF Attempts
  <2> QED BY <1>1, <2>1
<1> QED BY <1>9, <1>10 DEF Counted

-----------------------------------------------------------------------------
(* Quiet steps.                                                            *)

\* What fits at the same time fits then.
LEMMA FitsThen ==
    ASSUME clock' = clock, \A a \in Advice : Fits(advised'[a])
    PROVE  RowsFit'
BY DEF RowsFit, Fits, Sound, Permits, Expiries, Closing, Answered, Attempts

\* Steps that are quiet for every advice.
LEMMA QuietStep ==
    ASSUME ReminderAssumption, Reminders, TypesHold', clock' = clock,
           \A a \in Advice : Fits(advised'[a]) /\ \E P : Quiet(a, P)
    PROVE  Reminders'
<1>1. RowsFit'
  BY FitsThen
<1>2. ASSUME NEW a \in Advice PROVE InOrder(a)'
  BY QuietKeepsOrder DEF Reminders, RowsFit
<1> QED BY <1>1, <1>2 DEF Reminders

\* A device whose permits and reports go away, or are copied, is quiet.
DeviceQuiet(d, a) ==
    /\ held'[d][a] \subseteq held[d][a]
    /\ Reports(d, a)' \subseteq Reports(d, a)
    /\ CopyIsOlder(d, a)'

Kept(d, a) ==
    /\ held'[d][a] \subseteq held[d][a]
    /\ Sent(d, a)' \subseteq Sent(d, a)
    /\ receipt'[d][a] \in {receipt[d][a], copy[d][a], NoReceipt}
    /\ copy'[d][a] \in {receipt[d][a], copy[d][a], NoReceipt}
    /\ \/ copy'[d][a] = NoReceipt \/ receipt'[d][a] = NoReceipt \/ copy'[d][a] = receipt'[d][a]
       \/ receipt'[d][a] = receipt[d][a] /\ copy'[d][a] = copy[d][a]

LEMMA KeptIsQuiet ==
    ASSUME TypesHold, NEW a \in Advice, NEW d \in Machine, InOrder(a), Kept(d, a)
    PROVE  DeviceQuiet(d, a)
<1>1. Reports(d, a)' \subseteq Reports(d, a)
  BY DEF Kept, Reports
<1>2. CopyIsOlder(d, a)
  BY DEF InOrder, DeviceInOrder
<1>3. receipt[d][a].token <= receipt[d][a].token /\ copy[d][a].token <= copy[d][a].token
  <2>1. receipt[d][a] \in Receipt /\ copy[d][a] \in Receipt
    BY DEF TypesHold, ReminderTypeOK
  <2>2. receipt[d][a].token \in Nat /\ copy[d][a].token \in Nat
    BY <2>1 DEF Receipt, NoReceipt
  <2> QED BY <2>2
<1>4. CopyIsOlder(d, a)'
  BY <1>2, <1>3 DEF Kept, CopyIsOlder
<1> QED BY <1>1, <1>4 DEF Kept, DeviceQuiet

\* A device that takes no part.
LEMMA IdleIsKept ==
    ASSUME NEW a, NEW d, held'[d][a] = held[d][a], receipt'[d][a] = receipt[d][a],
           copy'[d][a] = copy[d][a], inflight' \subseteq inflight
    PROVE  Kept(d, a)
BY DEF Kept, Sent

\* Steps of the server that no device takes part in.
LEMMA ServerStep ==
    ASSUME ReminderAssumption, Reminders, UNCHANGED <<clock, client>>,
           advised' \in [Advice -> Case], muted' \subseteq Advice,
           left' \in [deadlines : SUBSET Nat, answers : SUBSET Answers, faults : Nat, mutes : Nat],
           \A a \in Advice : Fits(advised'[a]) /\ Evolves(advised[a], advised'[a], {})
    PROVE  Reminders'
<1>1. /\ clock' = clock /\ held' = held /\ receipt' = receipt /\ round' = round /\ copy' = copy
      /\ inflight' = inflight /\ popups' = popups
  BY DEF client
<1>2. TypesHold'
  BY <1>1 DEF Reminders, TypesHold, ReminderTypeOK
<1>3. ASSUME NEW a \in Advice PROVE Quiet(a, {})
  <2>1. \A d \in Machine : DeviceQuiet(d, a)
    BY <1>1, IdleIsKept, KeptIsQuiet DEF Reminders
  <2> QED BY <1>1, <2>1 DEF Quiet, DeviceQuiet
<1> QED BY <1>1, <1>2, <1>3, QuietStep

\* The list of advice is read.
LEMMA ListAdviceKeeps ==
    ASSUME ReminderAssumption, Reminders, ListAdvice
    PROVE  Reminders'
<1>1. clock \in Time /\ RowsFit
  BY DEF Reminders, TypesHold, ReminderTypeOK
<1>2. ASSUME NEW a \in Advice
      PROVE  Fits(advised'[a]) /\ Evolves(advised[a], advised'[a], {}) /\ advised'[a] \in Case
  <2>1. advised'[a] = Sweep(advised[a]) /\ Fits(advised[a])
    BY <1>1 DEF ListAdvice, Swept, RowsFit
  <2>2. Fits(Sweep(advised[a])) /\ Evolves(advised[a], Sweep(advised[a]), {})
    BY <1>1, <2>1, SweepSweeps
  <2> QED BY <2>1, <2>2 DEF Fits, Sound
<1>3. advised' \in [Advice -> Case]
  BY <1>2 DEF ListAdvice, Swept
<1>4. UNCHANGED <<clock, client, muted, left>>
  BY DEF ListAdvice
<1> QED BY <1>2, <1>3, <1>4, ServerStep DEF Reminders, TypesHold, ReminderTypeOK

\* Advice whose deadline is over is withdrawn.
LEMMA WithdrawExpiredKeeps ==
    ASSUME ReminderAssumption, Reminders, WithdrawExpired
    PROVE  Reminders'
<1>1. ASSUME NEW a \in Advice
      PROVE  Fits(advised'[a]) /\ Evolves(advised[a], advised'[a], {}) /\ advised'[a] \in Case
  <2>1. Fits(advised[a])
    BY DEF Reminders, RowsFit
  <2>2. advised'[a] = IF advised[a].status = "active" /\ advised[a].deadline <= clock
                      THEN [advised[a] EXCEPT !.status = "withdrawn"] ELSE advised[a]
    BY DEF WithdrawExpired
  <2>3. CASE advised[a].status = "active" /\ advised[a].deadline <= clock
    <3>1. advised[a].status # "absent" /\ advised'[a] = [advised[a] EXCEPT !.status = "withdrawn"]
      BY <2>2, <2>3
    <3> QED BY <2>1, <3>1, ClosedFits DEF Fits, Sound
  <2>4. CASE ~(advised[a].status = "active" /\ advised[a].deadline <= clock)
    BY <2>1, <2>2, <2>4, NothingFollows DEF Follows, Fits, Sound
  <2> QED BY <2>3, <2>4
<1>2. advised' \in [Advice -> Case]
  BY <1>1 DEF WithdrawExpired
<1>3. UNCHANGED <<clock, client, muted, left>>
  BY DEF WithdrawExpired
<1> QED BY <1>1, <1>2, <1>3, ServerStep DEF Reminders, TypesHold, ReminderTypeOK

\* One row became another.
LEMMA OneRow ==
    ASSUME Reminders, NEW a \in Advice, NEW n, advised' = [advised EXCEPT ![a] = n], Fits(n),
           Evolves(advised[a], n, {})
    PROVE  /\ advised' \in [Advice -> Case]
           /\ \A b \in Advice : Fits(advised'[b]) /\ Evolves(advised[b], advised'[b], {})
<1>1. ASSUME NEW b \in Advice
      PROVE  advised'[b] \in Case /\ Fits(advised'[b]) /\ Evolves(advised[b], advised'[b], {})
  <2>1. advised \in [Advice -> Case] /\ Fits(advised[b])
    BY DEF Reminders, RowsFit, TypesHold, ReminderTypeOK
  <2>2. CASE b = a
    <3>1. advised'[b] = n
      BY <2>1, <2>2
    <3> QED BY <2>2, <3>1 DEF Fits, Sound
  <2>3. CASE b # a
    <3>1. advised'[b] = advised[b]
      BY <2>1, <2>3
    <3> QED BY <2>1, <3>1, NothingFollows DEF Follows, Fits, Sound
  <2> QED BY <2>2, <2>3
<1>2. DOMAIN advised' = Advice /\ advised' = [b \in Advice |-> advised'[b]]
  BY DEF Reminders, TypesHold, ReminderTypeOK
<1> QED BY <1>1, <1>2

\* An answer of the user.
LEMMA RecordFeedbackKeeps ==
    ASSUME ReminderAssumption, Reminders, NEW a \in Advice, NEW kind \in left.answers,
           RecordFeedback(a, kind)
    PROVE  Reminders'
<1>1. clock \in Time /\ Fits(advised[a]) /\ kind \in Answers /\ advised[a].status # "absent"
  BY DEF Reminders, RowsFit, TypesHold, ReminderTypeOK, RecordFeedback
<1>2. HeardOf(advised[a], kind, Heard(advised[a], kind))
  BY <1>1, HeardIsHeard
<1>3. advised' = [advised EXCEPT ![a] = Heard(advised[a], kind)]
  BY DEF RecordFeedback, Reminders, TypesHold, ReminderTypeOK
<1>4. /\ advised' \in [Advice -> Case]
      /\ \A b \in Advice : Fits(advised'[b]) /\ Evolves(advised[b], advised'[b], {})
  BY <1>2, <1>3, OneRow DEF HeardOf
<1>5. UNCHANGED <<clock, client, muted, left>>
  BY DEF RecordFeedback
<1> QED BY <1>4, <1>5, ServerStep DEF Reminders, TypesHold, ReminderTypeOK

\* An outcome.
LEMMA RecordOutcomeKeeps ==
    ASSUME ReminderAssumption, Reminders, NEW a \in Advice, RecordOutcome(a)
    PROVE  Reminders'
<1>1. Fits(advised[a]) /\ advised[a].status # "absent"
  BY DEF Reminders, RowsFit, RecordOutcome
<1>2. PICK n : n = [advised[a] EXCEPT !.status = "verified"]
  OBVIOUS
<1>3. Fits(n) /\ Evolves(advised[a], n, {})
  BY <1>1, <1>2, ClosedFits
<1>4. advised' = [advised EXCEPT ![a] = n]
  BY <1>2 DEF RecordOutcome, Reminders, TypesHold, ReminderTypeOK
<1>5. /\ advised' \in [Advice -> Case]
      /\ \A b \in Advice : Fits(advised'[b]) /\ Evolves(advised[b], advised'[b], {})
  BY <1>3, <1>4, OneRow
<1>6. UNCHANGED <<clock, client, muted, left>>
  BY DEF RecordOutcome
<1> QED BY <1>5, <1>6, ServerStep DEF Reminders, TypesHold, ReminderTypeOK

\* Advice is published.
LEMMA PublishKeeps ==
    ASSUME ReminderAssumption, Reminders, NEW a \in Advice, Publish(a)
    PROVE  Reminders'
<1>1. PICK due \in {t \in left.deadlines : t > clock}, s \in {"pending", "resolved", "none"} :
         advised' = [advised EXCEPT ![a].status = "active", ![a].deadline = due, ![a].state = s]
  BY DEF Publish
<1>2. Fits(advised[a]) /\ advised[a].status = "absent" /\ due \in Nat
  BY DEF Reminders, RowsFit, TypesHold, Publish
<1>3. PICK n : n = [advised[a] EXCEPT !.status = "active", !.deadline = due, !.state = s]
  OBVIOUS
<1>4. Fits(n) /\ Evolves(advised[a], n, {})
  BY <1>2, <1>3, PublishedFits
<1>5. advised' = [advised EXCEPT ![a] = n]
  BY <1>1, <1>3 DEF Reminders, TypesHold, ReminderTypeOK
<1>6. /\ advised' \in [Advice -> Case]
      /\ \A b \in Advice : Fits(advised'[b]) /\ Evolves(advised[b], advised'[b], {})
  BY <1>4, <1>5, OneRow
<1>7. UNCHANGED <<clock, client, muted, left>>
  BY DEF Publish
<1> QED BY <1>6, <1>7, ServerStep DEF Reminders, TypesHold, ReminderTypeOK

\* A pause.
LEMMA SetPausedKeeps ==
    ASSUME ReminderAssumption, Reminders, SetPaused
    PROVE  Reminders'
<1>1. UNCHANGED <<clock, client, advised>> /\ muted' \subseteq Advice
  BY DEF SetPaused
<1>2. left' \in [deadlines : SUBSET Nat, answers : SUBSET Answers, faults : Nat, mutes : Nat]
  BY DEF SetPaused, Reminders, TypesHold
<1>3. \A a \in Advice : Fits(advised'[a]) /\ Evolves(advised[a], advised'[a], {})
  BY <1>1, NothingFollows DEF Follows, Reminders, RowsFit
<1>4. advised' \in [Advice -> Case]
  BY <1>1 DEF Reminders, TypesHold, ReminderTypeOK
<1> QED BY <1>1, <1>2, <1>3, <1>4, ServerStep

\* Time passes.
LEMMA TickKeeps ==
    ASSUME ReminderAssumption, Reminders, ReminderTick
    PROVE  Reminders'
<1>1. /\ clock \in Nat /\ clock' = clock + 1 /\ clock' \in Time /\ Lease \in Nat
      /\ advised' = advised /\ muted' = muted /\ left' = left
      /\ held' = held /\ receipt' = receipt /\ round' = round /\ copy' = copy
      /\ inflight' = inflight /\ popups' = popups
  BY DEF ReminderTick, client, Reminders, TypesHold, ReminderTypeOK, Time, ReminderAssumption
<1>2. TypesHold'
  BY <1>1 DEF Reminders, TypesHold, ReminderTypeOK
<1>3. ASSUME NEW a \in Advice PROVE Fits(advised[a])'
  <2>1. Fits(advised[a])
    BY DEF Reminders, RowsFit
  <2>2. \A k \in Attempts(advised[a]) : advised[a].tries[k].expires <= clock' + Lease
    <3>1. \A k \in Attempts(advised[a]) : advised[a].tries[k].expires <= clock + Lease
                                          /\ advised[a].tries[k].expires \in Nat
      BY <2>1, AtMostTwoAttempts DEF Fits, Sound, Expiries
    <3> QED BY <1>1, <3>1
  <2>3. Expiries(advised[a])'
    BY <1>1, <2>1, <2>2 DEF Fits, Sound, Expiries, Attempts
  <2> QED BY <1>1, <2>1, <2>3 DEF Fits, Sound, Permits, Closing, Answered, Attempts
<1>4. ASSUME NEW a \in Advice PROVE InOrder(a)'
  <2>1. InOrder(a) /\ popups[a].last \in Nat
    BY DEF Reminders, TypesHold, ReminderTypeOK, Time
  <2>2. popups[a].last <= clock'
    BY <1>1, <2>1 DEF InOrder
  <2> QED BY <1>1, <2>1, <2>2
          DEF InOrder, DeviceInOrder, HeldBy, ReportedBy, CopyIsOlder, Counted, Waiting, Proved,
              Reports, Sent, Attempts
<1> QED BY <1>2, <1>3, <1>4 DEF Reminders, RowsFit

-----------------------------------------------------------------------------
(* The devices, where they show and claim nothing.                         *)

\* The attempts of P are proved in time by a report of a device.
ProvedBy(a, n, P) ==
    /\ Evolves(advised[a], n, P)
    /\ \A k \in P : /\ k \in Attempts(advised[a]) /\ ~(advised[a].tries[k].expires <= clock)
                    /\ \E d \in Machine : \E r \in Reports(d, a) : r.action = "complete" /\ r.token = k

\* A report that reaches the server, or does not.
LEMMA ReportProves ==
    ASSUME ReminderAssumption, Reminders, NEW a \in Advice, NEW d \in Machine, NEW r,
           r # NoReceipt => r \in Reports(d, a),
           advised' \in {advised, [advised EXCEPT ![a] = Reported(advised[a], d, r)]}
    PROVE  /\ advised' \in [Advice -> Case]
           /\ \A b \in Advice : /\ Fits(advised'[b]) /\ advised'[b].fb = advised[b].fb
                                /\ \E P : ProvedBy(b, advised'[b], P)
<1>1. advised \in [Advice -> Case] /\ \A b \in Advice : Fits(advised[b])
  BY DEF Reminders, RowsFit, TypesHold, ReminderTypeOK
<1>2. ASSUME NEW b \in Advice, advised'[b] = advised[b]
      PROVE  /\ Fits(advised'[b]) /\ advised'[b].fb = advised[b].fb
             /\ \E P : ProvedBy(b, advised'[b], P)
  <2>1. ProvedBy(b, advised'[b], {})
    BY <1>1, <1>2, NothingFollows DEF Follows, ProvedBy
  <2> QED BY <1>1, <1>2, <2>1
<1>3. CASE advised' = advised
  BY <1>1, <1>2, <1>3
<1>4. CASE advised' = [advised EXCEPT ![a] = Reported(advised[a], d, r)]
  <2>1. PICK n : n = Reported(advised[a], d, r)
    OBVIOUS
  <2>2. ToldOf(advised[a], d, r, n)
    BY <1>1, <2>1, ReportedIsTold
  <2>3. \E P : ProvedBy(a, n, P)
    <3>1. CASE Evolves(advised[a], n, {})
      <4>1. ProvedBy(a, n, {})
        BY <3>1 DEF ProvedBy
      <4> QED BY <4>1
    <3>2. CASE /\ r.action = "complete" /\ r.token \in Attempts(advised[a])
               /\ advised[a].tries[r.token].device = d /\ ~(advised[a].tries[r.token].expires <= clock)
               /\ Evolves(advised[a], n, {r.token})
      <4>1. r \in Reports(d, a)
        BY <3>2 DEF NoReceipt
      <4>2. ProvedBy(a, n, {r.token})
        BY <3>2, <4>1 DEF ProvedBy
      <4> QED BY <4>2
    <3> QED BY <2>2, <3>1, <3>2 DEF ToldOf
  <2>4. advised'[a] = n /\ \A b \in Advice \ {a} : advised'[b] = advised[b]
    BY <1>1, <1>4, <2>1
  <2>5. Fits(n) /\ n.fb = advised[a].fb
    BY <2>2 DEF ToldOf
  <2>6. \A b \in Advice : /\ Fits(advised'[b]) /\ advised'[b].fb = advised[b].fb
                          /\ \E P : ProvedBy(b, advised'[b], P)
    BY <1>2, <2>3, <2>4, <2>5
  <2>7. n \in Case
    BY <2>5 DEF Fits, Sound
  <2> QED BY <1>1, <1>4, <2>1, <2>6, <2>7
<1> QED BY <1>3, <1>4

\* Steps of a device that show and claim nothing.
LEMMA DeviceStep ==
    ASSUME ReminderAssumption, Reminders, TypesHold', clock' = clock, popups' = popups,
           \A a \in Advice : Fits(advised'[a]) /\ \E P : ProvedBy(a, advised'[a], P),
           \A d \in Machine, a \in Advice : Kept(d, a)
    PROVE  Reminders'
<1>1. ASSUME NEW a \in Advice PROVE \E P : Quiet(a, P)
  <2>1. \A d \in Machine : DeviceQuiet(d, a)
    BY KeptIsQuiet DEF Reminders
  <2>2. PICK P : ProvedBy(a, advised'[a], P)
    OBVIOUS
  <2>3. Quiet(a, P)
    BY <2>1, <2>2 DEF Quiet, DeviceQuiet, ProvedBy
  <2> QED BY <2>3
<1> QED BY <1>1, QuietStep

\* Nothing happens to the rows.
LEMMA SameRows ==
    ASSUME Reminders, advised' = advised
    PROVE  \A a \in Advice : Fits(advised'[a]) /\ \E P : ProvedBy(a, advised'[a], P)
<1> SUFFICES ASSUME NEW a \in Advice
             PROVE  Fits(advised'[a]) /\ \E P : ProvedBy(a, advised'[a], P)
  OBVIOUS
<1>1. Fits(advised[a])
  BY DEF Reminders, RowsFit
<1>2. ProvedBy(a, advised'[a], {})
  BY <1>1, NothingFollows DEF Follows, ProvedBy
<1> QED BY <1>1, <1>2

\* A round begins.
LEMMA BeginRoundKeeps ==
    ASSUME ReminderAssumption, Reminders, NEW d \in Machine, BeginRound(d)
    PROVE  Reminders'
<1>1. /\ copy' = [copy EXCEPT ![d] = receipt[d]]
      /\ round' = [round EXCEPT ![d] = IF Unsent(receipt[d]) THEN "clean" ELSE "sending"]
      /\ UNCHANGED <<clock, advised, muted, held, receipt, inflight, popups, left>>
      /\ TypesHold
  BY DEF BeginRound, Reminders
<1>2. TypesHold'
  <2>1. copy' \in [Machine -> [Advice -> Receipt]]
    BY <1>1 DEF TypesHold, ReminderTypeOK
  <2>2. round' \in [Machine -> {"idle", "sending", "failing", "clean"}]
    BY <1>1 DEF TypesHold, ReminderTypeOK
  <2> QED BY <1>1, <2>1, <2>2 DEF TypesHold, ReminderTypeOK
<1>3. ASSUME NEW e \in Machine, NEW a \in Advice PROVE Kept(e, a)
  <2>1. CASE e = d
    <3>1. copy'[e][a] = receipt[e][a] /\ receipt'[e][a] = receipt[e][a]
      BY <1>1, <2>1 DEF TypesHold, ReminderTypeOK
    <3> QED BY <1>1, <3>1 DEF Kept, Sent
  <2>2. CASE e # d
    <3>1. copy'[e][a] = copy[e][a]
      BY <1>1, <2>2 DEF TypesHold, ReminderTypeOK
    <3> QED BY <1>1, <3>1, IdleIsKept
  <2> QED BY <2>1, <2>2
<1> QED BY <1>1, <1>2, <1>3, SameRows, DeviceStep

\* A copy is written back, with its report or without.
LEMMA WrittenBack ==
    ASSUME Reminders, NEW d \in Machine, NEW a \in Advice, NEW put, put \in {NoReceipt, copy[d][a]},
           NEW failed \in BOOLEAN, WroteBack(d, a, put, failed), held' = held, inflight' = inflight
    PROVE  /\ receipt' \in [Machine -> [Advice -> Receipt]]
           /\ round' \in [Machine -> {"idle", "sending", "failing", "clean"}]
           /\ copy' \in [Machine -> [Advice -> Receipt]]
           /\ \A e \in Machine, b \in Advice : Kept(e, b)
<1>1. TypesHold /\ copy[d][a] \in Receipt /\ NoReceipt \in Receipt
  BY DEF Reminders, TypesHold, ReminderTypeOK, Receipt
<1>2. /\ receipt' = [receipt EXCEPT ![d][a] = put]
      /\ copy' = [copy EXCEPT ![d][a] = NoReceipt]
  BY DEF WroteBack
<1>3. /\ receipt' \in [Machine -> [Advice -> Receipt]]
      /\ copy' \in [Machine -> [Advice -> Receipt]]
  BY <1>1, <1>2 DEF TypesHold, ReminderTypeOK
<1>4. round' \in [Machine -> {"idle", "sending", "failing", "clean"}]
  <2> DEFINE s == IF ~Unsent(copy'[d]) THEN IF failed THEN "failing" ELSE round[d]
                  ELSE IF failed \/ round[d] = "failing" THEN "idle" ELSE "clean"
  <2>1. round' = [round EXCEPT ![d] = s]
    BY DEF WroteBack
  <2>2. s \in {"idle", "failing", "clean", round[d]}
    OBVIOUS
  <2> HIDE DEF s
  <2>3. round \in [Machine -> {"idle", "sending", "failing", "clean"}]
    BY <1>1 DEF TypesHold, ReminderTypeOK
  <2>4. round[d] \in {"idle", "sending", "failing", "clean"}
    BY <2>3
  <2>5. s \in {"idle", "sending", "failing", "clean"}
    BY <2>2, <2>4
  <2> QED BY <2>1, <2>3, <2>5
<1>5. ASSUME NEW e \in Machine, NEW b \in Advice PROVE Kept(e, b)
  <2>1. CASE e = d /\ b = a
    <3>1. receipt'[e][b] = put /\ copy'[e][b] = NoReceipt
      BY <1>1, <1>2, <2>1 DEF TypesHold, ReminderTypeOK
    <3> QED BY <2>1, <3>1 DEF Kept, Sent
  <2>2. CASE ~(e = d /\ b = a)
    <3>1. receipt'[e][b] = receipt[e][b] /\ copy'[e][b] = copy[e][b]
      BY <1>1, <1>2, <2>2 DEF TypesHold, ReminderTypeOK
    <3> QED BY <3>1, IdleIsKept
  <2> QED BY <2>1, <2>2
<1> QED BY <1>3, <1>4, <1>5

\* What a copy and a sent report may say.
LEMMA CopyIsReport ==
    ASSUME NEW d, NEW a, copy[d][a] # NoReceipt
    PROVE  copy[d][a] \in Reports(d, a)
BY DEF Reports

LEMMA SentIsReport ==
    ASSUME NEW r \in inflight, r.receipt # NoReceipt
    PROVE  r.receipt \in Reports(r.device, r.advice)
<1>1. r \in {p \in inflight : p.device = r.device /\ p.advice = r.advice}
  OBVIOUS
<1>2. r.receipt \in Sent(r.device, r.advice)
  BY <1>1 DEF Sent
<1> QED BY <1>2 DEF Reports

\* The server answers a report of a round.
LEMMA RetryAnsweredKeeps ==
    ASSUME ReminderAssumption, Reminders, NEW d \in Machine, NEW a \in Advice, RetryAnswered(d, a)
    PROVE  Reminders'
<1>1. /\ advised' = [advised EXCEPT ![a] = Reported(advised[a], d, copy[d][a])]
      /\ copy[d][a] # NoReceipt /\ WroteBack(d, a, NoReceipt, FALSE)
      /\ UNCHANGED <<clock, muted, held, inflight, popups, left>> /\ TypesHold
  BY DEF RetryAnswered, Reminders, TypesHold, ReminderTypeOK
<1>2. /\ advised' \in [Advice -> Case]
      /\ \A b \in Advice : Fits(advised'[b]) /\ \E P : ProvedBy(b, advised'[b], P)
  BY <1>1, CopyIsReport, ReportProves
<1>3. /\ receipt' \in [Machine -> [Advice -> Receipt]]
      /\ round' \in [Machine -> {"idle", "sending", "failing", "clean"}]
      /\ copy' \in [Machine -> [Advice -> Receipt]]
      /\ \A e \in Machine, b \in Advice : Kept(e, b)
  BY <1>1, WrittenBack
<1>4. TypesHold'
  BY <1>1, <1>2, <1>3 DEF TypesHold, ReminderTypeOK
<1> QED BY <1>1, <1>2, <1>3, <1>4, DeviceStep

\* A fault leaves less of the bounds.
LEMMA FaultSpends ==
    ASSUME TypesHold, Fault
    PROVE  left' \in [deadlines : SUBSET Nat, answers : SUBSET Answers, faults : Nat, mutes : Nat]
BY DEF Fault, TypesHold

\* No answer comes.
LEMMA RetryFailsKeeps ==
    ASSUME ReminderAssumption, Reminders, NEW d \in Machine, NEW a \in Advice, RetryFails(d, a)
    PROVE  Reminders'
<1>1. /\ advised' \in {advised, [advised EXCEPT ![a] = Reported(advised[a], d, copy[d][a])]}
      /\ copy[d][a] # NoReceipt /\ WroteBack(d, a, copy[d][a], TRUE) /\ Fault
      /\ UNCHANGED <<clock, muted, held, inflight, popups>> /\ TypesHold
  BY DEF RetryFails, Reminders, TypesHold, ReminderTypeOK
<1>2. /\ advised' \in [Advice -> Case]
      /\ \A b \in Advice : Fits(advised'[b]) /\ \E P : ProvedBy(b, advised'[b], P)
  BY <1>1, CopyIsReport, ReportProves
<1>3. /\ receipt' \in [Machine -> [Advice -> Receipt]]
      /\ round' \in [Machine -> {"idle", "sending", "failing", "clean"}]
      /\ copy' \in [Machine -> [Advice -> Receipt]]
      /\ \A e \in Machine, b \in Advice : Kept(e, b)
  BY <1>1, WrittenBack
<1>4. TypesHold'
  BY <1>1, <1>2, <1>3, FaultSpends DEF TypesHold, ReminderTypeOK
<1> QED BY <1>1, <1>2, <1>3, <1>4, DeviceStep

\* What is decided is not shown any more.
LEMMA FinalizeKeeps ==
    ASSUME ReminderAssumption, Reminders, NEW d \in Machine, NEW a \in Advice, Finalize(d, a)
    PROVE  Reminders'
<1>1. /\ held' = [held EXCEPT ![d][a] = {}] /\ TypesHold
      /\ UNCHANGED <<clock, advised, muted, receipt, round, copy, inflight, popups, left>>
  BY DEF Finalize, Reminders
<1>2. held' \in [Machine -> [Advice -> SUBSET Nat]]
  BY <1>1 DEF TypesHold, ReminderTypeOK
<1>3. TypesHold'
  BY <1>1, <1>2 DEF TypesHold, ReminderTypeOK
<1>4. ASSUME NEW e \in Machine, NEW b \in Advice PROVE Kept(e, b)
  <2>1. held'[e][b] \subseteq held[e][b]
    BY <1>1 DEF TypesHold, ReminderTypeOK
  <2> QED BY <1>1, <2>1 DEF Kept, Sent
<1> QED BY <1>1, <1>3, <1>4, SameRows, DeviceStep

\* The server answers the report of the interface.
LEMMA ReportAnsweredKeeps ==
    ASSUME ReminderAssumption, Reminders, NEW r \in inflight, ReportAnswered(r)
    PROVE  Reminders'
<1> DEFINE d == r.device
           a == r.advice
<1>1. d \in Machine /\ a \in Advice /\ TypesHold
  BY DEF Reminders, TypesHold, ReminderTypeOK, Report
<1>2. /\ advised' = [advised EXCEPT ![a] = Reported(advised[a], d, r.receipt)]
      /\ inflight' = inflight \ {r}
      /\ receipt' = receipt \/ receipt' = [receipt EXCEPT ![d][a] = NoReceipt]
      /\ UNCHANGED <<clock, muted, held, round, copy, popups, left>>
  BY DEF ReportAnswered, Reminders, TypesHold, ReminderTypeOK
<1>3. r.receipt # NoReceipt => r.receipt \in Reports(d, a)
  BY SentIsReport
<1> HIDE DEF d, a
<1>4. /\ advised' \in [Advice -> Case]
      /\ \A b \in Advice : Fits(advised'[b]) /\ \E P : ProvedBy(b, advised'[b], P)
  BY <1>1, <1>2, <1>3, ReportProves
<1>5. receipt' \in [Machine -> [Advice -> Receipt]]
      /\ \A e \in Machine, b \in Advice : receipt'[e][b] \in {receipt[e][b], NoReceipt}
  <2>1. receipt \in [Machine -> [Advice -> Receipt]] /\ NoReceipt \in Receipt
    BY <1>1 DEF TypesHold, ReminderTypeOK, Receipt
  <2>2. CASE receipt' = receipt
    BY <2>1, <2>2
  <2>3. CASE receipt' = [receipt EXCEPT ![d][a] = NoReceipt]
    <3> QED BY <1>1, <2>1, <2>3
  <2> QED BY <1>2, <2>2, <2>3
<1>6. TypesHold'
  BY <1>1, <1>2, <1>4, <1>5 DEF TypesHold, ReminderTypeOK
<1>7. ASSUME NEW e \in Machine, NEW b \in Advice PROVE Kept(e, b)
  BY <1>2, <1>5 DEF Kept, Sent
<1> QED BY <1>2, <1>4, <1>6, <1>7, DeviceStep

\* Its answer is lost.
LEMMA ReportFailsKeeps ==
    ASSUME ReminderAssumption, Reminders, NEW r \in inflight, ReportFails(r)
    PROVE  Reminders'
<1> DEFINE d == r.device
           a == r.advice
<1>1. d \in Machine /\ a \in Advice /\ TypesHold
  BY DEF Reminders, TypesHold, ReminderTypeOK, Report
<1>2. /\ advised' \in {advised, [advised EXCEPT ![a] = Reported(advised[a], d, r.receipt)]}
      /\ inflight' = inflight \ {r} /\ Fault
      /\ UNCHANGED <<clock, muted, held, receipt, round, copy, popups>>
  BY DEF ReportFails, Reminders, TypesHold, ReminderTypeOK
<1>3. r.receipt # NoReceipt => r.receipt \in Reports(d, a)
  BY SentIsReport
<1> HIDE DEF d, a
<1>4. /\ advised' \in [Advice -> Case]
      /\ \A b \in Advice : Fits(advised'[b]) /\ \E P : ProvedBy(b, advised'[b], P)
  BY <1>1, <1>2, <1>3, ReportProves
<1>5. TypesHold'
  BY <1>1, <1>2, <1>4, FaultSpends DEF TypesHold, ReminderTypeOK
<1>6. ASSUME NEW e \in Machine, NEW b \in Advice PROVE Kept(e, b)
  BY <1>2 DEF Kept, Sent
<1> QED BY <1>2, <1>4, <1>5, <1>6, DeviceStep

-----------------------------------------------------------------------------
(* Popups.                                                                 *)

\* A device of an advice whose row stays.
LEMMA DeviceStaysQuiet ==
    ASSUME NEW a, NEW d \in Machine, InOrder(a), advised'[a] = advised[a], Fits(advised[a]), DeviceQuiet(d, a)
    PROVE  DeviceInOrder(d, a)'
<1>1. Evolves(advised[a], advised[a], {})
  BY NothingFollows DEF Follows
<1>2. /\ HeldBy(advised[a], d, held[d][a])
      /\ ReportedBy(advised[a], d, held[d][a], Reports(d, a))
      /\ held'[d][a] \in SUBSET held[d][a] /\ Reports(d, a)' \in SUBSET Reports(d, a)
      /\ CopyIsOlder(d, a)' /\ {} \cap held[d][a] = {}
  BY DEF InOrder, DeviceInOrder, DeviceQuiet
<1>3. HeldBy(advised[a], d, held'[d][a]) /\ ReportedBy(advised[a], d, held'[d][a], Reports(d, a)')
  BY <1>1, <1>2, DeviceStays
<1> QED BY <1>2, <1>3 DEF DeviceInOrder

\* Popups are counted up, one advice at a time.
LEMMA PopupsStayTyped ==
    ASSUME TypesHold, NEW a \in Advice, Seen(a) \/ popups' = popups
    PROVE  /\ popups' \in [Advice -> [times : Nat, last : Time]]
           /\ \A b \in Advice : b # a => popups'[b] = popups[b]
<1>1. popups \in [Advice -> [times : Nat, last : Time]] /\ clock \in Time
  BY DEF TypesHold, ReminderTypeOK
<1>2. CASE popups' = popups
  BY <1>1, <1>2
<1>3. CASE Seen(a)
  <2> DEFINE p == [times |-> popups[a].times + 1, last |-> clock]
  <2>1. popups' = [popups EXCEPT ![a] = p]
    BY <1>1, <1>3 DEF Seen
  <2>2. popups[a].times \in Nat
    BY <1>1
  <2>3. p \in [times : Nat, last : Time]
    BY <1>1, <2>2
  <2> HIDE DEF p
  <2> QED BY <1>1, <2>1, <2>3
<1> QED BY <1>2, <1>3

\* Advice whose row, permits, reports and popups stay is quiet.
LEMMA NoPartInIt ==
    ASSUME Reminders, NEW a \in Advice, advised'[a] = advised[a], popups'[a] = popups[a],
           \A d \in Machine : Kept(d, a)
    PROVE  Quiet(a, {})
<1>1. Evolves(advised[a], advised[a], {})
  BY NothingFollows DEF Follows, Reminders, RowsFit
<1>2. \A d \in Machine : DeviceQuiet(d, a)
  BY KeptIsQuiet DEF Reminders
<1> QED BY <1>1, <1>2 DEF Quiet, DeviceQuiet

\* The permit that is shown was handed to that device alone.
LEMMA OnlyItsDeviceHolds ==
    ASSUME NEW a, InOrder(a), NEW d \in Machine, NEW k \in held[d][a]
    PROVE  /\ k \in Waiting(a) /\ advised[a].tries[k].state # "delivered"
           /\ \A e \in Machine : k \in held[e][a] => e = d
<1>1. \A e \in Machine : HeldBy(advised[a], e, held[e][a])
  BY DEF InOrder, DeviceInOrder
<1>2. k \in Attempts(advised[a]) /\ advised[a].tries[k].device = d /\ advised[a].tries[k].state # "delivered"
  BY <1>1 DEF HeldBy
<1> QED BY <1>1, <1>2 DEF HeldBy, Waiting

\* A popup of a permit that is given up with it is counted.
LEMMA PopupIsCounted ==
    ASSUME Reminders, NEW a \in Advice, NEW d \in Machine, NEW k \in held[d][a], Seen(a),
           advised' = advised, clock' = clock, \A e \in Machine : DeviceInOrder(e, a)',
           \A e \in Machine : held'[e][a] \subseteq held[e][a], k \notin held'[d][a],
           Proved(a)' \subseteq Proved(a) \cup {k}
    PROVE  InOrder(a)'
<1>1. InOrder(a) /\ Fits(advised[a]) /\ TypesHold
  BY DEF Reminders, RowsFit
<1>2. popups[a].times \in Nat /\ clock \in Nat
  BY <1>1 DEF TypesHold, ReminderTypeOK, Time
<1>3. popups'[a] = [times |-> popups[a].times + 1, last |-> clock]
  BY <1>1 DEF Seen, TypesHold, ReminderTypeOK
<1>4. k \in Waiting(a) /\ advised[a].tries[k].state # "delivered"
      /\ \A e \in Machine : k \in held[e][a] => e = d
  BY <1>1, OnlyItsDeviceHolds
<1>5. Waiting(a)' \in SUBSET (Waiting(a) \ {k})
  BY <1>4 DEF Waiting, Attempts
<1>6. Waiting(a) \in SUBSET Attempts(advised[a]) /\ Proved(a) \in SUBSET Attempts(advised[a])
      /\ Proved(a)' \in SUBSET (Proved(a) \cup {k})
  BY DEF Waiting, Proved
<1>7. popups'[a].times = popups[a].times + 1 /\ popups'[a].last = clock
  BY <1>3
<1>8. Counted(advised[a], Waiting(a), Proved(a), popups[a])
  BY <1>1 DEF InOrder
<1>9. Counted(advised[a], Waiting(a)', Proved(a)', popups'[a])
  BY <1>1, <1>2, <1>4, <1>5, <1>6, <1>7, <1>8, CountedShows
<1>10. popups'[a].last <= clock
  BY <1>2, <1>7
<1> QED BY <1>9, <1>10 DEF InOrder

\* The oldest permit is one of the held ones.
LEMMA OldestIsHeld ==
    ASSUME NEW a, NEW d \in Machine, InOrder(a), Fits(advised[a]), held[d][a] # {}
    PROVE  Oldest(d, a) \in held[d][a] /\ \A j \in held[d][a] : Oldest(d, a) <= j
<1>1. \A k \in held[d][a] : k \in {1, 2}
  BY AtMostTwoAttempts DEF InOrder, DeviceInOrder, HeldBy
<1>2. \E k \in held[d][a] : \A j \in held[d][a] : k <= j
  <2>1. CASE 1 \in held[d][a]
    <3>1. \A j \in held[d][a] : 1 <= j
      BY <1>1
    <3> QED BY <2>1, <3>1
  <2>2. CASE 1 \notin held[d][a]
    <3>1. \A k, j \in held[d][a] : k <= j
      BY <1>1, <2>2
    <3> QED BY <3>1
  <2> QED BY <2>1, <2>2
<1> QED BY <1>2, Zenon DEF Oldest

\* A permit is shown, or found to be impossible to show.
LEMMA ShowKeeps ==
    ASSUME ReminderAssumption, Reminders, NEW d \in Machine, NEW a \in Advice,
           NEW action \in {"complete", "fail"}, Show(d, a, action)
    PROVE  Reminders'
<1>1. TypesHold /\ RowsFit /\ Fits(advised[a]) /\ InOrder(a) /\ held[d][a] # {}
  BY DEF Reminders, RowsFit, Show
<1>2. PICK k : k = Oldest(d, a)
  OBVIOUS
<1>3. k \in held[d][a] /\ \A j \in held[d][a] : k <= j
  BY <1>1, <1>2, OldestIsHeld
<1>4. PICK r : r = [token |-> k, action |-> action]
  OBVIOUS
<1>5. r.token = k /\ r.action = action /\ r # NoReceipt
  BY <1>4 DEF NoReceipt
<1>6. PICK q : q = [device |-> d, advice |-> a, receipt |-> r]
  OBVIOUS
<1>7. q.device = d /\ q.advice = a /\ q.receipt = r
  BY <1>6
<1>8. /\ held' = [held EXCEPT ![d][a] = held[d][a] \ {k}]
      /\ receipt' = [receipt EXCEPT ![d][a] = r]
      /\ inflight' = inflight \cup {q}
      /\ IF action = "complete" THEN Seen(a) ELSE UNCHANGED popups
      /\ UNCHANGED <<clock, advised, muted, round, copy, left>>
  BY <1>1, <1>2, <1>4, <1>5, <1>6 DEF Show, TypesHold, ReminderTypeOK
<1>9. k \in Attempts(advised[a]) /\ k \in Nat
  <2>1. k \in Attempts(advised[a])
    BY <1>1, <1>3 DEF InOrder, DeviceInOrder, HeldBy
  <2> QED BY <1>1, <2>1, AtMostTwoAttempts
<1>10. r \in Receipt /\ q \in Report
  BY <1>4, <1>6, <1>9 DEF Receipt, Report
<1>11. /\ held' \in [Machine -> [Advice -> SUBSET Nat]]
       /\ held'[d][a] = held[d][a] \ {k}
       /\ \A e \in Machine, b \in Advice : e # d \/ b # a => held'[e][b] = held[e][b]
  <2>1. held \in [Machine -> [Advice -> SUBSET Nat]] /\ held[d][a] \ {k} \in SUBSET Nat
    BY <1>1 DEF TypesHold, ReminderTypeOK
  <2> QED BY <1>8, <2>1
<1>12. /\ receipt' \in [Machine -> [Advice -> Receipt]]
       /\ receipt'[d][a] = r
       /\ \A e \in Machine, b \in Advice : e # d \/ b # a => receipt'[e][b] = receipt[e][b]
  <2>1. receipt \in [Machine -> [Advice -> Receipt]]
    BY <1>1 DEF TypesHold, ReminderTypeOK
  <2> QED BY <1>8, <1>10, <2>1
<1>13. popups' \in [Advice -> [times : Nat, last : Time]]
       /\ \A b \in Advice : b # a => popups'[b] = popups[b]
  BY <1>1, <1>8, PopupsStayTyped
<1>14. TypesHold'
  BY <1>1, <1>8, <1>10, <1>11, <1>12, <1>13 DEF TypesHold, ReminderTypeOK
<1>15. ASSUME NEW e \in Machine, NEW b \in Advice, e # d \/ b # a PROVE Kept(e, b)
  <2>1. Sent(e, b)' \subseteq Sent(e, b)
    BY <1>7, <1>8, <1>15 DEF Sent
  <2> QED BY <1>8, <1>11, <1>12, <1>15, <2>1 DEF Kept
<1>16. ASSUME NEW b \in Advice, b # a PROVE InOrder(b)'
  <2>1. Quiet(b, {})
    BY <1>8, <1>13, <1>15, <1>16, NoPartInIt
  <2> QED BY <1>8, <2>1, QuietKeepsOrder DEF Reminders, RowsFit
<1>17. Reports(d, a)' \subseteq Reports(d, a) \cup {r}
  <2>1. Sent(d, a)' \subseteq Sent(d, a) \cup {r}
    BY <1>7, <1>8 DEF Sent
  <2> QED BY <1>8, <1>12, <2>1 DEF Reports
<1>18. /\ HeldBy(advised[a], d, held[d][a])
       /\ ReportedBy(advised[a], d, held[d][a], Reports(d, a))
  BY <1>1 DEF InOrder, DeviceInOrder
<1>19. DeviceInOrder(d, a)'
  <2>1. HeldBy(advised'[a], d, held'[d][a])
    BY <1>8, <1>11, <1>18 DEF HeldBy
  <2>2. \A p \in Reports(d, a) : p.token < k
    BY <1>3, <1>18 DEF ReportedBy
  <2>3. \A j \in held'[d][a] : k < j
    <3>1. \A j \in held[d][a] : j \in {1, 2}
      BY <1>1, <1>18, AtMostTwoAttempts DEF HeldBy
    <3> QED BY <1>3, <1>9, <1>11, <3>1
  <2>4. ReportedBy(advised[a], d, held'[d][a], Reports(d, a)')
    <3> SUFFICES ASSUME NEW p \in Reports(d, a)'
                 PROVE  /\ p.token \in Attempts(advised[a]) /\ advised[a].tries[p.token].device = d
                        /\ \A j \in held'[d][a] : p.token < j
                        /\ \A o \in Reports(d, a)' : o.token = p.token => o = p
      BY DEF ReportedBy
    <3>1. CASE p \in Reports(d, a)
      <4>1. p.token \in Attempts(advised[a]) /\ advised[a].tries[p.token].device = d
        BY <1>18, <3>1 DEF ReportedBy
      <4>2. \A j \in held'[d][a] : p.token < j
        BY <1>11, <1>18, <3>1 DEF ReportedBy
      <4>3. p.token # k
        BY <1>9, <2>2, <3>1
      <4>4. \A o \in Reports(d, a)' : o.token = p.token => o = p
        BY <1>5, <1>17, <1>18, <3>1, <4>3 DEF ReportedBy
      <4> QED BY <4>1, <4>2, <4>4
    <3>2. CASE p = r
      <4>1. advised[a].tries[k].device = d
        BY <1>3, <1>18 DEF HeldBy
      <4>2. \A o \in Reports(d, a)' : o.token = k => o = r
        <5>1. \A o \in Reports(d, a) : o.token # k
          BY <1>9, <2>2
        <5> QED BY <1>17, <5>1
      <4> QED BY <1>5, <1>9, <2>3, <3>2, <4>1, <4>2
    <3> QED BY <1>17, <3>1, <3>2
  <2>5. CopyIsOlder(d, a)'
    <3> SUFFICES ASSUME copy[d][a] # NoReceipt PROVE copy[d][a].token <= k
      BY <1>5, <1>8, <1>12 DEF CopyIsOlder
    <3>1. copy[d][a].token < k
      BY <2>2, CopyIsReport
    <3>2. copy[d][a].token \in Nat
      BY <1>1 DEF TypesHold, ReminderTypeOK, Receipt, NoReceipt
    <3> QED BY <1>9, <3>1, <3>2
  <2> QED BY <1>8, <2>1, <2>4, <2>5 DEF DeviceInOrder
<1>20. ASSUME NEW e \in Machine PROVE DeviceInOrder(e, a)'
  <2>1. CASE e = d
    BY <1>19, <2>1
  <2>2. CASE e # d
    <3>1. DeviceQuiet(e, a)
      BY <1>1, <1>15, <2>2, KeptIsQuiet
    <3> QED BY <1>1, <1>8, <3>1, DeviceStaysQuiet
  <2> QED BY <2>1, <2>2
<1>21. \A e \in Machine : e # d => Reports(e, a)' \subseteq Reports(e, a)
  BY <1>1, <1>15, KeptIsQuiet DEF DeviceQuiet
<1>22. InOrder(a)'
  <2>1. CASE action = "complete"
    <3>1. Proved(a)' \subseteq Proved(a) \cup {k}
      <4> SUFFICES ASSUME NEW j \in Proved(a)', j # k PROVE j \in Proved(a)
        OBVIOUS
      <4>1. j \in Attempts(advised[a])
        BY <1>8 DEF Proved, Attempts
      <4>2. CASE advised[a].tries[j].state = "delivered"
        BY <4>1, <4>2 DEF Proved
      <4>3. CASE advised[a].tries[j].state # "delivered"
        <5>1. PICK e \in Machine : \E o \in Reports(e, a)' : o.action = "complete" /\ o.token = j
          BY <1>8, <4>3 DEF Proved
        <5>2. PICK o \in Reports(e, a)' : o.action = "complete" /\ o.token = j
          BY <5>1
        <5>3. o \in Reports(e, a)
          BY <1>5, <1>17, <1>21, <5>2
        <5> QED BY <4>1, <5>2, <5>3 DEF Proved
      <4> QED BY <4>2, <4>3
    <3>2. Seen(a) /\ advised' = advised /\ clock' = clock
      BY <1>8, <2>1
    <3>3. \A e \in Machine : held'[e][a] \subseteq held[e][a]
      BY <1>11
    <3>4. k \notin held'[d][a]
      BY <1>11
    <3> QED BY <1>3, <1>20, <3>1, <3>2, <3>3, <3>4, PopupIsCounted
  <2>2. CASE action = "fail"
    <3>1. Proved(a)' \in SUBSET Proved(a)
      <4> SUFFICES ASSUME NEW j \in Proved(a)' PROVE j \in Proved(a)
        OBVIOUS
      <4>1. j \in Attempts(advised[a])
        BY <1>8 DEF Proved, Attempts
      <4>2. CASE advised[a].tries[j].state = "delivered"
        BY <4>1, <4>2 DEF Proved
      <4>3. CASE advised[a].tries[j].state # "delivered"
        <5>1. PICK e \in Machine : \E o \in Reports(e, a)' : o.action = "complete" /\ o.token = j
          BY <1>8, <4>3 DEF Proved
        <5>2. PICK o \in Reports(e, a)' : o.action = "complete" /\ o.token = j
          BY <5>1
        <5>3. o \in Reports(e, a)
          BY <1>5, <1>17, <1>21, <2>2, <5>2
        <5> QED BY <4>1, <5>2, <5>3 DEF Proved
      <4> QED BY <4>2, <4>3
    <3>2. Waiting(a)' \in SUBSET Waiting(a)
      BY <1>8, <1>11 DEF Waiting, Attempts
    <3>3. Waiting(a) \in SUBSET Attempts(advised[a]) /\ Proved(a) \in SUBSET Attempts(advised[a])
      BY DEF Waiting, Proved
    <3>4. clock \in Nat /\ popups[a].times \in Nat /\ popups[a].last \in Nat
      BY <1>1 DEF TypesHold, ReminderTypeOK, Time
    <3>5. popups[a].last <= clock /\ Counted(advised[a], Waiting(a), Proved(a), popups[a])
      BY <1>1 DEF InOrder
    <3>6. Evolves(advised[a], advised[a], {}) /\ \A j \in {} : FALSE
      BY <1>1, NothingFollows DEF Follows
    <3>7. Counted(advised[a], Waiting(a)', Proved(a)', popups[a])
      BY <1>1, <3>1, <3>2, <3>3, <3>4, <3>5, <3>6, CountedStays
    <3>8. popups' = popups
      BY <1>8, <2>2
    <3> QED BY <1>8, <1>20, <3>5, <3>7, <3>8 DEF InOrder
  <2> QED BY <2>1, <2>2
<1>23. RowsFit'
  BY <1>1, <1>8, FitsThen DEF RowsFit
<1>24. \A b \in Advice : InOrder(b)'
  BY <1>16, <1>22
<1> QED BY <1>14, <1>23, <1>24 DEF Reminders

\* A device that was restarted has nothing but its receipts.
LEMMA RestartKeeps ==
    ASSUME ReminderAssumption, Reminders, NEW d \in Machine, Restart(d)
    PROVE  Reminders'
<1>1. /\ Fault /\ TypesHold /\ RowsFit
      /\ held' = [held EXCEPT ![d] = [a \in Advice |-> {}]]
      /\ copy' = [copy EXCEPT ![d] = [a \in Advice |-> NoReceipt]]
      /\ round' = [round EXCEPT ![d] = "idle"]
      /\ inflight' = {r \in inflight : r.device # d}
      /\ UNCHANGED <<clock, advised, muted, receipt>>
  BY DEF Restart, Reminders
<1>2. NoReceipt \in Receipt /\ {} \in SUBSET Nat
  BY DEF Receipt
<1>3. /\ held' \in [Machine -> [Advice -> SUBSET Nat]]
      /\ \A a \in Advice : held'[d][a] = {}
      /\ \A e \in Machine : e # d => held'[e] = held[e]
  <2>1. held \in [Machine -> [Advice -> SUBSET Nat]]
    BY <1>1 DEF TypesHold, ReminderTypeOK
  <2>2. [a \in Advice |-> {}] \in [Advice -> SUBSET Nat]
    BY <1>2
  <2>3. held' \in [Machine -> [Advice -> SUBSET Nat]]
    BY <1>1, <2>1, <2>2
  <2>4. held'[d] = [a \in Advice |-> {}] /\ \A e \in Machine : e # d => held'[e] = held[e]
    BY <1>1, <2>1
  <2> QED BY <2>3, <2>4
<1>4. /\ copy' \in [Machine -> [Advice -> Receipt]]
      /\ \A a \in Advice : copy'[d][a] = NoReceipt
      /\ \A e \in Machine : e # d => copy'[e] = copy[e]
  <2>1. copy \in [Machine -> [Advice -> Receipt]]
    BY <1>1 DEF TypesHold, ReminderTypeOK
  <2>2. [a \in Advice |-> NoReceipt] \in [Advice -> Receipt]
    BY <1>2
  <2>3. copy' \in [Machine -> [Advice -> Receipt]]
    BY <1>1, <2>1, <2>2
  <2>4. copy'[d] = [a \in Advice |-> NoReceipt] /\ \A e \in Machine : e # d => copy'[e] = copy[e]
    BY <1>1, <2>1
  <2> QED BY <2>3, <2>4
<1>5. round' \in [Machine -> {"idle", "sending", "failing", "clean"}]
  BY <1>1 DEF TypesHold, ReminderTypeOK
<1>6. ASSUME NEW e \in Machine, NEW a \in Advice
      PROVE  Kept(e, a) /\ DeviceQuiet(e, a)
  <2>1. Kept(e, a)
    BY <1>1, <1>3, <1>4 DEF Kept, Sent
  <2> QED BY <1>1, <2>1, KeptIsQuiet DEF Reminders
<1>7. CASE popups' = popups
  <2>1. TypesHold'
    BY <1>1, <1>3, <1>4, <1>5, <1>7, FaultSpends DEF TypesHold, ReminderTypeOK
  <2> QED BY <1>1, <1>6, <1>7, <2>1, SameRows, DeviceStep
<1>8. ASSUME NEW a \in Advice, held[d][a] # {}, Seen(a) PROVE Reminders'
  <2>1. /\ popups' \in [Advice -> [times : Nat, last : Time]]
        /\ \A b \in Advice : b # a => popups'[b] = popups[b]
    BY <1>1, <1>8, PopupsStayTyped
  <2>2. TypesHold'
    BY <1>1, <1>3, <1>4, <1>5, <2>1, FaultSpends DEF TypesHold, ReminderTypeOK
  <2>3. RowsFit'
    BY <1>1, FitsThen DEF RowsFit
  <2>4. ASSUME NEW b \in Advice, b # a PROVE InOrder(b)'
    <3>1. Quiet(b, {})
      BY <1>1, <1>6, <2>1, <2>4, NoPartInIt
    <3> QED BY <1>1, <3>1, QuietKeepsOrder DEF Reminders, RowsFit
  <2>5. InOrder(a)'
    <3>1. PICK k \in held[d][a] : TRUE
      BY <1>8
    <3>2. InOrder(a) /\ Fits(advised[a]) /\ advised'[a] = advised[a]
      BY <1>1 DEF Reminders, RowsFit
    <3>3. \A e \in Machine : DeviceInOrder(e, a)'
      BY <1>6, <3>2, DeviceStaysQuiet
    <3>4. \A e \in Machine : held'[e][a] \subseteq held[e][a] /\ Reports(e, a)' \subseteq Reports(e, a)
      BY <1>6 DEF DeviceQuiet
    <3>5. Proved(a)' \subseteq Proved(a) \cup {k}
      BY <1>1, <3>4 DEF Proved, Attempts
    <3>6. k \notin held'[d][a] /\ advised' = advised /\ clock' = clock
      BY <1>1, <1>3
    <3> QED BY <1>8, <3>3, <3>4, <3>5, <3>6, PopupIsCounted
  <2> QED BY <2>2, <2>3, <2>4, <2>5 DEF Reminders
<1> QED BY <1>7, <1>8 DEF Restart

-----------------------------------------------------------------------------
(* Claims.                                                                 *)

\* A device of an advice that is claimed.
LEMMA DeviceClaims ==
    ASSUME NEW s, Fits(s), NEW d, NEW n, Fits(n), Grows(s, d, n),
           NEW e, NEW H, NEW R, HeldBy(s, e, H), ReportedBy(s, e, H, R),
           NEW H2, H2 \subseteq H \/ (e = d /\ H2 \subseteq H \cup {n.count})
    PROVE  HeldBy(n, e, H2) /\ ReportedBy(n, e, H2, R)
<1>1. /\ n.count \in Attempts(n) /\ Attempts(s) \subseteq Attempts(n)
      /\ \A k \in Attempts(s) : k < n.count
      /\ n.tries[n.count].device = d /\ n.tries[n.count].state # "delivered"
      /\ \A k \in Attempts(s) : n.tries[k] = s.tries[k]
  <2> DEFINE i == s.count
             j == n.count
  <2>1. /\ i \in {0, 1, 2} /\ j = i + 1 /\ Attempts(s) = 1 .. i /\ Attempts(n) = 1 .. j
    BY AtMostTwoAttempts DEF Grows, Attempts
  <2> HIDE DEF i, j
  <2>2. j \in Attempts(n) /\ Attempts(s) \subseteq Attempts(n) /\ \A k \in Attempts(s) : k < j
    BY <2>1
  <2> QED BY <2>2 DEF Grows, j
<1>2. HeldBy(n, e, H2)
  BY <1>1 DEF HeldBy
<1>3. ReportedBy(n, e, H2, R)
  <2> SUFFICES ASSUME NEW r \in R
               PROVE  /\ r.token \in Attempts(n) /\ n.tries[r.token].device = e
                      /\ \A k \in H2 : r.token < k
                      /\ \A q \in R : q.token = r.token => q = r
    BY DEF ReportedBy
  <2>1. /\ r.token \in Attempts(s) /\ s.tries[r.token].device = e
        /\ \A k \in H : r.token < k
        /\ \A q \in R : q.token = r.token => q = r
    BY DEF ReportedBy
  <2> QED BY <1>1, <2>1
<1> QED BY <1>2, <1>3

\* A claim sweeps, and hands out a permit when there is one.
LEMMA ClaimKeeps ==
    ASSUME ReminderAssumption, Reminders, NEW d \in Machine, Claim(d)
    PROVE  Reminders'
<1>1. /\ TypesHold /\ RowsFit /\ clock \in Time
      /\ round' = [round EXCEPT ![d] = "idle"]
      /\ UNCHANGED <<clock, muted, receipt, copy, inflight, popups>>
  BY DEF Claim, Reminders, TypesHold, ReminderTypeOK
<1>2. round' \in [Machine -> {"idle", "sending", "failing", "clean"}]
  BY <1>1 DEF TypesHold, ReminderTypeOK
<1>3. ASSUME NEW b \in Advice
      PROVE  /\ Fits(advised[b]) /\ Swept[b] = Sweep(advised[b])
             /\ Fits(Swept[b]) /\ Evolves(advised[b], Swept[b], {}) /\ Swept[b] \in Case
  <2>1. Fits(advised[b]) /\ Swept[b] = Sweep(advised[b])
    BY <1>1 DEF RowsFit, Swept
  <2>2. Fits(Swept[b]) /\ Evolves(advised[b], Swept[b], {})
    BY <1>1, <2>1, SweepSweeps
  <2> QED BY <2>1, <2>2 DEF Fits, Sound
<1>4. Swept \in [Advice -> Case]
  BY <1>3 DEF Swept
<1>5. CASE advised' = Swept /\ UNCHANGED <<held, left>>
  <2>1. TypesHold'
    BY <1>1, <1>2, <1>4, <1>5 DEF TypesHold, ReminderTypeOK
  <2>2. \A e \in Machine, b \in Advice : Kept(e, b)
    BY <1>1, <1>5, IdleIsKept
  <2>3. \A b \in Advice : Fits(advised'[b]) /\ ProvedBy(b, advised'[b], {})
    BY <1>3, <1>5 DEF ProvedBy
  <2> QED BY <1>1, <2>1, <2>2, <2>3, DeviceStep
<1>6. ASSUME NEW a \in Advice, NextDue(a), advised' = [Swept EXCEPT ![a] = Claimed(Swept[a], d)],
             \/ held' = [held EXCEPT ![d][a] = held[d][a] \cup {advised'[a].token}] /\ UNCHANGED left
             \/ Fault /\ UNCHANGED held
      PROVE  Reminders'
  <2>1. PICK n : n = Claimed(Swept[a], d)
    OBVIOUS
  <2>2. Fits(n) /\ Grows(Swept[a], d, n)
    BY <1>1, <1>3, <1>6, <2>1, ClaimedGrows DEF NextDue
  <2>3. advised'[a] = n /\ \A b \in Advice : b # a => advised'[b] = Swept[b]
    BY <1>4, <1>6, <2>1
  <2>4. n.token = n.count /\ n.count \in Nat /\ n \in Case
    BY <2>2, AtMostTwoAttempts DEF Grows, Fits, Sound
  <2>5. advised' \in [Advice -> Case] /\ \A b \in Advice : Fits(advised'[b])
    <3>1. advised' = [Swept EXCEPT ![a] = n]
      BY <1>6, <2>1
    <3> QED BY <1>3, <1>4, <2>2, <2>3, <2>4, <3>1
  <2>6. left' \in [deadlines : SUBSET Nat, answers : SUBSET Answers, faults : Nat, mutes : Nat]
    BY <1>1, <1>6, FaultSpends DEF TypesHold
  <2>7. /\ held' \in [Machine -> [Advice -> SUBSET Nat]]
        /\ held'[d][a] \subseteq held[d][a] \cup {n.count}
        /\ \A e \in Machine, b \in Advice : e # d \/ b # a => held'[e][b] = held[e][b]
    <3>1. held \in [Machine -> [Advice -> SUBSET Nat]]
      BY <1>1 DEF TypesHold, ReminderTypeOK
    <3>2. CASE UNCHANGED held
      BY <3>1, <3>2
    <3>3. CASE held' = [held EXCEPT ![d][a] = held[d][a] \cup {advised'[a].token}]
      <4> DEFINE H == held[d][a] \cup {n.count}
      <4>1. held' = [held EXCEPT ![d][a] = H] /\ H \in SUBSET Nat
        BY <2>3, <2>4, <3>1, <3>3
      <4> HIDE DEF H
      <4>2. /\ held' \in [Machine -> [Advice -> SUBSET Nat]]
            /\ held'[d][a] = H
            /\ \A e \in Machine, b \in Advice : e # d \/ b # a => held'[e][b] = held[e][b]
        BY <3>1, <4>1
      <4> QED BY <4>2 DEF H
    <3> QED BY <1>6, <3>2, <3>3
  <2>8. TypesHold'
    BY <1>1, <1>2, <2>5, <2>6, <2>7 DEF TypesHold, ReminderTypeOK
  <2>9. ASSUME NEW b \in Advice, b # a PROVE InOrder(b)'
    <3>1. \A e \in Machine : DeviceQuiet(e, b)
      BY <1>1, <2>7, <2>9, IdleIsKept, KeptIsQuiet DEF Reminders
    <3>2. Evolves(advised[b], advised'[b], {})
      BY <1>3, <2>3, <2>9
    <3>3. Quiet(b, {})
      BY <1>1, <3>1, <3>2 DEF Quiet, DeviceQuiet
    <3> QED BY <1>1, <1>3, <3>3, QuietKeepsOrder DEF Reminders
  <2>10. Evolves(advised[a], Swept[a], {}) /\ Fits(Swept[a]) /\ Fits(advised[a]) /\ InOrder(a)
    BY <1>3 DEF Reminders
  <2>11. ASSUME NEW e \in Machine PROVE Reports(e, a)' = Reports(e, a)
    BY <1>1 DEF Reports, Sent
  <2>12. ASSUME NEW e \in Machine PROVE DeviceInOrder(e, a)'
    <3>1. /\ HeldBy(advised[a], e, held[e][a]) /\ CopyIsOlder(e, a)
          /\ ReportedBy(advised[a], e, held[e][a], Reports(e, a))
          /\ {} \cap held[e][a] = {}
      BY <2>10 DEF InOrder, DeviceInOrder
    <3>2. HeldBy(Swept[a], e, held[e][a]) /\ ReportedBy(Swept[a], e, held[e][a], Reports(e, a))
      BY <2>10, <3>1, DeviceStays
    <3>3. \/ held'[e][a] \subseteq held[e][a]
          \/ e = d /\ held'[e][a] \subseteq held[e][a] \cup {n.count}
      BY <2>7
    <3>4. HeldBy(n, e, held'[e][a]) /\ ReportedBy(n, e, held'[e][a], Reports(e, a))
      BY <2>2, <2>10, <3>2, <3>3, DeviceClaims
    <3>5. CopyIsOlder(e, a)'
      BY <1>1, <3>1 DEF CopyIsOlder
    <3> QED BY <2>3, <2>11, <3>4, <3>5 DEF DeviceInOrder
  <2>13. /\ Attempts(Swept[a]) = Attempts(advised[a])
         /\ \A k \in Attempts(advised[a]) : n.tries[k] = Swept[a].tries[k]
         /\ n.tries[n.count].state = "claimed"
    BY <2>2, <2>10 DEF Evolves, Grows, Attempts
  <2>14. ASSUME NEW k \in Attempts(n), k # n.count PROVE k \in Attempts(advised[a])
    <3> DEFINE i == Swept[a].count
               j == n.count
    <3>1. i \in {0, 1, 2} /\ j = i + 1 /\ Attempts(Swept[a]) = 1 .. i /\ Attempts(n) = 1 .. j
      BY <2>2, <2>10, AtMostTwoAttempts DEF Grows, Attempts
    <3>2. k \in 1 .. j /\ k # j
      BY <2>14, <3>1
    <3> HIDE DEF i, j
    <3>3. k \in 1 .. i
      BY <3>1, <3>2
    <3> QED BY <2>13, <3>1, <3>3
  <2>15. Waiting(a)' \in SUBSET (Waiting(a) \cup {n.count})
    <3> SUFFICES ASSUME NEW k \in Waiting(a)', k # n.count PROVE k \in Waiting(a)
      OBVIOUS
    <3>1. k \in Attempts(n) /\ \E e \in Machine : k \in held'[e][a]
      BY <2>3 DEF Waiting, Attempts
    <3>2. \E e \in Machine : k \in held[e][a]
      BY <2>7, <3>1
    <3> QED BY <2>14, <3>1, <3>2 DEF Waiting
  <2>16. Proved(a)' \in SUBSET Proved(a)
    <3> SUFFICES ASSUME NEW k \in Proved(a)' PROVE k \in Proved(a)
      OBVIOUS
    <3>1. k \in Attempts(n)
      BY <2>3 DEF Proved, Attempts
    <3>2. CASE n.tries[k].state = "delivered"
      <4>1. k # n.count
        BY <2>13, <3>2
      <4>2. k \in Attempts(advised[a])
        BY <2>14, <3>1, <4>1
      <4>3. Swept[a].tries[k].state = "delivered"
        BY <2>13, <3>2, <4>2
      <4>4. advised[a].tries[k].state = "delivered"
        BY <2>10, <4>2, <4>3 DEF Evolves
      <4> QED BY <4>2, <4>4 DEF Proved
    <3>3. CASE n.tries[k].state # "delivered"
      <4>1. PICK e \in Machine : \E r \in Reports(e, a)' : r.action = "complete" /\ r.token = k
        BY <2>3, <3>3 DEF Proved
      <4>2. PICK r \in Reports(e, a) : r.action = "complete" /\ r.token = k
        BY <2>11, <4>1
      <4>3. k \in Attempts(advised[a])
        BY <2>10, <4>2 DEF InOrder, DeviceInOrder, ReportedBy
      <4> QED BY <4>2, <4>3 DEF Proved
    <3> QED BY <3>2, <3>3
  <2>17. Waiting(a) \in SUBSET Attempts(advised[a]) /\ Proved(a) \in SUBSET Attempts(advised[a])
    BY DEF Waiting, Proved
  <2>18. /\ popups[a].times \in Nat /\ popups[a].last <= clock
         /\ Counted(advised[a], Waiting(a), Proved(a), popups[a])
    BY <1>1, <2>10 DEF TypesHold, ReminderTypeOK, InOrder
  <2>19. Counted(n, Waiting(a)', Proved(a)', popups[a])
    BY <2>2, <2>10, <2>15, <2>16, <2>17, <2>18, CountedClaims
  <2>20. InOrder(a)'
    BY <1>1, <2>3, <2>12, <2>18, <2>19 DEF InOrder
  <2>21. RowsFit'
    BY <1>1, <2>5, FitsThen
  <2> QED BY <2>8, <2>9, <2>20, <2>21 DEF Reminders
<1>7. \/ advised' = Swept /\ UNCHANGED <<held, left>>
      \/ \E a \in Advice :
            /\ NextDue(a) /\ advised' = [Swept EXCEPT ![a] = Claimed(Swept[a], d)]
            /\ \/ held' = [held EXCEPT ![d][a] = held[d][a] \cup {advised'[a].token}] /\ UNCHANGED left
               \/ Fault /\ UNCHANGED held
  BY <1>1, <1>4 DEF Claim, TypesHold, ReminderTypeOK
<1> QED BY <1>5, <1>6, <1>7

-----------------------------------------------------------------------------
(* The theorems.                                                           *)

\* The initial state is in order.
LEMMA InitReminders ==
    ASSUME ReminderAssumption, ReminderInit
    PROVE  Reminders
<1>1. /\ clock = 0 /\ advised = [a \in Advice |-> Unpublished] /\ muted = {}
      /\ held = [d \in Machine |-> [a \in Advice |-> {}]]
      /\ receipt = [d \in Machine |-> [a \in Advice |-> NoReceipt]]
      /\ copy = receipt /\ round = [d \in Machine |-> "idle"] /\ inflight = {}
      /\ popups = [a \in Advice |-> [times |-> 0, last |-> 0]]
      /\ left \in Bounds
  BY DEF ReminderInit
<1>2. Fits(Unpublished) /\ Unpublished \in Case
  BY UnpublishedFits DEF Fits, Sound
<1>3. 0 \in Time
  BY DEF Time, ReminderAssumption
<1>4. left \in [deadlines : SUBSET Nat, answers : SUBSET Answers, faults : Nat, mutes : Nat]
  BY <1>1 DEF ReminderAssumption
<1>5. /\ held \in [Machine -> [Advice -> SUBSET Nat]]
      /\ receipt \in [Machine -> [Advice -> Receipt]]
      /\ popups \in [Advice -> [times : Nat, last : Time]]
  BY <1>1, <1>3 DEF Receipt
<1>6. TypesHold
  BY <1>1, <1>2, <1>3, <1>4, <1>5 DEF TypesHold, ReminderTypeOK
<1>7. RowsFit
  BY <1>1, <1>2 DEF RowsFit
<1>8. ASSUME NEW a \in Advice PROVE InOrder(a)
  <2>1. /\ \A d \in Machine : held[d][a] = {} /\ receipt[d][a] = NoReceipt /\ copy[d][a] = NoReceipt
        /\ advised[a] = Unpublished /\ popups[a].times = 0 /\ popups[a].last = 0
    BY <1>1
  <2>2. Attempts(advised[a]) = {} /\ advised[a].count = 0
    BY <2>1 DEF Unpublished, Attempts
  <2>3. \A d \in Machine : Reports(d, a) = {}
    BY <1>1, <2>1 DEF Reports, Sent
  <2>4. \A d \in Machine : DeviceInOrder(d, a)
    BY <2>1, <2>3 DEF DeviceInOrder, HeldBy, ReportedBy, CopyIsOlder
  <2>5. Waiting(a) = {} /\ Proved(a) = {}
    BY <2>2 DEF Waiting, Proved
  <2>6. Cardinality({}) = 0
    BY FS_EmptySet
  <2>7. Counted(advised[a], Waiting(a), Proved(a), popups[a])
    BY <2>1, <2>2, <2>5, <2>6 DEF Counted
  <2> QED BY <1>1, <2>1, <2>4, <2>7 DEF InOrder
<1> QED BY <1>6, <1>7, <1>8 DEF Reminders

\* Nothing happens.
LEMMA StutterKeeps ==
    ASSUME ReminderAssumption, Reminders, UNCHANGED reminderVars
    PROVE  Reminders'
<1>1. /\ clock' = clock /\ advised' = advised /\ muted' = muted /\ left' = left
      /\ held' = held /\ receipt' = receipt /\ round' = round /\ copy' = copy
      /\ inflight' = inflight /\ popups' = popups
  BY DEF reminderVars, client
<1>2. TypesHold'
  BY <1>1 DEF Reminders, TypesHold, ReminderTypeOK
<1>3. \A d \in Machine, a \in Advice : Kept(d, a)
  BY <1>1, IdleIsKept
<1> QED BY <1>1, <1>2, <1>3, SameRows, DeviceStep

\* Every step keeps the reminders in order.
LEMMA StepKeeps ==
    ASSUME ReminderAssumption, Reminders, [ReminderNext]_reminderVars
    PROVE  Reminders'
<1>1. CASE ReminderTick
  BY <1>1, TickKeeps
<1>2. CASE ListAdvice
  BY <1>2, ListAdviceKeeps
<1>3. CASE WithdrawExpired
  BY <1>3, WithdrawExpiredKeeps
<1>4. CASE SetPaused
  BY <1>4, SetPausedKeeps
<1>5. ASSUME NEW a \in Advice, Publish(a) PROVE Reminders'
  BY <1>5, PublishKeeps
<1>6. ASSUME NEW a \in Advice, RecordOutcome(a) PROVE Reminders'
  BY <1>6, RecordOutcomeKeeps
<1>7. ASSUME NEW a \in Advice, NEW kind \in left.answers, RecordFeedback(a, kind) PROVE Reminders'
  BY <1>7, RecordFeedbackKeeps
<1>8. ASSUME NEW d \in Machine, BeginRound(d) PROVE Reminders'
  BY <1>8, BeginRoundKeeps
<1>9. ASSUME NEW d \in Machine, Claim(d) PROVE Reminders'
  BY <1>9, ClaimKeeps
<1>10. ASSUME NEW d \in Machine, Restart(d) PROVE Reminders'
  BY <1>10, RestartKeeps
<1>11. ASSUME NEW d \in Machine, NEW a \in Advice, RetryAnswered(d, a) PROVE Reminders'
  BY <1>11, RetryAnsweredKeeps
<1>12. ASSUME NEW d \in Machine, NEW a \in Advice, RetryFails(d, a) PROVE Reminders'
  BY <1>12, RetryFailsKeeps
<1>13. ASSUME NEW d \in Machine, NEW a \in Advice, Finalize(d, a) PROVE Reminders'
  BY <1>13, FinalizeKeeps
<1>14. ASSUME NEW d \in Machine, NEW a \in Advice, NEW action \in {"complete", "fail"},
              Show(d, a, action)
       PROVE  Reminders'
  BY <1>14, ShowKeeps
<1>15. ASSUME NEW r \in inflight, ReportAnswered(r) PROVE Reminders'
  BY <1>15, ReportAnsweredKeeps
<1>16. ASSUME NEW r \in inflight, ReportFails(r) PROVE Reminders'
  BY <1>16, ReportFailsKeeps
<1>17. CASE UNCHANGED reminderVars
  BY <1>17, StutterKeeps
<1> QED
  BY <1>1, <1>2, <1>3, <1>4, <1>5, <1>6, <1>7, <1>8, <1>9, <1>10, <1>11, <1>12, <1>13, <1>14,
     <1>15, <1>16, <1>17 DEF ReminderNext

\* Whatever the devices and the server do, rows, permits, receipts and popups stay in order.
THEOREM RemindersStayInOrder ==
    ASSUME ReminderAssumption
    PROVE  ReminderSpec => []Reminders
<1>1. ReminderInit => Reminders
  BY InitReminders
<1>2. Reminders /\ [ReminderNext]_reminderVars => Reminders'
  BY StepKeeps
<1> QED BY <1>1, <1>2, PTL DEF ReminderSpec

\* Two permits, two popups.
LEMMA InOrderMeansTwo ==
    ASSUME Reminders
    PROVE  AtMostTwoReminders
<1>1. ReminderTypeOK
  BY DEF Reminders, TypesHold
<1>2. ASSUME NEW a \in Advice
      PROVE  /\ popups[a].times <= 2
             /\ \A k \in 1 .. Len(advised[a].tries) :
                    advised[a].tries[k].state = "claimed" =>
                        advised[a].state = "claimed" /\ advised[a].token = k
  <2>1. Fits(advised[a]) /\ Counted(advised[a], Waiting(a), Proved(a), popups[a])
    BY DEF Reminders, RowsFit, InOrder
  <2>2. popups[a].times \in Nat /\ advised[a].count \in {0, 1, 2}
    BY <1>1, <2>1, AtMostTwoAttempts DEF ReminderTypeOK
  <2>3. Waiting(a) \in SUBSET Attempts(advised[a])
    BY DEF Waiting
  <2>4. Cardinality(Waiting(a)) \in Nat
    BY <2>1, <2>3, AttemptsAreCounted
  <2>5. popups[a].times <= 2
    <3>1. popups[a].times + Cardinality(Waiting(a)) <= advised[a].count
      BY <2>1 DEF Counted
    <3>2. advised[a].count \in Nat /\ advised[a].count <= 2
      BY <2>2
    <3> QED BY <2>2, <2>4, <3>1, <3>2
  <2>6. ASSUME NEW k \in Attempts(advised[a]), advised[a].tries[k].state = "claimed"
        PROVE  advised[a].state = "claimed" /\ advised[a].token = k
    <3>1. advised[a].token = k /\ (advised[a].state = "claimed" <=> advised[a].token # 0)
      BY <2>1, <2>6 DEF Fits, Sound, Permits
    <3>2. k # 0
      BY <2>1, AtMostTwoAttempts
    <3> QED BY <3>1, <3>2
  <2> QED BY <2>5, <2>6 DEF Attempts
<1> QED BY <1>1, <1>2 DEF AtMostTwoReminders

\* The user sees a reminder of one advice twice at most, on all devices together, and no second
\* permit of an advice is out.
THEOREM RemindedAtMostTwice ==
    ASSUME ReminderAssumption
    PROVE  ReminderSpec => []AtMostTwoReminders
<1>1. Reminders => AtMostTwoReminders
  BY InOrderMeansTwo
<1> QED BY <1>1, RemindersStayInOrder, PTL

\* Only a sweep learns that an advice was ignored.
LEMMA OnlySweepsIgnore ==
    ASSUME ReminderAssumption, Reminders, [ReminderNext]_reminderVars, NEW a \in Advice,
           "ignored" \in advised'[a].fb, "ignored" \notin advised[a].fb
    PROVE  Ignorable(advised[a])
<1> DEFINE Silent == advised'[a].fb = advised[a].fb
<1>1. TypesHold /\ RowsFit /\ clock \in Time /\ Fits(advised[a]) /\ advised \in [Advice -> Case]
  BY DEF Reminders, RowsFit, TypesHold, ReminderTypeOK
<1>2. ASSUME advised'[a].fb = Sweep(advised[a]).fb PROVE Ignorable(advised[a])
  BY <1>1, <1>2, SweepSweeps
<1>3. Swept[a] = Sweep(advised[a]) /\ Swept \in [Advice -> {Sweep(advised[b]) : b \in Advice}]
  BY DEF Swept
<1>4. CASE ReminderTick \/ SetPaused \/ UNCHANGED reminderVars
  BY <1>4 DEF ReminderTick, SetPaused, reminderVars
<1>5. CASE ListAdvice
  BY <1>2, <1>3, <1>5 DEF ListAdvice
<1>6. CASE WithdrawExpired
  <2>1. advised'[a] \in {advised[a], [advised[a] EXCEPT !.status = "withdrawn"]}
    BY <1>6 DEF WithdrawExpired
  <2>2. [advised[a] EXCEPT !.status = "withdrawn"].fb = advised[a].fb
    BY <1>1 DEF Case
  <2> QED BY <2>1, <2>2
<1>7. ASSUME NEW b \in Advice, Publish(b) PROVE Silent
  <2>1. PICK due \in {t \in left.deadlines : t > clock}, s \in {"pending", "resolved", "none"} :
           advised' = [advised EXCEPT ![b].status = "active", ![b].deadline = due, ![b].state = s]
    BY <1>7 DEF Publish
  <2>2. CASE a = b
    <3>1. advised'[a] = [advised[a] EXCEPT !.status = "active", !.deadline = due, !.state = s]
      BY <1>1, <2>1, <2>2
    <3> QED BY <1>1, <3>1 DEF Case
  <2>3. CASE a # b
    BY <1>1, <2>1, <2>3
  <2> QED BY <2>2, <2>3
<1>8. ASSUME NEW b \in Advice, RecordOutcome(b) PROVE Silent
  BY <1>1, <1>8 DEF RecordOutcome, Case
<1>9. ASSUME NEW b \in Advice, NEW kind \in left.answers, RecordFeedback(b, kind) PROVE FALSE
  <2>1. /\ kind \in Answers /\ advised[b].status # "absent" /\ Fits(advised[b])
        /\ advised' = [advised EXCEPT ![b] = Heard(advised[b], kind)]
    BY <1>1, <1>9 DEF RecordFeedback, TypesHold, RowsFit
  <2>2. HeardOf(advised[b], kind, Heard(advised[b], kind))
    BY <1>1, <2>1, HeardIsHeard
  <2>3. kind # "ignored"
    BY <2>1 DEF Answers
  <2>4. CASE a = b
    <3>1. advised'[a] = Heard(advised[b], kind)
      BY <1>1, <2>1, <2>4
    <3> QED BY <2>2, <2>3, <2>4, <3>1 DEF HeardOf
  <2>5. CASE a # b
    BY <1>1, <2>1, <2>5
  <2> QED BY <2>4, <2>5
<1>10. ASSUME NEW d \in Machine, Claim(d) PROVE Ignorable(advised[a])
  <2>1. CASE advised' = Swept
    BY <1>2, <1>3, <2>1
  <2>2. ASSUME NEW b \in Advice, NextDue(b), advised' = [Swept EXCEPT ![b] = Claimed(Swept[b], d)]
        PROVE  Ignorable(advised[a])
    <3>1. CASE a = b
      <4>1. advised'[a] = Claimed(Swept[a], d)
        BY <1>3, <2>2, <3>1
      <4>2. Fits(Swept[a]) /\ Due(Swept[a])
        BY <1>1, <1>3, <2>2, <3>1, SweepSweeps DEF NextDue
      <4>3. advised'[a].fb = Swept[a].fb
        BY <1>1, <4>1, <4>2, ClaimedGrows DEF Grows
      <4> QED BY <1>2, <1>3, <4>3
    <3>2. CASE a # b
      <4>1. advised'[a] = Swept[a]
        BY <1>3, <2>2, <3>2
      <4> QED BY <1>2, <1>3, <4>1
    <3> QED BY <3>1, <3>2
  <2> QED BY <1>3, <1>10, <2>1, <2>2 DEF Claim
<1>11. ASSUME NEW d \in Machine, NEW b \in Advice, RetryAnswered(d, b) \/ RetryFails(d, b) PROVE Silent
  <2>1. /\ advised' \in {advised, [advised EXCEPT ![b] = Reported(advised[b], d, copy[d][b])]}
        /\ copy[d][b] # NoReceipt
    BY <1>1, <1>11 DEF RetryAnswered, RetryFails
  <2> QED BY <1>1, <2>1, CopyIsReport, ReportProves
<1>12. ASSUME NEW r \in inflight, ReportAnswered(r) \/ ReportFails(r) PROVE Silent
  <2> DEFINE d == r.device
             b == r.advice
  <2>1. d \in Machine /\ b \in Advice
    BY <1>1 DEF TypesHold, ReminderTypeOK, Report
  <2>2. /\ advised' \in {advised, [advised EXCEPT ![b] = Reported(advised[b], d, r.receipt)]}
        /\ r.receipt # NoReceipt => r.receipt \in Reports(d, b)
    BY <1>1, <1>12, <2>1, SentIsReport DEF ReportAnswered, ReportFails
  <2> HIDE DEF d, b
  <2> QED BY <2>1, <2>2, ReportProves
<1>13. ASSUME NEW d \in Machine, BeginRound(d) \/ Restart(d) PROVE Silent
  BY <1>13 DEF BeginRound, Restart
<1>14. ASSUME NEW d \in Machine, NEW b \in Advice,
              Finalize(d, b) \/ \E action \in {"complete", "fail"} : Show(d, b, action)
       PROVE  Silent
  BY <1>14 DEF Finalize, Show
<1> QED
  BY <1>4, <1>5, <1>6, <1>7, <1>8, <1>9, <1>10, <1>11, <1>12, <1>13, <1>14 DEF ReminderNext

\* Both reminders were shown, and the second before it expired.
LEMMA IgnorableWasSeen ==
    ASSUME ReminderAssumption, Reminders, NEW a \in Advice, Ignorable(advised[a])
    PROVE  popups[a].times = 2 /\ popups[a].last + Interval <= clock + Lease
<1>1. /\ TypesHold /\ Fits(advised[a]) /\ Counted(advised[a], Waiting(a), Proved(a), popups[a])
      /\ popups[a].times \in Nat /\ popups[a].last \in Nat /\ clock \in Nat
      /\ Interval \in Nat /\ Lease \in Nat
  BY DEF Reminders, RowsFit, InOrder, TypesHold, ReminderTypeOK, Time, ReminderAssumption
<1>2. /\ advised[a].count = 2 /\ Attempts(advised[a]) = 1 .. 2
      /\ advised[a].tries[1].state = "delivered" /\ advised[a].tries[2].state = "delivered"
      /\ advised[a].tries[2].expires + Interval <= clock + Lease
  BY <1>1, AtMostTwoAttempts DEF Ignorable, Attempts
<1>3. Waiting(a) \in SUBSET Attempts(advised[a]) /\ Proved(a) \in SUBSET Attempts(advised[a])
  BY DEF Waiting, Proved
<1>4. 1 .. 2 \subseteq Proved(a)
  <2>1. \A k \in 1 .. 2 : k = 1 \/ k = 2
    OBVIOUS
  <2> QED BY <1>2, <2>1 DEF Proved
<1>5. Proved(a) = 1 .. 2
  BY <1>2, <1>3, <1>4
<1>6. Cardinality(Proved(a)) = 2
  BY <1>5, TwoAreTwo
<1>7. Cardinality(Waiting(a)) \in Nat
  BY <1>1, <1>3, AttemptsAreCounted
<1>8. popups[a].times = 2
  <2>1. popups[a].times + Cardinality(Waiting(a)) <= 2 /\ 2 <= popups[a].times
    BY <1>1, <1>2, <1>6 DEF Counted
  <2> QED BY <1>1, <1>7, <2>1
<1>9. popups[a].last < advised[a].tries[2].expires /\ advised[a].tries[2].expires \in Nat
  <2>1. 2 \in Attempts(advised[a])
    BY <1>2
  <2> QED BY <1>1, <1>2, <2>1, AtMostTwoAttempts DEF Counted
<1> QED BY <1>1, <1>2, <1>8, <1>9

\* Advice counts as ignored only when both reminders were shown, the time to react was given
\* and no answer of any kind was.
THEOREM IgnoredWasSeenTwice ==
    ASSUME ReminderAssumption
    PROVE  ReminderSpec => IgnoredMeansSeenTwice
<1>1. Reminders /\ [ReminderNext]_reminderVars => IgnoresTheSeen
  <2> SUFFICES ASSUME Reminders, [ReminderNext]_reminderVars, NEW a \in Advice,
                      "ignored" \in advised'[a].fb \ advised[a].fb
               PROVE  /\ advised[a].fb = {} /\ advised[a].status = "active"
                      /\ popups[a].times = 2 /\ popups[a].last + Interval <= clock + Lease
    BY DEF IgnoresTheSeen
  <2>1. Ignorable(advised[a])
    BY OnlySweepsIgnore
  <2> QED BY <2>1, IgnorableWasSeen DEF Ignorable
<1> QED BY <1>1, RemindersStayInOrder, PTL DEF ReminderSpec, IgnoredMeansSeenTwice

\* The permit of all but the last attempt is over.
LEMMA OlderIsOver ==
    ASSUME NEW c, Fits(c), NEW j \in Attempts(c), NEW k \in Attempts(c), j < k
    PROVE  c.tries[j].state # "claimed"
<1> SUFFICES ASSUME c.tries[j].state = "claimed" PROVE FALSE
  OBVIOUS
<1>1. c.token = j /\ c.token \in {0, c.count}
  BY DEF Fits, Sound, Permits
<1>2. j \in {1, 2} /\ k \in {1, 2} /\ k <= c.count /\ c.count \in {0, 1, 2}
  BY AtMostTwoAttempts
<1> QED BY <1>1, <1>2

\* What is on record of a report of a device.
LEMMA ReportIsOfAttempt ==
    ASSUME Reminders, NEW d \in Machine, NEW a \in Advice, NEW r \in Reports(d, a)
    PROVE  /\ r.token \in Attempts(advised[a]) /\ advised[a].tries[r.token].device = d
           /\ r.token \in {1, 2}
           /\ \A k \in held[d][a] : r.token < k
           /\ \A q \in Reports(d, a) : q.token = r.token => q = r
<1>1. Fits(advised[a]) /\ ReportedBy(advised[a], d, held[d][a], Reports(d, a))
  BY DEF Reminders, RowsFit, InOrder, DeviceInOrder
<1> QED BY <1>1, AtMostTwoAttempts DEF ReportedBy

\* A report that is answered is no longer waited for, and no older one is.
LEMMA AnsweredIsOver ==
    ASSUME ReminderAssumption, Reminders, NEW d \in Machine, NEW a \in Advice,
           NEW q \in Reports(d, a), NEW r \in Reports(d, a), r.token <= q.token,
           advised'[a] = Reported(advised[a], d, q)
    PROVE  advised'[a].tries[r.token].state # "claimed"
<1>1. Fits(advised[a])
  BY DEF Reminders, RowsFit
<1>2. /\ q.token \in Attempts(advised[a]) /\ advised[a].tries[q.token].device = d
      /\ r.token \in Attempts(advised[a]) /\ q.token \in {1, 2} /\ r.token \in {1, 2}
  BY ReportIsOfAttempt
<1>3. PICK n : n = advised'[a]
  OBVIOUS
<1>4. ToldOf(advised[a], d, q, n)
  BY <1>1, <1>3, ReportedIsTold
<1>5. Fits(n) /\ Attempts(n) = Attempts(advised[a]) /\ n.tries[q.token].state # "claimed"
  BY <1>2, <1>4 DEF ToldOf, Evolves, Attempts
<1>6. CASE r.token = q.token
  BY <1>3, <1>5, <1>6
<1>7. CASE r.token # q.token
  <2>1. r.token < q.token
    BY <1>2, <1>7
  <2>2. n.tries[r.token].state # "claimed"
    BY <1>2, <1>5, <2>1, OlderIsOver
  <2> QED BY <1>3, <2>2
<1> QED BY <1>6, <1>7

\* No step forgets what the server waits for, but for the answer to an older report.
LEMMA StepRemembers ==
    ASSUME ReminderAssumption, Reminders, [ReminderNext]_reminderVars, NEW d \in Machine, NEW a \in Advice,
           NEW r, r = receipt[d][a], r # NoReceipt, receipt'[d][a] # r
    PROVE  \/ advised'[a].tries[r.token].state # "claimed"
           \/ copy[d][a] # NoReceipt /\ copy[d][a].token < r.token
           \/ \E old \in inflight : /\ old.device = d /\ old.advice = a
                                    /\ old.receipt.token < r.token
<1>1. /\ TypesHold /\ advised \in [Advice -> Case] /\ receipt \in [Machine -> [Advice -> Receipt]]
      /\ Fits(advised[a]) /\ InOrder(a)
  BY DEF Reminders, RowsFit, TypesHold, ReminderTypeOK
<1>2. r \in Reports(d, a)
  BY DEF Reports
<1>3. /\ r.token \in Attempts(advised[a]) /\ r.token \in {1, 2}
      /\ \A k \in held[d][a] : r.token < k
      /\ \A q \in Reports(d, a) : q.token = r.token => q = r
  BY <1>2, ReportIsOfAttempt
<1>4. receipt' # receipt
  OBVIOUS
<1>5. ASSUME copy[d][a] # NoReceipt
      PROVE  /\ copy[d][a] \in Reports(d, a) /\ copy[d][a].token \in {1, 2}
             /\ copy[d][a].token < r.token \/ copy[d][a] = r
  <2>1. copy[d][a] \in Reports(d, a)
    BY <1>5, CopyIsReport
  <2>2. copy[d][a].token \in {1, 2}
    BY <2>1, ReportIsOfAttempt
  <2>3. copy[d][a].token <= r.token
    BY <1>1, <1>5 DEF InOrder, DeviceInOrder, CopyIsOlder
  <2> QED BY <1>3, <2>1, <2>2, <2>3
<1>6. ASSUME NEW e \in Machine, NEW b \in Advice, NEW x, receipt' = [receipt EXCEPT ![e][b] = x]
      PROVE  e = d /\ b = a /\ receipt'[d][a] = x
  <2>1. e = d /\ b = a
    BY <1>1, <1>6
  <2> QED BY <1>1, <1>6, <2>1
<1>7. ASSUME NEW e \in Machine, NEW b \in Advice, RetryAnswered(e, b)
      PROVE  \/ advised'[a].tries[r.token].state # "claimed"
             \/ copy[d][a] # NoReceipt /\ copy[d][a].token < r.token
  <2>1. /\ receipt' = [receipt EXCEPT ![e][b] = NoReceipt] /\ copy[e][b] # NoReceipt
        /\ advised' = [advised EXCEPT ![b] = Reported(advised[b], e, copy[e][b])]
    BY <1>1, <1>7 DEF RetryAnswered, WroteBack
  <2>2. e = d /\ b = a
    BY <1>6, <2>1
  <2>3. CASE copy[d][a].token < r.token
    BY <2>1, <2>2, <2>3
  <2>4. CASE copy[d][a] = r
    <3>1. advised'[a] = Reported(advised[a], d, r)
      BY <1>1, <2>1, <2>2, <2>4
    <3>2. r.token <= r.token
      BY <1>3
    <3> QED BY <1>2, <3>1, <3>2, AnsweredIsOver
  <2> QED BY <1>5, <2>1, <2>2, <2>3, <2>4
<1>8. ASSUME NEW e \in Machine, NEW b \in Advice, RetryFails(e, b)
      PROVE  copy[d][a] # NoReceipt /\ copy[d][a].token < r.token
  <2>1. receipt' = [receipt EXCEPT ![e][b] = copy[e][b]] /\ copy[e][b] # NoReceipt
    BY <1>8 DEF RetryFails, WroteBack
  <2>2. e = d /\ b = a /\ receipt'[d][a] = copy[e][b]
    BY <1>6, <2>1
  <2> QED BY <1>5, <2>1, <2>2
<1>9. ASSUME NEW e \in Machine, NEW b \in Advice, NEW action \in {"complete", "fail"}, Show(e, b, action)
      PROVE  advised'[a].tries[r.token].state # "claimed"
  <2>1. /\ held[e][b] # {} /\ advised' = advised
        /\ \E x : receipt' = [receipt EXCEPT ![e][b] = x]
    BY <1>9 DEF Show
  <2>2. e = d /\ b = a
    BY <1>6, <2>1
  <2>3. PICK k \in held[d][a] : TRUE
    BY <2>1, <2>2
  <2>4. k \in Attempts(advised[a]) /\ r.token < k
    BY <1>1, <1>3 DEF InOrder, DeviceInOrder, HeldBy
  <2> QED BY <1>1, <1>3, <2>1, <2>4, OlderIsOver
<1>10. ASSUME NEW q \in inflight, ReportAnswered(q)
       PROVE  \/ advised'[a].tries[r.token].state # "claimed"
              \/ \E old \in inflight : /\ old.device = d /\ old.advice = a
                                       /\ old.receipt.token < r.token
  <2>1. q.device \in Machine /\ q.advice \in Advice
    BY <1>1 DEF TypesHold, ReminderTypeOK, Report
  <2>2. receipt' = [receipt EXCEPT ![q.device][q.advice] = NoReceipt]
        /\ advised' = [advised EXCEPT ![q.advice] = Reported(advised[q.advice], q.device, q.receipt)]
    BY <1>1, <1>4, <1>10, <2>1 DEF ReportAnswered
  <2>3. q.device = d /\ q.advice = a
    BY <1>6, <2>1, <2>2
  <2>4. advised'[a] = Reported(advised[a], d, q.receipt)
    BY <1>1, <2>2, <2>3
  <2>5. CASE q.receipt = NoReceipt
    <3>1. q.receipt.token < r.token
      BY <1>3, <2>5 DEF NoReceipt
    <3> QED BY <2>3, <3>1
  <2>6. CASE q.receipt # NoReceipt
    <3>1. q.receipt \in Reports(d, a)
      BY <2>3, <2>6, SentIsReport
    <3>2. q.receipt.token \in {1, 2}
      BY <3>1, ReportIsOfAttempt
    <3>3. CASE q.receipt.token < r.token
      BY <2>3, <3>3
    <3>4. CASE r.token <= q.receipt.token
      BY <1>2, <2>4, <3>1, <3>4, AnsweredIsOver
    <3> QED BY <1>3, <3>2, <3>3, <3>4
  <2> QED BY <2>5, <2>6
<1>11. CASE ReminderTick \/ ListAdvice \/ WithdrawExpired \/ SetPaused \/ UNCHANGED reminderVars
  BY <1>4, <1>11 DEF ReminderTick, ListAdvice, WithdrawExpired, SetPaused, reminderVars, client
<1>12. ASSUME NEW b \in Advice,
              Publish(b) \/ RecordOutcome(b) \/ \E kind \in left.answers : RecordFeedback(b, kind)
       PROVE  FALSE
  BY <1>4, <1>12 DEF Publish, RecordOutcome, RecordFeedback, client
<1>13. ASSUME NEW e \in Machine,
              BeginRound(e) \/ Claim(e) \/ Restart(e) \/ \E b \in Advice : Finalize(e, b)
       PROVE  FALSE
  BY <1>4, <1>13 DEF BeginRound, Claim, Restart, Finalize
<1>14. ASSUME NEW q \in inflight, ReportFails(q) PROVE FALSE
  BY <1>4, <1>14 DEF ReportFails
<1> QED BY <1>7, <1>8, <1>9, <1>10, <1>11, <1>12, <1>13, <1>14 DEF ReminderNext

\* A device drops a receipt it has written only when the server no longer waits for it, or when
\* the answer to an older report of the advice made it.  Of a reminder that was shown and died
\* with the program before its receipt was written nothing is said.
THEOREM ReportedIsNotForgotten ==
    ASSUME ReminderAssumption
    PROVE  ReminderSpec => ReportedBeforeForgotten
<1>1. Reminders /\ [ReminderNext]_reminderVars => ForgetsTheReported
  BY StepRemembers DEF ForgetsTheReported
<1> QED BY <1>1, RemindersStayInOrder, PTL DEF ReminderSpec, ReportedBeforeForgotten

-----------------------------------------------------------------------------
(* MERGES                                                                    *)
(* The inductive invariant.                                                  *)

\* Referenced tables that are merged before a table.
Before(t) ==
    CASE t = "goal" -> {}
      [] t = "event" -> {"goal"}
      [] t = "advice" -> {"goal", "event"}
      [] OTHER -> Referenced

\* The source: its ids are those of History, each once in its table.
SourceHolds ==
    /\ DOMAIN source = User
    /\ \A u \in User : DOMAIN source[u] = TableNames /\ \A t \in TableNames : TableHolds(t, source[u][t])
    /\ \A u, v \in User : \A t \in Renaming : \A r \in source[u][t], s \in source[v][t] :
          r.id # Renamed(t, v, s.id) /\ Renamed(t, v, s.id) # None

\* A ledger: one entry for a row of the source, and none before those of the
\* tables its row may refer to.
Books(ledger) ==
    /\ \A e \in ledger :
          /\ DOMAIN e = {"user", "table", "key", "row", "to", "action"}
          /\ e.user \in User /\ e.table \in TableNames /\ e.key = e.row.id
          /\ \E s \in source[e.user][e.table] : s.id = e.key
          /\ e.table \in Referenced => e.to # None
    /\ \A e, f \in ledger : e.user = f.user /\ e.table = f.table /\ e.key = f.key => e = f
    /\ \A e \in ledger : \A t \in Before(e.table) : \A s \in source[e.user][t] :
          \E f \in ledger : f.user = e.user /\ f.table = t /\ f.key = s.id

\* Only an imported row has an id that was made for it.
NamesMade(d) ==
    \A t \in Renaming : \A r \in d.rows[t] : \A u \in User : \A s \in source[u][t] :
        r.id = Renamed(t, u, s.id) => \E e \in d.ledger : e.user = u /\ e.table = t /\ e.key = s.id

RemindersHold(d) ==
    /\ DOMAIN d.reminders = {"open", "closed", "claimed"}
    /\ d.reminders.open \cap d.reminders.closed = {}
    /\ d.reminders.claimed \subseteq d.reminders.open
    /\ \A id \in d.reminders.open \cup d.reminders.closed : \E a \in d.rows.advice : a.id = id
    /\ \A e \in d.ledger : e.table = "advice" /\ e.action # "deduplicated" => e.to \in d.reminders.closed

\* What was answered at the source, by its status or by feedback, is done with.
AnswersHold(d) ==
    \A e \in d.ledger :
        /\ e.table = "advice" /\ ~IsOpen(e.row) => e.to \in d.reminders.closed
        /\ e.table = "feedback" /\ e.to # None =>
              \A f \in d.rows.feedback : f.id = e.to => f.advice \in d.reminders.closed

\* Where the ledger says that a row went.
Led(ledger, t, u, was, is) == \A f \in ledger : f.table = t /\ f.user = u /\ f.key = was => f.to = is

\* A row that came from an entry's.
Came(ledger, e, r) ==
    /\ e.table = "goal" => r.text = e.row.text
    /\ e.table = "event" => r.observed = e.row.observed
    /\ e.table = "advice" =>
          /\ r.text = e.row.text
          /\ Led(ledger, "goal", e.user, e.row.goal, r.goal)
          /\ Led(ledger, "event", e.user, e.row.event, r.event)
    /\ e.table = "feedback" => Led(ledger, "advice", e.user, e.row.advice, r.advice)

ImportsHold(d) ==
    \A e \in d.ledger :
        /\ e.to # None => \E r \in d.rows[e.table] : r.id = e.to /\ Came(d.ledger, e, r)
        /\ e.table = "outcome" /\ e.to # None => Led(d.ledger, "advice", e.user, e.key, e.to)
        /\ e.table = "relevance" /\ e.to # None => Led(d.ledger, "advice", e.user, e.key.advice, e.to.advice)

\* The destination, as a run sees it or as it was committed.
Holds(d) ==
    /\ DOMAIN d = {"rows", "reminders", "ledger"}
    /\ DOMAIN d.rows = TableNames
    /\ \A t \in TableNames : TableHolds(t, d.rows[t])
    /\ Books(d.ledger)
    /\ NamesMade(d)
    /\ RemindersHold(d)
    /\ OneIsLive(d.rows.advice)
    /\ ImportsHold(d)
    /\ AnswersHold(d)

\* A place in the order of a run: a table, and a user in it.
Passed(p, r) == p[1] < r.table \/ (p[1] = r.table /\ p[2] < r.user)
Ahead(p, r) == p[1] > r.table \/ (p[1] = r.table /\ p[2] > r.user)

RowsAt(r, p) == source[r.users[p[2]]][Tables[p[1]]]
PlacesOf(r) == (1..10) \X (1..Len(r.users))

\* A row of a place is in the ledger and, if rows refer to it, in the map.
Dealt(ledger, r, p, row) ==
    /\ \E e \in ledger : e.user = r.users[p[2]] /\ e.table = Tables[p[1]] /\ e.key = row.id /\ e.row = row
    /\ Tables[p[1]] \in Referenced =>
          \E m \in r.map : m.table = Tables[p[1]] /\ m.user = r.users[p[2]] /\ m.was = row.id

\* The run: what it has dealt with, and what is still to come.
RunHolds(ledger, r) ==
    /\ DOMAIN r = {"users", "apply", "table", "user", "todo", "map", "overlap"}
    /\ r.apply \in BOOLEAN
    /\ r.users \in Seq(User) /\ Len(r.users) \in Nat \ {0}
    /\ r.table \in 1..10 /\ r.user \in 1..Len(r.users)
    /\ r.todo \subseteq RowsAt(r, <<r.table, r.user>>)
    /\ \A p \in PlacesOf(r) : Passed(p, r) => \A row \in RowsAt(r, p) : Dealt(ledger, r, p, row)
    /\ \A row \in RowsAt(r, <<r.table, r.user>>) \ r.todo : Dealt(ledger, r, <<r.table, r.user>>, row)
    /\ \A m \in r.map : \E e \in ledger :
          m.table = e.table /\ m.user = e.user /\ m.was = e.key /\ m.is = e.to

Settled(r) == r.todo = {} => \A p \in PlacesOf(r) : Ahead(p, r) => RowsAt(r, p) = {}

\* What a run r has made of the last commit s, the destination being d.
Progress(d, s, r) ==
    /\ s.ledger \subseteq d.ledger
    /\ NothingTaken(s.rows, d.rows)
    /\ d = s \/ \E x \in Rows(r.users) : x \notin Imported(s)

RunAgrees(d, s, r) ==
    IF r # NoRun THEN RunHolds(d.ledger, r) /\ Settled(r) /\ Progress(d, s, r) ELSE d = s

MergeInv == SourceHolds /\ Holds(db) /\ Holds(saved) /\ RunAgrees(db, saved, run)

-----------------------------------------------------------------------------
(* Tables and places.                                                        *)

LEMMA TablesAre ==
    /\ Len(Tables) = 10
    /\ Tables[1] = "goal" /\ Tables[2] = "event" /\ Tables[3] = "advice" /\ Tables[4] = "feedback"
    /\ Tables[5] = "relevance" /\ Tables[6] = "outcome" /\ Tables[7] = "charter" /\ Tables[8] = "trust"
    /\ Tables[9] = "preference" /\ Tables[10] = "mute"
    /\ TableNames = {"goal", "event", "advice", "feedback", "relevance", "outcome", "charter", "trust",
                     "preference", "mute"}
    /\ \A i \in 1..10 : Tables[i] \in TableNames
<1>1. Len(Tables) = 10
  BY DEF Tables
<1>2. /\ Tables[1] = "goal" /\ Tables[2] = "event" /\ Tables[3] = "advice" /\ Tables[4] = "feedback"
      /\ Tables[5] = "relevance" /\ Tables[6] = "outcome" /\ Tables[7] = "charter" /\ Tables[8] = "trust"
      /\ Tables[9] = "preference" /\ Tables[10] = "mute"
  BY DEF Tables
<1>3. TableNames = {Tables[i] : i \in 1..10}
  BY <1>1 DEF TableNames
<1>4. 1..10 = {1, 2, 3, 4, 5, 6, 7, 8, 9, 10}
  OBVIOUS
<1>5. TableNames = {Tables[i] : i \in {1, 2, 3, 4, 5, 6, 7, 8, 9, 10}}
  BY <1>3, <1>4
<1>6. TableNames = {"goal", "event", "advice", "feedback", "relevance", "outcome", "charter", "trust",
                    "preference", "mute"}
  BY <1>2, <1>5
<1> QED BY <1>1, <1>2, <1>3, <1>6

\* The tables a table refers to come before it.
LEMMA EarlierTables ==
    ASSUME NEW i \in 1..10, NEW t \in Before(Tables[i])
    PROVE  t \in Referenced /\ \E j \in 1..10 : j < i /\ Tables[j] = t
<1>1. i \in {1, 2, 3, 4, 5, 6, 7, 8, 9, 10}
  OBVIOUS
<1>2. CASE i = 1
  BY <1>2, TablesAre DEF Before
<1>3. CASE i = 2
  BY <1>3, TablesAre DEF Before, Referenced
<1>4. CASE i = 3
  BY <1>4, TablesAre DEF Before, Referenced
<1>5. CASE i > 3
  <2>1. Before(Tables[i]) = Referenced
    BY <1>1, <1>5, TablesAre DEF Before
  <2> QED BY <1>5, <2>1, TablesAre DEF Referenced
<1> QED BY <1>1, <1>2, <1>3, <1>4, <1>5

\* A set of numbers has a least one.
LEMMA LeastOf ==
    ASSUME NEW S \in SUBSET Nat, S # {}
    PROVE  \E n \in S : \A m \in S : n <= m
<1> DEFINE R == {ss \in Nat \X Nat : ss[1] < ss[2]}
<1>1. IsWellFoundedOn(R, Nat)
  BY NatLessThanWellFounded DEF OpToRel
<1>2. PICK n \in S : \A m \in S : <<m, n>> \notin R
  <2> HIDE DEF R
  <2> QED BY <1>1, WFMin
<1>3. \A m \in S : ~(m < n)
  BY <1>2
<1> QED BY <1>3

\* Places have a first one.
LEMMA FirstPlace ==
    ASSUME NEW S \in SUBSET (Nat \X Nat), S # {}
    PROVE  \E p \in S : \A q \in S : p[1] < q[1] \/ (p[1] = q[1] /\ p[2] <= q[2])
<1> DEFINE T == {p[1] : p \in S}
<1>1. PICK t \in T : \A m \in T : t <= m
  <2>1. T \in SUBSET Nat /\ T # {}
    OBVIOUS
  <2> HIDE DEF T
  <2> QED BY <2>1, LeastOf
<1> DEFINE U == {p[2] : p \in {q \in S : q[1] = t}}
<1>2. PICK u \in U : \A m \in U : u <= m
  <2>1. U \in SUBSET Nat /\ U # {}
    BY <1>1
  <2> HIDE DEF U
  <2> QED BY <2>1, LeastOf
<1>3. PICK p \in S : p[1] = t /\ p[2] = u
  BY <1>2
<1>4. ASSUME NEW q \in S PROVE p[1] < q[1] \/ (p[1] = q[1] /\ p[2] <= q[2])
  <2>1. t <= q[1] /\ (q[1] = t => u <= q[2]) /\ t \in Nat /\ q[1] \in Nat
    BY <1>1, <1>2
  <2> QED BY <1>3, <2>1
<1> QED BY <1>4

\* A run goes on to the next place with rows, and misses none.
LEMMA OnwardGoes ==
    ASSUME NEW ledger, NEW r, RunHolds(ledger, r)
    PROVE  /\ RunHolds(ledger, Onward(r)) /\ Settled(Onward(r))
           /\ Onward(r).users = r.users
<1> DEFINE ahead == {p \in PlacesOf(r) : Ahead(p, r) /\ RowsAt(r, p) # {}}
           next == CHOOSE p \in ahead : \A q \in ahead : p[1] < q[1] \/ (p[1] = q[1] /\ p[2] <= q[2])
           n == [r EXCEPT !.table = next[1], !.user = next[2], !.todo = RowsAt(r, next)]
<1>1. Onward(r) = IF r.todo # {} \/ ahead = {} THEN r ELSE n
  BY TablesAre DEF Onward, RowsAt, PlacesOf, Ahead
<1>2. CASE r.todo # {} \/ ahead = {}
  BY <1>1, <1>2 DEF Settled
<1>3. CASE r.todo = {} /\ ahead # {}
  <2>1. ahead \in SUBSET (Nat \X Nat)
    BY DEF PlacesOf, RunHolds
  <2>2. next \in ahead /\ \A q \in ahead : next[1] < q[1] \/ (next[1] = q[1] /\ next[2] <= q[2])
    <3>1. \E p \in ahead : \A q \in ahead : p[1] < q[1] \/ (p[1] = q[1] /\ p[2] <= q[2])
      <4> HIDE DEF ahead
      <4> QED BY <1>3, <2>1, FirstPlace
    <3> QED BY <3>1
  <2>3. next \in PlacesOf(r) /\ Ahead(next, r) /\ RowsAt(r, next) # {}
    BY <2>2
  <2> HIDE DEF next
  <2>4. /\ DOMAIN n = {"users", "apply", "table", "user", "todo", "map", "overlap"}
        /\ n.users = r.users /\ n.apply = r.apply /\ n.map = r.map
        /\ n.table = next[1] /\ n.user = next[2] /\ n.todo = RowsAt(r, next)
    BY DEF RunHolds
  <2> HIDE DEF n
  <2>5. /\ \A p : RowsAt(n, p) = RowsAt(r, p)
        /\ PlacesOf(n) = PlacesOf(r)
        /\ \A p, row : Dealt(ledger, n, p, row) <=> Dealt(ledger, r, p, row)
    BY <2>4 DEF RowsAt, PlacesOf, Dealt
  <2>6. ASSUME NEW p \in PlacesOf(r), Passed(p, n), NEW row \in RowsAt(r, p) PROVE Dealt(ledger, r, p, row)
    <3>1. /\ p[1] \in Nat /\ p[2] \in Nat /\ next[1] \in Nat /\ next[2] \in Nat /\ p = <<p[1], p[2]>>
          /\ r.table \in Nat /\ r.user \in Nat
      BY <2>3 DEF PlacesOf, RunHolds
    <3>2. p \notin ahead
      BY <2>2, <2>4, <2>6, <3>1 DEF Passed
    <3>3. Passed(p, r) \/ p = <<r.table, r.user>>
      BY <2>6, <3>1, <3>2 DEF Ahead, Passed
    <3> QED BY <1>3, <2>6, <3>3 DEF RunHolds
  <2>7. /\ n.table \in 1..10 /\ n.user \in 1..Len(n.users)
        /\ <<n.table, n.user>> = next
    BY <2>3, <2>4 DEF PlacesOf
  <2>8. RunHolds(ledger, n)
    BY <2>4, <2>5, <2>6, <2>7 DEF RunHolds
  <2>9. n.todo # {}
    BY <2>3, <2>4
  <2> QED BY <1>1, <1>3, <2>4, <2>8, <2>9 DEF Settled
<1> QED BY <1>2, <1>3

-----------------------------------------------------------------------------
(* A row that is dealt with.                                                 *)

Entry(row, to, action) ==
    [user |-> Current, table |-> Table, key |-> row.id, row |-> row, to |-> to, action |-> action]

\* What a row of a table becomes.
Stays(t, r, n) ==
    /\ n.id = r.id
    /\ t = "goal" => n.text = r.text
    /\ t = "event" => n.observed = r.observed
    /\ t = "advice" => n.text = r.text /\ n.goal = r.goal /\ n.event = r.event
    /\ t = "feedback" => n.advice = r.advice

RowsStay(old, new) == \A t \in TableNames : \A r \in old[t] : \E n \in new[t] : Stays(t, r, n)

\* What a run may make of the tables and the reminders when it deals with a row.
LawfulRows(d, row) ==
    /\ DOMAIN d.rows = TableNames
    /\ \A t \in TableNames : TableHolds(t, d.rows[t])
    /\ RowsStay(db.rows, d.rows)
    /\ \A t \in Renaming : \A n \in d.rows[t] :
          (\E r \in db.rows[t] : n.id = r.id) \/ (t = Table /\ n.id = FreeId(row))
    /\ OneIsLive(d.rows.advice)
    /\ NothingTaken(db.rows, d.rows)

LawfulReminders(d, to, action) ==
    /\ DOMAIN d.reminders = {"open", "closed", "claimed"}
    /\ d.reminders.open \cap d.reminders.closed = {}
    /\ d.reminders.claimed \subseteq d.reminders.open
    /\ \A id \in d.reminders.open \cup d.reminders.closed : \E a \in d.rows.advice : a.id = id
    /\ db.reminders.closed \subseteq d.reminders.closed
    /\ Table = "advice" /\ action # "deduplicated" => to \in d.reminders.closed

LawfulAnswer(d, row, to) ==
    /\ Table = "advice" /\ ~IsOpen(row) => to \in d.reminders.closed
    /\ Table = "feedback" /\ to # None =>
          \A f \in d.rows.feedback : f.id = to => f.advice \in d.reminders.closed

LawfulEntry(d, row, to, action) ==
    /\ Table \in Referenced => to # None
    /\ to # None => \E r \in d.rows[Table] : r.id = to /\ Came(db.ledger, Entry(row, to, action), r)
    /\ Table = "outcome" /\ to # None => Led(db.ledger, "advice", Current, row.id, to)
    /\ Table = "relevance" /\ to # None => Led(db.ledger, "advice", Current, row.id.advice, to.advice)

Lawful(d, row, to, action) ==
    /\ DOMAIN d = {"rows", "reminders", "ledger"} /\ d.ledger = db.ledger
    /\ LawfulRows(d, row) /\ LawfulReminders(d, to, action) /\ LawfulEntry(d, row, to, action)
    /\ LawfulAnswer(d, row, to)

\* The row at hand, where it comes from, and what came before it.
LEMMA RowAtHand ==
    ASSUME SourceHolds, RunHolds(db.ledger, run), NEW row \in run.todo
    PROVE  /\ Current \in User /\ Table \in TableNames /\ row \in source[Current][Table]
           /\ DOMAIN row = Fields[Table] /\ \A f \in Counts[Table] : row[f] \in Nat
           /\ Table = "relevance" => DOMAIN row.id = {"advice", "signal"}
           /\ \A t \in Before(Table) : \A s \in source[Current][t] :
                 /\ \E f \in db.ledger : f.user = Current /\ f.table = t /\ f.key = s.id
                 /\ \E m \in run.map : m.table = t /\ m.user = Current /\ m.was = s.id
<1>1. /\ Current \in User /\ Table \in TableNames /\ row \in source[Current][Table]
      /\ run.table \in 1..10 /\ run.user \in 1..Len(run.users)
  BY TablesAre DEF RunHolds, RowsAt, Current, Table
<1>2. ASSUME NEW t \in Before(Table), NEW s \in source[Current][t]
      PROVE  /\ \E f \in db.ledger : f.user = Current /\ f.table = t /\ f.key = s.id
             /\ \E m \in run.map : m.table = t /\ m.user = Current /\ m.was = s.id
  <2>1. PICK j \in 1..10 : j < run.table /\ Tables[j] = t /\ t \in Referenced
    BY <1>1, EarlierTables DEF Table
  <2> DEFINE p == <<j, run.user>>
  <2>2. p \in PlacesOf(run) /\ Passed(p, run) /\ s \in RowsAt(run, p) /\ p[1] = j /\ p[2] = run.user
    BY <1>1, <2>1 DEF PlacesOf, Passed, RowsAt, Current
  <2>3. Dealt(db.ledger, run, p, s)
    BY <2>2 DEF RunHolds
  <2> QED BY <2>1, <2>2, <2>3 DEF Dealt, Current
<1>3. /\ DOMAIN row = Fields[Table] /\ \A f \in Counts[Table] : row[f] \in Nat
      /\ Table = "relevance" => DOMAIN row.id = {"advice", "signal"}
  BY <1>1 DEF SourceHolds, TableHolds
<1> QED BY <1>1, <1>2, <1>3

\* The books are kept.
LEMMA BooksKept ==
    ASSUME SourceHolds, Books(db.ledger), RunHolds(db.ledger, run), NEW row \in run.todo, Entries(row) = {},
           NEW to, NEW action, Table \in Referenced => to # None
    PROVE  Books(db.ledger \cup {Entry(row, to, action)})
<1> DEFINE n == Entry(row, to, action)
           ledger == db.ledger \cup {n}
<1>1. /\ DOMAIN n = {"user", "table", "key", "row", "to", "action"}
      /\ n.user = Current /\ n.table = Table /\ n.key = row.id /\ n.row = row /\ n.to = to
  BY DEF Entry
<1>2. \A e \in db.ledger : ~(e.user = n.user /\ e.table = n.table /\ e.key = n.key)
  BY <1>1 DEF Entries
<1>3. \A t \in Before(Table) : \A s \in source[Current][t] :
         \E f \in db.ledger : f.user = Current /\ f.table = t /\ f.key = s.id
  BY RowAtHand
<1>4. Current \in User /\ Table \in TableNames /\ row \in source[Current][Table]
  BY RowAtHand
<1> HIDE DEF n
<1>5. \A e \in ledger :
         /\ DOMAIN e = {"user", "table", "key", "row", "to", "action"}
         /\ e.user \in User /\ e.table \in TableNames /\ e.key = e.row.id
         /\ \E s \in source[e.user][e.table] : s.id = e.key
         /\ e.table \in Referenced => e.to # None
  BY <1>1, <1>4 DEF Books
<1>6. \A e, f \in ledger : e.user = f.user /\ e.table = f.table /\ e.key = f.key => e = f
  BY <1>2 DEF Books
<1>7. \A e \in ledger : \A t \in Before(e.table) : \A s \in source[e.user][t] :
         \E f \in ledger : f.user = e.user /\ f.table = t /\ f.key = s.id
  BY <1>1, <1>3 DEF Books
<1> HIDE DEF ledger
<1>8. Books(ledger)
  BY <1>5, <1>6, <1>7 DEF Books
<1> QED BY <1>8 DEF ledger, n

\* What the books say of a row is said for good.
LEMMA LedKept ==
    ASSUME NEW ledger, NEW n, Books(ledger), Books(ledger \cup {n}), NEW e \in ledger, NEW t \in Before(e.table),
           NEW was, NEW is, Led(ledger, t, e.user, was, is)
    PROVE  Led(ledger \cup {n}, t, e.user, was, is)
<1> SUFFICES ASSUME NEW f \in ledger \cup {n}, f.table = t, f.user = e.user, f.key = was
             PROVE  f.to = is
  BY DEF Led
<1>1. PICK s \in source[f.user][f.table] : s.id = f.key
  BY DEF Books
<1>2. PICK g \in ledger : g.user = f.user /\ g.table = f.table /\ g.key = f.key
  BY <1>1 DEF Books
<1>3. g = f
  BY <1>2 DEF Books
<1> QED BY <1>2, <1>3 DEF Led

LEMMA NotBeforeItself == \A t : t \notin Before(t)
  BY DEF Before, Referenced

LEMMA BeforeAre ==
    /\ "goal" \in Before("advice") /\ "event" \in Before("advice")
    /\ "advice" \in Before("feedback") /\ "advice" \in Before("outcome") /\ "advice" \in Before("relevance")
    /\ "goal" \in Before("preference") /\ "advice" \in Before("mute")
  BY DEF Before, Referenced

\* A row that is dealt with lawfully leaves the destination in order.
LEMMA LawfulHolds ==
    ASSUME SourceHolds, Holds(db), RunHolds(db.ledger, run), NEW row \in run.todo, Entries(row) = {},
           NEW d, NEW to, NEW action, Lawful(d, row, to, action)
    PROVE  Holds(Recorded(d, row, to, action))
<1> DEFINE n == Entry(row, to, action)
           ledger == db.ledger \cup {n}
           new == Recorded(d, row, to, action)
<1>1. /\ DOMAIN new = {"rows", "reminders", "ledger"}
      /\ new.rows = d.rows /\ new.reminders = d.reminders /\ new.ledger = ledger
  BY DEF Recorded, Lawful, Entry
<1>2. Books(db.ledger) /\ Books(ledger)
  BY BooksKept DEF Holds, Lawful, LawfulEntry
<1>3. /\ n.user = Current /\ n.table = Table /\ n.key = row.id /\ n.row = row /\ n.to = to
      /\ n.action = action
  BY DEF Entry
<1>4. Current \in User /\ Table \in TableNames /\ row \in source[Current][Table]
  BY RowAtHand
<1> HIDE DEF new, n
\* The books say no more of the rows that came before.
<1>5. ASSUME NEW t \in Before(Table), NEW was, NEW is, Led(db.ledger, t, Current, was, is)
      PROVE  Led(ledger, t, Current, was, is)
  BY <1>3, <1>5, NotBeforeItself DEF Led
<1>6. ASSUME NEW e \in db.ledger, NEW t \in Before(e.table), NEW was, NEW is, Led(db.ledger, t, e.user, was, is)
      PROVE  Led(ledger, t, e.user, was, is)
  BY <1>2, <1>6, LedKept
<1> HIDE DEF ledger
<1>7. NamesMade(new)
  <2> SUFFICES ASSUME NEW t \in Renaming, NEW r \in d.rows[t], NEW u \in User, NEW s \in source[u][t],
                      r.id = Renamed(t, u, s.id)
               PROVE  \E e \in ledger : e.user = u /\ e.table = t /\ e.key = s.id
    BY <1>1 DEF NamesMade
  <2>1. CASE \E q \in db.rows[t] : r.id = q.id
    <3>1. PICK q \in db.rows[t] : r.id = q.id
      BY <2>1
    <3>2. NamesMade(db)
      BY DEF Holds
    <3>3. q.id = Renamed(t, u, s.id)
      BY <3>1
    <3>4. \A w \in source[u][t] : q.id = Renamed(t, u, w.id) =>
             \E e \in db.ledger : e.user = u /\ e.table = t /\ e.key = w.id
      BY <3>2 DEF NamesMade
    <3>5. \E e \in db.ledger : e.user = u /\ e.table = t /\ e.key = s.id
      BY <3>3, <3>4
    <3> QED BY <3>5 DEF ledger
  <2>2. CASE t = Table /\ r.id = FreeId(row)
    <3>1. row.id # Renamed(t, u, s.id)
      BY <1>4, <2>2 DEF SourceHolds
    <3>2. Renamed(Table, Current, row.id) = Renamed(t, u, s.id)
      BY <2>2, <3>1 DEF FreeId
    <3>3. Current = u /\ row.id = s.id
      BY <3>2 DEF Renamed
    <3> QED BY <1>3, <2>2, <3>3 DEF ledger
  <2> QED BY <2>1, <2>2 DEF Lawful, LawfulRows
<1>8. RemindersHold(new)
  <2>1. \A e \in ledger : e.table = "advice" /\ e.action # "deduplicated" => e.to \in d.reminders.closed
    BY <1>3 DEF ledger, Lawful, LawfulReminders, Holds, RemindersHold
  <2> QED BY <1>1, <2>1 DEF RemindersHold, Lawful, LawfulReminders
<1>9. ImportsHold(new)
  <2>1. ASSUME NEW e \in db.ledger, NEW r, NEW q, Came(db.ledger, e, r), Stays(e.table, r, q)
        PROVE  Came(ledger, e, q)
    BY <1>6, <2>1, BeforeAre DEF Came, Stays
  <2>2. ASSUME NEW r, Came(db.ledger, n, r) PROVE Came(ledger, n, r)
    BY <1>3, <1>5, <2>2, BeforeAre DEF Came
  <2>3. ASSUME NEW e \in db.ledger
        PROVE  /\ e.to # None => \E q \in d.rows[e.table] : q.id = e.to /\ Came(ledger, e, q)
               /\ e.table = "outcome" /\ e.to # None => Led(ledger, "advice", e.user, e.key, e.to)
               /\ e.table = "relevance" /\ e.to # None => Led(ledger, "advice", e.user, e.key.advice, e.to.advice)
    <3>1. ASSUME e.to # None PROVE \E q \in d.rows[e.table] : q.id = e.to /\ Came(ledger, e, q)
      <4>1. PICK r \in db.rows[e.table] : r.id = e.to /\ Came(db.ledger, e, r)
        BY <3>1 DEF Holds, ImportsHold
      <4>2. PICK q \in d.rows[e.table] : Stays(e.table, r, q)
        BY <1>2 DEF Lawful, LawfulRows, RowsStay, Books
      <4> QED BY <2>1, <4>1, <4>2 DEF Stays
    <3>2. e.table = "outcome" /\ e.to # None => Led(ledger, "advice", e.user, e.key, e.to)
      BY <1>6, BeforeAre DEF Holds, ImportsHold
    <3>3. e.table = "relevance" /\ e.to # None => Led(ledger, "advice", e.user, e.key.advice, e.to.advice)
      BY <1>6, BeforeAre DEF Holds, ImportsHold
    <3> QED BY <3>1, <3>2, <3>3
  <2>4. /\ n.to # None => \E q \in d.rows[n.table] : q.id = n.to /\ Came(ledger, n, q)
        /\ n.table = "outcome" /\ n.to # None => Led(ledger, "advice", n.user, n.key, n.to)
        /\ n.table = "relevance" /\ n.to # None => Led(ledger, "advice", n.user, n.key.advice, n.to.advice)
    <3>1. n.to # None => \E q \in d.rows[n.table] : q.id = n.to /\ Came(ledger, n, q)
      BY <1>3, <2>2 DEF Lawful, LawfulEntry, n
    <3>2. n.table = "outcome" /\ n.to # None => Led(ledger, "advice", n.user, n.key, n.to)
      BY <1>3, <1>5, BeforeAre DEF Lawful, LawfulEntry
    <3>3. n.table = "relevance" /\ n.to # None => Led(ledger, "advice", n.user, n.key.advice, n.to.advice)
      BY <1>3, <1>5, BeforeAre DEF Lawful, LawfulEntry
    <3> QED BY <3>1, <3>2, <3>3
  <2>5. \A e \in ledger : e \in db.ledger \/ e = n
    BY DEF ledger
  <2> QED BY <1>1, <2>3, <2>4, <2>5 DEF ImportsHold
<1>10. /\ DOMAIN new.rows = TableNames
       /\ \A t \in TableNames : TableHolds(t, new.rows[t])
       /\ OneIsLive(new.rows.advice)
  BY <1>1 DEF Lawful, LawfulRows
<1>11. Books(new.ledger)
  BY <1>1, <1>2
<1>12. AnswersHold(new)
  <2>1. db.reminders.closed \subseteq d.reminders.closed /\ AnswersHold(db) /\ ImportsHold(db)
    BY DEF Lawful, LawfulReminders, Holds
  <2>2. /\ db.rows.feedback \subseteq d.rows.feedback
        /\ \A f, q \in d.rows.feedback : f.id = q.id => f = q
    BY TablesAre DEF Lawful, LawfulRows, NothingTaken, TableHolds
  <2>3. ASSUME NEW e \in db.ledger
        PROVE  /\ e.table = "advice" /\ ~IsOpen(e.row) => e.to \in d.reminders.closed
               /\ e.table = "feedback" /\ e.to # None =>
                     \A f \in d.rows.feedback : f.id = e.to => f.advice \in d.reminders.closed
    <3>1. e.table = "advice" /\ ~IsOpen(e.row) => e.to \in d.reminders.closed
      BY <2>1 DEF AnswersHold
    <3>2. ASSUME e.table = "feedback", e.to # None, NEW f \in d.rows.feedback, f.id = e.to
          PROVE  f.advice \in d.reminders.closed
      <4>1. PICK r \in db.rows.feedback : r.id = e.to
        BY <2>1, <3>2 DEF ImportsHold
      <4>2. r = f
        BY <2>2, <3>2, <4>1
      <4>3. r.advice \in db.reminders.closed
        BY <2>1, <3>2, <4>1 DEF AnswersHold
      <4> QED BY <2>1, <4>2, <4>3
    <3> QED BY <3>1, <3>2
  <2>4. /\ n.table = "advice" /\ ~IsOpen(n.row) => n.to \in d.reminders.closed
        /\ n.table = "feedback" /\ n.to # None =>
              \A f \in d.rows.feedback : f.id = n.to => f.advice \in d.reminders.closed
    BY <1>3 DEF Lawful, LawfulAnswer
  <2>5. \A e \in ledger : e \in db.ledger \/ e = n
    BY DEF ledger
  <2> QED BY <1>1, <2>3, <2>4, <2>5 DEF AnswersHold
<1>13. Holds(new)
  BY <1>1, <1>7, <1>8, <1>9, <1>10, <1>11, <1>12 DEF Holds
<1> QED BY <1>13 DEF new

\* A step that leaves the source alone.
LEMMA AfterStep ==
    ASSUME NEW d, NEW s, NEW r, source' = source, db' = d, saved' = s, run' = r,
           SourceHolds, Holds(d), Holds(s), RunAgrees(d, s, r)
    PROVE  MergeInv'
<1>1. SourceHolds'
  BY DEF SourceHolds
<1>2. Holds(db)' /\ Holds(saved)'
  BY DEF Holds, Books, NamesMade, RemindersHold, ImportsHold, AnswersHold
<1>3. RunAgrees(db, saved, run)'
  <2>1. CASE r = NoRun
    BY <2>1 DEF RunAgrees
  <2>2. CASE r # NoRun
    <3>1. RunHolds(d.ledger, r) /\ Settled(r) /\ Progress(d, s, r)
      BY <2>2 DEF RunAgrees
    <3>2. RunHolds(db.ledger, run)'
      BY <3>1 DEF RunHolds, RowsAt, PlacesOf, Dealt, Passed
    <3>3. Settled(run)'
      BY <3>1 DEF Settled, RowsAt, PlacesOf, Ahead
    <3>4. Progress(db, saved, run)'
      BY <3>1 DEF Progress, Rows, Imported
    <3> QED BY <2>2, <3>2, <3>3, <3>4 DEF RunAgrees
  <2> QED BY <2>1, <2>2
<1> QED BY <1>1, <1>2, <1>3 DEF MergeInv

LEMMA RunIsOne == ASSUME NEW ledger, NEW r, RunHolds(ledger, r) PROVE r # NoRun
  BY DEF RunHolds, NoRun

\* A row that is dealt with, of whatever outcome, is one the run has behind it.
LEMMA RunDeals ==
    ASSUME SourceHolds, RunHolds(db.ledger, run), NEW row \in run.todo, NEW to, NEW ledger, NEW r,
           db.ledger \subseteq ledger,
           \E e \in ledger : e.user = Current /\ e.table = Table /\ e.key = row.id /\ e.row = row /\ e.to = to,
           Table \in Referenced => to # None,
           DOMAIN r = DOMAIN run, r.users = run.users, r.apply = run.apply, r.table = run.table, r.user = run.user,
           r.todo = run.todo \ {row}, r.map = run.map \cup Link(row, to)
    PROVE  RunHolds(ledger, r)
<1>1. \A p : RowsAt(r, p) = RowsAt(run, p)
  BY DEF RowsAt
<1>2. PlacesOf(r) = PlacesOf(run) /\ \A p : Passed(p, r) <=> Passed(p, run)
  BY DEF PlacesOf, Passed
<1>3. ASSUME NEW p, NEW x, Dealt(db.ledger, run, p, x) PROVE Dealt(ledger, r, p, x)
  BY <1>3 DEF Dealt
<1>4. Dealt(ledger, r, <<run.table, run.user>>, row)
  <2>1. Table \in Referenced => \E m \in r.map : m.table = Table /\ m.user = Current /\ m.was = row.id
    <3> SUFFICES ASSUME Table \in Referenced
                 PROVE  \E m \in r.map : m.table = Table /\ m.user = Current /\ m.was = row.id
      OBVIOUS
    <3>1. PICK m : m = [table |-> Table, user |-> Current, was |-> row.id, is |-> to]
      OBVIOUS
    <3>2. m \in Link(row, to)
      BY <3>1 DEF Link
    <3> QED BY <3>1, <3>2
  <2> QED BY <2>1 DEF Dealt, Table, Current
<1>5. ASSUME NEW m \in r.map
      PROVE  \E e \in ledger : m.table = e.table /\ m.user = e.user /\ m.was = e.key /\ m.is = e.to
  <2>1. CASE m \in run.map
    BY <2>1 DEF RunHolds
  <2>2. CASE m \in Link(row, to)
    BY <2>2 DEF Link
  <2> QED BY <2>1, <2>2
<1>6. \A p \in PlacesOf(r) : Passed(p, r) => \A x \in RowsAt(r, p) : Dealt(ledger, r, p, x)
  BY <1>1, <1>2, <1>3 DEF RunHolds
<1>7. \A x \in RowsAt(r, <<r.table, r.user>>) \ r.todo : Dealt(ledger, r, <<r.table, r.user>>, x)
  <2> SUFFICES ASSUME NEW x \in RowsAt(r, <<r.table, r.user>>) \ r.todo
               PROVE  Dealt(ledger, r, <<r.table, r.user>>, x)
    OBVIOUS
  <2>1. CASE x = row
    BY <1>4, <2>1
  <2>2. CASE x # row
    <3>1. x \in RowsAt(run, <<run.table, run.user>>) \ run.todo
      BY <1>1, <2>2
    <3>2. Dealt(db.ledger, run, <<run.table, run.user>>, x)
      BY <3>1 DEF RunHolds
    <3> QED BY <1>3, <3>2
  <2> QED BY <2>1, <2>2
<1>8. r.todo \subseteq RowsAt(r, <<r.table, r.user>>)
  BY <1>1 DEF RunHolds
<1> QED BY <1>5, <1>6, <1>7, <1>8 DEF RunHolds

\* Nothing is taken step by step.
LEMMA NothingTakenOn ==
    ASSUME NEW a, NEW b, NEW c, NothingTaken(a, b), NothingTaken(b, c),
           \A g \in a.goal \cup b.goal \cup c.goal : g.at \in Nat,
           \A g \in a.charter \cup b.charter \cup c.charter : g.level \in Nat,
           \A g \in a.trust \cup b.trust \cup c.trust : g.judged \in Nat
    PROVE  NothingTaken(a, c)
<1>1. ASSUME NEW g \in a.goal PROVE \E h \in c.goal : h.id = g.id /\ h.text = g.text /\ h.at >= g.at
  <2>1. PICK h \in b.goal : h.id = g.id /\ h.text = g.text /\ h.at >= g.at
    BY DEF NothingTaken
  <2>2. PICK k \in c.goal : k.id = h.id /\ k.text = h.text /\ k.at >= h.at
    BY DEF NothingTaken
  <2>3. g.at \in Nat /\ h.at \in Nat /\ k.at \in Nat
    OBVIOUS
  <2> QED BY <2>1, <2>2, <2>3
<1>2. ASSUME NEW g \in a.charter PROVE \E h \in c.charter : h.id = g.id /\ h.level >= g.level
  <2>1. PICK h \in b.charter : h.id = g.id /\ h.level >= g.level
    BY DEF NothingTaken
  <2>2. PICK k \in c.charter : k.id = h.id /\ k.level >= h.level
    BY DEF NothingTaken
  <2>3. g.level \in Nat /\ h.level \in Nat /\ k.level \in Nat
    OBVIOUS
  <2> QED BY <2>1, <2>2, <2>3
<1>3. ASSUME NEW g \in a.trust PROVE \E h \in c.trust : h.id = g.id /\ h.judged >= g.judged
  <2>1. PICK h \in b.trust : h.id = g.id /\ h.judged >= g.judged
    BY DEF NothingTaken
  <2>2. PICK k \in c.trust : k.id = h.id /\ k.judged >= h.judged
    BY DEF NothingTaken
  <2>3. g.judged \in Nat /\ h.judged \in Nat /\ k.judged \in Nat
    OBVIOUS
  <2> QED BY <2>1, <2>2, <2>3
<1>4. \A t \in {"event", "advice", "feedback", "outcome"} : a[t] \subseteq c[t]
  BY DEF NothingTaken
<1> QED BY <1>1, <1>2, <1>3, <1>4 DEF NothingTaken

\* The counts and moments that only grow are numbers.
LEMMA CountsAre ==
    ASSUME NEW rows, \A t \in TableNames : TableHolds(t, rows[t])
    PROVE  /\ \A g \in rows.goal : g.at \in Nat
           /\ \A g \in rows.charter : g.level \in Nat
           /\ \A g \in rows.trust : g.judged \in Nat
<1>1. "at" \in Counts["goal"] /\ "level" \in Counts["charter"] /\ "judged" \in Counts["trust"]
  BY TablesAre DEF Counts, Fields
<1>2. TableHolds("goal", rows.goal) /\ TableHolds("charter", rows.charter) /\ TableHolds("trust", rows.trust)
  BY TablesAre
<1> HIDE DEF Counts
<1> QED BY <1>1, <1>2 DEF TableHolds

\* The rows of the users of a run.
LEMMA RowsAre ==
    ASSUME NEW users, NEW x
    PROVE  x \in Rows(users) <=>
              \E i \in 1..Len(users), t \in TableNames : \E r \in source[users[i]][t] : x = <<users[i], t, r>>
<1> DEFINE S(i, t) == {<<users[i], t, r>> : r \in source[users[i]][t]}
<1>1. Rows(users) = UNION {S(i, t) : i \in 1..Len(users), t \in TableNames}
  BY DEF Rows
<1>2. \A i, t : x \in S(i, t) <=> \E r \in source[users[i]][t] : x = <<users[i], t, r>>
  OBVIOUS
<1> HIDE DEF S
<1>3. x \in Rows(users) <=> \E i \in 1..Len(users), t \in TableNames : x \in S(i, t)
  BY <1>1
<1> QED BY <1>2, <1>3

\* A step of the run that deals with a row lawfully keeps the invariant.
LEMMA HandledKeeps ==
    ASSUME MergeInv, Running, NEW row \in run.todo, Entries(row) = {},
           NEW d, NEW to, NEW action, Lawful(d, row, to, action), NEW overlap,
           db' = Recorded(d, row, to, action),
           run' = Onward([run EXCEPT !.todo = @ \ {row}, !.map = @ \cup Link(row, to), !.overlap = overlap]),
           UNCHANGED <<source, saved>>
    PROVE  MergeInv'
<1>1. /\ SourceHolds /\ Holds(db) /\ Holds(saved)
      /\ RunHolds(db.ledger, run) /\ Settled(run) /\ Progress(db, saved, run)
  BY DEF MergeInv, RunAgrees, Running
<1>2. PICK new : new = Recorded(d, row, to, action)
  OBVIOUS
<1>3. PICK r : r = [run EXCEPT !.todo = @ \ {row}, !.map = @ \cup Link(row, to), !.overlap = overlap]
  OBVIOUS
<1>4. Holds(new)
  BY <1>1, <1>2, LawfulHolds
<1>5. new.ledger = db.ledger \cup {Entry(row, to, action)} /\ new.rows = d.rows
  BY <1>2 DEF Recorded, Lawful, Entry
<1>6. RunHolds(new.ledger, r)
  <2>1. /\ DOMAIN r = DOMAIN run /\ r.users = run.users /\ r.apply = run.apply
        /\ r.table = run.table /\ r.user = run.user
        /\ r.todo = run.todo \ {row} /\ r.map = run.map \cup Link(row, to)
    BY <1>1, <1>3 DEF RunHolds
  <2>2. \E e \in new.ledger : e.user = Current /\ e.table = Table /\ e.key = row.id /\ e.row = row /\ e.to = to
    <3>1. PICK e : e = Entry(row, to, action)
      OBVIOUS
    <3>2. e.user = Current /\ e.table = Table /\ e.key = row.id /\ e.row = row /\ e.to = to
      BY <3>1 DEF Entry
    <3> QED BY <1>5, <3>1, <3>2
  <2>3. Table \in Referenced => to # None
    BY DEF Lawful, LawfulEntry
  <2>4. db.ledger \subseteq new.ledger
    BY <1>5
  <2> QED BY <1>1, <2>1, <2>2, <2>3, <2>4, RunDeals
<1>7. RunHolds(new.ledger, Onward(r)) /\ Settled(Onward(r)) /\ Onward(r).users = run.users
  <2>1. r.users = run.users
    BY <1>1, <1>3 DEF RunHolds
  <2> QED BY <1>6, <2>1, OnwardGoes
<1>8. Progress(new, saved, Onward(r))
  <2>1. saved.ledger \subseteq new.ledger
    BY <1>1, <1>5 DEF Progress
  <2>2. NothingTaken(saved.rows, new.rows)
    <3>1. NothingTaken(saved.rows, db.rows) /\ NothingTaken(db.rows, new.rows)
      BY <1>1, <1>5 DEF Progress, Lawful, LawfulRows
    <3>2. /\ \A t \in TableNames : TableHolds(t, saved.rows[t])
          /\ \A t \in TableNames : TableHolds(t, db.rows[t])
          /\ \A t \in TableNames : TableHolds(t, new.rows[t])
      BY <1>1, <1>4 DEF Holds
    <3>3. /\ \A g \in saved.rows.goal \cup db.rows.goal \cup new.rows.goal : g.at \in Nat
          /\ \A g \in saved.rows.charter \cup db.rows.charter \cup new.rows.charter : g.level \in Nat
          /\ \A g \in saved.rows.trust \cup db.rows.trust \cup new.rows.trust : g.judged \in Nat
      BY <3>2, CountsAre
    <3> QED BY <3>1, <3>3, NothingTakenOn
  <2>3. <<Current, Table, row>> \in Rows(run.users)
    <3>1. run.user \in 1..Len(run.users) /\ Table \in TableNames /\ row \in source[run.users[run.user]][Table]
      BY <1>1, RowAtHand DEF RunHolds, Current
    <3> QED BY <3>1, RowsAre DEF Current
  <2>4. <<Current, Table, row>> \notin Imported(saved)
    <3>1. \A e \in saved.ledger : e \in db.ledger /\ e.key = e.row.id
      BY <1>1 DEF Progress, Holds, Books
    <3> QED BY <3>1 DEF Imported, Entries
  <2> QED BY <1>7, <2>1, <2>2, <2>3, <2>4 DEF Progress
<1>9. RunAgrees(new, saved, Onward(r))
  BY <1>7, <1>8, RunIsOne DEF RunAgrees
<1>10. db' = new /\ run' = Onward(r) /\ saved' = saved /\ source' = source
  BY <1>2, <1>3
<1>11. PICK w : w = Onward(r)
  OBVIOUS
<1>12. PICK k : k = saved
  OBVIOUS
<1> QED BY <1>1, <1>4, <1>9, <1>10, <1>11, <1>12, AfterStep

-----------------------------------------------------------------------------
(* What a run makes of a table.                                              *)

LEMMA FieldsAre ==
    /\ Fields["goal"] = {"id", "text", "at"} /\ Counts["goal"] = {"at"}
    /\ Fields["event"] = {"id", "observed", "ref", "label"} /\ Counts["event"] = {}
    /\ Fields["advice"] = {"id", "goal", "event", "text", "topic", "ref", "status"} /\ Counts["advice"] = {}
    /\ Fields["feedback"] = {"id", "advice", "key", "kind"} /\ Counts["feedback"] = {}
    /\ Fields["relevance"] = {"id", "weight", "at"} /\ Counts["relevance"] = {"weight", "at"}
    /\ Fields["outcome"] = {"id", "result"} /\ Counts["outcome"] = {}
    /\ Fields["charter"] = {"id", "level", "redline"} /\ Counts["charter"] = {"level"}
    /\ Fields["trust"] = {"id", "judged"} /\ Counts["trust"] = {"judged"}
    /\ Fields["preference"] = {"id", "value", "at", "rev"} /\ Counts["preference"] = {"at", "rev"}
    /\ Fields["mute"] = {"id", "advice", "until"} /\ Counts["mute"] = {"until"}
<1>1. /\ Fields["goal"] = {"id", "text", "at"}
      /\ Fields["event"] = {"id", "observed", "ref", "label"}
      /\ Fields["advice"] = {"id", "goal", "event", "text", "topic", "ref", "status"}
      /\ Fields["feedback"] = {"id", "advice", "key", "kind"}
      /\ Fields["relevance"] = {"id", "weight", "at"}
      /\ Fields["outcome"] = {"id", "result"}
      /\ Fields["charter"] = {"id", "level", "redline"}
      /\ Fields["trust"] = {"id", "judged"}
      /\ Fields["preference"] = {"id", "value", "at", "rev"}
      /\ Fields["mute"] = {"id", "advice", "until"}
  BY DEF Fields
<1>2. \A t \in TableNames : Counts[t] = Fields[t] \cap {"at", "weight", "level", "judged", "rev", "until"}
  BY DEF Counts
<1>3. Counts["goal"] = {"at"} /\ Counts["event"] = {} /\ Counts["advice"] = {} /\ Counts["feedback"] = {}
  BY <1>1, <1>2, TablesAre
<1>4. Counts["relevance"] = {"weight", "at"} /\ Counts["outcome"] = {} /\ Counts["charter"] = {"level"}
  BY <1>1, <1>2, TablesAre
<1>5. Counts["trust"] = {"judged"} /\ Counts["preference"] = {"at", "rev"} /\ Counts["mute"] = {"until"}
  BY <1>1, <1>2, TablesAre
<1> QED BY <1>1, <1>3, <1>4, <1>5

LEMMA FreeIdIsFree ==
    ASSUME SourceHolds, Holds(db), RunHolds(db.ledger, run), NEW row \in run.todo, Entries(row) = {},
           Table \in Renaming
    PROVE  /\ \A r \in db.rows[Table] : r.id # FreeId(row)
           /\ Table \in Referenced => FreeId(row) # None
<1>1. Current \in User /\ row \in source[Current][Table] /\ Table \in TableNames
  BY RowAtHand
<1>2. Renamed(Table, Current, row.id) # None /\ (Table \in Referenced => row.id # None)
  BY <1>1 DEF SourceHolds, TableHolds
<1>3. ASSUME NEW r \in db.rows[Table], r.id = FreeId(row) PROVE FALSE
  <2>1. r.id = Renamed(Table, Current, row.id)
    BY <1>3 DEF FreeId
  <2>2. NamesMade(db)
    BY DEF Holds
  <2>3. \E e \in db.ledger : e.user = Current /\ e.table = Table /\ e.key = row.id
    BY <1>1, <2>1, <2>2 DEF NamesMade
  <2> QED BY <2>3 DEF Entries
<1> QED BY <1>2, <1>3 DEF FreeId

\* The maps say what the ledger says.
LEMMA MappedIsLed ==
    ASSUME SourceHolds, Books(db.ledger), RunHolds(db.ledger, run), NEW row \in run.todo,
           NEW t \in Before(Table), NEW id
    PROVE  Led(db.ledger, t, Current, id, Mapped(t, id))
<1> SUFFICES ASSUME NEW f \in db.ledger, f.table = t, f.user = Current, f.key = id
             PROVE  f.to = Mapped(t, id)
  BY DEF Led
<1>1. PICK s \in source[Current][t] : s.id = id
  BY DEF Books
<1>2. PICK m \in run.map : m.table = t /\ m.user = Current /\ m.was = id
  BY <1>1, RowAtHand
<1>3. m \in Links(t, id)
  BY <1>2 DEF Links
<1> DEFINE l == CHOOSE x \in Links(t, id) : TRUE
<1>4. l \in Links(t, id)
  BY <1>3
<1>5. Mapped(t, id) = l.is
  BY <1>3 DEF Mapped
<1> HIDE DEF l
<1>6. l \in run.map /\ l.table = t /\ l.user = Current /\ l.was = id
  BY <1>4 DEF Links
<1>7. PICK e \in db.ledger : l.table = e.table /\ l.user = e.user /\ l.was = e.key /\ l.is = e.to
  BY <1>6 DEF RunHolds
<1>8. e = f
  BY <1>6, <1>7 DEF Books
<1> QED BY <1>5, <1>7, <1>8

LEMMA RowsUnchanged ==
    ASSUME Holds(db), NEW d, NEW row, d.rows = db.rows
    PROVE  LawfulRows(d, row)
<1>1. RowsStay(db.rows, d.rows)
  BY DEF RowsStay, Stays
<1>2. NothingTaken(db.rows, d.rows)
  <2>1. /\ \A g \in db.rows.goal : g.at \in Nat
        /\ \A g \in db.rows.charter : g.level \in Nat
        /\ \A g \in db.rows.trust : g.judged \in Nat
    BY CountsAre DEF Holds
  <2>2. \A n \in Nat : n >= n
    OBVIOUS
  <2> QED BY <2>1, <2>2 DEF NothingTaken
<1> QED BY <1>1, <1>2 DEF LawfulRows, Holds

LEMMA RowInserted ==
    ASSUME Holds(db), Table \in TableNames, NEW d, NEW row, NEW n,
           d.rows = [db.rows EXCEPT ![Table] = @ \cup {n}], TableHolds(Table, {n}),
           \A r \in db.rows[Table] : r.id # n.id, Table \in Renaming => n.id = FreeId(row),
           Table = "advice" => OneIsLive(db.rows.advice \cup {n})
    PROVE  LawfulRows(d, row) /\ n \in d.rows[Table]
<1>1. DOMAIN db.rows = TableNames /\ \A t \in TableNames : TableHolds(t, db.rows[t])
  BY DEF Holds
<1>2. DOMAIN d.rows = TableNames /\ d.rows[Table] = db.rows[Table] \cup {n}
  BY <1>1
<1>3. \A t \in TableNames : t # Table => d.rows[t] = db.rows[t]
  BY <1>1
<1>4. TableHolds(Table, d.rows[Table])
  BY <1>1, <1>2 DEF TableHolds
<1>5. \A t \in TableNames : TableHolds(t, d.rows[t])
  BY <1>1, <1>3, <1>4
<1>6. \A t \in TableNames : db.rows[t] \subseteq d.rows[t]
  BY <1>2, <1>3
<1>7. RowsStay(db.rows, d.rows)
  BY <1>6 DEF RowsStay, Stays
<1>8. ASSUME NEW t \in Renaming, NEW m \in d.rows[t]
      PROVE  (\E r \in db.rows[t] : m.id = r.id) \/ (t = Table /\ m.id = FreeId(row))
  <2>1. t \in TableNames
    BY TablesAre DEF Renaming
  <2> QED BY <1>2, <1>3, <2>1
<1>9. OneIsLive(d.rows.advice)
  <2>1. "advice" \in TableNames /\ OneIsLive(db.rows.advice)
    BY TablesAre DEF Holds
  <2>2. CASE Table = "advice"
    <3>1. d.rows.advice = db.rows.advice \cup {n}
      BY <1>2, <2>2
    <3> QED BY <2>2, <3>1
  <2>3. CASE Table # "advice"
    <3>1. d.rows.advice = db.rows.advice
      BY <1>3, <2>1, <2>3
    <3> QED BY <2>1, <3>1
  <2> QED BY <2>2, <2>3
<1>10. NothingTaken(db.rows, d.rows)
  <2>1. db.rows.goal \subseteq d.rows.goal /\ db.rows.charter \subseteq d.rows.charter
                       /\ db.rows.trust \subseteq d.rows.trust
    BY <1>6, TablesAre
  <2>2. \A t \in {"event", "advice", "feedback", "outcome"} : db.rows[t] \subseteq d.rows[t]
    BY <1>6, TablesAre
  <2>3. /\ \A g \in db.rows.goal : g.at \in Nat
        /\ \A g \in db.rows.charter : g.level \in Nat
        /\ \A g \in db.rows.trust : g.judged \in Nat
    BY <1>1, CountsAre
  <2>4. \A k \in Nat : k >= k
    OBVIOUS
  <2> QED BY <2>1, <2>2, <2>3, <2>4 DEF NothingTaken
<1> QED BY <1>2, <1>5, <1>7, <1>8, <1>9, <1>10 DEF LawfulRows

LEMMA RowReplaced ==
    ASSUME Holds(db), Table \in TableNames, Table \notin {"event", "advice", "feedback", "outcome"},
           NEW d, NEW row, NEW o \in db.rows[Table], NEW n,
           d.rows = [db.rows EXCEPT ![Table] = (@ \ {o}) \cup {n}], TableHolds(Table, {n}), n.id = o.id,
           Table = "goal" => n.text = o.text /\ n.at >= o.at,
           Table = "charter" => n.level >= o.level, Table = "trust" => n.judged >= o.judged
    PROVE  LawfulRows(d, row) /\ n \in d.rows[Table]
<1>1. DOMAIN db.rows = TableNames /\ \A t \in TableNames : TableHolds(t, db.rows[t])
  BY DEF Holds
<1>2. DOMAIN d.rows = TableNames /\ d.rows[Table] = (db.rows[Table] \ {o}) \cup {n}
  BY <1>1
<1>3. \A t \in TableNames : t # Table => d.rows[t] = db.rows[t]
  BY <1>1
<1>4. TableHolds(Table, d.rows[Table])
  BY <1>1, <1>2 DEF TableHolds
<1>5. \A t \in TableNames : TableHolds(t, d.rows[t])
  BY <1>1, <1>3, <1>4
<1>6. RowsStay(db.rows, d.rows)
  <2> SUFFICES ASSUME NEW t \in TableNames, NEW r \in db.rows[t]
               PROVE  \E m \in d.rows[t] : Stays(t, r, m)
    BY DEF RowsStay
  <2>1. CASE t = Table /\ r = o
    <3>1. Stays(t, r, n)
      BY <2>1 DEF Stays
    <3> QED BY <1>2, <2>1, <3>1
  <2>2. CASE ~(t = Table /\ r = o)
    <3>1. r \in d.rows[t]
      BY <1>2, <1>3, <2>2
    <3> QED BY <3>1 DEF Stays
  <2> QED BY <2>1, <2>2
<1>7. ASSUME NEW t \in Renaming, NEW m \in d.rows[t]
      PROVE  \E r \in db.rows[t] : m.id = r.id
  <2>1. t \in TableNames
    BY TablesAre DEF Renaming
  <2> QED BY <1>2, <1>3, <2>1
<1>8. OneIsLive(d.rows.advice)
  BY <1>3, TablesAre DEF Holds
<1>9. NothingTaken(db.rows, d.rows)
  <2>1. /\ \A g \in db.rows.goal : g.at \in Nat
        /\ \A g \in db.rows.charter : g.level \in Nat
        /\ \A g \in db.rows.trust : g.judged \in Nat
    BY <1>1, CountsAre
  <2>2. \A k \in Nat : k >= k
    OBVIOUS
  <2>3. \A t \in TableNames : \A r \in db.rows[t] : r \in d.rows[t] \/ (t = Table /\ r = o)
    BY <1>2, <1>3
  <2>4. \A g \in db.rows.goal : \E h \in d.rows.goal : h.id = g.id /\ h.text = g.text /\ h.at >= g.at
    BY <1>2, <2>1, <2>2, <2>3, TablesAre
  <2>5. \A c \in db.rows.charter : \E h \in d.rows.charter : h.id = c.id /\ h.level >= c.level
    BY <1>2, <2>1, <2>2, <2>3, TablesAre
  <2>6. \A c \in db.rows.trust : \E h \in d.rows.trust : h.id = c.id /\ h.judged >= c.judged
    BY <1>2, <2>1, <2>2, <2>3, TablesAre
  <2>7. \A t \in {"event", "advice", "feedback", "outcome"} : db.rows[t] \subseteq d.rows[t]
    BY <1>3, TablesAre
  <2> QED BY <2>4, <2>5, <2>6, <2>7 DEF NothingTaken
<1> QED BY <1>2, <1>5, <1>6, <1>7, <1>8, <1>9 DEF LawfulRows

LEMMA RemindersUnchanged ==
    ASSUME Holds(db), NEW d, NEW row, LawfulRows(d, row), d.reminders = db.reminders, NEW to, NEW action,
           Table # "advice" \/ action = "deduplicated"
    PROVE  LawfulReminders(d, to, action)
<1>1. RemindersHold(db)
  BY DEF Holds
<1>2. \A a \in db.rows.advice : \E b \in d.rows.advice : b.id = a.id
  BY TablesAre DEF LawfulRows, RowsStay, Stays
<1> QED BY <1>1, <1>2 DEF RemindersHold, LawfulReminders

LEMMA RemindersResolved ==
    ASSUME Holds(db), NEW d, DOMAIN d = {"rows", "reminders", "ledger"}, NEW row, LawfulRows(d, row),
           d.reminders = db.reminders, NEW id, NEW to, NEW action, Table # "advice" \/ action = "deduplicated"
    PROVE  /\ LawfulReminders(Resolved(d, id), to, action)
           /\ DOMAIN Resolved(d, id) = DOMAIN d
           /\ Resolved(d, id).rows = d.rows /\ Resolved(d, id).ledger = d.ledger
<1>1. RemindersHold(db)
  BY DEF Holds
<1>2. \A a \in db.rows.advice : \E b \in d.rows.advice : b.id = a.id
  BY TablesAre DEF LawfulRows, RowsStay, Stays
<1>3. CASE ~\E a \in d.rows.advice : a.id = id
  <2>1. Resolved(d, id) = d
    BY <1>3 DEF Resolved
  <2> QED BY <2>1, RemindersUnchanged
<1>4. CASE \E a \in d.rows.advice : a.id = id
  <2> DEFINE k == [open |-> d.reminders.open \ {id}, closed |-> d.reminders.closed \cup {id},
                   claimed |-> d.reminders.claimed \ {id}]
             n == Resolved(d, id)
  <2>1. n = [d EXCEPT !.reminders = k]
    BY <1>4 DEF Resolved
  <2>2. /\ DOMAIN n = DOMAIN d /\ n.rows = d.rows /\ n.ledger = d.ledger /\ n.reminders = k
    BY <2>1
  <2>3. /\ DOMAIN k = {"open", "closed", "claimed"} /\ k.open = db.reminders.open \ {id}
        /\ k.closed = db.reminders.closed \cup {id} /\ k.claimed = db.reminders.claimed \ {id}
    OBVIOUS
  <2> HIDE DEF n, k
  <2>4. LawfulReminders(n, to, action)
    BY <1>1, <1>2, <1>4, <2>2, <2>3 DEF RemindersHold, LawfulReminders
  <2> QED BY <2>2, <2>4 DEF n
<1> QED BY <1>3, <1>4

LEMMA ResolvedIsClosed ==
    ASSUME NEW d, DOMAIN d = {"rows", "reminders", "ledger"}, NEW id, \E a \in d.rows.advice : a.id = id
    PROVE  id \in Resolved(d, id).reminders.closed
BY DEF Resolved

LEMMA InsertedIs ==
    ASSUME Holds(db), NEW n
    PROVE  /\ DOMAIN Inserted(n) = {"rows", "reminders", "ledger"}
           /\ Inserted(n).rows = [db.rows EXCEPT ![Table] = @ \cup {n}]
           /\ Inserted(n).reminders = db.reminders /\ Inserted(n).ledger = db.ledger
  BY DEF Holds, Inserted

LEMMA ReplacedIs ==
    ASSUME Holds(db), NEW o, NEW n
    PROVE  /\ DOMAIN Replaced(o, n) = {"rows", "reminders", "ledger"}
           /\ Replaced(o, n).rows = [db.rows EXCEPT ![Table] = (@ \ {o}) \cup {n}]
           /\ Replaced(o, n).reminders = db.reminders /\ Replaced(o, n).ledger = db.ledger
  BY DEF Holds, Replaced

-----------------------------------------------------------------------------
(* Goals, events and advice.                                                 *)

LEMMA FreshRow ==
    ASSUME MergeInv, NEW t, NEW row \in Fresh(t)
    PROVE  /\ Running /\ Table = t /\ row \in run.todo /\ Entries(row) = {}
           /\ SourceHolds /\ Holds(db) /\ RunHolds(db.ledger, run)
           /\ Table \in TableNames /\ row \in source[Current][Table]
           /\ DOMAIN row = Fields[t] /\ (\A f \in Counts[t] : row[f] \in Nat)
           /\ \A r \in db.rows[t] : DOMAIN r = Fields[t] /\ \A f \in Counts[t] : r[f] \in Nat
           /\ t \in Referenced => \A r \in db.rows[t] : r.id # None
<1>1. Running /\ Table = t /\ row \in run.todo /\ Entries(row) = {}
  BY DEF Fresh
<1>2. SourceHolds /\ Holds(db) /\ RunHolds(db.ledger, run)
  BY <1>1 DEF MergeInv, RunAgrees, Running
<1>3. /\ Table \in TableNames /\ row \in source[Current][Table]
      /\ DOMAIN row = Fields[Table] /\ \A f \in Counts[Table] : row[f] \in Nat
  BY <1>1, <1>2, RowAtHand
<1>4. TableHolds(t, db.rows[t])
  BY <1>1, <1>2, <1>3 DEF Holds
<1>5. /\ \A r \in db.rows[t] : DOMAIN r = Fields[t] /\ \A f \in Counts[t] : r[f] \in Nat
      /\ t \in Referenced => \A r \in db.rows[t] : r.id # None
  BY <1>4 DEF TableHolds
<1> QED BY <1>1, <1>2, <1>3, <1>5

LEMMA HandledLawfully ==
    ASSUME MergeInv, Running, NEW row \in run.todo, Entries(row) = {}, NEW d, NEW to, NEW action,
           Lawful(d, row, to, action), Handled(d, row, to, action)
    PROVE  MergeInv'
<1>1. DOMAIN run = {"users", "apply", "table", "user", "todo", "map", "overlap"}
  BY DEF MergeInv, RunAgrees, Running, RunHolds
<1>2. [run EXCEPT !.todo = @ \ {row}, !.map = @ \cup Link(row, to)] =
      [run EXCEPT !.todo = @ \ {row}, !.map = @ \cup Link(row, to), !.overlap = run.overlap]
  BY <1>1
<1>3. run' = Onward([run EXCEPT !.todo = @ \ {row}, !.map = @ \cup Link(row, to), !.overlap = run.overlap])
  BY <1>2 DEF Handled
<1>4. db' = Recorded(d, row, to, action) /\ UNCHANGED <<source, saved>>
  BY DEF Handled
<1>5. PICK o : o = run.overlap
  OBVIOUS
<1> QED BY <1>3, <1>4, <1>5, HandledKeeps

\* A row that makes no difference.
LEMMA DuplicateIsLawful ==
    ASSUME Holds(db), NEW row, NEW to, NEW action, LawfulEntry(db, row, to, action), LawfulAnswer(db, row, to),
           Table # "advice" \/ action = "deduplicated"
    PROVE  Lawful(db, row, to, action)
  BY RowsUnchanged, RemindersUnchanged DEF Lawful, Holds

\* Where the row of an entry is, and what it hangs on.
Lands(row, to, action, r) ==
    /\ r.id = to /\ Came(db.ledger, Entry(row, to, action), r)
    /\ Table = "outcome" => Led(db.ledger, "advice", Current, row.id, to)
    /\ Table = "relevance" => Led(db.ledger, "advice", Current, row.id.advice, to.advice)

LEMMA DuplicateKeeps ==
    ASSUME MergeInv, NEW t, NEW row \in Fresh(t), NEW r \in db.rows[t], NEW to, NEW action,
           t \notin {"advice", "feedback"}, Lands(row, to, action, r), Handled(db, row, to, action)
    PROVE  MergeInv'
<1>1. /\ Running /\ Table = t /\ row \in run.todo /\ Entries(row) = {} /\ Holds(db)
      /\ t \in Referenced => r.id # None
  BY FreshRow
<1>2. LawfulEntry(db, row, to, action) /\ LawfulAnswer(db, row, to)
  BY <1>1 DEF LawfulEntry, LawfulAnswer, Lands
<1> QED BY <1>1, <1>2, DuplicateIsLawful, HandledLawfully

LEMMA InsertKeeps ==
    ASSUME MergeInv, NEW t, NEW row \in Fresh(t), NEW n, NEW to, NEW action, t \notin {"advice", "feedback"},
           TableHolds(t, {n}), \A r \in db.rows[t] : r.id # n.id, t \in Renaming => n.id = FreeId(row),
           Lands(row, to, action, n), Handled(Inserted(n), row, to, action)
    PROVE  MergeInv'
<1>1. /\ Running /\ Table = t /\ row \in run.todo /\ Entries(row) = {} /\ Holds(db)
      /\ Table \in TableNames
  BY FreshRow
<1>2. PICK d : d = Inserted(n)
  OBVIOUS
<1>3. /\ DOMAIN d = {"rows", "reminders", "ledger"} /\ d.rows = [db.rows EXCEPT ![Table] = @ \cup {n}]
      /\ d.reminders = db.reminders /\ d.ledger = db.ledger
  BY <1>1, <1>2, InsertedIs
<1>4. LawfulRows(d, row) /\ n \in d.rows[Table]
  BY <1>1, <1>3, RowInserted
<1>5. LawfulReminders(d, to, action)
  BY <1>1, <1>3, <1>4, RemindersUnchanged
<1>6. t \in Referenced => n.id # None
  BY DEF TableHolds
<1>7. LawfulEntry(d, row, to, action) /\ LawfulAnswer(d, row, to)
  BY <1>1, <1>4, <1>6 DEF LawfulEntry, LawfulAnswer, Lands
<1>8. Lawful(d, row, to, action)
  BY <1>3, <1>4, <1>5, <1>7 DEF Lawful
<1>9. Handled(d, row, to, action)
  BY <1>2
<1> QED BY <1>1, <1>8, <1>9, HandledLawfully

LEMMA ReplaceKeeps ==
    ASSUME MergeInv, NEW t, NEW row \in Fresh(t), NEW o \in db.rows[t], NEW n, NEW to, NEW action,
           t \notin {"event", "advice", "feedback", "outcome"},
           TableHolds(t, {n}), n.id = o.id, t = "goal" => n.text = o.text /\ n.at >= o.at,
           t = "charter" => n.level >= o.level, t = "trust" => n.judged >= o.judged,
           Lands(row, to, action, n), Handled(Replaced(o, n), row, to, action)
    PROVE  MergeInv'
<1>1. /\ Running /\ Table = t /\ row \in run.todo /\ Entries(row) = {} /\ Holds(db)
      /\ Table \in TableNames
  BY FreshRow
<1>2. PICK d : d = Replaced(o, n)
  OBVIOUS
<1>3. /\ DOMAIN d = {"rows", "reminders", "ledger"} /\ d.rows = [db.rows EXCEPT ![Table] = (@ \ {o}) \cup {n}]
      /\ d.reminders = db.reminders /\ d.ledger = db.ledger
  BY <1>1, <1>2, ReplacedIs
<1>4. /\ Table \notin {"event", "advice", "feedback", "outcome"} /\ TableHolds(Table, {n}) /\ o \in db.rows[Table]
      /\ Table = "goal" => n.text = o.text /\ n.at >= o.at
      /\ Table = "charter" => n.level >= o.level
      /\ Table = "trust" => n.judged >= o.judged
  BY <1>1
<1>5. LawfulRows(d, row) /\ n \in d.rows[Table]
  BY <1>1, <1>3, <1>4, RowReplaced
<1>6. Table # "advice"
  BY <1>4
<1>7. LawfulReminders(d, to, action)
  BY <1>1, <1>3, <1>5, <1>6, RemindersUnchanged
<1>8. t \in Referenced => n.id # None
  BY DEF TableHolds
<1>9. LawfulEntry(d, row, to, action) /\ LawfulAnswer(d, row, to)
  BY <1>1, <1>5, <1>8 DEF LawfulEntry, LawfulAnswer, Lands
<1>10. Lawful(d, row, to, action)
  BY <1>3, <1>5, <1>7, <1>9 DEF Lawful
<1>11. Handled(d, row, to, action)
  BY <1>2
<1> QED BY <1>1, <1>10, <1>11, HandledLawfully

LEMMA GoalKeeps == ASSUME MergeInv, MergeGoal PROVE MergeInv'
<1>1. PICK row \in Fresh("goal") :
        \/ /\ {g \in db.rows.goal : g.text = row.text} = {}
           /\ Handled(Inserted([row EXCEPT !.id = FreeId(row)]), row, FreeId(row), "inserted")
        \/ \E g \in {g \in db.rows.goal : g.text = row.text} :
              IF row.at > g.at
              THEN Handled(Replaced(g, [g EXCEPT !.at = row.at]), row, g.id, "merged")
              ELSE Handled(db, row, g.id, "deduplicated")
  BY DEF MergeGoal
<1>2. /\ Table = "goal" /\ row \in run.todo /\ Entries(row) = {}
      /\ SourceHolds /\ Holds(db) /\ RunHolds(db.ledger, run)
      /\ DOMAIN row = {"id", "text", "at"} /\ row.at \in Nat
      /\ \A r \in db.rows.goal : DOMAIN r = {"id", "text", "at"} /\ r.at \in Nat /\ r.id # None
  BY FreshRow, FieldsAre DEF Referenced
<1>3. (\A r \in db.rows.goal : r.id # FreeId(row)) /\ FreeId(row) # None
  BY <1>2, FreeIdIsFree DEF Renaming, Referenced
<1>4. ASSUME NEW n, DOMAIN n = {"id", "text", "at"}, n.at \in Nat, n.id # None PROVE TableHolds("goal", {n})
  BY <1>4, FieldsAre DEF TableHolds
<1>5. ASSUME NEW r, r.text = row.text, NEW action PROVE Lands(row, r.id, action, r)
  BY <1>2, <1>5 DEF Lands, Came, Entry
<1>6. CASE Handled(Inserted([row EXCEPT !.id = FreeId(row)]), row, FreeId(row), "inserted")
  <2>1. PICK n : n = [row EXCEPT !.id = FreeId(row)]
    OBVIOUS
  <2>2. DOMAIN n = {"id", "text", "at"} /\ n.id = FreeId(row) /\ n.text = row.text /\ n.at = row.at
    BY <1>2, <2>1
  <2>3. TableHolds("goal", {n}) /\ Lands(row, FreeId(row), "inserted", n)
    BY <1>2, <1>3, <1>4, <1>5, <2>2
  <2>4. Handled(Inserted(n), row, FreeId(row), "inserted")
    BY <1>6, <2>1
  <2> QED BY <1>3, <2>2, <2>3, <2>4, InsertKeeps
<1>7. ASSUME NEW g \in db.rows.goal, g.text = row.text, row.at > g.at,
             Handled(Replaced(g, [g EXCEPT !.at = row.at]), row, g.id, "merged")
      PROVE  MergeInv'
  <2>1. PICK n : n = [g EXCEPT !.at = row.at]
    OBVIOUS
  <2>2. DOMAIN n = {"id", "text", "at"} /\ n.id = g.id /\ n.text = g.text /\ n.at = row.at
    BY <1>2, <2>1
  <2>3. TableHolds("goal", {n}) /\ n.at >= g.at
    BY <1>2, <1>4, <1>7, <2>2
  <2>4. Lands(row, g.id, "merged", n)
    BY <1>5, <1>7, <2>2
  <2>5. Handled(Replaced(g, n), row, g.id, "merged")
    BY <1>7, <2>1
  <2> QED BY <2>2, <2>3, <2>4, <2>5, ReplaceKeeps
<1>8. ASSUME NEW g \in db.rows.goal, g.text = row.text, Handled(db, row, g.id, "deduplicated")
      PROVE  MergeInv'
  <2>1. Lands(row, g.id, "deduplicated", g)
    BY <1>5, <1>8
  <2> QED BY <1>8, <2>1, DuplicateKeeps
<1> QED BY <1>1, <1>6, <1>7, <1>8

LEMMA EventKeeps == ASSUME MergeInv, MergeEvent PROVE MergeInv'
<1>1. PICK row \in Fresh("event") :
        \/ Handled(Inserted([row EXCEPT !.id = FreeId(row), !.ref = FreeReference(row)]), row, FreeId(row),
                   IF FreeId(row) = row.id /\ FreeReference(row) = row.ref THEN "inserted"
                   ELSE "conflict_preserved")
        \/ \E e \in {e \in db.rows.event : SameEvent(e, row)} : Handled(db, row, e.id, "deduplicated")
  BY DEF MergeEvent
<1>2. /\ Table = "event" /\ row \in run.todo /\ Entries(row) = {}
      /\ SourceHolds /\ Holds(db) /\ RunHolds(db.ledger, run)
      /\ DOMAIN row = {"id", "observed", "ref", "label"}
  <2>1. /\ Table = "event" /\ row \in run.todo /\ Entries(row) = {}
        /\ SourceHolds /\ Holds(db) /\ RunHolds(db.ledger, run) /\ DOMAIN row = Fields["event"]
    BY FreshRow
  <2> QED BY <2>1, FieldsAre
<1>3. (\A r \in db.rows.event : r.id # FreeId(row)) /\ FreeId(row) # None
  BY <1>2, FreeIdIsFree DEF Renaming, Referenced
<1>4. ASSUME NEW n, DOMAIN n = {"id", "observed", "ref", "label"}, n.id # None PROVE TableHolds("event", {n})
  BY <1>4, FieldsAre DEF TableHolds
<1>5. ASSUME NEW r, r.observed = row.observed, NEW action PROVE Lands(row, r.id, action, r)
  BY <1>2, <1>5 DEF Lands, Came, Entry
<1>6. ASSUME NEW action,
             Handled(Inserted([row EXCEPT !.id = FreeId(row), !.ref = FreeReference(row)]), row, FreeId(row), action)
      PROVE  MergeInv'
  <2>1. PICK n : n = [row EXCEPT !.id = FreeId(row), !.ref = FreeReference(row)]
    OBVIOUS
  <2>2. DOMAIN n = {"id", "observed", "ref", "label"} /\ n.id = FreeId(row) /\ n.observed = row.observed
    BY <1>2, <2>1
  <2>3. TableHolds("event", {n}) /\ Lands(row, FreeId(row), action, n)
    BY <1>2, <1>3, <1>4, <1>5, <2>2
  <2>4. Handled(Inserted(n), row, FreeId(row), action)
    BY <1>6, <2>1
  <2> QED BY <1>3, <2>2, <2>3, <2>4, InsertKeeps
<1>7. ASSUME NEW e \in db.rows.event, SameEvent(e, row), Handled(db, row, e.id, "deduplicated")
      PROVE  MergeInv'
  <2>1. Lands(row, e.id, "deduplicated", e)
    BY <1>5, <1>7 DEF SameEvent
  <2> QED BY <1>7, <2>1, DuplicateKeeps
<1> QED BY <1>1, <1>6, <1>7

\* What an imported advice becomes is not about what live advice is about already.
LEMMA AdviceIsAlone ==
    ASSUME Holds(db), NEW row, NEW n, n.topic = row.topic, n.ref = row.ref,
           n.status = row.status \/ n.status = "withdrawn",
           Collides(row) => n.status = "withdrawn"
    PROVE  OneIsLive(db.rows.advice \cup {n})
<1>1. OneIsLive(db.rows.advice)
  BY DEF Holds
<1>2. ASSUME IsLive(n), NEW b \in db.rows.advice, IsLive(b)
      PROVE  /\ ~SameTopic(b, n) /\ ~SameTopic(n, b)
             /\ ~SameEvidence(b, n) /\ ~SameEvidence(n, b)
  <2>1. n.status # "withdrawn"
    BY <1>2 DEF IsLive, Nonterminal
  <2>2. ~Collides(row) /\ IsLive(row)
    BY <1>2, <2>1 DEF IsLive
  <2>3. ~SameTopic(row, b) /\ ~SameEvidence(row, b)
    BY <1>2, <2>2 DEF Collides
  <2> QED BY <2>3 DEF SameTopic, SameEvidence
<1>3. \A a : IsOpen(a) => IsLive(a)
  BY DEF IsOpen, IsLive, Nonterminal
<1> QED BY <1>1, <1>2, <1>3 DEF OneIsLive

LEMMA AdviceKeeps == ASSUME MergeInv, MergeAdvice PROVE MergeInv'
<1> DEFINE moved(row) == [row EXCEPT !.goal = Mapped("goal", @), !.event = Mapped("event", @)]
           content(a) == <<a.goal, a.event, a.text, a.topic, a.ref>>
           gone(row) == row.status = "provisional" \/ Collides(row)
           new(row) == [moved(row) EXCEPT !.id = FreeId(row), !.status = IF gone(row) THEN "withdrawn" ELSE @]
<1>1. PICK row \in Fresh("advice") :
        \/ Handled(NoReplay(Inserted(new(row)), FreeId(row)), row, FreeId(row),
                   IF FreeId(row) # row.id \/ Collides(row) THEN "conflict_preserved" ELSE "inserted")
        \/ \E a \in {a \in db.rows.advice : content(a) = content(moved(row))} :
              /\ db' = Recorded(IF row.status \in {"active", "provisional"} THEN db
                                ELSE Resolved(db, a.id), row, a.id, "deduplicated")
              /\ run' = Onward([run EXCEPT !.todo = @ \ {row}, !.map = @ \cup Link(row, a.id),
                                           !.overlap = @ \cup {Current}])
              /\ UNCHANGED <<source, saved>>
  BY DEF MergeAdvice
<1>2. /\ Table = "advice" /\ row \in run.todo /\ Entries(row) = {} /\ Running /\ Table \in TableNames
      /\ SourceHolds /\ Holds(db) /\ RunHolds(db.ledger, run)
      /\ DOMAIN row = {"id", "goal", "event", "text", "topic", "ref", "status"}
      /\ \A a \in db.rows.advice : a.id # None
  <2>1. /\ Table = "advice" /\ row \in run.todo /\ Entries(row) = {} /\ Running /\ Table \in TableNames
        /\ SourceHolds /\ Holds(db) /\ RunHolds(db.ledger, run)
        /\ DOMAIN row = Fields["advice"]
        /\ \A a \in db.rows.advice : a.id # None
    BY FreshRow DEF Referenced
  <2> QED BY <2>1, FieldsAre
<1>3. (\A r \in db.rows.advice : r.id # FreeId(row)) /\ FreeId(row) # None
  BY <1>2, FreeIdIsFree DEF Renaming, Referenced
<1>4. /\ Led(db.ledger, "goal", Current, row.goal, Mapped("goal", row.goal))
      /\ Led(db.ledger, "event", Current, row.event, Mapped("event", row.event))
  BY <1>2, BeforeAre, MappedIsLed DEF Holds
<1>5. ASSUME NEW r, r.text = row.text, r.goal = Mapped("goal", row.goal), r.event = Mapped("event", row.event),
             NEW action
      PROVE  Came(db.ledger, Entry(row, r.id, action), r)
  <2>1. PICK e : e = Entry(row, r.id, action)
    OBVIOUS
  <2>2. e.table = "advice" /\ e.user = Current /\ e.row = row
    BY <1>2, <2>1 DEF Entry
  <2>3. Came(db.ledger, e, r)
    BY <1>4, <1>5, <2>2 DEF Came
  <2> QED BY <2>1, <2>3
<1>6. ASSUME NEW action, action # "deduplicated",
             Handled(NoReplay(Inserted(new(row)), FreeId(row)), row, FreeId(row), action)
      PROVE  MergeInv'
  <2>1. PICK n : n = new(row)
    OBVIOUS
  <2>2. /\ DOMAIN n = {"id", "goal", "event", "text", "topic", "ref", "status"}
        /\ n.id = FreeId(row) /\ n.text = row.text /\ n.topic = row.topic /\ n.ref = row.ref
        /\ n.goal = Mapped("goal", row.goal) /\ n.event = Mapped("event", row.event)
        /\ n.status = IF gone(row) THEN "withdrawn" ELSE row.status
    BY <1>2, <2>1
  <2>3. TableHolds("advice", {n})
    BY <1>3, <2>2, FieldsAre DEF TableHolds
  <2>4. OneIsLive(db.rows.advice \cup {n})
    BY <1>2, <2>2, AdviceIsAlone
  <2>5. PICK i : i = Inserted(n)
    OBVIOUS
  <2>6. /\ DOMAIN i = {"rows", "reminders", "ledger"} /\ i.rows = [db.rows EXCEPT ![Table] = @ \cup {n}]
        /\ i.reminders = db.reminders /\ i.ledger = db.ledger
    BY <1>2, <2>5, InsertedIs
  <2>7. RemindersHold(db)
    BY <1>2 DEF Holds
  <2>8. FreeId(row) \notin db.reminders.open \cup db.reminders.closed
    BY <1>3, <2>7 DEF RemindersHold
  <2>9. PICK k : k = [db.reminders EXCEPT !.closed = @ \cup {FreeId(row)}]
    OBVIOUS
  <2>10. /\ DOMAIN k = {"open", "closed", "claimed"} /\ k.open = db.reminders.open
         /\ k.closed = db.reminders.closed \cup {FreeId(row)} /\ k.claimed = db.reminders.claimed
    BY <2>7, <2>9 DEF RemindersHold
  <2>11. PICK d : d = NoReplay(Inserted(new(row)), FreeId(row))
    OBVIOUS
  <2>12. d = [i EXCEPT !.reminders = k]
    <3>1. d = [i EXCEPT !.reminders.closed = @ \cup {FreeId(row)}]
      BY <2>1, <2>5, <2>6, <2>8, <2>11 DEF NoReplay
    <3> QED BY <2>6, <2>9, <3>1
  <2>13. /\ DOMAIN d = {"rows", "reminders", "ledger"} /\ d.rows = i.rows
         /\ d.ledger = db.ledger /\ d.reminders = k
    BY <2>6, <2>12
  <2>14. LawfulRows(d, row) /\ n \in d.rows[Table]
    <3>1. d.rows = [db.rows EXCEPT ![Table] = @ \cup {n}] /\ TableHolds(Table, {n})
      BY <1>2, <2>3, <2>6, <2>13
    <3>2. \A r \in db.rows[Table] : r.id # n.id
      BY <1>2, <1>3, <2>2
    <3> HIDE DEF new
    <3> QED BY <1>2, <2>2, <2>4, <3>1, <3>2, RowInserted
  <2>15. LawfulReminders(d, FreeId(row), action)
    <3>1. \A a \in db.rows.advice : \E b \in d.rows.advice : b.id = a.id
      BY <2>14, TablesAre DEF LawfulRows, RowsStay, Stays
    <3>2. \A id \in k.open \cup k.closed : \E a \in d.rows.advice : a.id = id
      BY <1>2, <2>2, <2>7, <2>10, <2>14, <3>1 DEF RemindersHold
    <3> QED BY <2>7, <2>8, <2>10, <2>13, <3>2 DEF RemindersHold, LawfulReminders
  <2>16. Came(db.ledger, Entry(row, FreeId(row), action), n)
    BY <1>5, <2>2
  <2>17. LawfulEntry(d, row, FreeId(row), action)
    BY <1>2, <1>3, <2>2, <2>14, <2>16 DEF LawfulEntry
  <2>18. Lawful(d, row, FreeId(row), action)
    <3>1. LawfulAnswer(d, row, FreeId(row))
      BY <1>2, <2>10, <2>13 DEF LawfulAnswer
    <3> QED BY <2>13, <2>14, <2>15, <2>17, <3>1 DEF Lawful
  <2>19. Handled(d, row, FreeId(row), action)
    BY <1>6, <2>11
  <2> QED BY <1>2, <2>18, <2>19, HandledLawfully
<1>7. ASSUME NEW a \in db.rows.advice, content(a) = content(moved(row)),
             db' = Recorded(IF row.status \in {"active", "provisional"} THEN db ELSE Resolved(db, a.id),
                            row, a.id, "deduplicated"),
             run' = Onward([run EXCEPT !.todo = @ \ {row}, !.map = @ \cup Link(row, a.id),
                                       !.overlap = @ \cup {Current}]),
             UNCHANGED <<source, saved>>
      PROVE  MergeInv'
  <2>1. a.text = row.text /\ a.goal = Mapped("goal", row.goal) /\ a.event = Mapped("event", row.event)
    <3>1. PICK m : m = moved(row)
      OBVIOUS
    <3>2. m.text = row.text /\ m.goal = Mapped("goal", row.goal) /\ m.event = Mapped("event", row.event)
      BY <1>2, <3>1
    <3>3. content(a) = content(m)
      BY <1>7, <3>1
    <3> QED BY <3>2, <3>3
  <2>2. Came(db.ledger, Entry(row, a.id, "deduplicated"), a)
    BY <1>5, <2>1
  <2>3. LawfulEntry(db, row, a.id, "deduplicated")
    BY <1>2, <2>2 DEF LawfulEntry
  <2>4. LawfulRows(db, row) /\ DOMAIN db = {"rows", "reminders", "ledger"}
    BY <1>2, RowsUnchanged DEF Holds
  <2>5. PICK d : d = IF row.status \in {"active", "provisional"} THEN db ELSE Resolved(db, a.id)
    OBVIOUS
  <2>6. Lawful(d, row, a.id, "deduplicated")
    <3>1. CASE row.status \in {"active", "provisional"}
      <4>1. d = db /\ LawfulAnswer(db, row, a.id)
        BY <1>2, <2>5, <3>1 DEF LawfulAnswer, IsOpen
      <4> QED BY <1>2, <2>3, <4>1, DuplicateIsLawful
    <3>2. CASE ~(row.status \in {"active", "provisional"})
      <4>1. d = Resolved(db, a.id)
        BY <2>5, <3>2
      <4>2. /\ LawfulReminders(d, a.id, "deduplicated") /\ DOMAIN d = DOMAIN db
            /\ d.rows = db.rows /\ d.ledger = db.ledger
        BY <1>2, <2>4, <4>1, RemindersResolved
      <4>3. LawfulRows(d, row) /\ LawfulEntry(d, row, a.id, "deduplicated")
        BY <2>3, <2>4, <4>2 DEF LawfulRows, LawfulEntry
      <4>4. LawfulAnswer(d, row, a.id)
        BY <1>2, <1>7, <2>4, <4>1, ResolvedIsClosed DEF LawfulAnswer
      <4> QED BY <2>4, <4>2, <4>3, <4>4 DEF Lawful
    <3> QED BY <3>1, <3>2
  <2>7. PICK o : o = run.overlap \cup {Current}
    OBVIOUS
  <2>8. db' = Recorded(d, row, a.id, "deduplicated")
    BY <1>7, <2>5
  <2>9. run' = Onward([run EXCEPT !.todo = @ \ {row}, !.map = @ \cup Link(row, a.id), !.overlap = o])
    BY <1>7, <2>7
  <2> QED BY <1>2, <1>7, <2>6, <2>8, <2>9, HandledKeeps
<1> HIDE DEF new, moved, content
<1> QED BY <1>1, <1>6, <1>7

-----------------------------------------------------------------------------
(* What hangs on advice.                                                     *)

\* A row without its advice goes nowhere.
LEMMA SkippedKeeps ==
    ASSUME MergeInv, NEW t, NEW row \in Fresh(t), NEW action, t \notin Referenced, Handled(db, row, None, action)
    PROVE  MergeInv'
<1>1. /\ Running /\ Table = t /\ row \in run.todo /\ Entries(row) = {} /\ Holds(db)
  BY FreshRow
<1>2. LawfulEntry(db, row, None, action) /\ LawfulAnswer(db, row, None)
  BY <1>1 DEF LawfulEntry, LawfulAnswer, Referenced
<1>3. Table # "advice"
  BY <1>1 DEF Referenced
<1> QED BY <1>1, <1>2, <1>3, DuplicateIsLawful, HandledLawfully

LEMMA FeedbackKeeps == ASSUME MergeInv, MergeFeedback PROVE MergeInv'
<1> DEFINE parent(row) == Mapped("advice", row.advice)
           sameKey(row) == {f \in db.rows.feedback :
                                f.advice = parent(row) /\ f.key = row.key /\ row.key # None}
           sameTap(row) == {f \in db.rows.feedback : f.id = row.id}
           new(row) == [[row EXCEPT !.advice = parent(row)] EXCEPT !.id = FreeId(row)]
<1>1. PICK row \in Fresh("feedback") :
        IF ~HasAdvice(parent(row))
        THEN Handled(db, row, None, "skipped_missing_parent")
        ELSE IF sameKey(row) # {}
        THEN \E f \in sameKey(row) :
                Handled(Resolved(db, parent(row)), row, f.id,
                        IF f.kind = row.kind THEN "deduplicated" ELSE "conflict_preserved")
        ELSE IF \E f \in sameTap(row) : f.advice = parent(row) /\ f.kind = row.kind
        THEN Handled(Resolved(db, parent(row)), row, row.id, "deduplicated")
        ELSE Handled(Resolved(Inserted(new(row)), parent(row)), row, FreeId(row), "inserted")
  BY DEF MergeFeedback
<1>2. /\ Table = "feedback" /\ row \in run.todo /\ Entries(row) = {} /\ Running /\ Table \in TableNames
      /\ SourceHolds /\ Holds(db) /\ RunHolds(db.ledger, run)
      /\ DOMAIN row = {"id", "advice", "key", "kind"}
  <2>1. /\ Table = "feedback" /\ row \in run.todo /\ Entries(row) = {} /\ Running /\ Table \in TableNames
        /\ SourceHolds /\ Holds(db) /\ RunHolds(db.ledger, run)
        /\ DOMAIN row = Fields["feedback"]
    BY FreshRow
  <2> QED BY <2>1, FieldsAre
<1>3. \A r \in db.rows.feedback : r.id # FreeId(row)
  BY <1>2, FreeIdIsFree DEF Renaming
<1>4. PICK p : p = parent(row)
  OBVIOUS
<1>5. Led(db.ledger, "advice", Current, row.advice, p)
  BY <1>2, <1>4, BeforeAre, MappedIsLed DEF Holds
<1>6. ASSUME NEW r, r.advice = p, NEW action PROVE Came(db.ledger, Entry(row, r.id, action), r)
  <2>1. PICK e : e = Entry(row, r.id, action)
    OBVIOUS
  <2>2. e.table = "feedback" /\ e.user = Current /\ e.row = row
    BY <1>2, <2>1 DEF Entry
  <2>3. Came(db.ledger, e, r)
    BY <1>5, <1>6, <2>2 DEF Came
  <2> QED BY <2>1, <2>3
\* A row that is there, or is inserted, and resolves its advice.
<1>7. ASSUME NEW i, DOMAIN i = {"rows", "reminders", "ledger"}, i.ledger = db.ledger, i.reminders = db.reminders,
             LawfulRows(i, row), NEW r \in i.rows.feedback, r.advice = p, NEW action,
             HasAdvice(p), i.rows.advice = db.rows.advice, Handled(Resolved(i, p), row, r.id, action)
      PROVE  MergeInv'
  <2>1. PICK d : d = Resolved(i, p)
    OBVIOUS
  <2>2. /\ LawfulReminders(d, r.id, action) /\ DOMAIN d = DOMAIN i
        /\ d.rows = i.rows /\ d.ledger = i.ledger
    BY <1>2, <1>7, <2>1, RemindersResolved
  <2>3. LawfulEntry(d, row, r.id, action)
    <3>1. Table \notin Referenced /\ Table # "outcome" /\ Table # "relevance"
      BY <1>2 DEF Referenced
    <3>2. \E q \in d.rows[Table] : q.id = r.id /\ Came(db.ledger, Entry(row, r.id, action), q)
      BY <1>2, <1>6, <1>7, <2>2
    <3> QED BY <3>1, <3>2 DEF LawfulEntry
  <2>4. LawfulRows(d, row)
    BY <1>7, <2>2 DEF LawfulRows
  <2>5. LawfulAnswer(d, row, r.id)
    <3>1. p \in d.reminders.closed
      BY <1>7, <2>1, ResolvedIsClosed DEF HasAdvice
    <3>2. \A f \in d.rows.feedback : f.id = r.id => f = r
      BY <1>7, <2>2, TablesAre DEF LawfulRows, TableHolds
    <3> QED BY <1>2, <1>7, <3>1, <3>2 DEF LawfulAnswer
  <2>6. Lawful(d, row, r.id, action)
    BY <1>7, <2>2, <2>3, <2>4, <2>5 DEF Lawful
  <2> QED BY <1>2, <1>7, <2>1, <2>6, HandledLawfully
<1>8. DOMAIN db = {"rows", "reminders", "ledger"} /\ LawfulRows(db, row)
  BY <1>2, RowsUnchanged DEF Holds
<1>9. CASE Handled(db, row, None, "skipped_missing_parent")
  BY <1>9, SkippedKeeps DEF Referenced
<1>10. ASSUME HasAdvice(parent(row)), NEW f \in sameKey(row), NEW action,
              Handled(Resolved(db, parent(row)), row, f.id, action)
       PROVE  MergeInv'
  <2>1. f \in db.rows.feedback /\ f.advice = p
    BY <1>4, <1>10
  <2> HIDE DEF sameKey, parent
  <2> QED BY <1>4, <1>7, <1>8, <1>10, <2>1
<1>11. ASSUME HasAdvice(parent(row)), NEW f \in sameTap(row), f.advice = parent(row),
              Handled(Resolved(db, parent(row)), row, row.id, "deduplicated")
       PROVE  MergeInv'
  <2>1. f \in db.rows.feedback /\ f.advice = p /\ f.id = row.id
    BY <1>4, <1>11
  <2>2. Handled(Resolved(db, p), row, f.id, "deduplicated")
    BY <1>4, <1>11, <2>1
  <2> HIDE DEF sameTap, parent
  <2> QED BY <1>4, <1>7, <1>8, <1>11, <2>1, <2>2
<1>12. CASE /\ HasAdvice(parent(row))
            /\ Handled(Resolved(Inserted(new(row)), parent(row)), row, FreeId(row), "inserted")
  <2>1. PICK n : n = new(row)
    OBVIOUS
  <2>2. DOMAIN n = {"id", "advice", "key", "kind"} /\ n.id = FreeId(row) /\ n.advice = p
    BY <1>2, <1>4, <2>1
  <2>3. TableHolds("feedback", {n})
    BY <2>2, FieldsAre DEF TableHolds, Referenced
  <2>4. PICK i : i = Inserted(n)
    OBVIOUS
  <2>5. /\ DOMAIN i = {"rows", "reminders", "ledger"} /\ i.rows = [db.rows EXCEPT ![Table] = @ \cup {n}]
        /\ i.reminders = db.reminders /\ i.ledger = db.ledger
    BY <1>2, <2>4, InsertedIs
  <2>6. LawfulRows(i, row) /\ n \in i.rows.feedback
    <3>1. (\A r \in db.rows[Table] : r.id # n.id) /\ TableHolds(Table, {n}) /\ Table # "advice"
      BY <1>2, <1>3, <2>2, <2>3
    <3> HIDE DEF new
    <3> QED BY <1>2, <2>2, <2>5, <3>1, RowInserted
  <2>7. Handled(Resolved(i, p), row, n.id, "inserted") /\ HasAdvice(p)
    BY <1>4, <1>12, <2>1, <2>2, <2>4
  <2>8. i.rows.advice = db.rows.advice
    BY <1>2, <2>5
  <2> HIDE DEF new, parent
  <2> QED BY <1>7, <2>2, <2>5, <2>6, <2>7, <2>8
<1> HIDE DEF new, parent, sameKey, sameTap
<1> QED BY <1>1, <1>9, <1>10, <1>11, <1>12

LEMMA LaterIs == ASSUME NEW a \in Nat, NEW b \in Nat PROVE Later(a, b) \in Nat /\ Later(a, b) >= a /\ Later(a, b) >= b
  BY DEF Later

LEMMA RelevanceKeeps == ASSUME MergeInv, MergeRelevance PROVE MergeInv'
<1> DEFINE parent(row) == Mapped("advice", row.id.advice)
           new(row) == [row EXCEPT !.id.advice = parent(row)]
           sum(row, r) == [new(row) EXCEPT !.weight = Later(@, r.weight), !.at = Later(@, r.at)]
<1>1. PICK row \in Fresh("relevance") :
        \/ Handled(db, row, None, "skipped_missing_parent")
        \/ /\ {r \in db.rows.relevance : r.id = new(row).id} = {}
           /\ Handled(Inserted(new(row)), row, new(row).id, "inserted")
        \/ \E r \in {r \in db.rows.relevance : r.id = new(row).id} :
              Handled(Replaced(r, sum(row, r)), row, new(row).id, "merged")
  BY DEF MergeRelevance
<1>2. /\ Table = "relevance" /\ row \in run.todo /\ Running
      /\ SourceHolds /\ Holds(db) /\ RunHolds(db.ledger, run)
      /\ DOMAIN row = {"id", "weight", "at"} /\ row.weight \in Nat /\ row.at \in Nat
      /\ DOMAIN row.id = {"advice", "signal"}
      /\ \A r \in db.rows.relevance : r.weight \in Nat /\ r.at \in Nat
  <2>1. /\ Table = "relevance" /\ row \in run.todo /\ Running
        /\ SourceHolds /\ Holds(db) /\ RunHolds(db.ledger, run)
        /\ DOMAIN row = Fields["relevance"] /\ (\A f \in Counts["relevance"] : row[f] \in Nat)
        /\ \A r \in db.rows.relevance : \A f \in Counts["relevance"] : r[f] \in Nat
    BY FreshRow
  <2>2. DOMAIN row.id = {"advice", "signal"}
    BY <2>1, RowAtHand
  <2> QED BY <2>1, <2>2, FieldsAre
<1>3. PICK p : p = parent(row)
  OBVIOUS
<1>4. Led(db.ledger, "advice", Current, row.id.advice, p)
  BY <1>2, <1>3, BeforeAre, MappedIsLed DEF Holds
<1>5. PICK n : n = new(row)
  OBVIOUS
<1>6. /\ DOMAIN n = {"id", "weight", "at"} /\ n.weight = row.weight /\ n.at = row.at
      /\ DOMAIN n.id = {"advice", "signal"} /\ n.id.advice = p
  BY <1>2, <1>3, <1>5
<1>7. ASSUME NEW r, DOMAIN r = {"id", "weight", "at"}, r.id = n.id, r.weight \in Nat, r.at \in Nat
      PROVE  TableHolds("relevance", {r})
  BY <1>6, <1>7, FieldsAre DEF TableHolds, Referenced
<1>8. ASSUME NEW r, r.id = n.id, NEW action PROVE Lands(row, n.id, action, r)
  <2>1. Came(db.ledger, Entry(row, n.id, action), r)
    BY <1>2 DEF Came, Entry
  <2> QED BY <1>2, <1>4, <1>6, <1>8, <2>1 DEF Lands
<1>9. CASE Handled(db, row, None, "skipped_missing_parent")
  BY <1>9, SkippedKeeps DEF Referenced
<1>10. ASSUME {r \in db.rows.relevance : r.id = new(row).id} = {},
              Handled(Inserted(new(row)), row, new(row).id, "inserted")
       PROVE  MergeInv'
  <2>1. \A r \in db.rows.relevance : r.id # n.id
    BY <1>5, <1>10
  <2>2. TableHolds("relevance", {n}) /\ Lands(row, n.id, "inserted", n)
    BY <1>2, <1>6, <1>7, <1>8
  <2>3. Handled(Inserted(n), row, n.id, "inserted")
    BY <1>5, <1>10
  <2>4. "relevance" \notin Renaming
    BY DEF Renaming
  <2> HIDE DEF new
  <2> QED BY <2>1, <2>2, <2>3, <2>4, InsertKeeps
<1>11. ASSUME NEW r \in {r \in db.rows.relevance : r.id = new(row).id},
              Handled(Replaced(r, sum(row, r)), row, new(row).id, "merged")
       PROVE  MergeInv'
  <2>1. PICK m : m = sum(row, r)
    OBVIOUS
  <2>2. r \in db.rows.relevance /\ r.id = n.id /\ r.weight \in Nat /\ r.at \in Nat
    BY <1>2, <1>5, <1>11
  <2>3. m = [n EXCEPT !.weight = Later(@, r.weight), !.at = Later(@, r.at)]
    BY <1>5, <2>1
  <2>4. /\ DOMAIN m = {"id", "weight", "at"} /\ m.id = n.id
        /\ m.weight = Later(n.weight, r.weight) /\ m.at = Later(n.at, r.at)
    BY <1>6, <2>3
  <2>5. m.weight \in Nat /\ m.at \in Nat
    BY <1>2, <1>6, <2>2, <2>4, LaterIs
  <2>6. TableHolds("relevance", {m}) /\ Lands(row, n.id, "merged", m)
    BY <1>7, <1>8, <2>4, <2>5
  <2>7. Handled(Replaced(r, m), row, n.id, "merged")
    BY <1>5, <1>11, <2>1
  <2> HIDE DEF new, sum
  <2> QED BY <2>2, <2>4, <2>6, <2>7, ReplaceKeeps
<1> HIDE DEF new, sum
<1> QED BY <1>1, <1>9, <1>10, <1>11

LEMMA OutcomeKeeps == ASSUME MergeInv, MergeOutcome PROVE MergeInv'
<1> DEFINE parent(row) == Mapped("advice", row.id)
           new(row) == [row EXCEPT !.id = parent(row)]
<1>1. PICK row \in Fresh("outcome") :
        \/ Handled(db, row, None, "skipped_missing_parent")
        \/ /\ {o \in db.rows.outcome : o.id = parent(row)} = {}
           /\ Handled(Inserted(new(row)), row, parent(row), "inserted")
        \/ \E o \in {o \in db.rows.outcome : o.id = parent(row)} :
              Handled(db, row, parent(row), IF o = new(row) THEN "deduplicated" ELSE "conflict_preserved")
  BY DEF MergeOutcome, MergedOutcome
<1>2. /\ Table = "outcome" /\ row \in run.todo /\ Running
      /\ SourceHolds /\ Holds(db) /\ RunHolds(db.ledger, run)
      /\ DOMAIN row = {"id", "result"}
  <2>1. /\ Table = "outcome" /\ row \in run.todo /\ Running
        /\ SourceHolds /\ Holds(db) /\ RunHolds(db.ledger, run)
        /\ DOMAIN row = Fields["outcome"]
    BY FreshRow
  <2> QED BY <2>1, FieldsAre
<1>3. PICK p : p = parent(row)
  OBVIOUS
<1>4. Led(db.ledger, "advice", Current, row.id, p)
  BY <1>2, <1>3, BeforeAre, MappedIsLed DEF Holds
<1>5. ASSUME NEW r, r.id = p, NEW action PROVE Lands(row, p, action, r)
  <2>1. Came(db.ledger, Entry(row, p, action), r)
    BY <1>2 DEF Came, Entry
  <2> QED BY <1>2, <1>4, <1>5, <2>1 DEF Lands
<1>6. CASE Handled(db, row, None, "skipped_missing_parent")
  BY <1>6, SkippedKeeps DEF Referenced
<1>7. ASSUME {o \in db.rows.outcome : o.id = parent(row)} = {},
             Handled(Inserted(new(row)), row, parent(row), "inserted")
      PROVE  MergeInv'
  <2>1. PICK n : n = new(row)
    OBVIOUS
  <2>2. DOMAIN n = {"id", "result"} /\ n.id = p
    BY <1>2, <1>3, <2>1
  <2>3. TableHolds("outcome", {n}) /\ Lands(row, p, "inserted", n)
    BY <1>5, <2>2, FieldsAre DEF TableHolds, Referenced
  <2>4. \A r \in db.rows.outcome : r.id # n.id
    BY <1>3, <1>7, <2>2
  <2>5. Handled(Inserted(n), row, p, "inserted")
    BY <1>3, <1>7, <2>1
  <2>6. "outcome" \notin Renaming
    BY DEF Renaming
  <2> HIDE DEF new, parent
  <2> QED BY <2>3, <2>4, <2>5, <2>6, InsertKeeps
<1>8. ASSUME NEW o \in {o \in db.rows.outcome : o.id = parent(row)}, NEW action, Handled(db, row, parent(row), action)
      PROVE  MergeInv'
  <2>1. o \in db.rows.outcome /\ Lands(row, p, action, o)
    BY <1>3, <1>5, <1>8
  <2>2. Handled(db, row, p, action)
    BY <1>3, <1>8
  <2> HIDE DEF parent
  <2> QED BY <2>1, <2>2, DuplicateKeeps
<1> HIDE DEF new, parent
<1> QED BY <1>1, <1>6, <1>7, <1>8

-----------------------------------------------------------------------------
(* Standing and settings.                                                    *)

LEMMA UpsertIs ==
    ASSUME NEW row, NEW merged
    PROVE  \/ Upsert(row, merged) = Inserted(row) /\ \A r \in db.rows[Table] : r.id # row.id
           \/ \E r \in db.rows[Table] : r.id = row.id /\ Upsert(row, merged) = Replaced(r, merged[r])
<1> DEFINE old == {r \in db.rows[Table] : r.id = row.id}
           o == CHOOSE x \in old : TRUE
<1>1. CASE old = {}
  BY <1>1 DEF Upsert
<1>2. CASE old # {}
  <2>1. o \in old
    BY <1>2
  <2>2. Upsert(row, merged) = Replaced(o, merged[o])
    BY <1>2 DEF Upsert
  <2> HIDE DEF o
  <2> QED BY <2>1, <2>2
<1> QED BY <1>1, <1>2

\* A row of the account goes to the row of its id.
LEMMA StandingLands ==
    ASSUME Table \in {"charter", "trust", "preference", "mute"}, NEW row, NEW r, NEW to, r.id = to, NEW action
    PROVE  Lands(row, to, action, r)
<1>1. PICK e : e = Entry(row, to, action)
  OBVIOUS
<1>2. e.table = Table
  BY <1>1 DEF Entry
<1>3. Came(db.ledger, e, r)
  BY <1>2 DEF Came
<1> QED BY <1>1, <1>3 DEF Lands

LEMMA CharterKeeps == ASSUME MergeInv, MergeCharter PROVE MergeInv'
<1> DEFINE merged(row) == [r \in db.rows.charter |->
                               [r EXCEPT !.level = Later(@, row.level), !.redline = @ \/ row.redline]]
<1>1. PICK row \in Fresh("charter") : Handled(Upsert(row, merged(row)), row, row.id, "merged")
  BY DEF MergeCharter
<1>2. /\ Table = "charter" /\ DOMAIN row = {"id", "level", "redline"} /\ row.level \in Nat
      /\ \A r \in db.rows.charter : DOMAIN r = {"id", "level", "redline"} /\ r.level \in Nat
  <2>1. /\ Table = "charter" /\ DOMAIN row = Fields["charter"] /\ (\A f \in Counts["charter"] : row[f] \in Nat)
        /\ \A r \in db.rows.charter : DOMAIN r = Fields["charter"] /\ \A f \in Counts["charter"] : r[f] \in Nat
    BY FreshRow
  <2> QED BY <2>1, FieldsAre
<1>3. ASSUME NEW n, DOMAIN n = {"id", "level", "redline"}, n.level \in Nat
      PROVE  TableHolds("charter", {n})
  BY <1>3, FieldsAre DEF TableHolds, Referenced
<1>4. ASSUME Upsert(row, merged(row)) = Inserted(row), \A r \in db.rows.charter : r.id # row.id
      PROVE  MergeInv'
  <2>1. TableHolds("charter", {row}) /\ Lands(row, row.id, "merged", row)
    BY <1>2, <1>3, StandingLands
  <2>2. "charter" \notin Renaming
    BY DEF Renaming
  <2>3. Handled(Inserted(row), row, row.id, "merged")
    BY <1>1, <1>4
  <2> QED BY <1>4, <2>1, <2>2, <2>3, InsertKeeps
<1>5. ASSUME NEW r \in db.rows.charter, r.id = row.id, Upsert(row, merged(row)) = Replaced(r, merged(row)[r])
      PROVE  MergeInv'
  <2>1. PICK n : n = [r EXCEPT !.level = Later(@, row.level), !.redline = @ \/ row.redline]
    OBVIOUS
  <2>2. n = merged(row)[r]
    BY <2>1
  <2>3. DOMAIN n = {"id", "level", "redline"} /\ n.id = r.id /\ n.level = Later(r.level, row.level)
    BY <1>2, <2>1
  <2>4. n.level \in Nat /\ n.level >= r.level
    BY <1>2, <2>3, LaterIs
  <2>5. TableHolds("charter", {n}) /\ Lands(row, row.id, "merged", n)
    BY <1>2, <1>3, <1>5, <2>3, <2>4, StandingLands
  <2>6. Handled(Replaced(r, n), row, row.id, "merged")
    BY <1>1, <1>5, <2>2
  <2> HIDE DEF merged
  <2> QED BY <2>3, <2>4, <2>5, <2>6, ReplaceKeeps
<1> HIDE DEF merged
<1> QED BY <1>2, <1>4, <1>5, UpsertIs

LEMMA TrustKeeps == ASSUME MergeInv, MergeTrust PROVE MergeInv'
<1> DEFINE merged(row) == [r \in db.rows.trust |->
                               [r EXCEPT !.judged = IF Conservative THEN Later(@, row.judged) ELSE @ + row.judged]]
<1>1. PICK row \in Fresh("trust") : Handled(Upsert(row, merged(row)), row, row.id, "merged")
  BY DEF MergeTrust
<1>2. /\ Table = "trust" /\ DOMAIN row = {"id", "judged"} /\ row.judged \in Nat
      /\ \A r \in db.rows.trust : DOMAIN r = {"id", "judged"} /\ r.judged \in Nat
  <2>1. /\ Table = "trust" /\ DOMAIN row = Fields["trust"] /\ (\A f \in Counts["trust"] : row[f] \in Nat)
        /\ \A r \in db.rows.trust : DOMAIN r = Fields["trust"] /\ \A f \in Counts["trust"] : r[f] \in Nat
    BY FreshRow
  <2> QED BY <2>1, FieldsAre
<1>3. ASSUME NEW n, DOMAIN n = {"id", "judged"}, n.judged \in Nat
      PROVE  TableHolds("trust", {n})
  BY <1>3, FieldsAre DEF TableHolds, Referenced
<1>4. ASSUME Upsert(row, merged(row)) = Inserted(row), \A r \in db.rows.trust : r.id # row.id
      PROVE  MergeInv'
  <2>1. TableHolds("trust", {row}) /\ Lands(row, row.id, "merged", row)
    BY <1>2, <1>3, StandingLands
  <2>2. "trust" \notin Renaming
    BY DEF Renaming
  <2>3. Handled(Inserted(row), row, row.id, "merged")
    BY <1>1, <1>4
  <2> QED BY <1>4, <2>1, <2>2, <2>3, InsertKeeps
<1>5. ASSUME NEW r \in db.rows.trust, r.id = row.id, Upsert(row, merged(row)) = Replaced(r, merged(row)[r])
      PROVE  MergeInv'
  <2>1. PICK k : k = IF Conservative THEN Later(r.judged, row.judged) ELSE r.judged + row.judged
    OBVIOUS
  <2>2. k \in Nat /\ k >= r.judged
    <3>1. r.judged \in Nat /\ row.judged \in Nat
      BY <1>2
    <3>2. Later(r.judged, row.judged) \in Nat /\ Later(r.judged, row.judged) >= r.judged
      BY <3>1, LaterIs
    <3>3. r.judged + row.judged \in Nat /\ r.judged + row.judged >= r.judged
      BY <3>1
    <3> QED BY <2>1, <3>2, <3>3
  <2>3. PICK n : n = [r EXCEPT !.judged = k]
    OBVIOUS
  <2>4. n = merged(row)[r]
    BY <2>1, <2>3
  <2>5. DOMAIN n = {"id", "judged"} /\ n.id = r.id /\ n.judged = k
    BY <1>2, <2>3
  <2>6. TableHolds("trust", {n}) /\ Lands(row, row.id, "merged", n)
    BY <1>2, <1>3, <1>5, <2>2, <2>5, StandingLands
  <2>7. Handled(Replaced(r, n), row, row.id, "merged")
    BY <1>1, <1>5, <2>4
  <2> HIDE DEF merged
  <2> QED BY <2>2, <2>5, <2>6, <2>7, ReplaceKeeps
<1> HIDE DEF merged
<1> QED BY <1>2, <1>4, <1>5, UpsertIs

LEMMA PreferenceKeeps == ASSUME MergeInv, MergePreference PROVE MergeInv'
<1> DEFINE new(row) == [row EXCEPT !.id = Mapped("goal", @)]
<1>1. PICK row \in Fresh("preference") :
        \/ /\ {p \in db.rows.preference : p.id = new(row).id} = {}
           /\ Handled(Inserted(new(row)), row, new(row).id, "inserted")
        \/ \E p \in {p \in db.rows.preference : p.id = new(row).id} :
              IF new(row).at > p.at
              THEN Handled(Replaced(p, [new(row) EXCEPT !.rev = Later(@, p.rev)]), row, new(row).id, "merged")
              ELSE Handled(db, row, new(row).id, IF p = new(row) THEN "deduplicated" ELSE "conflict_preserved")
  BY DEF MergePreference
<1>2. /\ Table = "preference" /\ DOMAIN row = {"id", "value", "at", "rev"} /\ row.at \in Nat /\ row.rev \in Nat
      /\ \A r \in db.rows.preference : r.rev \in Nat
  <2>1. /\ Table = "preference" /\ DOMAIN row = Fields["preference"]
        /\ (\A f \in Counts["preference"] : row[f] \in Nat)
        /\ \A r \in db.rows.preference : \A f \in Counts["preference"] : r[f] \in Nat
    BY FreshRow
  <2> QED BY <2>1, FieldsAre
<1>3. PICK n : n = new(row)
  OBVIOUS
<1>4. DOMAIN n = {"id", "value", "at", "rev"} /\ n.at = row.at /\ n.rev = row.rev
  BY <1>2, <1>3
<1>5. ASSUME NEW m, DOMAIN m = {"id", "value", "at", "rev"}, m.at \in Nat, m.rev \in Nat
      PROVE  TableHolds("preference", {m})
  BY <1>5, FieldsAre DEF TableHolds, Referenced
<1> HIDE DEF new
<1>6. ASSUME {p \in db.rows.preference : p.id = n.id} = {}, Handled(Inserted(n), row, n.id, "inserted")
      PROVE  MergeInv'
  <2>1. TableHolds("preference", {n}) /\ Lands(row, n.id, "inserted", n)
    BY <1>2, <1>4, <1>5, StandingLands
  <2>2. "preference" \notin Renaming
    BY DEF Renaming
  <2>3. \A r \in db.rows.preference : r.id # n.id
    BY <1>6
  <2> QED BY <1>6, <2>1, <2>2, <2>3, InsertKeeps
<1>7. ASSUME NEW p \in db.rows.preference, p.id = n.id,
             Handled(Replaced(p, [n EXCEPT !.rev = Later(@, p.rev)]), row, n.id, "merged")
      PROVE  MergeInv'
  <2>1. PICK m : m = [n EXCEPT !.rev = Later(@, p.rev)]
    OBVIOUS
  <2>2. DOMAIN m = {"id", "value", "at", "rev"} /\ m.id = n.id /\ m.at = n.at /\ m.rev = Later(n.rev, p.rev)
    BY <1>4, <2>1
  <2>3. m.at \in Nat /\ m.rev \in Nat
    BY <1>2, <1>4, <2>2, LaterIs
  <2>4. TableHolds("preference", {m}) /\ Lands(row, n.id, "merged", m)
    BY <1>2, <1>5, <2>2, <2>3, StandingLands
  <2>5. Handled(Replaced(p, m), row, n.id, "merged")
    BY <1>7, <2>1
  <2> QED BY <1>7, <2>2, <2>4, <2>5, ReplaceKeeps
<1>8. ASSUME NEW p \in db.rows.preference, p.id = n.id, NEW action, Handled(db, row, n.id, action)
      PROVE  MergeInv'
  <2>1. Lands(row, n.id, action, p)
    BY <1>2, <1>8, StandingLands
  <2> QED BY <1>8, <2>1, DuplicateKeeps
<1> QED BY <1>1, <1>3, <1>6, <1>7, <1>8

LEMMA MuteKeeps == ASSUME MergeInv, MergeMute PROVE MergeInv'
<1> DEFINE new(row) == [row EXCEPT !.advice = Mapped("advice", @)]
           merged(row) == [r \in db.rows.mute |-> IF new(row).until >= r.until THEN new(row) ELSE r]
<1>1. PICK row \in Fresh("mute") : Handled(Upsert(new(row), merged(row)), row, row.id, "merged")
  BY DEF MergeMute
<1>2. /\ Table = "mute" /\ DOMAIN row = {"id", "advice", "until"} /\ row.until \in Nat
      /\ \A r \in db.rows.mute : DOMAIN r = {"id", "advice", "until"} /\ r.until \in Nat
  <2>1. /\ Table = "mute" /\ DOMAIN row = Fields["mute"] /\ (\A f \in Counts["mute"] : row[f] \in Nat)
        /\ \A r \in db.rows.mute : DOMAIN r = Fields["mute"] /\ \A f \in Counts["mute"] : r[f] \in Nat
    BY FreshRow
  <2> QED BY <2>1, FieldsAre
<1>3. PICK n : n = new(row)
  OBVIOUS
<1>4. DOMAIN n = {"id", "advice", "until"} /\ n.id = row.id /\ n.until = row.until
  BY <1>2, <1>3
<1>5. ASSUME NEW m, DOMAIN m = {"id", "advice", "until"}, m.until \in Nat
      PROVE  TableHolds("mute", {m})
  BY <1>5, FieldsAre DEF TableHolds, Referenced
<1>6. ASSUME Upsert(n, merged(row)) = Inserted(n), \A r \in db.rows.mute : r.id # n.id
      PROVE  MergeInv'
  <2>1. TableHolds("mute", {n}) /\ Lands(row, row.id, "merged", n)
    BY <1>2, <1>4, <1>5, StandingLands
  <2>2. "mute" \notin Renaming
    BY DEF Renaming
  <2>3. Handled(Inserted(n), row, row.id, "merged")
    BY <1>1, <1>3, <1>6
  <2> HIDE DEF new, merged
  <2> QED BY <1>6, <2>1, <2>2, <2>3, InsertKeeps
<1>7. ASSUME NEW r \in db.rows.mute, r.id = n.id, Upsert(n, merged(row)) = Replaced(r, merged(row)[r])
      PROVE  MergeInv'
  <2>1. PICK m : m = IF n.until >= r.until THEN n ELSE r
    OBVIOUS
  <2>2. m = merged(row)[r]
    BY <1>3, <2>1
  <2>3. DOMAIN m = {"id", "advice", "until"} /\ m.id = r.id /\ m.until \in Nat
    BY <1>2, <1>4, <1>7, <2>1
  <2>4. TableHolds("mute", {m}) /\ Lands(row, row.id, "merged", m)
    BY <1>2, <1>4, <1>5, <1>7, <2>3, StandingLands
  <2>5. Handled(Replaced(r, m), row, row.id, "merged")
    BY <1>1, <1>3, <1>7, <2>2
  <2> HIDE DEF new, merged
  <2> QED BY <2>3, <2>4, <2>5, ReplaceKeeps
<1> HIDE DEF new, merged
<1> QED BY <1>2, <1>6, <1>7, UpsertIs

-----------------------------------------------------------------------------
(* The run, and what goes on between runs.                                   *)

LEMMA AlreadyImportedKeeps == ASSUME MergeInv, AlreadyImported PROVE MergeInv'
<1>0. PICK row \in run.todo : \E e \in Prior(row) :
         run' = Onward([run EXCEPT
                     !.todo = @ \ {row}, !.map = @ \cup Link(row, e.to),
                     !.overlap = IF Table = "advice" /\ e.action = "deduplicated" THEN @ \cup {Current} ELSE @])
  BY DEF AlreadyImported
<1>1. PICK e \in Prior(row) :
         run' = Onward([run EXCEPT
                     !.todo = @ \ {row}, !.map = @ \cup Link(row, e.to),
                     !.overlap = IF Table = "advice" /\ e.action = "deduplicated" THEN @ \cup {Current} ELSE @])
  BY <1>0
<1>2. /\ SourceHolds /\ Holds(db) /\ Holds(saved) /\ UNCHANGED <<source, db, saved>>
      /\ RunHolds(db.ledger, run) /\ Progress(db, saved, run)
  BY DEF AlreadyImported, MergeInv, RunAgrees, Running
<1>3. PICK o : o = IF Table = "advice" /\ e.action = "deduplicated" THEN run.overlap \cup {Current} ELSE run.overlap
  OBVIOUS
<1>4. PICK r : r = [run EXCEPT !.todo = @ \ {row}, !.map = @ \cup Link(row, e.to), !.overlap = o]
  OBVIOUS
<1>5. run' = Onward(r)
  BY <1>1, <1>3, <1>4
<1>6. RunHolds(db.ledger, r) /\ r.users = run.users
  <2>1. /\ DOMAIN r = DOMAIN run /\ r.users = run.users /\ r.apply = run.apply
        /\ r.table = run.table /\ r.user = run.user
        /\ r.todo = run.todo \ {row} /\ r.map = run.map \cup Link(row, e.to)
    BY <1>2, <1>4 DEF RunHolds
  <2>2. /\ e \in db.ledger /\ e.user = Current /\ e.table = Table /\ e.key = row.id /\ e.row = row
        /\ Table \in Referenced => e.to # None
    BY <1>1, <1>2 DEF Prior, Entries, Holds, Books
  <2>3. PICK l : l = db.ledger
    OBVIOUS
  <2>4. RunHolds(l, r)
    BY <1>2, <2>1, <2>2, <2>3, RunDeals
  <2> QED BY <2>1, <2>3, <2>4
<1>7. RunHolds(db.ledger, Onward(r)) /\ Settled(Onward(r)) /\ Onward(r).users = run.users
  BY <1>6, OnwardGoes
<1>8. RunAgrees(db, saved, Onward(r))
  BY <1>2, <1>7, RunIsOne DEF RunAgrees, Progress
<1>9. PICK w : w = Onward(r)
  OBVIOUS
<1>10. PICK d : d = db
  OBVIOUS
<1>11. PICK s : s = saved
  OBVIOUS
<1> QED BY <1>2, <1>5, <1>8, <1>9, <1>10, <1>11, AfterStep

LEMMA BeginKeeps ==
    ASSUME MergeInv, NEW users \in UserLists, NEW apply \in BOOLEAN, BeginRun(users, apply)
    PROVE  MergeInv'
<1>1. PICK n \in 1..Cardinality(User) : users \in [1..n -> User]
  BY DEF UserLists
<1>2. Cardinality(User) \in Nat
  BY UserAssumption, FS_CardinalityType
<1>3. n \in Nat \ {0} /\ users \in Seq(User) /\ Len(users) = n
  BY <1>1, <1>2
<1>4. PICK r : r = [users |-> users, apply |-> apply, table |-> 1, user |-> 1,
                    todo |-> source[users[1]].goal, map |-> {}, overlap |-> {}]
  OBVIOUS
<1>5. /\ DOMAIN r = {"users", "apply", "table", "user", "todo", "map", "overlap"}
      /\ r.users = users /\ r.apply = apply /\ r.table = 1 /\ r.user = 1
      /\ r.todo = source[users[1]].goal /\ r.map = {}
  BY <1>4
<1>6. /\ SourceHolds /\ Holds(db) /\ Holds(saved) /\ db = saved /\ UNCHANGED <<source, db, saved>>
      /\ run' = Onward(r)
  BY <1>4 DEF BeginRun, MergeInv, RunAgrees, Running
<1>7. RunHolds(db.ledger, r)
  <2>1. RowsAt(r, <<r.table, r.user>>) = r.todo
    BY <1>5, TablesAre DEF RowsAt
  <2>2. \A p \in PlacesOf(r) : ~Passed(p, r)
    BY <1>3, <1>5 DEF PlacesOf, Passed
  <2> QED BY <1>3, <1>5, <2>1, <2>2 DEF RunHolds
<1>8. RunHolds(db.ledger, Onward(r)) /\ Settled(Onward(r))
  BY <1>7, OnwardGoes
<1>9. NothingTaken(saved.rows, db.rows)
  BY <1>6, RowsUnchanged DEF LawfulRows
<1>10. RunAgrees(db, saved, Onward(r))
  BY <1>6, <1>8, <1>9, RunIsOne DEF RunAgrees, Progress
<1>11. PICK w : w = Onward(r)
  OBVIOUS
<1>12. PICK d : d = db
  OBVIOUS
<1>13. PICK s : s = saved
  OBVIOUS
<1> QED BY <1>6, <1>10, <1>11, <1>12, <1>13, AfterStep

\* However a run ends, the destination is as committed.
LEMMA EndKeeps ==
    ASSUME MergeInv, NEW d, Holds(d), db' = d, saved' = d, run' = NoRun, source' = source
    PROVE  MergeInv'
<1>1. SourceHolds /\ RunAgrees(d, d, NoRun)
  BY DEF MergeInv, RunAgrees
<1> QED BY <1>1, AfterStep

LEMMA RunEndKeeps == ASSUME MergeInv, Conclude \/ Abort \/ SourceDrift PROVE MergeInv'
<1>1. Holds(db) /\ Holds(saved)
  BY DEF MergeInv
<1>2. PICK d : d = db'
  OBVIOUS
<1>3. db' = d /\ saved' = d /\ run' = NoRun /\ source' = source /\ (d = db \/ d = saved)
  BY <1>2 DEF Conclude, Abort, SourceDrift
<1>4. Holds(d)
  BY <1>1, <1>3
<1> QED BY <1>3, <1>4, EndKeeps

\* The application changes reminders, and no more of a row than its status.
LEMMA ApplicationKeeps ==
    ASSUME MergeInv, NEW d, Application(d),
           DOMAIN d = {"rows", "reminders", "ledger"}, d.ledger = db.ledger, DOMAIN d.rows = TableNames,
           \A t \in TableNames : TableHolds(t, d.rows[t]), RowsStay(db.rows, d.rows),
           \A t \in Renaming : \A n \in d.rows[t] : \E r \in db.rows[t] : n.id = r.id,
           OneIsLive(d.rows.advice), RemindersHold(d),
           d.rows.feedback = db.rows.feedback, db.reminders.closed \subseteq d.reminders.closed
    PROVE  MergeInv'
<1>1. Holds(db) /\ db' = d /\ saved' = d /\ source' = source /\ run' = NoRun
  BY DEF MergeInv, Application, Running
<1>2. NamesMade(d)
  BY <1>1 DEF Holds, NamesMade
<1>3. ImportsHold(d)
  <2> SUFFICES ASSUME NEW e \in d.ledger
               PROVE  /\ e.to # None => \E r \in d.rows[e.table] : r.id = e.to /\ Came(d.ledger, e, r)
                      /\ e.table = "outcome" /\ e.to # None => Led(d.ledger, "advice", e.user, e.key, e.to)
                      /\ e.table = "relevance" /\ e.to # None =>
                            Led(d.ledger, "advice", e.user, e.key.advice, e.to.advice)
    BY DEF ImportsHold
  <2>1. ImportsHold(db) /\ e.table \in TableNames
    BY <1>1 DEF Holds, Books
  <2>2. ASSUME NEW r, NEW q, Came(db.ledger, e, r), Stays(e.table, r, q) PROVE Came(db.ledger, e, q)
    BY <2>2 DEF Came, Stays
  <2>3. ASSUME e.to # None PROVE \E r \in d.rows[e.table] : r.id = e.to /\ Came(d.ledger, e, r)
    <3>1. PICK r \in db.rows[e.table] : r.id = e.to /\ Came(db.ledger, e, r)
      BY <2>1, <2>3 DEF ImportsHold
    <3>2. PICK q \in d.rows[e.table] : Stays(e.table, r, q)
      BY <2>1 DEF RowsStay
    <3> QED BY <2>2, <3>1, <3>2 DEF Stays
  <2> QED BY <2>1, <2>3 DEF ImportsHold
<1>4. AnswersHold(d)
  BY <1>1 DEF Holds, AnswersHold
<1>5. Holds(d)
  BY <1>1, <1>2, <1>3, <1>4 DEF Holds
<1> QED BY <1>1, <1>5, EndKeeps

LEMMA RemindersKeep == ASSUME MergeInv, EnsureAttention \/ ClaimReminder PROVE MergeInv'
<1>1. PICK d : Application(d) /\ \/ \E id \in db.reminders.open \ db.reminders.claimed :
                                       d = [db EXCEPT !.reminders.claimed = @ \cup {id}]
                                 \/ \E missing : /\ missing \cap db.reminders.closed = {}
                                                 /\ \A id \in missing : \E a \in db.rows.advice : a.id = id
                                                 /\ d = [db EXCEPT !.reminders.open = @ \cup missing]
  <2>1. CASE ClaimReminder
    BY <2>1 DEF ClaimReminder
  <2>2. CASE EnsureAttention
    <3> DEFINE missing == {a.id : a \in {b \in db.rows.advice : b.status = "active"}}
                              \ (db.reminders.open \cup db.reminders.closed)
    <3>1. Application([db EXCEPT !.reminders.open = @ \cup missing])
      BY <2>2 DEF EnsureAttention
    <3>2. missing \cap db.reminders.closed = {} /\ \A id \in missing : \E a \in db.rows.advice : a.id = id
      OBVIOUS
    <3> HIDE DEF missing
    <3> QED BY <3>1, <3>2
  <2> QED BY <2>1, <2>2
<1>2. Holds(db) /\ RemindersHold(db)
  BY DEF MergeInv, Holds
<1>3. DOMAIN d = {"rows", "reminders", "ledger"} /\ d.ledger = db.ledger /\ d.rows = db.rows
  BY <1>1, <1>2 DEF Holds
<1>4. RemindersHold(d) /\ d.reminders.closed = db.reminders.closed
  <2>1. CASE \E id \in db.reminders.open \ db.reminders.claimed : d = [db EXCEPT !.reminders.claimed = @ \cup {id}]
    <3>1. PICK id \in db.reminders.open : d = [db EXCEPT !.reminders.claimed = @ \cup {id}]
      BY <2>1
    <3>2. /\ DOMAIN d.reminders = {"open", "closed", "claimed"} /\ d.reminders.open = db.reminders.open
          /\ d.reminders.closed = db.reminders.closed /\ d.reminders.claimed = db.reminders.claimed \cup {id}
      BY <1>2, <3>1 DEF Holds, RemindersHold
    <3> QED BY <1>2, <1>3, <3>2 DEF RemindersHold
  <2>2. ASSUME NEW missing, missing \cap db.reminders.closed = {},
               \A id \in missing : \E a \in db.rows.advice : a.id = id,
               d = [db EXCEPT !.reminders.open = @ \cup missing]
        PROVE  RemindersHold(d) /\ d.reminders.closed = db.reminders.closed
    <3>1. /\ DOMAIN d.reminders = {"open", "closed", "claimed"} /\ d.reminders.open = db.reminders.open \cup missing
          /\ d.reminders.closed = db.reminders.closed /\ d.reminders.claimed = db.reminders.claimed
      BY <1>2, <2>2 DEF Holds, RemindersHold
    <3> QED BY <1>2, <1>3, <2>2, <3>1 DEF RemindersHold
  <2> QED BY <1>1, <2>1, <2>2
<1>5. RowsStay(db.rows, d.rows)
  BY <1>3 DEF RowsStay, Stays
<1> QED BY <1>1, <1>2, <1>3, <1>4, <1>5, ApplicationKeeps DEF Holds

LEMMA AnswerKeeps == ASSUME MergeInv, Answer PROVE MergeInv'
<1>1. PICK a \in db.rows.advice :
         Application([Resolved(db, a.id) EXCEPT !.rows.advice = (@ \ {a}) \cup {[a EXCEPT !.status = "dismissed"]}])
  BY DEF Answer
<1>2. Holds(db) /\ RemindersHold(db) /\ DOMAIN db = {"rows", "reminders", "ledger"} /\ DOMAIN db.rows = TableNames
  BY DEF MergeInv, Holds
<1>3. PICK n : n = [a EXCEPT !.status = "dismissed"]
  OBVIOUS
<1>4. TableHolds("advice", db.rows.advice) /\ OneIsLive(db.rows.advice)
  BY <1>2, TablesAre DEF Holds
<1>5. /\ DOMAIN n = DOMAIN a /\ n.id = a.id /\ n.text = a.text /\ n.goal = a.goal /\ n.event = a.event
      /\ ~IsLive(n) /\ ~IsOpen(n)
  <2>1. DOMAIN a = {"id", "goal", "event", "text", "topic", "ref", "status"}
    BY <1>4, FieldsAre DEF TableHolds
  <2> QED BY <1>3, <2>1 DEF IsLive, IsOpen, Nonterminal
<1>6. PICK k : k = [open |-> db.reminders.open \ {a.id}, closed |-> db.reminders.closed \cup {a.id},
                    claimed |-> db.reminders.claimed \ {a.id}]
  OBVIOUS
<1>7. Resolved(db, a.id) = [db EXCEPT !.reminders = k]
  BY <1>6 DEF Resolved
<1>8. PICK d : d = [Resolved(db, a.id) EXCEPT !.rows.advice = (@ \ {a}) \cup {[a EXCEPT !.status = "dismissed"]}]
  OBVIOUS
<1>9. /\ DOMAIN d = {"rows", "reminders", "ledger"} /\ d.ledger = db.ledger /\ d.reminders = k
      /\ d.rows = [db.rows EXCEPT !.advice = (@ \ {a}) \cup {n}]
  <2>1. PICK w : w = [db EXCEPT !.reminders = k]
    OBVIOUS
  <2>2. DOMAIN w = {"rows", "reminders", "ledger"} /\ w.ledger = db.ledger /\ w.reminders = k /\ w.rows = db.rows
    BY <1>2, <2>1
  <2>3. d = [w EXCEPT !.rows.advice = (@ \ {a}) \cup {n}]
    BY <1>3, <1>7, <1>8, <2>1
  <2> QED BY <2>2, <2>3
<1>10. /\ DOMAIN d.rows = TableNames /\ d.rows.advice = (db.rows.advice \ {a}) \cup {n}
       /\ \A t \in TableNames : t # "advice" => d.rows[t] = db.rows[t]
  BY <1>2, <1>9, TablesAre
<1>11. TableHolds("advice", d.rows.advice)
  BY <1>4, <1>5, <1>10, FieldsAre DEF TableHolds
<1>12. \A t \in TableNames : TableHolds(t, d.rows[t])
  BY <1>2, <1>10, <1>11 DEF Holds
<1>13. RowsStay(db.rows, d.rows)
  <2> SUFFICES ASSUME NEW t \in TableNames, NEW r \in db.rows[t] PROVE \E m \in d.rows[t] : Stays(t, r, m)
    BY DEF RowsStay
  <2>1. CASE t = "advice" /\ r = a
    <3>1. Stays(t, r, n)
      BY <1>5, <2>1 DEF Stays
    <3> QED BY <1>10, <2>1, <3>1
  <2>2. CASE ~(t = "advice" /\ r = a)
    <3>1. r \in d.rows[t]
      BY <1>10, <2>2
    <3> QED BY <3>1 DEF Stays
  <2> QED BY <2>1, <2>2
<1>14. ASSUME NEW t \in Renaming, NEW m \in d.rows[t] PROVE \E r \in db.rows[t] : m.id = r.id
  <2>1. t \in TableNames
    BY TablesAre DEF Renaming
  <2> QED BY <1>5, <1>10, <2>1
<1>15. OneIsLive(d.rows.advice)
  BY <1>4, <1>5, <1>10 DEF OneIsLive
<1>16. RemindersHold(d) /\ db.reminders.closed \subseteq d.reminders.closed
  <2>1. \A b \in db.rows.advice : \E c \in d.rows.advice : c.id = b.id
    BY <1>5, <1>10
  <2>2. /\ DOMAIN k = {"open", "closed", "claimed"} /\ k.open = db.reminders.open \ {a.id}
        /\ k.closed = db.reminders.closed \cup {a.id} /\ k.claimed = db.reminders.claimed \ {a.id}
    BY <1>6
  <2> QED BY <1>2, <1>9, <2>1, <2>2 DEF RemindersHold
<1>17. Application(d)
  BY <1>1, <1>8
<1>18. d.rows.feedback = db.rows.feedback
  BY <1>10, TablesAre
<1> QED BY <1>9, <1>10, <1>12, <1>13, <1>14, <1>15, <1>16, <1>17, <1>18, ApplicationKeeps

\* A goal is reaffirmed: the ids of the source stay what they are.
LEMMA SourceMovesOnKeeps == ASSUME MergeInv, SourceMovesOn PROVE MergeInv'
<1>1. PICK u \in User : \E g \in source[u].goal :
         source' = [source EXCEPT ![u].goal = (@ \ {g}) \cup {[g EXCEPT !.at = @ + 1]}]
  BY DEF SourceMovesOn
<1>2. PICK g \in source[u].goal : source' = [source EXCEPT ![u].goal = (@ \ {g}) \cup {[g EXCEPT !.at = @ + 1]}]
  BY <1>1
<1>3. SourceHolds /\ Holds(db) /\ Holds(saved) /\ ~Running /\ UNCHANGED <<db, saved, run>> /\ db = saved
  BY DEF MergeInv, RunAgrees, SourceMovesOn, Running
<1>4. PICK n : n = [g EXCEPT !.at = @ + 1]
  OBVIOUS
<1>5. /\ DOMAIN n = {"id", "text", "at"} /\ n.id = g.id /\ n.at \in Nat
  <2>1. TableHolds("goal", source[u].goal)
    BY <1>3, TablesAre DEF SourceHolds
  <2>2. DOMAIN g = {"id", "text", "at"} /\ g.at \in Nat
    BY <2>1, FieldsAre DEF TableHolds
  <2> QED BY <1>4, <2>2
<1>6. PICK goals : goals = (source[u].goal \ {g}) \cup {n}
  OBVIOUS
<1>7. source' = [source EXCEPT ![u].goal = goals]
  BY <1>2, <1>4, <1>6
<1>8. /\ DOMAIN source' = User
      /\ \A v \in User : DOMAIN source'[v] = TableNames
      /\ source'[u].goal = goals
      /\ \A v \in User, t \in TableNames : v # u \/ t # "goal" => source'[v][t] = source[v][t]
  BY <1>3, <1>7, TablesAre DEF SourceHolds
<1>9. TableHolds("goal", goals)
  <2>1. TableHolds("goal", source[u].goal)
    BY <1>3, TablesAre DEF SourceHolds
  <2> QED BY <1>5, <1>6, <2>1, FieldsAre DEF TableHolds
<1>10. \A v \in User, t \in TableNames : TableHolds(t, source'[v][t])
  BY <1>3, <1>8, <1>9 DEF SourceHolds
\* The same ids.
<1>11. \A v \in User, t \in TableNames :
          /\ \A s \in source'[v][t] : \E r \in source[v][t] : r.id = s.id
          /\ \A r \in source[v][t] : \E s \in source'[v][t] : r.id = s.id
  <2> SUFFICES ASSUME NEW v \in User, NEW t \in TableNames
               PROVE  /\ \A s \in source'[v][t] : \E r \in source[v][t] : r.id = s.id
                      /\ \A r \in source[v][t] : \E s \in source'[v][t] : r.id = s.id
    OBVIOUS
  <2>1. CASE v = u /\ t = "goal"
    BY <1>5, <1>6, <1>8, <2>1
  <2>2. CASE v # u \/ t # "goal"
    BY <1>8, <2>2
  <2> QED BY <2>1, <2>2
<1>12. Renaming \subseteq TableNames /\ Referenced \subseteq TableNames /\ \A t : Before(t) \subseteq TableNames
  BY TablesAre DEF Renaming, Referenced, Before
<1>13. SourceHolds'
  <2>1. \A v, w \in User : \A t \in Renaming : \A r \in source'[v][t], s \in source'[w][t] :
           r.id # Renamed(t, w, s.id) /\ Renamed(t, w, s.id) # None
    <3> SUFFICES ASSUME NEW v \in User, NEW w \in User, NEW t \in Renaming,
                        NEW r \in source'[v][t], NEW s \in source'[w][t]
                 PROVE  r.id # Renamed(t, w, s.id) /\ Renamed(t, w, s.id) # None
      OBVIOUS
    <3>1. PICK r0 \in source[v][t] : r0.id = r.id
      BY <1>11, <1>12
    <3>2. PICK s0 \in source[w][t] : s0.id = s.id
      BY <1>11, <1>12
    <3> QED BY <1>3, <3>1, <3>2 DEF SourceHolds
  <2> QED BY <1>8, <1>10, <2>1 DEF SourceHolds
<1>14. PICK c : c = source'
  OBVIOUS
<1>15. PICK d : d = db
  OBVIOUS
<1>16. Holds(d) /\ Books(d.ledger)
  BY <1>3, <1>15 DEF Holds
<1>17. ASSUME NEW e \in d.ledger
       PROVE  /\ \E s \in c[e.user][e.table] : s.id = e.key
              /\ \A t \in Before(e.table) : \A s \in c[e.user][t] :
                    \E f \in d.ledger : f.user = e.user /\ f.table = t /\ f.key = s.id
  <2>1. e.user \in User /\ e.table \in TableNames /\ \E s \in source[e.user][e.table] : s.id = e.key
    BY <1>16 DEF Books
  <2>2. \E s \in c[e.user][e.table] : s.id = e.key
    BY <1>11, <1>14, <2>1
  <2>3. ASSUME NEW t \in Before(e.table), NEW s \in c[e.user][t]
        PROVE  \E f \in d.ledger : f.user = e.user /\ f.table = t /\ f.key = s.id
    <3>1. t \in TableNames
      BY <1>12
    <3>2. PICK r \in source[e.user][t] : r.id = s.id
      BY <1>11, <1>14, <2>1, <3>1
    <3> QED BY <1>16, <3>2 DEF Books
  <2> QED BY <2>2, <2>3
<1>18. Books(d.ledger)'
  BY <1>14, <1>16, <1>17 DEF Books
<1>19. NamesMade(d)'
  <2> SUFFICES ASSUME NEW t \in Renaming, NEW r \in d.rows[t], NEW v \in User, NEW s \in source'[v][t],
                      r.id = Renamed(t, v, s.id)
               PROVE  \E e \in d.ledger : e.user = v /\ e.table = t /\ e.key = s.id
    BY DEF NamesMade
  <2>1. PICK s0 \in source[v][t] : s0.id = s.id
    BY <1>11, <1>12
  <2>2. NamesMade(d)
    BY <1>16 DEF Holds
  <2>3. r.id = Renamed(t, v, s0.id)
    BY <2>1
  <2>4. \E e \in d.ledger : e.user = v /\ e.table = t /\ e.key = s0.id
    BY <2>2, <2>3 DEF NamesMade
  <2> QED BY <2>1, <2>4
<1>20. Holds(d)'
  BY <1>16, <1>18, <1>19 DEF Holds, RemindersHold, ImportsHold, AnswersHold
<1>21. Holds(db)' /\ Holds(saved)'
  <2>1. db' = d /\ saved' = d
    BY <1>3, <1>15
  <2> QED BY <1>20, <2>1
<1>22. RunAgrees(db, saved, run)'
  BY <1>3 DEF RunAgrees, Running
<1> QED BY <1>13, <1>21, <1>22 DEF MergeInv

LEMMA MergeStarts == ASSUME MergeInit PROVE MergeInv
<1>1. PICK c \in History :
         /\ source = c.source /\ db = [rows |-> c.own, reminders |-> NoReminders, ledger |-> {}]
         /\ saved = db /\ run = NoRun
  BY DEF MergeInit
<1>2. /\ DOMAIN c.own = TableNames /\ DOMAIN c.source = User
      /\ \A t \in TableNames : TableHolds(t, c.own[t])
      /\ OneIsLive(c.own.advice)
      /\ \A u \in User :
            /\ DOMAIN c.source[u] = TableNames
            /\ \A t \in TableNames : TableHolds(t, c.source[u][t])
            /\ \A t \in Renaming : \A s \in c.source[u][t] :
                  /\ Renamed(t, u, s.id) # None
                  /\ \A r \in c.own[t] \cup UNION {c.source[v][t] : v \in User} : r.id # Renamed(t, u, s.id)
  BY HistoryAssumption
<1>3. SourceHolds
  <2>1. ASSUME NEW u \in User, NEW v \in User, NEW t \in Renaming, NEW r \in c.source[u][t], NEW s \in c.source[v][t]
        PROVE  r.id # Renamed(t, v, s.id) /\ Renamed(t, v, s.id) # None
    <3>1. r \in UNION {c.source[w][t] : w \in User}
      OBVIOUS
    <3> QED BY <1>2, <3>1
  <2>2. /\ DOMAIN c.source = User
        /\ \A u \in User : DOMAIN c.source[u] = TableNames /\ \A t \in TableNames : TableHolds(t, c.source[u][t])
    BY <1>2
  <2> QED BY <1>1, <2>1, <2>2 DEF SourceHolds
<1>4. /\ DOMAIN db = {"rows", "reminders", "ledger"} /\ db.rows = c.own /\ db.reminders = NoReminders
      /\ db.ledger = {}
  BY <1>1
<1>5. NamesMade(db)
  BY <1>1, <1>2, <1>4 DEF NamesMade
<1>6. RemindersHold(db) /\ Books(db.ledger) /\ ImportsHold(db) /\ AnswersHold(db)
  BY <1>4 DEF RemindersHold, NoReminders, Books, ImportsHold, AnswersHold
<1>7. Holds(db)
  BY <1>2, <1>4, <1>5, <1>6 DEF Holds
<1> QED BY <1>1, <1>3, <1>7 DEF MergeInv, RunAgrees

\* Every step of the tool and of the application keeps the destination in order,
\* and the run in agreement with what it has dealt with.
THEOREM MergeAgrees == MergeSpec => []MergeInv
<1>1. MergeInit => MergeInv
  BY MergeStarts
<1>2. MergeInv /\ [MergeNext]_mergeVars => MergeInv'
  <2> SUFFICES ASSUME MergeInv, [MergeNext]_mergeVars PROVE MergeInv'
    OBVIOUS
  <2>1. ASSUME NEW users \in UserLists, NEW apply \in BOOLEAN, BeginRun(users, apply) PROVE MergeInv'
    BY <2>1, BeginKeeps
  <2>2. CASE SourceDrift \/ Conclude \/ Abort
    BY <2>2, RunEndKeeps
  <2>3. CASE AlreadyImported
    BY <2>3, AlreadyImportedKeeps
  <2>4. CASE Merge
    BY <2>4, GoalKeeps, EventKeeps, AdviceKeeps, FeedbackKeeps, RelevanceKeeps, OutcomeKeeps, CharterKeeps,
       TrustKeeps, PreferenceKeeps, MuteKeeps DEF Merge
  <2>5. CASE EnsureAttention \/ ClaimReminder
    BY <2>5, RemindersKeep
  <2>6. CASE Answer
    BY <2>6, AnswerKeeps
  <2>7. CASE SourceMovesOn
    BY <2>7, SourceMovesOnKeeps
  <2>8. CASE UNCHANGED mergeVars
    <3>1. PICK d : d = db
      OBVIOUS
    <3>2. PICK s : s = saved
      OBVIOUS
    <3>3. PICK r : r = run
      OBVIOUS
    <3>4. /\ source' = source /\ db' = d /\ saved' = s /\ run' = r
          /\ SourceHolds /\ Holds(d) /\ Holds(s) /\ RunAgrees(d, s, r)
      BY <2>8, <3>1, <3>2, <3>3 DEF mergeVars, MergeInv
    <3> QED BY <3>4, AfterStep
  <2> QED BY <2>1, <2>2, <2>3, <2>4, <2>5, <2>6, <2>7, <2>8 DEF MergeNext
<1> QED BY <1>1, <1>2, PTL DEF MergeSpec

\* The unique indexes of the destination never stop a merge half-way: in every state
\* of the transaction one open advice at most is about a topic, and one live advice about
\* an evidence (merge_advice, idx_advice_user_topic_nonterminal,
\* idx_advice_user_evidence_nonterminal).
THEOREM IndexesNeverStopAMerge == MergeSpec => []OneLiveAdvice
<1>1. MergeInv => OneLiveAdvice
  <2> SUFFICES ASSUME MergeInv PROVE OneLiveAdvice
    OBVIOUS
  <2>1. Holds(db) /\ RunAgrees(db, saved, run)
    BY DEF MergeInv
  <2>2. \A t \in TableNames : \A r, s \in db.rows[t] : r.id = s.id => r = s
    BY <2>1 DEF Holds, TableHolds
  <2>3. \A e, f \in db.ledger : <<e.user, e.table, e.key>> = <<f.user, f.table, f.key>> => e = f
    BY <2>1 DEF Holds, Books
  <2>4. db.reminders.open \cap db.reminders.closed = {} /\ OneIsLive(db.rows.advice)
    BY <2>1 DEF Holds, RemindersHold
  <2>5. ~Running => saved = db
    BY <2>1 DEF RunAgrees, Running
  <2> QED BY <2>2, <2>3, <2>4, <2>5 DEF OneLiveAdvice, MergeTypeOK
<1> QED BY <1>1, MergeAgrees, PTL

\* An imported advice never becomes a reminder, and no reminder is due, nor claimed by a
\* device, for what was answered at the source, by the status of the advice or by feedback
\* on it (SKIPPED_TABLE_REASONS, merge_advice, merge_feedback).
THEOREM ImportsRemindNobody == MergeSpec => []NoReminderReplayed
<1>1. MergeInv => NoReminderReplayed
  <2> SUFFICES ASSUME MergeInv PROVE NoReminderReplayed
    OBVIOUS
  <2>1. RemindersHold(db) /\ AnswersHold(db)
    BY DEF MergeInv, Holds
  <2>2. ASSUME NEW e \in db.ledger, e.table = "advice", e.action = "deduplicated" => ~IsOpen(e.row)
        PROVE  e.to \in db.reminders.closed
    BY <2>1, <2>2 DEF RemindersHold, AnswersHold
  <2>3. ASSUME NEW e \in db.ledger, e.table = "feedback", e.to # None,
               NEW f \in db.rows.feedback, f.id = e.to
        PROVE  f.advice \in db.reminders.closed
    BY <2>1, <2>3 DEF AnswersHold
  <2>4. db.reminders.open \cap db.reminders.closed = {} /\ db.reminders.claimed \subseteq db.reminders.open
    BY <2>1 DEF RemindersHold
  <2> QED BY <2>2, <2>3, <2>4 DEF NoReminderReplayed
<1> QED BY <1>1, MergeAgrees, PTL

\* Every imported row is at the destination with its content, and hangs on what its
\* own goal, event or advice became, though these were merged, renamed or imported
\* by an earlier run (the id maps, _restore_map_from_prior).
THEOREM ImportsKeepTheirReferences == MergeSpec => []ReferencesSurvive
<1>1. MergeInv => ReferencesSurvive
  <2> SUFFICES ASSUME MergeInv, NEW e \in db.ledger
               PROVE  /\ e.to # None => \E r \in db.rows[e.table] : r.id = e.to
                      /\ e.table = "goal" => Arrived(e).text = e.row.text
                      /\ e.table = "event" => Arrived(e).observed = e.row.observed
                      /\ e.table = "advice" =>
                            /\ Arrived(e).text = e.row.text
                            /\ Went("goal", e.user, e.row.goal, Arrived(e).goal)
                            /\ Went("event", e.user, e.row.event, Arrived(e).event)
                      /\ e.table = "feedback" /\ e.to # None =>
                            Went("advice", e.user, e.row.advice, Arrived(e).advice)
                      /\ e.table = "outcome" /\ e.to # None => Went("advice", e.user, e.key, e.to)
                      /\ e.table = "relevance" /\ e.to # None =>
                            Went("advice", e.user, e.key.advice, e.to.advice)
    BY DEF ReferencesSurvive
  <2>1. Holds(db) /\ Books(db.ledger) /\ ImportsHold(db)
    BY DEF MergeInv, Holds
  <2>2. /\ e.table \in TableNames /\ TableHolds(e.table, db.rows[e.table])
        /\ e.table \in {"goal", "event", "advice"} => e.to # None
    BY <2>1 DEF Holds, Books, Referenced
  <2>3. \A t, u, was, is : Led(db.ledger, t, u, was, is) <=> Went(t, u, was, is)
    BY DEF Led, Went
  <2>4. ASSUME e.to # None
        PROVE  Arrived(e) \in db.rows[e.table] /\ Arrived(e).id = e.to /\ Came(db.ledger, e, Arrived(e))
    <3>1. PICK r \in db.rows[e.table] : r.id = e.to /\ Came(db.ledger, e, r)
      BY <2>1, <2>4 DEF ImportsHold
    <3>2. Arrived(e) \in db.rows[e.table] /\ Arrived(e).id = e.to
      BY <3>1 DEF Arrived
    <3>3. Arrived(e) = r
      BY <2>2, <3>1, <3>2 DEF TableHolds
    <3> QED BY <3>1, <3>2, <3>3
  <2>5. /\ e.table = "outcome" /\ e.to # None => Led(db.ledger, "advice", e.user, e.key, e.to)
        /\ e.table = "relevance" /\ e.to # None => Led(db.ledger, "advice", e.user, e.key.advice, e.to.advice)
    BY <2>1 DEF ImportsHold
  <2> QED BY <2>2, <2>3, <2>4, <2>5 DEF Came
<1> QED BY <1>1, MergeAgrees, PTL

\* A run that got to its end has dealt with every row of its users.
LEMMA WordKept == ASSUME MergeInv PROVE RunsKeepTheirWord
<1> SUFFICES ASSUME Finished
             PROVE  /\ Rows(run.users) \subseteq Imported(saved) => db = saved
                    /\ Rows(run.users) \subseteq Imported(db)
                    /\ NothingTaken(saved.rows, db.rows)
  BY DEF RunsKeepTheirWord
<1>1. RunHolds(db.ledger, run) /\ Settled(run) /\ Progress(db, saved, run) /\ run.todo = {}
  BY DEF Finished, MergeInv, RunAgrees, Running
<1>2. ASSUME NEW x \in Rows(run.users) PROVE x \in Imported(db)
  <2>1. PICK i \in 1..Len(run.users), t \in TableNames :
           \E r \in source[run.users[i]][t] : x = <<run.users[i], t, r>>
    BY RowsAre
  <2>2. PICK r \in source[run.users[i]][t] : x = <<run.users[i], t, r>>
    BY <2>1
  <2>3. PICK k \in 1..10 : Tables[k] = t
    BY TablesAre
  <2>4. PICK p : p = <<k, i>>
    OBVIOUS
  <2>5. p \in PlacesOf(run) /\ p[1] = k /\ p[2] = i /\ RowsAt(run, p) = source[run.users[i]][t]
    BY <2>3, <2>4 DEF PlacesOf, RowsAt
  <2>6. run.table \in Nat /\ run.user \in Nat /\ k \in Nat /\ i \in Nat
    BY <1>1 DEF RunHolds
  <2>7. Dealt(db.ledger, run, p, r)
    <3>1. CASE Passed(p, run)
      BY <1>1, <2>2, <2>5, <3>1 DEF RunHolds
    <3>2. CASE Ahead(p, run)
      BY <1>1, <2>2, <2>5, <3>2 DEF Settled
    <3>3. CASE p = <<run.table, run.user>>
      BY <1>1, <2>2, <2>5, <3>3 DEF RunHolds
    <3>4. Passed(p, run) \/ Ahead(p, run) \/ p = <<run.table, run.user>>
      BY <2>4, <2>5, <2>6 DEF Passed, Ahead
    <3> QED BY <3>1, <3>2, <3>3, <3>4
  <2>8. PICK e \in db.ledger : e.user = run.users[i] /\ e.table = t /\ e.row = r
    BY <2>3, <2>5, <2>7 DEF Dealt
  <2> QED BY <2>2, <2>8 DEF Imported
<1> QED BY <1>1, <1>2 DEF Progress

\* A run that got to its end has imported every row of its users as it is now, has
\* changed nothing if an earlier run imported them all, and has taken from the
\* destination nothing that it held (destination_won, "source drift detected",
\* "row loss detected").
THEOREM RunsDoWhatTheySay == MergeSpec => []RunsKeepTheirWord
<1>1. MergeInv => RunsKeepTheirWord
  BY WordKept
<1> QED BY <1>1, MergeAgrees, PTL

-----------------------------------------------------------------------------
(* The books of a merge: judgements and what backs them.                     *)

\* Nothing of a user's advice was at the destination before it came.
NothingShared(ledger, u) ==
    ~\E e \in ledger : e.user = u /\ e.table = "advice" /\ e.action = "deduplicated"

\* A user's account of an area is still to be merged.
Pending(ledger, u, area) ==
    /\ \E t \in source[u].trust : t.id = area
    /\ ~\E f \in ledger : f.user = u /\ f.table = "trust" /\ f.key = area

\* The advice set aside for the accounts of an area that are still to be added up.
Waits(ledger, e, area) == e.table = "advice" /\ NothingShared(ledger, e.user) /\ Pending(ledger, e.user, area)

SetAside(ledger, area) == {e.to : e \in {x \in ledger : Waits(ledger, x, area)}}

\* Judged advice of one content is one advice.
SaidOnce(rows) ==
    \A a, b \in rows.advice :
        {a.id, b.id} \subseteq JudgedAdvice(rows) /\ a.text = b.text /\ a.topic = b.topic /\ a.ref = b.ref => a = b

SourcesBacked == \A u \in User : Backed(source[u]) /\ SaidOnce(source[u])

\* An advice entry of the source's advice, and the advice it became.
SameContent(d, e) ==
    /\ e.row \in source[e.user].advice
    /\ \A a \in d.rows.advice :
          a.id = e.to => a.text = e.row.text /\ a.topic = e.row.topic /\ a.ref = e.row.ref

\* Two entries whose advice became one row.
OneAdvice(e, f) == e.table = "advice" /\ f.table = "advice" /\ e.to = f.to

IsJudged(d, id) == \E r \in d.rows.outcome : r.id = id

AccountBacked(d, t) == t.judged <= Cardinality(JudgedAdvice(d.rows) \ SetAside(d.ledger, t.id))

\* Imported advice has the content of its entries, and an outcome if theirs is
\* imported; entries that found none of their content have advice of their own; and
\* an account claims no more than there is, without what is set aside.
BooksHold(d) ==
    /\ IsFiniteSet(d.rows.outcome)
    /\ \A e \in d.ledger : e.table = "advice" => SameContent(d, e)
    /\ \A e, f \in d.ledger :
          OneAdvice(e, f) /\ e.action # "deduplicated" /\ f.action # "deduplicated" => e = f
    /\ \A e, o \in d.ledger :
          e.table = "advice" /\ o.table = "outcome" /\ e.user = o.user /\ e.key = o.key => IsJudged(d, e.to)
    /\ \A t \in d.rows.trust : AccountBacked(d, t)

\* Of a user, all the accounts are committed or nothing.
Whole(ledger) ==
    \A e \in ledger : \A t \in source[e.user].trust :
        \E f \in ledger : f.user = e.user /\ f.table = "trust" /\ f.key = t.id

\* What is new in the ledger came from the places up to the one at hand; the run knows
\* whose advice was there before; and no advice of a user is one that a later user brings.
RunBooks(ledger, old, r) ==
    /\ \A i, j \in 1..Len(r.users) : r.users[i] = r.users[j] => i = j
    /\ \A e \in ledger \ old : \E p \in PlacesOf(r) :
          ~Ahead(p, r) /\ e.user = r.users[p[2]] /\ e.table = Tables[p[1]]
    /\ \A e \in ledger \ old : e.table = "advice" /\ e.action = "deduplicated" => e.user \in r.overlap
    /\ \A e \in ledger, f \in ledger \ old : \A i, j \in 1..Len(r.users) :
          OneAdvice(e, f) /\ e.user = r.users[i] /\ f.user = r.users[j] /\ i < j => f.action = "deduplicated"

BooksInv ==
    /\ SourcesBacked /\ BooksHold(db) /\ BooksHold(saved) /\ Whole(saved.ledger)
    /\ run # NoRun => RunBooks(db.ledger, saved.ledger, run)

\* Onward goes ahead, and takes along whose advice was there.
LEMMA OnwardBooks ==
    ASSUME NEW r, DOMAIN r = {"users", "apply", "table", "user", "todo", "map", "overlap"},
           Len(r.users) \in Nat, r.table \in Nat, r.user \in Nat
    PROVE  /\ Onward(r).overlap = r.overlap /\ Onward(r).users = r.users
           /\ \A p \in PlacesOf(r) : Ahead(p, Onward(r)) => Ahead(p, r)
<1> DEFINE ahead == {p \in PlacesOf(r) : Ahead(p, r) /\ RowsAt(r, p) # {}}
           next == CHOOSE p \in ahead : \A q \in ahead : p[1] < q[1] \/ (p[1] = q[1] /\ p[2] <= q[2])
           n == [r EXCEPT !.table = next[1], !.user = next[2], !.todo = RowsAt(r, next)]
<1>1. Onward(r) = IF r.todo # {} \/ ahead = {} THEN r ELSE n
  BY TablesAre DEF Onward, RowsAt, PlacesOf, Ahead
<1>2. CASE r.todo # {} \/ ahead = {}
  BY <1>1, <1>2
<1>3. CASE r.todo = {} /\ ahead # {}
  <2>1. ahead \in SUBSET (Nat \X Nat)
    BY DEF PlacesOf
  <2>2. next \in ahead
    <3>1. \E p \in ahead : \A q \in ahead : p[1] < q[1] \/ (p[1] = q[1] /\ p[2] <= q[2])
      <4> HIDE DEF ahead
      <4> QED BY <1>3, <2>1, FirstPlace
    <3> QED BY <3>1
  <2>3. next \in PlacesOf(r) /\ Ahead(next, r)
    BY <2>2
  <2> HIDE DEF next
  <2>4. n.users = r.users /\ n.overlap = r.overlap /\ n.table = next[1] /\ n.user = next[2]
    OBVIOUS
  <2> HIDE DEF n
  <2>5. ASSUME NEW p \in PlacesOf(r), Ahead(p, n) PROVE Ahead(p, r)
    <3>1. /\ p[1] \in Nat /\ p[2] \in Nat /\ next[1] \in Nat /\ next[2] \in Nat
          /\ r.table \in Nat /\ r.user \in Nat
      BY <2>3 DEF PlacesOf
    <3> QED BY <2>3, <2>4, <2>5, <3>1 DEF Ahead
  <2> QED BY <1>1, <1>3, <2>4, <2>5
<1> QED BY <1>2, <1>3

\* A step that leaves the source alone.
LEMMA AfterBooks ==
    ASSUME NEW d, NEW s, NEW r, source' = source, db' = d, saved' = s, run' = r,
           SourcesBacked, BooksHold(d), BooksHold(s), Whole(s.ledger),
           r # NoRun => RunBooks(d.ledger, s.ledger, r)
    PROVE  BooksInv'
<1>1. SourcesBacked' /\ Whole(saved.ledger)'
  BY DEF SourcesBacked, Whole
<1>2. \A l, area : SetAside(l, area)' = SetAside(l, area)
  BY DEF SetAside, Waits, NothingShared, Pending
<1>3. BooksHold(db)' /\ BooksHold(saved)'
  BY <1>2 DEF BooksHold, SameContent, OneAdvice, IsJudged, AccountBacked
<1>4. (run # NoRun => RunBooks(db.ledger, saved.ledger, run))'
  BY DEF RunBooks, PlacesOf, Ahead, OneAdvice
<1> QED BY <1>1, <1>3, <1>4 DEF BooksInv

LEMMA JudgedIsFinite ==
    ASSUME NEW rows, IsFiniteSet(rows.outcome)
    PROVE  IsFiniteSet(JudgedAdvice(rows)) /\ Cardinality(JudgedAdvice(rows)) <= Cardinality(rows.outcome)
<1> DEFINE ids == {o.id : o \in rows.outcome}
           f == [o \in rows.outcome |-> o.id]
<1>1. f \in Surjection(rows.outcome, ids)
  BY DEF Surjection
<1>2. IsFiniteSet(ids) /\ Cardinality(ids) <= Cardinality(rows.outcome)
  <2> HIDE DEF f, ids
  <2> QED BY <1>1, FS_Surjection
<1>3. JudgedAdvice(rows) \in SUBSET ids
  BY DEF JudgedAdvice
<1>4. IsFiniteSet(JudgedAdvice(rows)) /\ Cardinality(JudgedAdvice(rows)) <= Cardinality(ids)
  <2> HIDE DEF ids
  <2> QED BY <1>2, <1>3, FS_Subset
<1>5. Cardinality(JudgedAdvice(rows)) \in Nat /\ Cardinality(ids) \in Nat /\ Cardinality(rows.outcome) \in Nat
  BY <1>2, <1>4, FS_CardinalityType
<1> QED BY <1>2, <1>4, <1>5

\* More advice backs as much.
LEMMA MoreBacks ==
    ASSUME NEW S, NEW T, IsFiniteSet(T), S \subseteq T, NEW n \in Nat, n <= Cardinality(S)
    PROVE  n <= Cardinality(T)
<1>1. IsFiniteSet(S) /\ Cardinality(S) <= Cardinality(T)
  BY FS_Subset
<1>2. Cardinality(S) \in Nat /\ Cardinality(T) \in Nat
  BY <1>1, FS_CardinalityType
<1> QED BY <1>1, <1>2

LEMMA AdviceIsThird == ASSUME NEW k \in 1..10, Tables[k] = "advice" PROVE k = 3
<1>1. k \in {1, 2, 3, 4, 5, 6, 7, 8, 9, 10}
  OBVIOUS
<1> QED BY <1>1, TablesAre

\* A row of a table that a step deals with: d is the destination but for its entry.
Deals(t, row, d, to, action, overlap) ==
    /\ row \in Fresh(t)
    /\ DOMAIN d = {"rows", "reminders", "ledger"} /\ d.ledger = db.ledger
    /\ db' = Recorded(d, row, to, action)
    /\ run' = Onward([run EXCEPT !.todo = @ \ {row}, !.map = @ \cup Link(row, to), !.overlap = overlap])
    /\ run.overlap \subseteq overlap
    /\ UNCHANGED <<source, saved>>

LEMMA EntryIs ==
    ASSUME NEW row, NEW to, NEW action, NEW d, DOMAIN d = {"rows", "reminders", "ledger"}, d.ledger = db.ledger
    PROVE  /\ Entry(row, to, action).user = Current /\ Entry(row, to, action).table = Table
           /\ Entry(row, to, action).key = row.id /\ Entry(row, to, action).row = row
           /\ Entry(row, to, action).to = to /\ Entry(row, to, action).action = action
           /\ Recorded(d, row, to, action).ledger = db.ledger \cup {Entry(row, to, action)}
           /\ Recorded(d, row, to, action).rows = d.rows
  BY DEF Entry, Recorded

\* A step keeps the books if the destination does, the run notes advice that was there, and
\* advice that was not there is no one else's.
LEMMA DealtBooks ==
    ASSUME MergeInv, BooksInv, NEW t, NEW row, NEW d, NEW to, NEW action, NEW overlap,
           Deals(t, row, d, to, action, overlap), BooksHold(Recorded(d, row, to, action)),
           t = "advice" /\ action = "deduplicated" => Current \in overlap,
           t = "advice" /\ action # "deduplicated" => \A e \in db.ledger : e.table = "advice" => e.to # to
    PROVE  BooksInv'
<1>1. /\ Running /\ Table = t /\ row \in run.todo /\ RunHolds(db.ledger, run) /\ run # NoRun
      /\ SourcesBacked /\ BooksHold(saved) /\ Whole(saved.ledger)
      /\ RunBooks(db.ledger, saved.ledger, run)
  BY FreshRow DEF Deals, BooksInv, Running
<1>2. PICK n : n = Entry(row, to, action)
  OBVIOUS
<1>3. PICK new : new = Recorded(d, row, to, action)
  OBVIOUS
<1>4. /\ n.user = Current /\ n.table = t /\ n.to = to /\ n.action = action
      /\ new.ledger = db.ledger \cup {n} /\ BooksHold(new)
  BY <1>1, <1>2, <1>3, EntryIs DEF Deals
<1>5. PICK r : r = [run EXCEPT !.todo = @ \ {row}, !.map = @ \cup Link(row, to), !.overlap = overlap]
  OBVIOUS
<1>6. /\ DOMAIN r = DOMAIN run /\ r.users = run.users /\ r.apply = run.apply
      /\ r.table = run.table /\ r.user = run.user
      /\ r.todo = run.todo \ {row} /\ r.map = run.map \cup Link(row, to) /\ r.overlap = overlap
  BY <1>1, <1>5 DEF RunHolds
<1>7. PICK w : w = Onward(r)
  OBVIOUS
<1>8. /\ run.table \in 1..10 /\ run.user \in 1..Len(run.users) /\ Len(run.users) \in Nat
      /\ DOMAIN run = {"users", "apply", "table", "user", "todo", "map", "overlap"}
      /\ Current = run.users[run.user] /\ t = Tables[run.table]
  BY <1>1 DEF RunHolds, Current, Table
<1>9. w.overlap = overlap /\ w.users = run.users /\ \A p \in PlacesOf(run) : Ahead(p, w) => Ahead(p, run)
  <2>1. /\ Onward(r).overlap = r.overlap /\ Onward(r).users = r.users
        /\ \A p \in PlacesOf(r) : Ahead(p, Onward(r)) => Ahead(p, r)
    BY <1>6, <1>8, OnwardBooks
  <2> QED BY <1>6, <1>7, <2>1 DEF PlacesOf, Ahead
<1>10. PICK old : old = saved.ledger
  OBVIOUS
<1>11. RunBooks(db.ledger, old, run)
  BY <1>1, <1>10
<1>12. ASSUME NEW e \in new.ledger \ old
       PROVE  \E p \in PlacesOf(w) : ~Ahead(p, w) /\ e.user = w.users[p[2]] /\ e.table = Tables[p[1]]
  <2>1. CASE e = n
    <3>1. PICK p : p = <<run.table, run.user>>
      OBVIOUS
    <3>2. p \in PlacesOf(run) /\ ~Ahead(p, run) /\ p[1] = run.table /\ p[2] = run.user
      BY <1>8, <3>1 DEF PlacesOf, Ahead
    <3> QED BY <1>4, <1>8, <1>9, <2>1, <3>2 DEF PlacesOf
  <2>2. CASE e \in db.ledger
    <3>1. PICK p \in PlacesOf(run) : ~Ahead(p, run) /\ e.user = run.users[p[2]] /\ e.table = Tables[p[1]]
      BY <1>11, <2>2 DEF RunBooks
    <3> QED BY <1>9, <3>1 DEF PlacesOf
  <2> QED BY <1>4, <2>1, <2>2
<1>13. \A e \in new.ledger \ old : e.table = "advice" /\ e.action = "deduplicated" => e.user \in w.overlap
  BY <1>4, <1>9, <1>11 DEF RunBooks, Deals
<1>14. ASSUME NEW e \in new.ledger, NEW f \in new.ledger \ old, NEW i \in 1..Len(w.users), NEW j \in 1..Len(w.users),
              OneAdvice(e, f), e.user = w.users[i], f.user = w.users[j], i < j, f.action # "deduplicated"
       PROVE  FALSE
  <2>1. \A k, l \in 1..Len(run.users) : run.users[k] = run.users[l] => k = l
    BY <1>11 DEF RunBooks
  <2>2. CASE e \in db.ledger /\ f \in db.ledger
    BY <1>9, <1>11, <1>14, <2>2 DEF RunBooks
  <2>3. CASE f = n
    <3>1. CASE e \in db.ledger
      BY <1>4, <1>14, <2>3, <3>1 DEF OneAdvice
    <3>2. CASE e = n
      BY <1>9, <1>14, <2>1, <2>3, <3>2
    <3> QED BY <1>4, <3>1, <3>2
  <2>4. CASE e = n /\ f \in db.ledger
    <3>1. i = run.user /\ run.table = 3
      <4>1. i = run.user
        BY <1>4, <1>8, <1>9, <1>14, <2>1, <2>4
      <4>2. run.table = 3
        BY <1>4, <1>8, <1>14, <2>4, AdviceIsThird DEF OneAdvice
      <4> QED BY <4>1, <4>2
    <3>2. PICK p \in PlacesOf(run) : ~Ahead(p, run) /\ f.user = run.users[p[2]] /\ f.table = Tables[p[1]]
      BY <1>11, <1>14, <2>4 DEF RunBooks
    <3>3. p[1] = 3 /\ p[2] = j
      <4>1. p[1] \in 1..10 /\ p[2] \in 1..Len(run.users)
        BY DEF PlacesOf
      <4>2. p[1] = 3
        BY <1>14, <3>2, <4>1, AdviceIsThird DEF OneAdvice
      <4>3. p[2] = j
        BY <1>9, <1>14, <2>1, <3>2, <4>1
      <4> QED BY <4>2, <4>3
    <3> QED BY <1>14, <3>1, <3>2, <3>3 DEF Ahead
  <2> QED BY <1>4, <1>14, <2>2, <2>3, <2>4
<1>15. RunBooks(new.ledger, old, w)
  <2>1. \A i, j \in 1..Len(w.users) : w.users[i] = w.users[j] => i = j
    BY <1>9, <1>11 DEF RunBooks
  <2> QED BY <1>12, <1>13, <1>14, <2>1 DEF RunBooks
<1>16. PICK k : k = saved
  OBVIOUS
<1>17. source' = source /\ db' = new /\ saved' = k /\ run' = w
  BY <1>3, <1>5, <1>7, <1>16 DEF Deals
<1>18. BooksHold(k) /\ Whole(k.ledger) /\ k.ledger = old
  BY <1>1, <1>10, <1>16
<1> QED BY <1>1, <1>4, <1>15, <1>17, <1>18, AfterBooks

\* An entry sets nothing aside, but new advice itself.
LEMMA LessSetAside ==
    ASSUME NEW ledger, NEW n, NEW area
    PROVE  SetAside(ledger \cup {n}, area) \subseteq
              SetAside(ledger, area) \cup IF n.table = "advice" /\ n.action # "deduplicated" THEN {n.to} ELSE {}
<1> SUFFICES ASSUME NEW e \in ledger \cup {n}, Waits(ledger \cup {n}, e, area),
                    ~(e = n /\ n.table = "advice" /\ n.action # "deduplicated")
             PROVE  e \in ledger /\ Waits(ledger, e, area)
  BY DEF SetAside
<1>1. e \in ledger
  BY DEF Waits, NothingShared
<1>2. NothingShared(ledger, e.user) /\ Pending(ledger, e.user, area)
  BY DEF Waits, NothingShared, Pending
<1> QED BY <1>1, <1>2 DEF Waits

\* An account stays backed while judged advice does not become less, nor what is set aside more.
LEMMA BackedStill ==
    ASSUME NEW d, NEW t, t.judged \in Nat, AccountBacked(db, t), IsFiniteSet(d.rows.outcome),
           JudgedAdvice(db.rows) \ SetAside(db.ledger, t.id) \subseteq JudgedAdvice(d.rows),
           SetAside(d.ledger, t.id) \cap (JudgedAdvice(db.rows) \ SetAside(db.ledger, t.id)) = {}
    PROVE  AccountBacked(d, t)
<1>1. IsFiniteSet(JudgedAdvice(d.rows))
  BY JudgedIsFinite
<1>2. IsFiniteSet(JudgedAdvice(d.rows) \ SetAside(d.ledger, t.id))
  BY <1>1, FS_Difference
<1>3. PICK S : S = JudgedAdvice(db.rows) \ SetAside(db.ledger, t.id)
  OBVIOUS
<1>4. PICK T : T = JudgedAdvice(d.rows) \ SetAside(d.ledger, t.id)
  OBVIOUS
<1>5. S \subseteq T /\ IsFiniteSet(T) /\ t.judged <= Cardinality(S)
  BY <1>2, <1>3, <1>4 DEF AccountBacked
<1>6. t.judged <= Cardinality(T)
  BY <1>5, MoreBacks
<1> QED BY <1>4, <1>6 DEF AccountBacked

\* Accounts claim numbers.
LEMMA JudgedAreNumbers == ASSUME NEW d, Holds(d), NEW t \in d.rows.trust PROVE t.judged \in Nat
BY TablesAre, FieldsAre DEF Holds, TableHolds

\* An entry of a table that neither tells what was advised nor how it went.
LEMMA OtherBooks ==
    ASSUME MergeInv, BooksInv, NEW d, NEW n, n.table \notin {"advice", "outcome", "trust"},
           d.ledger = db.ledger \cup {n}, d.rows.advice = db.rows.advice,
           d.rows.outcome = db.rows.outcome, d.rows.trust = db.rows.trust
    PROVE  BooksHold(d)
<1>1. BooksHold(db) /\ Holds(db)
  BY DEF BooksInv, MergeInv
<1>2. JudgedAdvice(d.rows) = JudgedAdvice(db.rows)
  BY DEF JudgedAdvice
<1>3. \A area : SetAside(d.ledger, area) \subseteq SetAside(db.ledger, area)
  BY LessSetAside
<1>4. \A t \in d.rows.trust : AccountBacked(d, t)
  BY <1>1, <1>2, <1>3, BackedStill, JudgedAreNumbers DEF BooksHold
<1>5. \A e \in d.ledger : e.table \in {"advice", "outcome", "trust"} => e \in db.ledger
  OBVIOUS
<1>6. \A e \in d.ledger : e.table = "advice" => SameContent(d, e)
  BY <1>1, <1>5 DEF BooksHold, SameContent
<1>7. \A e, f \in d.ledger :
          OneAdvice(e, f) /\ e.action # "deduplicated" /\ f.action # "deduplicated" => e = f
  BY <1>1, <1>5 DEF BooksHold, OneAdvice
<1>8. \A e, o \in d.ledger :
          e.table = "advice" /\ o.table = "outcome" /\ e.user = o.user /\ e.key = o.key => IsJudged(d, e.to)
  BY <1>1, <1>5 DEF BooksHold, IsJudged
<1>9. IsFiniteSet(d.rows.outcome)
  BY <1>1 DEF BooksHold
<1> QED BY <1>4, <1>6, <1>7, <1>8, <1>9 DEF BooksHold

\* What is dealt with in such a table.
LEMMA OtherDealt ==
    ASSUME MergeInv, BooksInv, NEW t, t \in TableNames \ {"advice", "outcome", "trust"}, NEW row, NEW d, NEW to,
           NEW action, Deals(t, row, d, to, action, run.overlap),
           \A x \in {"advice", "outcome", "trust"} : d.rows[x] = db.rows[x]
    PROVE  BooksInv'
<1>1. Table = t /\ DOMAIN d = {"rows", "reminders", "ledger"} /\ d.ledger = db.ledger
  BY FreshRow DEF Deals
<1>2. PICK n : n = Entry(row, to, action)
  OBVIOUS
<1>3. PICK new : new = Recorded(d, row, to, action)
  OBVIOUS
<1>4. n.table = t /\ new.ledger = db.ledger \cup {n} /\ new.rows = d.rows
  BY <1>1, <1>2, <1>3, EntryIs
<1>5. BooksHold(new)
  BY <1>4, OtherBooks
<1> QED BY <1>3, <1>5, DealtBooks

\* A row that is handled is dealt with.
LEMMA HandledDeals ==
    ASSUME MergeInv, NEW t, NEW row \in Fresh(t), NEW d, DOMAIN d = {"rows", "reminders", "ledger"},
           d.ledger = db.ledger, NEW to, NEW action, Handled(d, row, to, action)
    PROVE  Deals(t, row, d, to, action, run.overlap)
<1>1. DOMAIN run = {"users", "apply", "table", "user", "todo", "map", "overlap"}
  BY FreshRow DEF RunHolds
<1>2. [run EXCEPT !.todo = @ \ {row}, !.map = @ \cup Link(row, to)]
        = [run EXCEPT !.todo = @ \ {row}, !.map = @ \cup Link(row, to), !.overlap = run.overlap]
  BY <1>1
<1> QED BY <1>2 DEF Deals, Handled

\* A row whose table neither tells what was advised nor how it went.
LEMMA HandledElsewhere ==
    ASSUME MergeInv, BooksInv, NEW t, t \in TableNames \ {"advice", "outcome", "trust"}, NEW row \in Fresh(t),
           NEW d, NEW to, NEW action, Handled(d, row, to, action),
           \/ d = db
           \/ \E n : d = Inserted(n)
           \/ \E o, n : d = Replaced(o, n)
           \/ \E id : d = Resolved(db, id)
           \/ \E n, id : d = Resolved(Inserted(n), id)
    PROVE  BooksInv'
<1>1. Table = t /\ Holds(db)
  BY FreshRow
<1>2. DOMAIN db = {"rows", "reminders", "ledger"} /\ DOMAIN db.rows = TableNames
  BY <1>1 DEF Holds
<1>3. \A x, id : /\ Resolved(x, id).rows = x.rows /\ Resolved(x, id).ledger = x.ledger
                 /\ DOMAIN Resolved(x, id) = DOMAIN x
  <2> SUFFICES ASSUME NEW x, NEW id
               PROVE  /\ Resolved(x, id).rows = x.rows /\ Resolved(x, id).ledger = x.ledger
                      /\ DOMAIN Resolved(x, id) = DOMAIN x
    OBVIOUS
  <2> QED BY DEF Resolved
<1> DEFINE Elsewhere(x) ==
              /\ DOMAIN x = {"rows", "reminders", "ledger"} /\ x.ledger = db.ledger
              /\ x.rows = db.rows \/ \E S : x.rows = [db.rows EXCEPT ![t] = S]
<1>4. Elsewhere(d)
  <2>1. Elsewhere(db)
    BY <1>2
  <2>2. ASSUME NEW n PROVE Elsewhere(Inserted(n))
    <3>1. PICK i : i = Inserted(n)
      OBVIOUS
    <3>2. /\ DOMAIN i = {"rows", "reminders", "ledger"} /\ i.ledger = db.ledger
          /\ i.rows = [db.rows EXCEPT ![t] = @ \cup {n}]
      BY <1>1, <3>1, InsertedIs
    <3> QED BY <3>1, <3>2
  <2>3. ASSUME NEW o, NEW n PROVE Elsewhere(Replaced(o, n))
    <3>1. PICK i : i = Replaced(o, n)
      OBVIOUS
    <3>2. /\ DOMAIN i = {"rows", "reminders", "ledger"} /\ i.ledger = db.ledger
          /\ i.rows = [db.rows EXCEPT ![t] = (@ \ {o}) \cup {n}]
      BY <1>1, <3>1, ReplacedIs
    <3> QED BY <3>1, <3>2
  <2>4. ASSUME NEW x, NEW id, Elsewhere(x) PROVE Elsewhere(Resolved(x, id))
    <3>1. PICK i : i = Resolved(x, id)
      OBVIOUS
    <3>2. i.rows = x.rows /\ i.ledger = x.ledger /\ DOMAIN i = DOMAIN x
      BY <1>3, <3>1
    <3> QED BY <2>4, <3>1, <3>2
  <2> HIDE DEF Elsewhere
  <2> QED BY <2>1, <2>2, <2>3, <2>4
<1>5. \A x \in {"advice", "outcome", "trust"} : d.rows[x] = db.rows[x]
  <2>1. \A x \in {"advice", "outcome", "trust"} : x \in TableNames /\ x # t
    BY TablesAre
  <2> QED BY <1>2, <1>4, <2>1
<1> QED BY <1>4, <1>5, HandledDeals, OtherDealt

LEMMA PlainTables == \A t \in {"goal", "event", "feedback", "relevance", "charter", "preference", "mute"} :
                        t \in TableNames \ {"advice", "outcome", "trust"}
BY TablesAre

LEMMA GoalBooks == ASSUME MergeInv, BooksInv, MergeGoal PROVE BooksInv'
<1>1. PICK row \in Fresh("goal") : \E d, to, action :
        /\ d = db \/ (\E n : d = Inserted(n)) \/ (\E o, n : d = Replaced(o, n))
        /\ Handled(d, row, to, action)
  BY DEF MergeGoal
<1> QED BY <1>1, PlainTables, HandledElsewhere

LEMMA EventBooks == ASSUME MergeInv, BooksInv, MergeEvent PROVE BooksInv'
<1>1. PICK row \in Fresh("event") : \E d, to, action :
        /\ d = db \/ \E n : d = Inserted(n)
        /\ Handled(d, row, to, action)
  BY DEF MergeEvent
<1> QED BY <1>1, PlainTables, HandledElsewhere

LEMMA FeedbackBooks == ASSUME MergeInv, BooksInv, MergeFeedback PROVE BooksInv'
<1>1. PICK row \in Fresh("feedback") : \E d, to, action :
        /\ d = db \/ (\E id : d = Resolved(db, id)) \/ (\E n, id : d = Resolved(Inserted(n), id))
        /\ Handled(d, row, to, action)
  BY DEF MergeFeedback
<1> QED BY <1>1, PlainTables, HandledElsewhere

LEMMA RelevanceBooks == ASSUME MergeInv, BooksInv, MergeRelevance PROVE BooksInv'
<1>1. PICK row \in Fresh("relevance") : \E d, to, action :
        /\ d = db \/ (\E n : d = Inserted(n)) \/ (\E o, n : d = Replaced(o, n))
        /\ Handled(d, row, to, action)
  BY DEF MergeRelevance
<1> QED BY <1>1, PlainTables, HandledElsewhere

LEMMA CharterBooks == ASSUME MergeInv, BooksInv, MergeCharter PROVE BooksInv'
<1>1. PICK row \in Fresh("charter") : \E m : Handled(Upsert(row, m), row, row.id, "merged")
  BY DEF MergeCharter
<1>2. PICK m : Handled(Upsert(row, m), row, row.id, "merged")
  BY <1>1
<1>3. (\E n : Upsert(row, m) = Inserted(n)) \/ (\E o, n : Upsert(row, m) = Replaced(o, n))
  BY UpsertIs
<1> QED BY <1>2, <1>3, PlainTables, HandledElsewhere

LEMMA PreferenceBooks == ASSUME MergeInv, BooksInv, MergePreference PROVE BooksInv'
<1>1. PICK row \in Fresh("preference") : \E d, to, action :
        /\ d = db \/ (\E n : d = Inserted(n)) \/ (\E o, n : d = Replaced(o, n))
        /\ Handled(d, row, to, action)
  BY DEF MergePreference
<1> QED BY <1>1, PlainTables, HandledElsewhere

LEMMA MuteBooks == ASSUME MergeInv, BooksInv, MergeMute PROVE BooksInv'
<1>1. PICK row \in Fresh("mute") : \E n, m : Handled(Upsert(n, m), row, row.id, "merged")
  BY DEF MergeMute
<1>2. PICK n, m : Handled(Upsert(n, m), row, row.id, "merged")
  BY <1>1
<1>3. (\E k : Upsert(n, m) = Inserted(k)) \/ (\E o, k : Upsert(n, m) = Replaced(o, k))
  BY UpsertIs
<1> QED BY <1>2, <1>3, PlainTables, HandledElsewhere

\* An outcome goes to the advice that the run knows, where there is one or gets one.
LEMMA OutcomeDealt ==
    ASSUME MergeInv, BooksInv, NEW row \in Fresh("outcome"), NEW p, p = Mapped("advice", row.id),
           NEW d, NEW to, NEW action, Handled(d, row, to, action),
           d = db \/ \E m : d = Inserted(m),
           HasAdvice(p) => IsJudged(d, p)
    PROVE  BooksInv'
<1>1. /\ Table = "outcome" /\ Holds(db) /\ Running /\ SourceHolds /\ RunHolds(db.ledger, run)
      /\ row \in run.todo /\ BooksHold(db)
  BY FreshRow DEF BooksInv
<1>2. /\ DOMAIN db = {"rows", "reminders", "ledger"} /\ DOMAIN db.rows = TableNames
      /\ Books(db.ledger) /\ ImportsHold(db)
  BY <1>1 DEF Holds
<1>3. /\ DOMAIN d = {"rows", "reminders", "ledger"} /\ d.ledger = db.ledger
      /\ d.rows.advice = db.rows.advice /\ d.rows.trust = db.rows.trust
      /\ d.rows.outcome = db.rows.outcome \/ \E m : d.rows.outcome = db.rows.outcome \cup {m}
  <2>1. CASE d = db
    BY <1>2, <2>1
  <2>2. ASSUME NEW m, d = Inserted(m)
        PROVE  /\ DOMAIN d = {"rows", "reminders", "ledger"} /\ d.ledger = db.ledger
               /\ d.rows.advice = db.rows.advice /\ d.rows.trust = db.rows.trust
               /\ d.rows.outcome = db.rows.outcome \cup {m}
    <3>1. /\ d.rows = [db.rows EXCEPT !["outcome"] = @ \cup {m}]
          /\ DOMAIN d = {"rows", "reminders", "ledger"} /\ d.ledger = db.ledger
      BY <1>1, <2>2, InsertedIs
    <3> QED BY <1>2, <3>1, TablesAre
  <2> QED BY <2>1, <2>2
<1>4. PICK n : n = Entry(row, to, action)
  OBVIOUS
<1>5. PICK new : new = Recorded(d, row, to, action)
  OBVIOUS
<1>6. /\ n.user = Current /\ n.table = "outcome" /\ n.key = row.id
      /\ new.ledger = db.ledger \cup {n} /\ new.rows = d.rows
  BY <1>1, <1>3, <1>4, <1>5, EntryIs
<1>7. db.rows.outcome \subseteq new.rows.outcome /\ IsFiniteSet(new.rows.outcome)
  <2>1. IsFiniteSet(db.rows.outcome)
    BY <1>1 DEF BooksHold
  <2> QED BY <1>3, <1>6, <2>1, FS_AddElement
<1>8. \A e \in new.ledger : e.table = "advice" => e \in db.ledger
  BY <1>6
<1>9. \A e \in new.ledger : e.table = "advice" => SameContent(new, e)
  BY <1>1, <1>3, <1>6, <1>8 DEF BooksHold, SameContent
<1>10. \A e, f \in new.ledger :
          OneAdvice(e, f) /\ e.action # "deduplicated" /\ f.action # "deduplicated" => e = f
  BY <1>1, <1>8 DEF BooksHold, OneAdvice
<1>11. ASSUME NEW e \in new.ledger, NEW o \in new.ledger,
              e.table = "advice", o.table = "outcome", e.user = o.user, e.key = o.key
       PROVE  IsJudged(new, e.to)
  <2>1. CASE o \in db.ledger
    <3>1. IsJudged(db, e.to)
      BY <1>1, <1>8, <1>11, <2>1 DEF BooksHold
    <3> QED BY <1>7, <3>1 DEF IsJudged
  <2>2. CASE o = n
    <3>1. Led(db.ledger, "advice", Current, row.id, p)
      BY <1>1, <1>2, BeforeAre, MappedIsLed
    <3>2. e.to = p
      BY <1>6, <1>8, <1>11, <2>2, <3>1 DEF Led
    <3>3. e.to # None
      BY <1>2, <1>8, <1>11 DEF Books, Referenced
    <3>4. HasAdvice(p)
      BY <1>2, <1>8, <1>11, <3>2, <3>3 DEF ImportsHold, HasAdvice
    <3> QED BY <1>6, <3>2, <3>4 DEF IsJudged
  <2> QED BY <1>6, <2>1, <2>2
<1>12. ASSUME NEW t \in new.rows.trust PROVE AccountBacked(new, t)
  <2>1. t \in db.rows.trust /\ t.judged \in Nat /\ AccountBacked(db, t)
    BY <1>1, <1>3, <1>6, JudgedAreNumbers DEF BooksHold
  <2>2. JudgedAdvice(db.rows) \subseteq JudgedAdvice(new.rows)
    BY <1>3, <1>6, <1>7 DEF JudgedAdvice
  <2>3. SetAside(new.ledger, t.id) \subseteq SetAside(db.ledger, t.id)
    BY <1>6, LessSetAside
  <2> QED BY <1>7, <2>1, <2>2, <2>3, BackedStill
<1>13. BooksHold(new)
  BY <1>7, <1>9, <1>10, <1>11, <1>12 DEF BooksHold
<1>14. Deals("outcome", row, d, to, action, run.overlap)
  BY <1>3, HandledDeals
<1> QED BY <1>5, <1>13, <1>14, DealtBooks

LEMMA OutcomeBooks == ASSUME MergeInv, BooksInv, MergeOutcome PROVE BooksInv'
<1>1. PICK row \in Fresh("outcome") :
        LET parent == Mapped("advice", row.id)
            new == [row EXCEPT !.id = parent]
            old == {o \in db.rows.outcome : o.id = parent}
        IN  IF ~HasAdvice(parent)
            THEN Handled(db, row, None, "skipped_missing_parent")
            ELSE \/ old = {} /\ Handled(Inserted(new), row, parent, "inserted")
                 \/ \E o \in old :
                       Handled(MergedOutcome(o, new), row, parent,
                               IF o = new THEN "deduplicated" ELSE "conflict_preserved")
  BY DEF MergeOutcome
<1>2. PICK p : p = Mapped("advice", row.id)
  OBVIOUS
<1>3. PICK new : new = [row EXCEPT !.id = p]
  OBVIOUS
<1>4. CASE ~HasAdvice(p)
  <2>1. Handled(db, row, None, "skipped_missing_parent")
    BY <1>1, <1>2, <1>4
  <2> QED BY <1>2, <1>4, <2>1, OutcomeDealt
<1>5. CASE Handled(Inserted(new), row, p, "inserted")
  <2>1. Table = "outcome" /\ Holds(db) /\ DOMAIN row = {"id", "result"}
    <3>1. Table = "outcome" /\ Holds(db) /\ DOMAIN row = Fields["outcome"]
      BY FreshRow
    <3> QED BY <3>1, FieldsAre
  <2>2. DOMAIN db.rows = TableNames /\ "outcome" \in TableNames
    BY <2>1, TablesAre DEF Holds
  <2>3. Inserted(new).rows = [db.rows EXCEPT !["outcome"] = @ \cup {new}]
    BY <2>1, InsertedIs
  <2>4. new \in Inserted(new).rows.outcome /\ new.id = p
    BY <1>3, <2>1, <2>2, <2>3
  <2>5. IsJudged(Inserted(new), p)
    BY <2>4 DEF IsJudged
  <2> QED BY <1>2, <1>5, <2>5, OutcomeDealt
<1>6. ASSUME NEW o \in db.rows.outcome, o.id = p, NEW action, Handled(db, row, p, action)
      PROVE  BooksInv'
  <2>1. IsJudged(db, p)
    BY <1>6 DEF IsJudged
  <2> QED BY <1>2, <1>6, <2>1, OutcomeDealt
<1> QED BY <1>1, <1>2, <1>3, <1>4, <1>5, <1>6 DEF MergedOutcome

\* Advice that is dealt with: what it becomes has its content, and is its own if it is new.
LEMMA AdviceDealt ==
    ASSUME MergeInv, BooksInv, NEW row, NEW d, NEW to, NEW action, NEW overlap,
           Deals("advice", row, d, to, action, overlap),
           d.rows.outcome = db.rows.outcome, d.rows.trust = db.rows.trust, db.rows.advice \subseteq d.rows.advice,
           \A a \in d.rows.advice :
              /\ a.id = to => a.text = row.text /\ a.topic = row.topic /\ a.ref = row.ref
              /\ a \notin db.rows.advice => a.id = to,
           IF action = "deduplicated" THEN d.rows.advice = db.rows.advice /\ Current \in overlap
           ELSE \A a \in db.rows.advice : a.id # to
    PROVE  BooksInv'
<1>1. /\ Table = "advice" /\ Holds(db) /\ row \in source[Current].advice /\ Entries(row) = {} /\ BooksHold(db)
      /\ d.ledger = db.ledger /\ DOMAIN d = {"rows", "reminders", "ledger"}
  BY FreshRow DEF BooksInv, Deals
<1>2. Books(db.ledger) /\ ImportsHold(db)
  BY <1>1 DEF Holds
<1>3. PICK n : n = Entry(row, to, action)
  OBVIOUS
<1>4. PICK new : new = Recorded(d, row, to, action)
  OBVIOUS
<1>5. /\ n.user = Current /\ n.table = "advice" /\ n.key = row.id /\ n.row = row /\ n.to = to /\ n.action = action
      /\ new.ledger = db.ledger \cup {n} /\ new.rows = d.rows
  BY <1>1, <1>3, <1>4, EntryIs
<1>6. ASSUME NEW e \in db.ledger, e.table = "advice"
      PROVE  (\E a \in db.rows.advice : a.id = e.to) /\ (action # "deduplicated" => e.to # to)
  <2>1. e.to # None
    BY <1>2, <1>6 DEF Books, Referenced
  <2> QED BY <1>2, <1>6, <2>1 DEF ImportsHold
<1>7. ASSUME NEW e \in new.ledger, e.table = "advice" PROVE SameContent(new, e)
  <2>1. CASE e \in db.ledger
    <3>1. SameContent(db, e)
      BY <1>1, <1>7, <2>1 DEF BooksHold
    <3>2. ASSUME NEW a \in new.rows.advice, a.id = e.to PROVE a \in db.rows.advice
      <4>1. CASE action = "deduplicated"
        BY <1>5, <3>2, <4>1
      <4>2. CASE action # "deduplicated"
        BY <1>5, <1>6, <1>7, <2>1, <3>2, <4>2
      <4> QED BY <4>1, <4>2
    <3> QED BY <3>1, <3>2 DEF SameContent
  <2>2. CASE e = n
    BY <1>1, <1>5, <2>2 DEF SameContent
  <2> QED BY <1>5, <2>1, <2>2
<1>8. ASSUME NEW e \in new.ledger, NEW f \in new.ledger, OneAdvice(e, f),
             e.action # "deduplicated", f.action # "deduplicated"
      PROVE  e = f
  <2>1. CASE e \in db.ledger /\ f \in db.ledger
    BY <1>1, <1>8, <2>1 DEF BooksHold
  <2>2. CASE e = n /\ f \in db.ledger
    BY <1>5, <1>6, <1>8, <2>2 DEF OneAdvice
  <2>3. CASE f = n /\ e \in db.ledger
    BY <1>5, <1>6, <1>8, <2>3 DEF OneAdvice
  <2> QED BY <1>5, <2>1, <2>2, <2>3
<1>9. ASSUME NEW e \in new.ledger, NEW o \in new.ledger,
             e.table = "advice", o.table = "outcome", e.user = o.user, e.key = o.key
      PROVE  IsJudged(new, e.to)
  <2>1. o \in db.ledger
    BY <1>5, <1>9
  <2>2. CASE e \in db.ledger
    BY <1>1, <1>5, <1>9, <2>1, <2>2 DEF BooksHold, IsJudged
  <2>3. CASE e = n
    <3>1. "advice" \in Before(o.table)
      BY <1>9, BeforeAre
    <3>2. o.user = Current /\ row \in source[o.user]["advice"]
      BY <1>1, <1>5, <1>9, <2>3
    <3>3. \E f \in db.ledger : f.user = o.user /\ f.table = "advice" /\ f.key = row.id
      BY <1>2, <2>1, <3>1, <3>2 DEF Books
    <3> QED BY <1>1, <3>2, <3>3 DEF Entries
  <2> QED BY <1>5, <2>2, <2>3
<1>10. ASSUME NEW t \in new.rows.trust PROVE AccountBacked(new, t)
  <2>1. t \in db.rows.trust /\ t.judged \in Nat /\ AccountBacked(db, t)
    BY <1>1, <1>5, JudgedAreNumbers DEF BooksHold
  <2>2. JudgedAdvice(db.rows) \subseteq JudgedAdvice(new.rows) /\ IsFiniteSet(new.rows.outcome)
    BY <1>1, <1>5 DEF JudgedAdvice, BooksHold
  <2>3. SetAside(new.ledger, t.id) \subseteq
           SetAside(db.ledger, t.id) \cup IF action # "deduplicated" THEN {to} ELSE {}
    BY <1>5, LessSetAside
  <2>4. action # "deduplicated" => to \notin JudgedAdvice(db.rows)
    BY DEF JudgedAdvice
  <2> QED BY <2>1, <2>2, <2>3, <2>4, BackedStill
<1>11. BooksHold(new)
  <2>1. IsFiniteSet(new.rows.outcome)
    BY <1>1, <1>5 DEF BooksHold
  <2> QED BY <1>7, <1>8, <1>9, <1>10, <2>1 DEF BooksHold
<1> QED BY <1>4, <1>6, <1>11, DealtBooks

LEMMA AdviceBooks == ASSUME MergeInv, BooksInv, MergeAdvice PROVE BooksInv'
<1> DEFINE moved(row) == [row EXCEPT !.goal = Mapped("goal", @), !.event = Mapped("event", @)]
           content(a) == <<a.goal, a.event, a.text, a.topic, a.ref>>
           gone(row) == row.status = "provisional" \/ Collides(row)
           new(row) == [moved(row) EXCEPT !.id = FreeId(row), !.status = IF gone(row) THEN "withdrawn" ELSE @]
<1>1. PICK row \in Fresh("advice") :
        \/ Handled(NoReplay(Inserted(new(row)), FreeId(row)), row, FreeId(row),
                   IF FreeId(row) # row.id \/ Collides(row) THEN "conflict_preserved" ELSE "inserted")
        \/ \E a \in {a \in db.rows.advice : content(a) = content(moved(row))} :
              /\ db' = Recorded(IF row.status \in {"active", "provisional"} THEN db
                                ELSE Resolved(db, a.id), row, a.id, "deduplicated")
              /\ run' = Onward([run EXCEPT !.todo = @ \ {row}, !.map = @ \cup Link(row, a.id),
                                           !.overlap = @ \cup {Current}])
              /\ UNCHANGED <<source, saved>>
  BY DEF MergeAdvice
<1>2. /\ Table = "advice" /\ row \in run.todo /\ Entries(row) = {} /\ Running /\ Table \in TableNames
      /\ SourceHolds /\ Holds(db) /\ RunHolds(db.ledger, run)
      /\ DOMAIN row = {"id", "goal", "event", "text", "topic", "ref", "status"}
  <2>1. /\ Table = "advice" /\ row \in run.todo /\ Entries(row) = {} /\ Running /\ Table \in TableNames
        /\ SourceHolds /\ Holds(db) /\ RunHolds(db.ledger, run)
        /\ DOMAIN row = Fields["advice"]
    BY FreshRow
  <2> QED BY <2>1, FieldsAre
<1>3. DOMAIN db = {"rows", "reminders", "ledger"} /\ DOMAIN db.rows = TableNames
  BY <1>2 DEF Holds
<1>4. \A r \in db.rows.advice : r.id # FreeId(row)
  BY <1>2, FreeIdIsFree DEF Renaming
<1>5. ASSUME NEW action, action # "deduplicated",
             Handled(NoReplay(Inserted(new(row)), FreeId(row)), row, FreeId(row), action)
      PROVE  BooksInv'
  <2>1. PICK n : n = new(row)
    OBVIOUS
  <2>2. n.id = FreeId(row) /\ n.text = row.text /\ n.topic = row.topic /\ n.ref = row.ref
    BY <1>2, <2>1
  <2>3. PICK i : i = Inserted(n)
    OBVIOUS
  <2>4. /\ DOMAIN i = {"rows", "reminders", "ledger"} /\ i.rows = [db.rows EXCEPT !["advice"] = @ \cup {n}]
        /\ i.ledger = db.ledger
    BY <1>2, <2>3, InsertedIs
  <2>5. PICK d : d = NoReplay(i, FreeId(row))
    OBVIOUS
  <2>6. DOMAIN d = {"rows", "reminders", "ledger"} /\ d.rows = i.rows /\ d.ledger = db.ledger
    BY <2>4, <2>5 DEF NoReplay
  <2>7. /\ d.rows.advice = db.rows.advice \cup {n} /\ d.rows.outcome = db.rows.outcome
        /\ d.rows.trust = db.rows.trust
    BY <1>3, <2>4, <2>6, TablesAre
  <2>8. Handled(d, row, FreeId(row), action)
    BY <1>5, <2>1, <2>3, <2>5
  <2>9. Deals("advice", row, d, FreeId(row), action, run.overlap)
    <3> HIDE DEF new, moved
    <3> QED BY <2>6, <2>8, HandledDeals
  <2> HIDE DEF new, moved
  <2> QED BY <1>4, <1>5, <2>2, <2>7, <2>9, AdviceDealt
<1>6. ASSUME NEW a \in db.rows.advice, content(a) = content(moved(row)),
             db' = Recorded(IF row.status \in {"active", "provisional"} THEN db ELSE Resolved(db, a.id),
                            row, a.id, "deduplicated"),
             run' = Onward([run EXCEPT !.todo = @ \ {row}, !.map = @ \cup Link(row, a.id),
                                       !.overlap = @ \cup {Current}]),
             UNCHANGED <<source, saved>>
      PROVE  BooksInv'
  <2>1. a.text = row.text /\ a.topic = row.topic /\ a.ref = row.ref
    <3>1. PICK m : m = moved(row)
      OBVIOUS
    <3>2. m.text = row.text /\ m.topic = row.topic /\ m.ref = row.ref
      BY <1>2, <3>1
    <3>3. content(a) = content(m)
      BY <1>6, <3>1
    <3> QED BY <3>2, <3>3
  <2>2. PICK d : d = IF row.status \in {"active", "provisional"} THEN db ELSE Resolved(db, a.id)
    OBVIOUS
  <2>3. DOMAIN d = {"rows", "reminders", "ledger"} /\ d.rows = db.rows /\ d.ledger = db.ledger
    BY <1>3, <2>2 DEF Resolved
  <2>4. PICK o : o = run.overlap \cup {Current}
    OBVIOUS
  <2>5. db' = Recorded(d, row, a.id, "deduplicated")
    BY <1>6, <2>2
  <2>6. run' = Onward([run EXCEPT !.todo = @ \ {row}, !.map = @ \cup Link(row, a.id), !.overlap = o])
    BY <1>6, <2>4
  <2>7. Deals("advice", row, d, a.id, "deduplicated", o)
    BY <1>1, <1>6, <2>3, <2>4, <2>5, <2>6 DEF Deals
  <2>8. \A b \in db.rows.advice : b.id = a.id => b = a
    BY <1>2, TablesAre DEF Holds, TableHolds
  <2> HIDE DEF moved, content, new
  <2> QED BY <2>1, <2>3, <2>4, <2>7, <2>8, AdviceDealt
<1> HIDE DEF new, moved, content
<1> QED BY <1>1, <1>5, <1>6

-----------------------------------------------------------------------------
(* Trust accounts.                                                           *)

\* What the judged advice of a user became.
Images(u) ==
    {e.to : e \in {x \in db.ledger : x.table = "advice" /\ x.user = u /\ x.key \in JudgedAdvice(source[u])}}

\* A trust account comes when all advice and outcomes of its user have come.
LEMMA AccountAtHand ==
    ASSUME MergeInv, BooksInv, NEW row \in Fresh("trust")
    PROVE  /\ Current \in User /\ row \in source[Current].trust
           /\ \A t \in {"advice", "outcome"} : \A s \in source[Current][t] :
                 \E e \in db.ledger : e.user = Current /\ e.table = t /\ e.key = s.id
           /\ \A j \in 1..Len(run.users) : j < run.user => \A s \in source[run.users[j]].trust :
                 \E e \in db.ledger : e.user = run.users[j] /\ e.table = "trust" /\ e.key = s.id
           /\ run.user \in 1..Len(run.users) /\ Current = run.users[run.user]
<1>1. /\ Table = "trust" /\ row \in run.todo /\ SourceHolds /\ RunHolds(db.ledger, run)
      /\ row \in source[Current][Table]
  BY FreshRow
<1>2. Current \in User /\ \A t \in Before("trust") : \A s \in source[Current][t] :
         \E e \in db.ledger : e.user = Current /\ e.table = t /\ e.key = s.id
  BY <1>1, RowAtHand
<1>3. "advice" \in Before("trust")
  BY DEF Before, Referenced
<1>4. /\ run.table \in 1..10 /\ run.user \in 1..Len(run.users) /\ Len(run.users) \in Nat
      /\ Tables[run.table] = "trust" /\ Current = run.users[run.user]
  BY <1>1 DEF RunHolds, Table, Current
<1>5. run.table = 8
  <2>1. run.table \in {1, 2, 3, 4, 5, 6, 7, 8, 9, 10}
    BY <1>4
  <2> QED BY <1>4, <2>1, TablesAre
<1>6. ASSUME NEW k \in 1..10, NEW j \in 1..Len(run.users), k < 8 \/ (k = 8 /\ j < run.user),
             NEW s \in source[run.users[j]][Tables[k]]
      PROVE  \E e \in db.ledger : e.user = run.users[j] /\ e.table = Tables[k] /\ e.key = s.id
  <2>1. PICK p : p = <<k, j>>
    OBVIOUS
  <2>2. p \in PlacesOf(run) /\ p[1] = k /\ p[2] = j
    BY <2>1 DEF PlacesOf
  <2>3. Passed(p, run)
    BY <1>5, <1>6, <2>2 DEF Passed
  <2>4. s \in RowsAt(run, p)
    BY <1>6, <2>2 DEF RowsAt
  <2>5. Dealt(db.ledger, run, p, s)
    BY <1>1, <2>2, <2>3, <2>4 DEF RunHolds
  <2> QED BY <2>2, <2>5 DEF Dealt
<1>7. \A s \in source[Current].outcome : \E e \in db.ledger : e.user = Current /\ e.table = "outcome" /\ e.key = s.id
  <2>1. 6 \in 1..10 /\ 6 < 8 /\ Tables[6] = "outcome"
    BY TablesAre
  <2>2. \A s \in source[run.users[run.user]][Tables[6]] :
           \E e \in db.ledger : e.user = run.users[run.user] /\ e.table = Tables[6] /\ e.key = s.id
    BY <1>4, <1>6, <2>1
  <2> QED BY <1>4, <2>1, <2>2
<1>8. \A j \in 1..Len(run.users) : j < run.user => \A s \in source[run.users[j]].trust :
                 \E e \in db.ledger : e.user = run.users[j] /\ e.table = "trust" /\ e.key = s.id
  <2>1. 8 \in 1..10 /\ Tables[8] = "trust"
    BY TablesAre
  <2> QED BY <1>6, <2>1
<1> QED BY <1>1, <1>2, <1>3, <1>4, <1>7, <1>8

\* The entry of a row, and the row.
LEMMA EntryOfAdvice ==
    ASSUME MergeInv, BooksInv, NEW e \in db.ledger, e.table = "advice"
    PROVE  /\ \E a \in db.rows.advice : a.id = e.to
           /\ e.row \in source[e.user].advice /\ e.key = e.row.id
           /\ \A a \in db.rows.advice :
                 a.id = e.to => a.text = e.row.text /\ a.topic = e.row.topic /\ a.ref = e.row.ref
<1>1. Books(db.ledger) /\ ImportsHold(db) /\ SameContent(db, e)
  BY DEF MergeInv, Holds, BooksInv, BooksHold
<1>2. e.to # None /\ e.key = e.row.id
  BY <1>1 DEF Books, Referenced
<1>3. \E a \in db.rows.advice : a.id = e.to
  BY <1>1, <1>2 DEF ImportsHold
<1> QED BY <1>1, <1>2, <1>3 DEF SameContent

\* The judged advice of a user became judged advice.
LEMMA ImagesAreJudged ==
    ASSUME MergeInv, BooksInv, NEW row \in Fresh("trust")
    PROVE  Images(Current) \subseteq JudgedAdvice(db.rows)
<1> SUFFICES ASSUME NEW e \in db.ledger, e.table = "advice", e.user = Current,
                    e.key \in JudgedAdvice(source[Current])
             PROVE  e.to \in JudgedAdvice(db.rows)
  BY DEF Images
<1>1. PICK s \in source[Current].outcome : s.id = e.key
  BY DEF JudgedAdvice
<1>2. PICK o \in db.ledger : o.user = Current /\ o.table = "outcome" /\ o.key = s.id
  BY AccountAtHand
<1>3. IsJudged(db, e.to)
  BY <1>1, <1>2 DEF BooksInv, BooksHold
<1>4. \E a \in db.rows.advice : a.id = e.to
  BY EntryOfAdvice
<1> QED BY <1>3, <1>4 DEF JudgedAdvice, IsJudged

\* And no two of them the same.
LEMMA ImagesBack ==
    ASSUME MergeInv, BooksInv, NEW row \in Fresh("trust")
    PROVE  IsFiniteSet(Images(Current)) /\ row.judged \in Nat /\ row.judged <= Cardinality(Images(Current))
<1>1. row.judged \in Nat
  <2>1. \A f \in Counts["trust"] : row[f] \in Nat
    BY FreshRow
  <2> QED BY <2>1, FieldsAre
<1>2. /\ Current \in User /\ row \in source[Current].trust
      /\ \A s \in source[Current].advice :
            \E e \in db.ledger : e.user = Current /\ e.table = "advice" /\ e.key = s.id
  BY AccountAtHand
<1>3. PICK S : S = JudgedAdvice(source[Current])
  OBVIOUS
<1>4. row.judged <= Cardinality(S) /\ IsFiniteSet(S)
  <2>1. Backed(source[Current])
    BY <1>2 DEF BooksInv, SourcesBacked
  <2> QED BY <1>2, <1>3, <2>1, JudgedIsFinite DEF Backed
<1>5. IsFiniteSet(Images(Current))
  <2>1. BooksHold(db)
    BY DEF BooksInv
  <2>2. IsFiniteSet(JudgedAdvice(db.rows))
    BY <2>1, JudgedIsFinite DEF BooksHold
  <2>3. Images(Current) \in SUBSET JudgedAdvice(db.rows)
    BY ImagesAreJudged
  <2> QED BY <2>2, <2>3, FS_Subset
<1> DEFINE Of(k, e) == e \in db.ledger /\ e.user = Current /\ e.table = "advice" /\ e.key = k
           f == [k \in S |-> (CHOOSE e \in db.ledger : Of(k, e)).to]
<1>6. ASSUME NEW k \in S PROVE \E e \in db.ledger : Of(k, e) /\ f[k] = e.to
  <2>1. \E a \in source[Current].advice : a.id = k
    BY <1>3 DEF JudgedAdvice
  <2>2. \E e \in db.ledger : Of(k, e)
    BY <1>2, <2>1
  <2>3. PICK e : e = CHOOSE x \in db.ledger : Of(k, x)
    OBVIOUS
  <2>4. e \in db.ledger /\ Of(k, e)
    BY <2>2, <2>3
  <2>5. f[k] = e.to
    BY <2>3
  <2> QED BY <2>4, <2>5
<1>7. f \in [S -> Images(Current)]
  <2>1. \A k \in S : f[k] \in Images(Current)
    BY <1>3, <1>6 DEF Images
  <2> QED BY <2>1
<1>8. ASSUME NEW k \in S, NEW l \in S, f[k] = f[l] PROVE k = l
  <2>1. PICK e \in db.ledger : Of(k, e) /\ f[k] = e.to
    BY <1>6
  <2>2. PICK g \in db.ledger : Of(l, g) /\ f[l] = g.to
    BY <1>6
  <2> HIDE DEF f
  <2>3. PICK a \in db.rows.advice : a.id = e.to
    BY <2>1, EntryOfAdvice
  <2>4. /\ e.row \in source[Current].advice /\ e.row.id = k
        /\ a.text = e.row.text /\ a.topic = e.row.topic /\ a.ref = e.row.ref
    BY <2>1, <2>3, EntryOfAdvice
  <2>5. /\ g.row \in source[Current].advice /\ g.row.id = l
        /\ a.text = g.row.text /\ a.topic = g.row.topic /\ a.ref = g.row.ref
    <3>1. a.id = g.to
      BY <1>8, <2>1, <2>2, <2>3
    <3> QED BY <2>2, <3>1, EntryOfAdvice
  <2>6. SaidOnce(source[Current])
    BY <1>2 DEF BooksInv, SourcesBacked
  <2>7. e.row = g.row
    BY <1>3, <2>4, <2>5, <2>6 DEF SaidOnce
  <2> QED BY <2>4, <2>5, <2>7
<1>9. f \in Injection(S, Images(Current))
  <2> HIDE DEF f
  <2> QED BY <1>7, <1>8 DEF Injection, IsInjective
<1>10. Cardinality(S) <= Cardinality(Images(Current))
  <2> HIDE DEF f
  <2> QED BY <1>5, <1>9, FS_Injection
<1>11. Cardinality(S) \in Nat /\ Cardinality(Images(Current)) \in Nat
  BY <1>4, <1>5, FS_CardinalityType
<1> QED BY <1>1, <1>4, <1>5, <1>10, <1>11

\* The judged advice of the user whose account comes is not set aside any more.
LEMMA ImagesAreFree ==
    ASSUME MergeInv, BooksInv, NEW row \in Fresh("trust"), NEW n,
           n.user = Current, n.table = "trust", n.key = row.id
    PROVE  Images(Current) \cap SetAside(db.ledger \cup {n}, row.id) = {}
<1> SUFFICES ASSUME NEW g \in db.ledger, g.table = "advice", g.user = Current,
                    NEW e \in db.ledger \cup {n}, Waits(db.ledger \cup {n}, e, row.id), e.to = g.to
             PROVE  FALSE
  BY DEF Images, SetAside
<1>1. /\ e \in db.ledger /\ e.table = "advice" /\ e.user # Current /\ e.action # "deduplicated"
      /\ Pending(db.ledger, e.user, row.id)
  BY DEF Waits, NothingShared, Pending
<1>2. /\ run.user \in 1..Len(run.users) /\ Current = run.users[run.user]
      /\ \A j \in 1..Len(run.users) : j < run.user => \A s \in source[run.users[j]].trust :
            \E f \in db.ledger : f.user = run.users[j] /\ f.table = "trust" /\ f.key = s.id
  BY AccountAtHand
<1>3. PICK s \in source[e.user].trust : s.id = row.id
  BY <1>1 DEF Pending
<1>4. ~\E f \in db.ledger : f.user = e.user /\ f.table = "trust" /\ f.key = s.id
  BY <1>1, <1>3 DEF Pending
<1>5. /\ Running /\ saved.ledger \subseteq db.ledger /\ Whole(saved.ledger)
      /\ RunBooks(db.ledger, saved.ledger, run)
  BY FreshRow DEF MergeInv, RunAgrees, Progress, BooksInv, Running
<1>6. e \in db.ledger \ saved.ledger
  BY <1>1, <1>3, <1>4, <1>5 DEF Whole
<1>7. PICK p \in PlacesOf(run) : e.user = run.users[p[2]]
  BY <1>5, <1>6 DEF RunBooks
<1>8. PICK j \in 1..Len(run.users) : e.user = run.users[j]
  BY <1>7 DEF PlacesOf
<1>9. run.user < j
  <2>1. run.user \in Int /\ j \in Int /\ j # run.user
    BY <1>1, <1>2, <1>8
  <2>2. ~(j < run.user)
    BY <1>2, <1>3, <1>4, <1>8
  <2> QED BY <2>1, <2>2
<1>10. OneAdvice(g, e)
  BY <1>1 DEF OneAdvice
<1> QED BY <1>1, <1>2, <1>5, <1>6, <1>8, <1>9, <1>10 DEF RunBooks

\* If nothing of the user's advice was there, all of it has been set aside till now.
LEMMA ImagesWereAside ==
    ASSUME MergeInv, BooksInv, NEW row \in Fresh("trust"), ~Conservative
    PROVE  Images(Current) \subseteq SetAside(db.ledger, row.id)
<1>1. /\ Running /\ saved.ledger \subseteq db.ledger /\ Whole(saved.ledger)
      /\ RunBooks(db.ledger, saved.ledger, run) /\ Table = "trust" /\ Entries(row) = {}
  BY FreshRow DEF MergeInv, RunAgrees, Progress, BooksInv, Running
<1>2. row \in source[Current].trust
  BY AccountAtHand
<1>3. ~\E f \in db.ledger : f.user = Current /\ f.table = "trust" /\ f.key = row.id
  BY <1>1 DEF Entries
<1>4. Pending(db.ledger, Current, row.id)
  BY <1>2, <1>3 DEF Pending
<1>5. ASSUME NEW e \in db.ledger, e.user = Current, e.table = "advice", e.action = "deduplicated" PROVE FALSE
  <2>1. e \in db.ledger \ saved.ledger
    BY <1>1, <1>2, <1>3, <1>5 DEF Whole
  <2>2. Current \in run.overlap
    BY <1>1, <1>5, <2>1 DEF RunBooks
  <2> QED BY <2>2 DEF Conservative
<1>6. NothingShared(db.ledger, Current)
  BY <1>5 DEF NothingShared
<1> QED BY <1>4, <1>6 DEF Images, SetAside, Waits

\* What two accounts claim of what has nothing in common.
LEMMA BothBacked ==
    ASSUME NEW S, NEW T, NEW V, IsFiniteSet(V), S \subseteq V, T \subseteq V, S \cap T = {},
           NEW m \in Nat, NEW n \in Nat, m <= Cardinality(S), n <= Cardinality(T)
    PROVE  m + n <= Cardinality(V)
<1>1. S \in SUBSET V /\ T \in SUBSET V /\ S \cup T \in SUBSET V
  OBVIOUS
<1>2. IsFiniteSet(S) /\ IsFiniteSet(T)
  BY <1>1, FS_Subset
<1>3. Cardinality(S \cup T) = Cardinality(S) + Cardinality(T) - Cardinality(S \cap T)
  BY <1>2, FS_Union
<1>4. Cardinality(S \cap T) = 0
  BY FS_EmptySet
<1>5. Cardinality(S \cup T) <= Cardinality(V) /\ IsFiniteSet(S \cup T)
  BY <1>1, FS_Subset
<1>6. /\ Cardinality(S) \in Nat /\ Cardinality(T) \in Nat /\ Cardinality(V) \in Nat
      /\ Cardinality(S \cup T) \in Nat
  BY <1>2, <1>5, FS_CardinalityType
<1> QED BY <1>3, <1>4, <1>5, <1>6

\* An account that comes is backed by its user's advice, added to another one or not.
LEMMA AccountIsBacked ==
    ASSUME MergeInv, BooksInv, NEW row \in Fresh("trust"), NEW n,
           n.user = Current, n.table = "trust", n.key = row.id,
           NEW d, d.ledger = db.ledger \cup {n}, JudgedAdvice(d.rows) = JudgedAdvice(db.rows), NEW t, t.id = row.id,
           \/ t.judged = row.judged
           \/ \E r \in db.rows.trust :
                 /\ r.id = row.id
                 /\ t.judged = IF Conservative THEN Later(r.judged, row.judged) ELSE r.judged + row.judged
    PROVE  AccountBacked(d, t)
<1>1. BooksHold(db) /\ Holds(db)
  BY DEF BooksInv, MergeInv
<1>2. PICK V : V = JudgedAdvice(d.rows) \ SetAside(d.ledger, t.id)
  OBVIOUS
<1>3. IsFiniteSet(V)
  <2>1. IsFiniteSet(JudgedAdvice(db.rows))
    BY <1>1, JudgedIsFinite DEF BooksHold
  <2> QED BY <1>2, <2>1, FS_Difference
<1>4. PICK T : T = Images(Current)
  OBVIOUS
<1>5. row.judged \in Nat /\ row.judged <= Cardinality(T)
  BY <1>4, ImagesBack
<1>6. T \subseteq V
  <2>1. T \subseteq JudgedAdvice(d.rows)
    BY <1>4, ImagesAreJudged
  <2>2. T \cap SetAside(d.ledger, t.id) = {}
    BY <1>4, ImagesAreFree
  <2> QED BY <1>2, <2>1, <2>2
<1>7. row.judged <= Cardinality(V)
  BY <1>3, <1>5, <1>6, MoreBacks
<1>8. ASSUME NEW r \in db.rows.trust, r.id = row.id,
             t.judged = IF Conservative THEN Later(r.judged, row.judged) ELSE r.judged + row.judged
      PROVE  t.judged <= Cardinality(V)
  <2>1. PICK S : S = JudgedAdvice(db.rows) \ SetAside(db.ledger, t.id)
    OBVIOUS
  <2>2. r.judged \in Nat /\ r.judged <= Cardinality(S)
    BY <1>1, <1>8, <2>1, JudgedAreNumbers DEF BooksHold, AccountBacked
  <2>3. SetAside(d.ledger, t.id) \subseteq SetAside(db.ledger, t.id)
    <3>1. n.table # "advice"
      OBVIOUS
    <3> QED BY <3>1, LessSetAside
  <2>4. S \subseteq V
    BY <1>2, <2>1, <2>3
  <2>5. CASE Conservative
    <3>1. r.judged <= Cardinality(V)
      BY <1>3, <2>2, <2>4, MoreBacks
    <3> QED BY <1>7, <1>8, <2>5, <3>1 DEF Later
  <2>6. CASE ~Conservative
    <3>1. S \cap T = {}
      BY <1>4, <2>1, <2>6, ImagesWereAside
    <3>2. r.judged + row.judged <= Cardinality(V)
      BY <1>3, <1>5, <1>6, <2>2, <2>4, <3>1, BothBacked
    <3> QED BY <1>8, <2>6, <3>2
  <2> QED BY <2>5, <2>6
<1> QED BY <1>2, <1>7, <1>8 DEF AccountBacked

LEMMA TrustBooks == ASSUME MergeInv, BooksInv, MergeTrust PROVE BooksInv'
<1> DEFINE merged(row) == [r \in db.rows.trust |->
                               [r EXCEPT !.judged = IF Conservative THEN Later(@, row.judged) ELSE @ + row.judged]]
<1>1. PICK row \in Fresh("trust") : Handled(Upsert(row, merged(row)), row, row.id, "merged")
  BY DEF MergeTrust
<1>2. /\ Table = "trust" /\ Holds(db) /\ BooksHold(db)
      /\ \A r \in db.rows.trust : DOMAIN r = {"id", "judged"}
  <2>1. /\ Table = "trust" /\ Holds(db)
        /\ \A r \in db.rows.trust : DOMAIN r = Fields["trust"]
    BY FreshRow
  <2> QED BY <2>1, FieldsAre DEF BooksInv
<1>3. DOMAIN db = {"rows", "reminders", "ledger"} /\ DOMAIN db.rows = TableNames
  BY <1>2 DEF Holds
<1>4. PICK d : d = Upsert(row, merged(row))
  OBVIOUS
<1>5. \/ d = Inserted(row)
      \/ \E r \in db.rows.trust : r.id = row.id /\ d = Replaced(r, merged(row)[r])
  <2> HIDE DEF merged
  <2> QED BY <1>2, <1>4, UpsertIs
<1> DEFINE Claims(t) ==
              /\ t.id = row.id
              /\ \/ t.judged = row.judged
                 \/ \E r \in db.rows.trust :
                       /\ r.id = row.id
                       /\ t.judged = IF Conservative THEN Later(r.judged, row.judged) ELSE r.judged + row.judged
       Fitting ==
              /\ DOMAIN d = {"rows", "reminders", "ledger"} /\ d.ledger = db.ledger
              /\ d.rows.advice = db.rows.advice /\ d.rows.outcome = db.rows.outcome
              /\ \A t \in d.rows.trust : t \in db.rows.trust \/ Claims(t)
<1>6. Fitting
  <2>1. CASE d = Inserted(row)
    <3>1. /\ DOMAIN d = {"rows", "reminders", "ledger"} /\ d.ledger = db.ledger
          /\ d.rows = [db.rows EXCEPT !["trust"] = @ \cup {row}]
      BY <1>2, <2>1, InsertedIs
    <3>2. /\ d.rows.advice = db.rows.advice /\ d.rows.outcome = db.rows.outcome
          /\ d.rows.trust = db.rows.trust \cup {row}
      BY <1>3, <3>1, TablesAre
    <3> QED BY <3>1, <3>2
  <2>2. ASSUME NEW r \in db.rows.trust, r.id = row.id, d = Replaced(r, merged(row)[r])
        PROVE  Fitting
    <3>1. PICK m : m = merged(row)[r]
      OBVIOUS
    <3>2. Claims(m)
      BY <1>2, <2>2, <3>1
    <3>3. /\ DOMAIN d = {"rows", "reminders", "ledger"} /\ d.ledger = db.ledger
          /\ d.rows = [db.rows EXCEPT !["trust"] = (@ \ {r}) \cup {m}]
      <4> HIDE DEF merged
      <4> QED BY <1>2, <2>2, <3>1, ReplacedIs
    <3>4. /\ d.rows.advice = db.rows.advice /\ d.rows.outcome = db.rows.outcome
          /\ d.rows.trust = (db.rows.trust \ {r}) \cup {m}
      BY <1>3, <3>3, TablesAre
    <3> HIDE DEF Claims, merged
    <3> QED BY <3>2, <3>3, <3>4
  <2> HIDE DEF merged, Fitting
  <2> QED BY <1>5, <2>1, <2>2
<1>7. PICK n : n = Entry(row, row.id, "merged")
  OBVIOUS
<1>8. PICK new : new = Recorded(d, row, row.id, "merged")
  OBVIOUS
<1>9. /\ n.user = Current /\ n.table = "trust" /\ n.key = row.id
      /\ new.ledger = db.ledger \cup {n} /\ new.rows = d.rows
  BY <1>2, <1>6, <1>7, <1>8, EntryIs
<1>10. JudgedAdvice(new.rows) = JudgedAdvice(db.rows)
  BY <1>6, <1>9 DEF JudgedAdvice
<1>11. IsFiniteSet(new.rows.outcome)
  BY <1>2, <1>6, <1>9 DEF BooksHold
<1>12. ASSUME NEW t \in new.rows.trust PROVE AccountBacked(new, t)
  <2>1. CASE t \in db.rows.trust
    <3>1. t.judged \in Nat /\ AccountBacked(db, t)
      BY <1>2, <2>1, JudgedAreNumbers DEF BooksHold
    <3>2. SetAside(new.ledger, t.id) \subseteq SetAside(db.ledger, t.id)
      <4>1. n.table # "advice"
        BY <1>9
      <4> QED BY <1>9, <4>1, LessSetAside
    <3> QED BY <1>10, <1>11, <3>1, <3>2, BackedStill
  <2>2. CASE Claims(t)
    BY <1>9, <1>10, <2>2, AccountIsBacked
  <2> QED BY <1>6, <1>9, <1>12, <2>1, <2>2
<1>13. \A e \in new.ledger : e.table \in {"advice", "outcome"} => e \in db.ledger
  BY <1>9
<1>14. BooksHold(new)
  <2>1. \A e \in new.ledger : e.table = "advice" => SameContent(new, e)
    BY <1>2, <1>6, <1>9, <1>13 DEF BooksHold, SameContent
  <2>2. \A e, f \in new.ledger :
            OneAdvice(e, f) /\ e.action # "deduplicated" /\ f.action # "deduplicated" => e = f
    BY <1>2, <1>13 DEF BooksHold, OneAdvice
  <2>3. \A e, o \in new.ledger :
            e.table = "advice" /\ o.table = "outcome" /\ e.user = o.user /\ e.key = o.key => IsJudged(new, e.to)
    BY <1>2, <1>6, <1>9, <1>13 DEF BooksHold, IsJudged
  <2> QED BY <1>11, <1>12, <2>1, <2>2, <2>3 DEF BooksHold
<1>15. Deals("trust", row, d, row.id, "merged", run.overlap)
  <2> HIDE DEF merged
  <2> QED BY <1>1, <1>4, <1>6, HandledDeals
<1> HIDE DEF merged, Claims
<1> QED BY <1>8, <1>14, <1>15, DealtBooks

-----------------------------------------------------------------------------
(* The books, from run to run.                                               *)

LEMMA BeginBooks ==
    ASSUME MergeInv, BooksInv, NEW users \in UserLists, NEW apply \in BOOLEAN, BeginRun(users, apply)
    PROVE  BooksInv'
<1>1. PICK n \in 1..Cardinality(User) :
         users \in [1..n -> User] /\ \A i, j \in 1..n : users[i] = users[j] => i = j
  BY DEF UserLists
<1>2. Cardinality(User) \in Nat
  BY UserAssumption, FS_CardinalityType
<1>3. n \in Nat /\ Len(users) = n
  BY <1>1, <1>2
<1>4. PICK r : r = [users |-> users, apply |-> apply, table |-> 1, user |-> 1,
                    todo |-> source[users[1]].goal, map |-> {}, overlap |-> {}]
  OBVIOUS
<1>5. /\ DOMAIN r = {"users", "apply", "table", "user", "todo", "map", "overlap"}
      /\ r.users = users /\ r.table = 1 /\ r.user = 1
  BY <1>4
<1>6. PICK w : w = Onward(r)
  OBVIOUS
<1>7. w.users = users
  BY <1>3, <1>5, <1>6, OnwardBooks
<1>8. PICK d : d = db
  OBVIOUS
<1>9. source' = source /\ db' = d /\ saved' = d /\ run' = w
  BY <1>4, <1>6, <1>8 DEF BeginRun, MergeInv, RunAgrees, Running
<1>10. SourcesBacked /\ BooksHold(d) /\ Whole(d.ledger)
  BY <1>8, <1>9 DEF BooksInv, BeginRun, MergeInv, RunAgrees, Running
<1>11. RunBooks(d.ledger, d.ledger, w)
  BY <1>1, <1>3, <1>7 DEF RunBooks
<1> QED BY <1>9, <1>10, <1>11, AfterBooks

LEMMA AlreadyImportedBooks == ASSUME MergeInv, BooksInv, AlreadyImported PROVE BooksInv'
<1>1. PICK row \in run.todo : \E e \in Prior(row) :
         run' = Onward([run EXCEPT
                     !.todo = @ \ {row}, !.map = @ \cup Link(row, e.to),
                     !.overlap = IF Table = "advice" /\ e.action = "deduplicated" THEN @ \cup {Current} ELSE @])
  BY DEF AlreadyImported
<1>2. PICK e \in Prior(row) :
         run' = Onward([run EXCEPT
                     !.todo = @ \ {row}, !.map = @ \cup Link(row, e.to),
                     !.overlap = IF Table = "advice" /\ e.action = "deduplicated" THEN @ \cup {Current} ELSE @])
  BY <1>1
<1>3. /\ UNCHANGED <<source, db, saved>> /\ Running /\ RunHolds(db.ledger, run)
      /\ SourcesBacked /\ BooksHold(db) /\ BooksHold(saved) /\ Whole(saved.ledger)
      /\ RunBooks(db.ledger, saved.ledger, run)
  BY DEF AlreadyImported, MergeInv, RunAgrees, Running, BooksInv
<1>4. PICK o : o = IF Table = "advice" /\ e.action = "deduplicated" THEN run.overlap \cup {Current} ELSE run.overlap
  OBVIOUS
<1>5. PICK r : r = [run EXCEPT !.todo = @ \ {row}, !.map = @ \cup Link(row, e.to), !.overlap = o]
  OBVIOUS
<1>6. PICK w : w = Onward(r)
  OBVIOUS
<1>7. run' = w
  BY <1>2, <1>4, <1>5, <1>6
<1>8. /\ DOMAIN r = {"users", "apply", "table", "user", "todo", "map", "overlap"}
      /\ r.users = run.users /\ r.table = run.table /\ r.user = run.user /\ r.overlap = o
      /\ run.table \in 1..10 /\ run.user \in 1..Len(run.users) /\ Len(run.users) \in Nat
  BY <1>3, <1>5 DEF RunHolds
<1>9. w.overlap = o /\ w.users = run.users /\ \A p \in PlacesOf(run) : Ahead(p, w) => Ahead(p, run)
  <2>1. /\ Onward(r).overlap = r.overlap /\ Onward(r).users = r.users
        /\ \A p \in PlacesOf(r) : Ahead(p, Onward(r)) => Ahead(p, r)
    BY <1>8, OnwardBooks
  <2> QED BY <1>6, <1>8, <2>1 DEF PlacesOf, Ahead
<1>10. run.overlap \subseteq o
  BY <1>4
<1>11. PICK l : l = db.ledger
  OBVIOUS
<1>12. PICK old : old = saved.ledger
  OBVIOUS
<1>13. RunBooks(l, old, run)
  BY <1>3, <1>11, <1>12
<1>14. RunBooks(l, old, w)
  BY <1>9, <1>10, <1>13 DEF RunBooks, PlacesOf
<1>15. PICK d : d = db
  OBVIOUS
<1>16. PICK s : s = saved
  OBVIOUS
<1>17. source' = source /\ db' = d /\ saved' = s /\ run' = w
  BY <1>3, <1>7, <1>15, <1>16
<1>18. BooksHold(d) /\ BooksHold(s) /\ Whole(s.ledger) /\ RunBooks(d.ledger, s.ledger, w)
  BY <1>3, <1>11, <1>12, <1>14, <1>15, <1>16
<1> QED BY <1>3, <1>17, <1>18, AfterBooks

\* What a run that got to its end leaves is whole.
LEMMA FinishedIsWhole == ASSUME MergeInv, BooksInv, Finished PROVE Whole(db.ledger)
<1>1. /\ Whole(saved.ledger) /\ saved.ledger \subseteq db.ledger /\ RunBooks(db.ledger, saved.ledger, run)
      /\ Books(db.ledger) /\ Rows(run.users) \subseteq Imported(db)
  BY WordKept DEF MergeInv, RunAgrees, Progress, BooksInv, Finished, Running, RunsKeepTheirWord, Holds
<1> SUFFICES ASSUME NEW e \in db.ledger, NEW t \in source[e.user].trust
             PROVE  \E f \in db.ledger : f.user = e.user /\ f.table = "trust" /\ f.key = t.id
  BY DEF Whole
<1>2. CASE e \in saved.ledger
  BY <1>1, <1>2 DEF Whole
<1>3. CASE e \notin saved.ledger
  <2>1. PICK p \in PlacesOf(run) : e.user = run.users[p[2]]
    BY <1>1, <1>3 DEF RunBooks
  <2>2. PICK i \in 1..Len(run.users) : e.user = run.users[i]
    BY <2>1 DEF PlacesOf
  <2>3. <<e.user, "trust", t>> \in Rows(run.users)
    BY <2>2, RowsAre, TablesAre
  <2>4. PICK f \in db.ledger : f.user = e.user /\ f.table = "trust" /\ f.row = t
    BY <1>1, <2>3 DEF Imported
  <2>5. f.key = t.id
    BY <1>1, <2>4 DEF Books
  <2> QED BY <2>4, <2>5
<1> QED BY <1>2, <1>3

LEMMA RunEndBooks == ASSUME MergeInv, BooksInv, Conclude \/ Abort \/ SourceDrift PROVE BooksInv'
<1>1. SourcesBacked /\ BooksHold(db) /\ BooksHold(saved) /\ Whole(saved.ledger) /\ source' = source
      /\ run' = NoRun
  BY DEF BooksInv, Conclude, Abort, SourceDrift
<1>2. PICK d : d = db'
  OBVIOUS
<1>3. saved' = d /\ BooksHold(d) /\ Whole(d.ledger)
  BY <1>1, <1>2, FinishedIsWhole DEF Conclude, Abort, SourceDrift
<1> QED BY <1>1, <1>2, <1>3, AfterBooks

\* The application leaves outcomes and accounts, and the content of advice.
LEMMA ApplicationBooks ==
    ASSUME MergeInv, BooksInv, NEW d, Application(d),
           d.ledger = db.ledger, d.rows.outcome = db.rows.outcome, d.rows.trust = db.rows.trust,
           \A a \in d.rows.advice : \E b \in db.rows.advice :
              a.id = b.id /\ a.text = b.text /\ a.topic = b.topic /\ a.ref = b.ref,
           \A b \in db.rows.advice : \E a \in d.rows.advice : a.id = b.id
    PROVE  BooksInv'
<1>1. /\ SourcesBacked /\ BooksHold(db) /\ Whole(db.ledger)
      /\ source' = source /\ db' = d /\ saved' = d /\ run' = NoRun
  BY DEF BooksInv, Application, MergeInv, RunAgrees, Running
<1>2. JudgedAdvice(d.rows) = JudgedAdvice(db.rows)
  <2>1. {a.id : a \in d.rows.advice} = {b.id : b \in db.rows.advice}
    OBVIOUS
  <2> QED BY <2>1 DEF JudgedAdvice
<1>3. ASSUME NEW e \in d.ledger, e.table = "advice" PROVE SameContent(d, e)
  <2>1. SameContent(db, e)
    BY <1>1, <1>3 DEF BooksHold
  <2> QED BY <2>1 DEF SameContent
<1>4. BooksHold(d)
  BY <1>1, <1>2, <1>3 DEF BooksHold, IsJudged, AccountBacked
<1> QED BY <1>1, <1>4, AfterBooks

LEMMA ReminderBooks == ASSUME MergeInv, BooksInv, EnsureAttention \/ ClaimReminder PROVE BooksInv'
<1>1. DOMAIN db = {"rows", "reminders", "ledger"}
  BY DEF MergeInv, Holds
<1>2. PICK d : Application(d) /\ d.ledger = db.ledger /\ d.rows = db.rows
  <2>1. CASE ClaimReminder
    BY <1>1, <2>1 DEF ClaimReminder
  <2>2. CASE EnsureAttention
    <3>1. PICK missing : Application([db EXCEPT !.reminders.open = @ \cup missing])
      BY <2>2 DEF EnsureAttention
    <3> QED BY <1>1, <3>1
  <2> QED BY <2>1, <2>2
<1> QED BY <1>2, ApplicationBooks

LEMMA AnswerBooks == ASSUME MergeInv, BooksInv, Answer PROVE BooksInv'
<1>1. PICK a \in db.rows.advice :
         Application([Resolved(db, a.id) EXCEPT !.rows.advice = (@ \ {a}) \cup {[a EXCEPT !.status = "dismissed"]}])
  BY DEF Answer
<1>2. Holds(db) /\ DOMAIN db = {"rows", "reminders", "ledger"} /\ DOMAIN db.rows = TableNames
  BY DEF MergeInv, Holds
<1>3. PICK n : n = [a EXCEPT !.status = "dismissed"]
  OBVIOUS
<1>4. n.id = a.id /\ n.text = a.text /\ n.topic = a.topic /\ n.ref = a.ref
  <2>1. DOMAIN a = {"id", "goal", "event", "text", "topic", "ref", "status"}
    BY <1>2, TablesAre, FieldsAre DEF Holds, TableHolds
  <2> QED BY <1>3, <2>1
<1>5. PICK w : w = Resolved(db, a.id)
  OBVIOUS
<1>6. DOMAIN w = {"rows", "reminders", "ledger"} /\ w.ledger = db.ledger /\ w.rows = db.rows
  BY <1>2, <1>5 DEF Resolved
<1>7. PICK d : d = [w EXCEPT !.rows.advice = (@ \ {a}) \cup {n}]
  OBVIOUS
<1>8. d.ledger = db.ledger /\ d.rows = [db.rows EXCEPT !.advice = (@ \ {a}) \cup {n}]
  BY <1>6, <1>7
<1>9. /\ d.rows.advice = (db.rows.advice \ {a}) \cup {n} /\ d.rows.outcome = db.rows.outcome
      /\ d.rows.trust = db.rows.trust
  BY <1>2, <1>8, TablesAre
<1>10. Application(d)
  BY <1>1, <1>3, <1>5, <1>7
<1>11. \A b \in db.rows.advice : \E c \in d.rows.advice : c.id = b.id
  BY <1>4, <1>9
<1>12. \A b \in d.rows.advice : \E c \in db.rows.advice :
          b.id = c.id /\ b.text = c.text /\ b.topic = c.topic /\ b.ref = c.ref
  BY <1>4, <1>9
<1> QED BY <1>8, <1>9, <1>10, <1>11, <1>12, ApplicationBooks

\* Only goals change at the source.
LEMMA SourceMovesOnBooks == ASSUME MergeInv, BooksInv, SourceMovesOn PROVE BooksInv'
<1>0. PICK u \in User : \E goals : source' = [source EXCEPT ![u].goal = goals]
  BY DEF SourceMovesOn
<1>1. PICK goals : source' = [source EXCEPT ![u].goal = goals]
  BY <1>0
<1>2. /\ SourceHolds /\ SourcesBacked /\ BooksHold(db) /\ Whole(db.ledger) /\ Books(db.ledger)
      /\ db' = db /\ saved = db /\ saved' = db /\ run' = NoRun
  BY DEF SourceMovesOn, MergeInv, RunAgrees, Running, BooksInv, Holds
<1>3. ASSUME NEW v \in User, NEW t \in {"advice", "outcome", "trust"} PROVE source'[v][t] = source[v][t]
  <2>1. DOMAIN source = User /\ DOMAIN source[u] = TableNames
    BY <1>2 DEF SourceHolds
  <2>2. t \in TableNames /\ t # "goal"
    BY TablesAre
  <2> QED BY <1>1, <2>1, <2>2
<1>4. \A e \in db.ledger : e.user \in User
  BY <1>2 DEF Books
<1>5. \A v \in User : Backed(source[v])' /\ SaidOnce(source[v])'
  <2> SUFFICES ASSUME NEW v \in User PROVE Backed(source[v])' /\ SaidOnce(source[v])'
    OBVIOUS
  <2>1. Backed(source[v]) /\ SaidOnce(source[v])
    BY <1>2 DEF SourcesBacked
  <2>2. /\ source'[v].advice = source[v].advice /\ source'[v].outcome = source[v].outcome
        /\ source'[v].trust = source[v].trust
    BY <1>3
  <2> QED BY <2>1, <2>2 DEF Backed, SaidOnce, JudgedAdvice
<1>6. SourcesBacked'
  BY <1>5 DEF SourcesBacked
<1>7. \A e \in db.ledger : \A area : Waits(db.ledger, e, area)' = Waits(db.ledger, e, area)
  <2> SUFFICES ASSUME NEW e \in db.ledger, NEW area PROVE Waits(db.ledger, e, area)' = Waits(db.ledger, e, area)
    OBVIOUS
  <2>1. source'[e.user].trust = source[e.user].trust
    BY <1>3, <1>4
  <2>2. Pending(db.ledger, e.user, area)' = Pending(db.ledger, e.user, area)
    BY <1>2, <2>1 DEF Pending
  <2> QED BY <1>2, <2>2 DEF Waits, NothingShared
<1>8. \A area : SetAside(db.ledger, area)' = SetAside(db.ledger, area)
  BY <1>2, <1>7 DEF SetAside
<1>9. \A e \in db.ledger : e.table = "advice" => SameContent(db, e)'
  <2> SUFFICES ASSUME NEW e \in db.ledger, e.table = "advice" PROVE SameContent(db, e)'
    OBVIOUS
  <2>1. source'[e.user].advice = source[e.user].advice /\ SameContent(db, e)
    BY <1>2, <1>3, <1>4 DEF BooksHold
  <2> QED BY <1>2, <2>1 DEF SameContent
<1>10. BooksHold(db)'
  BY <1>2, <1>8, <1>9 DEF BooksHold, OneAdvice, IsJudged, AccountBacked
<1>11. BooksHold(saved)'
  BY <1>2, <1>10
<1>12. Whole(saved.ledger)'
  <2>1. \A e \in db.ledger : source'[e.user].trust = source[e.user].trust
    BY <1>3, <1>4
  <2> QED BY <1>2, <2>1 DEF Whole
<1> QED BY <1>2, <1>6, <1>10, <1>11, <1>12 DEF BooksInv

LEMMA BooksStart == ASSUME MergeInit PROVE BooksInv
<1>1. PICK c \in History :
         /\ source = c.source /\ db = [rows |-> c.own, reminders |-> NoReminders, ledger |-> {}]
         /\ saved = db /\ run = NoRun
  BY DEF MergeInit
<1>2. db.rows = c.own /\ db.ledger = {}
  BY <1>1
<1>3. SourcesBacked
  BY <1>1, BooksAssumption DEF SourcesBacked, SaidOnce
<1>4. \A area : SetAside({}, area) = {}
  BY DEF SetAside
<1>5. \A t \in db.rows.trust : AccountBacked(db, t)
  <2>1. Backed(c.own)
    BY BooksAssumption
  <2> QED BY <1>2, <1>4, <2>1 DEF AccountBacked, Backed
<1>6. BooksHold(db)
  <2>1. IsFiniteSet(db.rows.outcome)
    BY <1>2, BooksAssumption DEF Backed
  <2> QED BY <1>2, <1>5, <2>1 DEF BooksHold
<1> QED BY <1>1, <1>2, <1>3, <1>6 DEF BooksInv, Whole

\* Every step of the tool and of the application keeps the books.
LEMMA StepBooks == ASSUME MergeInv, BooksInv, [MergeNext]_mergeVars PROVE BooksInv'
<1>1. ASSUME NEW users \in UserLists, NEW apply \in BOOLEAN, BeginRun(users, apply) PROVE BooksInv'
  BY <1>1, BeginBooks
<1>2. CASE SourceDrift \/ Conclude \/ Abort
  BY <1>2, RunEndBooks
<1>3. CASE AlreadyImported
  BY <1>3, AlreadyImportedBooks
<1>4. CASE Merge
  BY <1>4, GoalBooks, EventBooks, AdviceBooks, FeedbackBooks, RelevanceBooks, OutcomeBooks, CharterBooks,
     TrustBooks, PreferenceBooks, MuteBooks DEF Merge
<1>5. CASE EnsureAttention \/ ClaimReminder
  BY <1>5, ReminderBooks
<1>6. CASE Answer
  BY <1>6, AnswerBooks
<1>7. CASE SourceMovesOn
  BY <1>7, SourceMovesOnBooks
<1>8. CASE UNCHANGED mergeVars
  <2>1. PICK d : d = db
    OBVIOUS
  <2>2. PICK s : s = saved
    OBVIOUS
  <2>3. PICK r : r = run
    OBVIOUS
  <2>4. source' = source /\ db' = d /\ saved' = s /\ run' = r
    BY <1>8, <2>1, <2>2, <2>3 DEF mergeVars
  <2>5. /\ SourcesBacked /\ BooksHold(d) /\ BooksHold(s) /\ Whole(s.ledger)
        /\ r # NoRun => RunBooks(d.ledger, s.ledger, r)
    BY <2>1, <2>2, <2>3 DEF BooksInv
  <2> QED BY <2>4, <2>5, AfterBooks
<1> QED BY <1>1, <1>2, <1>3, <1>4, <1>5, <1>6, <1>7, <1>8 DEF MergeNext

\* What the books say of the accounts.
LEMMA BooksBack == ASSUME MergeInv, BooksInv PROVE JudgementsAreBacked
<1> SUFFICES ASSUME NEW t \in db.rows.trust PROVE t.judged <= Cardinality(db.rows.outcome)
  BY DEF JudgementsAreBacked
<1>1. IsFiniteSet(db.rows.outcome) /\ t.judged \in Nat /\ AccountBacked(db, t)
  BY JudgedAreNumbers DEF MergeInv, BooksInv, BooksHold
<1>2. PICK J : J = JudgedAdvice(db.rows)
  OBVIOUS
<1>3. IsFiniteSet(J) /\ Cardinality(J) <= Cardinality(db.rows.outcome)
  BY <1>1, <1>2, JudgedIsFinite
<1>4. PICK S : S = J \ SetAside(db.ledger, t.id)
  OBVIOUS
<1>5. S \subseteq J /\ t.judged <= Cardinality(S)
  BY <1>1, <1>2, <1>4 DEF AccountBacked
<1>6. t.judged <= Cardinality(J)
  BY <1>1, <1>3, <1>5, MoreBacks
<1>7. Cardinality(J) \in Nat /\ Cardinality(db.rows.outcome) \in Nat
  BY <1>1, <1>3, FS_CardinalityType
<1> QED BY <1>1, <1>3, <1>6, <1>7

\* No trust account claims more judgements than there are judged advices: copies of a
\* history that overlap are not added up, and no run adds the same rows twice
\* (merge_trust, component_max and sum_once).
THEOREM JudgementsStayBacked == MergeSpec => []JudgementsAreBacked
<1>1. MergeInit => BooksInv
  BY BooksStart
<1>2. MergeInv /\ BooksInv /\ [MergeNext]_mergeVars => BooksInv'
  BY StepBooks
<1>3. MergeInv /\ BooksInv => JudgementsAreBacked
  BY BooksBack
<1> QED BY <1>1, <1>2, <1>3, MergeAgrees, PTL DEF MergeSpec

=============================================================================
