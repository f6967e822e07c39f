------------------------ MODULE AdmissionDesktopProofs ------------------------
(* The two ends of a request.                                                *)
(*                                                                           *)
(* Admission gives away no window and no slot twice, for every number of     *)
(* requests, users and sources, for every limit, and however late a request  *)
(* gets the lock after it looked at the clock.                               *)
(*                                                                           *)
(* The desktop program (Desktop) sends an event to the account it was        *)
(* observed under, and shows the language of the account, for all accounts,  *)
(* languages and scenarios, whatever its threads, the user, other devices    *)
(* and crashes do.  The two modules share nothing, and so do the two parts.  *)
EXTENDS Admission, Desktop, FiniteSetTheorems, SequenceTheorems, TLAPS

-----------------------------------------------------------------------------
(* ADMISSION                                                                 *)
(* Types.                                                                    *)

CaseType == [kind: {"password", "template", "speech", "model"}, slots: Nat, work: Nat, time: Nat,
             arrivals: Nat, cancels: Nat, faults: Nat, deletes: Nat]

LeaseRow == [id: Nat \ {NoLease}, user: User, expires: Nat]

RequestRow == [id: Nat, user: User, at: Nat]

HitRow == [id: Nat, key: Key, until: Nat]

Request == [step: {"entering", "asking", "gone", "reading", "working", "releasing"},
            user: User, source: Source \cup {All}, at: Nat, until: Nat, lease: Nat]

Types ==
    /\ scenario \in CaseType
    /\ clock \in Nat
    /\ \A k \in Key : HitsOf(entries, k) \in Seq(Nat)
    /\ requests \subseteq RequestRow /\ IsFiniteSet(requests)
    /\ leases \subseteq LeaseRow /\ IsFiniteSet(leases)
    /\ retired \subseteq User
    /\ call \in [Call -> Request \cup {NoCall}]
    /\ granted \subseteq HitRow /\ IsFiniteSet(granted)

-----------------------------------------------------------------------------
(* The deques.                                                             *)

\* The hits in a sequence that a moment has not reached.
AliveIn(hits, t) == {i \in DOMAIN hits : hits[i] > t}

LEMMA UpTo ==
    ASSUME NEW n \in Nat
    PROVE  IsFiniteSet(1..n) /\ Cardinality(1..n) = n
<1>1. 1 \in Int /\ n \in Int
  OBVIOUS
<1>2. IsFiniteSet(1..n) /\ Cardinality(1..n) = IF 1 > n THEN 0 ELSE n - 1 + 1
  BY <1>1, FS_Interval
<1> QED BY <1>2

\* The hits at the front that ended are those before the first that did not.
LEMMA DeadPrefix ==
    ASSUME NEW hits \in Seq(Nat), NEW t \in Nat
    PROVE  LET dead == {n \in 1..Len(hits) : \A i \in 1..n : hits[i] <= t}
           IN  /\ Cardinality(dead) \in 0..Len(hits)
               /\ dead = 1..Cardinality(dead)
<1> DEFINE dead == {n \in 1..Len(hits) : \A i \in 1..n : hits[i] <= t}
           d == Cardinality(dead)
<1>1. Len(hits) \in Nat /\ IsFiniteSet(1..Len(hits)) /\ Cardinality(1..Len(hits)) = Len(hits)
  BY LenProperties, UpTo
<1>2. dead \in SUBSET (1..Len(hits))
  OBVIOUS
<1>3. IsFiniteSet(dead) /\ d <= Len(hits)
  BY <1>1, <1>2, FS_Subset
<1>4. d \in Nat
  BY <1>3, FS_CardinalityType
<1>5. ASSUME NEW n \in dead PROVE n \in 1..d
  <2>1. n \in 1..Len(hits) /\ \A i \in 1..n : hits[i] <= t
    OBVIOUS
  <2>2. 1..n \in SUBSET dead
    BY <2>1, <1>1
  <2>3. Cardinality(1..n) = n
    BY <2>1, <1>1, UpTo
  <2>4. n <= d
    BY <2>2, <2>3, <1>3, FS_Subset
  <2> QED BY <2>1, <2>4, <1>1, <1>4
<1>6. dead \in SUBSET (1..d)
  BY <1>5
<1>7. IsFiniteSet(1..d) /\ Cardinality(1..d) = d
  BY <1>4, UpTo
<1>8. dead = 1..d
  BY <1>6, <1>7, FS_Subset
<1> QED BY <1>1, <1>3, <1>4, <1>8

\* Dropping them loses no hit that is alive, now or later.
LEMMA ExpiredKeepsTheLiving ==
    ASSUME NEW hits \in Seq(Nat), NEW t \in Nat
    PROVE  /\ RunOut(hits, t) \in Seq(Nat)
           /\ Len(RunOut(hits, t)) <= Len(hits)
           /\ \A s \in Nat : s >= t =>
                  Cardinality(AliveIn(RunOut(hits, t), s)) = Cardinality(AliveIn(hits, s))
<1> DEFINE dead == {n \in 1..Len(hits) : \A i \in 1..n : hits[i] <= t}
           d == Cardinality(dead)
           rest == RunOut(hits, t)
<1>1. d \in 0..Len(hits) /\ dead = 1..d
  BY DeadPrefix
<1>2. Len(hits) \in Nat
  OBVIOUS
<1>3. rest = SubSeq(hits, d + 1, Len(hits))
  BY DEF RunOut
<1> HIDE DEF d, dead, rest
<1>4. /\ rest \in Seq(Nat) /\ Len(rest) = Len(hits) - d
      /\ \A i \in 1..(Len(hits) - d) : rest[i] = hits[i + d]
  BY <1>1, <1>2, <1>3
<1>5. \A i \in 1..d : hits[i] <= t
  BY <1>1, <1>2 DEF dead
<1>6. ASSUME NEW s \in Nat, s >= t
      PROVE  Cardinality(AliveIn(rest, s)) = Cardinality(AliveIn(hits, s))
  <2> DEFINE f == [i \in AliveIn(rest, s) |-> i + d]
  <2>1. AliveIn(rest, s) = {i \in 1..(Len(hits) - d) : hits[i + d] > s}
    <3>1. DOMAIN rest = 1..(Len(hits) - d)
      BY <1>4
    <3> QED BY <3>1, <1>4 DEF AliveIn
  <2>2. AliveIn(hits, s) = {i \in 1..Len(hits) : hits[i] > s}
    BY DEF AliveIn
  <2>3. \A i \in AliveIn(rest, s) : i + d \in AliveIn(hits, s)
    BY <2>1, <2>2, <1>1, <1>2
  <2>4. \A i, j \in AliveIn(rest, s) : f[i] = f[j] => i = j
    BY <2>1, <1>1
  <2>5. ASSUME NEW j \in AliveIn(hits, s)
        PROVE  \E i \in AliveIn(rest, s) : f[i] = j
    <3>1. j \in 1..Len(hits) /\ hits[j] > s /\ hits[j] \in Nat
      BY <2>2
    <3>2. j > d
      BY <3>1, <1>1, <1>5, <1>6, <1>2
    <3>3. j - d \in 1..(Len(hits) - d) /\ (j - d) + d = j
      BY <3>1, <3>2, <1>1, <1>2
    <3>4. j - d \in AliveIn(rest, s)
      BY <3>1, <3>3, <2>1
    <3> QED BY <3>3, <3>4
  <2>6. f \in Bijection(AliveIn(rest, s), AliveIn(hits, s))
    BY <2>3, <2>4, <2>5, Zenon DEF Bijection, Injection, Surjection, IsInjective
  <2>7. IsFiniteSet(AliveIn(rest, s))
    <3>1. Len(hits) - d \in Nat
      BY <1>1, <1>2
    <3>2. AliveIn(rest, s) \in SUBSET (1..(Len(hits) - d))
      BY <2>1
    <3> QED BY <3>1, <3>2, UpTo, FS_Subset
  <2> QED BY <2>6, <2>7, FS_Bijection DEF ExistsBijection
<1> QED BY <1>1, <1>2, <1>4, <1>6 DEF rest

\* A hit more, one alive more until it ends.
LEMMA AppendedIsAlive ==
    ASSUME NEW hits \in Seq(Nat), NEW x \in Nat, NEW s \in Nat
    PROVE  /\ Append(hits, x) \in Seq(Nat)
           /\ Len(Append(hits, x)) = Len(hits) + 1
           /\ Cardinality(AliveIn(hits, s)) \in Nat
           /\ Cardinality(AliveIn(hits, s)) <= Len(hits)
           /\ Cardinality(AliveIn(Append(hits, x), s)) =
                  IF x > s THEN Cardinality(AliveIn(hits, s)) + 1 ELSE Cardinality(AliveIn(hits, s))
<1>1. Len(hits) \in Nat /\ IsFiniteSet(1..Len(hits)) /\ Cardinality(1..Len(hits)) = Len(hits)
  BY LenProperties, UpTo
<1>2. AliveIn(hits, s) \in SUBSET (1..Len(hits))
  BY DEF AliveIn
<1>3. IsFiniteSet(AliveIn(hits, s)) /\ Cardinality(AliveIn(hits, s)) <= Len(hits)
  BY <1>1, <1>2, FS_Subset
<1>4. AliveIn(Append(hits, x), s) =
          IF x > s THEN AliveIn(hits, s) \cup {Len(hits) + 1} ELSE AliveIn(hits, s)
  BY <1>1 DEF AliveIn
<1>5. Len(hits) + 1 \notin AliveIn(hits, s)
  BY <1>1, <1>2
<1>6. Cardinality(AliveIn(hits, s)) \in Nat
  BY <1>3, FS_CardinalityType
<1>7. Cardinality(AliveIn(hits, s) \cup {Len(hits) + 1}) = Cardinality(AliveIn(hits, s)) + 1
  BY <1>3, <1>5, FS_AddElement
<1>8. Append(hits, x) \in Seq(Nat) /\ Len(Append(hits, x)) = Len(hits) + 1
  OBVIOUS
<1> QED BY <1>3, <1>4, <1>6, <1>7, <1>8

\* A sweep drops what ended: e is what it starts from, f what it leaves.
Keeps(e, f, t) ==
    \A k \in Key :
        /\ HitsOf(f, k) \in Seq(Nat)
        /\ Len(HitsOf(f, k)) <= Len(HitsOf(e, k))
        /\ \A s \in Nat : s >= t =>
               Cardinality(AliveIn(HitsOf(f, k), s)) = Cardinality(AliveIn(HitsOf(e, k), s))

LEMMA SweptKeeps ==
    ASSUME NEW e, NEW keys, NEW t \in Nat, \A k \in Key : HitsOf(e, k) \in Seq(Nat)
    PROVE  Keeps(e, AllSwept(e, keys, t), t)
<1> DEFINE seen == [k \in DOMAIN e |-> IF k \in keys THEN RunOut(e[k], t) ELSE e[k]]
<1>1. AllSwept(e, keys, t) = Without(seen)
  BY DEF AllSwept
<1> SUFFICES ASSUME NEW k \in Key
             PROVE  /\ HitsOf(Without(seen), k) \in Seq(Nat)
                    /\ Len(HitsOf(Without(seen), k)) <= Len(HitsOf(e, k))
                    /\ \A s \in Nat : s >= t =>
                           Cardinality(AliveIn(HitsOf(Without(seen), k), s)) =
                               Cardinality(AliveIn(HitsOf(e, k), s))
  BY <1>1 DEF Keeps
<1>2. HitsOf(Without(seen), k) = IF k \in DOMAIN seen THEN seen[k] ELSE <<>>
  BY DEF HitsOf, Without
<1>3. CASE k \in DOMAIN e /\ k \in keys
  <2>1. HitsOf(e, k) = e[k] /\ e[k] \in Seq(Nat)
    BY <1>3 DEF HitsOf
  <2>2. HitsOf(Without(seen), k) = RunOut(e[k], t)
    BY <1>2, <1>3
  <2>3. /\ RunOut(e[k], t) \in Seq(Nat) /\ Len(RunOut(e[k], t)) <= Len(e[k])
        /\ \A s \in Nat : s >= t =>
               Cardinality(AliveIn(RunOut(e[k], t), s)) = Cardinality(AliveIn(e[k], s))
    BY <2>1, ExpiredKeepsTheLiving
  <2> HIDE DEF seen
  <2> QED BY <2>1, <2>2, <2>3
<1>4. CASE ~(k \in DOMAIN e /\ k \in keys)
  <2>1. HitsOf(Without(seen), k) = HitsOf(e, k)
    BY <1>2, <1>4 DEF HitsOf
  <2>2. Len(HitsOf(e, k)) \in Nat
    BY LenProperties
  <2> QED BY <2>1, <2>2
<1> QED BY <1>3, <1>4

LEMMA KeepsAgain ==
    ASSUME NEW e, NEW f, NEW g, NEW t, Keeps(e, f, t), Keeps(f, g, t),
           \A k \in Key : HitsOf(e, k) \in Seq(Nat)
    PROVE  Keeps(e, g, t)
<1> SUFFICES ASSUME NEW k \in Key
             PROVE  /\ HitsOf(g, k) \in Seq(Nat)
                    /\ Len(HitsOf(g, k)) <= Len(HitsOf(e, k))
                    /\ \A s \in Nat : s >= t =>
                           Cardinality(AliveIn(HitsOf(g, k), s)) = Cardinality(AliveIn(HitsOf(e, k), s))
  BY DEF Keeps
<1>1. /\ HitsOf(f, k) \in Seq(Nat) /\ Len(HitsOf(f, k)) <= Len(HitsOf(e, k))
      /\ \A s \in Nat : s >= t =>
             Cardinality(AliveIn(HitsOf(f, k), s)) = Cardinality(AliveIn(HitsOf(e, k), s))
  BY DEF Keeps
<1>2. /\ HitsOf(g, k) \in Seq(Nat) /\ Len(HitsOf(g, k)) <= Len(HitsOf(f, k))
      /\ \A s \in Nat : s >= t =>
             Cardinality(AliveIn(HitsOf(g, k), s)) = Cardinality(AliveIn(HitsOf(f, k), s))
  BY DEF Keeps
<1>3. Len(HitsOf(e, k)) \in Nat /\ Len(HitsOf(f, k)) \in Nat /\ Len(HitsOf(g, k)) \in Nat
  BY <1>1, <1>2, LenProperties
<1>4. Len(HitsOf(g, k)) <= Len(HitsOf(e, k))
  BY <1>1, <1>2, <1>3
<1> QED BY <1>1, <1>2, <1>4

-----------------------------------------------------------------------------
(* The invariant.                                                          *)

\* A row of a request let through that still counts for a key.
CountedFor(k, t) == {g \in granted : g.key = k /\ g.until > t}

\* The deque of a key holds what was let through, from now on, and no more than allowed.
Windows ==
    \A k \in Key :
        /\ Len(HitsOf(entries, k)) <= Allowed(k)
        /\ \A s \in Nat : s >= clock =>
               Cardinality(AliveIn(HitsOf(entries, k), s)) = Cardinality(CountedFor(k, s))

\* A request that looked at the clock gets no further before its time is over, and has
\* no lease before it is admitted.
InTime(r) ==
    /\ r.at <= clock /\ clock <= r.until
    /\ r.step \in {"entering", "asking", "gone"} => r.until = r.at + Margin /\ r.lease = NoLease

Clocks == \A c \in Call : Busy(c) => InTime(call[c])

\* Only recognitions read an upload, and only passwords are looked at by their source.
OfItsKind(r) ==
    /\ r.step \in {"reading", "gone"} => scenario.kind = "speech"
    /\ r.step = "entering" => scenario.kind = "password"
    /\ r.step \in {"entering", "asking"} /\ scenario.kind = "password" => r.source \in Source

Kinds == \A c \in Call : Busy(c) => OfItsKind(call[c])

\* What is occupied is within the limits, also what has ended but was not looked through.
Slots ==
    /\ Cardinality(leases) <= scenario.slots
    /\ \A u \in User : /\ Cardinality(OfUser(u, requests)) <= Requests
                       /\ Cardinality(OfUser(u, leases)) <= UserSlots

\* The lease of a request outlives what is left of it.
Left(r) == r.until + IF r.step = "reading" THEN WorkTime ELSE 0

OutlivesItsLease == scenario.kind = "model" /\ scenario.work + Margin >= LeaseTime

CoveredBy(r, rows, gone) ==
    r.step \in {"reading", "working"} /\ r.user \notin gone =>
        \/ \E l \in rows : l.id = r.lease /\ l.user = r.user /\ l.expires > Left(r)
        \/ OutlivesItsLease

Covered == \A c \in Call : Busy(c) => CoveredBy(call[c], leases, retired)

AdmissionInv == Types /\ AdmissionTypeOK /\ Windows /\ Clocks /\ Slots /\ Covered /\ Kinds

\* A recognition, and what comes before it, takes less time than a lease is given for.
Quick(r) ==
    scenario.kind = "speech" /\ r.step \in {"reading", "working"} => Left(r) < r.at + LeaseTime

Thread == [user: User, until: Nat, expires: Nat]

\* So does one that goes on without its request.
Recognitions ==
    /\ adrift \subseteq Thread
    /\ \A r \in adrift : clock <= r.until /\ r.until < r.expires
    /\ \A c \in Call : Busy(c) => Quick(call[c])

-----------------------------------------------------------------------------
(* Numbers that are free.                                                  *)

LEMMA SomeNumberIsFree ==
    ASSUME NEW S, IsFiniteSet(S), NEW n \in Nat, Cardinality(S) <= n
    PROVE  \E i \in 1..(n + 1) : i \notin S
<1> SUFFICES ASSUME 1..(n + 1) \subseteq S PROVE FALSE
  OBVIOUS
<1>1. Cardinality(1..(n + 1)) = n + 1
  BY UpTo
<1>2. Cardinality(1..(n + 1)) <= Cardinality(S)
  BY FS_Subset
<1>3. Cardinality(S) \in Nat
  BY FS_CardinalityType
<1> QED BY <1>1, <1>2, <1>3

\* There are no more numbers than rows.
LEMMA FewNumbers ==
    ASSUME NEW rows, IsFiniteSet(rows)
    PROVE  /\ IsFiniteSet({r.id : r \in rows})
           /\ Cardinality({r.id : r \in rows}) <= Cardinality(rows)
<1> DEFINE f == [r \in rows |-> r.id]
<1>1. f \in Surjection(rows, {r.id : r \in rows})
  BY DEF Surjection
<1> QED BY <1>1, FS_Surjection

LEMMA FreshIsFree ==
    ASSUME NEW rows, IsFiniteSet(rows)
    PROVE  FreshOf(rows) \in Nat /\ \A r \in rows : r.id # FreshOf(rows)
<1>1. Cardinality(rows) \in Nat
  BY FS_CardinalityType
<1>2. \E i \in 1..(Cardinality(rows) + 1) : i \notin {r.id : r \in rows}
  BY <1>1, FewNumbers, SomeNumberIsFree
<1>3. \E i \in 1..(Cardinality(rows) + 1) : \A r \in rows : r.id # i
  BY <1>2
<1>4. /\ FreshOf(rows) \in 1..(Cardinality(rows) + 1)
      /\ \A r \in rows : r.id # FreshOf(rows)
  BY <1>3, Zenon DEF FreshOf
<1> QED BY <1>1, <1>4

\* The number of a new lease is that of no lease, and of none a request thinks it has.
LEMMA NewIdIsFree ==
    ASSUME Types, IsFiniteSet(Call)
    PROVE  /\ NewId \in Nat \ {NoLease}
           /\ \A l \in leases : l.id # NewId
           /\ \A c \in Call : Busy(c) => call[c].lease # NewId
<1> DEFINE busy == {d \in Call : Busy(d)}
           held == {call[c].lease : c \in busy}
           ids == {l.id : l \in leases}
           f == [c \in busy |-> call[c].lease]
           n == Cardinality(leases)
           m == Cardinality(Call)
<1>1. IsFiniteSet(leases) /\ n \in Nat /\ m \in Nat
  BY FS_CardinalityType DEF Types
<1>2. IsFiniteSet(ids) /\ Cardinality(ids) <= n
  BY <1>1, FewNumbers
<1>3. IsFiniteSet(busy) /\ Cardinality(busy) <= m
  BY FS_Subset
<1>4. f \in Surjection(busy, held)
  BY DEF Surjection
<1>5. IsFiniteSet(held) /\ Cardinality(held) <= Cardinality(busy)
  BY <1>3, <1>4, FS_Surjection
<1>6. /\ IsFiniteSet(ids \cup held)
      /\ Cardinality(ids \cup held) = Cardinality(ids) + Cardinality(held) - Cardinality(ids \cap held)
  BY <1>2, <1>5, FS_Union
<1>7. Cardinality(ids \cap held) \in Nat
  BY <1>2, FS_Intersection, FS_CardinalityType
<1>8. Cardinality(ids) \in Nat /\ Cardinality(held) \in Nat /\ Cardinality(busy) \in Nat
  BY <1>2, <1>3, <1>5, FS_CardinalityType
<1> HIDE DEF n, m, ids, held, busy
<1>9. Cardinality(ids \cup held) <= n + m
  BY <1>1, <1>2, <1>3, <1>5, <1>6, <1>7, <1>8
<1>10. \E i \in 1..(n + m + 1) : i \notin ids \cup held
  <2>1. n + m \in Nat
    BY <1>1
  <2> QED BY <2>1, <1>6, <1>9, SomeNumberIsFree
<1>11. NewId \in 1..(n + m + 1) /\ NewId \notin ids \cup held
  BY <1>10, Zenon DEF NewId, n, m, ids, held, busy
<1> QED BY <1>1, <1>11 DEF ids, held, busy, NoLease

-----------------------------------------------------------------------------
(* The rolling windows.                                                    *)

\* A request let through is one hit more for each of its keys, as long as it counts.
LEMMA LetThrough ==
    ASSUME Types, NEW keys \in SUBSET Key, NEW x \in Nat, NEW k \in Key, NEW s \in Nat,
           granted' = granted \cup [id: {FreshOf(granted)}, key: keys, until: {x}]
    PROVE  Cardinality(CountedFor(k, s)') =
               IF k \in keys /\ x > s THEN Cardinality(CountedFor(k, s)) + 1
                                      ELSE Cardinality(CountedFor(k, s))
<1> DEFINE row == [id |-> FreshOf(granted), key |-> k, until |-> x]
<1>1. IsFiniteSet(granted) /\ \A g \in granted : g.id # FreshOf(granted)
  BY FreshIsFree DEF Types
<1>2. CountedFor(k, s) \in SUBSET granted
  BY DEF CountedFor
<1>3. IsFiniteSet(CountedFor(k, s)) /\ row \notin CountedFor(k, s)
  BY <1>1, <1>2, FS_Subset
<1>4. CASE k \in keys /\ x > s
  <2>1. CountedFor(k, s)' = CountedFor(k, s) \cup {row}
    BY <1>4 DEF CountedFor
  <2> QED BY <1>3, <1>4, <2>1, FS_AddElement
<1>5. CASE ~(k \in keys /\ x > s)
  <2>1. CountedFor(k, s)' = CountedFor(k, s)
    BY <1>5 DEF CountedFor
  <2> QED BY <1>5, <2>1
<1> QED BY <1>4, <1>5

LEMMA AllowedType ==
    ASSUME LimitAssumption, NEW k
    PROVE  Allowed(k) \in Nat
BY DEF LimitAssumption, Allowed

\* What a request is counted for, and how often that is allowed.
LEMMA LimitsAllow ==
    ASSUME KeyAssumption, NEW u \in User, NEW s \in Source \cup {All},
           scenario.kind = "password" => s \in Source
    PROVE  /\ {l.key : l \in SlotLimits(u, s)} \subseteq Key
           /\ \A l \in SlotLimits(u, s) : l.limit = Allowed(l.key)
           /\ IsFiniteSet({l.key : l \in SlotLimits(u, s)})
<1>1. CASE scenario.kind = "password"
  <2>1. SlotLimits(u, s) = {[key |-> u, limit |-> UserHits], [key |-> <<u, s>>, limit |-> UserHits],
                            [key |-> s, limit |-> SourceHits]}
    BY <1>1 DEF SlotLimits
  <2>2. s \in Source /\ <<u, s>> \in User \X Source
    BY <1>1
  <2>3. /\ u \notin Source /\ u # All
        /\ <<u, s>> \notin Source /\ <<u, s>> # All
        /\ s # All
    BY <2>2 DEF KeyAssumption
  <2>4. /\ Allowed(u) = UserHits /\ Allowed(<<u, s>>) = UserHits /\ Allowed(s) = SourceHits
    BY <2>2, <2>3 DEF Allowed
  <2>5. {l.key : l \in SlotLimits(u, s)} = ({u} \cup {<<u, s>>}) \cup {s}
    BY <2>1
  <2>6. IsFiniteSet(({u} \cup {<<u, s>>}) \cup {s})
    BY FS_Singleton, FS_AddElement
  <2>7. {l.key : l \in SlotLimits(u, s)} \subseteq Key
    BY <2>2, <2>5 DEF Key
  <2>8. \A l \in SlotLimits(u, s) : l.limit = Allowed(l.key)
    BY <2>1, <2>4
  <2> QED BY <2>5, <2>6, <2>7, <2>8
<1>2. CASE scenario.kind # "password"
  <2>1. SlotLimits(u, s) = {[key |-> u, limit |-> UserHits], [key |-> All, limit |-> AllHits]}
    BY <1>2 DEF SlotLimits
  <2>2. u \notin Source /\ u # All
    BY DEF KeyAssumption
  <2>3. Allowed(u) = UserHits /\ Allowed(All) = AllHits
    BY <2>2 DEF Allowed
  <2>4. {l.key : l \in SlotLimits(u, s)} = {u} \cup {All}
    BY <2>1
  <2>5. IsFiniteSet({u} \cup {All})
    BY FS_Singleton, FS_AddElement
  <2>6. {l.key : l \in SlotLimits(u, s)} \subseteq Key
    BY <2>4 DEF Key
  <2>7. \A l \in SlotLimits(u, s) : l.limit = Allowed(l.key)
    BY <2>1, <2>3
  <2> QED BY <2>4, <2>5, <2>6, <2>7
<1> QED BY <1>1, <1>2

\* A finite set has finitely many rows for finitely many keys.
LEMMA RowsForKeys ==
    ASSUME NEW keys, IsFiniteSet(keys), NEW i, NEW x
    PROVE  IsFiniteSet([id: {i}, key: keys, until: {x}])
<1> DEFINE f == [k \in keys |-> [id |-> i, key |-> k, until |-> x]]
<1>1. f \in Surjection(keys, [id: {i}, key: keys, until: {x}])
  BY DEF Surjection
<1> QED BY <1>1, FS_Surjection

\* Whether the request is let through or not, and however late: the deques hold what
\* was let through.
LEMMA HitKeepsWindows ==
    ASSUME Types, Windows, KeyAssumption, LimitAssumption,
           NEW c, NEW u \in User, NEW s \in Source \cup {All},
           scenario.kind = "password" => s \in Source,
           NEW t \in Nat, t <= clock, Hit(c, u, s, t)
    PROVE  /\ Windows'
           /\ \A k \in Key : HitsOf(entries', k) \in Seq(Nat)
           /\ granted' \subseteq HitRow /\ IsFiniteSet(granted')
<1> DEFINE limits == SlotLimits(u, s)
           keys == {l.key : l \in limits}
           sweep == t - swept >= SweepTime
           seen == AllSwept(entries, IF sweep THEN DOMAIN entries ELSE keys, t)
           full == \E l \in limits : Len(HitsOf(seen, l.key)) >= l.limit
           forced == ~full /\ ~Fits(seen, keys)
           kept == IF forced THEN AllSwept(seen, DOMAIN seen, t) ELSE seen
           x == t + HitWindow
           counted == [k \in (DOMAIN kept) \cup keys |->
                           IF k \in keys THEN Append(HitsOf(kept, k), x) ELSE kept[k]]
           more == [id: {FreshOf(granted)}, key: keys, until: {x}]
<1>1. \/ entries' = kept /\ granted' = granted
      \/ ~full /\ entries' = counted /\ granted' = granted \cup more
  BY DEF Hit
<1>2. clock' = clock
  BY DEF Hit
<1>3. \A k \in Key : HitsOf(entries, k) \in Seq(Nat)
  BY DEF Types
<1>4. Keeps(entries, seen, t)
  BY <1>3, SweptKeeps
<1>5. \A k \in Key : HitsOf(seen, k) \in Seq(Nat)
  BY <1>4 DEF Keeps
<1>6. Keeps(seen, kept, t)
  <2>1. CASE forced
    <3>1. Keeps(seen, AllSwept(seen, DOMAIN seen, t), t)
      BY <1>5, SweptKeeps
    <3> QED BY <2>1, <3>1
  <2>2. CASE ~forced
    <3>1. kept = seen
      BY <2>2
    <3>2. Keeps(seen, seen, t)
      <4>1. \A k \in Key : Len(HitsOf(seen, k)) \in Nat
        BY <1>5, LenProperties
      <4> HIDE DEF seen
      <4> QED BY <1>5, <4>1 DEF Keeps
    <3> QED BY <3>1, <3>2
  <2> QED BY <2>1, <2>2
<1>7. Keeps(entries, kept, t)
  BY <1>3, <1>4, <1>6, KeepsAgain
<1>8. /\ keys \subseteq Key /\ IsFiniteSet(keys)
      /\ \A l \in limits : l.limit = Allowed(l.key)
  BY LimitsAllow
<1>9. x \in Nat
  BY DEF LimitAssumption
<1> HIDE DEF seen, kept, x, limits
<1>10. CASE entries' = kept /\ granted' = granted
  <2>1. \A k \in Key : HitsOf(entries', k) = HitsOf(kept, k)
    BY <1>10
  <2>2. \A k \in Key, r \in Nat : CountedFor(k, r)' = CountedFor(k, r)
    BY <1>10 DEF CountedFor
  <2>3. ASSUME NEW k \in Key
        PROVE  /\ Len(HitsOf(entries', k)) <= Allowed(k)
               /\ \A r \in Nat : r >= clock' =>
                      Cardinality(AliveIn(HitsOf(entries', k), r)) = Cardinality(CountedFor(k, r)')
    <3>1. /\ HitsOf(kept, k) \in Seq(Nat) /\ Len(HitsOf(kept, k)) <= Len(HitsOf(entries, k))
          /\ \A r \in Nat : r >= t =>
                 Cardinality(AliveIn(HitsOf(kept, k), r)) = Cardinality(AliveIn(HitsOf(entries, k), r))
      BY <1>7 DEF Keeps
    <3>2. /\ Len(HitsOf(entries, k)) <= Allowed(k)
          /\ \A r \in Nat : r >= clock =>
                 Cardinality(AliveIn(HitsOf(entries, k), r)) = Cardinality(CountedFor(k, r))
      BY DEF Windows
    <3>3. /\ Len(HitsOf(kept, k)) \in Nat /\ Len(HitsOf(entries, k)) \in Nat /\ Allowed(k) \in Nat
      BY <1>3, <3>1, AllowedType, LenProperties
    <3>4. Len(HitsOf(kept, k)) <= Allowed(k)
      BY <3>1, <3>2, <3>3
    <3>5. ASSUME NEW r \in Nat, r >= clock'
          PROVE  Cardinality(AliveIn(HitsOf(entries', k), r)) = Cardinality(CountedFor(k, r)')
      <4>1. r >= clock /\ r >= t
        BY <1>2, <3>5 DEF Types
      <4>2. Cardinality(AliveIn(HitsOf(kept, k), r)) = Cardinality(CountedFor(k, r))
        BY <3>1, <3>2, <4>1
      <4> QED BY <2>1, <2>2, <4>2
    <3> QED BY <2>1, <3>4, <3>5
  <2>4. \A k \in Key : HitsOf(entries', k) \in Seq(Nat)
    BY <1>7, <2>1 DEF Keeps
  <2> QED BY <1>10, <2>3, <2>4 DEF Windows, Types
<1>11. CASE ~full /\ entries' = counted /\ granted' = granted \cup more
  <2>1. \A k \in Key : HitsOf(entries', k) =
            IF k \in keys THEN Append(HitsOf(kept, k), x) ELSE HitsOf(kept, k)
    BY <1>11 DEF HitsOf
  <2>0. granted' = granted \cup more /\ keys \in SUBSET Key
    BY <1>8, <1>11
  <2> HIDE DEF keys, counted, full, forced
  <2>2. ASSUME NEW k \in Key
        PROVE  /\ HitsOf(entries', k) \in Seq(Nat)
               /\ Len(HitsOf(entries', k)) <= Allowed(k)
               /\ \A r \in Nat : r >= clock' =>
                      Cardinality(AliveIn(HitsOf(entries', k), r)) = Cardinality(CountedFor(k, r)')
    <3>1. /\ HitsOf(kept, k) \in Seq(Nat) /\ Len(HitsOf(kept, k)) <= Len(HitsOf(seen, k))
          /\ HitsOf(seen, k) \in Seq(Nat)
      BY <1>5, <1>6 DEF Keeps
    <3>2. /\ Len(HitsOf(kept, k)) \in Nat /\ Len(HitsOf(seen, k)) \in Nat /\ Allowed(k) \in Nat
      BY <3>1, AllowedType, LenProperties
    <3>3. k \in keys => Len(HitsOf(seen, k)) < Allowed(k)
      <4>1. SUFFICES ASSUME k \in keys PROVE Len(HitsOf(seen, k)) < Allowed(k)
        OBVIOUS
      <4>2. PICK l \in limits : l.key = k
        BY <4>1 DEF keys
      <4>3. ~(Len(HitsOf(seen, k)) >= l.limit) /\ l.limit = Allowed(k)
        BY <1>8, <1>11, <4>2 DEF full
      <4> QED BY <3>2, <4>3
    <3>4. /\ Len(HitsOf(entries, k)) <= Allowed(k) /\ Len(HitsOf(entries, k)) \in Nat
          /\ Len(HitsOf(kept, k)) <= Len(HitsOf(entries, k))
      BY <1>3, <1>7, LenProperties DEF Windows, Keeps
    <3>5. HitsOf(entries', k) \in Seq(Nat) /\ Len(HitsOf(entries', k)) <= Allowed(k)
      <4>1. CASE k \in keys
        <5>1. /\ Append(HitsOf(kept, k), x) \in Seq(Nat)
              /\ Len(Append(HitsOf(kept, k), x)) = Len(HitsOf(kept, k)) + 1
          BY <1>9, <3>1, AppendedIsAlive
        <5>2. HitsOf(entries', k) = Append(HitsOf(kept, k), x)
          BY <2>1, <4>1
        <5>3. Len(HitsOf(kept, k)) + 1 <= Allowed(k)
          BY <3>1, <3>2, <3>3, <4>1
        <5> QED BY <5>1, <5>2, <5>3
      <4>2. CASE k \notin keys
        BY <2>1, <3>1, <3>2, <3>4, <4>2
      <4> QED BY <4>1, <4>2
    <3>6. ASSUME NEW r \in Nat, r >= clock'
          PROVE  Cardinality(AliveIn(HitsOf(entries', k), r)) = Cardinality(CountedFor(k, r)')
      <4>1. r >= clock /\ r >= t
        BY <1>2, <3>6 DEF Types
      <4>2. Cardinality(AliveIn(HitsOf(kept, k), r)) = Cardinality(CountedFor(k, r))
        <5>1. Cardinality(AliveIn(HitsOf(kept, k), r)) = Cardinality(AliveIn(HitsOf(entries, k), r))
          BY <1>7, <4>1 DEF Keeps
        <5>2. Cardinality(AliveIn(HitsOf(entries, k), r)) = Cardinality(CountedFor(k, r))
          BY <4>1 DEF Windows
        <5> QED BY <5>1, <5>2
      <4>3. Cardinality(CountedFor(k, r)') =
                IF k \in keys /\ x > r THEN Cardinality(CountedFor(k, r)) + 1
                                       ELSE Cardinality(CountedFor(k, r))
        BY <1>9, <2>0, LetThrough
      <4>4. Cardinality(AliveIn(Append(HitsOf(kept, k), x), r)) =
                IF x > r THEN Cardinality(AliveIn(HitsOf(kept, k), r)) + 1
                         ELSE Cardinality(AliveIn(HitsOf(kept, k), r))
        BY <1>9, <3>1, AppendedIsAlive
      <4>5. CASE k \in keys
        <5>1. HitsOf(entries', k) = Append(HitsOf(kept, k), x)
          BY <2>1, <4>5
        <5> QED BY <4>2, <4>3, <4>4, <4>5, <5>1
      <4>6. CASE k \notin keys
        BY <2>1, <4>2, <4>3, <4>6
      <4> QED BY <4>5, <4>6
    <3> QED BY <3>5, <3>6
  <2>3. granted' \subseteq HitRow /\ IsFiniteSet(granted')
    <3>1. IsFiniteSet(granted) /\ FreshOf(granted) \in Nat /\ granted \subseteq HitRow
      BY FreshIsFree DEF Types
    <3>2. IsFiniteSet(more)
      BY <1>8, RowsForKeys
    <3>3. more \subseteq HitRow
      BY <1>8, <1>9, <3>1 DEF HitRow
    <3> HIDE DEF more
    <3> QED BY <1>11, <3>1, <3>2, <3>3, FS_Union
  <2> QED BY <2>2, <2>3 DEF Windows
<1> QED BY <1>1, <1>10, <1>11

-----------------------------------------------------------------------------
(* A step of one request.                                                  *)

\* The bounds of a scenario may change, its limits do not.
Steady ==
    /\ scenario' \in CaseType
    /\ scenario'.kind = scenario.kind /\ scenario'.slots = scenario.slots /\ scenario'.work = scenario.work

LEMMA BoundsAreSteady ==
    ASSUME Types,
           \/ UNCHANGED scenario
           \/ HitsCounted \/ Fault
           \/ scenario.cancels > 0 /\ scenario' = [scenario EXCEPT !.cancels = @ - 1]
           \/ scenario.deletes > 0 /\ scenario' = [scenario EXCEPT !.deletes = @ - 1]
    PROVE  Steady
<1>1. scenario \in CaseType
  BY DEF Types
<1> QED BY <1>1 DEF CaseType, Steady, HitsCounted, Fault

\* The request c goes on as r, or ends: the others are as they were.
LEMMA OneMoves ==
    ASSUME AdmissionInv, Steady, clock' = clock,
           NEW c \in Call, NEW r \in Request \cup {NoCall}, call' = [call EXCEPT ![c] = r],
           r # NoCall => InTime(r) /\ OfItsKind(r) /\ CoveredBy(r, leases', retired'),
           r # NoCall /\ r.lease # NoLease =>
               \A d \in Call \ {c} : Busy(d) => call[d].lease # r.lease,
           \A d \in Call \ {c} : Busy(d) => CoveredBy(call[d], leases', retired')
    PROVE  /\ call' \in [Call -> Request \cup {NoCall}]
           /\ Clocks' /\ Kinds' /\ Covered'
           /\ \A d, e \in Call : d # e /\ Busy(d)' /\ Busy(e)' /\ call'[d].lease # NoLease =>
                                    call'[d].lease # call'[e].lease
<1>1. call \in [Call -> Request \cup {NoCall}]
  BY DEF AdmissionInv, Types
<1>2. call' \in [Call -> Request \cup {NoCall}]
  BY <1>1
<1>3. call'[c] = r /\ \A d \in Call \ {c} : call'[d] = call[d]
  BY <1>1
<1>4. \A d \in Call : Busy(d)' <=> call'[d] # NoCall
  BY <1>2 DEF Busy, Request, NoCall
<1>5. \A d \in Call : Busy(d) <=> call[d] # NoCall
  BY <1>1 DEF Busy, Request, NoCall
<1>6. Clocks'
  <2> SUFFICES ASSUME NEW d \in Call, Busy(d)' PROVE InTime(call[d])'
    BY DEF Clocks
  <2>1. CASE d = c
    BY <1>3, <1>4, <2>1 DEF InTime
  <2>2. CASE d # c
    <3>1. InTime(call[d]) /\ call'[d] = call[d]
      BY <1>3, <1>4, <1>5, <2>2 DEF AdmissionInv, Clocks
    <3> QED BY <3>1 DEF InTime
  <2> QED BY <2>1, <2>2
<1>7. Kinds'
  <2> SUFFICES ASSUME NEW d \in Call, Busy(d)' PROVE OfItsKind(call[d])'
    BY DEF Kinds
  <2>1. CASE d = c
    BY <1>3, <1>4, <2>1 DEF OfItsKind, Steady
  <2>2. CASE d # c
    <3>1. OfItsKind(call[d]) /\ call'[d] = call[d]
      BY <1>3, <1>4, <1>5, <2>2 DEF AdmissionInv, Kinds
    <3> QED BY <3>1 DEF OfItsKind, Steady
  <2> QED BY <2>1, <2>2
<1>8. Covered'
  <2> SUFFICES ASSUME NEW d \in Call, Busy(d)' PROVE CoveredBy(call[d], leases, retired)'
    BY DEF Covered
  <2>1. CoveredBy(call'[d], leases', retired')
    BY <1>3, <1>4, <1>5
  <2> QED BY <2>1 DEF CoveredBy, Left, OutlivesItsLease, Steady
<1>9. ASSUME NEW d \in Call, NEW e \in Call, d # e, Busy(d)', Busy(e)', call'[d].lease # NoLease
      PROVE  call'[d].lease # call'[e].lease
  <2>1. CASE d = c
    BY <1>3, <1>4, <1>5, <1>9, <2>1
  <2>2. CASE e = c
    <3>1. Busy(d) /\ call'[d] = call[d] /\ r # NoCall
      BY <1>3, <1>4, <1>5, <1>9, <2>2
    <3> QED BY <1>3, <1>9, <2>2, <3>1
  <2>3. CASE d # c /\ e # c
    <3>1. /\ Busy(d) /\ call'[d] = call[d]
          /\ Busy(e) /\ call'[e] = call[e]
      BY <1>3, <1>4, <1>5, <1>9, <2>3
    <3> QED BY <1>9, <3>1 DEF AdmissionInv, AdmissionTypeOK
  <2> QED BY <2>1, <2>2, <2>3
<1> QED BY <1>2, <1>6, <1>7, <1>8, <1>9

\* Looking through the leases takes none that work goes on under.
LEMMA LookingThroughCovers ==
    ASSUME AdmissionInv, LimitAssumption, NEW d \in Call, Busy(d), NEW t \in Nat, t <= clock,
           NEW rows, LiveLeases(t) \subseteq rows
    PROVE  CoveredBy(call[d], rows, retired)
<1>1. call[d] \in Request
  BY DEF AdmissionInv, Types, Busy, NoCall
<1>2. InTime(call[d]) /\ CoveredBy(call[d], leases, retired)
  BY DEF AdmissionInv, Clocks, Covered
<1>3. call[d].until <= Left(call[d]) /\ Left(call[d]) \in Nat /\ clock \in Nat
  BY <1>1 DEF Left, Request, LimitAssumption, AdmissionInv, Types
<1>4. ASSUME NEW l \in leases, l.expires > Left(call[d]) PROVE l \in rows
  <2>1. l.expires \in Nat /\ clock <= call[d].until /\ call[d].until \in Nat
    BY <1>1, <1>2 DEF AdmissionInv, Types, LeaseRow, InTime, Request
  <2>2. l.expires > t
    BY <1>3, <1>4, <2>1
  <2> QED BY <2>2 DEF LiveLeases
<1> QED BY <1>2, <1>4 DEF CoveredBy

\* Rows that go make room.
LEMMA FewerRows ==
    ASSUME AdmissionInv, LimitAssumption, Steady, leases' \subseteq leases, requests' \subseteq requests
    PROVE  /\ Slots'
           /\ leases' \subseteq LeaseRow /\ IsFiniteSet(leases')
           /\ requests' \subseteq RequestRow /\ IsFiniteSet(requests')
<1>1. IsFiniteSet(leases) /\ IsFiniteSet(requests)
  BY DEF AdmissionInv, Types
<1>2. IsFiniteSet(leases') /\ IsFiniteSet(requests') /\ Cardinality(leases') <= Cardinality(leases)
  BY <1>1, FS_Subset
<1>3. Cardinality(leases) \in Nat /\ Cardinality(leases') \in Nat
  BY <1>1, <1>2, FS_CardinalityType
<1>4. Cardinality(leases') <= scenario'.slots
  <2>1. scenario.slots \in Nat /\ Cardinality(leases) <= scenario.slots
    BY DEF AdmissionInv, Slots, Types, CaseType
  <2> QED BY <1>2, <1>3, <2>1 DEF Steady
<1>5. ASSUME NEW u \in User
      PROVE  Cardinality(OfUser(u, requests')) <= Requests /\ Cardinality(OfUser(u, leases')) <= UserSlots
  <2>1. /\ OfUser(u, requests) \in SUBSET requests /\ OfUser(u, leases) \in SUBSET leases
        /\ OfUser(u, requests') \in SUBSET OfUser(u, requests) /\ OfUser(u, leases') \in SUBSET OfUser(u, leases)
    BY DEF OfUser
  <2>2. IsFiniteSet(OfUser(u, requests)) /\ IsFiniteSet(OfUser(u, leases))
    BY <1>1, <2>1, FS_Subset
  <2>3. /\ IsFiniteSet(OfUser(u, requests')) /\ Cardinality(OfUser(u, requests')) <= Cardinality(OfUser(u, requests))
        /\ IsFiniteSet(OfUser(u, leases')) /\ Cardinality(OfUser(u, leases')) <= Cardinality(OfUser(u, leases))
    BY <2>1, <2>2, FS_Subset
  <2>4. /\ Cardinality(OfUser(u, requests)) \in Nat /\ Cardinality(OfUser(u, leases)) \in Nat
        /\ Cardinality(OfUser(u, requests')) \in Nat /\ Cardinality(OfUser(u, leases')) \in Nat
    BY <2>2, <2>3, FS_CardinalityType
  <2>5. Cardinality(OfUser(u, requests)) <= Requests /\ Cardinality(OfUser(u, leases)) <= UserSlots
    BY DEF AdmissionInv, Slots
  <2>6. Requests \in Nat /\ UserSlots \in Nat
    BY DEF LimitAssumption
  <2> QED BY <2>3, <2>4, <2>5, <2>6
<1> QED BY <1>2, <1>4, <1>5 DEF Slots, AdmissionInv, Types, OfUser

-----------------------------------------------------------------------------
(* Every step keeps the invariant.                                         *)

\* The windows are about the limiter alone.
LEMMA WindowsStandStill ==
    ASSUME Windows, UNCHANGED <<clock, entries, granted>>
    PROVE  Windows'
BY DEF Windows, CountedFor

\* A request at the limiter, let through or not.
LEMMA HitKeepsInv ==
    ASSUME AdmissionInv, KeyAssumption, LimitAssumption, Steady,
           NEW c \in Call, NEW u \in User, NEW s \in Source \cup {All},
           scenario.kind = "password" => s \in Source,
           NEW t \in Nat, t <= clock, Hit(c, u, s, t)
    PROVE  AdmissionInv'
<1> DEFINE asked == [step |-> "asking", user |-> u, source |-> s, at |-> clock,
                     until |-> clock + Margin, lease |-> NoLease]
<1>1. UNCHANGED <<clock, requests, leases, retired>>
  BY DEF Hit
<1>2. Types /\ AdmissionTypeOK /\ Windows /\ Clocks /\ Kinds /\ Slots /\ Covered
  BY DEF AdmissionInv
<1>3. /\ Windows'
      /\ \A k \in Key : HitsOf(entries', k) \in Seq(Nat)
      /\ granted' \subseteq HitRow /\ IsFiniteSet(granted')
  BY <1>2, HitKeepsWindows
<1>4. call' = [call EXCEPT ![c] = NoCall] \/ call' = [call EXCEPT ![c] = asked]
  BY DEF Hit, End
<1>5. PICK r \in {NoCall, asked} : call' = [call EXCEPT ![c] = r]
  BY <1>4
<1>6. clock \in Nat /\ clock + Margin \in Nat /\ clock <= clock + Margin
  BY DEF AdmissionInv, Types, LimitAssumption
<1>7. asked \in Request
  BY <1>6 DEF Request, NoLease
<1>8. asked # NoCall /\ asked.lease = NoLease
  BY <1>7 DEF Request, NoCall
<1>9. InTime(asked) /\ OfItsKind(asked) /\ CoveredBy(asked, leases', retired')
  BY <1>6 DEF InTime, OfItsKind, CoveredBy
<1>10. \A d \in Call : Busy(d) => CoveredBy(call[d], leases', retired')
  BY <1>1 DEF AdmissionInv, Covered
<1> HIDE DEF asked
<1>11. /\ r \in Request \cup {NoCall}
       /\ r # NoCall => InTime(r) /\ OfItsKind(r) /\ CoveredBy(r, leases', retired')
       /\ r # NoCall => r.lease = NoLease
  BY <1>7, <1>8, <1>9
<1>12. /\ call' \in [Call -> Request \cup {NoCall}]
       /\ Clocks' /\ Kinds' /\ Covered'
       /\ \A d, e \in Call : d # e /\ Busy(d)' /\ Busy(e)' /\ call'[d].lease # NoLease =>
                                call'[d].lease # call'[e].lease
  BY <1>1, <1>5, <1>10, <1>11, OneMoves
<1>13. /\ Slots'
       /\ leases' \subseteq LeaseRow /\ IsFiniteSet(leases')
       /\ requests' \subseteq RequestRow /\ IsFiniteSet(requests')
  BY <1>1, FewerRows
<1>14. AdmissionTypeOK'
  BY <1>1, <1>2, <1>12 DEF AdmissionTypeOK, OfUser
<1>15. Types'
  BY <1>1, <1>2, <1>3, <1>12, <1>13 DEF Types, Steady
<1> QED BY <1>3, <1>12, <1>13, <1>14, <1>15 DEF AdmissionInv

\* A request goes on or ends, while the limiter and the tables stand still but for what
\* no work goes on under.
LEMMA MoveKeepsInv ==
    ASSUME AdmissionInv, LimitAssumption, Steady,
           NEW c \in Call, NEW r \in Request \cup {NoCall}, call' = [call EXCEPT ![c] = r],
           r # NoCall => InTime(r) /\ OfItsKind(r) /\ CoveredBy(r, leases', retired'),
           r # NoCall /\ r.lease # NoLease =>
               \A d \in Call \ {c} : Busy(d) => call[d].lease # r.lease,
           \A d \in Call \ {c} : Busy(d) => CoveredBy(call[d], leases', retired'),
           UNCHANGED <<clock, entries, granted, retired>>,
           leases' \subseteq leases, requests' \subseteq requests
    PROVE  AdmissionInv'
<1>1. Types /\ AdmissionTypeOK /\ Windows
  BY DEF AdmissionInv
<1>2. /\ call' \in [Call -> Request \cup {NoCall}]
      /\ Clocks' /\ Kinds' /\ Covered'
      /\ \A d, e \in Call : d # e /\ Busy(d)' /\ Busy(e)' /\ call'[d].lease # NoLease =>
                               call'[d].lease # call'[e].lease
  BY OneMoves
<1>3. /\ Slots'
      /\ leases' \subseteq LeaseRow /\ IsFiniteSet(leases')
      /\ requests' \subseteq RequestRow /\ IsFiniteSet(requests')
  BY FewerRows
<1>4. AdmissionTypeOK'
  BY <1>1, <1>2 DEF AdmissionTypeOK, OfUser
<1>5. Types'
  BY <1>1, <1>2, <1>3 DEF Types, Steady
<1>6. Windows'
  BY <1>1, WindowsStandStill
<1> QED BY <1>2, <1>3, <1>4, <1>5, <1>6 DEF AdmissionInv

\* A request that goes on keeps its lease, which no other has.
LEMMA OwnLease ==
    ASSUME AdmissionInv, NEW c \in Call, Busy(c)
    PROVE  /\ call[c] \in Request
           /\ InTime(call[c]) /\ OfItsKind(call[c]) /\ CoveredBy(call[c], leases, retired)
           /\ call[c].lease # NoLease => \A d \in Call \ {c} : Busy(d) => call[d].lease # call[c].lease
<1>1. call[c] \in Request
  BY DEF AdmissionInv, Types, Busy, NoCall
<1> QED BY <1>1 DEF AdmissionInv, Clocks, Kinds, Covered, AdmissionTypeOK

LEMMA ArriveKeeps ==
    ASSUME AdmissionInv, KeyAssumption, LimitAssumption,
           NEW c \in Call, NEW u \in User, RequestArrives(c, u)
    PROVE  AdmissionInv'
<1>1. Steady /\ clock \in Nat
  BY BoundsAreSteady DEF AdmissionInv, Types, RequestArrives
<1>2. Hit(c, u, All, clock) /\ scenario.kind # "password"
  BY DEF RequestArrives
<1> QED BY <1>1, <1>2, HitKeepsInv

LEMMA ReserveKeeps ==
    ASSUME AdmissionInv, KeyAssumption, LimitAssumption, NEW c \in Call, Reserve(c)
    PROVE  AdmissionInv'
<1>1. Steady
  BY BoundsAreSteady DEF AdmissionInv, Reserve
<1>2. Busy(c) /\ call[c].step = "entering"
  BY DEF Reserve, Busy
<1>3. /\ call[c].user \in User /\ call[c].at \in Nat /\ call[c].at <= clock
      /\ call[c].source \in Source
  BY <1>2, OwnLease DEF Request, InTime, OfItsKind
<1>4. Hit(c, call[c].user, call[c].source, call[c].at)
  BY DEF Reserve
<1> QED BY <1>1, <1>3, <1>4, HitKeepsInv

LEMMA EnterKeeps ==
    ASSUME AdmissionInv, LimitAssumption, NEW c \in Call, NEW u \in User, NEW s \in Source, Enter(c, u, s)
    PROVE  AdmissionInv'
<1> DEFINE r == [step |-> "entering", user |-> u, source |-> s, at |-> clock,
                 until |-> clock + Margin, lease |-> NoLease]
<1>1. Steady
  BY BoundsAreSteady DEF AdmissionInv, Enter
<1>2. /\ call' = [call EXCEPT ![c] = r] /\ scenario.kind = "password"
      /\ UNCHANGED <<clock, entries, swept, requests, leases, retired, granted>>
  BY DEF Enter
<1>3. clock \in Nat /\ clock + Margin \in Nat /\ clock <= clock + Margin
  BY DEF AdmissionInv, Types, LimitAssumption
<1>4. r \in Request /\ r.lease = NoLease
  BY <1>3 DEF Request, NoLease
<1>5. InTime(r) /\ OfItsKind(r) /\ CoveredBy(r, leases', retired')
  BY <1>2, <1>3 DEF InTime, OfItsKind, CoveredBy
<1>6. \A d \in Call \ {c} : Busy(d) => CoveredBy(call[d], leases', retired')
  BY <1>2 DEF AdmissionInv, Covered
<1> HIDE DEF r
<1> QED BY <1>1, <1>2, <1>4, <1>5, <1>6, MoveKeepsInv

\* A password that was right gives back the hits of its user, and their history with them.
LEMMA VerifyKeeps ==
    ASSUME AdmissionInv, LimitAssumption, NEW c \in Call, Verify(c)
    PROVE  AdmissionInv'
<1> DEFINE own == {call[c].user, <<call[c].user, call[c].source>>}
<1>1. /\ Types /\ AdmissionTypeOK /\ Windows
      /\ UNCHANGED <<scenario, clock, swept, requests, leases, retired>>
      /\ call' = [call EXCEPT ![c] = NoCall]
  BY DEF AdmissionInv, Verify, End
<1>2. Steady
  BY <1>1, BoundsAreSteady
<1>3. \A d \in Call \ {c} : Busy(d) => CoveredBy(call[d], leases', retired')
  BY <1>1 DEF AdmissionInv, Covered
<1>4. CASE UNCHANGED <<entries, granted>>
  BY <1>1, <1>2, <1>3, <1>4, MoveKeepsInv
<1>5. CASE /\ entries' = [k \in (DOMAIN entries) \ own |-> entries[k]]
           /\ granted' = {g \in granted : g.key \notin own}
  <2> HIDE DEF own
  <2>1. /\ call' \in [Call -> Request \cup {NoCall}]
        /\ Clocks' /\ Kinds' /\ Covered'
        /\ \A d, e \in Call : d # e /\ Busy(d)' /\ Busy(e)' /\ call'[d].lease # NoLease =>
                                 call'[d].lease # call'[e].lease
    BY <1>1, <1>2, <1>3, OneMoves
  <2>2. /\ Slots'
        /\ leases' \subseteq LeaseRow /\ IsFiniteSet(leases')
        /\ requests' \subseteq RequestRow /\ IsFiniteSet(requests')
    BY <1>1, <1>2, FewerRows
  <2>3. AdmissionTypeOK'
    BY <1>1, <2>1 DEF AdmissionTypeOK, OfUser
  <2>4. \A k \in Key : HitsOf(entries', k) = IF k \in own THEN <<>> ELSE HitsOf(entries, k)
    BY <1>5 DEF HitsOf
  <2>5. \A k \in Key : HitsOf(entries', k) \in Seq(Nat)
    <3>1. <<>> \in Seq(Nat)
      OBVIOUS
    <3>2. \A k \in Key : HitsOf(entries, k) \in Seq(Nat)
      BY <1>1 DEF Types
    <3> QED BY <2>4, <3>1, <3>2
  <2>6. granted' \subseteq HitRow /\ IsFiniteSet(granted')
    BY <1>1, <1>5, FS_Subset DEF Types
  <2>7. Types'
    BY <1>1, <1>2, <2>1, <2>2, <2>5, <2>6 DEF Types, Steady
  <2>8. Windows'
    <3> SUFFICES ASSUME NEW k \in Key
                 PROVE  /\ Len(HitsOf(entries', k)) <= Allowed(k)
                        /\ \A s \in Nat : s >= clock =>
                               Cardinality(AliveIn(HitsOf(entries', k), s)) =
                                   Cardinality(CountedFor(k, s)')
      BY <1>1 DEF Windows
    <3>1. CASE k \in own
      <4>1. HitsOf(entries', k) = <<>>
        BY <2>4, <3>1
      <4>2. Len(<<>>) <= Allowed(k)
        BY AllowedType
      <4>3. \A s \in Nat : AliveIn(<<>>, s) = {} /\ CountedFor(k, s)' = {}
        BY <1>5, <3>1 DEF AliveIn, CountedFor
      <4> QED BY <4>1, <4>2, <4>3
    <3>2. CASE k \notin own
      <4>1. \A s \in Nat : CountedFor(k, s)' = CountedFor(k, s)
        BY <1>5, <3>2 DEF CountedFor
      <4> QED BY <1>1, <2>4, <3>2, <4>1 DEF Windows
    <3> QED BY <3>1, <3>2
  <2> QED BY <2>1, <2>2, <2>3, <2>7, <2>8 DEF AdmissionInv
<1> QED BY <1>4, <1>5 DEF Verify

LEMMA AtMostOneMore ==
    ASSUME NEW S, IsFiniteSet(S), NEW x
    PROVE  /\ IsFiniteSet(S \cup {x})
           /\ Cardinality(S \cup {x}) \in Nat
           /\ Cardinality(S \cup {x}) <= Cardinality(S) + 1
<1>1. Cardinality(S) \in Nat
  BY FS_CardinalityType
<1>2. /\ IsFiniteSet(S \cup {x})
      /\ Cardinality(S \cup {x}) = IF x \in S THEN Cardinality(S) ELSE Cardinality(S) + 1
  BY FS_AddElement
<1> QED BY <1>1, <1>2

\* Fewer rows, fewer of a user.
LEMMA FewerOfUser ==
    ASSUME NEW rows, IsFiniteSet(rows), NEW fewer \in SUBSET rows, NEW v
    PROVE  /\ IsFiniteSet(OfUser(v, fewer))
           /\ Cardinality(OfUser(v, fewer)) \in Nat /\ Cardinality(OfUser(v, rows)) \in Nat
           /\ Cardinality(OfUser(v, fewer)) <= Cardinality(OfUser(v, rows))
<1>1. OfUser(v, rows) \in SUBSET rows /\ OfUser(v, fewer) \in SUBSET OfUser(v, rows)
  BY DEF OfUser
<1>2. IsFiniteSet(OfUser(v, rows))
  BY <1>1, FS_Subset
<1> QED BY <1>1, <1>2, FS_Subset, FS_CardinalityType

\* A row more is one more of its user.
LEMMA OneMoreRow ==
    ASSUME NEW rows, IsFiniteSet(rows), NEW row, NEW v, NEW limit \in Nat,
           Cardinality(OfUser(v, rows)) <= limit,
           row.user = v => Cardinality(OfUser(v, rows)) < limit
    PROVE  Cardinality(OfUser(v, rows \cup {row})) <= limit
<1>1. IsFiniteSet(OfUser(v, rows)) /\ Cardinality(OfUser(v, rows)) \in Nat
  BY FewerOfUser
<1>2. CASE row.user = v
  <2>1. OfUser(v, rows \cup {row}) = OfUser(v, rows) \cup {row}
    BY <1>2 DEF OfUser
  <2>2. /\ Cardinality(OfUser(v, rows) \cup {row}) <= Cardinality(OfUser(v, rows)) + 1
        /\ Cardinality(OfUser(v, rows) \cup {row}) \in Nat
    BY <1>1, AtMostOneMore
  <2>3. Cardinality(OfUser(v, rows)) + 1 <= limit
    BY <1>1, <1>2
  <2>4. Cardinality(OfUser(v, rows) \cup {row}) <= limit
    BY <1>1, <2>2, <2>3
  <2> QED BY <2>1, <2>4
<1>3. CASE row.user # v
  <2>1. OfUser(v, rows \cup {row}) = OfUser(v, rows)
    BY <1>3 DEF OfUser
  <2> QED BY <2>1
<1> QED BY <1>2, <1>3

\* The request that is admitted finds room in its window.
LEMMA CountedFits ==
    ASSUME AdmissionInv, LimitAssumption, NEW u \in User, NEW t \in Nat,
           Cardinality(OfUser(u, Current(t))) < Requests,
           requests' = Current(t) \cup {[id |-> FreshOf(requests), user |-> u, at |-> t]}
    PROVE  /\ requests' \subseteq RequestRow /\ IsFiniteSet(requests')
           /\ \A v \in User : Cardinality(OfUser(v, requests')) <= Requests
<1> DEFINE row == [id |-> FreshOf(requests), user |-> u, at |-> t]
<1>1. requests \subseteq RequestRow /\ IsFiniteSet(requests) /\ Requests \in Nat
  BY DEF AdmissionInv, Types, LimitAssumption
<1>2. Current(t) \in SUBSET requests
  BY DEF Current
<1>3. IsFiniteSet(Current(t))
  BY <1>1, <1>2, FS_Subset
<1>4. row \in RequestRow /\ row.user = u
  BY <1>1, FreshIsFree DEF RequestRow
<1> HIDE DEF row
<1>5. ASSUME NEW v \in User PROVE Cardinality(OfUser(v, Current(t) \cup {row})) <= Requests
  <2>1. /\ Cardinality(OfUser(v, Current(t))) <= Cardinality(OfUser(v, requests))
        /\ Cardinality(OfUser(v, Current(t))) \in Nat /\ Cardinality(OfUser(v, requests)) \in Nat
    BY <1>1, <1>2, FewerOfUser
  <2>2. Cardinality(OfUser(v, requests)) <= Requests
    BY DEF AdmissionInv, Slots
  <2>3. Cardinality(OfUser(v, Current(t))) <= Requests
    BY <1>1, <2>1, <2>2
  <2> QED BY <1>1, <1>3, <1>4, <2>3, OneMoreRow
<1>6. IsFiniteSet(Current(t) \cup {row})
  BY <1>3, FS_AddElement
<1>7. requests' = Current(t) \cup {row}
  BY DEF row
<1> QED BY <1>1, <1>2, <1>4, <1>5, <1>6, <1>7

\* The lease it gets is one no more than allowed.
LEMMA LeaseFits ==
    ASSUME AdmissionInv, LimitAssumption, Steady, NEW u \in User, NEW t \in Nat, Free(u, t),
           NEW lease \in LeaseRow, lease.user = u, leases' = LiveLeases(t) \cup {lease}
    PROVE  /\ leases' \subseteq LeaseRow /\ IsFiniteSet(leases')
           /\ Cardinality(leases') <= scenario'.slots
           /\ \A v \in User : Cardinality(OfUser(v, leases')) <= UserSlots
<1>1. leases \subseteq LeaseRow /\ IsFiniteSet(leases) /\ UserSlots \in Nat /\ scenario.slots \in Nat
  BY DEF AdmissionInv, Types, LimitAssumption, CaseType
<1>2. LiveLeases(t) \in SUBSET leases
  BY DEF LiveLeases
<1>3. IsFiniteSet(LiveLeases(t)) /\ Cardinality(LiveLeases(t)) \in Nat
  BY <1>1, <1>2, FS_Subset, FS_CardinalityType
<1>4. ASSUME NEW v \in User PROVE Cardinality(OfUser(v, LiveLeases(t) \cup {lease})) <= UserSlots
  <2>1. /\ Cardinality(OfUser(v, LiveLeases(t))) <= Cardinality(OfUser(v, leases))
        /\ Cardinality(OfUser(v, LiveLeases(t))) \in Nat /\ Cardinality(OfUser(v, leases)) \in Nat
    BY <1>1, <1>2, FewerOfUser
  <2>2. Cardinality(OfUser(v, leases)) <= UserSlots
    BY DEF AdmissionInv, Slots
  <2>3. Cardinality(OfUser(v, LiveLeases(t))) <= UserSlots
    BY <1>1, <2>1, <2>2
  <2>4. v = u => Cardinality(OfUser(v, LiveLeases(t))) < UserSlots
    BY DEF Free
  <2> QED BY <1>1, <1>3, <2>3, <2>4, OneMoreRow
<1>5. /\ IsFiniteSet(LiveLeases(t) \cup {lease})
      /\ Cardinality(LiveLeases(t) \cup {lease}) <= Cardinality(LiveLeases(t)) + 1
  BY <1>3, AtMostOneMore
<1>6. Cardinality(LiveLeases(t) \cup {lease}) \in Nat
  BY <1>3, AtMostOneMore
<1>7. Cardinality(LiveLeases(t) \cup {lease}) <= scenario'.slots
  <2>1. Cardinality(LiveLeases(t)) < scenario.slots
    BY DEF Free
  <2> QED BY <1>1, <1>3, <1>5, <1>6, <2>1 DEF Steady
<1> QED BY <1>1, <1>2, <1>4, <1>5, <1>7

LEMMA AdmitKeeps ==
    ASSUME AdmissionInv, LimitAssumption, LeaseAssumption, NEW c \in Call, Admit(c)
    PROVE  AdmissionInv'
<1> DEFINE u == call[c].user
           t == call[c].at
           row == [id |-> FreshOf(requests), user |-> u, at |-> t]
           lease == [id |-> NewId, user |-> u, expires |-> t + LeaseTime]
           starts == call[c].step = "asking"
           speech == scenario.kind = "speech"
           next == [call[c] EXCEPT !.lease = lease.id,
                                   !.step = IF speech THEN "reading" ELSE "working",
                                   !.until = clock + IF speech THEN BodyTime ELSE scenario.work]
<1>1. /\ Types /\ AdmissionTypeOK /\ Windows /\ Slots
      /\ UNCHANGED <<scenario, clock, entries, swept, retired, granted>>
      /\ call[c].step \in {"asking", "gone"} /\ scenario.kind # "password"
  BY DEF AdmissionInv, Admit
<1>2. Steady /\ Busy(c) /\ clock \in Nat /\ scenario.work \in Nat /\ call \in [Call -> Request \cup {NoCall}]
  BY <1>1, BoundsAreSteady DEF Busy, Types, CaseType
<1>3. /\ call[c] \in Request /\ InTime(call[c])
  BY <1>2, OwnLease
<1>4. u \in User /\ t \in Nat /\ t <= clock /\ clock <= t + Margin
  BY <1>1, <1>3 DEF Request, InTime
<1>5. \A d \in Call \ {c} : Busy(d) => /\ CoveredBy(call[d], leases, retired)
                                       /\ \A rows : LiveLeases(t) \subseteq rows => CoveredBy(call[d], rows, retired)
  BY <1>4, LookingThroughCovers DEF AdmissionInv, Covered
<1>6. LiveLeases(t) \subseteq leases /\ Current(t) \subseteq requests
  BY DEF LiveLeases, Current
<1>7. /\ NewId \in Nat \ {NoLease}
      /\ \A l \in leases : l.id # NewId
      /\ \A d \in Call : Busy(d) => call[d].lease # NewId
  BY <1>1, NewIdIsFree DEF LimitAssumption
<1>8. /\ {LeaseTime, BodyTime, WorkTime, Margin} \subseteq Nat
      /\ LeaseTime > BodyTime + WorkTime + Margin
  BY DEF LimitAssumption, LeaseAssumption
<1>9. \/ /\ End(c)
         /\ \/ UNCHANGED <<requests, leases>>
            \/ requests' = Current(t) /\ leases' = LiveLeases(t)
      \/ /\ u \notin retired /\ Cardinality(OfUser(u, Current(t))) < Requests
         /\ requests' = Current(t) \cup {row}
         /\ \/ End(c) /\ leases' = LiveLeases(t)
            \/ /\ scenario.kind # "template" /\ Free(u, t)
               /\ leases' = LiveLeases(t) \cup {lease}
               /\ call' = [call EXCEPT ![c] = IF ~starts THEN NoCall ELSE next]
  BY DEF Admit
<1>10. lease \in LeaseRow /\ lease.user = u /\ lease.id = NewId /\ lease.expires = t + LeaseTime
  BY <1>4, <1>7, <1>8 DEF LeaseRow
<1> HIDE DEF lease
<1>11. /\ next \in Request /\ next.lease = NewId /\ next.user = u
       /\ next.step = IF speech THEN "reading" ELSE "working"
       /\ next.until = clock + IF speech THEN BodyTime ELSE scenario.work
       /\ next.at = t
  <2>1. lease.id \in Nat
    BY <1>7, <1>10
  <2>2. clock + BodyTime \in Nat /\ clock + scenario.work \in Nat
    BY <1>2, <1>8
  <2>3. CASE speech
    BY <1>3, <1>10, <2>1, <2>2, <2>3 DEF Request
  <2>4. CASE ~speech
    BY <1>3, <1>10, <2>1, <2>2, <2>4 DEF Request
  <2> QED BY <2>3, <2>4
<1>12. next # NoCall
  BY <1>11 DEF Request, NoCall
<1> HIDE DEF next, row
<1>13. CASE /\ End(c)
            /\ \/ UNCHANGED <<requests, leases>>
               \/ requests' = Current(t) /\ leases' = LiveLeases(t)
  <2>1. \A d \in Call \ {c} : Busy(d) => CoveredBy(call[d], leases', retired')
    BY <1>1, <1>5, <1>13
  <2>2. leases' \subseteq leases /\ requests' \subseteq requests
    BY <1>6, <1>13
  <2> QED BY <1>1, <1>2, <1>13, <2>1, <2>2, MoveKeepsInv DEF End
<1>14. ASSUME u \notin retired, Cardinality(OfUser(u, Current(t))) < Requests,
              requests' = Current(t) \cup {row},
              \/ End(c) /\ leases' = LiveLeases(t)
              \/ /\ scenario.kind # "template" /\ Free(u, t)
                 /\ leases' = LiveLeases(t) \cup {lease}
                 /\ call' = [call EXCEPT ![c] = IF ~starts THEN NoCall ELSE next]
       PROVE  AdmissionInv'
  <2>1. /\ requests' \subseteq RequestRow /\ IsFiniteSet(requests')
        /\ \A v \in User : Cardinality(OfUser(v, requests')) <= Requests
    BY <1>4, <1>14, CountedFits DEF row
  <2>2. /\ leases' \subseteq LeaseRow /\ IsFiniteSet(leases')
        /\ Cardinality(leases') <= scenario'.slots
        /\ \A v \in User : Cardinality(OfUser(v, leases')) <= UserSlots
    <3>1. CASE leases' = LiveLeases(t)
      <4>1. IsFiniteSet(leases) /\ leases \subseteq LeaseRow /\ UserSlots \in Nat /\ scenario.slots \in Nat
        BY <1>1 DEF Types, LimitAssumption, CaseType
      <4>2. IsFiniteSet(leases') /\ Cardinality(leases') <= Cardinality(leases)
        BY <1>6, <3>1, <4>1, FS_Subset
      <4>3. Cardinality(leases) \in Nat /\ Cardinality(leases') \in Nat /\ Cardinality(leases) <= scenario.slots
        BY <1>1, <4>1, <4>2, FS_CardinalityType DEF Slots
      <4>4. Cardinality(leases') <= scenario'.slots
        BY <1>1, <4>1, <4>2, <4>3
      <4>5. ASSUME NEW v \in User PROVE Cardinality(OfUser(v, leases')) <= UserSlots
        <5>1. /\ Cardinality(OfUser(v, leases')) <= Cardinality(OfUser(v, leases))
              /\ Cardinality(OfUser(v, leases')) \in Nat /\ Cardinality(OfUser(v, leases)) \in Nat
          BY <1>6, <3>1, <4>1, FewerOfUser
        <5>2. Cardinality(OfUser(v, leases)) <= UserSlots
          BY <1>1 DEF Slots
        <5> QED BY <4>1, <5>1, <5>2
      <4> QED BY <1>6, <3>1, <4>1, <4>2, <4>4, <4>5
    <3>2. CASE Free(u, t) /\ leases' = LiveLeases(t) \cup {lease}
      BY <1>2, <1>4, <1>10, <3>2, LeaseFits
    <3> QED BY <1>14, <3>1, <3>2
  <2>3. PICK r \in {NoCall, next} :
            /\ call' = [call EXCEPT ![c] = r]
            /\ r = next => lease \in leases' /\ starts /\ scenario.kind # "template"
    BY <1>14, <1>12 DEF End
  <2>4. r = next => InTime(r) /\ OfItsKind(r)
    BY <1>1, <1>2, <1>4, <1>8, <1>11, <2>3 DEF InTime, OfItsKind
  <2>5. r = next => CoveredBy(r, leases', retired')
    <3> SUFFICES ASSUME r = next, ~OutlivesItsLease PROVE CoveredBy(next, leases', retired')
      BY DEF CoveredBy
    <3>1. lease.expires > Left(next)
      <4>1. CASE speech
        <5>1. Left(next) = clock + BodyTime + WorkTime
          BY <1>2, <1>8, <1>11, <4>1 DEF Left
        <5> QED BY <1>2, <1>4, <1>8, <1>10, <5>1
      <4>2. CASE ~speech
        <5>1. Left(next) = clock + scenario.work
          BY <1>2, <1>8, <1>11, <4>2 DEF Left
        <5>2. scenario.kind = "model"
          BY <1>1, <2>3, <4>2 DEF Types, CaseType
        <5>3. scenario.work + Margin < LeaseTime
          BY <1>2, <1>8, <5>2 DEF OutlivesItsLease
        <5> QED BY <1>2, <1>4, <1>8, <1>10, <5>1, <5>3
      <4> QED BY <4>1, <4>2
    <3> QED BY <1>10, <1>11, <2>3, <3>1 DEF CoveredBy
  <2>6. \A d \in Call \ {c} : Busy(d) => CoveredBy(call[d], leases', retired')
    BY <1>1, <1>5, <1>14
  <2>7. /\ call' \in [Call -> Request \cup {NoCall}]
        /\ Clocks' /\ Kinds' /\ Covered'
        /\ \A d, e \in Call : d # e /\ Busy(d)' /\ Busy(e)' /\ call'[d].lease # NoLease =>
                                 call'[d].lease # call'[e].lease
    BY <1>1, <1>2, <1>7, <1>11, <2>3, <2>4, <2>5, <2>6, OneMoves
  <2>8. \A l, m \in leases' : l.id = m.id => l = m
    <3>1. \A l, m \in leases : l.id = m.id => l = m
      BY <1>1 DEF AdmissionTypeOK
    <3> QED BY <1>6, <1>7, <1>10, <1>14, <3>1
  <2>9. \A v \in retired' : OfUser(v, requests' \cup leases') = {}
    <3>1. \A v \in retired : \A x \in requests \cup leases : x.user # v
      BY <1>1 DEF AdmissionTypeOK, OfUser
    <3>2. row.user = u
      BY DEF row
    <3> QED BY <1>1, <1>6, <1>10, <1>14, <3>1, <3>2 DEF OfUser
  <2>10. AdmissionTypeOK'
    BY <2>7, <2>8, <2>9 DEF AdmissionTypeOK
  <2>11. Slots'
    BY <2>1, <2>2 DEF Slots
  <2>12. Types'
    BY <1>1, <2>1, <2>2, <2>7 DEF Types
  <2>13. Windows'
    BY <1>1, WindowsStandStill
  <2> QED BY <2>7, <2>10, <2>11, <2>12, <2>13 DEF AdmissionInv
<1> QED BY <1>9, <1>13, <1>14

\* A request that goes on within what it has left stays covered.
LEMMA GoKeeps ==
    ASSUME AdmissionInv, LimitAssumption, Steady, NEW c \in Call,
           call[c].step \in {"reading", "working"},
           \/ Go(c, "releasing", Margin)
           \/ call[c].step = "reading" /\ Go(c, "working", WorkTime),
           UNCHANGED <<clock, entries, requests, leases, retired, granted>>
    PROVE  AdmissionInv'
<1> DEFINE released == [call[c] EXCEPT !.step = "releasing", !.until = clock + Margin]
           working == [call[c] EXCEPT !.step = "working", !.until = clock + WorkTime]
<1>1. Busy(c) /\ clock \in Nat /\ Margin \in Nat /\ WorkTime \in Nat /\ call \in [Call -> Request \cup {NoCall}]
  BY DEF Busy, AdmissionInv, Types, LimitAssumption
<1>2. /\ call[c] \in Request
      /\ InTime(call[c]) /\ OfItsKind(call[c]) /\ CoveredBy(call[c], leases, retired)
      /\ call[c].lease # NoLease => \A d \in Call \ {c} : Busy(d) => call[d].lease # call[c].lease
  BY <1>1, OwnLease
<1>3. \A d \in Call \ {c} : Busy(d) => CoveredBy(call[d], leases', retired')
  BY DEF AdmissionInv, Covered
<1>4. CASE Go(c, "releasing", Margin)
  <2>1. call' = [call EXCEPT ![c] = released]
    BY <1>1, <1>4 DEF Go
  <2>2. /\ released \in Request /\ released.step = "releasing" /\ released.until = clock + Margin
        /\ released.at = call[c].at /\ released.lease = call[c].lease
    <3>1. clock + Margin \in Nat /\ call[c] \in Request
      BY <1>1, <1>2
    <3> QED BY <3>1 DEF Request
  <2> HIDE DEF released
  <2>3. InTime(released) /\ OfItsKind(released) /\ CoveredBy(released, leases', retired')
    BY <1>1, <1>2, <2>2 DEF InTime, OfItsKind, CoveredBy
  <2> QED BY <1>2, <1>3, <2>1, <2>2, <2>3, MoveKeepsInv
<1>5. CASE call[c].step = "reading" /\ Go(c, "working", WorkTime)
  <2>1. call' = [call EXCEPT ![c] = working]
    BY <1>1, <1>5 DEF Go
  <2>2. /\ working \in Request /\ working.step = "working" /\ working.until = clock + WorkTime
        /\ working.at = call[c].at /\ working.lease = call[c].lease /\ working.user = call[c].user
    <3>1. clock + WorkTime \in Nat /\ call[c] \in Request
      BY <1>1, <1>2
    <3> QED BY <3>1 DEF Request
  <2> HIDE DEF working
  <2>3. InTime(working) /\ OfItsKind(working)
    BY <1>1, <1>2, <2>2 DEF InTime, OfItsKind
  <2>4. Left(working) <= Left(call[c])
    BY <1>1, <1>2, <1>5, <2>2 DEF Left, Request, InTime
  <2>5. Left(working) \in Nat /\ Left(call[c]) \in Nat
    BY <1>1, <1>2, <1>5, <2>2 DEF Left, Request
  <2>6. \A l \in leases : l.expires > Left(call[c]) => l.expires > Left(working)
    <3>1. \A l \in leases : l.expires \in Nat
      BY DEF AdmissionInv, Types, LeaseRow
    <3> QED BY <2>4, <2>5, <3>1
  <2>7. CoveredBy(working, leases', retired')
    BY <1>2, <1>5, <2>2, <2>6 DEF CoveredBy
  <2> QED BY <1>2, <1>3, <2>1, <2>2, <2>3, <2>7, MoveKeepsInv
<1> QED BY <1>4, <1>5

LEMMA RecogniseKeeps ==
    ASSUME AdmissionInv, LimitAssumption, NEW c \in Call, Recognise(c)
    PROVE  AdmissionInv'
<1>1. Steady
  BY BoundsAreSteady DEF AdmissionInv, Recognise
<1> QED BY <1>1, GoKeeps DEF Recognise

LEMMA FinishKeeps ==
    ASSUME AdmissionInv, LimitAssumption, NEW c \in Call, Finish(c)
    PROVE  AdmissionInv'
<1>1. Steady
  BY BoundsAreSteady DEF AdmissionInv, Finish
<1> QED BY <1>1, GoKeeps DEF Finish

LEMMA CancelKeeps ==
    ASSUME AdmissionInv, LimitAssumption, NEW c \in Call, Cancel(c)
    PROVE  AdmissionInv'
<1> DEFINE gone == [call[c] EXCEPT !.step = "gone"]
<1>1. Steady /\ UNCHANGED <<clock, entries, swept, requests, leases, retired, granted>>
  BY BoundsAreSteady DEF AdmissionInv, Cancel
<1>2. CASE call[c].step \in {"reading", "working"} /\ Go(c, "releasing", Margin)
  BY <1>1, <1>2, GoKeeps
<1>3. CASE /\ call[c].step = "asking" /\ scenario.kind = "speech"
           /\ call' = [call EXCEPT ![c].step = "gone"]
  <2>1. Busy(c) /\ call \in [Call -> Request \cup {NoCall}]
    BY <1>3 DEF Busy, AdmissionInv, Types
  <2>2. call[c] \in Request /\ InTime(call[c])
    BY <2>1, OwnLease
  <2>3. call' = [call EXCEPT ![c] = gone]
    BY <1>3, <2>1
  <2>4. /\ gone \in Request /\ gone.step = "gone" /\ gone.lease = call[c].lease
        /\ gone.at = call[c].at /\ gone.until = call[c].until
    BY <2>2 DEF Request
  <2> HIDE DEF gone
  <2>5. gone.lease = NoLease /\ InTime(gone) /\ OfItsKind(gone) /\ CoveredBy(gone, leases', retired')
    BY <1>3, <2>2, <2>4 DEF InTime, OfItsKind, CoveredBy
  <2>6. \A d \in Call \ {c} : Busy(d) => CoveredBy(call[d], leases', retired')
    BY <1>1 DEF AdmissionInv, Covered
  <2> QED BY <1>1, <2>3, <2>4, <2>5, <2>6, MoveKeepsInv
<1> QED BY <1>2, <1>3 DEF Cancel

\* Only the lease of the request that ends is released.
LEMMA ReleaseKeeps ==
    ASSUME AdmissionInv, LimitAssumption, NEW c \in Call, Release(c)
    PROVE  AdmissionInv'
<1>1. /\ Steady /\ UNCHANGED <<clock, entries, swept, requests, retired, granted>>
      /\ leases' = {l \in leases : l.id # call[c].lease}
      /\ call' = [call EXCEPT ![c] = NoCall]
  BY BoundsAreSteady DEF AdmissionInv, Release, End
<1>2. Busy(c)
  BY DEF Release, Busy
<1>3. ASSUME NEW d \in Call \ {c}, Busy(d) PROVE CoveredBy(call[d], leases', retired')
  <2>1. CoveredBy(call[d], leases, retired)
    BY <1>3 DEF AdmissionInv, Covered
  <2>2. \A l \in leases : l.id # NoLease
    BY DEF AdmissionInv, Types, LeaseRow
  <2>3. call[d].lease # NoLease => call[d].lease # call[c].lease
    BY <1>2, <1>3, OwnLease
  <2> QED BY <1>1, <2>1, <2>2, <2>3 DEF CoveredBy
<1> QED BY <1>1, <1>3, MoveKeepsInv

LEMMA ReleaseFailsKeeps ==
    ASSUME AdmissionInv, LimitAssumption, NEW c \in Call, ReleaseFails(c)
    PROVE  AdmissionInv'
<1>1. /\ Steady /\ UNCHANGED <<clock, entries, swept, requests, leases, retired, granted>>
      /\ call' = [call EXCEPT ![c] = NoCall]
  BY BoundsAreSteady DEF AdmissionInv, ReleaseFails, End
<1>2. \A d \in Call \ {c} : Busy(d) => CoveredBy(call[d], leases', retired')
  BY <1>1 DEF AdmissionInv, Covered
<1> QED BY <1>1, <1>2, MoveKeepsInv

\* A restart forgets the windows and the requests, not the tables.
LEMMA CrashKeeps ==
    ASSUME AdmissionInv, LimitAssumption, Crash
    PROVE  AdmissionInv'
<1>1. /\ Steady /\ UNCHANGED <<clock, requests, leases, retired>>
      /\ call' = [d \in Call |-> NoCall] /\ entries' = NoHits /\ granted' = {}
  BY BoundsAreSteady DEF AdmissionInv, Crash
<1>2. Types /\ AdmissionTypeOK
  BY DEF AdmissionInv
<1>3. \A d \in Call : ~Busy(d)'
  BY <1>1 DEF Busy, NoCall
<1>4. Clocks' /\ Kinds' /\ Covered'
  BY <1>3 DEF Clocks, Kinds, Covered
<1>5. AdmissionTypeOK'
  BY <1>1, <1>2, <1>3 DEF AdmissionTypeOK, OfUser
<1>6. /\ Slots'
      /\ leases' \subseteq LeaseRow /\ IsFiniteSet(leases')
      /\ requests' \subseteq RequestRow /\ IsFiniteSet(requests')
  BY <1>1, FewerRows
<1>7. \A k \in Key : HitsOf(entries', k) = <<>>
  BY <1>1 DEF HitsOf, NoHits
<1>8. <<>> \in Seq(Nat) /\ Len(<<>>) = 0
  OBVIOUS
<1>9. Types'
  <2>1. \A k \in Key : HitsOf(entries', k) \in Seq(Nat)
    BY <1>7, <1>8
  <2>2. granted' \subseteq HitRow /\ IsFiniteSet(granted')
    BY <1>1, FS_EmptySet
  <2>3. call' \in [Call -> Request \cup {NoCall}]
    BY <1>1
  <2> QED BY <1>1, <1>2, <1>6, <2>1, <2>2, <2>3 DEF Types, Steady
<1>10. Windows'
  <2>1. \A k \in Key, s \in Nat : AliveIn(HitsOf(entries', k), s) = {} /\ CountedFor(k, s)' = {}
    BY <1>1, <1>7 DEF AliveIn, CountedFor
  <2>2. \A k \in Key : Len(HitsOf(entries', k)) <= Allowed(k)
    BY <1>7, <1>8, AllowedType
  <2> QED BY <2>1, <2>2 DEF Windows
<1> QED BY <1>4, <1>5, <1>6, <1>9, <1>10 DEF AdmissionInv

\* With an account go its rows; nobody else loses one.
LEMMA DeleteKeeps ==
    ASSUME AdmissionInv, LimitAssumption, NEW u \in User, DeleteUser(u)
    PROVE  AdmissionInv'
<1>1. /\ Steady /\ UNCHANGED <<clock, entries, swept, call, granted>>
      /\ retired' = retired \cup {u}
      /\ requests' = requests \ OfUser(u, requests) /\ leases' = leases \ OfUser(u, leases)
  BY BoundsAreSteady DEF AdmissionInv, DeleteUser
<1>2. Types /\ AdmissionTypeOK /\ Windows /\ Clocks /\ Kinds /\ Covered
  BY DEF AdmissionInv
<1>3. /\ Slots'
      /\ leases' \subseteq LeaseRow /\ IsFiniteSet(leases')
      /\ requests' \subseteq RequestRow /\ IsFiniteSet(requests')
  BY <1>1, FewerRows
<1>4. Types'
  BY <1>1, <1>2, <1>3 DEF Types, Steady
<1>5. AdmissionTypeOK'
  BY <1>1, <1>2 DEF AdmissionTypeOK, OfUser, Busy
<1>6. Clocks' /\ Kinds'
  BY <1>1, <1>2 DEF Clocks, Kinds, InTime, OfItsKind, Busy, Steady
<1>7. Covered'
  <2> SUFFICES ASSUME NEW d \in Call, Busy(d)' PROVE CoveredBy(call[d], leases, retired)'
    BY DEF Covered
  <2>1. CoveredBy(call[d], leases, retired) /\ call'[d] = call[d]
    BY <1>1, <1>2 DEF Covered, Busy
  <2>2. \A l \in leases : l.user # u => l \in leases'
    BY <1>1 DEF OfUser
  <2> QED BY <1>1, <2>1, <2>2 DEF CoveredBy, Left, OutlivesItsLease, Steady
<1>8. Windows'
  BY <1>1, <1>2, WindowsStandStill
<1> QED BY <1>3, <1>4, <1>5, <1>6, <1>7, <1>8 DEF AdmissionInv

\* As time passes hits end, in the deques as in the history.
LEMMA TickKeeps ==
    ASSUME AdmissionInv, LimitAssumption, AdmissionTick
    PROVE  AdmissionInv'
<1>1. /\ UNCHANGED <<scenario, entries, swept, requests, leases, retired, call>>
      /\ clock' = clock + 1 /\ granted' = {g \in granted : g.until > clock + 1}
      /\ \A c \in Call : Busy(c) => clock < call[c].until
  BY DEF AdmissionTick
<1>2. Types /\ AdmissionTypeOK /\ Windows /\ Clocks /\ Kinds /\ Covered /\ Slots
  BY DEF AdmissionInv
<1>3. clock \in Nat /\ clock + 1 \in Nat
  BY <1>2 DEF Types
<1>4. granted' \subseteq HitRow /\ IsFiniteSet(granted')
  BY <1>1, <1>2, FS_Subset DEF Types
<1>5. Types'
  BY <1>1, <1>2, <1>3, <1>4 DEF Types
<1>6. AdmissionTypeOK' /\ Slots' /\ Kinds' /\ Covered'
  BY <1>1, <1>2
     DEF AdmissionTypeOK, Slots, Kinds, Covered, Busy, OfUser, OfItsKind, CoveredBy, Left, OutlivesItsLease
<1>7. Clocks'
  <2> SUFFICES ASSUME NEW c \in Call, Busy(c)' PROVE InTime(call[c])'
    BY DEF Clocks
  <2>1. Busy(c) /\ call[c] \in Request /\ InTime(call[c])
    BY <1>1, OwnLease DEF Busy
  <2> QED BY <1>1, <1>3, <2>1 DEF InTime, Request
<1>8. Windows'
  <2> SUFFICES ASSUME NEW k \in Key
               PROVE  /\ Len(HitsOf(entries, k)) <= Allowed(k)
                      /\ \A s \in Nat : s >= clock + 1 =>
                             Cardinality(AliveIn(HitsOf(entries, k), s)) = Cardinality(CountedFor(k, s)')
    BY <1>1 DEF Windows
  <2>1. \A s \in Nat : s >= clock + 1 => CountedFor(k, s)' = CountedFor(k, s)
    <3>1. \A g \in granted : g.until \in Nat
      BY <1>2 DEF Types, HitRow
    <3> QED BY <1>1, <1>3, <3>1 DEF CountedFor
  <2> QED BY <1>2, <1>3, <2>1 DEF Windows
<1> QED BY <1>5, <1>6, <1>7, <1>8 DEF AdmissionInv

-----------------------------------------------------------------------------
(* The theorems.                                                           *)

Assumptions == KeyAssumption /\ LimitAssumption /\ LeaseAssumption /\ KindAssumption

LEMMA InitHasInv ==
    ASSUME Assumptions, AdmissionInit
    PROVE  AdmissionInv
<1>1. /\ scenario \in Scenarios /\ clock = 0
      /\ entries = NoHits /\ granted = {} /\ requests = {} /\ leases = {} /\ retired = {}
      /\ call = [c \in Call |-> NoCall]
  BY DEF AdmissionInit
<1>2. scenario \in CaseType
  BY <1>1 DEF Assumptions, KindAssumption, CaseType
<1>3. \A k \in Key : HitsOf(entries, k) = <<>>
  BY <1>1 DEF HitsOf, NoHits
<1>4. <<>> \in Seq(Nat) /\ Len(<<>>) = 0
  OBVIOUS
<1>5. IsFiniteSet({}) /\ Cardinality({}) = 0
  BY FS_EmptySet
<1>6. \A c \in Call : ~Busy(c)
  BY <1>1 DEF Busy, NoCall
<1>7. Types
  BY <1>1, <1>2, <1>3, <1>4, <1>5 DEF Types
<1>8. AdmissionTypeOK /\ Clocks /\ Kinds /\ Covered
  BY <1>1, <1>6 DEF AdmissionTypeOK, OfUser, Clocks, Kinds, Covered
<1>9. Slots
  <2>1. scenario.slots \in Nat /\ Requests \in Nat /\ UserSlots \in Nat
    BY <1>2 DEF CaseType, Assumptions, LimitAssumption
  <2>2. \A u \in User : OfUser(u, requests) = {} /\ OfUser(u, leases) = {}
    BY <1>1 DEF OfUser
  <2>3. Cardinality(leases) <= scenario.slots
    BY <1>1, <1>5, <2>1
  <2>4. \A u \in User : /\ Cardinality(OfUser(u, requests)) <= Requests
                        /\ Cardinality(OfUser(u, leases)) <= UserSlots
    BY <1>5, <2>1, <2>2
  <2> QED BY <2>3, <2>4 DEF Slots
<1>10. Windows
  <2>1. \A k \in Key, s \in Nat : AliveIn(HitsOf(entries, k), s) = {} /\ CountedFor(k, s) = {}
    BY <1>1, <1>3 DEF AliveIn, CountedFor
  <2>2. \A k \in Key : Len(HitsOf(entries, k)) <= Allowed(k)
    BY <1>3, <1>4, AllowedType DEF Assumptions
  <2> QED BY <2>1, <2>2 DEF Windows
<1> QED BY <1>7, <1>8, <1>9, <1>10 DEF AdmissionInv

LEMMA NextKeepsInv ==
    ASSUME Assumptions, AdmissionInv, [AdmissionNext]_admissionVars
    PROVE  AdmissionInv'
<1>1. KeyAssumption /\ LimitAssumption /\ LeaseAssumption
  BY DEF Assumptions
<1>2. ASSUME NEW c \in Call, NEW u \in User, RequestArrives(c, u) PROVE AdmissionInv'
  BY <1>1, <1>2, ArriveKeeps
<1>3. ASSUME NEW c \in Call, NEW u \in User, NEW s \in Source, Enter(c, u, s) PROVE AdmissionInv'
  BY <1>1, <1>3, EnterKeeps
<1>4. ASSUME NEW c \in Call, Reserve(c) PROVE AdmissionInv'
  BY <1>1, <1>4, ReserveKeeps
<1>5. ASSUME NEW c \in Call, Verify(c) PROVE AdmissionInv'
  BY <1>1, <1>5, VerifyKeeps
<1>6. ASSUME NEW c \in Call, Admit(c) PROVE AdmissionInv'
  BY <1>1, <1>6, AdmitKeeps
<1>7. ASSUME NEW c \in Call, Recognise(c) PROVE AdmissionInv'
  BY <1>1, <1>7, RecogniseKeeps
<1>8. ASSUME NEW c \in Call, Finish(c) PROVE AdmissionInv'
  BY <1>1, <1>8, FinishKeeps
<1>9. ASSUME NEW c \in Call, Cancel(c) PROVE AdmissionInv'
  BY <1>1, <1>9, CancelKeeps
<1>10. ASSUME NEW c \in Call, Release(c) PROVE AdmissionInv'
  BY <1>1, <1>10, ReleaseKeeps
<1>11. ASSUME NEW c \in Call, ReleaseFails(c) PROVE AdmissionInv'
  BY <1>1, <1>11, ReleaseFailsKeeps
<1>12. ASSUME NEW u \in User, DeleteUser(u) PROVE AdmissionInv'
  BY <1>1, <1>12, DeleteKeeps
<1>13. CASE Crash
  BY <1>1, <1>13, CrashKeeps
<1>14. CASE AdmissionTick
  BY <1>1, <1>14, TickKeeps
<1>a. ASSUME NEW r \in adrift, ThreadEnds(r) PROVE AdmissionInv'
  BY <1>a DEF ThreadEnds, AdmissionInv, Types, AdmissionTypeOK, Windows, CountedFor, Clocks, Kinds, Slots,
     Covered, OfUser,
               Busy, InTime, OfItsKind, CoveredBy, Left, OutlivesItsLease
<1>15. CASE UNCHANGED admissionVars
  BY <1>15 DEF admissionVars, AdmissionInv, Types, AdmissionTypeOK, Windows, CountedFor, Clocks, Kinds, Slots,
     Covered, OfUser,
               Busy, InTime, OfItsKind, CoveredBy, Left, OutlivesItsLease
<1> QED
  BY <1>a, <1>2, <1>3, <1>4, <1>5, <1>6, <1>7, <1>8, <1>9, <1>10, <1>11, <1>12, <1>13, <1>14, <1>15 DEF AdmissionNext

\* The tables and the windows stay in order: what the deques hold is what was let
\* through, each request is in time and under a lease that outlives what is left of it
\* (RollingWindowLimiter.reserve, admit_direct_model_request, SttAdmissionController).
THEOREM AdmissionStaysInOrder ==
    ASSUME Assumptions
    PROVE  AdmissionSpec => []AdmissionInv
<1>1. AdmissionInit => AdmissionInv
  BY InitHasInv
<1>2. AdmissionInv /\ [AdmissionNext]_admissionVars => AdmissionInv'
  BY NextKeepsInv
<1> QED BY <1>1, <1>2, PTL DEF AdmissionSpec

-----------------------------------------------------------------------------
(* Recognitions.                                                           *)

\* One request goes on, and it is quick; no thread begins.
LEMMA OneIsQuick ==
    ASSUME Types, Recognitions, Steady, UNCHANGED <<clock, adrift>>,
           NEW c \in Call, NEW r, call' = [call EXCEPT ![c] = r], Quick(r)
    PROVE  Recognitions'
<1>1. /\ \A d \in Call : call'[d] = IF d = c THEN r ELSE call[d]
      /\ scenario'.kind = scenario.kind
  BY DEF Types, Steady
<1>2. ASSUME NEW d \in Call, Busy(d)' PROVE Quick(call[d])'
  <2>1. CASE d = c
    BY <1>1, <2>1 DEF Quick, Left
  <2>2. CASE d # c
    <3>1. call'[d] = call[d] /\ Busy(d)
      BY <1>1, <1>2, <2>2 DEF Busy
    <3>2. Quick(call[d])
      BY <3>1 DEF Recognitions
    <3> QED BY <1>1, <3>1, <3>2 DEF Quick, Left
  <2> QED BY <2>1, <2>2
<1> QED BY <1>2 DEF Recognitions

\* A request that has no work to do, or none any more.
LEMMA NoWorkIsQuick ==
    ASSUME NEW r, r.step \notin {"reading", "working"}
    PROVE  Quick(r)
BY DEF Quick

LEMMA NobodyIsQuick == Quick(NoCall)
BY NoWorkIsQuick DEF NoCall

\* What a thread has left when its request is cancelled.
LEMMA CancelIsQuick ==
    ASSUME AdmissionInv, LimitAssumption, Recognitions, NEW c \in Call, Cancel(c)
    PROVE  Recognitions'
<1>1. Types /\ Steady /\ clock' = clock /\ call \in [Call -> Request \cup {NoCall}]
  BY BoundsAreSteady DEF AdmissionInv, Cancel, Types
<1>2. Busy(c)
  BY DEF Cancel, Busy
<1>3. /\ call[c] \in Request /\ InTime(call[c]) /\ Quick(call[c])
  BY <1>2, OwnLease DEF Recognitions
<1>4. PICK r : /\ call' = [call EXCEPT ![c] = r] /\ r.step \in {"gone", "releasing"}
  <2>1. CASE call' = [call EXCEPT ![c].step = "gone"]
    <3>1. call' = [call EXCEPT ![c] = [call[c] EXCEPT !.step = "gone"]]
      BY <1>1, <2>1
    <3>2. [call[c] EXCEPT !.step = "gone"].step = "gone"
      BY <1>3 DEF Request
    <3> QED BY <3>1, <3>2
  <2>2. CASE Go(c, "releasing", Margin)
    <3>1. call' = [call EXCEPT ![c] = [call[c] EXCEPT !.step = "releasing", !.until = clock + Margin]]
      BY <1>1, <2>2 DEF Go
    <3>2. [call[c] EXCEPT !.step = "releasing", !.until = clock + Margin].step = "releasing"
      BY <1>3 DEF Request
    <3> QED BY <3>1, <3>2
  <2> QED BY <2>1, <2>2 DEF Cancel
<1>5. Quick(r)
  BY <1>4, NoWorkIsQuick
<1>6. CASE adrift' = adrift
  BY <1>1, <1>4, <1>5, <1>6, OneIsQuick
<1> DEFINE drifting == [user |-> call[c].user, until |-> call[c].until, expires |-> call[c].at + LeaseTime]
<1>7. CASE /\ call[c].step = "working" /\ scenario.kind = "speech"
           /\ adrift' = adrift \cup {drifting}
  <2>1. call[c].until < call[c].at + LeaseTime /\ clock <= call[c].until
    BY <1>3, <1>7 DEF Quick, Left, InTime, Request
  <2>2. call[c].user \in User /\ call[c].until \in Nat /\ call[c].at + LeaseTime \in Nat
    BY <1>3 DEF Request, LimitAssumption
  <2>3. /\ drifting \in Thread /\ drifting.until = call[c].until
        /\ drifting.expires = call[c].at + LeaseTime
    BY <2>2 DEF Thread
  <2> HIDE DEF drifting
  <2>4. \A d \in Call : call'[d] = IF d = c THEN r ELSE call[d]
    BY <1>1, <1>4
  <2>5. ASSUME NEW d \in Call, Busy(d)' PROVE Quick(call[d])'
    <3>1. scenario'.kind = scenario.kind
      BY <1>1 DEF Steady
    <3>2. CASE d = c
      BY <1>5, <2>4, <3>1, <3>2 DEF Quick, Left
    <3>3. CASE d # c
      <4>1. call'[d] = call[d] /\ Busy(d)
        BY <2>4, <2>5, <3>3 DEF Busy
      <4>2. Quick(call[d])
        BY <4>1 DEF Recognitions
      <4> QED BY <3>1, <4>1, <4>2 DEF Quick, Left
    <3> QED BY <3>2, <3>3
  <2>6. \A s \in adrift' : s \in Thread /\ clock' <= s.until /\ s.until < s.expires
    BY <1>1, <1>7, <2>1, <2>3 DEF Recognitions
  <2> QED BY <2>5, <2>6 DEF Recognitions
<1> QED BY <1>6, <1>7 DEF Cancel

\* A request that is admitted has time for its upload and its recognition, and keeps it.
LEMMA AdmitIsQuick ==
    ASSUME AdmissionInv, LimitAssumption, LeaseAssumption, Recognitions, NEW c \in Call, Admit(c)
    PROVE  Recognitions'
<1>1. /\ Types /\ Steady /\ UNCHANGED <<clock, adrift>> /\ Busy(c)
      /\ call \in [Call -> Request \cup {NoCall}]
  BY BoundsAreSteady DEF AdmissionInv, Admit, Types, Busy
<1>2. /\ call[c] \in Request /\ InTime(call[c]) /\ call[c].step \in {"asking", "gone"}
  BY <1>1, OwnLease DEF Admit
<1> DEFINE next == [call[c] EXCEPT !.lease = NewId,
                                   !.step = IF scenario.kind = "speech" THEN "reading" ELSE "working",
                                   !.until = clock + IF scenario.kind = "speech"
                                                     THEN BodyTime ELSE scenario.work]
<1>3. call' = [call EXCEPT ![c] = NoCall] \/ call' = [call EXCEPT ![c] = next]
  <2>1. \/ End(c)
        \/ call' = [call EXCEPT ![c] =
              IF ~(call[c].step = "asking") THEN NoCall
              ELSE [@ EXCEPT !.lease = NewId,
                             !.step = IF scenario.kind = "speech" THEN "reading" ELSE "working",
                             !.until = clock + IF scenario.kind = "speech"
                                               THEN BodyTime ELSE scenario.work]]
    BY DEF Admit
  <2> QED BY <1>1, <2>1 DEF End
<1>4. Quick(next)
  <2> SUFFICES ASSUME scenario.kind = "speech" PROVE Quick(next)
    BY DEF Quick
  <2>1. next = [call[c] EXCEPT !.lease = NewId, !.step = "reading", !.until = clock + BodyTime]
    OBVIOUS
  <2>2. next.step = "reading" /\ next.until = clock + BodyTime /\ next.at = call[c].at
    BY <1>2, <2>1 DEF Request
  <2> HIDE DEF next
  <2>3. clock <= call[c].at + Margin /\ clock \in Nat /\ call[c].at \in Nat
    BY <1>1, <1>2 DEF InTime, Types, Request
  <2>4. {LeaseTime, BodyTime, WorkTime, Margin} \subseteq Nat
        /\ LeaseTime > BodyTime + WorkTime + Margin
    BY DEF LimitAssumption, LeaseAssumption
  <2> QED BY <2>2, <2>3, <2>4 DEF Quick, Left
<1> HIDE DEF next
<1> QED BY <1>1, <1>3, <1>4, NobodyIsQuick, OneIsQuick

\* A request whose upload was read in time has time for its recognition.
LEMMA WorkIsQuick ==
    ASSUME AdmissionInv, LimitAssumption, Recognitions, NEW c \in Call, Recognise(c) \/ Finish(c)
    PROVE  Recognitions'
<1>1. /\ Types /\ Steady /\ UNCHANGED <<clock, adrift>> /\ Busy(c)
      /\ call \in [Call -> Request \cup {NoCall}] /\ clock \in Nat
      /\ Margin \in Nat /\ WorkTime \in Nat
  BY BoundsAreSteady DEF AdmissionInv, Recognise, Finish, Types, Busy, LimitAssumption
<1>2. call[c] \in Request /\ InTime(call[c]) /\ Quick(call[c])
  BY <1>1, OwnLease DEF Recognitions
<1> DEFINE released == [call[c] EXCEPT !.step = "releasing", !.until = clock + Margin]
           working == [call[c] EXCEPT !.step = "working", !.until = clock + WorkTime]
<1>3. \/ call' = [call EXCEPT ![c] = released]
      \/ call[c].step = "reading" /\ call' = [call EXCEPT ![c] = working]
  BY <1>1 DEF Recognise, Finish, Go
<1>4. Quick(released)
  <2>1. released.step = "releasing"
    BY <1>2 DEF Request
  <2> QED BY <2>1, NoWorkIsQuick
<1>5. ASSUME call[c].step = "reading" PROVE Quick(working)
  <2>1. working.step = "working" /\ working.until = clock + WorkTime /\ working.at = call[c].at
    BY <1>2 DEF Request
  <2> HIDE DEF working
  <2>2. clock <= call[c].until /\ call[c].until \in Nat
    BY <1>2 DEF InTime, Request
  <2>3. scenario.kind = "speech" => call[c].until + WorkTime < call[c].at + LeaseTime
    BY <1>2, <1>5 DEF Quick, Left
  <2>4. call[c].at + LeaseTime \in Nat
    BY <1>2 DEF LimitAssumption, Request
  <2> QED BY <1>1, <2>1, <2>2, <2>3, <2>4 DEF Quick, Left
<1> HIDE DEF released, working
<1> QED BY <1>1, <1>3, <1>4, <1>5, OneIsQuick

\* Requests that do no work.
LEMMA OthersAreQuick ==
    ASSUME AdmissionInv, Recognitions, NEW c \in Call,
           \/ \E u \in User : RequestArrives(c, u)
           \/ \E u \in User, s \in Source : Enter(c, u, s)
           \/ Reserve(c) \/ Verify(c) \/ Release(c) \/ ReleaseFails(c)
    PROVE  Recognitions'
<1>1. Types
  BY DEF AdmissionInv
<1>2. ASSUME NEW u, NEW s, NEW t, Hit(c, u, s, t), Steady PROVE Recognitions'
  <2> DEFINE asked == [step |-> "asking", user |-> u, source |-> s, at |-> clock,
                       until |-> clock + Margin, lease |-> NoLease]
  <2>1. /\ UNCHANGED <<clock, adrift>>
        /\ call' = [call EXCEPT ![c] = NoCall] \/ call' = [call EXCEPT ![c] = asked]
    BY <1>2 DEF Hit, End
  <2>2. Quick(asked)
    BY NoWorkIsQuick
  <2> HIDE DEF asked
  <2> QED BY <1>1, <1>2, <2>1, <2>2, NobodyIsQuick, OneIsQuick
<1>3. ASSUME NEW u \in User, RequestArrives(c, u) PROVE Recognitions'
  BY <1>2, <1>3, BoundsAreSteady DEF RequestArrives, AdmissionInv
<1>4. ASSUME Reserve(c) PROVE Recognitions'
  BY <1>2, <1>4, BoundsAreSteady DEF Reserve, AdmissionInv
<1>5. ASSUME NEW u \in User, NEW s \in Source, Enter(c, u, s) PROVE Recognitions'
  <2> DEFINE comes == [step |-> "entering", user |-> u, source |-> s, at |-> clock,
                         until |-> clock + Margin, lease |-> NoLease]
  <2>1. Steady /\ UNCHANGED <<clock, adrift>> /\ call' = [call EXCEPT ![c] = comes]
    BY <1>5, BoundsAreSteady DEF Enter, AdmissionInv
  <2>2. Quick(comes)
    BY NoWorkIsQuick
  <2> HIDE DEF comes
  <2> QED BY <1>1, <2>1, <2>2, OneIsQuick
<1>6. ASSUME Verify(c) \/ Release(c) \/ ReleaseFails(c) PROVE Recognitions'
  <2>1. Steady /\ UNCHANGED <<clock, adrift>> /\ call' = [call EXCEPT ![c] = NoCall]
    BY <1>6, BoundsAreSteady DEF Verify, Release, ReleaseFails, End, AdmissionInv
  <2> QED BY <1>1, <2>1, NobodyIsQuick, OneIsQuick
<1> QED BY <1>3, <1>4, <1>5, <1>6

\* Time passes, but not that of a recognition; a restart ends them all.
LEMMA RestIsQuick ==
    ASSUME AdmissionInv, Recognitions,
           \/ \E r \in adrift : ThreadEnds(r)
           \/ \E u \in User : DeleteUser(u)
           \/ Crash \/ AdmissionTick \/ UNCHANGED admissionVars
    PROVE  Recognitions'
<1>1. Types /\ clock \in Nat
  BY DEF AdmissionInv, Types
<1>2. CASE Crash
  <2>1. adrift' = {} /\ \A c \in Call : ~Busy(c)'
    BY <1>2 DEF Crash, Busy, NoCall
  <2> QED BY <2>1 DEF Recognitions
<1>3. ASSUME adrift' \subseteq adrift, UNCHANGED <<clock, call>>, scenario'.kind = scenario.kind
      PROVE  Recognitions'
  BY <1>3 DEF Recognitions, Quick, Left, Busy
<1>4. ASSUME NEW r \in adrift, ThreadEnds(r) PROVE Recognitions'
  BY <1>3, <1>4 DEF ThreadEnds
<1>5. ASSUME NEW u \in User, DeleteUser(u) PROVE Recognitions'
  <2>1. Steady
    BY <1>5, BoundsAreSteady DEF DeleteUser, AdmissionInv
  <2> QED BY <1>3, <1>5, <2>1 DEF DeleteUser, Steady
<1>6. CASE AdmissionTick
  <2>1. /\ clock' = clock + 1 /\ UNCHANGED <<scenario, call, adrift>>
        /\ \A r \in adrift : clock < r.until
    BY <1>6 DEF AdmissionTick
  <2>2. \A r \in adrift : r \in Thread /\ clock + 1 <= r.until /\ r.until < r.expires
    BY <1>1, <2>1 DEF Recognitions, Thread
  <2> QED BY <2>1, <2>2 DEF Recognitions, Quick, Left, Busy
<1>7. CASE UNCHANGED admissionVars
  BY <1>3, <1>7 DEF admissionVars
<1> QED BY <1>2, <1>4, <1>5, <1>6, <1>7

\* No recognition takes longer than its lease was given for, also one whose request was
\* cancelled or whose account was deleted.
LEMMA RecognitionsAreShort ==
    ASSUME Assumptions
    PROVE  AdmissionSpec => []Recognitions
<1>1. ASSUME AdmissionInit PROVE Recognitions
  BY <1>1 DEF AdmissionInit, Recognitions, Busy, NoCall
<1>2. ASSUME AdmissionInv, Recognitions, [AdmissionNext]_admissionVars PROVE Recognitions'
  <2>1. LimitAssumption /\ LeaseAssumption
    BY DEF Assumptions
  <2> QED BY <1>2, <2>1, AdmitIsQuick, WorkIsQuick, CancelIsQuick, OthersAreQuick, RestIsQuick
          DEF AdmissionNext
<1> QED BY <1>1, <1>2, AdmissionStaysInOrder, PTL DEF AdmissionSpec

LEMMA InvHoldsLimits ==
    ASSUME Assumptions, AdmissionInv, Recognitions
    PROVE  LimitsHold
<1>1. Types /\ AdmissionTypeOK /\ Windows /\ Clocks /\ Covered /\ Slots /\ LimitAssumption
  BY DEF AdmissionInv, Assumptions
<1>2. clock \in Nat
  BY <1>1 DEF Types
<1>3. WindowsHold
  <2> SUFFICES ASSUME NEW k \in Key
               PROVE  /\ Cardinality(CountedFor(k, clock)) <= Allowed(k)
                      /\ Cardinality(AliveIn(HitsOf(entries, k), clock)) = Cardinality(CountedFor(k, clock))
    BY DEF WindowsHold, CountedFor, AliveIn
  <2>1. HitsOf(entries, k) \in Seq(Nat)
    BY <1>1 DEF Types
  <2>2. /\ Cardinality(AliveIn(HitsOf(entries, k), clock)) \in Nat
        /\ Cardinality(AliveIn(HitsOf(entries, k), clock)) <= Len(HitsOf(entries, k))
    BY <1>2, <2>1, AppendedIsAlive
  <2>3. /\ Len(HitsOf(entries, k)) <= Allowed(k)
        /\ Cardinality(AliveIn(HitsOf(entries, k), clock)) = Cardinality(CountedFor(k, clock))
    BY <1>1, <1>2 DEF Windows
  <2>4. Len(HitsOf(entries, k)) \in Nat /\ Allowed(k) \in Nat
    BY <1>1, <2>1, AllowedType, LenProperties
  <2> QED BY <2>2, <2>3, <2>4
<1>4. ASSUME NEW u \in User
      PROVE  /\ Cardinality(OfUser(u, Current(clock))) <= Requests
             /\ Cardinality(OfUser(u, LiveLeases(clock))) <= UserSlots
  <2>1. IsFiniteSet(requests) /\ IsFiniteSet(leases)
    BY <1>1 DEF Types
  <2>2. Current(clock) \in SUBSET requests /\ LiveLeases(clock) \in SUBSET leases
    BY DEF Current, LiveLeases
  <2>3. /\ Cardinality(OfUser(u, Current(clock))) <= Cardinality(OfUser(u, requests))
        /\ Cardinality(OfUser(u, Current(clock))) \in Nat /\ Cardinality(OfUser(u, requests)) \in Nat
    BY <2>1, <2>2, FewerOfUser
  <2>4. /\ Cardinality(OfUser(u, LiveLeases(clock))) <= Cardinality(OfUser(u, leases))
        /\ Cardinality(OfUser(u, LiveLeases(clock))) \in Nat /\ Cardinality(OfUser(u, leases)) \in Nat
    BY <2>1, <2>2, FewerOfUser
  <2>5. /\ Cardinality(OfUser(u, requests)) <= Requests /\ Cardinality(OfUser(u, leases)) <= UserSlots
        /\ Requests \in Nat /\ UserSlots \in Nat
    BY <1>1 DEF Slots, LimitAssumption
  <2> QED BY <2>3, <2>4, <2>5
<1>5. Cardinality(LiveLeases(clock)) <= scenario.slots
  <2>1. IsFiniteSet(leases) /\ scenario.slots \in Nat /\ Cardinality(leases) <= scenario.slots
    BY <1>1 DEF Types, CaseType, Slots
  <2>2. LiveLeases(clock) \in SUBSET leases
    BY DEF LiveLeases
  <2>3. IsFiniteSet(LiveLeases(clock)) /\ Cardinality(LiveLeases(clock)) <= Cardinality(leases)
    BY <2>1, <2>2, FS_Subset
  <2>4. Cardinality(LiveLeases(clock)) \in Nat /\ Cardinality(leases) \in Nat
    BY <2>1, <2>3, FS_CardinalityType
  <2> QED BY <2>1, <2>3, <2>4
<1>6. ASSUME NEW c \in Call, call[c].step \in {"reading", "working"}, call[c].user \notin retired
      PROVE  \/ \E l \in LiveLeases(clock) : l.id = call[c].lease /\ l.user = call[c].user
             \/ scenario.kind = "model" /\ scenario.work + Margin >= LeaseTime
  <2>1. Busy(c)
    BY <1>6 DEF Busy
  <2>2. CoveredBy(call[c], LiveLeases(clock), retired)
    BY <1>1, <1>2, <2>1, LookingThroughCovers
  <2> QED BY <1>6, <2>2 DEF CoveredBy, OutlivesItsLease
<1>7. ASSUME NEW c \in Call, call[c].step = "working", scenario.kind = "speech"
      PROVE  clock < call[c].at + LeaseTime
  <2>1. Busy(c)
    BY <1>7 DEF Busy
  <2>2. call[c] \in Request /\ InTime(call[c]) /\ Quick(call[c])
    BY <2>1, OwnLease DEF Recognitions
  <2>3. call[c].until \in Nat /\ call[c].at + LeaseTime \in Nat /\ clock \in Nat
    BY <1>1, <2>2 DEF Request, LimitAssumption, Types
  <2>4. Left(call[c]) = call[c].until
    BY <1>7, <2>3 DEF Left
  <2>5. Left(call[c]) < call[c].at + LeaseTime
    BY <1>7, <2>2 DEF Quick
  <2> QED BY <2>2, <2>3, <2>4, <2>5 DEF InTime
<1>8. ASSUME NEW r \in adrift PROVE clock < r.expires
  BY <1>2 DEF Recognitions, Thread
<1> QED BY <1>1, <1>3, <1>4, <1>5, <1>6, <1>7, <1>8 DEF LimitsHold

\* However stale the clock of a request, whatever is cancelled, crashes or cannot be
\* released: no window and no slot is given away twice; what is done for a request goes on
\* under a lease that is alive, except that of a deleted account and model work that takes
\* longer than the lease; and a recognition that goes on without one, because its request
\* was cancelled or its account deleted, is over before the lease would have ended
\* (RollingWindowLimiter.reserve, admit_direct_model_request, SttAdmissionController.acquire
\* and release, transcribe_audio, LocalSttService.transcribe).
THEOREM AdmissionLimits ==
    ASSUME Assumptions
    PROVE  AdmissionSpec => []LimitsHold
<1>1. AdmissionInv /\ Recognitions => LimitsHold
  BY InvHoldsLimits
<1> QED BY <1>1, AdmissionStaysInOrder, RecognitionsAreShort, PTL

-----------------------------------------------------------------------------
(* DESKTOP                                                                   *)
(* The inductive invariant.                                                  *)

Somebody == Account \cup {NoAccount}
Identities == Somebody \X Nat
Contexts == Nat \X Identities

SettingsRow == [user : Somebody, token : Nat, consents : SUBSET Account, locale : Language]
EventRow == [id : Nat, of : Account, tries : Nat, synced : BOOLEAN]
RoundRow == [locale : Language, generation : Nat]

CollectorPlaces == {"dead", "idle", "polled", "checked"}
SyncPlaces == {"dead", "idle", "waiting", "reading", "read", "batch", "sent", "dropping"}
AdvicePlaces == {"dead", "idle", "asking", "asked", "dropping"}

Places == CollectorPlaces \cup SyncPlaces \cup AdvicePlaces
Memory == SettingsRow \cup EventRow \cup RoundRow \cup {<<>>}

ThreadRow ==
    [at : Places, born : Nat, context : Contexts \cup {<<>>}, was : Memory, got : Language \cup AnswerKinds,
     batch : SUBSET EventRow]

TaskRow ==
    [kind : {"choice", "response"}, at : {"new", "waiting", "putting", "put", "posted"}, number : Nat,
     want : Language \cup Account, context : Contexts, generation : Nat, got : AnswerKinds]

ScreenPlaces ==
    {"down", "door", "entered", "switching", "settled", "main", "stopping", "leaving", "left", "emptying"}

ScreenRow == [at : ScreenPlaces, user : Somebody, token : Nat, locale : Language]

SettingsTyped ==
    /\ saved \in SettingsRow
    /\ epoch \in Nat /\ stopped \in BOOLEAN /\ paused \in BOOLEAN
    /\ confirmed \in [language : Language, for : Identities]

StoreTyped == events \subseteq EventRow /\ cache \subseteq Account /\ results \subseteq Account /\ torn \in BOOLEAN

CountsTyped == requested \in Nat /\ entered \in Nat /\ generation \in Nat

ScreenTyped == screen \in ScreenRow

ServerTyped ==
    /\ owner \in Seq(Account) /\ live \subseteq 1..Len(owner)
    /\ spoken \in [Account -> Language]
    /\ unsure \in BOOLEAN

ChancesTyped == left \in [Chance -> Nat]

ThreadsTyped == thread \in [Workers -> ThreadRow]

TasksTyped ==
    /\ tasks \subseteq TaskRow
    /\ \A t \in tasks : t.want \in IF t.kind = "choice" THEN Language ELSE Account

\* The saved session is one that the server issued to the account.
SessionIsItsUsers ==
    /\ saved.token \in 0..Len(owner)
    /\ saved.token > 0 => saved.user = owner[saved.token]
    /\ saved.user = NoAccount => saved.token = 0
    /\ screen.at \in {"main", "stopping", "leaving", "left"} => saved.user # NoAccount
    /\ screen.at \in {"settled", "switching"} => HasSession(saved)
    /\ screen.at = "main" /\ ~stopped => HasSession(saved)
    /\ screen.at = "stopping" => stopped
    /\ screen.at = "entered" =>
          /\ screen.token \in 1..Len(owner)
          /\ saved.token < screen.token
          /\ screen.user = owner[screen.token]

\* Workers live while the screen is busy with the session they were started for.
Serves(w) ==
    /\ thread[w].at \in CASE w = "collector" -> CollectorPlaces
                          [] w = "sync" -> SyncPlaces
                          [] w = "advice" -> AdvicePlaces
    /\ thread[w].at # "dead" => screen.at \in {"main", "stopping"} /\ thread[w].born <= epoch
    /\ thread[w].at \notin {"dead", "idle"} =>
          /\ thread[w].context \in Contexts
          /\ UserOf(w) = saved.user
          /\ w # "collector" => Token(w) \in 1..Len(owner) /\ saved.user = owner[Token(w)]
    /\ thread[w].at = "dropping" => thread[w].was \in SettingsRow /\ thread[w].was.user = saved.user

WorkersServeOneAccount == \A w \in Workers : Serves(w)

RoundsRemember ==
    /\ sync.at \in {"waiting", "reading", "read"} => sync.was \in RoundRow
    /\ sync.at = "sent" => sync.was \in EventRow /\ sync.got \in {"ok", "failed", "lost", "refused", "full"}
    /\ advice.at = "asked" => advice.got \in {"ok", "failed", "lost", "refused"}

\* Events are numbered.
EventsNumbered ==
    /\ IsFiniteSet(events)
    /\ \A e \in events : e.id \in 1..Cardinality(events)
    /\ \A e, f \in events : e.id = f.id => e = f
    /\ \A e \in events : e.tries <= MaxTries

\* What is still to be sent has attempts left, and is not what has just been sent.
BatchesHaveTries ==
    /\ sync.at \in {"batch", "sent"} =>
          /\ \A b \in sync.batch : \A c \in sync.batch : b.id = c.id => b = c
          /\ \A b \in sync.batch : \A e \in events : b.id = e.id => e.tries < MaxTries
          /\ \A b \in sync.batch : \E e \in events : b.id = e.id
    /\ sync.at = "sent" =>
          /\ \A b \in sync.batch : b.id # sync.was.id
          /\ \A e \in events : sync.was.id = e.id => e.tries < MaxTries
          /\ \E e \in events : sync.was.id = e.id

\* Whose events the store and a batch hold.
EventsAreTheUsers ==
    /\ screen.at \notin {"emptying", "switching"} /\ ~torn => \A e \in events : e.of = saved.user
    /\ sync.at \in {"batch", "sent"} /\ ~torn => \A b \in sync.batch : b.of = saved.user
    /\ EventsReachTheirAccount

OnItsWay(t) == t.kind = "choice" /\ t.at \in {"putting", "put"}
Alive(t) == t.kind = "choice" /\ t.at \in {"waiting", "putting", "put"} /\ Newest(t)

\* One request about the language at a time, the newest choice the last of them.
ChoicesInOrder ==
    /\ generation <= entered /\ entered <= requested
    /\ \A t \in ChoiceTasks :
          /\ t.number <= requested
          /\ t.context[1] <= epoch
          /\ t.context[1] = epoch => t.context = Context /\ screen.at = "main"
          /\ OnItsWay(t) /\ InForce(t.context) => \E n \in ChoiceTasks : Alive(n)
    /\ \A t, u \in ChoiceTasks : OnItsWay(t) /\ OnItsWay(u) => t = u
    /\ sync.at \in {"reading", "read"} => \A t \in ChoiceTasks : ~OnItsWay(t)

Confirms(t) == t.at = "put" /\ t.got = "ok" /\ InForce(t.context)

\* Unless the language may have changed elsewhere, what the server speaks is known
\* here, or on its way.
AtRestKnown ==
    screen.at \in {"settled", "switching", "down"} /\ HasSession(saved) =>
       /\ saved.locale = spoken[saved.user]
       /\ confirmed = [language |-> saved.locale, for |-> Identity(saved)]

InSessionKnown ==
    screen.at = "main" /\ ~stopped =>
       /\ \A t \in ChoiceTasks : Confirms(t) => t.want = spoken[saved.user]
       /\ \/ \E t \in ChoiceTasks : Confirms(t)
          \/ confirmed = [language |-> spoken[saved.user], for |-> Identity(saved)]
       /\ saved.locale = spoken[saved.user] \/ \E t \in ChoiceTasks : Alive(t)

AnswerKnown == sync.at = "read" /\ sync.got \in Language => sync.got = spoken[saved.user]

LanguageKnown == ~unsure => AtRestKnown /\ InSessionKnown /\ AnswerKnown

DesktopTyped ==
    /\ SettingsTyped /\ StoreTyped /\ CountsTyped /\ ScreenTyped
    /\ ServerTyped /\ ChancesTyped /\ ThreadsTyped /\ TasksTyped

DesktopInv ==
    /\ DesktopTyped
    /\ SessionIsItsUsers
    /\ WorkersServeOneAccount
    /\ RoundsRemember
    /\ EventsNumbered
    /\ BatchesHaveTries
    /\ EventsAreTheUsers
    /\ ChoicesInOrder
    /\ LanguageKnown

-----------------------------------------------------------------------------
(* Types.                                                                    *)

LEMMA Initially == ASSUME DesktopInit PROVE DesktopInv
<1> USE NamesAssumption, TriesAssumption, SituationsAssumption
<1>0. PICK case \in Situations :
        /\ saved = [user |-> case.user, token |-> IF case.user = NoAccount THEN 0 ELSE 1,
                    consents |-> case.consents, locale |-> SystemLanguage]
        /\ owner = IF case.user = NoAccount THEN <<>> ELSE <<case.user>>
        /\ left = case.left
  BY DEF DesktopInit
<1>1. /\ live = 1..Len(owner)
      /\ spoken = [a \in Account |-> SystemLanguage]
      /\ epoch = 0 /\ stopped = FALSE /\ paused = FALSE
      /\ events = {} /\ cache = {} /\ torn = FALSE
      /\ requested = 0 /\ entered = 0 /\ generation = 0
      /\ confirmed = [language |-> saved.locale, for |-> Identity(saved)]
      /\ thread = [w \in Workers |-> Dead]
      /\ screen = Screen("down")
      /\ tasks = {} /\ results = {}
      /\ astray = {}
      /\ unsure = FALSE
  BY DEF DesktopInit
<1>2. case.user \in Somebody /\ case.consents \in SUBSET Account /\ case.left \in [Chance -> Nat]
  BY DEF Somebody
<1>3. SettingsTyped /\ StoreTyped /\ CountsTyped /\ ScreenTyped
  BY <1>0, <1>1, <1>2 DEF SettingsTyped, StoreTyped, CountsTyped, ScreenTyped, SettingsRow, Identities,
     Identity, Screen, ScreenRow, ScreenPlaces, Somebody
<1>4. owner \in Seq(Account) /\ Len(owner) \in Nat
  BY <1>0, <1>2 DEF Somebody
<1>5. ServerTyped /\ ChancesTyped
  BY <1>0, <1>1, <1>2, <1>4 DEF ServerTyped, ChancesTyped
<1>6. ThreadsTyped
  BY <1>1 DEF ThreadsTyped, ThreadRow, Dead, Places, Memory, CollectorPlaces, AnswerKinds
<1>7. TasksTyped
  BY <1>1 DEF TasksTyped
<1>8. SessionIsItsUsers
  BY <1>0, <1>1, <1>2, <1>4 DEF SessionIsItsUsers, Screen, Somebody
<1>9. \A w \in Workers : thread[w].at = "dead"
  BY <1>1 DEF Dead
<1>10. WorkersServeOneAccount
  BY <1>9 DEF WorkersServeOneAccount, Serves, Workers, CollectorPlaces, SyncPlaces, AdvicePlaces
<1>11. RoundsRemember
  BY <1>9 DEF RoundsRemember, sync, advice, Workers
<1>12. EventsNumbered
  BY <1>1, FS_EmptySet DEF EventsNumbered
<1>13. BatchesHaveTries
  BY <1>9 DEF BatchesHaveTries, sync, Workers
<1>14. EventsAreTheUsers
  BY <1>1, <1>9 DEF EventsAreTheUsers, sync, Workers, EventsReachTheirAccount
<1>15. ChoicesInOrder
  BY <1>1, <1>9 DEF ChoicesInOrder, ChoiceTasks, sync, Workers
<1>16. LanguageKnown
  BY <1>0, <1>1, <1>2, <1>9 DEF LanguageKnown, AtRestKnown, InSessionKnown, AnswerKnown, sync, Workers, Screen,
     HasSession,
     Somebody, Identity
<1> QED
  BY <1>3, <1>5, <1>6, <1>7, <1>8, <1>10, <1>11, <1>12, <1>13, <1>14, <1>15, <1>16 DEF DesktopInv, DesktopTyped

\* A chance less is still a number of chances.
LEMMA Lessened ==
    ASSUME ChancesTyped
    PROVE  /\ \A what \in Chance : Spend(what) => ChancesTyped'
           /\ \A got : Costs(got) => ChancesTyped'
<1>1. ASSUME NEW what \in Chance, Spend(what) PROVE ChancesTyped'
  <2>1. left[what] - 1 \in Nat
    BY <1>1 DEF Spend, ChancesTyped
  <2> QED BY <1>1, <2>1 DEF Spend, ChancesTyped
<1>2. ASSUME NEW got, Costs(got) PROVE ChancesTyped'
  BY <1>1, <1>2 DEF Costs, Chance, ChancesTyped
<1> QED BY <1>1, <1>2

\* A row of a worker that gets new fields is one.
LEMMA RowsChange ==
    ASSUME NEW r \in ThreadRow
    PROVE  /\ \A at \in Places : [r EXCEPT !.at = at] \in ThreadRow
           /\ \A born \in Nat : [r EXCEPT !.born = born] \in ThreadRow
           /\ \A context \in Contexts : [r EXCEPT !.context = context] \in ThreadRow
           /\ \A was \in Memory : [r EXCEPT !.was = was] \in ThreadRow
           /\ \A got \in Language \cup AnswerKinds : [r EXCEPT !.got = got] \in ThreadRow
           /\ \A batch \in SUBSET EventRow : [r EXCEPT !.batch = batch] \in ThreadRow
  BY DEF ThreadRow

\* What an action does to a worker.
LEMMA WorkersChange ==
    ASSUME ThreadsTyped, NEW w \in Workers
    PROVE  /\ Ends(w) \/ Rests(w) => ThreadsTyped'
           /\ \A at \in Places : GoesTo(w, at) => ThreadsTyped'
           /\ \A at \in Places, got \in Language \cup AnswerKinds :
                 thread' = [thread EXCEPT ![w].at = at, ![w].got = got] => ThreadsTyped'
           /\ \A at \in Places, was \in Memory :
                 thread' = [thread EXCEPT ![w].at = at, ![w].was = was] => ThreadsTyped'
           /\ \A at \in Places, batch \in SUBSET EventRow :
                 thread' = [thread EXCEPT ![w].at = at, ![w].batch = batch] => ThreadsTyped'
           /\ \A at \in Places, context \in Contexts, was \in Memory :
                 thread' = [thread EXCEPT ![w].at = at, ![w].context = context, ![w].was = was] => ThreadsTyped'
           /\ \A at \in Places, was \in Memory, got \in Language \cup AnswerKinds, batch \in SUBSET EventRow :
                 thread' = [thread EXCEPT ![w].at = at, ![w].was = was, ![w].got = got, ![w].batch = batch]
                 => ThreadsTyped'
<1> DEFINE r == thread[w]
<1>1. r \in ThreadRow
  BY DEF ThreadsTyped
<1>2. ASSUME NEW n \in ThreadRow, thread' = [thread EXCEPT ![w] = n] PROVE ThreadsTyped'
  BY <1>2 DEF ThreadsTyped
<1>3. Dead \in ThreadRow
  BY DEF Dead, ThreadRow, Places, CollectorPlaces, Memory, AnswerKinds
<1>4. [[Dead EXCEPT !.at = "idle"] EXCEPT !.born = r.born] \in ThreadRow
  <2>1. r.born \in Nat /\ "idle" \in Places
    BY <1>1 DEF ThreadRow, Places, CollectorPlaces
  <2> QED BY <1>3, <2>1, RowsChange
<1>5. Rests(w) => thread' = [thread EXCEPT ![w] = [[Dead EXCEPT !.at = "idle"] EXCEPT !.born = r.born]]
  BY DEF Rests
<1>6. Ends(w) \/ Rests(w) => ThreadsTyped'
  BY <1>2, <1>3, <1>4, <1>5 DEF Ends
<1>7. ASSUME NEW at \in Places, GoesTo(w, at) PROVE ThreadsTyped'
  BY <1>1, <1>2, <1>7, RowsChange DEF GoesTo
<1>8. ASSUME NEW at \in Places, NEW got \in Language \cup AnswerKinds,
             thread' = [thread EXCEPT ![w].at = at, ![w].got = got]
      PROVE  ThreadsTyped'
  <2>1. [[r EXCEPT !.at = at] EXCEPT !.got = got] \in ThreadRow
    BY <1>1, RowsChange
  <2>2. thread' = [thread EXCEPT ![w] = [[r EXCEPT !.at = at] EXCEPT !.got = got]]
    BY <1>8 DEF ThreadsTyped, ThreadRow
  <2> QED BY <1>2, <2>1, <2>2
<1>9. ASSUME NEW at \in Places, NEW was \in Memory, thread' = [thread EXCEPT ![w].at = at, ![w].was = was]
      PROVE  ThreadsTyped'
  <2>1. [[r EXCEPT !.at = at] EXCEPT !.was = was] \in ThreadRow
    BY <1>1, RowsChange
  <2>2. thread' = [thread EXCEPT ![w] = [[r EXCEPT !.at = at] EXCEPT !.was = was]]
    BY <1>9 DEF ThreadsTyped, ThreadRow
  <2> QED BY <1>2, <2>1, <2>2
<1>10. ASSUME NEW at \in Places, NEW batch \in SUBSET EventRow,
              thread' = [thread EXCEPT ![w].at = at, ![w].batch = batch]
       PROVE  ThreadsTyped'
  <2>1. [[r EXCEPT !.at = at] EXCEPT !.batch = batch] \in ThreadRow
    BY <1>1, RowsChange
  <2>2. thread' = [thread EXCEPT ![w] = [[r EXCEPT !.at = at] EXCEPT !.batch = batch]]
    BY <1>10 DEF ThreadsTyped, ThreadRow
  <2> QED BY <1>2, <2>1, <2>2
<1>11. ASSUME NEW at \in Places, NEW context \in Contexts, NEW was \in Memory,
              thread' = [thread EXCEPT ![w].at = at, ![w].context = context, ![w].was = was]
       PROVE  ThreadsTyped'
  <2>1. [[r EXCEPT !.at = at] EXCEPT !.context = context] \in ThreadRow
    BY <1>1, RowsChange
  <2>2. [[[r EXCEPT !.at = at] EXCEPT !.context = context] EXCEPT !.was = was] \in ThreadRow
    BY <2>1, RowsChange
  <2>3. thread' = [thread EXCEPT ![w] = [[[r EXCEPT !.at = at] EXCEPT !.context = context] EXCEPT !.was = was]]
    BY <1>11 DEF ThreadsTyped, ThreadRow
  <2> QED BY <1>2, <2>2, <2>3
<1>12. ASSUME NEW at \in Places, NEW was \in Memory, NEW got \in Language \cup AnswerKinds,
              NEW batch \in SUBSET EventRow,
              thread' = [thread EXCEPT ![w].at = at, ![w].was = was, ![w].got = got, ![w].batch = batch]
       PROVE  ThreadsTyped'
  <2> DEFINE n == [[[[r EXCEPT !.at = at] EXCEPT !.was = was] EXCEPT !.got = got] EXCEPT !.batch = batch]
  <2>1. [[r EXCEPT !.at = at] EXCEPT !.was = was] \in ThreadRow
    BY <1>1, RowsChange
  <2>2. [[[r EXCEPT !.at = at] EXCEPT !.was = was] EXCEPT !.got = got] \in ThreadRow
    BY <2>1, RowsChange
  <2>3. n \in ThreadRow
    BY <2>2, RowsChange
  <2>4. thread' = [thread EXCEPT ![w] = n]
    BY <1>12 DEF ThreadsTyped, ThreadRow
  <2> QED BY <1>2, <2>3, <2>4
<1> QED BY <1>6, <1>7, <1>8, <1>9, <1>10, <1>11, <1>12

\* A task that gets new fields is a task of its kind.
LEMMA TasksChange ==
    ASSUME TasksTyped, NEW t \in tasks
    PROVE  /\ t \in TaskRow
           /\ \A n \in TaskRow : n.kind = t.kind /\ n.want = t.want /\ Becomes(t, n) => TasksTyped'
           /\ Discards(t) => TasksTyped'
           /\ \A r \in TaskRow :
                 /\ \A at \in {"new", "waiting", "putting", "put", "posted"} :
                       LET n == [r EXCEPT !.at = at] IN n \in TaskRow /\ n.kind = r.kind /\ n.want = r.want
                 /\ \A context \in Contexts :
                       LET n == [r EXCEPT !.context = context] IN n \in TaskRow /\ n.kind = r.kind /\ n.want = r.want
                 /\ \A number \in Nat :
                       LET n == [r EXCEPT !.generation = number]
                       IN  n \in TaskRow /\ n.kind = r.kind /\ n.want = r.want
                 /\ \A got \in AnswerKinds :
                       LET n == [r EXCEPT !.got = got] IN n \in TaskRow /\ n.kind = r.kind /\ n.want = r.want
<1>1. t \in TaskRow /\ t.want \in IF t.kind = "choice" THEN Language ELSE Account
  BY DEF TasksTyped
<1>2. ASSUME NEW n \in TaskRow, n.kind = t.kind, n.want = t.want, Becomes(t, n) PROVE TasksTyped'
  BY <1>1, <1>2 DEF TasksTyped, Becomes
<1>3. Discards(t) => TasksTyped'
  BY DEF TasksTyped, Discards
<1>4. ASSUME NEW r \in TaskRow
      PROVE  /\ \A at \in {"new", "waiting", "putting", "put", "posted"} :
                   LET n == [r EXCEPT !.at = at] IN n \in TaskRow /\ n.kind = r.kind /\ n.want = r.want
             /\ \A context \in Contexts :
                   LET n == [r EXCEPT !.context = context] IN n \in TaskRow /\ n.kind = r.kind /\ n.want = r.want
             /\ \A number \in Nat :
                   LET n == [r EXCEPT !.generation = number]
                       IN  n \in TaskRow /\ n.kind = r.kind /\ n.want = r.want
             /\ \A got \in AnswerKinds :
                   LET n == [r EXCEPT !.got = got] IN n \in TaskRow /\ n.kind = r.kind /\ n.want = r.want
  BY DEF TaskRow
<1> QED BY <1>1, <1>2, <1>3, <1>4

\* Replaced settings are settings.
LEMMA ReplacedTyped ==
    ASSUME SettingsTyped, NEW new \in SettingsRow, Replace(new), paused' \in BOOLEAN
    PROVE  SettingsTyped'
<1>1. new.locale \in Language /\ Identity(new) \in Identities
  BY DEF SettingsRow, Identity, Identities
<1>2. CASE Identity(new) = Identity(saved)
  BY <1>2 DEF SettingsTyped, Replace
<1>3. CASE Identity(new) # Identity(saved)
  <2>1. [language |-> new.locale, for |-> Identity(new)] \in [language : Language, for : Identities]
    BY <1>1
  <2>2. saved' = new /\ epoch' = epoch + 1 /\ stopped' = TRUE
        /\ confirmed' = [language |-> new.locale, for |-> Identity(new)]
    BY <1>3 DEF Replace
  <2> QED BY <2>1, <2>2 DEF SettingsTyped
<1> QED BY <1>2, <1>3

LEMMA RestingSettings ==
    ASSUME NEW s \in SettingsRow
    PROVE  /\ Cleared(s) \in SettingsRow
           /\ [Cleared(s) EXCEPT !.user = NoAccount] \in SettingsRow
           /\ \A l \in Language : [s EXCEPT !.locale = l] \in SettingsRow
           /\ \A u \in Account : [s EXCEPT !.consents = @ \cup {u}] \in SettingsRow
           /\ \A u \in Account, k \in Nat, l \in Language :
                 [s EXCEPT !.user = u, !.token = k, !.locale = l] \in SettingsRow
<1>1. SystemLanguage \in Language
  BY NamesAssumption
<1>2. Cleared(s) \in SettingsRow
  BY <1>1 DEF SettingsRow, Cleared
<1>3. [Cleared(s) EXCEPT !.user = NoAccount] \in SettingsRow
  BY <1>2 DEF SettingsRow, Somebody
<1>4. \A l \in Language : [s EXCEPT !.locale = l] \in SettingsRow
  BY DEF SettingsRow
<1>5. \A u \in Account : [s EXCEPT !.consents = @ \cup {u}] \in SettingsRow
  BY DEF SettingsRow
<1>6. \A u \in Account, k \in Nat, l \in Language : [s EXCEPT !.user = u, !.token = k, !.locale = l] \in SettingsRow
  BY DEF SettingsRow, Somebody
<1> QED BY <1>2, <1>3, <1>4, <1>5, <1>6

\* The identity of the settings is one, and so the context.
LEMMA ContextTyped ==
    ASSUME SettingsTyped
    PROVE  /\ saved.user \in Somebody /\ saved.token \in Nat /\ saved.locale \in Language
           /\ saved.consents \subseteq Account
           /\ Identity(saved) \in Identities /\ Context \in Contexts
  BY DEF SettingsTyped, SettingsRow, Identity, Identities, Context, Contexts

\* An observation more.
LEMMA EnqueuedTyped ==
    ASSUME StoreTyped, EventsNumbered, NEW a \in Account
    PROVE  Enqueued(a) \subseteq EventRow
<1>1. Cardinality(events) + 1 \in Nat
  BY FS_CardinalityType DEF EventsNumbered
<1>2. [id |-> Cardinality(events) + 1, of |-> a, tries |-> 0, synced |-> FALSE] \in EventRow
  BY <1>1 DEF EventRow
<1> QED BY <1>2 DEF Enqueued, StoreTyped

\* What the answer to an event does.
LEMMA SendAnsweredCases ==
    ASSUME SendAnswered, RoundsRemember
    PROVE  \/ Ends("sync") /\ UNCHANGED <<events, cache>>
           \/ /\ events' = {IF e.id = sync.was.id THEN [e EXCEPT !.synced = TRUE] ELSE e : e \in events}
              /\ cache' \in {cache, cache \cup {UserOf("sync")}}
              /\ GoesTo("sync", "batch")
           \/ /\ Serving("sync")
              /\ thread' = [thread EXCEPT !["sync"].at = "dropping", !["sync"].was = saved]
              /\ UNCHANGED <<events, cache>>
           \/ Rests("sync") /\ UNCHANGED <<events, cache>>
           \/ /\ events' = {IF e.id = sync.was.id THEN [e EXCEPT !.tries = @ + 1] ELSE e : e \in events}
              /\ UNCHANGED cache
              /\ GoesTo("sync", "batch")
<1>1. sync.at = "sent" /\ sync.got \in {"ok", "failed", "lost", "refused", "full"}
  BY DEF SendAnswered, RoundsRemember
<1>2. CASE ~Serving("sync")
  BY <1>2 DEF SendAnswered
<1>3. CASE Serving("sync") /\ sync.got = "ok"
  BY <1>3 DEF SendAnswered
<1>4. CASE Serving("sync") /\ sync.got = "refused"
  BY <1>4 DEF SendAnswered
<1>5. CASE Serving("sync") /\ sync.got = "full"
  BY <1>5 DEF SendAnswered
<1>6. CASE Serving("sync") /\ sync.got \in {"failed", "lost"}
  BY <1>6 DEF SendAnswered
<1> QED BY <1>1, <1>2, <1>3, <1>4, <1>5, <1>6

\* What the answer to a question for advice does.
LEMMA AdviceAnsweredCases ==
    ASSUME AdviceAnswered, RoundsRemember
    PROVE  \/ Ends("advice") /\ UNCHANGED cache
           \/ Rests("advice") /\ cache' \in {cache, cache \cup {UserOf("advice")}}
           \/ /\ Serving("advice")
              /\ thread' = [thread EXCEPT !["advice"].at = "dropping", !["advice"].was = saved]
              /\ UNCHANGED cache
<1>1. advice.at = "asked" /\ advice.got \in {"ok", "failed", "lost", "refused"}
  BY DEF AdviceAnswered, RoundsRemember
<1>2. CASE ~Serving("advice")
  BY <1>2 DEF AdviceAnswered
<1>3. CASE Serving("advice") /\ advice.got = "ok"
  BY <1>3 DEF AdviceAnswered
<1>4. CASE Serving("advice") /\ advice.got = "refused"
  BY <1>4 DEF AdviceAnswered
<1>5. CASE Serving("advice") /\ advice.got \in {"failed", "lost"}
  BY <1>5 DEF AdviceAnswered
<1> QED BY <1>1, <1>2, <1>3, <1>4, <1>5

\* The chances that are left.
LEMMA ChancesTypedKept ==
    ASSUME DesktopInv, [DesktopNext]_desktopVars
    PROVE  ChancesTyped'
<1>a. DesktopTyped /\ ChancesTyped
  BY DEF DesktopInv, DesktopTyped
<1>1. ASSUME UNCHANGED <<left>> PROVE ChancesTyped'
  BY <1>1, <1>a DEF ChancesTyped
<1>2. ASSUME Checks \/ Collects \/ Locks \/ OvertakenWhileReading \/ Refreshes \/ BatchEnds \/ SendAnswered \/
      AdviceAnswered \/ Shows \/ Joined \/ Forgets \/ Empties \/ Adopts \/ Switches \/ Consents \/ Starts \/
      (\E t \in tasks : Enters(t) \/ Takes(t) \/ Settles(t) \/ Posted(t)) \/
      (\E w \in Workers : LoopEnds(w) \/ Drops(w))
      PROVE  UNCHANGED <<left>>
  BY <1>2 DEF Checks, Collects, Locks, OvertakenWhileReading, Refreshes, BatchEnds, SendAnswered,
     AdviceAnswered, Enters, Takes, Settles, Posted, Shows, Joined, Forgets, Empties, Adopts, Switches,
     Consents, Starts, LoopEnds, Drops, agent, store, language, sessions, voice, threads
<1>3. ASSUME Poll PROVE ChancesTyped'
  BY <1>3, <1>a, Lessened DEF Poll, Chance, Begins, agent, store, language, sessions, voice, threads
<1>4. ASSUME SyncBegins PROVE ChancesTyped'
  BY <1>4, <1>a, Lessened DEF SyncBegins, Chance, Begins, agent, store, language, sessions, voice, threads
<1>5. ASSUME Reads PROVE ChancesTyped'
  BY <1>5, <1>a, Lessened DEF Reads, Chance, AnswersTo, agent, store, language, sessions, voice, threads
<1>6. ASSUME Sends PROVE ChancesTyped'
  BY <1>6, <1>a, Lessened DEF Sends, Chance, AnswersTo, agent, store, language, sessions, voice, threads
<1>7. ASSUME AdviceBegins PROVE ChancesTyped'
  BY <1>7, <1>a, Lessened DEF AdviceBegins, Chance, Begins, agent, store, language, sessions, voice, threads
<1>8. ASSUME AdviceAsks PROVE ChancesTyped'
  BY <1>8, <1>a, Lessened DEF AdviceAsks, Chance, AnswersTo, agent, store, language, sessions, voice, threads
<1>9. ASSUME Chooses PROVE ChancesTyped'
  BY <1>9, <1>a, Lessened DEF Chooses, Chance, Task, agent, store, language, sessions, voice, threads
<1>10. ASSUME NEW t \in tasks, Puts(t) PROVE ChancesTyped'
  BY <1>10, <1>a, Lessened DEF Puts, Chance, Becomes, AnswersTo, agent, store, language, sessions, voice,
     threads
<1>11. ASSUME Responds PROVE ChancesTyped'
  BY <1>11, <1>a, Lessened DEF Responds, Chance, Task, agent, store, language, sessions, voice, threads
<1>12. ASSUME NEW t \in tasks, Posts(t) PROVE ChancesTyped'
  BY <1>12, <1>a, Lessened DEF Posts, Chance, Becomes, AnswersTo, agent, store, language, sessions, voice,
     threads
<1>13. ASSUME SubmitProblem PROVE ChancesTyped'
  BY <1>13, <1>a, Lessened DEF SubmitProblem, Chance, Enqueued, agent, store, language, sessions, voice, threads
<1>14. ASSUME ScreenStops PROVE ChancesTyped'
  BY <1>14, <1>a, Lessened DEF ScreenStops, Chance, ChancesTyped, Enqueued, Screen, agent, store, language,
     sessions, voice, threads
<1>15. ASSUME JoinTimesOut PROVE ChancesTyped'
  BY <1>15, <1>a, Lessened DEF JoinTimesOut, Chance, Screen, agent, store, language, sessions, voice, threads
<1>16. ASSUME Leaves PROVE ChancesTyped'
  BY <1>16, <1>a, Lessened DEF Leaves, Chance, Screen, AnswersTo, agent, store, language, sessions, voice,
     threads
<1>17. ASSUME SignsIn PROVE ChancesTyped'
  BY <1>17, <1>a, Lessened DEF SignsIn, Chance, agent, store, language, sessions, voice, threads
<1>18. ASSUME ProgramDies PROVE ChancesTyped'
  BY <1>18, <1>a, Lessened DEF ProgramDies, Chance, Screen, Dead, Identity, agent, store, language, sessions,
     voice, threads
<1>19. ASSUME Launches PROVE ChancesTyped'
  BY <1>19, <1>a, Lessened DEF Launches, Chance, ChancesTyped, Screen, Replace, Cleared, Identity, AnswersTo,
     agent, store, language, sessions, voice, threads
<1>20. ASSUME Revoke PROVE ChancesTyped'
  BY <1>20, <1>a, Lessened DEF Revoke, Chance, agent, store, language, sessions, voice, threads
<1>21. ASSUME SpeakElsewhere PROVE ChancesTyped'
  BY <1>21, <1>a, Lessened DEF SpeakElsewhere, Chance, agent, store, language, sessions, voice, threads
<1> QED BY <1>1, <1>2, <1>3, <1>4, <1>5, <1>6, <1>7, <1>8, <1>9, <1>10, <1>11, <1>12, <1>13, <1>14, <1>15,
     <1>16, <1>17, <1>18, <1>19, <1>20, <1>21
     DEF DesktopNext, desktopVars, agent, store, language, sessions, voice, threads, Observing, Syncing,
         Advising, Choosing, Responding, SigningOut, SigningIn

\* The server's side.
LEMMA ServerTypedKept ==
    ASSUME DesktopInv, [DesktopNext]_desktopVars
    PROVE  ServerTyped'
<1>a. SettingsTyped /\ ServerTyped /\ TasksTyped
  BY DEF DesktopInv, DesktopTyped
<1>1. ASSUME UNCHANGED <<live, owner, spoken, unsure>> PROVE ServerTyped'
  BY <1>1, <1>a DEF ServerTyped
<1>2. ASSUME Poll \/ Checks \/ Collects \/ SyncBegins \/ Locks \/ Reads \/ OvertakenWhileReading \/
      BatchEnds \/ Sends \/ SendAnswered \/ AdviceBegins \/ AdviceAsks \/ AdviceAnswered \/ Chooses \/
      Responds \/ Shows \/ SubmitProblem \/ ScreenStops \/ Joined \/ JoinTimesOut \/ Forgets \/ Empties \/
      Switches \/ Consents \/ Starts \/
      (\E t \in tasks : Enters(t) \/ Takes(t) \/ Settles(t) \/ Posts(t) \/ Posted(t)) \/
      (\E w \in Workers : LoopEnds(w) \/ Drops(w))
      PROVE  UNCHANGED <<live, owner, spoken, unsure>>
  BY <1>2 DEF Poll, Checks, Collects, SyncBegins, Locks, Reads, OvertakenWhileReading, BatchEnds, Sends,
     SendAnswered, AdviceBegins, AdviceAsks, AdviceAnswered, Chooses, Enters, Takes, Settles, Responds, Posts,
     Posted, Shows, SubmitProblem, ScreenStops, Joined, JoinTimesOut, Forgets, Empties, Switches, Consents,
     Starts, LoopEnds, Drops, agent, store, language, sessions, voice, threads
<1>3. ASSUME Refreshes PROVE ServerTyped'
  BY <1>3, <1>a DEF Refreshes, ServerTyped, Rests, Dead, Pending, agent, store, language, sessions, voice,
     threads
<1>4. ASSUME NEW t \in tasks, Puts(t) PROVE ServerTyped'
  <2>1. t.kind = "choice" => t.want \in Language
    BY <1>a DEF TasksTyped
  <2> QED BY <1>4, <1>a, <2>1 DEF Puts, ServerTyped, sessions, AnswersTo
<1>5. ASSUME Leaves PROVE ServerTyped'
  BY <1>5, <1>a DEF Leaves, ServerTyped, Screen, AnswersTo, agent, store, language, sessions, voice, threads
<1>6. ASSUME SignsIn PROVE ServerTyped'
  <2>1. PICK a \in Account : owner' = Append(owner, a) /\ live' = live \cup {Len(owner')}
    BY <1>6 DEF SignsIn
  <2>2. owner' \in Seq(Account) /\ Len(owner') = Len(owner) + 1 /\ Len(owner) \in Nat
    BY <1>a, <2>1 DEF ServerTyped
  <2>3. live \subseteq 1..Len(owner)
    BY <1>a DEF ServerTyped
  <2>4. ASSUME NEW k \in live' PROVE k \in 1..Len(owner')
    <3>1. k \in 1..Len(owner) \/ k = Len(owner')
      BY <2>1, <2>3, <2>4
    <3> QED BY <2>2, <3>1
  <2> QED BY <1>6, <1>a, <2>2, <2>4 DEF SignsIn, ServerTyped, voice
<1>7. ASSUME Adopts PROVE ServerTyped'
  BY <1>7, <1>a DEF Adopts, ServerTyped, Replace, Identity, Screen, agent, store, language, sessions, voice,
     threads
<1>8. ASSUME ProgramDies PROVE ServerTyped'
  BY <1>8, <1>a DEF ProgramDies, ServerTyped, Screen, Dead, Identity, agent, store, language, sessions, voice,
     threads
<1>9. ASSUME Launches PROVE ServerTyped'
  BY <1>9, <1>a DEF Launches, ServerTyped, Screen, Replace, Cleared, Identity, AnswersTo, agent, store,
     language, sessions, voice, threads
<1>10. ASSUME Revoke PROVE ServerTyped'
  BY <1>10, <1>a DEF Revoke, ServerTyped, agent, store, language, sessions, voice, threads
<1>11. ASSUME SpeakElsewhere PROVE ServerTyped'
  BY <1>11, <1>a DEF SpeakElsewhere, ServerTyped, agent, store, language, sessions, voice, threads
<1> QED BY <1>1, <1>2, <1>3, <1>4, <1>5, <1>6, <1>7, <1>8, <1>9, <1>10, <1>11
     DEF DesktopNext, desktopVars, agent, store, language, sessions, voice, threads, Observing, Syncing,
         Advising, Choosing, Responding, SigningOut, SigningIn

\* Tasks stay tasks.
LEMMA TasksTypedKept ==
    ASSUME DesktopInv, [DesktopNext]_desktopVars
    PROVE  TasksTyped'
<1>a. SettingsTyped /\ CountsTyped /\ StoreTyped /\ ServerTyped /\ TasksTyped
  BY DEF DesktopInv, DesktopTyped
<1>b. Context \in Contexts
  BY <1>a, ContextTyped
<1>1. ASSUME UNCHANGED <<tasks>> PROVE TasksTyped'
  BY <1>1, <1>a DEF TasksTyped
<1>2. ASSUME Poll \/ Checks \/ Collects \/ SyncBegins \/ Locks \/ Reads \/ OvertakenWhileReading \/
      Refreshes \/ BatchEnds \/ Sends \/ SendAnswered \/ AdviceBegins \/ AdviceAsks \/ AdviceAnswered \/
      Shows \/ SubmitProblem \/ ScreenStops \/ Joined \/ JoinTimesOut \/ Leaves \/ Forgets \/ Empties \/
      SignsIn \/ Adopts \/ Switches \/ Consents \/ Starts \/ Launches \/ Revoke \/ SpeakElsewhere \/
      (\E w \in Workers : LoopEnds(w) \/ Drops(w))
      PROVE  UNCHANGED <<tasks>>
  BY <1>2 DEF Poll, Checks, Collects, SyncBegins, Locks, Reads, OvertakenWhileReading, Refreshes, BatchEnds,
     Sends, SendAnswered, AdviceBegins, AdviceAsks, AdviceAnswered, Shows, SubmitProblem, ScreenStops, Joined,
     JoinTimesOut, Leaves, Forgets, Empties, SignsIn, Adopts, Switches, Consents, Starts, Launches, LoopEnds,
     Drops, Revoke, SpeakElsewhere, agent, store, language, sessions, voice, threads
<1>3. ASSUME Chooses PROVE TasksTyped'
  <2>1. PICK l \in Language : tasks' = tasks \cup {Task("choice", requested + 1, l)}
    BY <1>3 DEF Chooses
  <2>2. Task("choice", requested + 1, l) \in TaskRow
    BY <1>a, <1>b DEF Task, TaskRow, CountsTyped, AnswerKinds
  <2> QED BY <1>a, <2>1, <2>2 DEF TasksTyped, Task
<1>4. ASSUME NEW t \in tasks, Enters(t) PROVE TasksTyped'
  <2>1. t \in TaskRow
    BY <1>a, TasksChange
  <2> DEFINE n == [[t EXCEPT !.at = "waiting"] EXCEPT !.generation = generation + 1]
  <2>2. generation + 1 \in Nat
    BY <1>a DEF CountsTyped
  <2>3. [t EXCEPT !.at = "waiting"] \in TaskRow
    BY <1>a, <2>1, TasksChange
  <2>4. n \in TaskRow
    BY <1>a, <2>2, <2>3, TasksChange
  <2>5. n.kind = t.kind /\ n.want = t.want
    BY <2>1 DEF TaskRow
  <2>6. Becomes(t, n) \/ Discards(t)
    BY <1>4 DEF Enters
  <2> QED BY <1>a, <2>4, <2>5, <2>6, TasksChange
<1>5. ASSUME NEW t \in tasks, Takes(t) PROVE TasksTyped'
  <2>1. t \in TaskRow
    BY <1>a, TasksChange
  <2> DEFINE n == [t EXCEPT !.at = "putting"]
  <2>2. n \in TaskRow /\ n.kind = t.kind /\ n.want = t.want
    BY <1>a, <2>1, TasksChange
  <2>3. Becomes(t, n) \/ Discards(t)
    BY <1>5 DEF Takes
  <2> QED BY <1>a, <2>2, <2>3, TasksChange
<1>6. ASSUME NEW t \in tasks, Puts(t) PROVE TasksTyped'
  <2>1. t \in TaskRow
    BY <1>a, TasksChange
  <2>2. PICK got \in AnswerKinds : Becomes(t, [t EXCEPT !.at = "put", !.got = got])
    BY <1>6 DEF Puts, AnswersTo, AnswerKinds
  <2> DEFINE n == [[t EXCEPT !.at = "put"] EXCEPT !.got = got]
  <2>3. n \in TaskRow /\ n.kind = t.kind /\ n.want = t.want
    BY <1>a, <2>1, TasksChange
  <2> QED BY <1>a, <2>2, <2>3, TasksChange
<1>7. ASSUME NEW t \in tasks, Settles(t) PROVE TasksTyped'
  BY <1>7, <1>a, TasksChange DEF Settles
<1>8. ASSUME Responds PROVE TasksTyped'
  <2>1. tasks' = tasks \cup {Task("response", 0, saved.user)} /\ saved.user \in Account
    BY <1>8, <1>a DEF Responds, StoreTyped
  <2>2. Task("response", 0, saved.user) \in TaskRow
    BY <1>b, <2>1 DEF Task, TaskRow, AnswerKinds
  <2> QED BY <1>a, <2>1, <2>2 DEF TasksTyped, Task
<1>9. ASSUME NEW t \in tasks, Posts(t) PROVE TasksTyped'
  <2>1. t \in TaskRow
    BY <1>a, TasksChange
  <2>2. PICK got \in AnswerKinds : Becomes(t, [t EXCEPT !.at = "posted", !.context = Context, !.got = got])
    BY <1>9 DEF Posts, AnswersTo, AnswerKinds
  <2> DEFINE m == [[t EXCEPT !.at = "posted"] EXCEPT !.context = Context]
             n == [m EXCEPT !.got = got]
  <2>3. m \in TaskRow /\ m.kind = t.kind /\ m.want = t.want
    BY <1>a, <1>b, <2>1, TasksChange
  <2>4. n \in TaskRow /\ n.kind = t.kind /\ n.want = t.want
    BY <1>a, <2>3, TasksChange
  <2> QED BY <1>a, <2>2, <2>4, TasksChange
<1>10. ASSUME NEW t \in tasks, Posted(t) PROVE TasksTyped'
  BY <1>10, <1>a, TasksChange DEF Posted
<1>11. ASSUME ProgramDies PROVE TasksTyped'
  BY <1>11 DEF ProgramDies, TasksTyped
<1> QED BY <1>1, <1>2, <1>3, <1>4, <1>5, <1>6, <1>7, <1>8, <1>9, <1>10, <1>11
     DEF DesktopNext, desktopVars, agent, store, language, sessions, voice, threads, Observing, Syncing,
         Advising, Choosing, Responding, SigningOut, SigningIn

\* Counts are numbers.
LEMMA CountsTypedKept ==
    ASSUME DesktopInv, [DesktopNext]_desktopVars
    PROVE  CountsTyped'
<1>a. CountsTyped /\ TasksTyped
  BY DEF DesktopInv, DesktopTyped
<1>1. ASSUME UNCHANGED <<entered, generation, requested>> PROVE CountsTyped'
  BY <1>1, <1>a DEF CountsTyped
<1>2. ASSUME Poll \/ Checks \/ Collects \/ SyncBegins \/ Locks \/ Reads \/ OvertakenWhileReading \/
      Refreshes \/ BatchEnds \/ Sends \/ SendAnswered \/ AdviceBegins \/ AdviceAsks \/ AdviceAnswered \/
      Responds \/ Shows \/ SubmitProblem \/ ScreenStops \/ Joined \/ JoinTimesOut \/ Leaves \/ Forgets \/
      Empties \/ SignsIn \/ Adopts \/ Switches \/ Consents \/ Starts \/ Launches \/ Revoke \/ SpeakElsewhere \/
      (\E t \in tasks : Takes(t) \/ Puts(t) \/ Settles(t) \/ Posts(t) \/ Posted(t)) \/
      (\E w \in Workers : LoopEnds(w) \/ Drops(w))
      PROVE  UNCHANGED <<entered, generation, requested>>
  BY <1>2 DEF Poll, Checks, Collects, SyncBegins, Locks, Reads, OvertakenWhileReading, Refreshes, BatchEnds,
     Sends, SendAnswered, AdviceBegins, AdviceAsks, AdviceAnswered, Takes, Puts, Settles, Responds, Posts,
     Posted, Shows, SubmitProblem, ScreenStops, Joined, JoinTimesOut, Leaves, Forgets, Empties, SignsIn,
     Adopts, Switches, Consents, Starts, Launches, LoopEnds, Drops, Revoke, SpeakElsewhere, agent, store,
     language, sessions, voice, threads
<1>3. ASSUME Chooses PROVE CountsTyped'
  BY <1>3, <1>a DEF Chooses, CountsTyped, Task, agent, store, language, sessions, voice, threads
<1>4. ASSUME NEW t \in tasks, Enters(t) PROVE CountsTyped'
  BY <1>4, <1>a DEF Enters, CountsTyped, TasksTyped, TaskRow, Becomes, Discards, agent, store, language,
     sessions, voice, threads
<1>5. ASSUME ProgramDies PROVE CountsTyped'
  BY <1>5, <1>a DEF ProgramDies, CountsTyped, Screen, Dead, Identity, agent, store, language, sessions, voice,
     threads
<1> QED BY <1>1, <1>2, <1>3, <1>4, <1>5
     DEF DesktopNext, desktopVars, agent, store, language, sessions, voice, threads, Observing, Syncing,
         Advising, Choosing, Responding, SigningOut, SigningIn

\* The screen is one.
LEMMA ScreenTypedKept ==
    ASSUME DesktopInv, [DesktopNext]_desktopVars
    PROVE  ScreenTyped'
<1>a. ScreenTyped /\ ServerTyped
  BY DEF DesktopInv, DesktopTyped
<1>b. SystemLanguage \in Language
  BY NamesAssumption
<1>1. ASSUME UNCHANGED <<screen>> PROVE ScreenTyped'
  BY <1>1, <1>a DEF ScreenTyped
<1>2. ASSUME Poll \/ Checks \/ Collects \/ SyncBegins \/ Locks \/ Reads \/ OvertakenWhileReading \/
      Refreshes \/ BatchEnds \/ Sends \/ SendAnswered \/ AdviceBegins \/ AdviceAsks \/ AdviceAnswered \/
      Chooses \/ Responds \/ Shows \/ SubmitProblem \/ Consents \/ Revoke \/ SpeakElsewhere \/
      (\E t \in tasks : Enters(t) \/ Takes(t) \/ Puts(t) \/ Settles(t) \/ Posts(t) \/ Posted(t)) \/
      (\E w \in Workers : LoopEnds(w) \/ Drops(w))
      PROVE  UNCHANGED <<screen>>
  BY <1>2 DEF Poll, Checks, Collects, SyncBegins, Locks, Reads, OvertakenWhileReading, Refreshes, BatchEnds,
     Sends, SendAnswered, AdviceBegins, AdviceAsks, AdviceAnswered, Chooses, Enters, Takes, Puts, Settles,
     Responds, Posts, Posted, Shows, SubmitProblem, Consents, LoopEnds, Drops, Revoke, SpeakElsewhere, agent,
     store, language, sessions, voice, threads
<1>3. ASSUME ScreenStops PROVE ScreenTyped'
  BY <1>3, <1>a, <1>b DEF ScreenStops, ScreenTyped, ScreenRow, ScreenPlaces, Somebody, Enqueued, Screen, agent,
     store, language, sessions, voice, threads
<1>4. ASSUME Joined PROVE ScreenTyped'
  BY <1>4, <1>a, <1>b DEF Joined, ScreenTyped, ScreenRow, ScreenPlaces, Somebody, Screen, agent, store,
     language, sessions, voice, threads
<1>5. ASSUME JoinTimesOut PROVE ScreenTyped'
  BY <1>5, <1>a, <1>b DEF JoinTimesOut, ScreenTyped, ScreenRow, ScreenPlaces, Somebody, Screen, agent, store,
     language, sessions, voice, threads
<1>6. ASSUME Leaves PROVE ScreenTyped'
  BY <1>6, <1>a, <1>b DEF Leaves, ScreenTyped, ScreenRow, ScreenPlaces, Somebody, Screen, AnswersTo, agent,
     store, language, sessions, voice, threads
<1>7. ASSUME Forgets PROVE ScreenTyped'
  BY <1>7, <1>a, <1>b DEF Forgets, ScreenTyped, ScreenRow, ScreenPlaces, Somebody, Replace, Cleared, Screen,
     Identity, agent, store, language, sessions, voice, threads
<1>8. ASSUME Empties PROVE ScreenTyped'
  BY <1>8, <1>a, <1>b DEF Empties, ScreenTyped, ScreenRow, ScreenPlaces, Somebody, Empty, Screen, agent, store,
     language, sessions, voice, threads
<1>9. ASSUME SignsIn PROVE ScreenTyped'
  <2>1. PICK a \in Account :
          /\ owner' = Append(owner, a)
          /\ screen' \in {screen, [at |-> "entered", user |-> a, token |-> Len(owner'), locale |-> spoken[a]]}
    BY <1>9 DEF SignsIn
  <2>2. Len(owner') \in Nat /\ spoken[a] \in Language
    BY <1>a, <2>1 DEF ServerTyped
  <2> QED BY <1>a, <2>1, <2>2 DEF ScreenTyped, ScreenRow, ScreenPlaces, Somebody
<1>10. ASSUME Adopts PROVE ScreenTyped'
  BY <1>10, <1>a, <1>b DEF Adopts, ScreenTyped, ScreenRow, ScreenPlaces, Somebody, Replace, Identity, Screen,
     agent, store, language, sessions, voice, threads
<1>11. ASSUME Switches PROVE ScreenTyped'
  BY <1>11, <1>a, <1>b DEF Switches, ScreenTyped, ScreenRow, ScreenPlaces, Somebody, Empty, Screen, agent,
     store, language, sessions, voice, threads
<1>12. ASSUME Starts PROVE ScreenTyped'
  BY <1>12, <1>a, <1>b DEF Starts, ScreenTyped, ScreenRow, ScreenPlaces, Somebody, Dead, Screen, agent, store,
     language, sessions, voice, threads
<1>13. ASSUME ProgramDies PROVE ScreenTyped'
  BY <1>13, <1>a, <1>b DEF ProgramDies, ScreenTyped, ScreenRow, ScreenPlaces, Somebody, Screen, Dead, Identity,
     agent, store, language, sessions, voice, threads
<1>14. ASSUME Launches PROVE ScreenTyped'
  BY <1>14, <1>a, <1>b DEF Launches, ScreenTyped, ScreenRow, ScreenPlaces, Somebody, Screen, Replace, Cleared,
     Identity, AnswersTo, agent, store, language, sessions, voice, threads
<1> QED BY <1>1, <1>2, <1>3, <1>4, <1>5, <1>6, <1>7, <1>8, <1>9, <1>10, <1>11, <1>12, <1>13, <1>14
     DEF DesktopNext, desktopVars, agent, store, language, sessions, voice, threads, Observing, Syncing,
         Advising, Choosing, Responding, SigningOut, SigningIn

\* Workers stay workers.
LEMMA ThreadsTypedKept ==
    ASSUME DesktopInv, [DesktopNext]_desktopVars
    PROVE  ThreadsTyped'
<1>a. SettingsTyped /\ CountsTyped /\ StoreTyped /\ ServerTyped /\ ThreadsTyped /\ RoundsRemember
  BY DEF DesktopInv, DesktopTyped
<1>b. /\ "collector" \in Workers /\ "sync" \in Workers /\ "advice" \in Workers
      /\ {"polled", "checked", "waiting", "reading", "read", "batch", "sent", "dropping", "asking",
          "asked"} \subseteq Places
      /\ Dead \in ThreadRow
  BY DEF Workers, Places, CollectorPlaces, SyncPlaces, AdvicePlaces, Dead, ThreadRow, Memory, AnswerKinds
<1>1. ASSUME UNCHANGED <<thread>> PROVE ThreadsTyped'
  BY <1>1, <1>a DEF ThreadsTyped
<1>2. ASSUME Chooses \/ Responds \/ Shows \/ SubmitProblem \/ ScreenStops \/ Joined \/ JoinTimesOut \/
      Leaves \/ Forgets \/ Empties \/ SignsIn \/ Adopts \/ Switches \/ Consents \/ Launches \/ Revoke \/
      SpeakElsewhere \/
      (\E t \in tasks : Enters(t) \/ Takes(t) \/ Puts(t) \/ Settles(t) \/ Posts(t) \/ Posted(t))
      PROVE  UNCHANGED <<thread>>
  BY <1>2 DEF Chooses, Enters, Takes, Puts, Settles, Responds, Posts, Posted, Shows, SubmitProblem,
     ScreenStops, Joined, JoinTimesOut, Leaves, Forgets, Empties, SignsIn, Adopts, Switches, Consents,
     Launches, Revoke, SpeakElsewhere, agent, store, language, sessions, voice, threads
<1>3. ASSUME Poll PROVE ThreadsTyped'
  <2>1. thread' = [thread EXCEPT !["collector"].at = "polled",
                                 !["collector"].context = <<thread["collector"].born, Identity(saved)>>,
                                 !["collector"].was = <<>>]
    BY <1>3 DEF Poll, Begins
  <2>2. <<thread["collector"].born, Identity(saved)>> \in Contexts
    BY <1>a, <1>b, ContextTyped DEF ThreadsTyped, ThreadRow, Contexts
  <2>3. <<>> \in Memory
    BY <1>a, ContextTyped DEF Memory, RoundRow, CountsTyped
  <2> QED BY <1>a, <1>b, <2>1, <2>2, <2>3, WorkersChange
<1>4. ASSUME Checks PROVE ThreadsTyped'
  BY <1>4, <1>a, <1>b, WorkersChange DEF Checks
<1>5. ASSUME Collects PROVE ThreadsTyped'
  BY <1>5, <1>a, <1>b, WorkersChange DEF Collects
<1>6. ASSUME SyncBegins PROVE ThreadsTyped'
  <2>1. thread' = [thread EXCEPT !["sync"].at = "waiting",
                                 !["sync"].context = <<thread["sync"].born, Identity(saved)>>,
                                 !["sync"].was = [locale |-> saved.locale, generation |-> generation]]
    BY <1>6 DEF SyncBegins, Begins
  <2>2. <<thread["sync"].born, Identity(saved)>> \in Contexts
    BY <1>a, <1>b, ContextTyped DEF ThreadsTyped, ThreadRow, Contexts
  <2>3. [locale |-> saved.locale, generation |-> generation] \in Memory
    BY <1>a, ContextTyped DEF Memory, RoundRow, CountsTyped
  <2> QED BY <1>a, <1>b, <2>1, <2>2, <2>3, WorkersChange
<1>7. ASSUME Locks PROVE ThreadsTyped'
  BY <1>7, <1>a, <1>b, WorkersChange DEF Locks
<1>8. ASSUME Reads PROVE ThreadsTyped'
  <2>1. PICK got \in AnswersTo(Token("sync")) :
          thread' = [thread EXCEPT !["sync"].at = "read",
                       !["sync"].got = IF got = "ok" THEN spoken[owner[Token("sync")]] ELSE got]
    BY <1>8 DEF Reads
  <2>2. got = "ok" => spoken[owner[Token("sync")]] \in Language
    BY <1>a, <2>1 DEF AnswersTo, ServerTyped
  <2>3. (IF got = "ok" THEN spoken[owner[Token("sync")]] ELSE got) \in Language \cup AnswerKinds
    BY <2>1, <2>2 DEF AnswersTo, AnswerKinds
  <2> QED BY <1>a, <1>b, <2>1, <2>3, WorkersChange
<1>9. ASSUME OvertakenWhileReading PROVE ThreadsTyped'
  BY <1>9, <1>a, <1>b, WorkersChange DEF OvertakenWhileReading
<1>10. ASSUME Refreshes PROVE ThreadsTyped'
  <2>1. Pending \in SUBSET EventRow
    BY <1>a DEF StoreTyped, Pending
  <2> QED BY <1>10, <1>a, <1>b, <2>1, WorkersChange DEF Refreshes
<1>11. ASSUME BatchEnds PROVE ThreadsTyped'
  BY <1>11, <1>a, <1>b, WorkersChange DEF BatchEnds
<1>12. ASSUME Sends PROVE ThreadsTyped'
  <2>1. PICK e \in sync.batch, got \in AnswerKinds :
          thread' = [thread EXCEPT !["sync"].at = "sent", !["sync"].was = e, !["sync"].got = got,
                                   !["sync"].batch = @ \ {e}]
    BY <1>12 DEF Sends, AnswersTo, AnswerKinds
  <2>2. sync.batch \in SUBSET EventRow
    BY <1>a, <1>b DEF ThreadsTyped, ThreadRow, sync
  <2>3. e \in Memory /\ sync.batch \ {e} \in SUBSET EventRow
    BY <2>1, <2>2 DEF Memory
  <2>4. thread' = [thread EXCEPT !["sync"].at = "sent", !["sync"].was = e, !["sync"].got = got,
                                 !["sync"].batch = sync.batch \ {e}]
    BY <1>a, <1>b, <2>1 DEF sync, ThreadsTyped, ThreadRow
  <2> DEFINE rest == sync.batch \ {e}
             one == [[sync EXCEPT !.at = "sent"] EXCEPT !.was = e]
             two == [[one EXCEPT !.got = got] EXCEPT !.batch = rest]
  <2>5. sync \in ThreadRow
    BY <1>a, <1>b DEF ThreadsTyped, sync
  <2>6. [sync EXCEPT !.at = "sent"] \in ThreadRow
    BY <1>b, <2>5, RowsChange
  <2>7. one \in ThreadRow
    BY <2>3, <2>6, RowsChange
  <2>8. [one EXCEPT !.got = got] \in ThreadRow
    BY <2>1, <2>7, RowsChange
  <2>9. two \in ThreadRow
    BY <2>3, <2>8, RowsChange
  <2>10. thread' = [thread EXCEPT !["sync"] = two]
    BY <1>a, <1>b, <2>4 DEF sync, ThreadsTyped, ThreadRow
  <2> QED BY <1>a, <1>b, <2>9, <2>10 DEF ThreadsTyped
<1>13. ASSUME SendAnswered PROVE ThreadsTyped'
  <2>1. saved \in Memory
    BY <1>a DEF SettingsTyped, Memory
  <2>2. \/ Ends("sync") \/ Rests("sync") \/ GoesTo("sync", "batch")
        \/ thread' = [thread EXCEPT !["sync"].at = "dropping", !["sync"].was = saved]
    BY <1>13, <1>a, SendAnsweredCases
  <2> QED BY <1>a, <1>b, <2>1, <2>2, WorkersChange
<1>14. ASSUME AdviceBegins PROVE ThreadsTyped'
  <2>1. thread' = [thread EXCEPT !["advice"].at = "asking",
                                 !["advice"].context = <<thread["advice"].born, Identity(saved)>>,
                                 !["advice"].was = <<>>]
    BY <1>14 DEF AdviceBegins, Begins
  <2>2. <<thread["advice"].born, Identity(saved)>> \in Contexts
    BY <1>a, <1>b, ContextTyped DEF ThreadsTyped, ThreadRow, Contexts
  <2>3. <<>> \in Memory
    BY <1>a, ContextTyped DEF Memory, RoundRow, CountsTyped
  <2> QED BY <1>a, <1>b, <2>1, <2>2, <2>3, WorkersChange
<1>15. ASSUME AdviceAsks PROVE ThreadsTyped'
  <2>1. PICK got \in AnswerKinds : thread' = [thread EXCEPT !["advice"].at = "asked", !["advice"].got = got]
    BY <1>15 DEF AdviceAsks, AnswersTo, AnswerKinds
  <2> QED BY <1>a, <1>b, <2>1, WorkersChange
<1>16. ASSUME AdviceAnswered PROVE ThreadsTyped'
  <2>1. saved \in Memory
    BY <1>a DEF SettingsTyped, Memory
  <2>2. \/ Ends("advice") \/ Rests("advice")
        \/ thread' = [thread EXCEPT !["advice"].at = "dropping", !["advice"].was = saved]
    BY <1>16, <1>a, AdviceAnsweredCases
  <2> QED BY <1>a, <1>b, <2>1, <2>2, WorkersChange
<1>17. ASSUME Starts PROVE ThreadsTyped'
  <2>1. thread' = [w \in Workers |-> [[Dead EXCEPT !.at = "idle"] EXCEPT !.born = epoch + 1]]
    BY <1>17 DEF Starts
  <2>2. "idle" \in Places /\ epoch + 1 \in Nat
    BY <1>a DEF Places, CollectorPlaces, SettingsTyped
  <2>3. [[Dead EXCEPT !.at = "idle"] EXCEPT !.born = epoch + 1] \in ThreadRow
    BY <1>b, <2>2, RowsChange
  <2> QED BY <2>1, <2>3 DEF ThreadsTyped
<1>18. ASSUME ProgramDies PROVE ThreadsTyped'
  BY <1>18, <1>b DEF ProgramDies, ThreadsTyped
<1>19. ASSUME NEW w \in Workers, LoopEnds(w) PROVE ThreadsTyped'
  BY <1>19, <1>a, WorkersChange DEF LoopEnds
<1>20. ASSUME NEW w \in Workers, Drops(w) PROVE ThreadsTyped'
  BY <1>20, <1>a, WorkersChange DEF Drops
<1> QED BY <1>1, <1>2, <1>3, <1>4, <1>5, <1>6, <1>7, <1>8, <1>9, <1>10, <1>11, <1>12, <1>13, <1>14, <1>15,
     <1>16, <1>17, <1>18, <1>19, <1>20
     DEF DesktopNext, desktopVars, agent, store, language, sessions, voice, threads, Observing, Syncing,
         Advising, Choosing, Responding, SigningOut, SigningIn

\* Settings stay settings.
LEMMA SettingsTypedKept ==
    ASSUME DesktopInv, [DesktopNext]_desktopVars
    PROVE  SettingsTyped'
<1>a. /\ SettingsTyped /\ ScreenTyped /\ ServerTyped /\ ThreadsTyped /\ TasksTyped
      /\ SessionIsItsUsers /\ WorkersServeOneAccount /\ saved \in SettingsRow
  BY DEF DesktopInv, DesktopTyped, SettingsTyped
<1>b. TRUE \in BOOLEAN /\ FALSE \in BOOLEAN /\ Identity(saved) \in Identities /\ saved.locale \in Language
  BY <1>a, ContextTyped
<1>c. \A k \in 1..Len(owner) : owner[k] \in Account
  BY <1>a DEF ServerTyped
<1>1. ASSUME UNCHANGED <<confirmed, epoch, paused, saved, stopped>> PROVE SettingsTyped'
  BY <1>1, <1>a DEF SettingsTyped
<1>2. ASSUME Poll \/ Checks \/ Collects \/ SyncBegins \/ Locks \/ Reads \/ OvertakenWhileReading \/
      BatchEnds \/ Sends \/ SendAnswered \/ AdviceBegins \/ AdviceAsks \/ AdviceAnswered \/ Chooses \/
      Responds \/ Shows \/ SubmitProblem \/ JoinTimesOut \/ Leaves \/ Empties \/ Switches \/ Revoke \/
      SpeakElsewhere \/ (\E t \in tasks : Enters(t) \/ Takes(t) \/ Puts(t) \/ Posts(t) \/ Posted(t)) \/
      (\E w \in Workers : LoopEnds(w))
      PROVE  UNCHANGED <<confirmed, epoch, paused, saved, stopped>>
  BY <1>2 DEF Poll, Checks, Collects, SyncBegins, Locks, Reads, OvertakenWhileReading, BatchEnds, Sends,
     SendAnswered, AdviceBegins, AdviceAsks, AdviceAnswered, Chooses, Enters, Takes, Puts, Responds, Posts,
     Posted, Shows, SubmitProblem, JoinTimesOut, Leaves, Empties, Switches, LoopEnds, Revoke, SpeakElsewhere,
     agent, store, language, sessions, voice, threads
<1>3. ASSUME Refreshes PROVE SettingsTyped'
  <2>1. CASE sync.got \in Language
    <3>1. /\ confirmed' = [language |-> sync.got, for |-> sync.context[2]]
          /\ saved' = [saved EXCEPT !.locale = IF sync.got = sync.was.locale THEN @ ELSE sync.got]
          /\ UNCHANGED <<epoch, stopped, paused>>
      BY <1>3, <2>1 DEF Refreshes
    <3>2. sync.context[2] = Identity(saved)
      BY <1>3 DEF Refreshes, Serving, InForce, Context, sync
    <3>3. saved' \in SettingsRow
      BY <1>a, <1>b, <2>1, <3>1, RestingSettings DEF SettingsRow
    <3>4. confirmed' \in [language : Language, for : Identities]
      BY <1>b, <2>1, <3>1, <3>2
    <3> QED BY <1>a, <3>1, <3>3, <3>4 DEF SettingsTyped
  <2>2. CASE sync.got \notin Language
    BY <1>3, <1>a, <2>2 DEF Refreshes, SettingsTyped
  <2> QED BY <2>1, <2>2
<1>4. ASSUME NEW t \in tasks, Settles(t) PROVE SettingsTyped'
  <2>1. t \in TaskRow /\ t.want \in Language
    BY <1>4, <1>a DEF TasksTyped, Settles
  <2>2. t.context[2] \in Identities
    BY <2>1 DEF TaskRow, Contexts
  <2>3. confirmed' \in [language : Language, for : Identities]
    <3>1. confirmed' = IF t.got = "ok" /\ InForce(t.context)
                       THEN [language |-> t.want, for |-> t.context[2]] ELSE confirmed
      BY <1>4 DEF Settles
    <3>2. [language |-> t.want, for |-> t.context[2]] \in [language : Language, for : Identities]
      BY <2>1, <2>2
    <3> QED BY <1>a, <3>1, <3>2 DEF SettingsTyped
  <2>4. PICK l \in Language : saved' = [saved EXCEPT !.locale = l]
    <3>1. confirmed'.language \in Language
      BY <2>3
    <3>2. saved' = [saved EXCEPT !.locale =
                      IF Newest(t) /\ confirmed'.for = t.context[2] THEN confirmed'.language ELSE saved.locale]
      BY <1>4, <1>a DEF Settles, SettingsRow
    <3> QED BY <1>b, <3>1, <3>2
  <2>5. saved' \in SettingsRow
    BY <1>a, <2>4, RestingSettings
  <2> QED BY <1>4, <1>a, <2>3, <2>5 DEF Settles, SettingsTyped
<1>5. ASSUME ScreenStops PROVE SettingsTyped'
  BY <1>5, <1>a DEF ScreenStops, SettingsTyped, Enqueued, Screen, agent, store, language, sessions, voice,
     threads
<1>6. ASSUME Joined PROVE SettingsTyped'
  BY <1>6, <1>a DEF Joined, SettingsTyped, Screen, agent, store, language, sessions, voice, threads
<1>7. ASSUME Forgets PROVE SettingsTyped'
  <2>1. [Cleared(saved) EXCEPT !.user = NoAccount] \in SettingsRow
    BY <1>a, RestingSettings
  <2> QED BY <1>7, <1>a, <2>1, ReplacedTyped DEF Forgets, SettingsTyped
<1>8. ASSUME SignsIn PROVE SettingsTyped'
  BY <1>8, <1>a DEF SignsIn, SettingsTyped, agent, store, language, sessions, voice, threads
<1>9. ASSUME Adopts PROVE SettingsTyped'
  <2>1. screen.user \in Account /\ screen.token \in Nat /\ screen.locale \in Language
    BY <1>9, <1>a, <1>c DEF Adopts, SessionIsItsUsers, ScreenTyped, ScreenRow
  <2>2. [saved EXCEPT !.user = screen.user, !.token = screen.token, !.locale = screen.locale] \in SettingsRow
    BY <1>a, <2>1, RestingSettings
  <2>3. paused' \in BOOLEAN
    BY <1>9, <1>a DEF Adopts, SettingsTyped
  <2>4. Replace([saved EXCEPT !.user = screen.user, !.token = screen.token, !.locale = screen.locale])
    BY <1>9 DEF Adopts
  <2> QED BY <1>a, <2>2, <2>3, <2>4, ReplacedTyped
<1>10. ASSUME Consents PROVE SettingsTyped'
  <2>1. saved.user \in Account
    BY <1>10, <1>a DEF Consents, SessionIsItsUsers, HasSession, SettingsRow, Somebody
  <2> QED BY <1>10, <1>a, <2>1, RestingSettings DEF Consents, SettingsTyped, language
<1>11. ASSUME Starts PROVE SettingsTyped'
  <2>1. UNCHANGED <<saved, confirmed>> /\ paused' = FALSE /\ stopped' = FALSE /\ epoch' = epoch + 1
    BY <1>11 DEF Starts, language
  <2>2. paused' \in BOOLEAN /\ stopped' \in BOOLEAN
    BY <2>1
  <2>3. epoch' \in Nat
    BY <1>a, <2>1 DEF SettingsTyped
  <2> QED BY <1>a, <2>1, <2>2, <2>3 DEF SettingsTyped
<1>12. ASSUME ProgramDies PROVE SettingsTyped'
  BY <1>12, <1>a, <1>b DEF ProgramDies, SettingsTyped
<1>13. ASSUME Launches PROVE SettingsTyped'
  <2>1. CASE ~HasSession(saved)
    BY <1>13, <1>a, <2>1 DEF Launches, SettingsTyped, agent
  <2>2. ASSUME HasSession(saved), NEW got, got = "ok",
               saved' = [saved EXCEPT !.locale = spoken[saved.user]],
               confirmed' = [language |-> spoken[saved.user], for |-> Identity(saved)],
               UNCHANGED <<epoch, stopped, paused>>
        PROVE  SettingsTyped'
    <3>1. spoken[saved.user] \in Language
      BY <1>a, <2>2 DEF HasSession, SettingsRow, Somebody, ServerTyped
    <3>2. saved' \in SettingsRow
      BY <1>a, <2>2, <3>1, RestingSettings
    <3> QED BY <1>a, <1>b, <2>2, <3>1, <3>2 DEF SettingsTyped
  <2>3. ASSUME HasSession(saved), NEW got, Replace(IF got = "refused" THEN Cleared(saved) ELSE saved),
               UNCHANGED paused
        PROVE  SettingsTyped'
    <3>1. (IF got = "refused" THEN Cleared(saved) ELSE saved) \in SettingsRow
      BY <1>a, RestingSettings
    <3>2. paused' \in BOOLEAN
      BY <1>a, <2>3 DEF SettingsTyped
    <3> QED BY <1>a, <2>3, <3>1, <3>2, ReplacedTyped
  <2> QED BY <1>13, <2>1, <2>2, <2>3 DEF Launches
<1>14. ASSUME NEW w \in Workers, Drops(w) PROVE SettingsTyped'
  <2>1. thread[w].was \in SettingsRow
    BY <1>14, <1>a DEF Drops, WorkersServeOneAccount, Serves
  <2> QED BY <1>14, <1>a, <1>b, <2>1, ReplacedTyped, RestingSettings DEF Drops
<1> QED BY <1>1, <1>2, <1>3, <1>4, <1>5, <1>6, <1>7, <1>8, <1>9, <1>10, <1>11, <1>12, <1>13, <1>14
     DEF DesktopNext, desktopVars, agent, store, language, sessions, voice, threads, Observing, Syncing,
         Advising, Choosing, Responding, SigningOut, SigningIn

\* The store keeps its types.
LEMMA StoreTypedKept ==
    ASSUME DesktopInv, [DesktopNext]_desktopVars
    PROVE  StoreTyped'
<1>a. /\ SettingsTyped /\ StoreTyped /\ ThreadsTyped /\ TasksTyped /\ ServerTyped
      /\ SessionIsItsUsers /\ WorkersServeOneAccount /\ RoundsRemember /\ EventsNumbered
  BY DEF DesktopInv, DesktopTyped
<1>b. saved.user \in Somebody
  BY <1>a, ContextTyped
<1>c. ASSUME NEW w \in Workers, thread[w].at \notin {"dead", "idle"} PROVE UserOf(w) \in Account
  <2>1. UserOf(w) = saved.user /\ screen.at \in {"main", "stopping"}
    BY <1>a, <1>c DEF WorkersServeOneAccount, Serves
  <2> QED BY <1>a, <1>b, <2>1 DEF SessionIsItsUsers, Somebody
<1>1. ASSUME UNCHANGED <<cache, events, results, torn>> PROVE StoreTyped'
  BY <1>1, <1>a DEF StoreTyped
<1>2. ASSUME Poll \/ Checks \/ SyncBegins \/ Locks \/ Reads \/ OvertakenWhileReading \/ Refreshes \/
      BatchEnds \/ Sends \/ AdviceBegins \/ AdviceAsks \/ Chooses \/ Responds \/ Joined \/ JoinTimesOut \/
      Leaves \/ Forgets \/ SignsIn \/ Adopts \/ Starts \/ Launches \/ Revoke \/ SpeakElsewhere \/
      (\E t \in tasks : Enters(t) \/ Takes(t) \/ Puts(t) \/ Settles(t) \/ Posts(t)) \/
      (\E w \in Workers : LoopEnds(w) \/ Drops(w))
      PROVE  UNCHANGED <<cache, events, results, torn>>
  BY <1>2 DEF Poll, Checks, SyncBegins, Locks, Reads, OvertakenWhileReading, Refreshes, BatchEnds, Sends,
     AdviceBegins, AdviceAsks, Chooses, Enters, Takes, Puts, Settles, Responds, Posts, Joined, JoinTimesOut,
     Leaves, Forgets, SignsIn, Adopts, Starts, Launches, LoopEnds, Drops, Revoke, SpeakElsewhere, agent, store,
     language, sessions, voice, threads
<1>3. ASSUME Collects PROVE StoreTyped'
  <2>1. UserOf("collector") \in Account
    BY <1>3, <1>c DEF Collects, Workers
  <2>2. events' = Enqueued(UserOf("collector")) \/ UNCHANGED events
    BY <1>3 DEF Collects
  <2>3. events' \subseteq EventRow
    BY <1>a, <2>1, <2>2, EnqueuedTyped DEF StoreTyped
  <2> QED BY <1>3, <1>a, <2>3 DEF Collects, StoreTyped, store, threads
<1>4. ASSUME SendAnswered PROVE StoreTyped'
  <2>1. ASSUME NEW e \in events
        PROVE  [e EXCEPT !.synced = TRUE] \in EventRow /\ [e EXCEPT !.tries = @ + 1] \in EventRow
    <3>1. e \in EventRow /\ e.tries + 1 \in Nat
      BY <1>a DEF StoreTyped, EventRow
    <3> QED BY <3>1 DEF EventRow
  <2>2. \A e \in events : e \in EventRow
    BY <1>a DEF StoreTyped
  <2>3. events' \subseteq EventRow
    <3>1. CASE events' = {IF e.id = sync.was.id THEN [e EXCEPT !.synced = TRUE] ELSE e : e \in events}
      BY <2>1, <2>2, <3>1
    <3>2. CASE events' = {IF e.id = sync.was.id THEN [e EXCEPT !.tries = @ + 1] ELSE e : e \in events}
      BY <2>1, <2>2, <3>2
    <3>3. CASE UNCHANGED events
      BY <1>a, <3>3 DEF StoreTyped
    <3> QED BY <1>4, <1>a, <3>1, <3>2, <3>3, SendAnsweredCases
  <2>4. UserOf("sync") \in Account
    BY <1>4, <1>c DEF SendAnswered, Workers, sync
  <2>5. cache' \subseteq Account
    BY <1>4, <1>a, <2>4, SendAnsweredCases DEF StoreTyped
  <2> QED BY <1>4, <1>a, <2>3, <2>5 DEF SendAnswered, StoreTyped
<1>5. ASSUME AdviceAnswered PROVE StoreTyped'
  <2>1. UserOf("advice") \in Account
    BY <1>5, <1>c DEF AdviceAnswered, Workers, advice
  <2>2. cache' \subseteq Account
    BY <1>5, <1>a, <2>1, AdviceAnsweredCases DEF StoreTyped
  <2> QED BY <1>5, <1>a, <2>2 DEF AdviceAnswered, StoreTyped
<1>6. ASSUME NEW t \in tasks, Posted(t) PROVE StoreTyped'
  <2>1. t.want \in Account
    BY <1>6, <1>a DEF Posted, TasksTyped
  <2> QED BY <1>6, <1>a, <2>1 DEF Posted, StoreTyped
<1>7. ASSUME Shows PROVE StoreTyped'
  BY <1>7, <1>a DEF Shows, StoreTyped, agent, store, language, sessions, voice, threads
<1>8. ASSUME SubmitProblem PROVE StoreTyped'
  <2>1. saved.user \in Account
    BY <1>8, <1>b DEF SubmitProblem, Somebody
  <2>2. events' = Enqueued(saved.user) \/ UNCHANGED events
    BY <1>8 DEF SubmitProblem
  <2>3. events' \subseteq EventRow
    BY <1>a, <2>1, <2>2, EnqueuedTyped DEF StoreTyped
  <2> QED BY <1>8, <1>a, <2>3 DEF SubmitProblem, StoreTyped, store, threads
<1>9. ASSUME ScreenStops PROVE StoreTyped'
  <2>1. saved.user \in Account
    BY <1>9, <1>a, <1>b DEF ScreenStops, SessionIsItsUsers, Somebody
  <2>2. events' = Enqueued(saved.user) \/ UNCHANGED events
    BY <1>9 DEF ScreenStops
  <2>3. events' \subseteq EventRow
    BY <1>a, <2>1, <2>2, EnqueuedTyped DEF StoreTyped
  <2> QED BY <1>9, <1>a, <2>3 DEF ScreenStops, StoreTyped, store, threads
<1>10. ASSUME Empties PROVE StoreTyped'
  BY <1>10, <1>a DEF Empties, StoreTyped, Empty, Screen, agent, store, language, sessions, voice, threads
<1>11. ASSUME Switches PROVE StoreTyped'
  BY <1>11, <1>a DEF Switches, StoreTyped, Empty, Screen, agent, store, language, sessions, voice, threads
<1>12. ASSUME Consents PROVE StoreTyped'
  BY <1>12, <1>a DEF Consents, StoreTyped, Empty, agent, store, language, sessions, voice, threads
<1>13. ASSUME ProgramDies PROVE StoreTyped'
  BY <1>13, <1>a DEF ProgramDies, StoreTyped, Screen, Dead, Identity, agent, store, language, sessions, voice,
     threads
<1> QED BY <1>1, <1>2, <1>3, <1>4, <1>5, <1>6, <1>7, <1>8, <1>9, <1>10, <1>11, <1>12, <1>13
     DEF DesktopNext, desktopVars, agent, store, language, sessions, voice, threads, Observing, Syncing,
         Advising, Choosing, Responding, SigningOut, SigningIn

-----------------------------------------------------------------------------
(* Sessions and workers.                                                     *)

\* What an action does to the fields of a worker.
LEMMA WorkerSteps ==
    ASSUME ThreadsTyped, NEW w \in Workers
    PROVE  /\ Ends(w) => thread'[w] = Dead /\ \A v \in Workers \ {w} : thread'[v] = thread[v]
           /\ Rests(w) =>
                 /\ thread'[w].at = "idle" /\ thread'[w].born = thread[w].born
                 /\ \A v \in Workers \ {w} : thread'[v] = thread[v]
           /\ \A at : GoesTo(w, at) =>
                 /\ thread'[w].at = at /\ thread'[w].born = thread[w].born
                 /\ thread'[w].context = thread[w].context /\ thread'[w].was = thread[w].was
                 /\ thread'[w].got = thread[w].got /\ thread'[w].batch = thread[w].batch
                 /\ \A v \in Workers \ {w} : thread'[v] = thread[v]
<1>1. thread \in [Workers -> ThreadRow]
  BY DEF ThreadsTyped
<1>2. Ends(w) => thread'[w] = Dead /\ \A v \in Workers \ {w} : thread'[v] = thread[v]
  BY <1>1 DEF Ends
<1>3. ASSUME Rests(w)
      PROVE  /\ thread'[w].at = "idle" /\ thread'[w].born = thread[w].born
             /\ \A v \in Workers \ {w} : thread'[v] = thread[v]
  BY <1>1, <1>3 DEF Rests, Dead
<1>4. ASSUME NEW at, GoesTo(w, at)
      PROVE  /\ thread'[w].at = at /\ thread'[w].born = thread[w].born
             /\ thread'[w].context = thread[w].context /\ thread'[w].was = thread[w].was
             /\ thread'[w].got = thread[w].got /\ thread'[w].batch = thread[w].batch
             /\ \A v \in Workers \ {w} : thread'[v] = thread[v]
  BY <1>1, <1>4 DEF GoesTo, ThreadRow
<1> QED BY <1>2, <1>3, <1>4

\* Only the language of the settings changes.
LEMMA LocaleChanges ==
    ASSUME saved \in SettingsRow, NEW l, saved' = [saved EXCEPT !.locale = l]
    PROVE  /\ saved'.user = saved.user /\ saved'.token = saved.token /\ saved'.locale = l
           /\ Identity(saved)' = Identity(saved) /\ HasSession(saved)' = HasSession(saved)
  BY DEF SettingsRow, Identity, HasSession

\* The saved session is the user's.
LEMMA SessionKept ==
    ASSUME DesktopInv, [DesktopNext]_desktopVars
    PROVE  SessionIsItsUsers'
<1>a. /\ SettingsTyped /\ ServerTyped /\ ThreadsTyped /\ saved \in SettingsRow /\ SessionIsItsUsers
      /\ WorkersServeOneAccount /\ TasksTyped
  BY DEF DesktopInv, DesktopTyped, SettingsTyped
<1>b. Len(owner) \in Nat /\ saved.token \in Nat /\ saved.user \in Somebody
  BY <1>a, ContextTyped DEF ServerTyped
<1>1. ASSUME UNCHANGED <<owner, saved, screen, stopped>> PROVE SessionIsItsUsers'
  BY <1>1, <1>a DEF SessionIsItsUsers, HasSession
<1>2. ASSUME Poll \/ Checks \/ Collects \/ SyncBegins \/ Locks \/ Reads \/ OvertakenWhileReading \/
      BatchEnds \/ Sends \/ SendAnswered \/ AdviceBegins \/ AdviceAsks \/ AdviceAnswered \/ Chooses \/
      Responds \/ Shows \/ SubmitProblem \/ Revoke \/ SpeakElsewhere \/
      (\E t \in tasks : Enters(t) \/ Takes(t) \/ Puts(t) \/ Posts(t) \/ Posted(t)) \/
      (\E w \in Workers : LoopEnds(w))
      PROVE  UNCHANGED <<owner, saved, screen, stopped>>
  BY <1>2 DEF Poll, Checks, Collects, SyncBegins, Locks, Reads, OvertakenWhileReading, BatchEnds, Sends,
     SendAnswered, AdviceBegins, AdviceAsks, AdviceAnswered, Chooses, Enters, Takes, Puts, Responds, Posts,
     Posted, Shows, SubmitProblem, LoopEnds, Revoke, SpeakElsewhere, agent, store, language, sessions, voice,
     threads
<1>3. ASSUME Refreshes PROVE SessionIsItsUsers'
  <2>1. saved'.user = saved.user /\ saved'.token = saved.token
    BY <1>3, <1>a, LocaleChanges DEF Refreshes
  <2> QED BY <1>3, <1>a, <2>1 DEF Refreshes, SessionIsItsUsers, HasSession, sessions
<1>4. ASSUME NEW t \in tasks, Settles(t) PROVE SessionIsItsUsers'
  <2>1. saved'.user = saved.user /\ saved'.token = saved.token
    BY <1>4, <1>a DEF Settles, SettingsRow
  <2> QED BY <1>4, <1>a, <2>1 DEF Settles, SessionIsItsUsers, HasSession, sessions
<1>5. ASSUME ScreenStops PROVE SessionIsItsUsers'
  <2>1. UNCHANGED <<saved, owner>> /\ screen.at = "main" /\ screen'.at = "stopping" /\ stopped' = TRUE
    BY <1>5 DEF ScreenStops, Screen, sessions
  <2> QED BY <1>a, <2>1 DEF SessionIsItsUsers, HasSession
<1>6. ASSUME Joined PROVE SessionIsItsUsers'
  <2>1. UNCHANGED <<saved, owner>> /\ screen.at = "stopping" /\ screen'.at = "leaving"
    BY <1>6 DEF Joined, Screen, sessions
  <2> QED BY <1>a, <2>1 DEF SessionIsItsUsers, HasSession
<1>7. ASSUME JoinTimesOut PROVE SessionIsItsUsers'
  <2>1. UNCHANGED <<saved, owner, stopped>> /\ screen.at = "stopping" /\ screen'.at = "main"
    BY <1>7 DEF JoinTimesOut, Screen, agent, sessions
  <2> QED BY <1>a, <2>1 DEF SessionIsItsUsers, HasSession
<1>8. ASSUME Leaves PROVE SessionIsItsUsers'
  BY <1>8, <1>a DEF Leaves, SessionIsItsUsers, HasSession, Screen, AnswersTo, agent, store, language, sessions,
     voice, threads
<1>9. ASSUME Forgets PROVE SessionIsItsUsers'
  <2>1. saved' = [Cleared(saved) EXCEPT !.user = NoAccount]
    BY <1>9 DEF Forgets, Replace
  <2>2. saved'.token = 0 /\ saved'.user = NoAccount
    BY <1>a, <2>1 DEF SettingsRow, Cleared
  <2> QED BY <1>9, <1>a, <1>b, <2>2 DEF Forgets, SessionIsItsUsers, HasSession, Screen, sessions
<1>10. ASSUME Empties PROVE SessionIsItsUsers'
  BY <1>10, <1>a DEF Empties, SessionIsItsUsers, HasSession, Empty, Screen, agent, store, language, sessions,
     voice, threads
<1>11. ASSUME SignsIn PROVE SessionIsItsUsers'
  <2>1. PICK a \in Account :
          /\ owner' = Append(owner, a)
          /\ screen' \in {screen, [at |-> "entered", user |-> a, token |-> Len(owner'), locale |-> spoken[a]]}
    BY <1>11 DEF SignsIn
  <2>2. /\ Len(owner') = Len(owner) + 1 /\ owner'[Len(owner')] = a
        /\ \A k \in 1..Len(owner) : owner'[k] = owner[k]
    BY <1>a, <2>1 DEF ServerTyped
  <2>3. UNCHANGED <<saved, stopped>> /\ screen.at = "door"
    BY <1>11 DEF SignsIn
  <2> QED BY <1>a, <1>b, <2>1, <2>2, <2>3 DEF SessionIsItsUsers, HasSession
<1>12. ASSUME Adopts PROVE SessionIsItsUsers'
  <2>1. saved' = [saved EXCEPT !.user = screen.user, !.token = screen.token, !.locale = screen.locale]
    BY <1>12 DEF Adopts, Replace
  <2>2. saved'.user = screen.user /\ saved'.token = screen.token
    BY <1>a, <2>1 DEF SettingsRow
  <2>3. screen.user \in Account /\ screen.token \in 1..Len(owner) /\ screen.user = owner[screen.token]
    BY <1>12, <1>a DEF Adopts, SessionIsItsUsers, ServerTyped
  <2>4. screen.user # NoAccount
    BY <2>3, NamesAssumption
  <2>5. screen'.at \in {"settled", "switching"} /\ UNCHANGED owner
    BY <1>12 DEF Adopts, Screen, sessions
  <2> QED BY <1>b, <2>2, <2>3, <2>4, <2>5 DEF SessionIsItsUsers, HasSession
<1>13. ASSUME Switches PROVE SessionIsItsUsers'
  BY <1>13, <1>a DEF Switches, SessionIsItsUsers, HasSession, Empty, Screen, agent, store, language, sessions,
     voice, threads
<1>14. ASSUME Consents PROVE SessionIsItsUsers'
  <2>1. saved'.user = saved.user /\ saved'.token = saved.token
    BY <1>14, <1>a DEF Consents, SettingsRow
  <2> QED BY <1>14, <1>a, <2>1 DEF Consents, sessions, threads, SessionIsItsUsers, HasSession
<1>15. ASSUME Starts PROVE SessionIsItsUsers'
  BY <1>15, <1>a DEF Starts, SessionIsItsUsers, HasSession, Dead, Screen, agent, store, language, sessions,
     voice, threads
<1>16. ASSUME ProgramDies PROVE SessionIsItsUsers'
  BY <1>16, <1>a DEF ProgramDies, SessionIsItsUsers, HasSession, Screen, Dead, Identity, agent, store,
     language, sessions, voice, threads
<1>17. ASSUME Launches PROVE SessionIsItsUsers'
  <2>1. saved'.user = saved.user /\ saved'.token \in {0, saved.token} /\ UNCHANGED owner
    BY <1>17, <1>a DEF Launches, SettingsRow, Replace, Cleared, agent, sessions
  <2>2. screen'.at \in {"door", "settled"}
    BY <1>17 DEF Launches, Screen
  <2>3. screen'.at = "settled" => HasSession(saved')
    BY <1>17, <1>a DEF Launches, Screen, SettingsRow, Replace, HasSession
  <2> QED BY <1>a, <1>b, <2>1, <2>2, <2>3 DEF SessionIsItsUsers, HasSession
<1>18. ASSUME NEW w \in Workers, Drops(w) PROVE SessionIsItsUsers'
  <2>1. thread[w].was \in SettingsRow /\ thread[w].was.user = saved.user /\ screen.at \in {"main", "stopping"}
    BY <1>18, <1>a DEF Drops, WorkersServeOneAccount, Serves
  <2>2. saved' = Cleared(thread[w].was) /\ UNCHANGED <<owner, screen>>
    BY <1>18 DEF Drops, Replace, sessions
  <2>3. saved'.user = saved.user /\ saved'.token = 0
    BY <2>1, <2>2 DEF SettingsRow, Cleared
  <2>4. stopped' = TRUE \/ (saved.token = 0 /\ UNCHANGED stopped)
    <3>1. Replace(saved')
      BY <1>18, <2>2 DEF Drops
    <3>2. CASE Identity(saved') = Identity(saved)
      BY <2>3, <3>1, <3>2 DEF Replace, Identity
    <3>3. CASE Identity(saved') # Identity(saved)
      BY <3>1, <3>3 DEF Replace
    <3> QED BY <3>2, <3>3
  <2> QED BY <1>a, <1>b, <2>1, <2>2, <2>3, <2>4 DEF SessionIsItsUsers, HasSession
<1> QED BY <1>1, <1>2, <1>3, <1>4, <1>5, <1>6, <1>7, <1>8, <1>9, <1>10, <1>11, <1>12, <1>13, <1>14, <1>15,
     <1>16, <1>17, <1>18
     DEF DesktopNext, desktopVars, agent, store, language, sessions, voice, threads, Observing, Syncing,
         Advising, Choosing, Responding, SigningOut, SigningIn

\* Workers serve the account they were started for.
LEMMA WorkersKept ==
    ASSUME DesktopInv, [DesktopNext]_desktopVars
    PROVE  WorkersServeOneAccount'
<1>a. /\ SettingsTyped /\ ServerTyped /\ ScreenTyped /\ ThreadsTyped /\ TasksTyped /\ saved \in SettingsRow
      /\ epoch \in Nat /\ SessionIsItsUsers /\ WorkersServeOneAccount /\ RoundsRemember
  BY DEF DesktopInv, DesktopTyped, SettingsTyped
<1>b. /\ "collector" \in Workers /\ "sync" \in Workers /\ "advice" \in Workers
      /\ \A w \in Workers : Serves(w) /\ thread[w] \in ThreadRow /\ thread[w].born \in Nat
      /\ thread \in [Workers -> ThreadRow]
  BY <1>a DEF Workers, WorkersServeOneAccount, ThreadsTyped, ThreadRow
\* A worker that stands still goes on serving.
<1>c. ASSUME NEW w \in Workers, thread'[w] = thread[w], saved'.user = saved.user, epoch' \in Nat,
             epoch' >= epoch, screen'.at \in {"main", "stopping"} \/ UNCHANGED screen, UNCHANGED owner
      PROVE  Serves(w)'
  <2>1. UserOf(w)' = UserOf(w) /\ Token(w)' = Token(w)
    BY <1>c DEF UserOf, Token
  <2>2. thread[w].at # "dead" => screen'.at \in {"main", "stopping"} /\ thread[w].born <= epoch'
    BY <1>a, <1>b, <1>c DEF Serves
  <2> QED BY <1>b, <1>c, <2>1, <2>2 DEF Serves
<1>d. ASSUME screen.at \notin {"main", "stopping"} PROVE \A w \in Workers : thread[w].at = "dead"
  BY <1>b, <1>d DEF Serves
<1>e. ASSUME \A w \in Workers : thread'[w].at = "dead" PROVE WorkersServeOneAccount'
  BY <1>e DEF WorkersServeOneAccount, Serves, Workers, CollectorPlaces, SyncPlaces, AdvicePlaces
\* A worker that ends, rests or moves on.
<1>f. ASSUME NEW w \in Workers, UNCHANGED <<epoch, screen, owner>>, saved'.user = saved.user,
             \A v \in Workers \ {w} : thread'[v] = thread[v], Serves(w)'
      PROVE  WorkersServeOneAccount'
  BY <1>a, <1>c, <1>f DEF WorkersServeOneAccount
<1>h. ASSUME NEW w \in Workers, UNCHANGED <<epoch, screen, owner>>, saved'.user = saved.user, Ends(w)
      PROVE  WorkersServeOneAccount'
  <2>1. thread'[w].at = "dead" /\ \A v \in Workers \ {w} : thread'[v] = thread[v]
    BY <1>a, <1>h, WorkerSteps DEF Dead
  <2>2. Serves(w)'
    BY <2>1 DEF Serves, Workers, CollectorPlaces, SyncPlaces, AdvicePlaces
  <2> QED BY <1>f, <1>h, <2>1, <2>2
<1>i. ASSUME NEW w \in Workers, UNCHANGED <<epoch, screen, owner>>, saved'.user = saved.user,
             Rests(w), thread[w].at # "dead"
      PROVE  WorkersServeOneAccount'
  <2>1. /\ thread'[w].at = "idle" /\ thread'[w].born = thread[w].born
        /\ \A v \in Workers \ {w} : thread'[v] = thread[v]
    BY <1>a, <1>i, WorkerSteps
  <2>2. Serves(w)'
    BY <1>b, <1>i, <2>1 DEF Serves, Workers, CollectorPlaces, SyncPlaces, AdvicePlaces
  <2> QED BY <1>f, <1>i, <2>1, <2>2
<1>j. ASSUME NEW w \in Workers, UNCHANGED <<epoch, screen, owner>>, saved'.user = saved.user,
             NEW at, GoesTo(w, at), thread[w].at \notin {"dead", "idle"}, at # "dropping",
             at \in CASE w = "collector" -> CollectorPlaces
                      [] w = "sync" -> SyncPlaces
                      [] w = "advice" -> AdvicePlaces
      PROVE  WorkersServeOneAccount'
  <2>1. /\ thread'[w].at = at /\ thread'[w].born = thread[w].born /\ thread'[w].context = thread[w].context
        /\ \A v \in Workers \ {w} : thread'[v] = thread[v]
    BY <1>a, <1>j, WorkerSteps
  <2>2. UserOf(w)' = UserOf(w) /\ Token(w)' = Token(w)
    BY <2>1 DEF UserOf, Token
  <2>3. Serves(w)'
    BY <1>b, <1>j, <2>1, <2>2 DEF Serves
  <2> QED BY <1>f, <1>j, <2>1, <2>3
\* A worker that keeps its context on the way to another place.
<1>g. ASSUME NEW w \in Workers, UNCHANGED <<epoch, screen, owner>>, saved'.user = saved.user,
             \A v \in Workers \ {w} : thread'[v] = thread[v],
             thread[w].at \notin {"dead", "idle"}, thread'[w].born = thread[w].born,
             thread'[w].context = thread[w].context,
             thread'[w].at \in CASE w = "collector" -> CollectorPlaces
                                 [] w = "sync" -> SyncPlaces
                                 [] w = "advice" -> AdvicePlaces,
             thread'[w].at = "dropping" => thread'[w].was = saved
      PROVE  WorkersServeOneAccount'
  <2>1. Serves(w)'
    BY <1>a, <1>b, <1>g DEF Serves, UserOf, Token
  <2> QED BY <1>a, <1>c, <1>g, <2>1 DEF WorkersServeOneAccount
<1>1. ASSUME UNCHANGED <<epoch, owner, saved, screen, thread>> PROVE WorkersServeOneAccount'
  BY <1>1, <1>a DEF WorkersServeOneAccount, Serves, UserOf, Token
<1>2. ASSUME Chooses \/ Responds \/ Shows \/ SubmitProblem \/ Revoke \/ SpeakElsewhere \/
      (\E t \in tasks : Enters(t) \/ Takes(t) \/ Puts(t) \/ Posts(t) \/ Posted(t))
      PROVE  UNCHANGED <<epoch, owner, saved, screen, thread>>
  BY <1>2 DEF Chooses, Enters, Takes, Puts, Responds, Posts, Posted, Shows, SubmitProblem, Revoke,
     SpeakElsewhere, agent, store, language, sessions, voice, threads
<1>3. ASSUME Poll PROVE WorkersServeOneAccount'
  <2>1. /\ UNCHANGED <<epoch, screen, owner, saved>>
        /\ \A v \in Workers \ {"collector"} : thread'[v] = thread[v]
        /\ thread["collector"].at = "idle" /\ thread'["collector"].at = "polled"
        /\ thread'["collector"].born = thread["collector"].born
        /\ thread'["collector"].context = <<thread["collector"].born, Identity(saved)>>
    BY <1>3, <1>a, <1>b DEF Poll, Begins, agent, sessions, ThreadRow
  <2>2. thread'["collector"].context \in Contexts
    BY <1>a, <1>b, <2>1, ContextTyped DEF Contexts, ThreadRow
  <2>3. UserOf("collector")' = saved.user /\ Token("collector")' = saved.token
    BY <2>1 DEF UserOf, Token, Identity
  <2>4. screen.at \in {"main", "stopping"} /\ thread["collector"].born <= epoch
    BY <1>a, <1>b, <2>1 DEF Serves
  <2>5. Serves("collector")'
    BY <1>a, <1>b, <2>1, <2>2, <2>3, <2>4 DEF Serves, SessionIsItsUsers, HasSession, CollectorPlaces,
       SyncPlaces, AdvicePlaces
  <2> QED BY <1>a, <1>b, <1>c, <2>1, <2>5 DEF WorkersServeOneAccount
<1>4. ASSUME Checks PROVE WorkersServeOneAccount'
  <2>1. /\ UNCHANGED <<epoch, screen, owner, saved>> /\ thread["collector"].at \notin {"dead", "idle"}
        /\ (GoesTo("collector", "checked") \/ Ends("collector"))
    BY <1>4 DEF Checks, agent, sessions, sync, advice
  <2>2. saved'.user = saved.user
    BY <2>1
  <2>3. "checked" \in CollectorPlaces /\ "reading" \in SyncPlaces
    BY DEF CollectorPlaces, SyncPlaces
  <2> QED BY <1>b, <1>h, <1>i, <1>j, <2>1, <2>2, <2>3
<1>5. ASSUME Collects PROVE WorkersServeOneAccount'
  <2>1. /\ UNCHANGED <<epoch, screen, owner, saved>> /\ thread["collector"].at \notin {"dead", "idle"}
        /\ Rests("collector")
    BY <1>5 DEF Collects, agent, sessions, sync, advice
  <2>2. saved'.user = saved.user
    BY <2>1
  <2>3. "checked" \in CollectorPlaces /\ "reading" \in SyncPlaces
    BY DEF CollectorPlaces, SyncPlaces
  <2> QED BY <1>b, <1>h, <1>i, <1>j, <2>1, <2>2, <2>3
<1>6. ASSUME SyncBegins PROVE WorkersServeOneAccount'
  <2>1. /\ UNCHANGED <<epoch, screen, owner, saved>>
        /\ \A v \in Workers \ {"sync"} : thread'[v] = thread[v]
        /\ thread["sync"].at = "idle" /\ thread'["sync"].at = "waiting"
        /\ thread'["sync"].born = thread["sync"].born
        /\ thread'["sync"].context = <<thread["sync"].born, Identity(saved)>> /\ HasSession(saved)
    BY <1>6, <1>a, <1>b DEF SyncBegins, Begins, agent, sessions, ThreadRow
  <2>2. thread'["sync"].context \in Contexts
    BY <1>a, <1>b, <2>1, ContextTyped DEF Contexts, ThreadRow
  <2>3. UserOf("sync")' = saved.user /\ Token("sync")' = saved.token
    BY <2>1 DEF UserOf, Token, Identity
  <2>4. screen.at \in {"main", "stopping"} /\ thread["sync"].born <= epoch
    BY <1>a, <1>b, <2>1 DEF Serves
  <2>5. Serves("sync")'
    BY <1>a, <1>b, <2>1, <2>2, <2>3, <2>4 DEF Serves, SessionIsItsUsers, HasSession, CollectorPlaces,
       SyncPlaces, AdvicePlaces
  <2> QED BY <1>a, <1>b, <1>c, <2>1, <2>5 DEF WorkersServeOneAccount
<1>7. ASSUME Locks PROVE WorkersServeOneAccount'
  <2>1. /\ UNCHANGED <<epoch, screen, owner, saved>> /\ thread["sync"].at \notin {"dead", "idle"}
        /\ GoesTo("sync", "reading")
    BY <1>7 DEF Locks, agent, sessions, sync, advice
  <2>2. saved'.user = saved.user
    BY <2>1
  <2>3. "checked" \in CollectorPlaces /\ "reading" \in SyncPlaces
    BY DEF CollectorPlaces, SyncPlaces
  <2> QED BY <1>b, <1>h, <1>i, <1>j, <2>1, <2>2, <2>3
<1>8. ASSUME Reads PROVE WorkersServeOneAccount'
  <2>1. /\ UNCHANGED <<epoch, screen, owner, saved>> /\ thread["sync"].at = "reading"
        /\ \A v \in Workers \ {"sync"} : thread'[v] = thread[v]
        /\ thread'["sync"].at = "read" /\ thread'["sync"].born = thread["sync"].born
        /\ thread'["sync"].context = thread["sync"].context
    BY <1>8, <1>b DEF Reads, agent, sessions, ThreadRow, sync
  <2> QED BY <1>b, <1>g, <2>1 DEF SyncPlaces
<1>9. ASSUME OvertakenWhileReading PROVE WorkersServeOneAccount'
  <2>1. /\ UNCHANGED <<epoch, screen, owner, saved>> /\ thread["sync"].at \notin {"dead", "idle"}
        /\ Ends("sync")
    BY <1>9 DEF OvertakenWhileReading, agent, sessions, sync, advice
  <2>2. saved'.user = saved.user
    BY <2>1
  <2>3. "checked" \in CollectorPlaces /\ "reading" \in SyncPlaces
    BY DEF CollectorPlaces, SyncPlaces
  <2> QED BY <1>b, <1>h, <1>i, <1>j, <2>1, <2>2, <2>3
<1>10. ASSUME Refreshes PROVE WorkersServeOneAccount'
  <2>1. /\ UNCHANGED <<epoch, screen, owner>> /\ thread["sync"].at = "read"
        /\ \/ Rests("sync")
           \/ thread' = [thread EXCEPT !["sync"].at = "batch", !["sync"].batch = Pending]
    BY <1>10 DEF Refreshes, sessions, sync
  <2>2. saved'.user = saved.user
    BY <1>10, <1>a DEF Refreshes, SettingsRow
  <2>3. CASE thread' = [thread EXCEPT !["sync"].at = "batch", !["sync"].batch = Pending]
    <3>1. /\ \A v \in Workers \ {"sync"} : thread'[v] = thread[v]
          /\ thread'["sync"].at = "batch" /\ thread'["sync"].born = thread["sync"].born
          /\ thread'["sync"].context = thread["sync"].context
      BY <1>b, <2>3 DEF ThreadRow
    <3> QED BY <1>b, <1>g, <2>1, <2>2, <3>1 DEF SyncPlaces
  <2> QED BY <1>b, <1>i, <2>1, <2>2, <2>3
<1>11. ASSUME BatchEnds PROVE WorkersServeOneAccount'
  <2>1. /\ UNCHANGED <<epoch, screen, owner, saved>> /\ thread["sync"].at \notin {"dead", "idle"}
        /\ (Ends("sync") \/ Rests("sync"))
    BY <1>11 DEF BatchEnds, agent, sessions, sync, advice
  <2>2. saved'.user = saved.user
    BY <2>1
  <2>3. "checked" \in CollectorPlaces /\ "reading" \in SyncPlaces
    BY DEF CollectorPlaces, SyncPlaces
  <2> QED BY <1>b, <1>h, <1>i, <1>j, <2>1, <2>2, <2>3
<1>12. ASSUME Sends PROVE WorkersServeOneAccount'
  <2>1. /\ UNCHANGED <<epoch, screen, owner, saved>> /\ thread["sync"].at = "batch"
        /\ \A v \in Workers \ {"sync"} : thread'[v] = thread[v]
        /\ thread'["sync"].at = "sent" /\ thread'["sync"].born = thread["sync"].born
        /\ thread'["sync"].context = thread["sync"].context
    BY <1>12, <1>b DEF Sends, agent, sessions, ThreadRow, sync
  <2> QED BY <1>b, <1>g, <2>1 DEF SyncPlaces
<1>13. ASSUME SendAnswered PROVE WorkersServeOneAccount'
  <2>1. /\ UNCHANGED <<epoch, screen, owner, saved>> /\ thread["sync"].at = "sent"
        /\ \/ Ends("sync") \/ Rests("sync") \/ GoesTo("sync", "batch")
           \/ thread' = [thread EXCEPT !["sync"].at = "dropping", !["sync"].was = saved]
    BY <1>13, <1>a, SendAnsweredCases DEF SendAnswered, agent, sessions, sync
  <2>2. CASE thread' = [thread EXCEPT !["sync"].at = "dropping", !["sync"].was = saved]
    <3>1. /\ \A v \in Workers \ {"sync"} : thread'[v] = thread[v]
          /\ thread'["sync"].at = "dropping" /\ thread'["sync"].born = thread["sync"].born
          /\ thread'["sync"].context = thread["sync"].context /\ thread'["sync"].was = saved
      BY <1>b, <2>2 DEF ThreadRow
    <3> QED BY <1>b, <1>g, <2>1, <3>1 DEF SyncPlaces
  <2>3. "batch" \in SyncPlaces
    BY DEF SyncPlaces
  <2> QED BY <1>b, <1>h, <1>i, <1>j, <2>1, <2>2, <2>3
<1>14. ASSUME AdviceBegins PROVE WorkersServeOneAccount'
  <2>1. /\ UNCHANGED <<epoch, screen, owner, saved>>
        /\ \A v \in Workers \ {"advice"} : thread'[v] = thread[v]
        /\ thread["advice"].at = "idle" /\ thread'["advice"].at = "asking"
        /\ thread'["advice"].born = thread["advice"].born
        /\ thread'["advice"].context = <<thread["advice"].born, Identity(saved)>> /\ HasSession(saved)
    BY <1>14, <1>a, <1>b DEF AdviceBegins, Begins, agent, sessions, ThreadRow
  <2>2. thread'["advice"].context \in Contexts
    BY <1>a, <1>b, <2>1, ContextTyped DEF Contexts, ThreadRow
  <2>3. UserOf("advice")' = saved.user /\ Token("advice")' = saved.token
    BY <2>1 DEF UserOf, Token, Identity
  <2>4. screen.at \in {"main", "stopping"} /\ thread["advice"].born <= epoch
    BY <1>a, <1>b, <2>1 DEF Serves
  <2>5. Serves("advice")'
    BY <1>a, <1>b, <2>1, <2>2, <2>3, <2>4 DEF Serves, SessionIsItsUsers, HasSession, CollectorPlaces,
       SyncPlaces, AdvicePlaces
  <2> QED BY <1>a, <1>b, <1>c, <2>1, <2>5 DEF WorkersServeOneAccount
<1>15. ASSUME AdviceAsks PROVE WorkersServeOneAccount'
  <2>1. /\ UNCHANGED <<epoch, screen, owner, saved>> /\ thread["advice"].at = "asking"
        /\ \A v \in Workers \ {"advice"} : thread'[v] = thread[v]
        /\ thread'["advice"].at = "asked" /\ thread'["advice"].born = thread["advice"].born
        /\ thread'["advice"].context = thread["advice"].context
    BY <1>15, <1>b DEF AdviceAsks, agent, sessions, ThreadRow, advice
  <2> QED BY <1>b, <1>g, <2>1 DEF AdvicePlaces
<1>16. ASSUME AdviceAnswered PROVE WorkersServeOneAccount'
  <2>1. /\ UNCHANGED <<epoch, screen, owner, saved>> /\ thread["advice"].at = "asked"
        /\ \/ Ends("advice") \/ Rests("advice")
           \/ thread' = [thread EXCEPT !["advice"].at = "dropping", !["advice"].was = saved]
    BY <1>16, <1>a, AdviceAnsweredCases DEF AdviceAnswered, agent, sessions, advice
  <2>2. CASE thread' = [thread EXCEPT !["advice"].at = "dropping", !["advice"].was = saved]
    <3>1. /\ \A v \in Workers \ {"advice"} : thread'[v] = thread[v]
          /\ thread'["advice"].at = "dropping" /\ thread'["advice"].born = thread["advice"].born
          /\ thread'["advice"].context = thread["advice"].context /\ thread'["advice"].was = saved
      BY <1>b, <2>2 DEF ThreadRow
    <3> QED BY <1>b, <1>g, <2>1, <3>1 DEF AdvicePlaces
  <2> QED BY <1>b, <1>h, <1>i, <2>1, <2>2
<1>17. ASSUME NEW t \in tasks, Settles(t) PROVE WorkersServeOneAccount'
  <2>1. /\ saved'.user = saved.user
        /\ UNCHANGED <<thread, screen, epoch, owner>>
    BY <1>17, <1>a DEF Settles, SettingsRow, sessions
  <2> QED BY <1>a, <1>c, <2>1 DEF WorkersServeOneAccount
<1>18. ASSUME ScreenStops PROVE WorkersServeOneAccount'
  <2>1. /\ UNCHANGED <<thread, saved, owner>> /\ epoch' = epoch + 1 /\ screen'.at = "stopping"
    BY <1>18 DEF ScreenStops, Screen, sessions
  <2> QED BY <1>a, <1>c, <2>1 DEF WorkersServeOneAccount
<1>19. ASSUME Joined PROVE WorkersServeOneAccount'
  <2>1. \A w \in Workers : thread'[w].at = "dead"
    BY <1>19 DEF Joined, AllDead
  <2> QED BY <1>e, <2>1
<1>20. ASSUME JoinTimesOut PROVE WorkersServeOneAccount'
  <2>1. /\ UNCHANGED <<thread, saved, owner, epoch>> /\ screen'.at = "main"
    BY <1>20 DEF JoinTimesOut, Screen, agent, sessions
  <2> QED BY <1>a, <1>c, <2>1 DEF WorkersServeOneAccount
<1>21. ASSUME Leaves PROVE WorkersServeOneAccount'
  <2>1. screen.at \notin {"main", "stopping"} /\ UNCHANGED thread
    BY <1>21 DEF Leaves, threads
  <2> QED BY <1>d, <1>e, <2>1
<1>22. ASSUME Forgets PROVE WorkersServeOneAccount'
  <2>1. screen.at \notin {"main", "stopping"} /\ UNCHANGED thread
    BY <1>22 DEF Forgets, threads
  <2> QED BY <1>d, <1>e, <2>1
<1>23. ASSUME Empties PROVE WorkersServeOneAccount'
  <2>1. screen.at \notin {"main", "stopping"} /\ UNCHANGED thread
    BY <1>23 DEF Empties, threads
  <2> QED BY <1>d, <1>e, <2>1
<1>24. ASSUME SignsIn PROVE WorkersServeOneAccount'
  <2>1. screen.at \notin {"main", "stopping"} /\ UNCHANGED thread
    BY <1>24 DEF SignsIn, threads
  <2> QED BY <1>d, <1>e, <2>1
<1>25. ASSUME Adopts PROVE WorkersServeOneAccount'
  <2>1. screen.at \notin {"main", "stopping"} /\ UNCHANGED thread
    BY <1>25 DEF Adopts, threads
  <2> QED BY <1>d, <1>e, <2>1
<1>26. ASSUME Switches PROVE WorkersServeOneAccount'
  <2>1. screen.at \notin {"main", "stopping"} /\ UNCHANGED thread
    BY <1>26 DEF Switches, threads
  <2> QED BY <1>d, <1>e, <2>1
<1>27. ASSUME Consents PROVE WorkersServeOneAccount'
  <2>1. screen.at \notin {"main", "stopping"} /\ UNCHANGED thread
    BY <1>27 DEF Consents, threads
  <2> QED BY <1>d, <1>e, <2>1
<1>28. ASSUME Starts PROVE WorkersServeOneAccount'
  <2>1. \A w \in Workers : thread'[w] = [Dead EXCEPT !.at = "idle", !.born = epoch + 1]
    BY <1>28 DEF Starts
  <2>2. \A w \in Workers : thread'[w].at = "idle" /\ thread'[w].born = epoch + 1
    BY <2>1 DEF Dead
  <2>3. screen'.at = "main" /\ epoch' = epoch + 1
    BY <1>28 DEF Starts, Screen
  <2> QED BY <1>a, <2>2, <2>3 DEF WorkersServeOneAccount, Serves, Workers, CollectorPlaces, SyncPlaces, AdvicePlaces
<1>29. ASSUME ProgramDies PROVE WorkersServeOneAccount'
  <2>1. \A w \in Workers : thread'[w].at = "dead"
    BY <1>29 DEF ProgramDies, Dead
  <2> QED BY <1>e, <2>1
<1>30. ASSUME Launches PROVE WorkersServeOneAccount'
  <2>1. screen.at \notin {"main", "stopping"} /\ UNCHANGED thread
    BY <1>30 DEF Launches, threads
  <2> QED BY <1>d, <1>e, <2>1
<1>31. ASSUME NEW w \in Workers, LoopEnds(w) PROVE WorkersServeOneAccount'
  <2>1. /\ UNCHANGED <<epoch, screen, owner>> /\ saved'.user = saved.user /\ Ends(w)
    BY <1>31 DEF LoopEnds, agent, sessions
  <2>2. \A v \in Workers \ {w} : thread'[v] = thread[v]
    BY <1>a, <1>31, <2>1, WorkerSteps
  <2>3. thread'[w].at = "dead"
    BY <1>a, <1>31, <2>1, WorkerSteps DEF Dead
  <2>4. Serves(w)'
    BY <2>3 DEF Serves, Workers, CollectorPlaces, SyncPlaces, AdvicePlaces
  <2> QED BY <1>a, <1>c, <2>1, <2>2, <2>4 DEF WorkersServeOneAccount
<1>32. ASSUME NEW w \in Workers, Drops(w) PROVE WorkersServeOneAccount'
  <2>1. thread[w].was \in SettingsRow /\ thread[w].was.user = saved.user
    BY <1>32, <1>b DEF Drops, Serves
  <2>2. saved' = Cleared(thread[w].was) /\ UNCHANGED <<owner, screen>> /\ epoch' \in {epoch, epoch + 1} /\ Ends(w)
    BY <1>32 DEF Drops, Replace, sessions
  <2>3. saved'.user = saved.user
    BY <2>1, <2>2 DEF SettingsRow, Cleared
  <2>4. \A v \in Workers \ {w} : thread'[v] = thread[v]
    BY <1>a, <1>32, <2>2, WorkerSteps
  <2>5. thread'[w].at = "dead"
    BY <1>a, <1>32, <2>2, WorkerSteps DEF Dead
  <2>6. Serves(w)'
    BY <2>5 DEF Serves, Workers, CollectorPlaces, SyncPlaces, AdvicePlaces
  <2> QED BY <1>a, <1>c, <2>2, <2>3, <2>4, <2>6 DEF WorkersServeOneAccount
<1> QED BY <1>1, <1>2, <1>3, <1>4, <1>5, <1>6, <1>7, <1>8, <1>9, <1>10, <1>11, <1>12, <1>13, <1>14, <1>15,
     <1>16, <1>17, <1>18, <1>19, <1>20, <1>21, <1>22, <1>23, <1>24, <1>25, <1>26, <1>27, <1>28, <1>29, <1>30,
     <1>31, <1>32
     DEF DesktopNext, desktopVars, agent, store, language, sessions, voice, threads, Observing, Syncing,
         Advising, Choosing, Responding, SigningOut, SigningIn

-----------------------------------------------------------------------------
(* The event worker.                                                         *)

\* Where the event worker goes, and with what.
SyncGoes ==
    \/ sync' = sync
    \/ sync'.at \in {"dead", "idle", "dropping"}
    \/ SyncBegins /\ sync'.at = "waiting" /\ sync'.was = [locale |-> saved.locale, generation |-> generation]
    \/ Locks /\ sync'.at = "reading" /\ sync'.was = sync.was /\ sync'.context = sync.context
    \/ /\ Reads
       /\ sync'.at = "read" /\ sync'.was = sync.was /\ sync'.context = sync.context
       /\ \E got \in AnswersTo(Token("sync")) :
             /\ sync'.got = IF got = "ok" THEN spoken[owner[Token("sync")]] ELSE got
             /\ Costs(got)
    \/ Refreshes /\ sync'.at = "batch" /\ sync'.batch = Pending /\ sync'.context = sync.context
    \/ /\ Sends
       /\ sync'.at = "sent" /\ sync'.was \in sync.batch /\ sync'.batch = sync.batch \ {sync'.was}
       /\ sync'.context = sync.context /\ sync'.got \in {"ok", "failed", "lost", "refused", "full"}
    \/ SendAnswered /\ sync'.at = "batch" /\ sync'.batch = sync.batch /\ sync'.context = sync.context

LEMMA SyncMoves ==
    ASSUME DesktopInv, [DesktopNext]_desktopVars
    PROVE  SyncGoes
<1>a. ThreadsTyped /\ RoundsRemember
  BY DEF DesktopInv, DesktopTyped
<1>b. /\ "collector" \in Workers /\ "sync" \in Workers /\ "advice" \in Workers
      /\ thread \in [Workers -> ThreadRow] /\ sync \in ThreadRow
  BY <1>a DEF Workers, ThreadsTyped, sync
<1>c. ASSUME NEW w \in Workers, Ends(w) \/ Rests(w) PROVE SyncGoes
  <2>1. thread'[w].at \in {"dead", "idle"} /\ \A v \in Workers \ {w} : thread'[v] = thread[v]
    BY <1>a, <1>c, WorkerSteps DEF Dead
  <2> QED BY <1>b, <2>1 DEF SyncGoes, sync
<1>d. ASSUME \A v \in Workers \ {"collector", "advice"} : thread'[v] = thread[v] PROVE SyncGoes
  BY <1>b, <1>d DEF SyncGoes, sync
<1>1. ASSUME UNCHANGED thread PROVE SyncGoes
  BY <1>1 DEF SyncGoes, sync
<1>2. ASSUME Chooses \/ Responds \/ Shows \/ SubmitProblem \/ ScreenStops \/ Joined \/ JoinTimesOut \/
      Leaves \/ Forgets \/ Empties \/ SignsIn \/ Adopts \/ Switches \/ Consents \/ Launches \/ Revoke \/
      SpeakElsewhere \/
      (\E t \in tasks : Enters(t) \/ Takes(t) \/ Puts(t) \/ Settles(t) \/ Posts(t) \/ Posted(t))
      PROVE  UNCHANGED thread
  BY <1>2 DEF Chooses, Enters, Takes, Puts, Settles, Responds, Posts, Posted, Shows, SubmitProblem,
     ScreenStops, Joined, JoinTimesOut, Leaves, Forgets, Empties, SignsIn, Adopts, Switches, Consents,
     Launches, Revoke, SpeakElsewhere, agent, store, language, sessions, voice, threads
<1>3. ASSUME Poll PROVE SyncGoes
  BY <1>3, <1>b, <1>d DEF Poll, Begins
<1>4. ASSUME Checks PROVE SyncGoes
  BY <1>4, <1>a, <1>b, <1>c, <1>d, WorkerSteps DEF Checks
<1>5. ASSUME Collects PROVE SyncGoes
  BY <1>5, <1>b, <1>c DEF Collects
<1>6. ASSUME SyncBegins PROVE SyncGoes
  BY <1>6, <1>b DEF SyncBegins, Begins, SyncGoes, sync, ThreadRow
<1>7. ASSUME Locks PROVE SyncGoes
  BY <1>7, <1>a, <1>b, WorkerSteps DEF Locks, SyncGoes, sync
<1>8. ASSUME Reads PROVE SyncGoes
  <2>1. PICK got \in AnswersTo(Token("sync")) :
          /\ thread' = [thread EXCEPT !["sync"].at = "read",
                 !["sync"].got = IF got = "ok" THEN spoken[owner[Token("sync")]] ELSE got]
          /\ Costs(got)
    BY <1>8 DEF Reads
  <2>2. /\ sync'.at = "read" /\ sync'.was = sync.was /\ sync'.context = sync.context
        /\ sync'.got = IF got = "ok" THEN spoken[owner[Token("sync")]] ELSE got
    BY <1>b, <2>1 DEF sync, ThreadRow
  <2> QED BY <1>8, <2>1, <2>2 DEF SyncGoes
<1>9. ASSUME OvertakenWhileReading PROVE SyncGoes
  BY <1>9, <1>b, <1>c DEF OvertakenWhileReading
<1>10. ASSUME Refreshes PROVE SyncGoes
  <2>1. CASE thread' = [thread EXCEPT !["sync"].at = "batch", !["sync"].batch = Pending]
    BY <1>10, <1>b, <2>1 DEF SyncGoes, sync, ThreadRow
  <2> QED BY <1>10, <1>b, <1>c, <2>1 DEF Refreshes
<1>11. ASSUME BatchEnds PROVE SyncGoes
  BY <1>11, <1>b, <1>c DEF BatchEnds
<1>12. ASSUME Sends PROVE SyncGoes
  <2>1. PICK e \in sync.batch, got \in {"ok", "failed", "lost", "refused", "full"} :
          thread' = [thread EXCEPT !["sync"].at = "sent", !["sync"].was = e, !["sync"].got = got,
                                   !["sync"].batch = @ \ {e}]
    BY <1>12 DEF Sends, AnswersTo
  <2>2. /\ sync'.at = "sent" /\ sync'.was = e /\ sync'.batch = sync.batch \ {e}
        /\ sync'.context = sync.context /\ sync'.got = got
    BY <1>b, <2>1 DEF sync, ThreadRow
  <2> QED BY <1>12, <2>1, <2>2 DEF SyncGoes
<1>13. ASSUME SendAnswered PROVE SyncGoes
  <2>1. CASE GoesTo("sync", "batch")
    BY <1>13, <1>a, <1>b, <2>1, WorkerSteps DEF SyncGoes, sync
  <2>2. CASE thread' = [thread EXCEPT !["sync"].at = "dropping", !["sync"].was = saved]
    BY <1>b, <2>2 DEF SyncGoes, sync, ThreadRow
  <2> QED BY <1>13, <1>a, <1>b, <1>c, <2>1, <2>2, SendAnsweredCases
<1>14. ASSUME AdviceBegins PROVE SyncGoes
  BY <1>14, <1>b, <1>d DEF AdviceBegins, Begins
<1>15. ASSUME AdviceAsks PROVE SyncGoes
  BY <1>15, <1>b, <1>d DEF AdviceAsks
<1>16. ASSUME AdviceAnswered PROVE SyncGoes
  <2>1. CASE thread' = [thread EXCEPT !["advice"].at = "dropping", !["advice"].was = saved]
    BY <1>b, <1>d, <2>1
  <2> QED BY <1>16, <1>a, <1>b, <1>c, <2>1, AdviceAnsweredCases
<1>17. ASSUME Starts PROVE SyncGoes
  BY <1>17, <1>b DEF Starts, SyncGoes, sync, Dead
<1>18. ASSUME ProgramDies PROVE SyncGoes
  BY <1>18, <1>b DEF ProgramDies, SyncGoes, sync, Dead
<1>19. ASSUME NEW w \in Workers, LoopEnds(w) PROVE SyncGoes
  BY <1>19, <1>c DEF LoopEnds
<1>20. ASSUME NEW w \in Workers, Drops(w) PROVE SyncGoes
  BY <1>20, <1>c DEF Drops
<1> QED BY <1>1, <1>2, <1>3, <1>4, <1>5, <1>6, <1>7, <1>8, <1>9, <1>10, <1>11, <1>12, <1>13, <1>14, <1>15,
     <1>16, <1>17, <1>18, <1>19, <1>20
     DEF DesktopNext, desktopVars, threads, Observing, Syncing, Advising, Choosing, Responding, SigningOut,
         SigningIn

\* Where the advice worker goes.
AdviceGoes ==
    advice' = advice \/ advice'.at # "asked" \/ advice'.got \in {"ok", "failed", "lost", "refused"}

LEMMA AdviceMoves ==
    ASSUME DesktopInv, [DesktopNext]_desktopVars
    PROVE  AdviceGoes
<1>a. ThreadsTyped /\ RoundsRemember
  BY DEF DesktopInv, DesktopTyped
<1>b. /\ "collector" \in Workers /\ "sync" \in Workers /\ "advice" \in Workers
      /\ thread \in [Workers -> ThreadRow] /\ advice \in ThreadRow
  BY <1>a DEF Workers, ThreadsTyped, advice
<1>c. ASSUME NEW w \in Workers, Ends(w) \/ Rests(w) PROVE AdviceGoes
  <2>1. thread'[w].at \in {"dead", "idle"} /\ \A v \in Workers \ {w} : thread'[v] = thread[v]
    BY <1>a, <1>c, WorkerSteps DEF Dead
  <2> QED BY <1>b, <2>1 DEF AdviceGoes, advice
<1>d. ASSUME \A v \in Workers \ {"collector", "sync"} : thread'[v] = thread[v] PROVE AdviceGoes
  BY <1>b, <1>d DEF AdviceGoes, advice
<1>1. ASSUME UNCHANGED thread PROVE AdviceGoes
  BY <1>1 DEF AdviceGoes, advice
<1>2. ASSUME Chooses \/ Responds \/ Shows \/ SubmitProblem \/ ScreenStops \/ Joined \/ JoinTimesOut \/
      Leaves \/ Forgets \/ Empties \/ SignsIn \/ Adopts \/ Switches \/ Consents \/ Launches \/ Revoke \/
      SpeakElsewhere \/
      (\E t \in tasks : Enters(t) \/ Takes(t) \/ Puts(t) \/ Settles(t) \/ Posts(t) \/ Posted(t))
      PROVE  UNCHANGED thread
  BY <1>2 DEF Chooses, Enters, Takes, Puts, Settles, Responds, Posts, Posted, Shows, SubmitProblem,
     ScreenStops, Joined, JoinTimesOut, Leaves, Forgets, Empties, SignsIn, Adopts, Switches, Consents,
     Launches, Revoke, SpeakElsewhere, agent, store, language, sessions, voice, threads
<1>3. ASSUME Poll PROVE AdviceGoes
  BY <1>3, <1>b, <1>d DEF Poll, Begins
<1>4. ASSUME Checks PROVE AdviceGoes
  BY <1>4, <1>a, <1>b, <1>c, <1>d, WorkerSteps DEF Checks
<1>5. ASSUME Collects PROVE AdviceGoes
  BY <1>5, <1>b, <1>c DEF Collects
<1>6. ASSUME SyncBegins PROVE AdviceGoes
  BY <1>6, <1>b, <1>d DEF SyncBegins, Begins
<1>7. ASSUME Locks PROVE AdviceGoes
  BY <1>7, <1>a, <1>b, <1>d, WorkerSteps DEF Locks
<1>8. ASSUME Reads PROVE AdviceGoes
  BY <1>8, <1>b, <1>d DEF Reads
<1>9. ASSUME OvertakenWhileReading PROVE AdviceGoes
  BY <1>9, <1>b, <1>c DEF OvertakenWhileReading
<1>10. ASSUME Refreshes PROVE AdviceGoes
  BY <1>10, <1>b, <1>c, <1>d DEF Refreshes
<1>11. ASSUME BatchEnds PROVE AdviceGoes
  BY <1>11, <1>b, <1>c DEF BatchEnds
<1>12. ASSUME Sends PROVE AdviceGoes
  BY <1>12, <1>b, <1>d DEF Sends
<1>13. ASSUME SendAnswered PROVE AdviceGoes
  <2>1. CASE GoesTo("sync", "batch")
    BY <1>a, <1>b, <1>d, <2>1, WorkerSteps
  <2>2. CASE thread' = [thread EXCEPT !["sync"].at = "dropping", !["sync"].was = saved]
    BY <1>b, <1>d, <2>2
  <2> QED BY <1>13, <1>a, <1>b, <1>c, <2>1, <2>2, SendAnsweredCases
<1>14. ASSUME AdviceBegins PROVE AdviceGoes
  BY <1>14, <1>b DEF AdviceBegins, Begins, AdviceGoes, advice, ThreadRow
<1>15. ASSUME AdviceAsks PROVE AdviceGoes
  BY <1>15, <1>b DEF AdviceAsks, AnswersTo, AdviceGoes, advice, ThreadRow
<1>16. ASSUME AdviceAnswered PROVE AdviceGoes
  <2>1. CASE thread' = [thread EXCEPT !["advice"].at = "dropping", !["advice"].was = saved]
    BY <1>b, <2>1 DEF AdviceGoes, advice, ThreadRow
  <2> QED BY <1>16, <1>a, <1>b, <1>c, <2>1, AdviceAnsweredCases
<1>17. ASSUME Starts PROVE AdviceGoes
  BY <1>17, <1>b DEF Starts, AdviceGoes, advice, Dead
<1>18. ASSUME ProgramDies PROVE AdviceGoes
  BY <1>18, <1>b DEF ProgramDies, AdviceGoes, advice, Dead
<1>19. ASSUME NEW w \in Workers, LoopEnds(w) PROVE AdviceGoes
  BY <1>19, <1>c DEF LoopEnds
<1>20. ASSUME NEW w \in Workers, Drops(w) PROVE AdviceGoes
  BY <1>20, <1>c DEF Drops
<1> QED BY <1>1, <1>2, <1>3, <1>4, <1>5, <1>6, <1>7, <1>8, <1>9, <1>10, <1>11, <1>12, <1>13, <1>14, <1>15,
     <1>16, <1>17, <1>18, <1>19, <1>20
     DEF DesktopNext, desktopVars, agent, store, language, sessions, voice, threads, Observing, Syncing,
         Advising, Choosing, Responding, SigningOut, SigningIn

\* Workers remember what they asked.
LEMMA RoundsKept ==
    ASSUME DesktopInv, [DesktopNext]_desktopVars
    PROVE  RoundsRemember'
<1>a. SettingsTyped /\ CountsTyped /\ ThreadsTyped /\ RoundsRemember
  BY DEF DesktopInv, DesktopTyped
<1>b. [locale |-> saved.locale, generation |-> generation] \in RoundRow
  BY <1>a, ContextTyped DEF RoundRow, CountsTyped
<1>c. sync.batch \subseteq EventRow
  BY <1>a DEF ThreadsTyped, ThreadRow, sync, Workers
<1>1. SyncGoes
  BY SyncMoves
<1>2. AdviceGoes
  BY AdviceMoves
<1>3. sync'.at \in {"waiting", "reading", "read"} => sync'.was \in RoundRow
  BY <1>a, <1>b, <1>1 DEF SyncGoes, RoundsRemember, Locks, Reads
<1>4. sync'.at = "sent" => sync'.was \in EventRow /\ sync'.got \in {"ok", "failed", "lost", "refused", "full"}
  BY <1>a, <1>c, <1>1 DEF SyncGoes, RoundsRemember
<1>5. advice'.at = "asked" => advice'.got \in {"ok", "failed", "lost", "refused"}
  BY <1>a, <1>2 DEF AdviceGoes, RoundsRemember
<1> QED BY <1>3, <1>4, <1>5 DEF RoundsRemember

-----------------------------------------------------------------------------
(* The store.                                                                *)

\* Numbers, accounts and attempts of marked events.
Marks(m) ==
    /\ m \in [events -> EventRow]
    /\ \A e \in events :
          /\ m[e].id = e.id /\ m[e].of = e.of
          /\ m[e].tries \in {e.tries, e.tries + 1}
          /\ m[e] # e => e.id = sync.was.id

\* What becomes of the events.
EventsGo ==
    \/ events' = events
    \/ /\ events' = Enqueued(saved.user) /\ saved.user \in Account
       /\ sync' = sync /\ UNCHANGED <<saved, torn, astray>>
    \/ /\ events' = {} /\ torn' = FALSE /\ \A w \in Workers : thread'[w].at = "dead"
    \/ \E m : Marks(m) /\ SendAnswered /\ events' = {m[e] : e \in events}

LEMMA EventsMove ==
    ASSUME DesktopInv, [DesktopNext]_desktopVars
    PROVE  EventsGo
<1>a. /\ SettingsTyped /\ ThreadsTyped /\ StoreTyped /\ RoundsRemember /\ WorkersServeOneAccount
      /\ SessionIsItsUsers /\ EventsNumbered
  BY DEF DesktopInv, DesktopTyped
<1>b. /\ "collector" \in Workers /\ "sync" \in Workers
      /\ thread \in [Workers -> ThreadRow] /\ saved.user \in Somebody
  BY <1>a, ContextTyped DEF Workers, ThreadsTyped
<1>c. ASSUME screen.at \notin {"main", "stopping"} PROVE \A w \in Workers : thread[w].at = "dead"
  BY <1>a, <1>c DEF WorkersServeOneAccount, Serves
<1>1. ASSUME UNCHANGED events PROVE EventsGo
  BY <1>1 DEF EventsGo
<1>2. ASSUME Poll \/ Checks \/ SyncBegins \/ Locks \/ Reads \/ OvertakenWhileReading \/ Refreshes \/
      BatchEnds \/ Sends \/ AdviceBegins \/ AdviceAsks \/ AdviceAnswered \/ Chooses \/ Responds \/ Shows \/
      Joined \/ JoinTimesOut \/ Leaves \/ Forgets \/ SignsIn \/ Adopts \/ Starts \/ ProgramDies \/ Launches \/
      Revoke \/ SpeakElsewhere \/
      (\E t \in tasks : Enters(t) \/ Takes(t) \/ Puts(t) \/ Settles(t) \/ Posts(t) \/ Posted(t)) \/
      (\E w \in Workers : LoopEnds(w) \/ Drops(w))
      PROVE  UNCHANGED events
  BY <1>2 DEF Poll, Checks, SyncBegins, Locks, Reads, OvertakenWhileReading, Refreshes, BatchEnds, Sends,
     AdviceBegins, AdviceAsks, AdviceAnswered, Chooses, Enters, Takes, Puts, Settles, Responds, Posts, Posted,
     Shows, Joined, JoinTimesOut, Leaves, Forgets, SignsIn, Adopts, Starts, ProgramDies, Launches, LoopEnds,
     Drops, Revoke, SpeakElsewhere, agent, store, language, sessions, voice, threads
<1>3. ASSUME Collects PROVE EventsGo
  <2>1. UserOf("collector") = saved.user /\ screen.at \in {"main", "stopping"}
    BY <1>3, <1>a, <1>b DEF Collects, WorkersServeOneAccount, Serves
  <2>2. saved.user \in Account
    BY <1>a, <1>b, <2>1 DEF SessionIsItsUsers, Somebody
  <2>3. sync' = sync
    BY <1>3, <1>a, <1>b, WorkerSteps DEF Collects, sync
  <2> QED BY <1>3, <2>1, <2>2, <2>3 DEF Collects, EventsGo, agent
<1>4. ASSUME SendAnswered PROVE EventsGo
  <2>1. ASSUME NEW e \in events
        PROVE  /\ e \in EventRow /\ [e EXCEPT !.synced = TRUE] \in EventRow
               /\ [e EXCEPT !.tries = @ + 1] \in EventRow
               /\ [e EXCEPT !.synced = TRUE].id = e.id /\ [e EXCEPT !.tries = @ + 1].id = e.id
               /\ [e EXCEPT !.synced = TRUE].of = e.of /\ [e EXCEPT !.tries = @ + 1].of = e.of
               /\ [e EXCEPT !.synced = TRUE].tries = e.tries /\ [e EXCEPT !.tries = @ + 1].tries = e.tries + 1
    <3>1. e \in EventRow /\ e.tries + 1 \in Nat
      BY <1>a DEF StoreTyped, EventRow
    <3> QED BY <3>1 DEF EventRow
  <2>2. CASE events' = {IF e.id = sync.was.id THEN [e EXCEPT !.synced = TRUE] ELSE e : e \in events}
    <3> DEFINE m == [e \in events |-> IF e.id = sync.was.id THEN [e EXCEPT !.synced = TRUE] ELSE e]
    <3>1. Marks(m)
      BY <2>1 DEF Marks
    <3>2. events' = {m[e] : e \in events}
      BY <2>2
    <3> QED BY <1>4, <3>1, <3>2 DEF EventsGo
  <2>3. CASE events' = {IF e.id = sync.was.id THEN [e EXCEPT !.tries = @ + 1] ELSE e : e \in events}
    <3> DEFINE m == [e \in events |-> IF e.id = sync.was.id THEN [e EXCEPT !.tries = @ + 1] ELSE e]
    <3>1. Marks(m)
      BY <2>1 DEF Marks
    <3>2. events' = {m[e] : e \in events}
      BY <2>3
    <3> QED BY <1>4, <3>1, <3>2 DEF EventsGo
  <2> QED BY <1>4, <1>1, <1>a, <2>2, <2>3, SendAnsweredCases
<1>5. ASSUME SubmitProblem PROVE EventsGo
  <2>1. saved.user \in Account
    BY <1>5, <1>b DEF SubmitProblem, Somebody
  <2> QED BY <1>5, <2>1 DEF SubmitProblem, EventsGo, agent, threads, sync
<1>6. ASSUME ScreenStops PROVE EventsGo
  <2>1. saved.user \in Account
    BY <1>6, <1>a, <1>b DEF ScreenStops, SessionIsItsUsers, Somebody
  <2> QED BY <1>6, <2>1 DEF ScreenStops, EventsGo, sync
<1>7. ASSUME Empties PROVE EventsGo
  BY <1>7, <1>c DEF Empties, Empty, EventsGo, threads
<1>8. ASSUME Switches PROVE EventsGo
  BY <1>8, <1>c DEF Switches, Empty, EventsGo, threads
<1>9. ASSUME Consents PROVE EventsGo
  BY <1>9, <1>c DEF Consents, Empty, EventsGo, threads
<1> QED BY <1>1, <1>2, <1>3, <1>4, <1>5, <1>6, <1>7, <1>8, <1>9
     DEF DesktopNext, desktopVars, agent, store, language, sessions, voice, threads, Observing, Syncing,
         Advising, Choosing, Responding, SigningOut, SigningIn

\* Marked events keep their number.
LEMMA MarkedAreAsMany ==
    ASSUME EventsNumbered, NEW m, Marks(m)
    PROVE  LET marked == {m[e] : e \in events}
           IN  IsFiniteSet(marked) /\ Cardinality(marked) = Cardinality(events)
<1> DEFINE marked == {m[e] : e \in events}
           f == [e \in events |-> m[e]]
<1>1. f \in [events -> marked]
  OBVIOUS
<1>2. \A e, g \in events : f[e] = f[g] => e = g
  BY DEF EventsNumbered, Marks
<1>3. \A n \in marked : \E e \in events : f[e] = n
  OBVIOUS
<1>4. f \in Bijection(events, marked)
  BY <1>1, <1>2, <1>3, Zenon DEF Bijection, Injection, Surjection, IsInjective
<1> QED BY <1>4, FS_Bijection DEF ExistsBijection, EventsNumbered

LEMMA EventsNumberedKept ==
    ASSUME DesktopInv, [DesktopNext]_desktopVars
    PROVE  EventsNumbered'
<1>a. StoreTyped /\ EventsNumbered /\ BatchesHaveTries /\ RoundsRemember
  BY DEF DesktopInv, DesktopTyped
<1>b. EventsGo
  BY EventsMove
<1>c. Cardinality(events) \in Nat /\ \A e \in events : e \in EventRow
  BY <1>a, FS_CardinalityType DEF EventsNumbered, StoreTyped
<1>1. CASE events' = events
  BY <1>1, <1>a DEF EventsNumbered
<1>2. CASE events' = Enqueued(saved.user)
  <2> DEFINE n == [id |-> Cardinality(events) + 1, of |-> saved.user, tries |-> 0, synced |-> FALSE]
  <2>1. events' = events \cup {n}
    BY <1>2 DEF Enqueued
  <2>2. n \notin events
    BY <1>a, <1>c DEF EventsNumbered
  <2>3. IsFiniteSet(events') /\ Cardinality(events') = Cardinality(events) + 1
    BY <1>a, <2>1, <2>2, FS_AddElement DEF EventsNumbered
  <2>4. \A e \in events' : e.id \in 1..Cardinality(events')
    BY <1>a, <1>c, <2>1, <2>3 DEF EventsNumbered
  <2>5. ASSUME NEW e \in events', NEW g \in events', e.id = g.id PROVE e = g
    <3>1. n.id = Cardinality(events) + 1 /\ \A o \in events : o.id \in 1..Cardinality(events)
      BY <1>a DEF EventsNumbered
    <3>2. (e \in events /\ g \in events) \/ (e = n /\ g = n)
      BY <1>c, <2>1, <2>5, <3>1
    <3> QED BY <1>a, <2>5, <3>2 DEF EventsNumbered
  <2>6. \A e \in events' : e.tries <= MaxTries
    BY <1>a, <2>1, TriesAssumption DEF EventsNumbered
  <2> QED BY <2>3, <2>4, <2>5, <2>6 DEF EventsNumbered
<1>3. CASE events' = {}
  BY <1>3, FS_EmptySet DEF EventsNumbered
<1>4. ASSUME NEW m, Marks(m), SendAnswered, events' = {m[e] : e \in events} PROVE EventsNumbered'
  <2>1. IsFiniteSet(events') /\ Cardinality(events') = Cardinality(events)
    BY <1>a, <1>4, MarkedAreAsMany
  <2>2. \A e \in events' : e.id \in 1..Cardinality(events')
    BY <1>a, <1>4, <2>1 DEF EventsNumbered, Marks
  <2>3. \A e, g \in events' : e.id = g.id => e = g
    BY <1>a, <1>4 DEF EventsNumbered, Marks
  <2>4. \A e \in events : m[e].tries <= MaxTries
    <3>1. ASSUME NEW e \in events PROVE m[e].tries <= MaxTries
      <4>1. e.tries \in Nat /\ e.tries <= MaxTries
        BY <1>a, <1>c DEF EventsNumbered, EventRow
      <4>2. m[e] = e \/ e.tries < MaxTries
        BY <1>a, <1>4 DEF Marks, BatchesHaveTries, SendAnswered
      <4>3. m[e] = e \/ m[e].tries \in {e.tries, e.tries + 1}
        BY <1>4 DEF Marks
      <4> QED BY <4>1, <4>2, <4>3, TriesAssumption
    <3> QED BY <3>1
  <2> QED BY <1>4, <2>1, <2>2, <2>3, <2>4 DEF EventsNumbered
<1> QED BY <1>b, <1>1, <1>2, <1>3, <1>4 DEF EventsGo

LEMMA BatchesKept ==
    ASSUME DesktopInv, [DesktopNext]_desktopVars
    PROVE  BatchesHaveTries'
<1>a. StoreTyped /\ ThreadsTyped /\ EventsNumbered /\ BatchesHaveTries /\ RoundsRemember
  BY DEF DesktopInv, DesktopTyped
<1>b. EventsGo /\ SyncGoes
  BY EventsMove, SyncMoves
<1>c. /\ Cardinality(events) \in Nat /\ \A e \in events : e \in EventRow
      /\ sync.batch \subseteq EventRow
  BY <1>a, FS_CardinalityType DEF EventsNumbered, StoreTyped, ThreadsTyped, ThreadRow, sync, Workers
<1>1. CASE sync'.at \notin {"batch", "sent"}
  BY <1>1 DEF BatchesHaveTries
<1>2. CASE sync'.at \in {"batch", "sent"} /\ events' = events
  <2>1. CASE sync' = sync
    BY <1>a, <1>2, <2>1 DEF BatchesHaveTries
  <2>2. CASE sync'.at = "batch" /\ sync'.batch = Pending
    BY <1>a, <1>2, <2>2 DEF BatchesHaveTries, Pending, EventsNumbered
  <2>3. CASE /\ Sends /\ sync'.at = "sent" /\ sync'.was \in sync.batch
             /\ sync'.batch = sync.batch \ {sync'.was}
    BY <1>a, <1>2, <2>3 DEF BatchesHaveTries, Sends
  <2>4. CASE SendAnswered /\ sync'.at = "batch" /\ sync'.batch = sync.batch
    BY <1>a, <1>2, <2>4 DEF BatchesHaveTries, SendAnswered
  <2> QED BY <1>b, <1>2, <2>1, <2>2, <2>3, <2>4 DEF SyncGoes
<1>3. CASE sync'.at \in {"batch", "sent"} /\ events' = Enqueued(saved.user) /\ sync' = sync
  <2> DEFINE n == [id |-> Cardinality(events) + 1, of |-> saved.user, tries |-> 0, synced |-> FALSE]
  <2>1. events' = events \cup {n} /\ n.id = Cardinality(events) + 1
    BY <1>3 DEF Enqueued
  <2>2. \A b \in sync.batch : b.id # n.id
    BY <1>a, <1>c, <1>3, <2>1 DEF BatchesHaveTries, EventsNumbered
  <2>3. sync.at = "sent" => n.id # sync.was.id
    BY <1>a, <1>c, <2>1 DEF BatchesHaveTries, EventsNumbered
  <2> QED BY <1>a, <1>3, <2>1, <2>2, <2>3 DEF BatchesHaveTries
<1>4. ASSUME sync'.at \in {"batch", "sent"}, NEW m, Marks(m), SendAnswered, events' = {m[e] : e \in events}
      PROVE  BatchesHaveTries'
  <2>1. sync.at = "sent" /\ sync'.at = "batch" /\ sync'.batch = sync.batch
    <3>1. sync.at = "sent"
      BY <1>4 DEF SendAnswered
    <3>2. CASE sync' = sync
      <4>1. ThreadsTyped
        BY <1>a
      <4>2. thread'["sync"] # thread["sync"]
        BY <1>4, <3>1, <1>a, SendAnsweredCases, WorkerSteps DEF Dead, Workers, ThreadsTyped, ThreadRow, sync
      <4> QED BY <3>2, <4>2 DEF sync
    <3> QED BY <1>b, <1>4, <3>1, <3>2 DEF SyncGoes, Reads, Refreshes, Sends, SyncBegins, Locks
  <2>2. \A b \in sync.batch : \A e \in events : b.id = e.id => m[e] = e
    BY <1>a, <1>4, <2>1 DEF BatchesHaveTries, Marks
  <2>3. \A b \in sync.batch : \A e \in events' : b.id = e.id => e.tries < MaxTries
    BY <1>a, <1>4, <2>1, <2>2 DEF BatchesHaveTries, Marks
  <2>4. \A b \in sync.batch : \E e \in events' : b.id = e.id
    BY <1>a, <1>4, <2>1 DEF BatchesHaveTries, Marks
  <2> QED BY <1>a, <2>1, <2>3, <2>4 DEF BatchesHaveTries
<1>5. ASSUME sync'.at \in {"batch", "sent"}, \A w \in Workers : thread'[w].at = "dead" PROVE FALSE
  BY <1>5 DEF sync, Workers
<1> QED BY <1>b, <1>1, <1>2, <1>3, <1>4, <1>5 DEF EventsGo

\* What becomes of the user of the settings and of the mark of a crash.
UserGoes ==
    \/ /\ saved'.user = saved.user /\ torn' = torn
       /\ screen.at \in {"emptying", "switching"} => screen'.at = screen.at
    \/ /\ sync'.at = "dead"
       /\ \/ events' = {}
          \/ events' = events /\ screen'.at \in {"emptying", "switching"}
          \/ Adopts /\ screen'.at = "settled" /\ saved.user \in {NoAccount, saved'.user} /\ events' = events
             /\ torn' = torn
          \/ /\ saved' = saved /\ events' = events
             /\ ~torn' => ~torn /\ (screen.at \notin {"emptying", "switching"} \/ events = {})

LEMMA UserMoves ==
    ASSUME DesktopInv, [DesktopNext]_desktopVars
    PROVE  UserGoes
<1>a. /\ SettingsTyped /\ ScreenTyped /\ ThreadsTyped /\ WorkersServeOneAccount /\ saved \in SettingsRow
  BY DEF DesktopInv, DesktopTyped, SettingsTyped
<1>b. screen.at \notin {"main", "stopping"} => sync.at = "dead"
  BY <1>a DEF WorkersServeOneAccount, Serves, sync, Workers
<1>1. ASSUME UNCHANGED <<saved, torn, screen>> PROVE UserGoes
  BY <1>1 DEF UserGoes
<1>2. ASSUME Poll \/ Checks \/ Collects \/ SyncBegins \/ Locks \/ Reads \/ OvertakenWhileReading \/
      BatchEnds \/ Sends \/ SendAnswered \/ AdviceBegins \/ AdviceAsks \/ AdviceAnswered \/ Chooses \/
      Responds \/ Shows \/ SubmitProblem \/ Revoke \/ SpeakElsewhere \/
      (\E t \in tasks : Enters(t) \/ Takes(t) \/ Puts(t) \/ Posts(t) \/ Posted(t)) \/
      (\E w \in Workers : LoopEnds(w))
      PROVE  UNCHANGED <<saved, torn, screen>>
  BY <1>2 DEF Poll, Checks, Collects, SyncBegins, Locks, Reads, OvertakenWhileReading, BatchEnds, Sends,
     SendAnswered, AdviceBegins, AdviceAsks, AdviceAnswered, Chooses, Enters, Takes, Puts, Responds, Posts,
     Posted, Shows, SubmitProblem, LoopEnds, Revoke, SpeakElsewhere, agent, store, language, sessions, voice,
     threads
<1>3. ASSUME Refreshes PROVE UserGoes
  <2>1. saved'.user = saved.user
    BY <1>3, <1>a DEF Refreshes, SettingsRow
  <2>2. UNCHANGED <<torn, screen>>
    BY <1>3 DEF Refreshes, store
  <2> QED BY <2>1, <2>2 DEF UserGoes
<1>4. ASSUME NEW t \in tasks, Settles(t) PROVE UserGoes
  <2>1. saved'.user = saved.user
    BY <1>4, <1>a DEF Settles, SettingsRow
  <2>2. UNCHANGED <<torn, screen>>
    BY <1>4 DEF Settles, store
  <2> QED BY <2>1, <2>2 DEF UserGoes
<1>5. ASSUME ScreenStops PROVE UserGoes
  BY <1>5 DEF ScreenStops, UserGoes, agent, store
<1>6. ASSUME Joined PROVE UserGoes
  BY <1>6 DEF Joined, UserGoes, agent, store
<1>7. ASSUME JoinTimesOut PROVE UserGoes
  BY <1>7 DEF JoinTimesOut, UserGoes, agent, store
<1>8. ASSUME Leaves PROVE UserGoes
  BY <1>8 DEF Leaves, UserGoes, agent, store
<1>9. ASSUME Forgets PROVE UserGoes
  BY <1>9, <1>b DEF Forgets, UserGoes, Screen, store, sync
<1>10. ASSUME Empties PROVE UserGoes
  BY <1>10, <1>b DEF Empties, Empty, UserGoes, sync
<1>11. ASSUME SignsIn PROVE UserGoes
  BY <1>11 DEF SignsIn, UserGoes, store
<1>12. ASSUME Adopts PROVE UserGoes
  <2>1. /\ UNCHANGED <<events, torn, thread>> /\ sync.at = "dead"
        /\ screen' = Screen(IF saved.user \in {NoAccount, screen.user} THEN "settled" ELSE "switching")
    BY <1>12, <1>b DEF Adopts, store
  <2>2. saved'.user = screen.user
    BY <1>12, <1>a DEF Adopts, Replace, SettingsRow
  <2> QED BY <1>12, <2>1, <2>2 DEF UserGoes, Screen, sync
<1>13. ASSUME Switches PROVE UserGoes
  BY <1>13, <1>b DEF Switches, Empty, UserGoes, sync
<1>14. ASSUME Consents PROVE UserGoes
  BY <1>14, <1>b DEF Consents, Empty, UserGoes, threads, sync
<1>15. ASSUME Starts PROVE UserGoes
  BY <1>15 DEF Starts, UserGoes, store
<1>16. ASSUME ProgramDies PROVE UserGoes
  <2>1. sync'.at = "dead"
    BY <1>16 DEF ProgramDies, sync, Dead, Workers
  <2>2. /\ UNCHANGED <<saved, events>>
        /\ torn' = (torn \/ (screen.at \in {"emptying", "switching"} /\ (events # {} \/ cache # {})))
    BY <1>16 DEF ProgramDies
  <2> QED BY <2>1, <2>2 DEF UserGoes
<1>17. ASSUME Launches PROVE UserGoes
  <2>1. /\ UNCHANGED torn /\ screen.at = "down"
    BY <1>17 DEF Launches, store
  <2>2. saved'.user = saved.user
    BY <1>17, <1>a DEF Launches, Replace, Cleared, SettingsRow, agent
  <2> QED BY <2>1, <2>2 DEF UserGoes
<1>18. ASSUME NEW w \in Workers, Drops(w) PROVE UserGoes
  <2>1. UNCHANGED <<torn, screen>>
    BY <1>18 DEF Drops, store
  <2>2. saved'.user = saved.user
    BY <1>18, <1>a DEF Drops, Replace, Cleared, SettingsRow, WorkersServeOneAccount, Serves
  <2> QED BY <2>1, <2>2 DEF UserGoes
<1> QED BY <1>1, <1>2, <1>3, <1>4, <1>5, <1>6, <1>7, <1>8, <1>9, <1>10, <1>11, <1>12, <1>13, <1>14, <1>15,
     <1>16, <1>17, <1>18
     DEF DesktopNext, desktopVars, agent, store, language, sessions, voice, threads, Observing, Syncing,
         Advising, Choosing, Responding, SigningOut, SigningIn

\* Events go to the user's account.
LEMMA EventsUsersKept ==
    ASSUME DesktopInv, [DesktopNext]_desktopVars
    PROVE  EventsAreTheUsers'
<1>a. /\ SettingsTyped /\ StoreTyped /\ ThreadsTyped /\ EventsAreTheUsers /\ WorkersServeOneAccount
      /\ torn \in BOOLEAN
  BY DEF DesktopInv, DesktopTyped, StoreTyped
<1>b. UserGoes /\ EventsGo /\ SyncGoes
  BY UserMoves, EventsMove, SyncMoves
<1>c. sync.at # "dead" => screen.at \in {"main", "stopping"}
  BY <1>a DEF WorkersServeOneAccount, Serves, sync, Workers
<1>d. astray' = astray \/ Sends
  BY DEF Poll, Checks, Collects, SyncBegins, Locks, Reads, OvertakenWhileReading, Refreshes, BatchEnds,
     SendAnswered, AdviceBegins, AdviceAsks, AdviceAnswered, Chooses, Enters, Takes, Puts, Settles, Responds,
     Posts, Posted, Shows, SubmitProblem, ScreenStops, Joined, JoinTimesOut, Leaves, Forgets, Empties, SignsIn,
     Adopts, Switches, Consents, Starts, ProgramDies, Launches, LoopEnds, Drops, Revoke, SpeakElsewhere,
     DesktopNext, desktopVars, agent, store, language, sessions, voice, threads, Observing, Syncing, Advising,
     Choosing, Responding, SigningOut, SigningIn
<1>1. ASSUME screen'.at \notin {"emptying", "switching"}, ~torn' PROVE \A e \in events' : e.of = saved'.user
  <2>1. ASSUME saved'.user = saved.user, torn' = torn, screen.at \notin {"emptying", "switching"}
        PROVE  \A e \in events' : e.of = saved'.user
    <3>1. \A e \in events : e.of = saved.user
      BY <1>1, <1>a, <2>1 DEF EventsAreTheUsers
    <3> QED BY <1>b, <2>1, <3>1 DEF EventsGo, Enqueued, Marks
  <2>2. ASSUME Adopts, saved.user \in {NoAccount, saved'.user}, events' = events, torn' = torn
        PROVE  \A e \in events' : e.of = saved'.user
    <3>1. \A e \in events : e.of = saved.user
      BY <1>1, <1>a, <2>2 DEF EventsAreTheUsers, Adopts
    <3>2. \A e \in events : e.of # NoAccount
      BY <1>a, NamesAssumption DEF StoreTyped, EventRow
    <3> QED BY <2>2, <3>1, <3>2
  <2>3. ASSUME saved' = saved, events' = events, ~torn,
               screen.at \notin {"emptying", "switching"} \/ events = {}
        PROVE  \A e \in events' : e.of = saved'.user
    BY <1>a, <2>3 DEF EventsAreTheUsers
  <2> QED BY <1>1, <1>b, <2>1, <2>2, <2>3 DEF UserGoes
<1>2. ASSUME sync'.at \in {"batch", "sent"}, ~torn' PROVE \A b \in sync'.batch : b.of = saved'.user
  <2>1. saved'.user = saved.user /\ ~torn
    BY <1>b, <1>2 DEF UserGoes
  <2>2. CASE sync'.batch \subseteq sync.batch /\ sync.at \in {"batch", "sent"}
    BY <1>a, <2>1, <2>2 DEF EventsAreTheUsers
  <2>3. CASE Refreshes /\ sync'.batch = Pending
    BY <1>a, <1>c, <2>1, <2>3 DEF EventsAreTheUsers, Refreshes, Pending
  <2> QED BY <1>2, <1>b, <2>2, <2>3 DEF SyncGoes, Sends, SendAnswered
<1>3. \A a \in astray' : a.torn
  <2>1. CASE astray' = astray
    BY <1>a, <2>1 DEF EventsAreTheUsers, EventsReachTheirAccount
  <2>2. CASE Sends
    <3>1. PICK e \in sync.batch, got \in AnswersTo(Token("sync")) \cup {"full"} :
             astray' = IF Arrived(got) /\ e.of # owner[Token("sync")]
                       THEN astray \cup {[of |-> e.of, under |-> owner[Token("sync")], torn |-> torn]}
                       ELSE astray
      BY <2>2 DEF Sends
    <3>2. saved.user = owner[Token("sync")]
      BY <1>a, <2>2 DEF WorkersServeOneAccount, Serves, Workers, Sends, sync
    <3>3. torn \/ e.of = saved.user
      BY <1>a, <2>2 DEF EventsAreTheUsers, Sends
    <3>4. \A a \in astray : a.torn
      BY <1>a DEF EventsAreTheUsers, EventsReachTheirAccount
    <3> QED BY <3>1, <3>2, <3>3, <3>4
  <2> QED BY <1>d, <2>1, <2>2
<1> QED BY <1>1, <1>2, <1>3 DEF EventsAreTheUsers, EventsReachTheirAccount

-----------------------------------------------------------------------------
(* Choices of a language.                                                    *)

\* A context stays in force, or is passed.
EpochGoes ==
    \/ /\ epoch' = epoch /\ Context' = Context
       /\ screen.at = "main" => screen'.at = "main"
    \/ epoch' > epoch /\ UNCHANGED <<tasks, requested, entered, generation>>
    \/ ProgramDies

LEMMA EpochMoves ==
    ASSUME DesktopInv, [DesktopNext]_desktopVars
    PROVE  EpochGoes
<1>a. /\ saved \in SettingsRow /\ epoch \in Nat /\ SessionIsItsUsers /\ WorkersServeOneAccount
      /\ epoch + 1 > epoch /\ SettingsTyped /\ SettingsTyped'
  <2>1. saved \in SettingsRow /\ epoch \in Nat
    BY DEF DesktopInv, DesktopTyped, SettingsTyped
  <2> QED BY <2>1, SettingsTypedKept DEF DesktopInv, DesktopTyped
<1>1. ASSUME UNCHANGED <<epoch, saved, screen>> PROVE EpochGoes
  BY <1>1 DEF EpochGoes, Context, Identity
\* New settings, while the screen is not on its main window or keeps it.
<1>c. ASSUME NEW new, Replace(new), UNCHANGED <<tasks, requested, entered, generation>>,
             screen.at = "main" => screen'.at = "main"
      PROVE  EpochGoes
  <2>1. saved' = new
    BY <1>c DEF Replace
  <2>2. CASE Identity(new) = Identity(saved)
    BY <1>c, <2>1, <2>2 DEF Replace, EpochGoes, Context, Identity
  <2>3. CASE Identity(new) # Identity(saved)
    BY <1>a, <1>c, <2>3 DEF Replace, EpochGoes
  <2> QED BY <2>2, <2>3
<1>2. ASSUME Poll \/ Checks \/ Collects \/ SyncBegins \/ Locks \/ Reads \/ OvertakenWhileReading \/
      BatchEnds \/ Sends \/ SendAnswered \/ AdviceBegins \/ AdviceAsks \/ AdviceAnswered \/ Chooses \/
      Responds \/ Shows \/ SubmitProblem \/ Revoke \/ SpeakElsewhere \/
      (\E t \in tasks : Enters(t) \/ Takes(t) \/ Puts(t) \/ Posts(t) \/ Posted(t)) \/
      (\E w \in Workers : LoopEnds(w))
      PROVE  UNCHANGED <<epoch, saved, screen>>
  BY <1>2 DEF Poll, Checks, Collects, SyncBegins, Locks, Reads, OvertakenWhileReading, BatchEnds, Sends,
     SendAnswered, AdviceBegins, AdviceAsks, AdviceAnswered, Chooses, Enters, Takes, Puts, Responds, Posts,
     Posted, Shows, SubmitProblem, LoopEnds, Revoke, SpeakElsewhere, agent, store, language, sessions, voice,
     threads
<1>3. ASSUME Refreshes PROVE EpochGoes
  <2>1. UNCHANGED <<epoch, screen>> /\ Identity(saved)' = Identity(saved)
    BY <1>3, <1>a DEF Refreshes, SettingsRow, Identity
  <2> QED BY <2>1 DEF EpochGoes, Context
<1>4. ASSUME NEW t \in tasks, Settles(t) PROVE EpochGoes
  <2>1. UNCHANGED <<epoch, screen>> /\ Identity(saved)' = Identity(saved)
    BY <1>4, <1>a DEF Settles, SettingsRow, Identity, threads
  <2> QED BY <2>1 DEF EpochGoes, Context
<1>5. ASSUME ScreenStops PROVE EpochGoes
  BY <1>5, <1>a DEF ScreenStops, EpochGoes, language
<1>6. ASSUME Joined PROVE EpochGoes
  BY <1>6, <1>a DEF Joined, EpochGoes, language
<1>7. ASSUME JoinTimesOut PROVE EpochGoes
  BY <1>7, <1>a DEF JoinTimesOut, EpochGoes, agent, Screen, Context, Identity
<1>8. ASSUME Leaves PROVE EpochGoes
  BY <1>8, <1>a DEF Leaves, EpochGoes, agent, Screen, Context, Identity
<1>9. ASSUME Forgets PROVE EpochGoes
  BY <1>9, <1>c DEF Forgets
<1>10. ASSUME Empties PROVE EpochGoes
  BY <1>10, <1>a DEF Empties, EpochGoes, agent, Context, Identity
<1>11. ASSUME SignsIn PROVE EpochGoes
  BY <1>11, <1>a DEF SignsIn, EpochGoes, language
<1>12. ASSUME Adopts PROVE EpochGoes
  BY <1>12, <1>c DEF Adopts
<1>13. ASSUME Switches PROVE EpochGoes
  BY <1>13, <1>a DEF Switches, EpochGoes, agent, Context, Identity
<1>14. ASSUME Consents PROVE EpochGoes
  <2>1. UNCHANGED <<epoch, screen>> /\ Identity(saved)' = Identity(saved)
    BY <1>14, <1>a DEF Consents, SettingsRow, Identity, threads
  <2> QED BY <2>1 DEF EpochGoes, Context
<1>15. ASSUME Starts PROVE EpochGoes
  BY <1>15, <1>a DEF Starts, EpochGoes, language
<1>16. ASSUME ProgramDies PROVE EpochGoes
  BY <1>16 DEF EpochGoes
<1>17. ASSUME Launches PROVE EpochGoes
  <2>1. screen.at # "main" /\ UNCHANGED <<tasks, requested, entered, generation>>
    BY <1>17 DEF Launches
  <2>2. CASE UNCHANGED epoch /\ Identity(saved)' = Identity(saved)
    BY <2>1, <2>2 DEF EpochGoes, Context
  <2>3. ASSUME NEW new, Replace(new) PROVE EpochGoes
    BY <1>c, <2>1, <2>3
  <2>4. CASE UNCHANGED agent
    BY <2>2, <2>4 DEF agent, Identity
  <2>5. ASSUME saved' = [saved EXCEPT !.locale = spoken[saved.user]], UNCHANGED epoch PROVE EpochGoes
    BY <1>a, <2>2, <2>5, LocaleChanges
  <2> QED BY <1>17, <2>3, <2>4, <2>5 DEF Launches
<1>18. ASSUME NEW w \in Workers, Drops(w) PROVE EpochGoes
  BY <1>18, <1>c DEF Drops
<1> QED BY <1>1, <1>2, <1>3, <1>4, <1>5, <1>6, <1>7, <1>8, <1>9, <1>10, <1>11, <1>12, <1>13, <1>14, <1>15,
     <1>16, <1>17, <1>18
     DEF DesktopNext, desktopVars, agent, store, language, sessions, voice, threads, Observing, Syncing,
         Advising, Choosing, Responding, SigningOut, SigningIn

\* What becomes of the choices and their counts.
ChoicesGo ==
    \/ ChoiceTasks' = ChoiceTasks /\ UNCHANGED <<requested, entered, generation>>
    \/ Chooses
    \/ \E t \in ChoiceTasks : Enters(t) \/ Takes(t) \/ Puts(t) \/ Settles(t)
    \/ ProgramDies

LEMMA ChoicesMove ==
    ASSUME DesktopInv, [DesktopNext]_desktopVars
    PROVE  ChoicesGo
<1>a. \A t \in tasks : t \in TaskRow
  BY DEF DesktopInv, DesktopTyped, TasksTyped
<1>1. ASSUME UNCHANGED <<tasks, requested, entered, generation>> PROVE ChoicesGo
  BY <1>1 DEF ChoicesGo, ChoiceTasks
<1>2. ASSUME Poll \/ Checks \/ Collects \/ SyncBegins \/ Locks \/ Reads \/ OvertakenWhileReading \/
      Refreshes \/ BatchEnds \/ Sends \/ SendAnswered \/ AdviceBegins \/ AdviceAsks \/ AdviceAnswered \/
      Shows \/ SubmitProblem \/ ScreenStops \/ Joined \/ JoinTimesOut \/ Leaves \/ Forgets \/ Empties \/
      SignsIn \/ Adopts \/ Switches \/ Consents \/ Starts \/ Launches \/ Revoke \/ SpeakElsewhere \/
      (\E w \in Workers : LoopEnds(w) \/ Drops(w))
      PROVE  UNCHANGED <<tasks, requested, entered, generation>>
  BY <1>2 DEF Poll, Checks, Collects, SyncBegins, Locks, Reads, OvertakenWhileReading, Refreshes, BatchEnds,
     Sends, SendAnswered, AdviceBegins, AdviceAsks, AdviceAnswered, Shows, SubmitProblem, ScreenStops, Joined,
     JoinTimesOut, Leaves, Forgets, Empties, SignsIn, Adopts, Switches, Consents, Starts, Launches, LoopEnds,
     Drops, Revoke, SpeakElsewhere, agent, store, language, sessions, voice, threads
<1>3. ASSUME Chooses PROVE ChoicesGo
  BY <1>3 DEF ChoicesGo
<1>4. ASSUME NEW t \in tasks, Enters(t) PROVE ChoicesGo
  BY <1>4 DEF ChoicesGo, ChoiceTasks, Enters
<1>5. ASSUME NEW t \in tasks, Takes(t) PROVE ChoicesGo
  BY <1>5 DEF ChoicesGo, ChoiceTasks, Takes
<1>6. ASSUME NEW t \in tasks, Puts(t) PROVE ChoicesGo
  BY <1>6 DEF ChoicesGo, ChoiceTasks, Puts
<1>7. ASSUME NEW t \in tasks, Settles(t) PROVE ChoicesGo
  BY <1>7 DEF ChoicesGo, ChoiceTasks, Settles
<1>8. ASSUME Responds PROVE ChoicesGo
  BY <1>8 DEF Responds, Task, ChoicesGo, ChoiceTasks, language
<1>9. ASSUME NEW t \in tasks, Posts(t) PROVE ChoicesGo
  <2>1. PICK n : Becomes(t, n) /\ n.kind = t.kind
    <3>1. PICK got : Becomes(t, [t EXCEPT !.at = "posted", !.context = Context,
                                   !.got = IF Arrived(got) /\ owner[saved.token] # t.want THEN "refused" ELSE got])
      BY <1>9 DEF Posts
    <3> DEFINE n == [t EXCEPT !.at = "posted", !.context = Context,
                       !.got = IF Arrived(got) /\ owner[saved.token] # t.want THEN "refused" ELSE got]
    <3>2. Becomes(t, n) /\ n.kind = t.kind
      BY <1>a, <3>1 DEF TaskRow
    <3> HIDE DEF n
    <3> QED BY <3>2
  <2>2. t.kind = "response" /\ UNCHANGED <<requested, entered, generation>>
    BY <1>9 DEF Posts, language
  <2> QED BY <2>1, <2>2 DEF Becomes, ChoicesGo, ChoiceTasks
<1>10. ASSUME NEW t \in tasks, Posted(t) PROVE ChoicesGo
  BY <1>10 DEF Posted, Discards, ChoicesGo, ChoiceTasks, language
<1>11. ASSUME ProgramDies PROVE ChoicesGo
  BY <1>11 DEF ChoicesGo
<1> QED BY <1>1, <1>2, <1>3, <1>4, <1>5, <1>6, <1>7, <1>8, <1>9, <1>10, <1>11
     DEF DesktopNext, desktopVars, agent, store, language, sessions, voice, threads, Observing, Syncing,
         Advising, Choosing, Responding, SigningOut, SigningIn

\* The parts of ChoicesInOrder, without the worker's.
Counted(t) ==
    /\ t.number <= requested
    /\ t.context[1] <= epoch
    /\ t.context[1] = epoch => t.context = Context /\ screen.at = "main"
    /\ OnItsWay(t) /\ InForce(t.context) => \E n \in ChoiceTasks : Alive(n)

LEMMA ChoicesKept ==
    ASSUME DesktopInv, [DesktopNext]_desktopVars
    PROVE  ChoicesInOrder'
<1>a. /\ ChoicesInOrder /\ TasksTyped /\ CountsTyped /\ epoch \in Nat /\ epoch' \in Nat
      /\ \A t \in ChoiceTasks : t \in TaskRow /\ t \in tasks /\ t.kind = "choice"
      /\ \A t \in ChoiceTasks : t.context \in Nat \X Identities /\ t.number \in Nat
  <2>1. TasksTyped /\ SettingsTyped'
    BY SettingsTypedKept DEF DesktopInv, DesktopTyped
  <2> QED BY <2>1 DEF DesktopInv, DesktopTyped, SettingsTyped, ChoiceTasks, TasksTyped, TaskRow, Contexts
<1>b. EpochGoes /\ ChoicesGo /\ SyncGoes
  BY EpochMoves, ChoicesMove, SyncMoves
<1>c. \A t \in ChoiceTasks : Counted(t)
  BY <1>a DEF ChoicesInOrder, Counted
<1>d. Context[1] = epoch
  BY DEF Context
\* Choices that stand still, while others come and go.
<1>1. CASE ChoiceTasks' = ChoiceTasks /\ UNCHANGED <<requested, entered, generation>> /\ ~ProgramDies
  <2>1. ASSUME NEW t \in ChoiceTasks PROVE Counted(t)'
    <3>1. CASE epoch' = epoch /\ Context' = Context /\ (screen.at = "main" => screen'.at = "main")
      BY <1>1, <1>c, <3>1 DEF Counted, OnItsWay, InForce, Alive, Newest
    <3>2. CASE epoch' > epoch
      <4>1. t.context[1] # epoch' /\ t.context[1] <= epoch'
        BY <1>a, <1>c, <3>2 DEF Counted
      <4>2. t.context # Context'
        BY <4>1 DEF Context
      <4>3. t.number <= requested'
        BY <1>1, <1>c DEF Counted
      <4> QED BY <4>1, <4>2, <4>3 DEF Counted, InForce
    <3> QED BY <1>1, <1>b, <3>1, <3>2 DEF EpochGoes
  <2>2. sync'.at \in {"reading", "read"} => \A t \in ChoiceTasks : ~OnItsWay(t)
    <3>1. CASE sync' = sync \/ Reads
      BY <1>a, <3>1 DEF ChoicesInOrder, Reads
    <3>2. CASE Locks
      BY <3>2 DEF Locks, IoFree, OnItsWay
    <3> QED BY <1>b, <3>1, <3>2 DEF SyncGoes
  <2> QED BY <1>1, <1>a, <2>1, <2>2 DEF ChoicesInOrder, Counted, OnItsWay
<1>2. CASE Chooses
  <2>1. /\ screen.at = "main" /\ requested' = requested + 1
        /\ UNCHANGED <<saved, epoch, entered, generation, thread, screen>>
    BY <1>2 DEF Chooses, agent
  <2>2. PICK l \in Language : tasks' = tasks \cup {Task("choice", requested + 1, l)}
    BY <1>2 DEF Chooses
  <2>n. PICK n : n = Task("choice", requested + 1, l)
    OBVIOUS
  <2>3. /\ n.kind = "choice" /\ n.at = "new" /\ n.number = requested + 1 /\ n.context = Context
        /\ ChoiceTasks' = ChoiceTasks \cup {n}
    BY <2>2, <2>n DEF Task, ChoiceTasks
  <2>4. Context' = Context
    BY <2>1 DEF Context, Identity
  <2>5. ASSUME NEW t \in ChoiceTasks PROVE Counted(t)'
    <3>1. t.number <= requested'
      BY <1>a, <1>c, <2>1 DEF Counted, CountsTyped
    <3> QED BY <1>c, <2>1, <2>3, <2>4, <3>1 DEF Counted, OnItsWay, InForce, Alive, Newest
  <2>6. Counted(n)'
    <3>1. n.number <= requested' /\ n.context[1] <= epoch'
      BY <1>a, <1>d, <2>1, <2>3 DEF CountsTyped
    <3> QED BY <2>1, <2>3, <2>4, <3>1 DEF Counted, OnItsWay
  <2>7. generation' <= entered' /\ entered' <= requested'
    BY <1>a, <2>1 DEF ChoicesInOrder, CountsTyped
  <2>8. ~OnItsWay(n)
    BY <2>3 DEF OnItsWay
  <2>9. sync' = sync
    BY <2>1 DEF sync
  <2>10. \A t \in ChoiceTasks' : Counted(t)'
    BY <2>3, <2>5, <2>6
  <2>11. /\ \A t, u \in ChoiceTasks' : OnItsWay(t)' /\ OnItsWay(u)' => t = u
         /\ sync'.at \in {"reading", "read"} => \A t \in ChoiceTasks' : ~OnItsWay(t)'
    BY <1>a, <2>3, <2>8, <2>9 DEF ChoicesInOrder, OnItsWay
  <2> QED BY <2>7, <2>10, <2>11 DEF ChoicesInOrder, Counted
\* A choice goes on, or is over; nothing else changes but counts.
<1>3. ASSUME NEW t \in ChoiceTasks, Enters(t) \/ Takes(t) \/ Puts(t) \/ Settles(t)
      PROVE  ChoicesInOrder'
  <2>1. UNCHANGED <<epoch, screen, thread, requested>> /\ Context' = Context /\ sync' = sync
    <3>1. UNCHANGED <<epoch, screen, thread, requested>>
      BY <1>3 DEF Enters, Takes, Puts, Settles, agent, language, threads
    <3>2. ~ProgramDies /\ ~(epoch' > epoch)
      <4>1. ~(epoch > epoch)
        BY <1>a
      <4>2. tasks' # {} \/ t \in tasks
        BY <1>a
      <4>3. ASSUME ProgramDies PROVE FALSE
        BY <1>3, <4>3, <3>1 DEF ProgramDies, Screen
      <4> QED BY <4>1, <4>3, <3>1
    <3> QED BY <1>b, <3>1, <3>2 DEF EpochGoes, sync
  <2>2. t \in TaskRow /\ t \in tasks /\ t.kind = "choice"
    BY <1>a
  \* Those that stand still.
  <2>3. ASSUME NEW u \in ChoiceTasks, u \in ChoiceTasks',
               OnItsWay(u) /\ InForce(u.context) => \E n \in ChoiceTasks' : Alive(n)'
        PROVE  Counted(u)'
    <3>1. /\ u.number <= requested' /\ u.context[1] <= epoch'
          /\ u.context[1] = epoch' => u.context = Context' /\ screen'.at = "main"
      BY <1>c, <2>1, <2>3 DEF Counted
    <3>2. InForce(u.context)' = InForce(u.context) /\ OnItsWay(u)' = OnItsWay(u)
      BY <2>1 DEF InForce, OnItsWay
    <3> QED BY <2>3, <3>1, <3>2 DEF Counted
  <2>4. CASE Settles(t)
    <3>1. ChoiceTasks' = ChoiceTasks \ {t} /\ UNCHANGED <<entered, generation>> /\ OnItsWay(t)
      BY <2>2, <2>4 DEF Settles, Discards, ChoiceTasks, OnItsWay
    <3>2. \A u \in ChoiceTasks' : ~OnItsWay(u)
      BY <1>a, <3>1 DEF ChoicesInOrder
    <3>3. \A u \in ChoiceTasks' : Counted(u)'
      BY <2>3, <3>1, <3>2
    <3> QED BY <1>a, <2>1, <3>1, <3>2, <3>3 DEF ChoicesInOrder, Counted, OnItsWay
  <2>5. CASE Discards(t) /\ UNCHANGED <<entered, generation>> /\ ~Alive(t)
    <3>1. ChoiceTasks' = ChoiceTasks \ {t}
      BY <2>2, <2>5 DEF Discards, ChoiceTasks
    <3>2. \A n \in ChoiceTasks : Alive(n)' = Alive(n)
      BY <2>1, <2>5 DEF Alive, Newest, InForce
    <3>3. ASSUME NEW u \in ChoiceTasks' PROVE Counted(u)'
      <4>1. OnItsWay(u) /\ InForce(u.context) => \E n \in ChoiceTasks' : Alive(n)'
        BY <1>c, <2>5, <3>1, <3>2 DEF Counted
      <4> QED BY <2>3, <3>1, <4>1
    <3> QED BY <1>a, <2>1, <2>5, <3>1, <3>3 DEF ChoicesInOrder, Counted, OnItsWay
  \* One that goes on is counted like before.
  <2>6. ASSUME NEW n \in TaskRow, n.kind = "choice", n.number = t.number, n.context = t.context,
               ChoiceTasks' = (ChoiceTasks \ {t}) \cup {n},
               OnItsWay(n) /\ InForce(n.context) => \E m \in ChoiceTasks' : Alive(m)'
        PROVE  Counted(n)'
    <3>1. /\ n.number <= requested' /\ n.context[1] <= epoch'
          /\ n.context[1] = epoch' => n.context = Context' /\ screen'.at = "main"
      BY <1>c, <2>1, <2>6 DEF Counted
    <3>2. InForce(n.context)' = InForce(n.context) /\ OnItsWay(n)' = OnItsWay(n)
      BY <2>1 DEF InForce, OnItsWay
    <3> QED BY <2>6, <3>1, <3>2 DEF Counted
  <2>7. CASE Enters(t) /\ InForce(t.context) /\ t.number > entered
    <3>n. PICK n : n = [t EXCEPT !.at = "waiting", !.generation = generation + 1]
      OBVIOUS
    <3>g. generation + 1 \in Nat
      BY <1>a DEF CountsTyped
    <3>1. /\ n \in TaskRow /\ n.kind = "choice" /\ n.number = t.number /\ n.context = t.context
          /\ n.at = "waiting" /\ n.generation = generation + 1
      BY <2>2, <3>g, <3>n DEF TaskRow
    <3>2. /\ entered' = t.number /\ generation' = generation + 1 /\ t.at = "new"
          /\ Becomes(t, n) /\ InForce(t.context) /\ t.number > entered
      BY <2>7, <3>n DEF Enters
    <3>3. ChoiceTasks' = (ChoiceTasks \ {t}) \cup {n}
      BY <2>2, <3>1, <3>2 DEF Becomes, ChoiceTasks
    <3>4. Alive(n)' /\ ~OnItsWay(n) /\ ~OnItsWay(t)
      BY <2>1, <3>1, <3>2 DEF Alive, Newest, InForce, OnItsWay
    <3>5. \A u \in ChoiceTasks' : Counted(u)'
      BY <2>3, <2>6, <3>1, <3>3, <3>4
    <3>6. generation' <= entered' /\ entered' <= requested'
      BY <1>a, <1>c, <2>1, <3>2 DEF ChoicesInOrder, CountsTyped, Counted
    <3> QED BY <1>a, <2>1, <3>3, <3>4, <3>5, <3>6 DEF ChoicesInOrder, Counted, OnItsWay
  <2>8. CASE Takes(t) /\ Newest(t)
    <3> DEFINE n == [t EXCEPT !.at = "putting"]
    <3>1. /\ n \in TaskRow /\ n.kind = "choice" /\ n.number = t.number /\ n.context = t.context
          /\ n.at = "putting" /\ n.generation = t.generation
      BY <2>2 DEF TaskRow
    <3>2. UNCHANGED <<entered, generation>> /\ Becomes(t, n) /\ IoFree
      BY <2>8 DEF Takes, language
    <3>3. ChoiceTasks' = (ChoiceTasks \ {t}) \cup {n}
      BY <2>2, <3>1, <3>2 DEF Becomes, ChoiceTasks
    <3>4. Alive(n)'
      BY <2>1, <2>8, <3>1, <3>2 DEF Alive, Newest, InForce
    <3>5. \A u \in ChoiceTasks' : Counted(u)'
      BY <2>3, <2>6, <3>1, <3>3, <3>4
    <3>6. (\A u \in ChoiceTasks : ~OnItsWay(u)) /\ sync.at \notin {"reading", "read"}
      BY <3>2 DEF IoFree, OnItsWay
    <3> QED BY <1>a, <2>1, <3>2, <3>3, <3>5, <3>6 DEF ChoicesInOrder, Counted, OnItsWay
  <2>9. CASE Puts(t)
    <3>1. PICK got \in AnswersTo(t.context[2][2]) : Becomes(t, [t EXCEPT !.at = "put", !.got = got])
      BY <2>9 DEF Puts
    <3> DEFINE n == [t EXCEPT !.at = "put", !.got = got]
    <3>2. /\ n \in TaskRow /\ n.kind = "choice" /\ n.number = t.number /\ n.context = t.context
          /\ n.at = "put" /\ n.generation = t.generation
      BY <2>2 DEF TaskRow, AnswersTo, AnswerKinds
    <3>3. UNCHANGED <<entered, generation>> /\ t.at = "putting"
      BY <2>9 DEF Puts, language
    <3>4. ChoiceTasks' = (ChoiceTasks \ {t}) \cup {n}
      BY <2>2, <3>1, <3>2 DEF Becomes, ChoiceTasks
    <3>5. OnItsWay(t) /\ OnItsWay(n)
      BY <2>2, <3>2, <3>3 DEF OnItsWay
    <3>6. /\ \A m \in ChoiceTasks : Alive(m)' = Alive(m)
          /\ Alive(t) => Alive(n)'
      BY <2>1, <3>2, <3>3 DEF Alive, Newest, InForce
    <3>7. InForce(n.context) => \E m \in ChoiceTasks' : Alive(m)'
      <4>1. InForce(n.context) => \E m \in ChoiceTasks : Alive(m)
        BY <1>c, <3>2, <3>5 DEF Counted
      <4> QED BY <3>4, <3>6, <4>1
    <3>8. \A u \in ChoiceTasks \ {t} : ~OnItsWay(u)
      BY <1>a, <3>5 DEF ChoicesInOrder
    <3>9. \A u \in ChoiceTasks' : Counted(u)'
      BY <2>3, <2>6, <3>2, <3>4, <3>7, <3>8
    <3>10. sync.at \notin {"reading", "read"}
      BY <1>a, <3>5 DEF ChoicesInOrder
    <3> QED BY <1>a, <2>1, <3>3, <3>4, <3>8, <3>9, <3>10 DEF ChoicesInOrder, Counted, OnItsWay
  <2>10. \/ Settles(t) \/ Puts(t) \/ (Takes(t) /\ Newest(t))
         \/ (Enters(t) /\ InForce(t.context) /\ t.number > entered)
         \/ (Discards(t) /\ UNCHANGED <<entered, generation>> /\ ~Alive(t))
    BY <1>3 DEF Enters, Takes, Alive, language
  <2> QED BY <2>4, <2>5, <2>7, <2>8, <2>9, <2>10
<1>4. CASE ProgramDies
  <2>1. tasks' = {} /\ requested' = 0 /\ entered' = 0 /\ generation' = 0
    BY <1>4 DEF ProgramDies
  <2> QED BY <2>1 DEF ChoicesInOrder, ChoiceTasks
<1> QED BY <1>b, <1>1, <1>2, <1>3, <1>4 DEF ChoicesGo

-----------------------------------------------------------------------------
(* The language.                                                             *)

\* While no answer of the server is read and no session runs, only what is at rest
\* matters.
LEMMA RestingKnown ==
    ASSUME sync'.at # "read", screen'.at # "main" \/ stopped', ~unsure' => AtRestKnown'
    PROVE  LanguageKnown'
  BY DEF LanguageKnown, InSessionKnown, AnswerKnown

\* A choice that is over leaves no other on its way.
LEMMA NothingElseOnItsWay ==
    ASSUME ChoicesInOrder, NEW t \in ChoiceTasks, OnItsWay(t)
    PROVE  /\ \A u \in ChoiceTasks \ {t} : ~OnItsWay(u) /\ ~Confirms(u)
           /\ sync.at # "read"
  BY DEF ChoicesInOrder, OnItsWay, Confirms, ChoiceTasks

\* The language stays known while the event worker reads and takes it over.
LEMMA ReadingKeepsLanguage ==
    ASSUME DesktopInv, Reads \/ Refreshes
    PROVE  LanguageKnown'
<1>a. /\ SettingsTyped /\ ThreadsTyped /\ SessionIsItsUsers /\ WorkersServeOneAccount /\ ChoicesInOrder
      /\ LanguageKnown /\ saved \in SettingsRow /\ sync \in ThreadRow /\ "sync" \in Workers
      /\ thread \in [Workers -> ThreadRow] /\ unsure \in BOOLEAN
  BY DEF DesktopInv, DesktopTyped, SettingsTyped, ServerTyped, ThreadsTyped, sync, Workers
<1>1. ASSUME Reads PROVE LanguageKnown'
  <2>1. PICK got \in AnswersTo(Token("sync")) :
           thread' = [thread EXCEPT !["sync"].at = "read",
                         !["sync"].got = IF got = "ok" THEN spoken[owner[Token("sync")]] ELSE got]
    BY <1>1 DEF Reads
  <2>2. sync'.got = IF got = "ok" THEN spoken[owner[Token("sync")]] ELSE got
    BY <1>a, <2>1 DEF ThreadRow, sync
  <2>3. saved.user = owner[Token("sync")]
    BY <1>a, <1>1 DEF WorkersServeOneAccount, Serves, Reads, sync
  <2>4. got # "ok" => got \notin Language
    BY NamesAssumption DEF AnswersTo, AnswerKinds
  <2>5. /\ UNCHANGED <<unsure, saved, spoken, confirmed, stopped, epoch, generation, screen, tasks>>
    BY <1>1 DEF Reads, agent, language, voice
  <2>6. AnswerKnown'
    BY <2>2, <2>3, <2>4, <2>5 DEF AnswerKnown
  <2>7. ~unsure => AtRestKnown' /\ InSessionKnown'
    BY <1>a, <2>5 DEF LanguageKnown, AtRestKnown, InSessionKnown, HasSession, Identity, ChoiceTasks, Confirms,
       Alive, Newest, InForce, Context
  <2> QED BY <2>5, <2>6, <2>7 DEF LanguageKnown
<1>2. ASSUME Refreshes PROVE LanguageKnown'
  <2>1. /\ sync.at = "read" /\ ~stopped /\ sync.context = Context
        /\ UNCHANGED <<spoken, stopped, epoch, generation, screen, tasks>>
    BY <1>2 DEF Refreshes, Serving, InForce, sync
  <2>2. screen.at = "main" /\ UserOf("sync") = saved.user
    BY <1>a, <2>1 DEF WorkersServeOneAccount, Serves, SessionIsItsUsers, sync
  <2>3. sync'.at # "read"
    <3>1. CASE thread' = [thread EXCEPT !["sync"].at = "batch", !["sync"].batch = Pending]
      BY <1>a, <3>1 DEF ThreadRow, sync
    <3>2. CASE Rests("sync")
      BY <1>a, <3>2, WorkerSteps DEF sync
    <3> QED BY <1>2, <3>1, <3>2 DEF Refreshes
  <2>4. AtRestKnown' /\ AnswerKnown'
    BY <2>1, <2>2, <2>3 DEF AtRestKnown, AnswerKnown
  <2>5. CASE sync.got \notin Language
    <3>1. UNCHANGED <<confirmed, saved, unsure>>
      BY <1>2, <2>5 DEF Refreshes
    <3>2. ~unsure => InSessionKnown'
      BY <1>a, <2>1, <3>1 DEF LanguageKnown, InSessionKnown, HasSession, Identity, ChoiceTasks, Confirms,
         Alive, Newest, InForce, Context
    <3> QED BY <2>4, <3>1, <3>2 DEF LanguageKnown
  <2>6. CASE sync.got \in Language /\ ~unsure'
    <3>1. /\ confirmed' = [language |-> sync.got, for |-> sync.context[2]]
          /\ saved' = [saved EXCEPT !.locale = IF sync.got = sync.was.locale THEN @ ELSE sync.got]
          /\ unsure' = (unsure /\ {sync.got, saved'.locale} # {spoken[UserOf("sync")]})
      BY <1>2, <2>6 DEF Refreshes
    <3>2. /\ Identity(saved)' = Identity(saved) /\ saved'.user = saved.user
          /\ saved'.locale = IF sync.got = sync.was.locale THEN saved.locale ELSE sync.got
      BY <1>a, <3>1 DEF SettingsRow, Identity
    <3>3. sync.context[2] = Identity(saved)
      BY <2>1 DEF Context
    <3>4. sync.got = spoken[saved.user] /\ (unsure => saved'.locale = spoken[saved.user])
      <4>1. CASE ~unsure
        BY <1>a, <2>1, <2>6, <4>1 DEF LanguageKnown, AnswerKnown
      <4>2. CASE {sync.got, saved'.locale} = {spoken[UserOf("sync")]}
        BY <2>2, <4>2
      <4> QED BY <2>6, <3>1, <4>1, <4>2
    <3>5. \A t \in ChoiceTasks : Alive(t)' = Alive(t) /\ ~Confirms(t)'
      <4>1. \A t \in ChoiceTasks : ~OnItsWay(t)
        BY <1>a, <2>1 DEF ChoicesInOrder
      <4>2. Context' = Context
        BY <2>1, <3>2 DEF Context
      <4> QED BY <2>1, <4>1, <4>2 DEF Alive, Newest, InForce, Confirms, OnItsWay, ChoiceTasks
    <3>6. saved'.locale = spoken[saved.user] \/ \E t \in ChoiceTasks : Alive(t)
      <4>1. ~unsure => saved.locale = spoken[saved.user] \/ \E t \in ChoiceTasks : Alive(t)
        BY <1>a, <2>1, <2>2 DEF LanguageKnown, InSessionKnown
      <4> QED BY <3>2, <3>4, <4>1
    <3>7. ChoiceTasks' = ChoiceTasks
      BY <2>1 DEF ChoiceTasks
    <3>8. /\ \A t \in ChoiceTasks' : ~Confirms(t)'
          /\ confirmed' = [language |-> spoken'[saved'.user], for |-> Identity(saved)']
          /\ saved'.locale = spoken'[saved'.user] \/ \E t \in ChoiceTasks' : Alive(t)'
      BY <2>1, <3>1, <3>2, <3>3, <3>4, <3>5, <3>6, <3>7
    <3> QED BY <2>4, <3>8 DEF LanguageKnown, InSessionKnown
  <2> QED BY <2>5, <2>6 DEF LanguageKnown
<1> QED BY <1>1, <1>2

\* The language stays known while a choice goes on.
LEMMA ChoosingKeepsLanguage ==
    ASSUME DesktopInv, ChoicesInOrder', NEW t \in ChoiceTasks, Enters(t) \/ Takes(t) \/ Puts(t) \/ Settles(t)
    PROVE  LanguageKnown'
<1>a. /\ SessionIsItsUsers /\ ChoicesInOrder /\ LanguageKnown /\ TasksTyped /\ saved \in SettingsRow
      /\ t \in TaskRow /\ t \in tasks /\ t.kind = "choice" /\ unsure \in BOOLEAN
      /\ spoken \in [Account -> Language] /\ saved.token \in Nat /\ saved.user \in Somebody
      /\ owner \in Seq(Account) /\ live \subseteq 1..Len(owner)
  BY ContextTyped DEF DesktopInv, DesktopTyped, SettingsTyped, ServerTyped, TasksTyped, ChoiceTasks
<1>b. UNCHANGED <<epoch, screen, stopped, thread>> /\ sync' = sync
  BY DEF Enters, Takes, Puts, Settles, agent, threads, sync
<1>1. CASE Enters(t) \/ Takes(t)
  <2>1. /\ UNCHANGED <<unsure, saved, spoken, confirmed>>
        /\ ~Confirms(t) /\ ~(OnItsWay(t) /\ Alive(t)) /\ Context' = Context
    BY <1>1, <1>b DEF Enters, Takes, agent, voice, language, Confirms, OnItsWay, Context, Identity
  <2>2. AnswerKnown' = AnswerKnown /\ AtRestKnown' = AtRestKnown
    BY <1>b, <2>1 DEF AnswerKnown, AtRestKnown, HasSession, Identity
  <2>3. \A u : Confirms(u)' = Confirms(u)
    BY <2>1 DEF Confirms, InForce
  <2>4. CASE Discards(t) /\ UNCHANGED generation /\ ~Alive(t)
    <3>1. ChoiceTasks' = ChoiceTasks \ {t} /\ \A u : Alive(u)' = Alive(u)
      BY <2>1, <2>4 DEF Discards, ChoiceTasks, Alive, Newest, InForce
    <3> QED BY <1>a, <1>b, <2>1, <2>2, <2>3, <2>4, <3>1 DEF LanguageKnown, InSessionKnown, Identity
  <2>5. ASSUME NEW n, Becomes(t, n), n.kind = "choice", ~Confirms(n), Alive(n)' PROVE LanguageKnown'
    <3>1. ChoiceTasks' = (ChoiceTasks \ {t}) \cup {n}
      BY <1>a, <2>5 DEF Becomes, ChoiceTasks
    <3>2. ~unsure => InSessionKnown'
      BY <1>a, <1>b, <2>1, <2>3, <2>5, <3>1 DEF LanguageKnown, InSessionKnown, Identity
    <3> QED BY <1>a, <2>1, <2>2, <3>2 DEF LanguageKnown
  <2>6. CASE Enters(t) /\ InForce(t.context) /\ t.number > entered
    <3>1. PICK n : n = [t EXCEPT !.at = "waiting", !.generation = generation + 1]
      OBVIOUS
    <3>2. n.kind = "choice" /\ n.at = "waiting" /\ n.context = t.context /\ n.generation = generation + 1
      BY <1>a, <3>1 DEF TaskRow
    <3>3. Becomes(t, n) /\ generation' = generation + 1
      BY <2>6, <3>1 DEF Enters
    <3>4. Alive(n)' /\ ~Confirms(n)
      BY <2>1, <2>6, <3>2, <3>3 DEF Alive, Newest, InForce, Confirms
    <3> QED BY <2>5, <3>2, <3>3, <3>4
  <2>7. CASE Takes(t) /\ Newest(t)
    <3>1. PICK n : n = [t EXCEPT !.at = "putting"]
      OBVIOUS
    <3>2. n.kind = "choice" /\ n.at = "putting" /\ n.context = t.context /\ n.generation = t.generation
      BY <1>a, <3>1 DEF TaskRow
    <3>3. Becomes(t, n) /\ generation' = generation
      BY <2>7, <3>1 DEF Takes, language
    <3>4. Alive(n)' /\ ~Confirms(n)
      BY <2>1, <2>7, <3>2, <3>3 DEF Alive, Newest, InForce, Confirms
    <3> QED BY <2>5, <3>2, <3>3, <3>4
  <2> QED BY <1>1, <2>4, <2>6, <2>7 DEF Enters, Takes, Alive, language
<1>2. ASSUME Puts(t), ~unsure' PROVE LanguageKnown'
  <2>1. PICK got \in AnswersTo(t.context[2][2]) :
           /\ Becomes(t, [t EXCEPT !.at = "put", !.got = got])
           /\ IF Arrived(got)
              THEN spoken' = [spoken EXCEPT ![owner[t.context[2][2]]] = t.want]
              ELSE UNCHANGED spoken
           /\ unsure' = (unsure \/ got = "lost" \/ (got = "ok" /\ ~InForce(t.context)))
    BY <1>2 DEF Puts
  <2>2. /\ UNCHANGED <<saved, confirmed, generation>> /\ t.at = "putting" /\ Context' = Context
    BY <1>2, <1>b DEF Puts, agent, language, Context, Identity
  <2>3. PICK n : n = [t EXCEPT !.at = "put", !.got = got]
    OBVIOUS
  <2>4. /\ n.kind = "choice" /\ n.at = "put" /\ n.got = got /\ n.context = t.context
        /\ n.generation = t.generation /\ n.want = t.want
    BY <1>a, <2>3 DEF TaskRow, AnswersTo
  <2>5. ChoiceTasks' = (ChoiceTasks \ {t}) \cup {n} /\ OnItsWay(t) /\ OnItsWay(n) /\ ~Confirms(t)
    BY <1>a, <2>1, <2>2, <2>3, <2>4 DEF Becomes, ChoiceTasks, OnItsWay, Confirms
  <2>6. /\ \A u : Alive(u)' = Alive(u) /\ Confirms(u)' = Confirms(u)
        /\ Alive(t) => Alive(n)
    BY <1>b, <2>2, <2>4 DEF Alive, Newest, InForce, Confirms
  <2>7. ~unsure /\ got # "lost" /\ (got = "ok" => InForce(t.context))
    BY <1>2, <2>1
  <2>8. AtRestKnown /\ InSessionKnown
    BY <1>a, <2>7 DEF LanguageKnown
  <2>9. \A u \in ChoiceTasks' : Confirms(u) => u = n
    BY <1>a, <2>5, NothingElseOnItsWay
  <2>10. AnswerKnown'
    BY <1>a, <1>b, <2>5, NothingElseOnItsWay DEF AnswerKnown
  <2>11. CASE got = "ok"
    <3>1. t.context = Context
      BY <2>7, <2>11 DEF InForce
    <3>2. saved.token \in live /\ t.context[2][2] = saved.token
      BY <2>11, <3>1 DEF AnswersTo, Context, Identity
    <3>3. owner[saved.token] = saved.user /\ saved.user \in Account
      BY <1>a, <3>2 DEF SessionIsItsUsers
    <3>4. spoken'[saved.user] = n.want
      BY <1>a, <2>1, <2>4, <2>11, <3>2, <3>3 DEF Arrived
    <3>5. screen.at = "main"
      BY <1>a, <3>1 DEF ChoicesInOrder, Context
    <3>6. Confirms(n)
      BY <2>4, <2>11, <3>1 DEF Confirms, InForce
    <3>7. \E u \in ChoiceTasks' : Alive(u)'
      BY <2>2, <2>4, <2>5, <3>1 DEF ChoicesInOrder, OnItsWay, InForce
    <3>8. AtRestKnown'
      BY <1>b, <3>5 DEF AtRestKnown
    <3>9. InSessionKnown'
      BY <2>2, <2>5, <2>6, <2>9, <3>4, <3>6, <3>7 DEF InSessionKnown
    <3> QED BY <2>10, <3>8, <3>9 DEF LanguageKnown
  <2>12. CASE got # "ok"
    <3>1. UNCHANGED spoken /\ ~Confirms(n)
      BY <2>1, <2>4, <2>7, <2>12 DEF Arrived, Confirms
    <3>2. AtRestKnown'
      BY <1>b, <2>2, <2>8, <3>1 DEF AtRestKnown, HasSession, Identity
    <3>3. InSessionKnown'
      BY <1>b, <2>2, <2>5, <2>6, <2>8, <3>1 DEF InSessionKnown, Identity
    <3> QED BY <2>10, <3>2, <3>3 DEF LanguageKnown
  <2> QED BY <2>11, <2>12
<1>3. ASSUME Settles(t), ~unsure' PROVE LanguageKnown'
  <2>1. /\ t.at = "put" /\ Discards(t) /\ UNCHANGED <<unsure, spoken, generation>>
        /\ confirmed' = IF t.got = "ok" /\ InForce(t.context)
                        THEN [language |-> t.want, for |-> t.context[2]] ELSE confirmed
        /\ saved' = [saved EXCEPT !.locale =
                        IF Newest(t) /\ confirmed'.for = t.context[2] THEN confirmed'.language ELSE @]
    BY <1>3 DEF Settles, voice
  <2>2. /\ saved'.user = saved.user /\ Identity(saved)' = Identity(saved)
        /\ HasSession(saved)' = HasSession(saved)
        /\ saved'.locale = IF Newest(t) /\ confirmed'.for = t.context[2] THEN confirmed'.language ELSE saved.locale
    BY <1>a, <2>1 DEF SettingsRow, Identity, HasSession
  <2>3. ChoiceTasks' = ChoiceTasks \ {t} /\ OnItsWay(t)
    BY <1>a, <2>1 DEF Discards, ChoiceTasks, OnItsWay
  <2>4. Context' = Context
    BY <1>b, <2>2 DEF Context
  <2>5. \A u : Alive(u)' = Alive(u) /\ Confirms(u)' = Confirms(u)
    BY <2>1, <2>4 DEF Alive, Newest, InForce, Confirms
  <2>6. AtRestKnown /\ InSessionKnown
    BY <1>3, <1>a, <2>1 DEF LanguageKnown
  <2>7. \A u \in ChoiceTasks' : ~Confirms(u)
    BY <1>a, <2>3, NothingElseOnItsWay
  <2>8. AnswerKnown'
    BY <1>a, <1>b, <2>3, NothingElseOnItsWay DEF AnswerKnown
  <2>9. CASE screen.at = "main" /\ ~stopped
    <3>1. confirmed' = [language |-> spoken[saved.user], for |-> Identity(saved)]
      <4>1. CASE Confirms(t)
        BY <2>1, <2>6, <2>9, <4>1 DEF InSessionKnown, Confirms, InForce, Context
      <4>2. CASE ~Confirms(t)
        <5>1. \A u \in ChoiceTasks : ~Confirms(u)
          BY <2>3, <2>7, <4>2
        <5> QED BY <2>1, <2>6, <2>9, <4>2, <5>1 DEF InSessionKnown, Confirms
      <4> QED BY <4>1, <4>2
    <3>2. Newest(t) => saved'.locale = spoken[saved.user]
      BY <2>2, <3>1 DEF Newest, InForce, Context
    <3>3. ~Newest(t) => saved'.locale = spoken[saved.user] \/ \E u \in ChoiceTasks' : Alive(u)
      BY <2>2, <2>3, <2>6, <2>9 DEF InSessionKnown, Alive
    <3>4. InSessionKnown'
      BY <2>1, <2>2, <2>5, <2>7, <3>1, <3>2, <3>3 DEF InSessionKnown
    <3>5. AtRestKnown'
      BY <1>b, <2>9 DEF AtRestKnown
    <3> QED BY <2>8, <3>4, <3>5 DEF LanguageKnown
  <2>10. CASE screen.at # "main"
    <3>1. ~InForce(t.context)
      BY <1>a, <2>10 DEF ChoicesInOrder, InForce, Context
    <3>2. confirmed' = confirmed /\ saved'.locale = saved.locale
      BY <2>1, <2>2, <3>1 DEF Newest
    <3> QED BY <1>b, <2>1, <2>2, <2>6, <2>8, <2>10, <3>2 DEF LanguageKnown, AtRestKnown, InSessionKnown
  <2>11. CASE screen.at = "main" /\ stopped
    BY <1>b, <2>8, <2>11 DEF LanguageKnown, AtRestKnown, InSessionKnown
  <2> QED BY <2>9, <2>10, <2>11
<1> QED BY <1>1, <1>2, <1>3 DEF LanguageKnown

LEMMA LanguageKept ==
    ASSUME DesktopInv, [DesktopNext]_desktopVars
    PROVE  LanguageKnown'
<1>a. /\ SessionIsItsUsers /\ WorkersServeOneAccount /\ ChoicesInOrder /\ LanguageKnown /\ TasksTyped
      /\ saved \in SettingsRow /\ unsure \in BOOLEAN /\ epoch \in Nat
      /\ \A t \in ChoiceTasks : t.context \in Contexts
  BY DEF DesktopInv, DesktopTyped, SettingsTyped, ServerTyped, TasksTyped, TaskRow, ChoiceTasks
<1>b. ChoicesGo /\ SyncGoes /\ EpochGoes /\ ChoicesInOrder' /\ WorkersServeOneAccount' /\ SessionIsItsUsers'
  BY ChoicesMove, SyncMoves, EpochMoves, ChoicesKept, WorkersKept, SessionKept
<1>c. screen'.at \notin {"main", "stopping"} => sync'.at = "dead"
  BY <1>b DEF WorkersServeOneAccount, Serves, sync, Workers
<1>d. screen'.at \notin {"main", "stopping", "settled", "switching", "down"} => LanguageKnown'
  BY <1>c, RestingKnown DEF AtRestKnown
<1>1. ASSUME UNCHANGED <<unsure, saved, spoken, confirmed, stopped, epoch, generation, screen>>,
             ChoiceTasks' = ChoiceTasks,
             sync' = sync \/ sync'.at # "read"
      PROVE  LanguageKnown'
  BY <1>1, <1>a DEF LanguageKnown, AtRestKnown, InSessionKnown, AnswerKnown, HasSession, Identity, Confirms, Alive,
     Newest, InForce, Context
<1>2. ASSUME NEW t \in tasks, Enters(t) \/ Takes(t) \/ Puts(t) \/ Settles(t) PROVE LanguageKnown'
  <2>1. t \in ChoiceTasks
    BY <1>2 DEF Enters, Takes, Puts, Settles, ChoiceTasks
  <2> QED BY <1>2, <1>b, <2>1, ChoosingKeepsLanguage
<1>3. ASSUME Reads \/ Refreshes PROVE LanguageKnown'
  BY <1>3, ReadingKeepsLanguage
<1>4. ASSUME SpeakElsewhere PROVE LanguageKnown'
  BY <1>4 DEF SpeakElsewhere, LanguageKnown
<1>5. ASSUME Chooses PROVE LanguageKnown'
  <2>1. UNCHANGED <<unsure, saved, spoken, confirmed, stopped, epoch, generation, screen>> /\ sync' = sync
    BY <1>5 DEF Chooses, agent, voice, sync
  <2>2. PICK n : tasks' = tasks \cup {n} /\ n.kind = "choice" /\ n.at = "new"
    <3>1. PICK l \in Language : tasks' = tasks \cup {Task("choice", requested + 1, l)}
      BY <1>5 DEF Chooses
    <3> DEFINE n == Task("choice", requested + 1, l)
    <3>2. tasks' = tasks \cup {n} /\ n.kind = "choice" /\ n.at = "new"
      BY <3>1 DEF Task
    <3> HIDE DEF n
    <3> QED BY <3>2
  <2>3. ChoiceTasks' = ChoiceTasks \cup {n} /\ ~Confirms(n) /\ ~Alive(n)
    BY <2>2 DEF ChoiceTasks, Confirms, Alive
  <2>4. Context' = Context
    BY <2>1 DEF Context, Identity
  <2>5. \A u : Confirms(u)' = Confirms(u) /\ Alive(u)' = Alive(u)
    BY <2>1, <2>4 DEF Confirms, Alive, Newest, InForce
  <2>6. AtRestKnown' = AtRestKnown /\ AnswerKnown' = AnswerKnown
    BY <2>1 DEF AtRestKnown, AnswerKnown, HasSession, Identity
  <2>7. InSessionKnown => InSessionKnown'
    BY <2>1, <2>3, <2>5 DEF InSessionKnown, Identity
  <2> QED BY <1>a, <2>1, <2>6, <2>7 DEF LanguageKnown
<1>6. ASSUME ScreenStops PROVE LanguageKnown'
  <2>1. /\ screen'.at = "stopping" /\ sync' = sync /\ UNCHANGED <<saved, spoken, unsure>>
    BY <1>6 DEF ScreenStops, Screen, voice, sync
  <2> QED BY <1>a, <2>1 DEF LanguageKnown, AtRestKnown, InSessionKnown, AnswerKnown
<1>7. ASSUME Joined PROVE LanguageKnown'
  BY <1>7, <1>d DEF Joined, Screen
<1>8. ASSUME JoinTimesOut PROVE LanguageKnown'
  <2>1. /\ screen'.at = "main" /\ stopped /\ sync' = sync /\ UNCHANGED <<saved, stopped, spoken, unsure>>
    BY <1>8, <1>a DEF JoinTimesOut, Screen, SessionIsItsUsers, agent, voice, sync
  <2> QED BY <1>a, <2>1 DEF LanguageKnown, AtRestKnown, InSessionKnown, AnswerKnown
<1>9. ASSUME Leaves PROVE LanguageKnown'
  BY <1>9, <1>d DEF Leaves, Screen
<1>10. ASSUME Forgets PROVE LanguageKnown'
  BY <1>10, <1>d DEF Forgets, Screen
<1>11. ASSUME Empties PROVE LanguageKnown'
  BY <1>11, <1>d DEF Empties, Screen
<1>12. ASSUME SignsIn PROVE LanguageKnown'
  <2>1. screen'.at \in {"door", "entered"}
    BY <1>12 DEF SignsIn
  <2> QED BY <1>d, <2>1
<1>13. ASSUME Adopts PROVE LanguageKnown'
  <2>1. /\ screen'.at \in {"settled", "switching"} /\ screen.at = "entered"
        /\ unsure' = (spoken[screen.user] # screen.locale) /\ UNCHANGED spoken
        /\ Replace([saved EXCEPT !.user = screen.user, !.token = screen.token, !.locale = screen.locale])
    BY <1>13 DEF Adopts, Screen
  <2>2. /\ saved' = [saved EXCEPT !.user = screen.user, !.token = screen.token, !.locale = screen.locale]
        /\ saved'.user = screen.user /\ saved'.token = screen.token /\ saved'.locale = screen.locale
    BY <1>a, <2>1 DEF Replace, SettingsRow
  <2>3. saved.token # screen.token
    <3>1. saved.token \in Nat /\ saved.token < screen.token
      BY <1>a, <2>1 DEF SessionIsItsUsers, SettingsRow
    <3> QED BY <3>1
  <2>4. confirmed' = [language |-> saved'.locale, for |-> Identity(saved)']
    BY <2>1, <2>2, <2>3 DEF Replace, Identity
  <2>5. ~unsure' => saved'.locale = spoken'[saved'.user]
    BY <2>1, <2>2
  <2>6. ~unsure' => AtRestKnown'
    BY <2>4, <2>5 DEF AtRestKnown
  <2> QED BY <1>c, <2>1, <2>6, RestingKnown
<1>14. ASSUME Switches PROVE LanguageKnown'
  <2>1. screen'.at = "settled" /\ screen.at = "switching" /\ UNCHANGED <<saved, confirmed, spoken, unsure>>
    BY <1>14 DEF Switches, Screen, agent, language, voice
  <2>2. ~unsure' => AtRestKnown'
    BY <1>a, <2>1 DEF LanguageKnown, AtRestKnown, HasSession, Identity
  <2> QED BY <1>c, <2>1, <2>2, RestingKnown
<1>15. ASSUME Consents PROVE LanguageKnown'
  <2>1. screen.at = "settled" /\ UNCHANGED <<screen, confirmed, spoken, unsure>>
    BY <1>15 DEF Consents, threads, language, voice
  <2>2. UNCHANGED <<saved.user, saved.token, saved.locale>>
    BY <1>15, <1>a DEF Consents, SettingsRow
  <2>3. ~unsure' => AtRestKnown'
    BY <1>a, <2>1, <2>2 DEF LanguageKnown, AtRestKnown, HasSession, Identity
  <2> QED BY <1>c, <2>1, <2>3, RestingKnown
<1>16. ASSUME Starts PROVE LanguageKnown'
  <2>1. /\ screen.at = "settled" /\ screen'.at = "main" /\ epoch' = epoch + 1
        /\ UNCHANGED <<saved, confirmed, spoken, unsure, tasks>>
        /\ thread' = [w \in Workers |-> [Dead EXCEPT !.at = "idle", !.born = epoch + 1]]
    BY <1>16 DEF Starts, Screen, language, voice
  <2>2. sync'.at = "idle"
    BY <2>1 DEF sync, Workers, Dead
  <2>3. HasSession(saved)
    BY <1>a, <2>1 DEF SessionIsItsUsers
  <2>4. ~unsure => confirmed = [language |-> spoken[saved.user], for |-> Identity(saved)]
                   /\ saved.locale = spoken[saved.user]
    BY <1>a, <2>1, <2>3 DEF LanguageKnown, AtRestKnown
  <2>5. \A t \in ChoiceTasks : ~Confirms(t)'
    <3>1. ASSUME NEW t \in ChoiceTasks PROVE t.context # Context'
      <4>1. t.context[1] \in Nat /\ t.context[1] <= epoch
        BY <1>a DEF ChoicesInOrder, Contexts
      <4>2. t.context[1] # epoch + 1
        BY <1>a, <4>1
      <4> QED BY <2>1, <4>2 DEF Context
    <3> QED BY <3>1 DEF Confirms, InForce
  <2>6. ~unsure' => InSessionKnown'
    BY <2>1, <2>4, <2>5 DEF InSessionKnown, ChoiceTasks, Identity
  <2> QED BY <2>1, <2>2, <2>6 DEF LanguageKnown, AtRestKnown, AnswerKnown
<1>17. ASSUME ProgramDies PROVE LanguageKnown'
  <2>1. /\ screen'.at = "down" /\ UNCHANGED <<saved, spoken>>
        /\ confirmed' = [language |-> saved.locale, for |-> Identity(saved)]
        /\ unsure' = (unsure \/ (HasSession(saved) /\ saved.locale # spoken[saved.user]))
    BY <1>17 DEF ProgramDies, Screen
  <2>2. ~unsure' => AtRestKnown'
    BY <2>1 DEF AtRestKnown, HasSession, Identity
  <2> QED BY <1>c, <2>1, <2>2, RestingKnown
<1>18. ASSUME Launches PROVE LanguageKnown'
  <2>1. screen.at = "down" /\ UNCHANGED spoken
    BY <1>18 DEF Launches
  <2>2. CASE ~HasSession(saved)
    BY <1>18, <1>d, <2>2 DEF Launches, Screen
  <2>3. CASE HasSession(saved)
    <3>1. PICK got \in AnswersTo(saved.token) :
             /\ screen' = Screen(IF got = "refused" THEN "door" ELSE "settled")
             /\ IF got = "ok"
                THEN /\ saved' = [saved EXCEPT !.locale = spoken[saved.user]]
                     /\ confirmed' = [language |-> spoken[saved.user], for |-> Identity(saved)]
                     /\ UNCHANGED <<epoch, stopped>>
                ELSE Replace(IF got = "refused" THEN Cleared(saved) ELSE saved)
             /\ unsure' = (unsure /\ got # "ok")
      BY <1>18, <2>3 DEF Launches
    <3>2. CASE got = "ok"
      <4>1. /\ saved'.locale = spoken[saved.user] /\ saved'.user = saved.user
            /\ Identity(saved)' = Identity(saved)
        BY <1>a, <3>1, <3>2 DEF SettingsRow, Identity
      <4>2. AtRestKnown' /\ screen'.at # "main"
        BY <2>1, <3>1, <3>2, <4>1 DEF AtRestKnown, Screen
      <4> QED BY <1>c, <3>1, <3>2, <4>2, RestingKnown DEF Screen
    <3>3. CASE got = "refused"
      BY <1>d, <3>1, <3>3 DEF Screen
    <3>4. CASE got \notin {"ok", "refused"}
      <4>1. UNCHANGED <<saved, confirmed, unsure>> /\ screen'.at = "settled"
        BY <1>a, <3>1, <3>4 DEF Replace, Screen
      <4>2. ~unsure' => AtRestKnown'
        BY <1>a, <2>1, <2>3, <4>1 DEF LanguageKnown, AtRestKnown, HasSession, Identity
      <4> QED BY <1>c, <4>1, <4>2, RestingKnown
    <3> QED BY <3>2, <3>3, <3>4
  <2> QED BY <2>2, <2>3
<1>19. ASSUME NEW w \in Workers, Drops(w) PROVE LanguageKnown'
  <2>1. /\ thread[w].at = "dropping" /\ Replace(Cleared(thread[w].was)) /\ Ends(w)
        /\ UNCHANGED <<screen, spoken, unsure>>
    BY <1>19 DEF Drops, voice
  <2>2. /\ screen.at \in {"main", "stopping"} /\ thread[w].was \in SettingsRow
        /\ thread[w].was.user = saved.user
    BY <1>a, <2>1 DEF WorkersServeOneAccount, Serves
  <2>3. saved' = Cleared(thread[w].was) /\ saved'.user = saved.user /\ saved'.token = 0
    BY <2>1, <2>2 DEF Replace, Cleared, SettingsRow
  <2>4. screen.at = "main" => stopped'
    <3>1. CASE Identity(saved)' = Identity(saved)
      <4>1. ~HasSession(saved)' /\ screen'.at = screen.at
        BY <2>1, <2>3 DEF HasSession
      <4> QED BY <1>b, <2>1, <4>1 DEF SessionIsItsUsers
    <3>2. CASE Identity(saved)' # Identity(saved)
      BY <2>1, <2>3, <3>2 DEF Replace, Identity
    <3> QED BY <3>1, <3>2
  <2>5. sync' = sync \/ sync'.at # "read"
    <3>1. ThreadsTyped /\ thread'[w] = Dead /\ \A v \in Workers \ {w} : thread'[v] = thread[v]
      BY <2>1, WorkerSteps DEF DesktopInv, DesktopTyped
    <3> QED BY <3>1 DEF sync, Workers, Dead
  <2>6. AnswerKnown => AnswerKnown'
    BY <2>1, <2>3, <2>5 DEF AnswerKnown
  <2> QED BY <1>a, <1>b, <2>1, <2>2, <2>4, <2>6 DEF LanguageKnown, AtRestKnown, InSessionKnown, SessionIsItsUsers
<1>20. ASSUME Poll \/ Checks \/ Collects \/ SyncBegins \/ Locks \/ OvertakenWhileReading \/ BatchEnds \/
      Sends \/ SendAnswered \/ AdviceBegins \/ AdviceAsks \/ AdviceAnswered \/ Responds \/ Shows \/
      SubmitProblem \/ Revoke \/ (\E t \in tasks : Posts(t) \/ Posted(t)) \/
      (\E w \in Workers : LoopEnds(w)) \/ UNCHANGED desktopVars
      PROVE  UNCHANGED <<unsure, saved, spoken, confirmed, stopped, epoch, generation, screen>>
  BY <1>20 DEF Poll, Checks, Collects, SyncBegins, Locks, OvertakenWhileReading, BatchEnds, Sends,
     SendAnswered, AdviceBegins, AdviceAsks, AdviceAnswered, Responds, Posts, Posted, Shows, SubmitProblem,
     LoopEnds, Revoke, desktopVars, agent, store, language, sessions, voice, threads
<1>21. CASE Poll \/ Checks \/ Collects \/ SyncBegins \/ Locks \/ OvertakenWhileReading \/ BatchEnds \/ Sends \/
      SendAnswered \/ AdviceBegins \/ AdviceAsks \/ AdviceAnswered \/ Responds \/ Shows \/ SubmitProblem \/
      Revoke \/ (\E t \in tasks : Posts(t) \/ Posted(t)) \/ (\E w \in Workers : LoopEnds(w)) \/
      UNCHANGED desktopVars
  <2>1. UNCHANGED <<unsure, saved, spoken, confirmed, stopped, epoch, generation, screen>>
    BY <1>21, <1>20
  <2>2. CASE \/ Chooses \/ ProgramDies \/ Reads \/ Refreshes
             \/ \E t \in ChoiceTasks : Enters(t) \/ Takes(t) \/ Puts(t) \/ Settles(t)
    BY <1>2, <1>3, <1>5, <1>17, <2>2 DEF ChoiceTasks
  <2>3. CASE ChoiceTasks' = ChoiceTasks /\ (sync' = sync \/ sync'.at # "read")
    BY <1>1, <2>1, <2>3
  <2> QED BY <1>b, <2>2, <2>3 DEF ChoicesGo, SyncGoes
<1> QED BY <1>1, <1>2, <1>3, <1>4, <1>5, <1>6, <1>7, <1>8, <1>9, <1>10, <1>11, <1>12, <1>13, <1>14, <1>15,
     <1>16, <1>17, <1>18, <1>19, <1>21
     DEF DesktopNext, Observing, Syncing, Advising, Choosing, Responding, SigningOut, SigningIn

-----------------------------------------------------------------------------
(* The theorems.                                                             *)

LEMMA NextKeepsDesktopInv == DesktopInv /\ [DesktopNext]_desktopVars => DesktopInv'
<1> SUFFICES ASSUME DesktopInv, [DesktopNext]_desktopVars PROVE DesktopInv'
  OBVIOUS
<1>1. DesktopTyped'
  BY SettingsTypedKept, StoreTypedKept, CountsTypedKept, ScreenTypedKept, ServerTypedKept, ChancesTypedKept,
     ThreadsTypedKept, TasksTypedKept DEF DesktopTyped
<1> QED
  BY <1>1, SessionKept, WorkersKept, RoundsKept, EventsNumberedKept, BatchesKept, EventsUsersKept, ChoicesKept,
     LanguageKept DEF DesktopInv

\* What the invariant says of the accounts.
LEMMA DesktopInvHolds == DesktopInv => AccountsAreKeptApart
<1> SUFFICES ASSUME DesktopInv PROVE AccountsAreKeptApart
  OBVIOUS
<1>a. /\ SettingsTyped /\ StoreTyped /\ CountsTyped /\ ServerTyped /\ ThreadsTyped
      /\ SessionIsItsUsers /\ WorkersServeOneAccount /\ EventsNumbered /\ EventsAreTheUsers /\ ChoicesInOrder
      /\ LanguageKnown
  BY DEF DesktopInv, DesktopTyped
<1>1. saved \in [user : Account \cup {NoAccount}, token : 0..Len(owner), consents : SUBSET Account,
                 locale : Language]
  BY <1>a DEF SettingsTyped, SettingsRow, SessionIsItsUsers, Somebody
<1>2. \A e \in events : e.of \in Account /\ e.tries \in 0..MaxTries /\ e.synced \in BOOLEAN
  BY <1>a, TriesAssumption DEF StoreTyped, EventRow, EventsNumbered
<1>3. \A w \in Workers :
         /\ thread[w].at \in {"dead", "idle", "polled", "checked", "waiting", "reading", "read", "batch", "sent",
                            "dropping", "asking", "asked"}
         /\ thread[w].got \in Language \cup AnswerKinds
  BY <1>a DEF ThreadsTyped, ThreadRow, Places, CollectorPlaces, SyncPlaces, AdvicePlaces
<1>4. /\ confirmed.language \in Language /\ epoch \in Nat /\ stopped \in BOOLEAN /\ paused \in BOOLEAN
      /\ cache \subseteq Account /\ results \subseteq Account
      /\ owner \in Seq(Account) /\ live \subseteq 1..Len(owner) /\ spoken \in [Account -> Language]
  BY <1>a DEF SettingsTyped, StoreTyped, ServerTyped
<1>5. generation <= requested /\ entered <= requested
  BY <1>a DEF CountsTyped, ChoicesInOrder
<1>6. DesktopTypeOK
  BY <1>1, <1>2, <1>3, <1>4, <1>5 DEF DesktopTypeOK
<1>7. EventsReachTheirAccount /\ NothingLeftBehind
  BY <1>a DEF EventsAreTheUsers, NothingLeftBehind
<1>8. LanguageIsTheServers
  BY <1>a DEF LanguageIsTheServers, LanguageKnown, InSessionKnown, Alive, ChoiceTasks
<1> QED BY <1>6, <1>7, <1>8 DEF AccountsAreKeptApart

\* The settings, the store, the workers and the choices of the desktop program stay in
\* agreement with each other and with the server, for all accounts, languages and
\* scenarios.
THEOREM DesktopAgrees == DesktopSpec => []DesktopInv
<1>1. DesktopInit => DesktopInv
  BY Initially
<1> QED BY <1>1, NextKeepsDesktopInv, PTL DEF DesktopSpec

\* An event is sent to the account it was observed under, a signed-in account finds
\* nothing of another in the store, and the program shows the language of the account
\* (agent.py 306, 460, 546, 571, 978): whatever the threads, the sessions, the user and
\* the crashes do.
THEOREM DesktopKeepsAccountsApart == DesktopSpec => []AccountsAreKeptApart
<1> QED BY DesktopAgrees, DesktopInvHolds, PTL
=============================================================================
