---------------------------- MODULE AccountsProofs ----------------------------
(***************************************************************************)
(* What holds of accounts, sessions and exports for every number of        *)
(* requests, names, codes and devices, for every limit and from every      *)
(* database that keeps its own rules (StartAssumption).                    *)
(***************************************************************************)
EXTENDS Accounts, FiniteSetTheorems, TLAPS

Ids == Nat \ {0}

-----------------------------------------------------------------------------
(* Types.                                                                  *)

\* A registration holds the kind of code it was let in with.
Registering ==
    {r \in [op: {"register"}, name: Name, word: Word, device: Device,
            code: Code \cup {NoCode}, kind: {"open", "bootstrap", "invite"}] :
        /\ r.kind = "bootstrap" => r.code = Bootstrap
        /\ r.kind = "invite" => r.code \in Invite}

LoggingIn == [op: {"login"}, name: Name, word: Word, device: Device, at: Int,
              locked: BOOLEAN, user: UserRows \cup {Nobody}]

SessionOps == {"write", "logout", "delete", "export", "change",
               "verified", "leased", "spooling", "streaming"}

\* A change of password names the new one.
Serving ==
    {r \in [op: SessionOps, user: Ids, session: Ids, device: Device, word: Word \cup {Nobody},
            new: Word \cup {Nobody}, seen: Int \cup Hashes \cup {Nobody}] :
        r.op = "change" => r.new \in Word}

Requests == {Idle} \cup Registering \cup LoggingIn \cup Serving

Spools == [by: Caller \cup {Nobody}, made: Int]

Joins == [user: Ids, code: Code \cup {NoCode}]

TypesHold ==
    /\ case \in Cases
    /\ now \in Nat /\ now <= case.time
    /\ drawn \in Nat /\ drawn <= case.ids
    /\ users \subseteq UserRows
    /\ retired \subseteq Ids
    /\ codes \in [Code -> CodeRows]
    /\ sessions \subseteq SessionRows
    /\ failures \in [Name -> FailureRows \cup {Nobody}]
    /\ lease \in LeaseRows \cup {Nobody}
    /\ spools \subseteq Spools
    /\ call \in [Caller -> Requests]
    /\ joined \subseteq Joins
    /\ epoch \in [UserIds -> Nat]
    /\ guesses \in [Name -> Nat]

-----------------------------------------------------------------------------
(* The strengthened invariants.                                            *)

\* The user exists or existed.
Known(u) == Exists(u) \/ u \in retired

\* The columns with unique indexes.
RowsAreUnique ==
    /\ \A u, v \in users : u.id = v.id \/ u.name = v.name => u = v
    /\ \A s, t \in sessions : s.id = t.id => s = t

\* Ids are drawn once: what has one has an old one.
IdsAreOld ==
    /\ \A u \in users : u.id <= drawn
    /\ \A u \in retired : u <= drawn
    /\ \A s \in sessions : s.id <= drawn
    /\ \A u \in UserIds : epoch[u] <= drawn

\* A salt is a drawn number.
SaltsAreDrawn == \A u \in users : u.hash # Nobody => u.hash.salt \in 1..case.ids

\* Who is named anywhere is known, and of the retired nothing is left.
NamesAreKnown ==
    /\ \A s \in sessions : Exists(s.user)
    /\ \A i \in joined : Known(i.user)
    /\ \A v \in case.users : Known(v.id)
    /\ \A c \in Caller : call[c] \in Serving => Known(call[c].user)
    /\ \A c \in Caller : call[c] \in LoggingIn /\ call[c].user # Nobody => Known(call[c].user.id)
    /\ \A u \in retired : ~Exists(u) /\ u \notin rows

\* The user of a code exists, or the code was marked when its user was deleted.
CodesAreAccounted ==
    /\ \A k \in Code :
          /\ codes[k].state = "used" =>
                codes[k].by \in Int /\ (Exists(codes[k].by) \/ -codes[k].by \in retired)
          /\ codes[k].state # "used" => codes[k].by = Nobody
    /\ \A i \in joined : i.code # NoCode => codes[i.code].state = "used"
    /\ \A i, j \in joined : i.code = j.code /\ i.code # NoCode => i = j

\* A legacy tenant waits until the bootstrap code is used, and nobody loses the
\* password once it is set.
LegacyIsClaimed ==
    /\ \A u \in users : u.hash = Nobody => u.id \in Legacy
    /\ \A l \in Legacy : \/ \E u \in users : u.id = l /\ u.hash = Nobody
                         \/ \E i \in joined : i.code = Bootstrap
    /\ \A i \in joined : i.user \in Legacy => i.code = Bootstrap
    /\ Legacy # {} => \A i \in joined : i.code = Bootstrap => i.user \in Legacy
    /\ \A c \in Caller, u \in users :
          /\ call[c] \in LoggingIn
          /\ call[c].user # Nobody
          /\ call[c].user.hash # Nobody
          /\ call[c].user.id = u.id
          => u.hash # Nobody

\* Sessions that still live were opened after the last change of the password.
SessionsAreCurrent == \A s \in sessions : Live(s) => s.id > epoch[s.user]

\* What a change or deletion goes on with is a hash of the password it was given.
HashesAreSeen ==
    \A c \in Caller :
        call[c] \in Serving /\ call[c].op \in {"change", "delete"} /\ call[c].seen # Nobody
        => call[c].seen \in Hashes /\ call[c].seen.word = call[c].word

Exporting(c) == call[c] \in Serving /\ call[c].op \in {"leased", "spooling", "streaming"}

Writing(c) == call[c] \in Serving /\ call[c].op \in {"spooling", "streaming"}

\* An export in its time holds the lease, unless its user is gone, and has its spool,
\* which is not old enough to be swept.
ExportsHoldTheLease ==
    /\ \A c \in Caller : Exporting(c) => call[c].seen \in Int /\ call[c].seen <= now + LeaseTime
    /\ \A c \in Caller :
          Exporting(c) /\ call[c].seen > now /\ call[c].user \notin retired =>
              /\ lease # Nobody
              /\ lease.user = call[c].user
              /\ lease.by = c
              /\ lease.until = call[c].seen
    /\ \A c \in Caller :
          Writing(c) /\ call[c].seen > now =>
              \E d \in spools : d.by = c /\ d.made + LeaseTime >= call[c].seen
    /\ \A d \in spools : d.by # Nobody => Writing(d.by)

-----------------------------------------------------------------------------
(* Requests.                                                               *)

\* The operation of a request decides which record it is.
LEMMA RequestKinds ==
    ASSUME NEW r \in Requests
    PROVE  /\ r = Idle \/ r \in Registering \/ r \in LoggingIn \/ r \in Serving
           /\ r = Idle <=> r.op = "idle"
           /\ r \in Registering <=> r.op = "register"
           /\ r \in LoggingIn <=> r.op = "login"
           /\ r \in Serving <=> r.op \in SessionOps
BY DEF Requests, Idle, Registering, LoggingIn, Serving, SessionOps

\* The records a request starts with.
LEMMA StartedRegistration ==
    ASSUME NEW n \in Name, NEW w \in Word, NEW d \in Device, NEW k \in Code \cup {NoCode},
           NEW kind, kind \in Kinds(k)
    PROVE  [op |-> "register", name |-> n, word |-> w, device |-> d, code |-> k, kind |-> kind]
                \in Registering
BY DEF Registering, Kinds

\* A login starts with the user's row as it is, if there is one.
LEMMA StartedLogin ==
    ASSUME TypesHold, NEW n \in Name, NEW w \in Word, NEW d \in Device, NEW u,
           u = IF Named(n) = {} THEN Nobody ELSE CHOOSE v \in Named(n) : TRUE
    PROVE  /\ [op |-> "login", name |-> n, word |-> w, device |-> d, at |-> now,
               locked |-> Locked(n), user |-> u] \in LoggingIn
           /\ u # Nobody => u \in users /\ u.name = n
<1>1. u = Nobody \/ u \in Named(n)
  OBVIOUS
<1>2. u = Nobody \/ (u \in users /\ u.name = n)
  BY <1>1 DEF Named
<1>3. u \in UserRows \cup {Nobody} /\ now \in Int
  BY <1>2 DEF TypesHold
<1>4. Locked(n) \in BOOLEAN
  BY DEF Locked
<1> QED
  BY <1>2, <1>3, <1>4, SMT DEF LoggingIn

\* The requests that carry a session start with its owner.
LEMMA StartedServing ==
    ASSUME TypesHold, NEW s \in sessions, NEW op, op \in {"write", "logout", "delete", "export", "change"},
           NEW w \in Word \cup {Nobody}, NEW n \in Word \cup {Nobody}, op = "change" => n \in Word
    PROVE  [op |-> op, user |-> s.user, session |-> s.id, device |-> s.device,
            word |-> w, new |-> n, seen |-> Nobody] \in Serving
<1>1. s \in SessionRows
  BY DEF TypesHold
<1>2. s.user \in Ids /\ s.id \in Ids /\ s.device \in Device
  BY <1>1 DEF SessionRows, Ids
<1> QED
  BY <1>2 DEF Serving, SessionOps

-----------------------------------------------------------------------------
(* The sessions after one is issued, step by step as Issued makes them.    *)

Others(all, user) == {s \in all : s.user # user}

KeptOf(all, user) == {s \in all : s.user = user /\ ~Forgotten(s)}

Rest(all, user, device) ==
    {IF Superseded(s, device) THEN Revoke(s) ELSE s : s \in KeptOf(all, user)}

LiveOf(S) == {s \in S : Live(s)}

Cut(S, k) == {IF s \in LiveOf(S) \ k THEN Revoke(s) ELSE s : s \in S}

EndedOf(S) == {s \in S : Ended(s)}

Fresh(user, device, id) ==
    [id |-> id, user |-> user, device |-> device, used |-> now,
     expires |-> now + SessionTime, revoked |-> Nobody]

Choices(rest) == Newest(LiveOf(rest), DeviceLimit - 1, LastUse(LiveOf(rest)))

Outcomes(all, user, device, id, rest, k) ==
    {Others(all, user) \cup (Cut(rest, k) \ EndedOf(Cut(rest, k))) \cup h \cup {Fresh(user, device, id)} :
        h \in Newest(EndedOf(Cut(rest, k)), HistoryLimit, RevokedAt(EndedOf(Cut(rest, k))))}

\* Which of the live ones and which of the ended ones stay is all there is to choose.
LEMMA IssuedUnpacked ==
    ASSUME NEW all, NEW user, NEW device, NEW id, NEW X \in Issued(all, user, device, id)
    PROVE  \E k \in Choices(Rest(all, user, device)) :
               X \in Outcomes(all, user, device, id, Rest(all, user, device), k)
<1> DEFINE rest == Rest(all, user, device)
<1>1. Issued(all, user, device, id) =
         UNION {Outcomes(all, user, device, id, rest, k) : k \in Choices(rest)}
  BY DEF Issued, Others, KeptOf, Rest, LiveOf, Cut, EndedOf, Fresh, Outcomes, Choices, Staying
<1> QED
  BY <1>1

\* A session after its end was written: nothing else of it changes.
LEMMA Revoking ==
    ASSUME NEW s \in SessionRows, now \in Int
    PROVE  /\ Revoke(s) \in SessionRows
           /\ Revoke(s).id = s.id /\ Revoke(s).user = s.user /\ Revoke(s).device = s.device
           /\ Ended(Revoke(s))
           /\ Ended(s) => Revoke(s) = s
BY NobodyAssumption DEF Revoke, Ended, SessionRows

\* s is what became of t: it is the same, or it has ended.
Continues(s, t) ==
    /\ s.id = t.id /\ s.user = t.user /\ s.device = t.device
    /\ s = t \/ Ended(s)

\* s comes of a session of the user, and is not the device's unless it has ended.
Inherited(s, all, user, device) ==
    \E t \in all : /\ t.user = user /\ Continues(s, t)
                   /\ Ended(s) \/ s.device # device

\* Sessions of other users are as they were; those of the user are continued, except
\* the fresh one, and unless they have ended another device's or the fresh one's.
LEMMA IssuedInherits ==
    ASSUME NEW all, all \subseteq SessionRows, now \in Int, SessionTime \in Nat,
           NEW user \in Ids, NEW device \in Device, NEW id \in Ids,
           NEW X \in Issued(all, user, device, id)
    PROVE  /\ X \subseteq SessionRows
           /\ Others(all, user) \subseteq X
           /\ \A s \in X : \/ s \in Others(all, user)
                           \/ s = Fresh(user, device, id)
                           \/ Inherited(s, all, user, device)
<1> DEFINE rest == Rest(all, user, device)
<1>1. PICK k \in Choices(rest) : X \in Outcomes(all, user, device, id, rest, k)
  BY IssuedUnpacked
<1>2. PICK h \in Newest(EndedOf(Cut(rest, k)), HistoryLimit, RevokedAt(EndedOf(Cut(rest, k)))) :
            X = Others(all, user) \cup (Cut(rest, k) \ EndedOf(Cut(rest, k))) \cup h
                   \cup {Fresh(user, device, id)}
  BY <1>1 DEF Outcomes
<1>3. h \subseteq EndedOf(Cut(rest, k))
  BY DEF Newest
<1>4. h \subseteq Cut(rest, k)
  BY <1>3 DEF EndedOf
<1>5. ASSUME NEW s \in rest
      PROVE  /\ s \in SessionRows
             /\ Inherited(s, all, user, device)
  <2>1. PICK t \in KeptOf(all, user) : s = IF Superseded(t, device) THEN Revoke(t) ELSE t
    BY DEF Rest
  <2>2. t \in all /\ t \in SessionRows /\ t.user = user
    BY <2>1 DEF KeptOf
  <2>3. /\ Revoke(t) \in SessionRows
        /\ Revoke(t).id = t.id /\ Revoke(t).user = t.user /\ Revoke(t).device = t.device
        /\ Ended(Revoke(t))
    BY <2>2, Revoking
  <2>4. s \in SessionRows /\ Continues(s, t)
    BY <2>1, <2>2, <2>3 DEF Continues
  <2>5. Ended(s) \/ s.device # device
    BY <2>1, <2>2, <2>3 DEF Superseded
  <2> QED
    BY <2>2, <2>4, <2>5 DEF Inherited
<1>6. ASSUME NEW s \in Cut(rest, k)
      PROVE  /\ s \in SessionRows
             /\ Inherited(s, all, user, device)
  <2> HIDE DEF rest
  <2>1. PICK r \in rest : s = r \/ s = Revoke(r)
    BY DEF Cut
  <2>2. /\ r \in SessionRows
        /\ Inherited(r, all, user, device)
    BY <1>5
  <2>3. /\ Revoke(r) \in SessionRows
        /\ Revoke(r).id = r.id /\ Revoke(r).user = r.user /\ Revoke(r).device = r.device
        /\ Ended(Revoke(r))
    BY <2>2, Revoking
  <2>4. PICK t \in all : /\ t.user = user /\ Continues(r, t)
                         /\ Ended(r) \/ r.device # device
    BY <2>2 DEF Inherited
  <2>5. Continues(s, t) /\ (Ended(s) \/ s.device # device)
    BY <2>1, <2>3, <2>4 DEF Continues
  <2> QED
    BY <2>1, <2>2, <2>3, <2>4, <2>5 DEF Inherited
<1>7. Fresh(user, device, id) \in SessionRows
  BY NobodyAssumption DEF Fresh, SessionRows, Ids
<1> HIDE DEF rest
<1>8. Others(all, user) \subseteq SessionRows
  BY DEF Others
<1> QED
  BY <1>2, <1>4, <1>6, <1>7, <1>8

-----------------------------------------------------------------------------
(* What a step does to a request.                                          *)

LoginFrom(r) ==
    /\ r \in LoggingIn
    /\ r.at = now
    /\ r.locked = Locked(r.name)
    /\ r.user # Nobody => r.user \in users

ServingFrom(r) ==
    /\ r \in Serving
    /\ r.op \notin {"verified", "leased", "spooling", "streaming"}
    /\ r.seen = Nobody
    /\ \E s \in sessions : s.user = r.user

Started(c) ==
    /\ call[c] = Idle
    /\ \/ call'[c] \in Registering
       \/ LoginFrom(call'[c])
       \/ ServingFrom(call'[c])

Progresses(c) ==
    \/ Observe(c) /\ Knows(call[c]) /\ call'[c] = [call[c] EXCEPT !.seen = UserOf(call[c].user).hash]
    \/ VerifyForExport(c) /\ call'[c] = [call[c] EXCEPT !.op = "verified"]
    \/ /\ AcquireLease(c) /\ ~LeaseHeld
       /\ lease' = [user |-> call[c].user, by |-> c, until |-> now + LeaseTime]
       /\ call'[c] = [call[c] EXCEPT !.op = "leased", !.seen = now + LeaseTime]
    \/ StartSpool(c) /\ call'[c] = [call[c] EXCEPT !.op = "spooling"]
    \/ FinishSpool(c) /\ call'[c] = [call[c] EXCEPT !.op = "streaming"]

\* The requests are a function still.
CallsMapped == call' = [d \in Caller |-> (call')[d]]

OthersKept(c) == \A d \in Caller : d # c => call'[d] = call[d]

\* Registration, login and the requests carrying a session start on an idle caller.
LEMMA Starting ==
    ASSUME TypesHold, NEW c \in Caller,
           \/ \E n \in case.names, w \in case.words, d \in case.devices :
                 \/ Login(c, n, w, d)
                 \/ \E k \in Code \cup {NoCode} : Register(c, n, w, d, k)
           \/ StartSession(c)
    PROVE  Started(c) /\ OthersKept(c) /\ CallsMapped
<1>1. call \in [Caller -> Requests] /\ case \in Cases
  BY DEF TypesHold
<1>2. case.names \subseteq Name /\ case.words \subseteq Word /\ case.devices \subseteq Device
  BY <1>1, CaseAssumption
<1>3. ASSUME NEW op, NEW r, Begin(c, op, r)
      PROVE  call[c] = Idle /\ call'[c] = r /\ OthersKept(c) /\ CallsMapped
  BY <1>1, <1>3 DEF Begin, OthersKept, CallsMapped
<1>4. ASSUME NEW n \in Name, NEW w \in Word, NEW d \in Device, Login(c, n, w, d)
      PROVE  Started(c) /\ OthersKept(c) /\ CallsMapped
  <2> DEFINE u == IF Named(n) = {} THEN Nobody ELSE CHOOSE v \in Named(n) : TRUE
             r == [op |-> "login", name |-> n, word |-> w, device |-> d, at |-> now,
                   locked |-> Locked(n), user |-> u]
  <2>1. Begin(c, "login", r)
    BY <1>4 DEF Login
  <2>2. r \in LoggingIn /\ (u # Nobody => u \in users /\ u.name = n)
    BY StartedLogin
  <2>3. LoginFrom(r)
    BY <2>2 DEF LoginFrom
  <2> QED
    BY <1>3, <2>1, <2>3 DEF Started
<1>5. ASSUME NEW n \in Name, NEW w \in Word, NEW d \in Device, NEW k \in Code \cup {NoCode},
             Register(c, n, w, d, k)
      PROVE  Started(c) /\ OthersKept(c) /\ CallsMapped
  <2>1. PICK kind \in Kinds(k) :
           Begin(c, "register", [op |-> "register", name |-> n, word |-> w, device |-> d,
                                 code |-> k, kind |-> kind])
    BY <1>5 DEF Register
  <2>2. [op |-> "register", name |-> n, word |-> w, device |-> d, code |-> k, kind |-> kind]
           \in Registering
    BY StartedRegistration
  <2> QED
    BY <1>3, <2>1, <2>2 DEF Started
<1>6. ASSUME NEW s \in sessions, NEW op, op \in {"write", "logout", "delete", "export", "change"},
             NEW w \in Word \cup {Nobody}, NEW n \in Word \cup {Nobody}, op = "change" => n \in Word,
             Enter(c, s, op, w, n)
      PROVE  Started(c) /\ OthersKept(c) /\ CallsMapped
  <2> DEFINE r == [op |-> op, user |-> s.user, session |-> s.id, device |-> s.device,
                   word |-> w, new |-> n, seen |-> Nobody]
  <2>1. Begin(c, op, r)
    BY <1>6 DEF Enter
  <2>2. r \in Serving
    BY <1>6, StartedServing
  <2>3. ServingFrom(r)
    BY <1>6, <2>2 DEF ServingFrom
  <2> QED
    BY <1>3, <2>1, <2>3 DEF Started
<1>7. ASSUME StartSession(c)
      PROVE  Started(c) /\ OthersKept(c) /\ CallsMapped
  <2>1. PICK s \in sessions :
           \/ \E op \in {"write", "logout"} : Enter(c, s, op, Nobody, Nobody)
           \/ \E op \in {"delete", "export"}, w \in case.words : Enter(c, s, op, w, Nobody)
           \/ \E w, n \in case.words : Enter(c, s, "change", w, n)
    BY <1>7 DEF StartSession
  <2>2. CASE \E op \in {"write", "logout"} : Enter(c, s, op, Nobody, Nobody)
    BY <2>2, <1>6
  <2>3. CASE \E op \in {"delete", "export"}, w \in case.words : Enter(c, s, op, w, Nobody)
    BY <2>3, <1>2, <1>6
  <2>4. CASE \E w, n \in case.words : Enter(c, s, "change", w, n)
    BY <2>4, <1>2, <1>6
  <2> QED
    BY <2>1, <2>2, <2>3, <2>4
<1> QED
  BY <1>2, <1>4, <1>5, <1>7

\* A request under way goes on or ends.
LEMMA Stepping ==
    ASSUME TypesHold, NEW c \in Caller, Step(c)
    PROVE  (call'[c] = Idle \/ Progresses(c)) /\ OthersKept(c) /\ CallsMapped
<1>1. call \in [Caller -> Requests]
  BY DEF TypesHold
<1>2. ASSUME Done(c)
      PROVE  (call'[c] = Idle \/ Progresses(c)) /\ OthersKept(c) /\ CallsMapped
  BY <1>1, <1>2 DEF Done, OthersKept, CallsMapped
<1>3. ASSUME NEW r, call' = [call EXCEPT ![c] = r]
      PROVE  call'[c] = r /\ OthersKept(c) /\ CallsMapped
  BY <1>1, <1>3 DEF OthersKept, CallsMapped
<1>4. CASE Observe(c)
  <2>1. CASE Knows(call[c])
    <3>1. call' = [call EXCEPT ![c] = [call[c] EXCEPT !.seen = UserOf(call[c].user).hash]]
      BY <1>4, <2>1 DEF Observe
    <3> QED
      BY <1>4, <2>1, <3>1, <1>3 DEF Progresses
  <2>2. CASE ~Knows(call[c])
    BY <1>4, <2>2, <1>2 DEF Observe
  <2> QED
    BY <2>1, <2>2
<1>5. CASE VerifyForExport(c)
  <2>1. CASE Knows(call[c])
    <3>1. call' = [call EXCEPT ![c] = [call[c] EXCEPT !.op = "verified"]]
      BY <1>5, <2>1 DEF VerifyForExport
    <3> QED
      BY <1>5, <3>1, <1>3 DEF Progresses
  <2>2. CASE ~Knows(call[c])
    BY <1>5, <2>2, <1>2 DEF VerifyForExport
  <2> QED
    BY <2>1, <2>2
<1>6. CASE AcquireLease(c)
  <2>1. CASE CoolingDown(call[c].user) \/ LeaseHeld
    BY <1>6, <2>1, <1>2 DEF AcquireLease
  <2>2. CASE ~(CoolingDown(call[c].user) \/ LeaseHeld)
    <3>1. /\ call' = [call EXCEPT ![c].op = "leased", ![c].seen = now + LeaseTime]
          /\ lease' = [user |-> call[c].user, by |-> c, until |-> now + LeaseTime]
      BY <1>6, <2>2 DEF AcquireLease
    <3>2. call'[c] = [call[c] EXCEPT !.op = "leased", !.seen = now + LeaseTime]
      BY <3>1, <1>1
    <3>3. OthersKept(c) /\ CallsMapped
      BY <3>1, <1>1 DEF OthersKept, CallsMapped
    <3> QED
      BY <1>6, <2>2, <3>1, <3>2, <3>3 DEF Progresses
  <2> QED
    BY <2>1, <2>2
<1>7. CASE StartSpool(c)
  <2>1. call' = [call EXCEPT ![c] = [call[c] EXCEPT !.op = "spooling"]]
    BY <1>7 DEF StartSpool
  <2> QED
    BY <1>7, <2>1, <1>3 DEF Progresses
<1>8. CASE FinishSpool(c)
  <2>1. call' = [call EXCEPT ![c] = [call[c] EXCEPT !.op = "streaming"]]
    BY <1>8 DEF FinishSpool
  <2> QED
    BY <1>8, <2>1, <1>3 DEF Progresses
<1>9. CASE FinishRegister(c)
  BY <1>9, <1>2 DEF FinishRegister, Refused
<1>10. CASE FailLogin(c)
  BY <1>10, <1>2 DEF FailLogin
<1>11. CASE FinishLogin(c)
  BY <1>11, <1>2 DEF FinishLogin, Refused
<1>12. CASE Write(c)
  BY <1>12, <1>2 DEF Write
<1>13. CASE Logout(c)
  BY <1>13, <1>2 DEF Logout
<1>14. CASE ChangePassword(c)
  BY <1>14, <1>2 DEF ChangePassword, Refused
<1>15. CASE DeleteAccount(c)
  BY <1>15, <1>2 DEF DeleteAccount, Refused
<1>16. CASE FailSpool(c)
  BY <1>16, <1>2 DEF FailSpool
<1>17. CASE FinishStream(c)
  BY <1>17, <1>2 DEF FinishStream
<1> QED
  BY <1>4, <1>5, <1>6, <1>7, <1>8, <1>9, <1>10, <1>11, <1>12, <1>13, <1>14, <1>15, <1>16,
     <1>17 DEF Step

\* Every request stays as it is, ends, starts or goes on.
LEMMA CallCases ==
    ASSUME TypesHold, [Next]_vars
    PROVE  /\ CallsMapped
           /\ \A c \in Caller : \/ call'[c] = call[c]
                                \/ call'[c] = Idle
                                \/ Started(c)
                                \/ Progresses(c)
<1>1. call \in [Caller -> Requests]
  BY DEF TypesHold
<1>2. CASE call' = call
  BY <1>1, <1>2 DEF CallsMapped
<1>3. CASE Crash
  BY <1>3 DEF Crash, CallsMapped
<1>4. ASSUME NEW c \in Caller,
             \/ \E n \in case.names, w \in case.words, d \in case.devices :
                   \/ Login(c, n, w, d)
                   \/ \E k \in Code \cup {NoCode} : Register(c, n, w, d, k)
             \/ StartSession(c)
      PROVE  Started(c) /\ OthersKept(c) /\ CallsMapped
  BY <1>4, Starting
<1>5. ASSUME NEW c \in Caller, Step(c)
      PROVE  (call'[c] = Idle \/ Progresses(c)) /\ OthersKept(c) /\ CallsMapped
  BY <1>5, Stepping
<1>6. \/ call' = call \/ Crash
      \/ \E c \in Caller : /\ Started(c) \/ call'[c] = Idle \/ Progresses(c)
                           /\ OthersKept(c) /\ CallsMapped
  BY <1>4, <1>5 DEF Next, vars, CreateInvite, RevokeInvite, Tick
<1> QED
  BY <1>2, <1>3, <1>6 DEF OthersKept

\* The requests that go on keep their kind, their user and their word.
LEMMA Progressing ==
    ASSUME TypesHold, NEW c \in Caller, Progresses(c)
    PROVE  /\ call[c] \in Serving /\ call'[c] \in Serving
           /\ call'[c].user = call[c].user /\ call'[c].word = call[c].word
<1>1. call[c] \in Requests /\ users \subseteq UserRows /\ now \in Int
  BY DEF TypesHold
<1>2. now + LeaseTime \in Int
  BY <1>1, LimitAssumption
<1>3. ASSUME call[c] \in Serving, NEW op \in SessionOps, op # "change"
      PROVE  LET r == [call[c] EXCEPT !.op = op]
             IN  r \in Serving /\ r.user = call[c].user /\ r.word = call[c].word
  BY <1>3 DEF Serving
<1>4. ASSUME call[c] \in Serving, NEW x \in Int \cup Hashes \cup {Nobody}
      PROVE  LET r == [call[c] EXCEPT !.seen = x]
             IN  r \in Serving /\ r.user = call[c].user /\ r.word = call[c].word
  BY <1>4 DEF Serving
<1>5. ASSUME call[c].op \in SessionOps
      PROVE  call[c] \in Serving
  BY <1>1, <1>5, RequestKinds
<1>6. CASE Observe(c) /\ Knows(call[c]) /\ call'[c] = [call[c] EXCEPT !.seen = UserOf(call[c].user).hash]
  <2>1. call[c] \in Serving
    BY <1>5, <1>6 DEF Observe, SessionOps
  <2>2. UserOf(call[c].user) \in users
    BY <1>6 DEF Knows, UserOf
  <2>3. UserOf(call[c].user).hash \in Hashes \cup {Nobody}
    BY <2>2, <1>1 DEF UserRows
  <2> QED
    BY <2>1, <2>3, <1>4, <1>6
<1>7. CASE VerifyForExport(c) /\ call'[c] = [call[c] EXCEPT !.op = "verified"]
  BY <1>3, <1>5, <1>7 DEF VerifyForExport, SessionOps
<1>8. CASE AcquireLease(c) /\ call'[c] = [call[c] EXCEPT !.op = "leased", !.seen = now + LeaseTime]
  <2>1. call[c] \in Serving
    BY <1>5, <1>8 DEF AcquireLease, SessionOps
  <2> QED
    BY <2>1, <1>2, <1>8 DEF Serving, SessionOps
<1>9. CASE StartSpool(c) /\ call'[c] = [call[c] EXCEPT !.op = "spooling"]
  BY <1>3, <1>5, <1>9 DEF StartSpool, SessionOps
<1>10. CASE FinishSpool(c) /\ call'[c] = [call[c] EXCEPT !.op = "streaming"]
  BY <1>3, <1>5, <1>10 DEF FinishSpool, SessionOps
<1> QED
  BY <1>6, <1>7, <1>8, <1>9, <1>10 DEF Progresses

\* Every request stays a request.
LEMMA CallsTyped ==
    ASSUME TypesHold, [Next]_vars
    PROVE  call' \in [Caller -> Requests]
<1>1. call \in [Caller -> Requests]
  BY DEF TypesHold
<1>2. ASSUME NEW c \in Caller
      PROVE  call'[c] \in Requests
  <2>1. CASE Started(c)
    BY <2>1 DEF Started, LoginFrom, ServingFrom, Requests
  <2>2. CASE Progresses(c)
    BY <2>2, Progressing DEF Requests
  <2> QED
    BY <1>1, <2>1, <2>2, CallCases DEF Requests
<1>3. call' = [c \in Caller |-> call'[c]]
  BY CallCases DEF CallsMapped
<1> QED
  BY <1>2, <1>3

-----------------------------------------------------------------------------
(* What a step does to the database.                                       *)

Quiet == UNCHANGED <<drawn, users, retired, codes, sessions, rows, joined, epoch>>

Registers(c) == FinishRegister(c) /\ MayTake(call[c]) /\ StillGood(call[c])

LogsIn(c) == FinishLogin(c) /\ Writable(call[c].user.id)

Changes(c) == ChangePassword(c) /\ Signed(call[c]) /\ Unchanged(call[c])

Deletes(c) == DeleteAccount(c) /\ Unchanged(call[c])

\* Only these operations write the tables.
LEMMA StepCases ==
    ASSUME [Next]_vars
    PROVE  \/ Quiet
           \/ \E k \in Code : CreateInvite(k) \/ RevokeInvite(k)
           \/ \E c \in Caller : \/ Registers(c) \/ LogsIn(c) \/ Changes(c) \/ Deletes(c)
                                \/ StartSession(c) \/ Write(c) \/ Logout(c)
<1>1. CASE UNCHANGED vars
  BY <1>1 DEF Quiet, vars, database, history
<1>2. CASE Crash \/ Tick
  BY <1>2 DEF Quiet, Crash, Tick, database, history
<1>3. ASSUME NEW c \in Caller,
             \E n \in case.names, w \in case.words, d \in case.devices :
                 \/ Login(c, n, w, d)
                 \/ \E k \in Code \cup {NoCode} : Register(c, n, w, d, k)
      PROVE  Quiet
  BY <1>3 DEF Quiet, Login, Register, database, history
<1>4. ASSUME NEW c \in Caller, Refused(c)
      PROVE  Quiet
  BY <1>4 DEF Quiet, Refused, database, history
<1>5. ASSUME NEW c \in Caller, Step(c)
      PROVE  \/ Quiet
             \/ Registers(c) \/ LogsIn(c) \/ Changes(c) \/ Deletes(c) \/ Write(c) \/ Logout(c)
  <2>1. CASE FinishRegister(c)
    BY <2>1, <1>4 DEF FinishRegister, Registers
  <2>2. CASE FinishLogin(c)
    BY <2>2, <1>4 DEF FinishLogin, LogsIn
  <2>3. CASE ChangePassword(c)
    BY <2>3, <1>4 DEF ChangePassword, Changes
  <2>4. CASE DeleteAccount(c)
    BY <2>4, <1>4 DEF DeleteAccount, Deletes
  <2>5. CASE \/ FailLogin(c) \/ Observe(c) \/ VerifyForExport(c) \/ AcquireLease(c) \/ StartSpool(c)
             \/ FinishSpool(c) \/ FailSpool(c) \/ FinishStream(c)
    BY <2>5 DEF Quiet, FailLogin, Observe, VerifyForExport, AcquireLease, StartSpool,
                FinishSpool, FailSpool, FinishStream, database, history
  <2> QED
    BY <1>5, <2>1, <2>2, <2>3, <2>4, <2>5 DEF Step
<1> QED
  BY <1>1, <1>2, <1>3, <1>5 DEF Next

\* The scenario stays; the clock moves only with Tick.
LEMMA CaseStays ==
    ASSUME [Next]_vars
    PROVE  case' = case /\ (now' = now \/ Tick)
<1>1. ASSUME NEW c \in Caller, Step(c)
      PROVE  case' = case /\ now' = now
  BY <1>1 DEF Step, Refused, FinishRegister, FailLogin, FinishLogin, Write, Logout, Observe,
       ChangePassword, DeleteAccount, VerifyForExport, AcquireLease, StartSpool, FinishSpool,
       FailSpool, FinishStream
<1>2. ASSUME NEW c \in Caller, StartSession(c)
      PROVE  case' = case /\ now' = now
  BY <1>2 DEF StartSession, Enter
<1> QED
  BY <1>1, <1>2 DEF Next, vars, Crash, Tick, Login, Register, CreateInvite, RevokeInvite

\* The row a registration writes: the claimed tenant's id or a new one.
NewUser(c) == IF Named(call[c].name) = {} THEN drawn + 1 ELSE (CHOOSE u \in Named(call[c].name) : TRUE).id

NewRow(c) == [id |-> NewUser(c), name |-> call[c].name, hash |-> Hash(call[c].word, drawn + 2)]

NewJoin(c) == [user |-> NewUser(c), code |-> IF call[c].kind = "open" THEN NoCode ELSE call[c].code]

\* What a registration that is let through does.
LEMMA RegistrationWrites ==
    ASSUME TypesHold, NEW c \in Caller, Registers(c)
    PROVE  /\ call[c] \in Registering /\ drawn + 3 <= case.ids /\ drawn' = drawn + 3
           /\ users' = (users \ Named(call[c].name)) \cup {NewRow(c)}
           /\ sessions' \in Issued(sessions, NewUser(c), call[c].device, drawn + 3)
           /\ joined' = joined \cup {NewJoin(c)}
           /\ call[c].kind # "open" => call[c].code \in Code
           /\ IF call[c].kind = "open" THEN codes' = codes
              ELSE codes' = [codes EXCEPT ![call[c].code] =
                                 [codes[call[c].code] EXCEPT !.state = "used", !.by = NewUser(c)]]
           /\ UNCHANGED <<retired, rows, failures, epoch, guesses, exports>>
           /\ NewUser(c) \in Ids /\ NewRow(c) \in UserRows /\ NewJoin(c) \in Joins
<1>1. call[c] \in Registering
  BY RequestKinds DEF Registers, FinishRegister, TypesHold
<1>2. /\ drawn + 3 <= case.ids /\ drawn' = drawn + 3
      /\ users' = (users \ Named(call[c].name)) \cup {NewRow(c)}
      /\ sessions' \in Issued(sessions, NewUser(c), call[c].device, drawn + 3)
      /\ joined' = joined \cup {NewJoin(c)}
      /\ codes' = IF call[c].kind = "open" THEN codes
                  ELSE [codes EXCEPT ![call[c].code].state = "used", ![call[c].code].by = NewUser(c)]
      /\ UNCHANGED <<retired, rows, failures, epoch, guesses, exports>>
  BY DEF Registers, FinishRegister, NewRow, NewUser, NewJoin
<1>3. call[c].name \in Name /\ call[c].word \in Word /\ call[c].code \in Code \cup {NoCode}
  BY <1>1 DEF Registering
<1>4. call[c].kind # "open" => call[c].code \in Code
  BY <1>1 DEF Registering, Code
<1>5. IF call[c].kind = "open" THEN codes' = codes
      ELSE codes' = [codes EXCEPT ![call[c].code] =
                                 [codes[call[c].code] EXCEPT !.state = "used", !.by = NewUser(c)]]
  BY <1>2, <1>4 DEF TypesHold
<1>6. NewUser(c) \in Ids
  <2>1. ASSUME Named(call[c].name) # {}
        PROVE  (CHOOSE u \in Named(call[c].name) : TRUE) \in UserRows
    BY <2>1 DEF Named, TypesHold
  <2>2. \A u \in UserRows : u.id \in Ids
    BY DEF UserRows, Ids
  <2>3. drawn + 1 \in Ids
    BY DEF TypesHold, Ids
  <2> QED
    BY <2>1, <2>2, <2>3 DEF NewUser
<1>7. Hash(call[c].word, drawn + 2) \in Hashes
  BY <1>3 DEF Hash, Hashes, TypesHold
<1>8. NewRow(c) \in UserRows
  BY <1>3, <1>6, <1>7 DEF NewRow, UserRows, Ids
<1>9. NewJoin(c) \in Joins
  BY <1>3, <1>6 DEF NewJoin, Joins
<1> QED
  BY <1>1, <1>2, <1>4, <1>5, <1>6, <1>8, <1>9

\* The same row with the same password, or with a new one.
Rehashed(u, new, S) == IF u \in S THEN [u EXCEPT !.hash = new] ELSE u

\* A row keeps its id and name when its password is replaced.
LEMMA Rehashing ==
    ASSUME NEW u \in UserRows, NEW new \in Hashes, NEW S
    PROVE  LET v == Rehashed(u, new, S)
           IN  /\ v \in UserRows /\ v.id = u.id /\ v.name = u.name
               /\ u \in S => v.hash = new
               /\ u \notin S => v = u
BY DEF Rehashed, UserRows

\* What a login that is let through does.
LEMMA LoginWrites ==
    ASSUME TypesHold, NEW c \in Caller, LogsIn(c)
    PROVE  /\ call[c] \in LoggingIn /\ drawn + 2 <= case.ids /\ drawn' = drawn + 2
           /\ call[c].user \in UserRows /\ call[c].user.hash \in Hashes
           /\ call[c].user.id \notin retired
           /\ call[c].user # Nobody /\ call[c].user.hash # Nobody
           /\ Hash(call[c].word, drawn + 1) \in Hashes
           /\ users' = {Rehashed(u, Hash(call[c].word, drawn + 1),
                                 {v \in users : v.id = call[c].user.id /\ call[c].user.hash.weak}) :
                        u \in users}
           /\ sessions' \in Issued(sessions, call[c].user.id, call[c].device, drawn + 2)
           /\ failures' = [failures EXCEPT ![call[c].name] = Nobody]
           /\ guesses' = [guesses EXCEPT ![call[c].name] = 0]
           /\ UNCHANGED <<retired, rows, codes, epoch, joined, exports>>
<1>1. call[c] \in LoggingIn
  BY RequestKinds DEF LogsIn, FinishLogin, TypesHold
<1>2. /\ drawn + 2 <= case.ids /\ drawn' = drawn + 2
      /\ call[c].user.id \notin retired
      /\ call[c].user # Nobody /\ call[c].user.hash # Nobody
      /\ sessions' \in Issued(sessions, call[c].user.id, call[c].device, drawn + 2)
      /\ failures' = [failures EXCEPT ![call[c].name] = Nobody]
      /\ guesses' = [guesses EXCEPT ![call[c].name] = 0]
      /\ UNCHANGED <<retired, rows, codes, epoch, joined, exports>>
  BY DEF LogsIn, FinishLogin, Verified, Writable
<1>3. users' = {IF u.id = call[c].user.id /\ call[c].user.hash.weak
                THEN [u EXCEPT !.hash = Hash(call[c].word, drawn + 1)] ELSE u : u \in users}
  BY DEF LogsIn, FinishLogin
<1>4. users' = {Rehashed(u, Hash(call[c].word, drawn + 1),
                         {v \in users : v.id = call[c].user.id /\ call[c].user.hash.weak}) :
                u \in users}
  BY <1>3 DEF Rehashed
<1>5. call[c].user \in UserRows
  BY <1>1, <1>2 DEF LoggingIn
<1>6. call[c].user.hash \in Hashes
  BY <1>5, <1>2 DEF UserRows
<1>7. Hash(call[c].word, drawn + 1) \in Hashes
  BY <1>1 DEF LoggingIn, Hash, Hashes, TypesHold
<1> QED
  BY <1>1, <1>2, <1>4, <1>5, <1>6, <1>7

RevokedOf(c) == {IF s.user = call[c].user THEN Revoke(s) ELSE s : s \in sessions}

\* What a change of password that goes through does.
LEMMA ChangeWrites ==
    ASSUME TypesHold, HashesAreSeen, NEW c \in Caller, Changes(c)
    PROVE  /\ call[c] \in Serving /\ drawn + 2 <= case.ids /\ drawn' = drawn + 2
           /\ call[c].op = "change" /\ call[c].seen # Nobody
           /\ call[c].user \in Ids /\ call[c].device \in Device
           /\ Hash(call[c].new, drawn + 1) \in Hashes
           /\ \E u \in users : u.id = call[c].user /\ u.hash = call[c].seen
           /\ call[c].seen \in Hashes /\ call[c].seen.word = call[c].word
           /\ users' = {Rehashed(u, Hash(call[c].new, drawn + 1), {v \in users : v.id = call[c].user}) :
                        u \in users}
           /\ sessions' \in Issued(RevokedOf(c), call[c].user, call[c].device, drawn + 2)
           /\ epoch' = [epoch EXCEPT ![call[c].user] = drawn + 1]
           /\ UNCHANGED <<retired, rows, codes, joined, failures, guesses, exports>>
           /\ call'[c] = Idle
<1>1. call[c].op = "change"
  BY DEF Changes, ChangePassword
<1>2. call[c] \in Serving
  BY <1>1, RequestKinds DEF TypesHold, SessionOps
<1>3. /\ drawn + 2 <= case.ids /\ drawn' = drawn + 2
      /\ call[c].seen # Nobody
      /\ \E u \in users : u.id = call[c].user /\ u.hash = call[c].seen
      /\ epoch' = [epoch EXCEPT ![call[c].user] = drawn + 1]
      /\ UNCHANGED <<retired, rows, codes, joined, failures, guesses, exports>>
  BY DEF Changes, ChangePassword, Unchanged
<1>4. users' = {IF u.id = call[c].user THEN [u EXCEPT !.hash = Hash(call[c].new, drawn + 1)] ELSE u :
                u \in users}
  BY DEF Changes, ChangePassword
<1>5. users' = {Rehashed(u, Hash(call[c].new, drawn + 1), {v \in users : v.id = call[c].user}) :
                u \in users}
  BY <1>4 DEF Rehashed
<1>6. sessions' \in Issued(RevokedOf(c), call[c].user, call[c].device, drawn + 2)
  BY DEF Changes, ChangePassword, EndedByChange, RevokedOf
<1>7. call[c].seen \in Hashes /\ call[c].seen.word = call[c].word
  BY <1>1, <1>2, <1>3 DEF HashesAreSeen
<1>8. call[c].user \in Ids /\ call[c].device \in Device
  BY <1>2 DEF Serving
<1>9. call'[c] = Idle
  BY DEF Changes, ChangePassword, Done, TypesHold
<1>10. Hash(call[c].new, drawn + 1) \in Hashes
  BY <1>1, <1>2 DEF Serving, Hash, Hashes, TypesHold
<1> QED
  BY <1>1, <1>2, <1>3, <1>5, <1>6, <1>7, <1>8, <1>9, <1>10

MarkedCode(k, user) == IF codes[k].by = user THEN [codes[k] EXCEPT !.by = -user] ELSE codes[k]

\* What a deletion that goes through does.
LEMMA DeletionWrites ==
    ASSUME TypesHold, HashesAreSeen, NEW c \in Caller, Deletes(c)
    PROVE  /\ call[c] \in Serving /\ call[c].user \in Ids
           /\ call[c].op = "delete"
           /\ \E u \in users : u.id = call[c].user /\ u.hash = call[c].seen
           /\ call[c].seen \in Hashes /\ call[c].seen.word = call[c].word
           /\ retired' = retired \cup {call[c].user}
           /\ users' = {u \in users : u.id # call[c].user}
           /\ sessions' = {s \in sessions : s.user # call[c].user}
           /\ rows' = rows \ {call[c].user}
           /\ codes' = [k \in Code |-> MarkedCode(k, call[c].user)]
           /\ lease' = IF lease # Nobody /\ lease.user = call[c].user THEN Nobody ELSE lease
           /\ UNCHANGED <<drawn, joined, epoch, failures, guesses, spools>>
           /\ call'[c] = Idle
<1>1. call[c].op = "delete" /\ call[c].seen # Nobody
  BY DEF Deletes, DeleteAccount
<1>2. call[c] \in Serving
  BY <1>1, RequestKinds DEF TypesHold, SessionOps
<1>3. /\ \E u \in users : u.id = call[c].user /\ u.hash = call[c].seen
      /\ UNCHANGED <<drawn, joined, epoch, failures, guesses, spools>>
      /\ retired' = retired \cup {call[c].user}
      /\ users' = {u \in users : u.id # call[c].user}
      /\ sessions' = {s \in sessions : s.user # call[c].user}
      /\ rows' = rows \ {call[c].user}
      /\ lease' = IF lease # Nobody /\ lease.user = call[c].user THEN Nobody ELSE lease
  BY DEF Deletes, DeleteAccount, Unchanged, Retired, history
<1>4. codes' = [k \in Code |-> MarkedCode(k, call[c].user)]
  BY DEF Deletes, DeleteAccount, MarkedCode
<1>5. call[c].seen \in Hashes /\ call[c].seen.word = call[c].word
  BY <1>1, <1>2 DEF HashesAreSeen
<1>6. call[c].user \in Ids
  BY <1>2 DEF Serving
<1>7. call'[c] = Idle
  BY DEF Deletes, DeleteAccount, Done, TypesHold
<1> QED
  BY <1>1, <1>2, <1>3, <1>4, <1>5, <1>6, <1>7

\* A request notes the use of its session and writes nothing else.
LEMMA EntryWrites ==
    ASSUME TypesHold, NEW c \in Caller, StartSession(c)
    PROVE  /\ \E s \in sessions : /\ Live(s)
                                  /\ sessions' = (sessions \ {s}) \cup {[s EXCEPT !.used = now]}
           /\ UNCHANGED <<drawn, users, retired, rows, codes, joined, epoch, failures, guesses, exports>>
BY DEF StartSession, Enter, history

-----------------------------------------------------------------------------
(* Type correctness.                                                       *)

\* Sessions are session rows after a login, a change of password or anything else.
LEMMA SessionsTyped ==
    ASSUME TypesHold, HashesAreSeen, [Next]_vars
    PROVE  sessions' \subseteq SessionRows
<1>1. sessions \subseteq SessionRows /\ now \in Int /\ drawn \in Nat
  BY DEF TypesHold
<1>2. SessionTime \in Nat
  BY LimitAssumption
<1>3. ASSUME NEW c \in Caller, Registers(c)
      PROVE  sessions' \subseteq SessionRows
  <2>1. /\ sessions' \in Issued(sessions, NewUser(c), call[c].device, drawn + 3)
        /\ NewUser(c) \in Ids /\ call[c] \in Registering
    BY <1>3, RegistrationWrites
  <2>2. call[c].device \in Device
    BY <2>1 DEF Registering
  <2>3. drawn + 3 \in Ids
    BY <1>1 DEF Ids
  <2> QED
    BY <1>1, <1>2, <2>1, <2>2, <2>3, IssuedInherits
<1>4. ASSUME NEW c \in Caller, LogsIn(c)
      PROVE  sessions' \subseteq SessionRows
  <2>1. /\ sessions' \in Issued(sessions, call[c].user.id, call[c].device, drawn + 2)
        /\ call[c].user \in UserRows /\ call[c] \in LoggingIn
    BY <1>4, LoginWrites
  <2>2. call[c].device \in Device
    BY <2>1 DEF LoggingIn
  <2>3. drawn + 2 \in Ids /\ call[c].user.id \in Ids
    BY <1>1, <2>1 DEF Ids, UserRows
  <2> QED
    BY <1>1, <1>2, <2>1, <2>2, <2>3, IssuedInherits
<1>5. ASSUME NEW c \in Caller, Changes(c)
      PROVE  sessions' \subseteq SessionRows
  <2>1. /\ sessions' \in Issued(RevokedOf(c), call[c].user, call[c].device, drawn + 2)
        /\ call[c].user \in Ids /\ call[c].device \in Device
    BY <1>5, ChangeWrites
  <2>2. \A s \in SessionRows : Revoke(s) \in SessionRows
    BY <1>1, Revoking
  <2>3. RevokedOf(c) \subseteq SessionRows
    BY <1>1, <2>2 DEF RevokedOf
  <2>4. drawn + 2 \in Ids
    BY <1>1 DEF Ids
  <2> QED
    BY <1>1, <1>2, <2>1, <2>3, <2>4, IssuedInherits
<1>6. ASSUME NEW c \in Caller, Deletes(c)
      PROVE  sessions' \subseteq SessionRows
  BY <1>1, <1>6, DeletionWrites
<1>7. ASSUME NEW c \in Caller, StartSession(c)
      PROVE  sessions' \subseteq SessionRows
  <2>1. \A s \in SessionRows : [s EXCEPT !.used = now] \in SessionRows
    BY <1>1 DEF SessionRows
  <2> QED
    BY <1>1, <2>1, <1>7, EntryWrites
<1>8. ASSUME NEW c \in Caller, Logout(c)
      PROVE  sessions' \subseteq SessionRows
  <2>1. \A s \in SessionRows : Revoke(s) \in SessionRows
    BY <1>1, Revoking
  <2> QED
    BY <1>1, <2>1, <1>8 DEF Logout
<1>9. CASE sessions' = sessions
  BY <1>1, <1>9
<1> QED
  BY <1>3, <1>4, <1>5, <1>6, <1>7, <1>8, <1>9, StepCases DEF Quiet, CreateInvite, RevokeInvite, Write

\* Users are user rows after a registration, a new password or a deletion.
LEMMA UsersTyped ==
    ASSUME TypesHold, HashesAreSeen, [Next]_vars
    PROVE  users' \subseteq UserRows /\ retired' \subseteq Ids
<1>1. users \subseteq UserRows /\ retired \subseteq Ids
  BY DEF TypesHold
<1>2. ASSUME NEW c \in Caller, Registers(c)
      PROVE  users' \subseteq UserRows /\ retired' \subseteq Ids
  BY <1>1, <1>2, RegistrationWrites
<1>3. ASSUME NEW c \in Caller, LogsIn(c)
      PROVE  users' \subseteq UserRows /\ retired' \subseteq Ids
  <2> DEFINE h == Hash(call[c].word, drawn + 1)
             S == {v \in users : v.id = call[c].user.id /\ call[c].user.hash.weak}
  <2>1. h \in Hashes /\ users' = {Rehashed(u, h, S) : u \in users} /\ retired' = retired
    BY <1>3, LoginWrites
  <2> HIDE DEF h, S
  <2>2. \A u \in users : Rehashed(u, h, S) \in UserRows
    BY <1>1, <2>1, Rehashing
  <2> QED
    BY <1>1, <2>1, <2>2
<1>4. ASSUME NEW c \in Caller, Changes(c)
      PROVE  users' \subseteq UserRows /\ retired' \subseteq Ids
  <2> DEFINE h == Hash(call[c].new, drawn + 1)
             S == {v \in users : v.id = call[c].user}
  <2>1. h \in Hashes /\ users' = {Rehashed(u, h, S) : u \in users} /\ retired' = retired
    BY <1>4, ChangeWrites
  <2> HIDE DEF h, S
  <2>2. \A u \in users : Rehashed(u, h, S) \in UserRows
    BY <1>1, <2>1, Rehashing
  <2> QED
    BY <1>1, <2>1, <2>2
<1>5. ASSUME NEW c \in Caller, Deletes(c)
      PROVE  users' \subseteq UserRows /\ retired' \subseteq Ids
  BY <1>1, <1>5, DeletionWrites
<1>6. ASSUME NEW c \in Caller, StartSession(c)
      PROVE  users' \subseteq UserRows /\ retired' \subseteq Ids
  BY <1>1, <1>6, EntryWrites
<1> QED
  BY <1>1, <1>2, <1>3, <1>4, <1>5, <1>6, StepCases
     DEF Quiet, CreateInvite, RevokeInvite, Write, Logout

\* Codes are code rows after they are made, revoked, used or marked.
LEMMA CodesTyped ==
    ASSUME TypesHold, HashesAreSeen, [Next]_vars
    PROVE  codes' \in [Code -> CodeRows]
<1>1. codes \in [Code -> CodeRows] /\ now \in Int
  BY DEF TypesHold
<1>2. ASSUME NEW k \in Code, NEW r \in CodeRows, codes' = [codes EXCEPT ![k] = r]
      PROVE  codes' \in [Code -> CodeRows]
  BY <1>1, <1>2
<1>3. ASSUME NEW k \in Code, CreateInvite(k)
      PROVE  codes' \in [Code -> CodeRows]
  <2>1. [state |-> "open", expires |-> now + 1, by |-> Nobody] \in CodeRows
    BY <1>1 DEF CodeRows
  <2> QED
    BY <1>2, <1>3, <2>1 DEF CreateInvite
<1>4. ASSUME NEW k \in Code, RevokeInvite(k)
      PROVE  codes' \in [Code -> CodeRows]
  <2>1. [codes[k] EXCEPT !.state = "revoked"] \in CodeRows
    BY <1>1 DEF CodeRows
  <2>2. codes' = [codes EXCEPT ![k] = [codes[k] EXCEPT !.state = "revoked"]]
    BY <1>4 DEF RevokeInvite
  <2> QED
    BY <1>2, <2>1, <2>2
<1>5. ASSUME NEW c \in Caller, Registers(c)
      PROVE  codes' \in [Code -> CodeRows]
  <2>1. CASE call[c].kind = "open"
    BY <1>1, <1>5, <2>1, RegistrationWrites
  <2>2. CASE call[c].kind # "open"
    <3>0. NewUser(c) \in Ids /\ call[c].code \in Code
      BY <1>5, <2>2, RegistrationWrites
    <3>1. NewUser(c) \in Int
      BY <3>0 DEF Ids
    <3>2. [codes[call[c].code] EXCEPT !.state = "used", !.by = NewUser(c)] \in CodeRows
      BY <1>1, <3>0, <3>1 DEF CodeRows
    <3> QED
      BY <1>2, <1>5, <2>2, <3>0, <3>2, RegistrationWrites
  <2> QED
    BY <2>1, <2>2
<1>6. ASSUME NEW c \in Caller, Deletes(c)
      PROVE  codes' \in [Code -> CodeRows]
  <2>1. ASSUME NEW k \in Code
        PROVE  MarkedCode(k, call[c].user) \in CodeRows
    <3>1. codes[k] \in CodeRows /\ -call[c].user \in Int
      BY <1>1, <1>6, DeletionWrites DEF Ids
    <3> QED
      BY <3>1 DEF MarkedCode, CodeRows
  <2> QED
    BY <1>6, <2>1, DeletionWrites
<1>7. CASE codes' = codes
  BY <1>1, <1>7
<1> QED
  BY <1>3, <1>4, <1>5, <1>6, <1>7, LoginWrites, ChangeWrites, EntryWrites, StepCases
     DEF Quiet, Write, Logout

\* The counts of failed logins stay counts.
LEMMA FailuresTyped ==
    ASSUME TypesHold, [Next]_vars
    PROVE  failures' \in [Name -> FailureRows \cup {Nobody}] /\ guesses' \in [Name -> Nat]
<1>1. /\ failures \in [Name -> FailureRows \cup {Nobody}] /\ guesses \in [Name -> Nat]
      /\ now \in Int /\ LockTime \in Nat
  BY LimitAssumption DEF TypesHold
<1>2. ASSUME NEW c \in Caller, FailLogin(c)
      PROVE  failures' \in [Name -> FailureRows \cup {Nobody}] /\ guesses' \in [Name -> Nat]
  <2> DEFINE r == call[c]
             n == r.name
  <2>1. r \in LoggingIn
    BY <1>2, RequestKinds DEF FailLogin, TypesHold
  <2>2. n \in Name /\ r.at \in Int
    BY <2>1 DEF LoggingIn
  <2>3. Failures(r) \in Nat \ {0}
    BY <1>1, <2>2 DEF Failures, Restarts, FailureRows
  <2>4. (IF Restarts(n, r.at) THEN r.at ELSE failures[n].since) \in Int
    BY <1>1, <2>2 DEF Restarts, FailureRows
  <2>5. (IF Failures(r) >= FailureLimit THEN r.at + LockTime ELSE 0) \in Int
    BY <1>1, <2>2
  <2>6. [count |-> Failures(r),
         since |-> IF Restarts(n, r.at) THEN r.at ELSE failures[n].since,
         until |-> IF Failures(r) >= FailureLimit THEN r.at + LockTime ELSE 0] \in FailureRows
    BY <2>3, <2>4, <2>5 DEF FailureRows
  <2>7. failures' \in [Name -> FailureRows \cup {Nobody}]
    BY <1>1, <1>2, <2>2, <2>6 DEF FailLogin
  <2>8. (IF Restarts(n, r.at) THEN 0 ELSE guesses[n]) + (IF r.locked THEN 0 ELSE 1) \in Nat
    BY <1>1, <2>2
  <2>9. guesses' = [guesses EXCEPT ![n] =
                       (IF Restarts(n, r.at) THEN 0 ELSE guesses[n]) + (IF r.locked THEN 0 ELSE 1)]
    BY <1>1, <1>2, <2>2 DEF FailLogin
  <2> QED
    BY <1>1, <2>7, <2>8, <2>9
<1>3. ASSUME NEW c \in Caller, FinishLogin(c)
      PROVE  failures' \in [Name -> FailureRows \cup {Nobody}] /\ guesses' \in [Name -> Nat]
  BY <1>1, <1>3 DEF FinishLogin, Refused, database, history
<1>4. ASSUME NEW c \in Caller, Step(c)
      PROVE  failures' \in [Name -> FailureRows \cup {Nobody}] /\ guesses' \in [Name -> Nat]
  <2>1. CASE FailLogin(c) \/ FinishLogin(c)
    BY <2>1, <1>2, <1>3
  <2>2. CASE ~(FailLogin(c) \/ FinishLogin(c))
    <3>1. failures' = failures /\ guesses' = guesses
      BY <1>4, <2>2 DEF Step, FinishRegister, Refused, Write, Logout, Observe, ChangePassword,
         DeleteAccount, VerifyForExport, AcquireLease, StartSpool, FinishSpool, FailSpool,
         FinishStream, database, history
    <3> QED
      BY <1>1, <3>1
  <2> QED
    BY <2>1, <2>2
<1>5. CASE failures' = failures /\ guesses' = guesses
  BY <1>1, <1>5
<1> QED
  BY <1>4, <1>5, EntryWrites DEF Next, vars, Crash, Tick, Login, Register, CreateInvite, RevokeInvite,
     database, history

\* The lease and the spools stay what they are.
LEMMA ExportsTyped ==
    ASSUME TypesHold, HashesAreSeen, [Next]_vars
    PROVE  lease' \in LeaseRows \cup {Nobody} /\ spools' \subseteq Spools
<1>1. /\ lease \in LeaseRows \cup {Nobody} /\ spools \subseteq Spools
      /\ now \in Int /\ now + LeaseTime \in Int
  BY LimitAssumption DEF TypesHold
<1>2. ASSUME NEW c \in Caller, AcquireLease(c)
      PROVE  lease' \in LeaseRows \cup {Nobody} /\ spools' \subseteq Spools
  <2>1. call[c] \in Serving
    BY <1>2, RequestKinds DEF AcquireLease, TypesHold, SessionOps
  <2>2. call[c].user \in Ids
    BY <2>1 DEF Serving
  <2>3. [user |-> call[c].user, by |-> c, until |-> now + LeaseTime] \in LeaseRows
    BY <1>1, <2>2 DEF LeaseRows, Ids
  <2> QED
    BY <1>1, <1>2, <2>3 DEF AcquireLease
<1>3. ASSUME NEW c \in Caller, StartSpool(c)
      PROVE  lease' \in LeaseRows \cup {Nobody} /\ spools' \subseteq Spools
  <2>1. [by |-> c, made |-> now] \in Spools
    BY <1>1 DEF Spools
  <2> QED
    BY <1>1, <1>3, <2>1 DEF StartSpool
<1>4. ASSUME NEW c \in Caller, FailSpool(c) \/ FinishStream(c)
      PROVE  lease' \in LeaseRows \cup {Nobody} /\ spools' \subseteq Spools
  BY <1>1, <1>4 DEF FailSpool, FinishStream, Release
<1>5. CASE Crash
  <2>1. \A d \in Spools : [d EXCEPT !.by = Nobody] \in Spools
    BY DEF Spools
  <2> QED
    BY <1>1, <1>5, <2>1 DEF Crash
<1>6. ASSUME NEW c \in Caller, DeleteAccount(c)
      PROVE  lease' \in LeaseRows \cup {Nobody} /\ spools' \subseteq Spools
  BY <1>1, <1>6 DEF DeleteAccount, Refused, exports
<1>7. ASSUME NEW c \in Caller, Step(c)
      PROVE  lease' \in LeaseRows \cup {Nobody} /\ spools' \subseteq Spools
  <2>1. CASE \/ AcquireLease(c) \/ StartSpool(c) \/ FailSpool(c) \/ FinishStream(c) \/ DeleteAccount(c)
    BY <2>1, <1>2, <1>3, <1>4, <1>6
  <2>2. CASE ~(\/ AcquireLease(c) \/ StartSpool(c) \/ FailSpool(c) \/ FinishStream(c) \/ DeleteAccount(c))
    <3>1. lease' = lease /\ spools' = spools
      BY <1>7, <2>2 DEF Step, FinishRegister, Refused, Write, Logout, Observe, ChangePassword,
         VerifyForExport, FinishSpool, FailLogin, FinishLogin, exports
    <3> QED
      BY <1>1, <3>1
  <2> QED
    BY <2>1, <2>2
<1>8. CASE lease' = lease /\ spools' = spools
  BY <1>1, <1>8
<1> QED
  BY <1>5, <1>7, <1>8, EntryWrites DEF Next, vars, Tick, Login, Register, CreateInvite, RevokeInvite,
     exports

\* Ids drawn and the ids of password changes stay in bounds.
LEMMA CountersTyped ==
    ASSUME TypesHold, HashesAreSeen, [Next]_vars
    PROVE  /\ drawn' \in Nat /\ drawn' <= case.ids /\ drawn' >= drawn
           /\ epoch' \in [UserIds -> Nat]
           /\ joined' \subseteq Joins
           /\ now' \in Nat /\ now' <= case.time /\ now' >= now
<1>1. /\ drawn \in Nat /\ drawn <= case.ids /\ epoch \in [UserIds -> Nat] /\ joined \subseteq Joins
      /\ now \in Nat /\ now <= case.time
  BY DEF TypesHold
<1>2. case.ids \in Nat /\ case.time \in Nat
  BY CaseAssumption DEF TypesHold
<1>3. now' \in Nat /\ now' <= case.time /\ now' >= now
  BY <1>1, <1>2, CaseStays DEF Tick
<1>4. CASE UNCHANGED <<drawn, epoch, joined>>
  BY <1>1, <1>2, <1>3, <1>4
<1>5. ASSUME NEW c \in Caller, Registers(c)
      PROVE  /\ drawn' \in Nat /\ drawn' <= case.ids /\ drawn' >= drawn
             /\ epoch' = epoch
             /\ joined' \subseteq Joins
  <2>1. /\ drawn + 3 <= case.ids /\ drawn' = drawn + 3 /\ joined' = joined \cup {NewJoin(c)}
        /\ NewJoin(c) \in Joins /\ epoch' = epoch
    BY <1>5, RegistrationWrites
  <2> QED
    BY <1>1, <1>2, <2>1
<1>6. ASSUME NEW c \in Caller, LogsIn(c)
      PROVE  /\ drawn' \in Nat /\ drawn' <= case.ids /\ drawn' >= drawn
             /\ epoch' = epoch /\ joined' = joined
  BY <1>1, <1>2, <1>6, LoginWrites
<1>7. ASSUME NEW c \in Caller, Changes(c)
      PROVE  /\ drawn' \in Nat /\ drawn' <= case.ids /\ drawn' >= drawn
             /\ epoch' \in [UserIds -> Nat] /\ joined' = joined
  <2>1. /\ drawn + 2 <= case.ids /\ drawn' = drawn + 2 /\ joined' = joined
        /\ epoch' = [epoch EXCEPT ![call[c].user] = drawn + 1]
    BY <1>7, ChangeWrites
  <2>2. drawn' \in Nat /\ drawn' <= case.ids /\ drawn' >= drawn /\ drawn + 1 \in Nat
    BY <1>1, <1>2, <2>1
  <2>3. epoch' \in [UserIds -> Nat]
    BY <1>1, <2>1, <2>2
  <2> QED
    BY <2>1, <2>2, <2>3
<1> QED
  BY <1>1, <1>3, <1>4, <1>5, <1>6, <1>7, DeletionWrites, EntryWrites, StepCases
     DEF Quiet, CreateInvite, RevokeInvite, Write, Logout, history

\* A request under way has seen the hash of the password it was given.
LEMMA HashesStaySeen ==
    ASSUME TypesHold, RowsAreUnique, HashesAreSeen, [Next]_vars
    PROVE  HashesAreSeen'
<1>1. ASSUME NEW c \in Caller, call'[c] \in Serving, call'[c].op \in {"change", "delete"},
             call'[c].seen # Nobody
      PROVE  call'[c].seen \in Hashes /\ call'[c].seen.word = call'[c].word
  <2>1. call \in [Caller -> Requests] /\ users \subseteq UserRows
    BY DEF TypesHold
  <2>2. CASE call'[c] = call[c]
    BY <1>1, <2>2 DEF HashesAreSeen
  <2>3. CASE call'[c] = Idle
    BY <1>1, <2>3 DEF Idle
  <2>4. CASE Started(c)
    <3>1. call'[c] \in Registering \/ call'[c] \in LoggingIn \/ call'[c].seen = Nobody
      BY <2>4 DEF Started, LoginFrom, ServingFrom
    <3>2. call'[c].op \notin {"register", "login"}
      BY <1>1
    <3> QED
      BY <1>1, <3>1, <3>2 DEF Registering, LoggingIn
  <2>5. CASE Progresses(c)
    <3>1. call[c] \in Serving
      BY <2>5, Progressing
    <3>2. CASE Observe(c) /\ Knows(call[c]) /\ call'[c] = [call[c] EXCEPT !.seen = UserOf(call[c].user).hash]
      <4>1. PICK u \in users : u.id = call[c].user /\ u.hash # Nobody /\ u.hash.word = call[c].word
        BY <3>2 DEF Knows
      <4>2. UserOf(call[c].user) \in users /\ UserOf(call[c].user).id = call[c].user
        BY <4>1 DEF UserOf
      <4>3. UserOf(call[c].user) = u
        BY <4>1, <4>2 DEF RowsAreUnique
      <4>4. u.hash \in Hashes
        BY <4>1, <2>1 DEF UserRows
      <4>5. call'[c].seen = u.hash /\ call'[c].word = call[c].word
        BY <3>1, <3>2, <4>3 DEF Serving
      <4> QED
        BY <4>1, <4>4, <4>5
    <3>3. CASE ~(Observe(c) /\ Knows(call[c]) /\ call'[c] = [call[c] EXCEPT !.seen = UserOf(call[c].user).hash])
      <4>1. call'[c].op \in {"verified", "leased", "spooling", "streaming"}
        BY <2>5, <3>1, <3>3 DEF Progresses, Serving
      <4> QED
        BY <1>1, <4>1
    <3> QED
      BY <3>2, <3>3
  <2> QED
    BY <2>2, <2>3, <2>4, <2>5, CallCases
<1> QED
  BY <1>1 DEF HashesAreSeen

-----------------------------------------------------------------------------
(* Ids are drawn once, and name one row each.                              *)

UniqueIds(S) == \A s, t \in S : s.id = t.id => s = t

RevokedIn(S, T) == {IF s \in T THEN Revoke(s) ELSE s : s \in S}

\* Revoking keeps the ids of sessions apart.
LEMMA RevokedKeepIds ==
    ASSUME NEW S, S \subseteq SessionRows, NEW T, now \in Int, UniqueIds(S)
    PROVE  /\ RevokedIn(S, T) \subseteq SessionRows
           /\ UniqueIds(RevokedIn(S, T))
           /\ \A s \in RevokedIn(S, T) : \E t \in S : Continues(s, t)
<1>1. ASSUME NEW s \in SessionRows
      PROVE  /\ Revoke(s) \in SessionRows /\ Revoke(s).id = s.id
             /\ Continues(Revoke(s), s) /\ Continues(s, s)
  BY Revoking DEF Continues
<1>2. \A s \in RevokedIn(S, T) : \E t \in S : s = (IF t \in T THEN Revoke(t) ELSE t)
  BY DEF RevokedIn
<1>3. \A s \in RevokedIn(S, T) : s \in SessionRows /\ \E t \in S : Continues(s, t)
  BY <1>1, <1>2
<1>4. ASSUME NEW a \in RevokedIn(S, T), NEW b \in RevokedIn(S, T), a.id = b.id
      PROVE  a = b
  <2>1. PICK s \in S : a = (IF s \in T THEN Revoke(s) ELSE s)
    BY <1>2
  <2>2. PICK t \in S : b = (IF t \in T THEN Revoke(t) ELSE t)
    BY <1>2
  <2>3. s.id = t.id
    BY <1>1, <1>4, <2>1, <2>2
  <2> QED
    BY <2>1, <2>2, <2>3 DEF UniqueIds
<1> QED
  BY <1>3, <1>4 DEF UniqueIds

\* Issuing a session keeps the ids of sessions apart.
LEMMA IssuedKeepIds ==
    ASSUME NEW all, all \subseteq SessionRows, UniqueIds(all), now \in Int,
           NEW user \in Ids, NEW device \in Device, NEW id \in Ids, \A s \in all : s.id # id,
           NEW X \in Issued(all, user, device, id)
    PROVE  UniqueIds(X)
<1> DEFINE kept == KeptOf(all, user)
           rest == Rest(all, user, device)
<1>1. PICK k \in Choices(rest) : X \in Outcomes(all, user, device, id, rest, k)
  BY IssuedUnpacked
<1>2. PICK h \in Newest(EndedOf(Cut(rest, k)), HistoryLimit, RevokedAt(EndedOf(Cut(rest, k)))) :
            X = Others(all, user) \cup (Cut(rest, k) \ EndedOf(Cut(rest, k))) \cup h
                   \cup {Fresh(user, device, id)}
  BY <1>1 DEF Outcomes
<1>3. h \subseteq Cut(rest, k)
  BY DEF Newest, EndedOf
<1>4. kept \subseteq SessionRows /\ UniqueIds(kept) /\ \A s \in kept : s \in all /\ s.user = user
  BY DEF KeptOf, UniqueIds
<1>5. rest = RevokedIn(kept, {s \in kept : Superseded(s, device)})
  BY DEF Rest, RevokedIn
<1> HIDE DEF kept, rest
<1>6. /\ rest \subseteq SessionRows /\ UniqueIds(rest)
      /\ \A s \in rest : \E t \in kept : Continues(s, t)
  BY <1>4, <1>5, RevokedKeepIds
<1>7. Cut(rest, k) = RevokedIn(rest, LiveOf(rest) \ k)
  BY DEF Cut, RevokedIn
<1>8. UniqueIds(Cut(rest, k)) /\ \A s \in Cut(rest, k) : \E t \in rest : Continues(s, t)
  BY <1>6, <1>7, RevokedKeepIds
<1>9. \A s \in Cut(rest, k) : \E t \in all : s.id = t.id /\ t.user = user
  BY <1>4, <1>6, <1>8 DEF Continues
<1>10. \A s \in Others(all, user) : s \in all /\ s.user # user
  BY DEF Others
<1>11. \A s \in X : \/ s \in Others(all, user)
                    \/ s \in Cut(rest, k)
                    \/ s = Fresh(user, device, id)
  BY <1>2, <1>3
<1>12. Fresh(user, device, id).id = id
  BY DEF Fresh
<1>13. ASSUME NEW s \in Others(all, user), NEW t \in Cut(rest, k)
       PROVE  s.id # t.id
  <2>1. PICK v \in all : t.id = v.id /\ v.user = user
    BY <1>9
  <2> QED
    BY <1>10, <2>1 DEF UniqueIds
<1>14. \A s, t \in Others(all, user) : s.id = t.id => s = t
  BY <1>10 DEF UniqueIds
<1>15. \A s \in Others(all, user) \cup Cut(rest, k) : s.id # id
  BY <1>9, <1>10
<1> HIDE DEF Fresh
<1>16. ASSUME NEW s \in X, NEW t \in X, s.id = t.id
       PROVE  s = t
  <2>1. CASE s \in Others(all, user)
    BY <1>11, <1>12, <1>13, <1>14, <1>15, <1>16, <2>1
  <2>2. CASE s \in Cut(rest, k)
    BY <1>8, <1>11, <1>12, <1>13, <1>15, <1>16, <2>2 DEF UniqueIds
  <2>3. CASE s = Fresh(user, device, id)
    BY <1>11, <1>12, <1>15, <1>16, <2>3
  <2> QED
    BY <1>11, <2>1, <2>2, <2>3
<1> QED
  BY <1>16 DEF UniqueIds

SameUser(u, v) == u.id = v.id /\ u.name = v.name /\ (v.hash = u.hash \/ v.hash \in Hashes)

\* Every row after a step is one from before, every one from before is left or retired,
\* and none was doubled.
UsersComeFrom == \A v \in users' : \E u \in users : SameUser(u, v)

UsersGoTo == \A u \in users : (\E v \in users' : SameUser(u, v)) \/ u.id \in retired'

UsersStayApart ==
    \A v, w \in users' : v.id = w.id /\ (\A t, u \in users : t.id = u.id => t = u) => v = w

\* Users keep their ids and names when passwords are replaced.
LEMMA RehashedUsers ==
    ASSUME NEW new \in Hashes, NEW S, users \subseteq UserRows,
           users' = {Rehashed(u, new, S) : u \in users}
    PROVE  UsersComeFrom /\ UsersGoTo /\ UsersStayApart
<1>1. ASSUME NEW u \in users
      PROVE  /\ Rehashed(u, new, S) \in users' /\ SameUser(u, Rehashed(u, new, S))
             /\ Rehashed(u, new, S).id = u.id
  BY Rehashing DEF SameUser
<1>2. \A v \in users' : \E u \in users : v = Rehashed(u, new, S)
  OBVIOUS
<1>3. UsersComeFrom
  BY <1>1, <1>2 DEF UsersComeFrom
<1>4. UsersGoTo
  BY <1>1 DEF UsersGoTo
<1>5. ASSUME NEW v \in users', NEW w \in users', v.id = w.id,
             \A t, u \in users : t.id = u.id => t = u
      PROVE  v = w
  <2>1. PICK t \in users : v = Rehashed(t, new, S)
    BY <1>2
  <2>2. PICK u \in users : w = Rehashed(u, new, S)
    BY <1>2
  <2> QED
    BY <1>1, <1>5, <2>1, <2>2
<1> QED
  BY <1>3, <1>4, <1>5 DEF UsersStayApart

\* The users after a step: a new or claimed row, or the rows there were.
LEMMA UserOrigins ==
    ASSUME TypesHold, HashesAreSeen, [Next]_vars
    PROVE  \/ \E c \in Caller : Registers(c)
           \/ UsersComeFrom /\ UsersGoTo /\ UsersStayApart
<1>1. users \subseteq UserRows
  BY DEF TypesHold
<1>3. ASSUME NEW c \in Caller, LogsIn(c)
      PROVE  UsersComeFrom /\ UsersGoTo /\ UsersStayApart
  <2> DEFINE h == Hash(call[c].word, drawn + 1)
             S == {v \in users : v.id = call[c].user.id /\ call[c].user.hash.weak}
  <2>1. h \in Hashes /\ users' = {Rehashed(u, h, S) : u \in users}
    BY <1>3, LoginWrites
  <2> HIDE DEF h, S
  <2> QED
    BY <1>1, <2>1, RehashedUsers
<1>4. ASSUME NEW c \in Caller, Changes(c)
      PROVE  UsersComeFrom /\ UsersGoTo /\ UsersStayApart
  <2> DEFINE h == Hash(call[c].new, drawn + 1)
             S == {v \in users : v.id = call[c].user}
  <2>1. h \in Hashes /\ users' = {Rehashed(u, h, S) : u \in users}
    BY <1>4, ChangeWrites
  <2> HIDE DEF h, S
  <2> QED
    BY <1>1, <2>1, RehashedUsers
<1>5. ASSUME NEW c \in Caller, Deletes(c)
      PROVE  UsersComeFrom /\ UsersGoTo /\ UsersStayApart
  <2>1. users' = {u \in users : u.id # call[c].user} /\ retired' = retired \cup {call[c].user}
    BY <1>5, DeletionWrites
  <2> QED
    BY <2>1 DEF UsersComeFrom, UsersGoTo, UsersStayApart, SameUser
<1>6. CASE users' = users
  BY <1>6 DEF UsersComeFrom, UsersGoTo, UsersStayApart, SameUser
<1>7. ASSUME NEW c \in Caller, StartSession(c)
      PROVE  users' = users
  BY <1>7, EntryWrites
<1> QED
  BY <1>3, <1>4, <1>5, <1>6, <1>7, StepCases DEF Quiet, CreateInvite, RevokeInvite, Write, Logout

\* The row of a registration: the id is new, or the one of the only row of the name.
LEMMA NewUserIs ==
    ASSUME TypesHold, RowsAreUnique, NEW c \in Caller
    PROVE  \/ Named(call[c].name) = {} /\ NewUser(c) = drawn + 1
           \/ \E u \in users : /\ u.name = call[c].name /\ NewUser(c) = u.id
                              /\ Named(call[c].name) = {u}
<1>1. CASE Named(call[c].name) = {}
  BY <1>1 DEF NewUser
<1>2. CASE Named(call[c].name) # {}
  <2>1. PICK u : u = (CHOOSE v \in Named(call[c].name) : TRUE)
    OBVIOUS
  <2>2. u \in Named(call[c].name)
    BY <1>2, <2>1
  <2>3. NewUser(c) = u.id
    BY <1>2, <2>1 DEF NewUser
  <2>4. u \in users /\ u.name = call[c].name /\ Named(call[c].name) = {u}
    BY <2>2 DEF Named, RowsAreUnique
  <2> QED
    BY <2>3, <2>4
<1> QED
  BY <1>1, <1>2

\* No two users share an id or a name.
LEMMA UsersStayUnique ==
    ASSUME TypesHold, RowsAreUnique, IdsAreOld, HashesAreSeen, [Next]_vars
    PROVE  \A u, v \in users' : u.id = v.id \/ u.name = v.name => u = v
<1>1. ASSUME NEW c \in Caller, Registers(c)
      PROVE  \A u, v \in users' : u.id = v.id \/ u.name = v.name => u = v
  <2>1. users' = (users \ Named(call[c].name)) \cup {NewRow(c)}
    BY <1>1, RegistrationWrites
  <2>2. NewRow(c).id = NewUser(c) /\ NewRow(c).name = call[c].name
    BY DEF NewRow
  <2>3. \A u \in users \ Named(call[c].name) : u.name # call[c].name
    BY DEF Named
  <2>4. ASSUME NEW u \in users \ Named(call[c].name)
        PROVE  u.id # NewUser(c)
    <3>1. CASE NewUser(c) = drawn + 1
      <4>1. u.id <= drawn /\ drawn \in Nat /\ u \in UserRows
        BY DEF IdsAreOld, TypesHold
      <4>2. u.id \in Nat
        BY <4>1 DEF UserRows
      <4> QED
        BY <3>1, <4>1, <4>2
    <3>2. CASE \E v \in users : v.name = call[c].name /\ NewUser(c) = v.id /\ Named(call[c].name) = {v}
      BY <3>2, <2>3 DEF RowsAreUnique
    <3> QED
      BY <3>1, <3>2, NewUserIs
  <2> QED
    BY <2>1, <2>2, <2>3, <2>4 DEF RowsAreUnique
<1>2. CASE UsersComeFrom /\ UsersGoTo /\ UsersStayApart
  <2>1. ASSUME NEW v \in users', NEW w \in users', v.id = w.id \/ v.name = w.name
        PROVE  v = w
    <3>1. PICK t \in users : SameUser(t, v)
      BY <1>2 DEF UsersComeFrom
    <3>2. PICK u \in users : SameUser(u, w)
      BY <1>2 DEF UsersComeFrom
    <3>3. t = u
      BY <2>1, <3>1, <3>2 DEF SameUser, RowsAreUnique
    <3>4. v.id = w.id
      BY <3>1, <3>2, <3>3 DEF SameUser
    <3> QED
      BY <1>2, <3>4 DEF UsersStayApart, RowsAreUnique
  <2> QED
    BY <2>1
<1> QED
  BY <1>1, <1>2, UserOrigins

\* s is what a step made of t: its use was noted, or it ended.
Follows(s, t) ==
    /\ s.id = t.id /\ s.user = t.user /\ s.device = t.device
    /\ Ended(s) \/ (~Ended(t) /\ s.expires = t.expires)

\* s was there before; if the password was changed meanwhile, it has ended.
FromBefore(s) ==
    /\ \E t \in sessions : Follows(s, t)
    /\ epoch' = epoch \/ epoch'[s.user] = epoch[s.user] \/ Ended(s)

\* s was issued in this step to one who exists.
JustIssued(s) ==
    /\ s.id = drawn' /\ drawn' > drawn
    /\ \E u \in users' : u.id = s.user
    /\ epoch' = epoch \/ (epoch'[s.user] = drawn + 1 /\ drawn' = drawn + 2)

\* Issuing leaves sessions from before, and the fresh one.
LEMMA IssuedOrigins ==
    ASSUME NEW all, all \subseteq SessionRows, now \in Int, SessionTime \in Nat,
           NEW user \in Ids, NEW device \in Device, NEW id \in Ids,
           NEW X \in Issued(all, user, device, id)
    PROVE  \A s \in X : \/ s \in all /\ s.user # user
                        \/ s = Fresh(user, device, id)
                        \/ s.user = user /\ \E t \in all : Follows(s, t)
<1>1. \A s \in X : \/ s \in Others(all, user)
                   \/ s = Fresh(user, device, id)
                   \/ Inherited(s, all, user, device)
  BY IssuedInherits
<1>2. ASSUME NEW s, Inherited(s, all, user, device)
      PROVE  s.user = user /\ \E t \in all : Follows(s, t)
  BY <1>2 DEF Inherited, Continues, Follows
<1> QED
  BY <1>1, <1>2 DEF Others

\* Every session after a step was there before or was issued in it.
LEMMA SessionOrigins ==
    ASSUME TypesHold, RowsAreUnique, NamesAreKnown, HashesAreSeen, [Next]_vars
    PROVE  \A s \in sessions' : FromBefore(s) \/ JustIssued(s)
<1>1. /\ sessions \subseteq SessionRows /\ now \in Int /\ drawn \in Nat /\ SessionTime \in Nat
      /\ epoch \in [UserIds -> Nat] /\ drawn + 3 \in Ids /\ drawn + 2 \in Ids
  BY LimitAssumption DEF TypesHold, Ids
<1>2. ASSUME NEW s \in sessions, epoch' = epoch
      PROVE  FromBefore(s)
  BY <1>2 DEF FromBefore, Follows
<1>3. ASSUME NEW c \in Caller, Registers(c), NEW s \in sessions'
      PROVE  FromBefore(s) \/ JustIssued(s)
  <2>1. /\ sessions' \in Issued(sessions, NewUser(c), call[c].device, drawn + 3)
        /\ NewUser(c) \in Ids /\ call[c] \in Registering /\ drawn' = drawn + 3
        /\ users' = (users \ Named(call[c].name)) \cup {NewRow(c)} /\ epoch' = epoch
    BY <1>3, RegistrationWrites
  <2>2. call[c].device \in Device
    BY <2>1 DEF Registering
  <2>3. \/ s \in sessions
        \/ s = Fresh(NewUser(c), call[c].device, drawn + 3)
        \/ \E t \in sessions : Follows(s, t)
    BY <1>1, <2>1, <2>2, IssuedOrigins
  <2>4. NewRow(c) \in users' /\ NewRow(c).id = NewUser(c)
    BY <2>1 DEF NewRow
  <2>5. CASE s = Fresh(NewUser(c), call[c].device, drawn + 3)
    <3>1. s.id = drawn + 3 /\ s.user = NewUser(c)
      BY <2>5 DEF Fresh
    <3>2. drawn' > drawn
      BY <1>1, <2>1
    <3> QED
      BY <2>1, <2>4, <3>1, <3>2 DEF JustIssued
  <2> QED
    BY <1>2, <2>1, <2>3, <2>5 DEF FromBefore
<1>4. ASSUME NEW c \in Caller, LogsIn(c), NEW s \in sessions'
      PROVE  FromBefore(s) \/ JustIssued(s)
  <2>1. /\ sessions' \in Issued(sessions, call[c].user.id, call[c].device, drawn + 2)
        /\ call[c].user \in UserRows /\ call[c] \in LoggingIn /\ drawn' = drawn + 2
        /\ call[c].user.id \notin retired /\ call[c].user # Nobody /\ epoch' = epoch
    BY <1>4, LoginWrites
  <2>2. call[c].device \in Device
    BY <2>1 DEF LoggingIn
  <2>3. call[c].user.id \in Ids
    BY <2>1 DEF UserRows, Ids
  <2>4. \/ s \in sessions
        \/ s = Fresh(call[c].user.id, call[c].device, drawn + 2)
        \/ \E t \in sessions : Follows(s, t)
    BY <1>1, <2>1, <2>2, <2>3, IssuedOrigins
  <2>5. PICK u \in users : u.id = call[c].user.id
    BY <2>1 DEF NamesAreKnown, Known, Exists
  <2>6. \E v \in users' : v.id = call[c].user.id
    <3>1. users' = {Rehashed(v, Hash(call[c].word, drawn + 1),
                             {w \in users : w.id = call[c].user.id /\ call[c].user.hash.weak}) :
                    v \in users} /\ Hash(call[c].word, drawn + 1) \in Hashes
      BY <1>4, LoginWrites
    <3>2. UsersGoTo
      BY <3>1, RehashedUsers DEF TypesHold
    <3>3. retired' = retired
      BY <1>4, LoginWrites
    <3> QED
      BY <2>1, <2>5, <3>2, <3>3 DEF UsersGoTo, SameUser
  <2>7. CASE s = Fresh(call[c].user.id, call[c].device, drawn + 2)
    <3>1. s.id = drawn + 2 /\ s.user = call[c].user.id
      BY <2>7 DEF Fresh
    <3>2. drawn' > drawn
      BY <1>1, <2>1
    <3> QED
      BY <2>1, <2>6, <3>1, <3>2 DEF JustIssued
  <2> QED
    BY <1>2, <2>1, <2>4, <2>7 DEF FromBefore
<1>5. ASSUME NEW c \in Caller, Changes(c), NEW s \in sessions'
      PROVE  FromBefore(s) \/ JustIssued(s)
  <2>1. /\ sessions' \in Issued(RevokedOf(c), call[c].user, call[c].device, drawn + 2)
        /\ call[c].user \in Ids /\ call[c].device \in Device /\ drawn' = drawn + 2
        /\ epoch' = [epoch EXCEPT ![call[c].user] = drawn + 1]
        /\ \E u \in users : u.id = call[c].user
    BY <1>5, ChangeWrites
  <2>2. ASSUME NEW r \in RevokedOf(c)
        PROVE  /\ r \in SessionRows
               /\ \E t \in sessions : Follows(r, t)
               /\ r.user = call[c].user => Ended(r)
    <3>1. PICK t \in sessions : r = (IF t.user = call[c].user THEN Revoke(t) ELSE t)
      BY DEF RevokedOf
    <3>2. /\ t \in SessionRows /\ Revoke(t) \in SessionRows /\ Ended(Revoke(t))
          /\ Revoke(t).id = t.id /\ Revoke(t).user = t.user /\ Revoke(t).device = t.device
      BY <1>1, Revoking
    <3> QED
      BY <3>1, <3>2 DEF Follows
  <2>3. \/ s \in RevokedOf(c) /\ s.user # call[c].user
        \/ s = Fresh(call[c].user, call[c].device, drawn + 2)
        \/ s.user = call[c].user /\ \E t \in RevokedOf(c) : Follows(s, t)
    BY <1>1, <2>1, <2>2, IssuedOrigins
  <2>4. \E v \in users' : v.id = call[c].user
    <3> DEFINE h == Hash(call[c].new, drawn + 1)
               S == {w \in users : w.id = call[c].user}
    <3>1. users' = {Rehashed(v, h, S) : v \in users} /\ h \in Hashes
      BY <1>5, ChangeWrites
    <3> HIDE DEF h, S
    <3>2. PICK u \in users : u.id = call[c].user
      BY <2>1
    <3>3. Rehashed(u, h, S) \in users'
      BY <3>1
    <3>4. Rehashed(u, h, S).id = u.id
      BY <3>1, Rehashing DEF TypesHold
    <3> QED
      BY <3>2, <3>3, <3>4
  <2>5. CASE s \in RevokedOf(c) /\ s.user # call[c].user
    BY <1>1, <2>1, <2>2, <2>5 DEF FromBefore
  <2>6. CASE s.user = call[c].user /\ \E t \in RevokedOf(c) : Follows(s, t)
    <3>1. PICK t \in RevokedOf(c) : Follows(s, t)
      BY <2>6
    <3>2. Ended(s)
      BY <2>2, <2>6, <3>1 DEF Follows
    <3>3. PICK p \in sessions : Follows(t, p)
      BY <2>2
    <3>4. Follows(s, p)
      BY <3>1, <3>2, <3>3 DEF Follows
    <3> QED
      BY <3>2, <3>4 DEF FromBefore
  <2>7. CASE s = Fresh(call[c].user, call[c].device, drawn + 2)
    <3>1. s.id = drawn + 2 /\ s.user = call[c].user
      BY <2>7 DEF Fresh
    <3>2. drawn' > drawn
      BY <1>1, <2>1
    <3>3. epoch' = epoch \/ epoch'[s.user] = drawn + 1
      BY <1>1, <2>1, <3>1
    <3> QED
      BY <2>1, <2>4, <3>1, <3>2, <3>3 DEF JustIssued
  <2> QED
    BY <2>3, <2>5, <2>6, <2>7
<1>6. ASSUME NEW c \in Caller, Deletes(c), NEW s \in sessions'
      PROVE  FromBefore(s)
  BY <1>2, <1>6, DeletionWrites
<1>7. ASSUME NEW c \in Caller, StartSession(c), NEW s \in sessions'
      PROVE  FromBefore(s)
  <2>1. PICK t \in sessions : sessions' = (sessions \ {t}) \cup {[t EXCEPT !.used = now]}
    BY <1>7, EntryWrites
  <2>2. Follows([t EXCEPT !.used = now], t)
    BY <1>1 DEF SessionRows, Follows, Ended
  <2>3. epoch' = epoch
    BY <1>7, EntryWrites
  <2> QED
    BY <1>2, <2>1, <2>2, <2>3 DEF FromBefore
<1>8. ASSUME NEW c \in Caller, Logout(c), NEW s \in sessions'
      PROVE  FromBefore(s)
  <2>1. PICK t \in sessions : s = (IF t.id = call[c].session THEN Revoke(t) ELSE t)
    BY <1>8 DEF Logout
  <2>2. Revoke(t).id = t.id /\ Revoke(t).user = t.user /\ Revoke(t).device = t.device /\ Ended(Revoke(t))
    BY <1>1, Revoking
  <2>3. Follows(s, t)
    BY <2>1, <2>2 DEF Follows
  <2>4. epoch' = epoch
    BY <1>8 DEF Logout, history
  <2> QED
    BY <2>3, <2>4 DEF FromBefore
<1>9. ASSUME sessions' = sessions, epoch' = epoch, NEW s \in sessions'
      PROVE  FromBefore(s)
  BY <1>2, <1>9
<1> QED
  BY <1>3, <1>4, <1>5, <1>6, <1>7, <1>8, <1>9, StepCases DEF Quiet, CreateInvite, RevokeInvite, Write, history

\* No two sessions share an id.
LEMMA SessionsStayUnique ==
    ASSUME TypesHold, RowsAreUnique, IdsAreOld, NamesAreKnown, HashesAreSeen, [Next]_vars
    PROVE  \A s, t \in sessions' : s.id = t.id => s = t
<1> SUFFICES UniqueIds(sessions')
  BY DEF UniqueIds
<1>1. /\ sessions \subseteq SessionRows /\ now \in Int /\ drawn \in Nat /\ drawn + 3 \in Ids /\ drawn + 2 \in Ids
      /\ UniqueIds(sessions)
  BY DEF TypesHold, Ids, UniqueIds, RowsAreUnique
<1>2. \A s \in sessions : s.id # drawn + 3 /\ s.id # drawn + 2
  <2>1. ASSUME NEW s \in sessions
        PROVE  s.id # drawn + 3 /\ s.id # drawn + 2
    <3>1. s.id <= drawn /\ s.id \in Nat
      BY <1>1 DEF IdsAreOld, SessionRows
    <3> QED
      BY <1>1, <3>1
  <2> QED
    BY <2>1
<1>3. ASSUME NEW c \in Caller, Registers(c)
      PROVE  UniqueIds(sessions')
  <2>1. /\ sessions' \in Issued(sessions, NewUser(c), call[c].device, drawn + 3)
        /\ NewUser(c) \in Ids /\ call[c] \in Registering
    BY <1>3, RegistrationWrites
  <2>2. call[c].device \in Device
    BY <2>1 DEF Registering
  <2> QED
    BY <1>1, <1>2, <2>1, <2>2, IssuedKeepIds
<1>4. ASSUME NEW c \in Caller, LogsIn(c)
      PROVE  UniqueIds(sessions')
  <2>1. /\ sessions' \in Issued(sessions, call[c].user.id, call[c].device, drawn + 2)
        /\ call[c].user \in UserRows /\ call[c] \in LoggingIn
    BY <1>4, LoginWrites
  <2>2. call[c].device \in Device
    BY <2>1 DEF LoggingIn
  <2>3. call[c].user.id \in Ids
    BY <2>1 DEF UserRows, Ids
  <2> QED
    BY <1>1, <1>2, <2>1, <2>2, <2>3, IssuedKeepIds
<1>5. ASSUME NEW c \in Caller, Changes(c)
      PROVE  UniqueIds(sessions')
  <2>1. /\ sessions' \in Issued(RevokedOf(c), call[c].user, call[c].device, drawn + 2)
        /\ call[c].user \in Ids /\ call[c].device \in Device
    BY <1>5, ChangeWrites
  <2>2. RevokedOf(c) = RevokedIn(sessions, {s \in sessions : s.user = call[c].user})
    BY DEF RevokedOf, RevokedIn
  <2>3. /\ RevokedOf(c) \subseteq SessionRows /\ UniqueIds(RevokedOf(c))
        /\ \A s \in RevokedOf(c) : \E t \in sessions : Continues(s, t)
    BY <1>1, <2>2, RevokedKeepIds
  <2>4. \A s \in RevokedOf(c) : s.id # drawn + 2
    BY <1>2, <2>3 DEF Continues
  <2> QED
    BY <1>1, <2>1, <2>3, <2>4, IssuedKeepIds
<1>6. ASSUME NEW c \in Caller, Deletes(c)
      PROVE  UniqueIds(sessions')
  BY <1>1, <1>6, DeletionWrites DEF UniqueIds
<1>7. ASSUME NEW c \in Caller, StartSession(c)
      PROVE  UniqueIds(sessions')
  <2>1. PICK t \in sessions : sessions' = (sessions \ {t}) \cup {[t EXCEPT !.used = now]}
    BY <1>7, EntryWrites
  <2>2. [t EXCEPT !.used = now].id = t.id
    BY <1>1 DEF SessionRows
  <2> QED
    BY <1>1, <2>1, <2>2 DEF UniqueIds
<1>8. ASSUME NEW c \in Caller, Logout(c)
      PROVE  UniqueIds(sessions')
  <2>1. sessions' = RevokedIn(sessions, {s \in sessions : s.id = call[c].session})
    BY <1>8 DEF Logout, RevokedIn
  <2> QED
    BY <1>1, <2>1, RevokedKeepIds
<1>9. CASE sessions' = sessions
  BY <1>1, <1>9
<1> QED
  BY <1>3, <1>4, <1>5, <1>6, <1>7, <1>8, <1>9, StepCases DEF Quiet, CreateInvite, RevokeInvite, Write

\* What has an id has one that was drawn.
LEMMA IdsStayOld ==
    ASSUME TypesHold, RowsAreUnique, IdsAreOld, NamesAreKnown, HashesAreSeen, [Next]_vars
    PROVE  IdsAreOld'
<1>1. /\ drawn \in Nat /\ drawn' \in Nat /\ drawn' >= drawn /\ drawn' <= case.ids /\ case.ids \in Nat
      /\ users \subseteq UserRows /\ epoch \in [UserIds -> Nat] /\ case' = case
  BY CountersTyped, CaseStays, CaseAssumption DEF TypesHold
<1>2. ASSUME NEW u \in users'
      PROVE  u.id <= drawn'
  <2>1. ASSUME NEW v \in users
        PROVE  v.id <= drawn /\ v.id \in Nat
    BY <1>1 DEF IdsAreOld, UserRows
  <2>2. ASSUME NEW c \in Caller, Registers(c)
        PROVE  u.id <= drawn'
    <3>1. drawn' = drawn + 3 /\ users' = (users \ Named(call[c].name)) \cup {NewRow(c)}
      BY <2>2, RegistrationWrites
    <3>2. u \in users \/ u.id = NewUser(c)
      BY <3>1 DEF NewRow
    <3>3. u.id = drawn + 1 \/ \E v \in users : u.id = v.id
      BY <3>2, NewUserIs
    <3> QED
      BY <1>1, <2>1, <3>1, <3>3
  <2>3. CASE UsersComeFrom
    <3>1. PICK v \in users : u.id = v.id
      BY <2>3 DEF UsersComeFrom, SameUser
    <3> QED
      BY <1>1, <2>1, <3>1
  <2> QED
    BY <2>2, <2>3, UserOrigins
<1>3. ASSUME NEW u \in retired'
      PROVE  u <= drawn'
  <2>1. u \in retired \/ \E v \in users : u = v.id
    <3>1. ASSUME NEW c \in Caller, Deletes(c)
          PROVE  u \in retired \/ \E v \in users : u = v.id
      <4>1. retired' = retired \cup {call[c].user} /\ \E v \in users : v.id = call[c].user
        BY <3>1, DeletionWrites
      <4> QED
        BY <4>1
    <3>2. CASE retired' = retired
      BY <3>2
    <3>3. ASSUME NEW c \in Caller, Registers(c) \/ LogsIn(c) \/ Changes(c) \/ StartSession(c)
          PROVE  retired' = retired
      BY <3>3, RegistrationWrites, LoginWrites, ChangeWrites, EntryWrites
    <3> QED
      BY <3>1, <3>2, <3>3, StepCases DEF Quiet, CreateInvite, RevokeInvite, Write, Logout
  <2>2. u <= drawn /\ u \in Nat
    BY <1>1, <2>1 DEF IdsAreOld, TypesHold, UserRows, Ids
  <2> QED
    BY <1>1, <2>2
<1>4. ASSUME NEW s \in sessions'
      PROVE  s.id <= drawn'
  <2>1. CASE FromBefore(s)
    <3>1. PICK t \in sessions : s.id = t.id
      BY <2>1 DEF FromBefore, Follows
    <3>2. t.id <= drawn /\ t.id \in Nat
      BY DEF IdsAreOld, TypesHold, SessionRows
    <3> QED
      BY <1>1, <3>1, <3>2
  <2>2. CASE JustIssued(s)
    BY <1>1, <2>2 DEF JustIssued
  <2> QED
    BY <2>1, <2>2, SessionOrigins
<1>5. ASSUME NEW u \in UserIds'
      PROVE  epoch'[u] <= drawn'
  <2>1. u \in UserIds /\ epoch[u] <= drawn /\ epoch[u] \in Nat
    BY <1>1 DEF UserIds, IdsAreOld
  <2>2. CASE epoch' = epoch
    BY <1>1, <2>1, <2>2
  <2>3. ASSUME NEW c \in Caller, Changes(c)
        PROVE  epoch'[u] <= drawn'
    <3>1. epoch' = [epoch EXCEPT ![call[c].user] = drawn + 1] /\ drawn' = drawn + 2
      BY <2>3, ChangeWrites
    <3>2. epoch'[u] = epoch[u] \/ epoch'[u] = drawn + 1
      BY <1>1, <2>1, <3>1
    <3> QED
      BY <1>1, <2>1, <3>1, <3>2
  <2> QED
    BY <2>2, <2>3, RegistrationWrites, LoginWrites, DeletionWrites, EntryWrites, StepCases
       DEF Quiet, CreateInvite, RevokeInvite, Write, Logout, history
<1> QED
  BY <1>2, <1>3, <1>4, <1>5 DEF IdsAreOld

-----------------------------------------------------------------------------
(* Whoever is named exists or was retired.                                 *)

\* A user goes only by being retired.
LEMMA UsersLast ==
    ASSUME TypesHold, RowsAreUnique, HashesAreSeen, [Next]_vars, NEW x, \E u \in users : u.id = x
    PROVE  (\E v \in users' : v.id = x) \/ x \in retired'
<1>1. PICK u \in users : u.id = x
  OBVIOUS
<1>2. ASSUME NEW c \in Caller, Registers(c)
      PROVE  \E v \in users' : v.id = x
  <2>1. users' = (users \ Named(call[c].name)) \cup {NewRow(c)}
    BY <1>2, RegistrationWrites
  <2>2. NewRow(c).id = NewUser(c)
    BY DEF NewRow
  <2>3. u \notin Named(call[c].name) \/ NewUser(c) = u.id
    BY NewUserIs
  <2> QED
    BY <1>1, <2>1, <2>2, <2>3
<1>3. CASE UsersGoTo
  BY <1>1, <1>3 DEF UsersGoTo, SameUser
<1> QED
  BY <1>2, <1>3, UserOrigins

\* The retired stay retired.
LEMMA RetiredStay ==
    ASSUME TypesHold, HashesAreSeen, [Next]_vars
    PROVE  retired \subseteq retired'
<1>1. ASSUME NEW c \in Caller, Registers(c) \/ LogsIn(c) \/ Changes(c) \/ StartSession(c)
      PROVE  retired' = retired
  BY <1>1, RegistrationWrites, LoginWrites, ChangeWrites, EntryWrites
<1>2. ASSUME NEW c \in Caller, Deletes(c)
      PROVE  retired' = retired \cup {call[c].user}
  BY <1>2, DeletionWrites
<1> QED
  BY <1>1, <1>2, StepCases DEF Quiet, CreateInvite, RevokeInvite, Write, Logout

\* Whoever is known stays known.
LEMMA KnownStays ==
    ASSUME TypesHold, RowsAreUnique, HashesAreSeen, [Next]_vars, NEW x, Known(x)
    PROVE  Known(x)'
BY UsersLast, RetiredStay DEF Known, Exists

\* The retired do not come back, and nothing is written of them.
LEMMA RetiredAreGone ==
    ASSUME TypesHold, RowsAreUnique, IdsAreOld, NamesAreKnown, HashesAreSeen, [Next]_vars, NEW x \in retired'
    PROVE  ~Exists(x)' /\ x \notin rows'
<1>1. \A y \in retired : ~Exists(y) /\ y \notin rows
  BY DEF NamesAreKnown
<1>2. ASSUME NEW c \in Caller, Registers(c)
      PROVE  ~Exists(x)' /\ x \notin rows'
  <2>1. /\ users' = (users \ Named(call[c].name)) \cup {NewRow(c)} /\ retired' = retired /\ rows' = rows
    BY <1>2, RegistrationWrites
  <2>2. NewRow(c).id = NewUser(c)
    BY DEF NewRow
  <2>3. x # NewUser(c)
    <3>1. x <= drawn /\ x \in Nat /\ drawn \in Nat
      BY <2>1 DEF IdsAreOld, TypesHold, Ids
    <3>2. CASE NewUser(c) = drawn + 1
      BY <3>1, <3>2
    <3>3. CASE \E u \in users : NewUser(c) = u.id
      BY <1>1, <2>1, <3>3 DEF Exists
    <3> QED
      BY <3>2, <3>3, NewUserIs
  <2> QED
    BY <1>1, <2>1, <2>2, <2>3 DEF Exists
<1>3. ASSUME NEW c \in Caller, Deletes(c)
      PROVE  ~Exists(x)' /\ x \notin rows'
  <2>1. /\ retired' = retired \cup {call[c].user} /\ users' = {u \in users : u.id # call[c].user}
        /\ rows' = rows \ {call[c].user}
    BY <1>3, DeletionWrites
  <2> QED
    BY <1>1, <2>1 DEF Exists
<1>4. ASSUME UsersComeFrom, retired' = retired, rows' = rows
      PROVE  ~Exists(x)' /\ x \notin rows'
  BY <1>1, <1>4 DEF Exists, UsersComeFrom, SameUser
<1>5. ASSUME NEW c \in Caller, LogsIn(c) \/ Changes(c) \/ StartSession(c)
      PROVE  retired' = retired /\ rows' = rows
  BY <1>5, LoginWrites, ChangeWrites, EntryWrites
<1>6. ASSUME NEW c \in Caller, Write(c)
      PROVE  ~Exists(x)' /\ x \notin rows'
  BY <1>1, <1>6 DEF Write, Writable, Exists
<1>7. ASSUME NEW c \in Caller, Logout(c)
      PROVE  users' = users /\ retired' = retired /\ rows' = rows
  BY <1>7 DEF Logout
<1>8. CASE users' = users /\ retired' = retired /\ rows' = rows
  BY <1>1, <1>8 DEF Exists
<1>9. (\E c \in Caller : Registers(c)) \/ UsersComeFrom
  BY UserOrigins
<1> QED
  BY <1>2, <1>3, <1>4, <1>5, <1>6, <1>7, <1>8, <1>9, StepCases DEF Quiet, CreateInvite, RevokeInvite

\* Every name of a user stays a known one.
LEMMA NamesStayKnown ==
    ASSUME TypesHold, RowsAreUnique, IdsAreOld, NamesAreKnown, HashesAreSeen, [Next]_vars
    PROVE  NamesAreKnown'
<1>1. ASSUME NEW s \in sessions'
      PROVE  Exists(s.user)'
  <2>1. CASE JustIssued(s)
    BY <2>1 DEF JustIssued, Exists
  <2>2. CASE FromBefore(s)
    <3>1. \E u \in users : u.id = s.user
      BY <2>2 DEF FromBefore, Follows, NamesAreKnown, Exists
    <3>2. (\E v \in users' : v.id = s.user) \/ s.user \in retired'
      BY <3>1, UsersLast
    <3>3. s.user \notin retired
      BY <3>1 DEF NamesAreKnown, Exists
    <3>4. ASSUME NEW c \in Caller, Deletes(c)
          PROVE  s.user \notin retired'
      BY <3>3, <3>4, DeletionWrites
    <3>5. ASSUME NEW c \in Caller, Registers(c) \/ LogsIn(c) \/ Changes(c) \/ StartSession(c)
          PROVE  retired' = retired
      BY <3>5, RegistrationWrites, LoginWrites, ChangeWrites, EntryWrites
    <3>6. s.user \notin retired'
      BY <3>3, <3>4, <3>5, StepCases DEF Quiet, CreateInvite, RevokeInvite, Write, Logout
    <3> QED
      BY <3>2, <3>6 DEF Exists
  <2> QED
    BY <2>1, <2>2, SessionOrigins
<1>2. ASSUME NEW i \in joined'
      PROVE  Known(i.user)'
  <2>1. CASE i \in joined
    BY <2>1, KnownStays DEF NamesAreKnown
  <2>2. ASSUME NEW c \in Caller, Registers(c), i \notin joined
        PROVE  Known(i.user)'
    <3>1. /\ joined' = joined \cup {NewJoin(c)}
          /\ users' = (users \ Named(call[c].name)) \cup {NewRow(c)}
      BY <2>2, RegistrationWrites
    <3>2. i.user = NewRow(c).id /\ NewRow(c) \in users'
      BY <2>2, <3>1 DEF NewJoin, NewRow
    <3> QED
      BY <3>2 DEF Known, Exists
  <2>3. ASSUME NEW c \in Caller, LogsIn(c) \/ Changes(c) \/ Deletes(c) \/ StartSession(c)
        PROVE  joined' = joined
    BY <2>3, DeletionWrites, LoginWrites, ChangeWrites, EntryWrites
  <2> QED
    BY <2>1, <2>2, <2>3, StepCases DEF Quiet, CreateInvite, RevokeInvite, Write, Logout, history
<1>3. ASSUME NEW v \in case'.users
      PROVE  Known(v.id)'
  BY CaseStays, KnownStays DEF NamesAreKnown
<1>4. ASSUME NEW c \in Caller, call'[c] \in Serving
      PROVE  Known(call[c].user)'
  <2>1. PICK x : x = call'[c].user
    OBVIOUS
  <2>2. Known(x)
    <3>1. CASE call'[c] = call[c]
      BY <1>4, <2>1, <3>1 DEF NamesAreKnown
    <3>2. CASE call'[c] = Idle
      BY <1>4, <3>2 DEF Idle, Serving, SessionOps
    <3>3. CASE Started(c)
      <4>1. ServingFrom(call'[c])
        BY <1>4, <3>3 DEF Started, LoginFrom, Registering, LoggingIn, Serving, SessionOps
      <4> QED
        BY <2>1, <4>1 DEF ServingFrom, NamesAreKnown, Known
    <3>4. CASE Progresses(c)
      BY <2>1, <3>4, Progressing DEF NamesAreKnown
    <3> QED
      BY <3>1, <3>2, <3>3, <3>4, CallCases
  <2>3. Known(x)'
    BY <2>2, KnownStays
  <2> QED
    BY <2>1, <2>3 DEF Known, Exists
<1>5. ASSUME NEW c \in Caller, call'[c] \in LoggingIn, call'[c].user # Nobody
      PROVE  Known(call[c].user.id)'
  <2>1. PICK x : x = call'[c].user.id
    OBVIOUS
  <2>2. Known(x)
    <3>1. CASE call'[c] = call[c]
      BY <1>5, <2>1, <3>1 DEF NamesAreKnown
    <3>2. CASE call'[c] = Idle
      BY <1>5, <3>2 DEF Idle, LoggingIn
    <3>3. CASE Started(c)
      <4>1. LoginFrom(call'[c])
        BY <1>5, <3>3 DEF Started, ServingFrom, Registering, LoggingIn, Serving, SessionOps
      <4> QED
        BY <1>5, <2>1, <4>1 DEF LoginFrom, Known, Exists
    <3>4. CASE Progresses(c)
      <4>1. call'[c] \in Serving
        BY <3>4, Progressing
      <4> QED
        BY <1>5, <4>1 DEF LoggingIn, Serving, SessionOps
    <3> QED
      BY <3>1, <3>2, <3>3, <3>4, CallCases
  <2>3. Known(x)'
    BY <2>2, KnownStays
  <2> QED
    BY <2>1, <2>3 DEF Known, Exists
<1>6. \A u \in retired' : ~Exists(u)' /\ u \notin rows'
  BY RetiredAreGone
<1> QED
  BY <1>1, <1>2, <1>3, <1>4, <1>5, <1>6 DEF NamesAreKnown

\* Every user's id stays the only one, and so does every session's.
LEMMA RowsStayUnique ==
    ASSUME TypesHold, RowsAreUnique, IdsAreOld, NamesAreKnown, HashesAreSeen, [Next]_vars
    PROVE  RowsAreUnique'
BY UsersStayUnique, SessionsStayUnique DEF RowsAreUnique

\* Everything keeps its type.
LEMMA TypesStay ==
    ASSUME TypesHold, HashesAreSeen, [Next]_vars
    PROVE  TypesHold'
<1>1. case' = case /\ case \in Cases /\ UserIds' = UserIds
  BY CaseStays DEF TypesHold, UserIds
<1>2. /\ drawn' \in Nat /\ drawn' <= case.ids
      /\ epoch' \in [UserIds -> Nat] /\ joined' \subseteq Joins
      /\ now' \in Nat /\ now' <= case.time
  BY CountersTyped
<1>3. users' \subseteq UserRows /\ retired' \subseteq Ids
  BY UsersTyped
<1> QED
  BY <1>1, <1>2, <1>3, CallsTyped, SessionsTyped, CodesTyped, FailuresTyped, ExportsTyped DEF TypesHold

\* What the other invariants rest on.
Grounds == TypesHold /\ RowsAreUnique /\ IdsAreOld /\ NamesAreKnown /\ HashesAreSeen

\* What the database may hold at first, conjunct by conjunct.
LEMMA StartRows ==
    ASSUME NEW k \in Cases
    PROVE  /\ k.time \in Nat /\ k.ids \in Nat
           /\ IsFiniteSet(k.users) /\ k.users \subseteq UserRows
           /\ IsFiniteSet(k.sessions) /\ k.sessions \subseteq SessionRows
           /\ Cardinality(k.users) + Cardinality(k.sessions) <= k.ids
           /\ \A u \in k.users : u.id <= Cardinality(k.users) + Cardinality(k.sessions)
           /\ \A s \in k.sessions : s.id <= Cardinality(k.users) + Cardinality(k.sessions)
           /\ \A u \in k.users : u.hash # Nobody => u.hash.salt \in 1..k.ids
           /\ \A u, v \in k.users : u.id = v.id \/ u.name = v.name => u = v
           /\ \A s \in k.sessions : \E u \in k.users : u.id = s.user
           /\ \A s, t \in k.sessions : s.id = t.id => s = t
           /\ k.codes \in [Code -> CodeRows]
BY StartAssumption, CaseAssumption

\* The database holds at first what the invariants ask for.
LEMMA GroundsInit == Init => Grounds
<1> SUFFICES ASSUME Init PROVE Grounds
  OBVIOUS
<1>1. /\ case \in Cases /\ now = 0 /\ drawn = Cardinality(case.users) + Cardinality(case.sessions)
      /\ users = case.users /\ retired = {} /\ sessions = case.sessions
      /\ codes = [c \in Code |-> case.codes[c]]
      /\ failures = [n \in Name |-> Nobody] /\ lease = Nobody /\ spools = {}
      /\ call = [c \in Caller |-> Idle] /\ joined = {}
      /\ epoch = [u \in UserIds |-> 0] /\ guesses = [n \in Name |-> 0]
  BY DEF Init
<1>2. drawn \in Nat /\ drawn <= case.ids
  <2>1. Cardinality(case.users) \in Nat /\ Cardinality(case.sessions) \in Nat
    BY <1>1, StartRows, FS_CardinalityType
  <2> QED
    BY <1>1, <2>1, StartRows
<1>3. TypesHold
  <2>1. codes \in [Code -> CodeRows]
    BY <1>1, StartRows
  <2>2. users \subseteq UserRows /\ sessions \subseteq SessionRows /\ now <= case.time
    BY <1>1, StartRows
  <2>3. call \in [Caller -> Requests]
    BY <1>1 DEF Requests
  <2>4. epoch \in [UserIds -> Nat] /\ guesses \in [Name -> Nat]
    BY <1>1
  <2>5. failures \in [Name -> FailureRows \cup {Nobody}]
    BY <1>1
  <2> QED
    BY <1>1, <1>2, <2>1, <2>2, <2>3, <2>4, <2>5 DEF TypesHold
<1>4. RowsAreUnique
  BY <1>1, StartRows DEF RowsAreUnique
<1>5. IdsAreOld
  <2>1. \A u \in UserIds : epoch[u] = 0
    BY <1>1
  <2> QED
    BY <1>1, <1>2, <2>1, StartRows DEF IdsAreOld
<1>6. NamesAreKnown
  <2>1. Idle \notin Serving /\ Idle \notin LoggingIn
    BY DEF Idle, Serving, LoggingIn, SessionOps
  <2> QED
    BY <1>1, <2>1, StartRows DEF NamesAreKnown, Known, Exists
<1>7. HashesAreSeen
  <2>1. Idle \notin Serving
    BY DEF Idle, Serving, SessionOps
  <2> QED
    BY <1>1, <2>1 DEF HashesAreSeen
<1> QED
  BY <1>3, <1>4, <1>5, <1>6, <1>7 DEF Grounds

\* No step takes them away.
LEMMA GroundsStay ==
    ASSUME Grounds, [Next]_vars
    PROVE  Grounds'
BY TypesStay, RowsStayUnique, IdsStayOld, NamesStayKnown, HashesStaySeen DEF Grounds

\* The types, the unique indexes, the order of the ids and the references between the
\* tables hold in every behaviour.
THEOREM RecordsStayInOrder == Spec => []Grounds
<1>1. Grounds /\ [Next]_vars => Grounds'
  BY GroundsStay
<1> QED
  BY GroundsInit, <1>1, PTL DEF Spec

-----------------------------------------------------------------------------
(* The password in force.                                                  *)

\* The password is changed, and the account deleted, only by a request that was given
\* the password of the row as it is in that transaction (change_account_password and
\* delete_account compare the hash they verified with the one in the row).
THEOREM PasswordsGuardAccounts == Spec => OnlyWithThePasswordInForce
<1>1. ASSUME Grounds, [Next]_vars, NEW u \in users,
             epoch'[u.id] # epoch[u.id] \/ u.id \in retired' \ retired
      PROVE  \E c \in Caller : /\ call[c] # Idle /\ call'[c] = Idle
                              /\ call[c].op \in {"change", "delete"}
                              /\ call[c].user = u.id
                              /\ call[c].word = u.hash.word
  <2>1. ASSUME NEW c \in Caller, call[c].user = u.id, call[c].op \in {"change", "delete"},
               call'[c] = Idle,
               \E v \in users : v.id = call[c].user /\ v.hash = call[c].seen,
               call[c].seen.word = call[c].word
        PROVE  /\ call[c] # Idle /\ call'[c] = Idle
               /\ call[c].op \in {"change", "delete"}
               /\ call[c].user = u.id
               /\ call[c].word = u.hash.word
    BY <1>1, <2>1 DEF Grounds, RowsAreUnique, Idle
  <2>2. ASSUME NEW c \in Caller, Changes(c)
        PROVE  /\ call[c].user = u.id /\ call[c].op \in {"change", "delete"} /\ call'[c] = Idle
               /\ \E v \in users : v.id = call[c].user /\ v.hash = call[c].seen
               /\ call[c].seen.word = call[c].word
    <3>1. /\ epoch' = [epoch EXCEPT ![call[c].user] = drawn + 1] /\ retired' = retired
          /\ call[c].op = "change" /\ call'[c] = Idle
          /\ \E v \in users : v.id = call[c].user /\ v.hash = call[c].seen
          /\ call[c].seen.word = call[c].word
      BY <1>1, <2>2, ChangeWrites DEF Grounds
    <3>2. epoch \in [UserIds -> Nat]
      BY <1>1 DEF Grounds, TypesHold
    <3>3. u.id \in UserIds
      <4>1. u.id \in Nat \ {0} /\ u.id <= drawn /\ drawn <= case.ids /\ drawn \in Nat /\ case.ids \in Nat
        BY <1>1, CaseAssumption DEF Grounds, TypesHold, UserRows, IdsAreOld
      <4> QED
        BY <4>1 DEF UserIds
    <3> QED
      BY <1>1, <3>1, <3>2, <3>3
  <2>3. ASSUME NEW c \in Caller, Deletes(c)
        PROVE  /\ call[c].user = u.id /\ call[c].op \in {"change", "delete"} /\ call'[c] = Idle
               /\ \E v \in users : v.id = call[c].user /\ v.hash = call[c].seen
               /\ call[c].seen.word = call[c].word
    <3>1. /\ epoch' = epoch /\ retired' = retired \cup {call[c].user}
          /\ call[c].op = "delete" /\ call'[c] = Idle
          /\ \E v \in users : v.id = call[c].user /\ v.hash = call[c].seen
          /\ call[c].seen.word = call[c].word
      BY <1>1, <2>3, DeletionWrites DEF Grounds
    <3> QED
      BY <1>1, <3>1
  <2>4. ASSUME NEW c \in Caller, Registers(c) \/ LogsIn(c) \/ StartSession(c)
        PROVE  epoch' = epoch /\ retired' = retired
    BY <1>1, <2>4, RegistrationWrites, LoginWrites, EntryWrites DEF Grounds
  <2>5. \E c \in Caller : Changes(c) \/ Deletes(c)
    BY <1>1, <2>4, StepCases DEF Quiet, CreateInvite, RevokeInvite, Write, Logout, history
  <2> QED
    BY <2>1, <2>2, <2>3, <2>5
<1>2. Grounds /\ [Next]_vars =>
        [\A u \in users :
          (epoch'[u.id] # epoch[u.id] \/ u.id \in retired' \ retired) =>
              \E c \in Caller : /\ call[c] # Idle /\ call'[c] = Idle
                               /\ call[c].op \in {"change", "delete"}
                               /\ call[c].user = u.id
                               /\ call[c].word = u.hash.word]_vars
  BY <1>1
<1> QED
  BY RecordsStayInOrder, <1>2, PTL DEF Spec, OnlyWithThePasswordInForce

-----------------------------------------------------------------------------
(* Codes.                                                                  *)

\* The user of a used code exists, or is a retired one under its marker.
Placed(by) == by \in Int /\ (Exists(by) \/ -by \in retired)

\* The user of a code stays, or is marked when deleted.
LEMMA PlacedStay ==
    ASSUME Grounds, [Next]_vars, NEW by, Placed(by), ~\E c \in Caller : Deletes(c)
    PROVE  Placed(by)'
<1>1. ASSUME NEW c \in Caller, Registers(c) \/ LogsIn(c) \/ Changes(c) \/ StartSession(c)
      PROVE  retired' = retired
  BY <1>1, RegistrationWrites, LoginWrites, ChangeWrites, EntryWrites DEF Grounds
<1>2. retired' = retired
  BY <1>1, StepCases DEF Quiet, CreateInvite, RevokeInvite, Write, Logout
<1>3. Exists(by) => Exists(by)'
  <2>1. ASSUME Exists(by)
        PROVE  Exists(by)'
    <3>1. \E u \in users : u.id = by
      BY <2>1 DEF Exists
    <3>2. by \notin retired
      BY <2>1 DEF Grounds, NamesAreKnown
    <3>3. \E v \in users' : v.id = by
      BY <1>2, <3>1, <3>2, UsersLast DEF Grounds
    <3> QED
      BY <3>3 DEF Exists
  <2> QED
    BY <2>1
<1> QED
  BY <1>2, <1>3 DEF Placed

\* Used codes stay used, and are of somebody.
LEMMA UsedCodesStay ==
    ASSUME Grounds, CodesAreAccounted, [Next]_vars, NEW k \in Code
    PROVE  /\ codes'[k].state = "used" => Placed(codes[k].by)'
           /\ codes'[k].state # "used" => codes'[k].by = Nobody
           /\ codes[k].state = "used" => codes'[k].state = "used"
<1>1. codes \in [Code -> CodeRows] /\ codes[k] \in CodeRows
  BY DEF Grounds, TypesHold
<1>2. /\ codes[k].state = "used" => Placed(codes[k].by)
      /\ codes[k].state # "used" => codes[k].by = Nobody
  BY DEF CodesAreAccounted, Placed
<1>3. ASSUME codes'[k] = codes[k], ~\E c \in Caller : Deletes(c)
      PROVE  /\ codes'[k].state = "used" => Placed(codes[k].by)'
             /\ codes'[k].state # "used" => codes'[k].by = Nobody
             /\ codes[k].state = "used" => codes'[k].state = "used"
  <2>1. PICK by : by = codes[k].by
    OBVIOUS
  <2>2. codes'[k].state = "used" => Placed(by)'
    BY <1>2, <1>3, <2>1, PlacedStay
  <2>3. codes'[k].by = by
    BY <1>3, <2>1
  <2> QED
    BY <1>2, <1>3, <2>2, <2>3 DEF Placed, Exists
<1>4. ASSUME NEW c \in Caller, Deletes(c)
      PROVE  /\ codes'[k].state = "used" => Placed(codes[k].by)'
             /\ codes'[k].state # "used" => codes'[k].by = Nobody
             /\ codes[k].state = "used" => codes'[k].state = "used"
  <2>1. /\ codes' = [m \in Code |-> MarkedCode(m, call[c].user)]
        /\ retired' = retired \cup {call[c].user}
        /\ users' = {u \in users : u.id # call[c].user}
        /\ call[c].user \in Ids
    BY <1>4, DeletionWrites DEF Grounds
  <2>2. codes'[k] = MarkedCode(k, call[c].user)
    BY <2>1
  <2>3. CASE codes[k].by = call[c].user
    <3>1. codes'[k] = [codes[k] EXCEPT !.by = -call[c].user]
      BY <2>2, <2>3 DEF MarkedCode
    <3>2. codes'[k].state = codes[k].state /\ codes'[k].by = -call[c].user
      BY <3>1, <1>1 DEF CodeRows
    <3>3. codes[k].state = "used"
      BY <1>2, <2>1, <2>3, NobodyAssumption DEF Ids
    <3>4. -call[c].user \in Int /\ -(-call[c].user) = call[c].user
      BY <2>1 DEF Ids
    <3> QED
      BY <2>1, <3>2, <3>3, <3>4 DEF Placed
  <2>4. CASE codes[k].by # call[c].user
    <3>1. codes'[k] = codes[k]
      BY <2>2, <2>4 DEF MarkedCode
    <3> QED
      BY <1>2, <2>1, <2>4, <3>1 DEF Placed, Exists
  <2> QED
    BY <2>3, <2>4
<1>5. ASSUME NEW c \in Caller, Registers(c), codes'[k] # codes[k]
      PROVE  codes'[k].state = "used" /\ Placed(codes[k].by)'
  <2>1. /\ codes' = [codes EXCEPT ![call[c].code] =
                                 [codes[call[c].code] EXCEPT !.state = "used", !.by = NewUser(c)]]
        /\ users' = (users \ Named(call[c].name)) \cup {NewRow(c)} /\ NewUser(c) \in Ids
    BY <1>5, RegistrationWrites DEF Grounds
  <2>2. codes'[k] = [codes[k] EXCEPT !.state = "used", !.by = NewUser(c)]
    BY <1>1, <1>5, <2>1
  <2>3. codes'[k].state = "used" /\ codes'[k].by = NewUser(c)
    BY <1>1, <2>2 DEF CodeRows
  <2>4. NewRow(c) \in users' /\ NewRow(c).id = NewUser(c) /\ NewUser(c) \in Int
    BY <2>1 DEF NewRow, Ids
  <2> QED
    BY <2>3, <2>4 DEF Placed, Exists
<1>6. ASSUME NEW m \in Code, CreateInvite(m) \/ RevokeInvite(m), codes'[k] # codes[k]
      PROVE  codes'[k].state # "used" /\ codes'[k].by = Nobody /\ codes[k].state # "used"
  <2>1. CASE CreateInvite(m)
    BY <1>1, <1>6, <2>1 DEF CreateInvite
  <2>2. CASE RevokeInvite(m)
    <3>1. codes' = [codes EXCEPT ![m] = [codes[m] EXCEPT !.state = "revoked"]] /\ codes[m].state = "open"
      BY <2>2 DEF RevokeInvite
    <3>2. m = k /\ codes'[k] = [codes[k] EXCEPT !.state = "revoked"]
      BY <1>1, <1>6, <3>1
    <3>3. codes'[k].state = "revoked" /\ codes'[k].by = codes[k].by
      BY <1>1, <3>2 DEF CodeRows
    <3> QED
      BY <1>2, <3>1, <3>2, <3>3
  <2> QED
    BY <1>6, <2>1, <2>2
<1>7. ASSUME NEW c \in Caller, LogsIn(c) \/ Changes(c) \/ StartSession(c)
      PROVE  codes' = codes
  BY <1>7, LoginWrites, ChangeWrites, EntryWrites DEF Grounds
<1>8. \/ codes'[k] = codes[k]
      \/ \E c \in Caller : Deletes(c) \/ Registers(c)
      \/ \E m \in Code : CreateInvite(m) \/ RevokeInvite(m)
  BY <1>7, StepCases DEF Quiet, Write, Logout
<1> QED
  BY <1>3, <1>4, <1>5, <1>6, <1>8

\* A registration uses a code that was not used.
LEMMA CodesAreFresh ==
    ASSUME Grounds, CodesAreAccounted, NEW c \in Caller, Registers(c), call[c].kind # "open"
    PROVE  /\ call[c].code \in Code /\ codes[call[c].code].state # "used"
           /\ codes'[call[c].code].state = "used"
           /\ NewJoin(c).code = call[c].code
           /\ call[c].kind = "bootstrap" => call[c].code = Bootstrap
           /\ call[c].code = Bootstrap => call[c].kind = "bootstrap"
<1>1. /\ call[c] \in Registering /\ call[c].code \in Code
      /\ codes' = [codes EXCEPT ![call[c].code] =
                      [codes[call[c].code] EXCEPT !.state = "used", !.by = NewUser(c)]]
  BY RegistrationWrites DEF Grounds
<1>2. StillGood(call[c])
  BY DEF Registers
<1>3. codes \in [Code -> CodeRows] /\ codes[call[c].code] \in CodeRows
  BY <1>1 DEF Grounds, TypesHold
<1>4. codes'[call[c].code].state = "used"
  BY <1>1, <1>3 DEF CodeRows
<1>5. call[c].kind \in {"bootstrap", "invite"} /\ (call[c].kind = "bootstrap" => call[c].code = Bootstrap)
      /\ (call[c].code = Bootstrap => call[c].kind = "bootstrap")
  BY <1>1, NobodyAssumption DEF Registering
<1>6. codes[call[c].code].state # "used"
  <2>1. CASE call[c].kind = "invite"
    BY <1>2, <2>1 DEF StillGood, Available
  <2>2. CASE call[c].kind = "bootstrap"
    <3>1. codes[call[c].code].by = Nobody
      BY <1>2, <2>2 DEF StillGood
    <3> QED
      BY <1>1, <3>1, NobodyAssumption DEF CodesAreAccounted
  <2> QED
    BY <1>5, <2>1, <2>2
<1>7. NewJoin(c).code = call[c].code
  BY DEF NewJoin
<1> QED
  BY <1>1, <1>4, <1>5, <1>6, <1>7

\* Every used code has its user and made one account.
LEMMA CodesStayAccounted ==
    ASSUME Grounds, CodesAreAccounted, [Next]_vars
    PROVE  CodesAreAccounted'
<1>1. \A k \in Code :
          /\ codes'[k].state = "used" => Placed(codes[k].by)'
          /\ codes'[k].state # "used" => codes'[k].by = Nobody
  BY UsedCodesStay
<1>2. ASSUME NEW i \in joined, i.code # NoCode
      PROVE  codes'[i.code].state = "used"
  <2>1. i.code \in Code
    BY <1>2 DEF Grounds, TypesHold, Joins
  <2> QED
    BY <1>2, <2>1, UsedCodesStay DEF CodesAreAccounted
<1>3. ASSUME NEW c \in Caller, Registers(c)
      PROVE  /\ \A i \in joined' : i.code # NoCode => codes'[i.code].state = "used"
             /\ \A i, j \in joined' : i.code = j.code /\ i.code # NoCode => i = j
  <2>1. joined' = joined \cup {NewJoin(c)}
    BY <1>3, RegistrationWrites DEF Grounds
  <2>2. CASE call[c].kind = "open"
    <3>1. NewJoin(c).code = NoCode
      BY <2>2 DEF NewJoin
    <3> QED
      BY <1>2, <2>1, <3>1 DEF CodesAreAccounted
  <2>3. CASE call[c].kind # "open"
    <3>1. /\ codes[NewJoin(c).code].state # "used"
          /\ codes'[NewJoin(c).code].state = "used"
      BY <1>3, <2>3, CodesAreFresh
    <3>2. \A i \in joined : i.code # NoCode => i.code # NewJoin(c).code
      BY <3>1 DEF CodesAreAccounted
    <3> QED
      BY <1>2, <2>1, <3>1, <3>2 DEF CodesAreAccounted
  <2> QED
    BY <2>2, <2>3
<1>4. ASSUME joined' = joined
      PROVE  /\ \A i \in joined' : i.code # NoCode => codes'[i.code].state = "used"
             /\ \A i, j \in joined' : i.code = j.code /\ i.code # NoCode => i = j
  BY <1>2, <1>4 DEF CodesAreAccounted
<1>5. ASSUME NEW c \in Caller, LogsIn(c) \/ Changes(c) \/ Deletes(c) \/ StartSession(c)
      PROVE  joined' = joined
  BY <1>5, LoginWrites, ChangeWrites, DeletionWrites, EntryWrites DEF Grounds
<1>6. /\ \A i \in joined' : i.code # NoCode => codes'[i.code].state = "used"
      /\ \A i, j \in joined' : i.code = j.code /\ i.code # NoCode => i = j
  BY <1>3, <1>4, <1>5, StepCases DEF Quiet, CreateInvite, RevokeInvite, Write, Logout, history
<1> QED
  BY <1>1, <1>6 DEF CodesAreAccounted, Placed

\* The legacy tenants stay the same ones, and they were drawn before.
LEMMA LegacyIsOld ==
    ASSUME Grounds
    PROVE  \A l \in Legacy : l <= drawn /\ l \in Nat /\ drawn \in Nat
<1>1. ASSUME NEW l \in Legacy
      PROVE  l <= drawn /\ l \in Nat /\ drawn \in Nat
  <2>1. Known(l)
    BY DEF Legacy, Grounds, NamesAreKnown
  <2>2. (\E u \in users : u.id = l) \/ l \in retired
    BY <2>1 DEF Known, Exists
  <2> QED
    BY <2>2 DEF Grounds, IdsAreOld, TypesHold, UserRows, Ids
<1> QED
  BY <1>1

\* A row whose password was set keeps one; a row that waits waits unless it is claimed.
LEMMA PasswordsLast ==
    ASSUME Grounds, LegacyIsClaimed, [Next]_vars, ~\E c \in Caller : Registers(c)
    PROVE  /\ \A v \in users' : v.hash = Nobody => v \in users
           /\ \A u \in users : u.hash = Nobody => u \in users'
<1>1. users \subseteq UserRows /\ Nobody \notin Hashes
  BY NobodyAssumption DEF Grounds, TypesHold
<1>2. ASSUME NEW h \in Hashes, NEW S, \A u \in users : u \in S => u.hash # Nobody,
             users' = {Rehashed(u, h, S) : u \in users}
      PROVE  /\ \A v \in users' : v.hash = Nobody => v \in users
             /\ \A u \in users : u.hash = Nobody => u \in users'
  <2>1. ASSUME NEW u \in users
        PROVE  /\ Rehashed(u, h, S).hash = Nobody => Rehashed(u, h, S) = u
               /\ u.hash = Nobody => Rehashed(u, h, S) = u
    BY <1>1, <1>2, Rehashing
  <2> QED
    BY <1>2, <2>1
<1>3. ASSUME NEW c \in Caller, LogsIn(c)
      PROVE  /\ \A v \in users' : v.hash = Nobody => v \in users
             /\ \A u \in users : u.hash = Nobody => u \in users'
  <2> DEFINE h == Hash(call[c].word, drawn + 1)
             S == {v \in users : v.id = call[c].user.id /\ call[c].user.hash.weak}
  <2>1. /\ h \in Hashes /\ users' = {Rehashed(u, h, S) : u \in users}
        /\ call[c] \in LoggingIn /\ call[c].user # Nobody /\ call[c].user.hash # Nobody
    BY <1>3, LoginWrites DEF Grounds
  <2>2. \A u \in users : u \in S => u.hash # Nobody
    BY <2>1 DEF LegacyIsClaimed
  <2> HIDE DEF h, S
  <2> QED
    BY <1>2, <2>1, <2>2
<1>4. ASSUME NEW c \in Caller, Changes(c)
      PROVE  /\ \A v \in users' : v.hash = Nobody => v \in users
             /\ \A u \in users : u.hash = Nobody => u \in users'
  <2> DEFINE h == Hash(call[c].new, drawn + 1)
             S == {v \in users : v.id = call[c].user}
  <2>1. /\ h \in Hashes /\ users' = {Rehashed(u, h, S) : u \in users}
        /\ \E u \in users : u.id = call[c].user /\ u.hash = call[c].seen
        /\ call[c].seen \in Hashes
    BY <1>4, ChangeWrites DEF Grounds
  <2>2. \A u \in users : u \in S => u.hash # Nobody
    BY <1>1, <2>1 DEF Grounds, RowsAreUnique
  <2> HIDE DEF h, S
  <2> QED
    BY <1>2, <2>1, <2>2
<1>5. ASSUME NEW c \in Caller, Deletes(c)
      PROVE  /\ \A v \in users' : v.hash = Nobody => v \in users
             /\ \A u \in users : u.hash = Nobody => u \in users'
  <2>1. /\ users' = {u \in users : u.id # call[c].user}
        /\ \E u \in users : u.id = call[c].user /\ u.hash = call[c].seen
        /\ call[c].seen \in Hashes
    BY <1>5, DeletionWrites DEF Grounds
  <2> QED
    BY <1>1, <2>1 DEF Grounds, RowsAreUnique
<1>6. ASSUME NEW c \in Caller, StartSession(c)
      PROVE  users' = users
  BY <1>6, EntryWrites DEF Grounds
<1>7. ASSUME users' = users
      PROVE  /\ \A v \in users' : v.hash = Nobody => v \in users
             /\ \A u \in users : u.hash = Nobody => u \in users'
  BY <1>7
<1> QED
  BY <1>3, <1>4, <1>5, <1>6, <1>7, StepCases DEF Quiet, CreateInvite, RevokeInvite, Write, Logout

\* A registration that claims a tenant has the bootstrap code, and when tenants wait
\* the bootstrap code claims one of them.
LEMMA ClaimsAreBootstraps ==
    ASSUME Grounds, CodesAreAccounted, LegacyIsClaimed, NEW c \in Caller, Registers(c)
    PROVE  /\ NewJoin(c).user \in Legacy => NewJoin(c).code = Bootstrap
           /\ NewJoin(c).code = Bootstrap /\ Legacy # {} => NewJoin(c).user \in Legacy
           /\ \A u \in Named(call[c].name) : u.hash = Nobody /\ NewJoin(c).code = Bootstrap
<1>1. NewJoin(c).user = NewUser(c)
  BY DEF NewJoin
<1>2. MayTake(call[c])
  BY DEF Registers
<1>3. TypesHold /\ RowsAreUnique
  BY DEF Grounds
<1>4. call[c].kind = "bootstrap" => NewJoin(c).code = Bootstrap
  BY CodesAreFresh
<1>5. \A u \in Named(call[c].name) : u.hash = Nobody /\ NewJoin(c).code = Bootstrap
  BY <1>2, <1>4 DEF MayTake
<1>6. ASSUME NewJoin(c).user \in Legacy
      PROVE  NewJoin(c).code = Bootstrap
  <2>1. NewUser(c) # drawn + 1
    BY <1>1, <1>6, LegacyIsOld
  <2>2. Named(call[c].name) # {}
    BY <1>3, <2>1, NewUserIs
  <2> QED
    BY <1>5, <2>2
<1>7. ASSUME NewJoin(c).code = Bootstrap, Legacy # {}
      PROVE  NewJoin(c).user \in Legacy
  <2>1. call[c].kind # "open"
    BY <1>7, NobodyAssumption DEF NewJoin, Code
  <2>2. call[c].kind = "bootstrap" /\ codes[Bootstrap].state # "used"
    BY <1>7, <2>1, CodesAreFresh
  <2>3. \A i \in joined : i.code # Bootstrap
    BY <2>2, NobodyAssumption DEF CodesAreAccounted, Code
  <2>4. PICK l \in Legacy : TRUE
    BY <1>7
  <2>5. \E u \in users : u.hash = Nobody
    BY <2>3, <2>4 DEF LegacyIsClaimed
  <2>6. Named(call[c].name) # {}
    BY <1>2, <2>2, <2>5 DEF MayTake
  <2>7. PICK u \in users : u.name = call[c].name /\ NewUser(c) = u.id /\ Named(call[c].name) = {u}
    BY <1>3, <2>6, NewUserIs
  <2>8. u.hash = Nobody
    BY <1>5, <2>7
  <2> QED
    BY <1>1, <2>7, <2>8 DEF LegacyIsClaimed
<1> QED
  BY <1>5, <1>6, <1>7

\* Legacy tenants wait until they are claimed, and only the bootstrap code claims them.
LEMMA LegacyStaysClaimed ==
    ASSUME Grounds, CodesAreAccounted, LegacyIsClaimed, [Next]_vars
    PROVE  LegacyIsClaimed'
<1>1. Legacy' = Legacy /\ Nobody \notin Hashes /\ users \subseteq UserRows /\ TypesHold
  BY CaseStays, NobodyAssumption DEF Legacy, Grounds, TypesHold
<1>2. ASSUME NEW c \in Caller, Registers(c)
      PROVE  /\ users' = (users \ Named(call[c].name)) \cup {NewRow(c)}
             /\ joined' = joined \cup {NewJoin(c)}
             /\ NewRow(c).hash \in Hashes /\ NewRow(c).hash # Nobody
  <2>1. call[c] \in Registering /\ NewRow(c) \in UserRows
        /\ users' = (users \ Named(call[c].name)) \cup {NewRow(c)} /\ joined' = joined \cup {NewJoin(c)}
    BY <1>1, <1>2, RegistrationWrites
  <2>2. call[c].word \in Word /\ drawn + 2 \in Nat
    BY <1>1, <2>1 DEF Registering, TypesHold
  <2>3. NewRow(c).hash \in Hashes
    BY <2>2 DEF NewRow, Hash, Hashes
  <2> QED
    BY <1>1, <2>1, <2>3
<1>3. ASSUME ~\E c \in Caller : Registers(c)
      PROVE  joined' = joined
  <2>1. ASSUME NEW c \in Caller, LogsIn(c) \/ Changes(c) \/ Deletes(c) \/ StartSession(c)
        PROVE  joined' = joined
    BY <2>1, LoginWrites, ChangeWrites, DeletionWrites, EntryWrites DEF Grounds
  <2> QED
    BY <1>3, <2>1, StepCases DEF Quiet, CreateInvite, RevokeInvite, Write, Logout, history
<1>4. ASSUME NEW u \in users', u.hash = Nobody
      PROVE  u.id \in Legacy
  <2>1. u \in users
    BY <1>2, <1>4, PasswordsLast
  <2> QED
    BY <1>4, <2>1 DEF LegacyIsClaimed
<1>5. ASSUME NEW l \in Legacy
      PROVE  \/ \E u \in users' : u.id = l /\ u.hash = Nobody
             \/ \E i \in joined' : i.code = Bootstrap
  <2>1. ASSUME NEW c \in Caller, Registers(c)
        PROVE  \/ \E u \in users' : u.id = l /\ u.hash = Nobody
               \/ \E i \in joined' : i.code = Bootstrap
    BY <1>2, <2>1, ClaimsAreBootstraps DEF LegacyIsClaimed
  <2>2. ASSUME ~\E c \in Caller : Registers(c)
        PROVE  \/ \E u \in users' : u.id = l /\ u.hash = Nobody
               \/ \E i \in joined' : i.code = Bootstrap
    BY <1>3, <2>2, PasswordsLast DEF LegacyIsClaimed
  <2> QED
    BY <2>1, <2>2
<1>6. /\ \A i \in joined' : i.user \in Legacy => i.code = Bootstrap
      /\ Legacy # {} => \A i \in joined' : i.code = Bootstrap => i.user \in Legacy
  <2>1. ASSUME NEW c \in Caller, Registers(c), NEW i \in joined'
        PROVE  /\ i.user \in Legacy => i.code = Bootstrap
               /\ Legacy # {} /\ i.code = Bootstrap => i.user \in Legacy
    BY <1>2, <2>1, ClaimsAreBootstraps DEF LegacyIsClaimed
  <2> QED
    BY <1>3, <2>1 DEF LegacyIsClaimed
<1>7. ASSUME NEW c \in Caller, NEW u \in users',
             call'[c] \in LoggingIn, call'[c].user # Nobody, call'[c].user.hash # Nobody,
             call'[c].user.id = u.id
      PROVE  u.hash # Nobody
  <2>1. SUFFICES ASSUME u.hash = Nobody PROVE FALSE
    OBVIOUS
  <2>2. u \in users
    BY <1>2, <2>1, PasswordsLast
  <2>3. CASE call'[c] = call[c]
    BY <1>7, <2>1, <2>2, <2>3 DEF LegacyIsClaimed
  <2>4. CASE call'[c] = Idle
    BY <1>7, <2>4 DEF Idle, LoggingIn
  <2>5. CASE Started(c)
    <3>1. LoginFrom(call'[c])
      BY <1>7, <2>5 DEF Started, ServingFrom, Registering, LoggingIn, Serving, SessionOps
    <3>2. call'[c].user \in users
      BY <1>7, <3>1 DEF LoginFrom
    <3> QED
      BY <1>7, <2>1, <2>2, <3>2 DEF Grounds, RowsAreUnique
  <2>6. CASE Progresses(c)
    <3>1. call'[c] \in Serving
      BY <1>1, <2>6, Progressing
    <3> QED
      BY <1>7, <3>1 DEF LoggingIn, Serving, SessionOps
  <2> QED
    BY <1>1, <2>3, <2>4, <2>5, <2>6, CallCases
<1> QED
  BY <1>1, <1>4, <1>5, <1>6, <1>7 DEF LegacyIsClaimed

CodesInv == Grounds /\ CodesAreAccounted /\ LegacyIsClaimed

\* They hold of the database at first.
LEMMA CodesInvInit == Init => CodesInv
<1> SUFFICES ASSUME Init PROVE CodesInv
  OBVIOUS
<1>1. Grounds
  BY GroundsInit
<1>2. case \in Cases /\ joined = {} /\ users = case.users /\ codes = [c \in Code |-> case.codes[c]]
      /\ call = [c \in Caller |-> Idle]
  BY DEF Init
<1>3. ASSUME NEW k \in Code
      PROVE  IF case.codes[k].state = "used" THEN \E u \in case.users : case.codes[k].by = u.id
             ELSE case.codes[k].by = Nobody
  BY <1>2, StartAssumption
<1>4. \A u \in users : u.id \in Int
  BY <1>1 DEF Grounds, TypesHold, UserRows
<1>5. CodesAreAccounted
  BY <1>2, <1>3, <1>4 DEF CodesAreAccounted, Exists
<1>6. Idle \notin LoggingIn
  BY DEF Idle, LoggingIn
<1>7. LegacyIsClaimed
  BY <1>2, <1>6 DEF LegacyIsClaimed, Legacy
<1> QED
  BY <1>1, <1>5, <1>7 DEF CodesInv

\* No step breaks them.
LEMMA CodesInvStays ==
    ASSUME CodesInv, [Next]_vars
    PROVE  CodesInv'
BY GroundsStay, CodesStayAccounted, LegacyStaysClaimed DEF CodesInv

\* A code makes one account and not after it was revoked, and the legacy tenants go to
\* the bootstrap code or to nobody (register_account with consume_invite and the
\* bootstrap claim, each in one transaction).
THEOREM CodesMakeOneAccount == Spec => []CodesAreHonoured
<1>1. Init => CodesInv
  BY CodesInvInit
<1>2. CodesInv /\ [Next]_vars => CodesInv'
  BY CodesInvStays
<1>3. CodesInv => CodesAreHonoured
  <2> SUFFICES ASSUME CodesInv PROVE CodesAreHonoured
    OBVIOUS
  <2>1. ASSUME NEW k \in Code, codes[k].state = "used"
        PROVE  codes[k].by # Nobody /\ (codes[k].by \in UserIds \/ -codes[k].by \in retired)
    <3>1. codes[k].by \in Int /\ (Exists(codes[k].by) \/ -codes[k].by \in retired)
      BY <2>1 DEF CodesInv, CodesAreAccounted
    <3>2. ASSUME Exists(codes[k].by)
          PROVE  codes[k].by \in UserIds
      <4>1. PICK u \in users : u.id = codes[k].by
        BY <3>2 DEF Exists
      <4>2. u.id \in Nat \ {0} /\ u.id <= drawn /\ drawn <= case.ids /\ drawn \in Nat /\ case.ids \in Nat
        BY CaseAssumption DEF CodesInv, Grounds, TypesHold, UserRows, IdsAreOld
      <4> QED
        BY <4>1, <4>2 DEF UserIds
    <3> QED
      BY <3>1, <3>2, NobodyAssumption
  <2> QED
    BY <2>1 DEF CodesInv, CodesAreAccounted, LegacyIsClaimed, CodesAreHonoured
<1> QED
  BY <1>1, <1>2, <1>3, PTL DEF Spec

-----------------------------------------------------------------------------
(* Sessions end with the password, and everything with the account.        *)

\* Sessions that live were issued after the last change of the password.
LEMMA SessionsStayCurrent ==
    ASSUME Grounds, SessionsAreCurrent, [Next]_vars
    PROVE  SessionsAreCurrent'
<1>1. /\ drawn \in Nat /\ drawn' \in Nat /\ drawn' <= case.ids /\ case.ids \in Nat
      /\ now \in Int /\ now' \in Int /\ now' >= now
      /\ epoch \in [UserIds -> Nat] /\ sessions \subseteq SessionRows /\ sessions' \subseteq SessionRows
      /\ users' \subseteq UserRows
  BY CountersTyped, SessionsTyped, UsersTyped, CaseAssumption DEF Grounds, TypesHold
<1>2. ASSUME NEW s \in sessions', ~Ended(s), s.expires > now'
      PROVE  s.id > epoch'[s.user]
  <2>1. CASE FromBefore(s)
    <3>1. PICK t \in sessions : Follows(s, t)
      BY <2>1 DEF FromBefore
    <3>2. /\ t.id = s.id /\ t.user = s.user /\ ~Ended(t) /\ t.expires = s.expires
          /\ t.expires \in Int
      BY <1>1, <1>2, <3>1 DEF Follows, SessionRows
    <3>3. Live(t)
      BY <1>1, <1>2, <3>2 DEF Live
    <3>4. epoch'[s.user] = epoch[s.user]
      BY <1>2, <2>1 DEF FromBefore
    <3> QED
      BY <3>2, <3>3, <3>4 DEF SessionsAreCurrent
  <2>2. CASE JustIssued(s)
    <3>1. s.id = drawn' /\ drawn' > drawn
      BY <2>2 DEF JustIssued
    <3>2. s.user \in UserIds
      <4>1. PICK u \in users' : u.id = s.user
        BY <2>2 DEF JustIssued
      <4>2. u.id <= drawn'
        BY IdsStayOld DEF Grounds, IdsAreOld
      <4>3. u.id \in Nat \ {0}
        BY <1>1 DEF UserRows
      <4> QED
        BY <1>1, <4>1, <4>2, <4>3 DEF UserIds
    <3>3. epoch[s.user] <= drawn /\ epoch[s.user] \in Nat
      BY <1>1, <3>2 DEF Grounds, IdsAreOld
    <3>4. epoch' = epoch \/ (epoch'[s.user] = drawn + 1 /\ drawn' = drawn + 2)
      BY <2>2 DEF JustIssued
    <3> QED
      BY <1>1, <3>1, <3>3, <3>4
  <2> QED
    BY <2>1, <2>2, SessionOrigins DEF Grounds
<1> QED
  BY <1>2 DEF SessionsAreCurrent, Live, Ended

EndsInv == CodesInv /\ SessionsAreCurrent

\* No session issued before a change of password is good after it, and of a deleted
\* account nothing comes back (change_account_password, delete_account and the
\* triggers that guard retired users).  A login that had checked the old password
\* when the change was committed still gets a session, issued after it.
THEOREM NothingComesBack == Spec => []EndedStaysEnded
<1>1. Init => CodesInv
  BY CodesInvInit
<1>2. Init => EndsInv
  <2> SUFFICES ASSUME Init PROVE SessionsAreCurrent
    BY <1>1 DEF EndsInv
  <2>1. Grounds
    BY GroundsInit
  <2>2. /\ sessions = case.sessions /\ epoch = [u \in UserIds |-> 0] /\ sessions \subseteq SessionRows
        /\ case \in Cases
    BY <2>1 DEF Init, Grounds, TypesHold
  <2>3. ASSUME NEW s \in sessions
        PROVE  s.id > epoch[s.user]
    <3>1. PICK u \in users : u.id = s.user
      BY <2>1 DEF Grounds, NamesAreKnown, Exists
    <3>2. u.id \in Nat \ {0} /\ u.id <= drawn /\ drawn <= case.ids /\ drawn \in Nat /\ case.ids \in Nat
      BY <2>1, CaseAssumption DEF Grounds, TypesHold, UserRows, IdsAreOld
    <3>3. s.user \in UserIds
      BY <3>1, <3>2 DEF UserIds
    <3>4. epoch[s.user] = 0 /\ s.id \in Nat \ {0}
      BY <2>2, <3>3 DEF SessionRows
    <3> QED
      BY <3>4
  <2> QED
    BY <2>3 DEF SessionsAreCurrent
<1>3. EndsInv /\ [Next]_vars => EndsInv'
  BY CodesInvStays, SessionsStayCurrent DEF EndsInv, CodesInv
<1>4. EndsInv => EndedStaysEnded
  <2> SUFFICES ASSUME EndsInv PROVE EndedStaysEnded
    OBVIOUS
  <2>1. ASSUME NEW u \in UserIds, u \in {i.user : i \in joined} \cup {v.id : v \in case.users}, ~Exists(u)
        PROVE  /\ u \notin rows
               /\ \A s \in sessions : s.user # u
               /\ \A k \in Code : codes[k].by # u
    <3>1. Known(u)
      BY <2>1 DEF EndsInv, CodesInv, Grounds, NamesAreKnown
    <3>2. u \in retired /\ u \notin rows /\ \A s \in sessions : s.user # u
      BY <2>1, <3>1 DEF Known, EndsInv, CodesInv, Grounds, NamesAreKnown
    <3>3. ASSUME NEW k \in Code, codes[k].by = u
          PROVE  FALSE
      <4>1. u \in Nat \ {0} /\ -u \notin Ids /\ u # Nobody
        <5>1. u \in Ids
          BY <3>2 DEF EndsInv, CodesInv, Grounds, TypesHold
        <5> QED
          BY <5>1, NobodyAssumption DEF Ids
      <4>2. Exists(u) \/ -u \in retired
        BY <3>3, <4>1 DEF EndsInv, CodesInv, CodesAreAccounted
      <4> QED
        BY <2>1, <4>1, <4>2 DEF EndsInv, CodesInv, Grounds, TypesHold
    <3> QED
      BY <3>2, <3>3
  <2>2. \A s \in sessions : Live(s) => s.id > epoch[s.user]
    BY DEF EndsInv, SessionsAreCurrent
  <2> QED
    BY <2>1, <2>2 DEF EndedStaysEnded
<1> QED
  BY <1>2, <1>3, <1>4, PTL DEF Spec

-----------------------------------------------------------------------------
(* Exports.                                                                *)

ExportOps == {"leased", "spooling", "streaming"}

\* No export starts, goes on or ends.
ExportsWait ==
    /\ spools' = spools
    /\ \A d \in Caller : \/ call'[d] = call[d]
                         \/ call[d].op \notin ExportOps /\ call'[d].op \notin ExportOps

\* Only these steps are about exports; a deletion takes the lease of its account.
LEMMA ExportCases ==
    ASSUME Grounds, [Next]_vars
    PROVE  \/ ExportsWait /\ lease' = lease
           \/ \E c \in Caller : /\ Deletes(c) /\ ExportsWait
           \/ \E c \in Caller : /\ AcquireLease(c) \/ StartSpool(c) \/ FinishSpool(c)
                                   \/ FailSpool(c) \/ FinishStream(c)
                                /\ OthersKept(c)
           \/ Crash
<1>1. TypesHold /\ call \in [Caller -> Requests]
  BY DEF Grounds, TypesHold
<1>2. ASSUME NEW c \in Caller, OthersKept(c), call[c].op \notin ExportOps, call'[c].op \notin ExportOps,
             spools' = spools
      PROVE  ExportsWait
  BY <1>2 DEF ExportsWait, OthersKept
<1>3. ASSUME NEW c \in Caller,
             \/ \E n \in case.names, w \in case.words, d \in case.devices :
                   \/ Login(c, n, w, d)
                   \/ \E k \in Code \cup {NoCode} : Register(c, n, w, d, k)
             \/ StartSession(c)
      PROVE  ExportsWait /\ lease' = lease
  <2>1. Started(c) /\ OthersKept(c)
    BY <1>1, <1>3, Starting
  <2>2. call[c].op \notin ExportOps
    BY <2>1 DEF Started, Idle, ExportOps
  <2>3. call'[c].op \notin ExportOps
    BY <2>1 DEF Started, LoginFrom, ServingFrom, Registering, LoggingIn, ExportOps
  <2>4. spools' = spools /\ lease' = lease
    BY <1>1, <1>3, EntryWrites DEF Login, Register, exports
  <2> QED
    BY <1>2, <2>1, <2>2, <2>3, <2>4
<1>4. ASSUME NEW c \in Caller, Step(c),
             ~(AcquireLease(c) \/ StartSpool(c) \/ FinishSpool(c) \/ FailSpool(c) \/ FinishStream(c))
      PROVE  ExportsWait /\ (lease' = lease \/ Deletes(c))
  <2>1. OthersKept(c)
    BY <1>1, <1>4, Stepping
  <2>2. call[c].op \notin ExportOps
    BY <1>4 DEF Step, ExportOps, FinishRegister, FailLogin, FinishLogin, Write, Logout, Observe,
       ChangePassword, DeleteAccount, VerifyForExport
  <2>3. call'[c].op \notin ExportOps
    <3>1. call'[c] = Idle \/ Progresses(c)
      BY <1>1, <1>4, Stepping
    <3>2. CASE call'[c] = Idle
      BY <3>2 DEF Idle, ExportOps
    <3>3. CASE Progresses(c)
      <4>1. call[c] \in Serving
        BY <1>1, <3>3, Progressing
      <4>2. CASE call'[c] = [call[c] EXCEPT !.op = "verified"]
        BY <4>1, <4>2 DEF Serving, ExportOps
      <4>3. CASE call'[c] = [call[c] EXCEPT !.seen = UserOf(call[c].user).hash]
        BY <2>2, <4>1, <4>3 DEF Serving, ExportOps
      <4> QED
        BY <1>4, <3>3, <4>2, <4>3 DEF Progresses
    <3> QED
      BY <3>1, <3>2, <3>3
  <2>4. spools' = spools
    BY <1>4 DEF Step, Refused, FinishRegister, FailLogin, FinishLogin, Write, Logout, Observe,
       ChangePassword, DeleteAccount, VerifyForExport, exports
  <2>5. lease' = lease \/ Deletes(c)
    BY <1>4 DEF Step, Refused, FinishRegister, FailLogin, FinishLogin, Write, Logout, Observe,
       ChangePassword, DeleteAccount, VerifyForExport, exports, Deletes
  <2> QED
    BY <1>2, <2>1, <2>2, <2>3, <2>4, <2>5
<1>5. ASSUME NEW c \in Caller, Step(c)
      PROVE  OthersKept(c)
  BY <1>1, <1>5, Stepping
<1>6. ASSUME call' = call, spools' = spools, lease' = lease
      PROVE  ExportsWait /\ lease' = lease
  BY <1>6 DEF ExportsWait
<1>7. CASE UNCHANGED vars \/ Tick \/ \E k \in Code : CreateInvite(k) \/ RevokeInvite(k)
  BY <1>6, <1>7 DEF vars, exports, Tick, CreateInvite, RevokeInvite
<1> QED
  BY <1>3, <1>4, <1>5, <1>7 DEF Next

HasSpool(S, c, seen) == \E d \in S : d.by = c /\ d.made + LeaseTime >= seen

\* What ExportsHoldTheLease says of one request.
Holds(c) ==
    /\ Exporting(c) => call[c].seen \in Int /\ call[c].seen <= now + LeaseTime
    /\ Exporting(c) /\ call[c].seen > now /\ call[c].user \notin retired =>
          /\ lease # Nobody
          /\ lease.user = call[c].user
          /\ lease.by = c
          /\ lease.until = call[c].seen
    /\ Writing(c) /\ call[c].seen > now => HasSpool(spools, c, call[c].seen)

\* The exports hold the lease one by one.
LEMMA HoldsApart ==
    /\ ExportsHoldTheLease <=> /\ \A c \in Caller : Holds(c)
                               /\ \A d \in spools : d.by # Nobody => Writing(d.by)
BY DEF ExportsHoldTheLease, Holds, HasSpool

\* The lease is left, or was not this request's.
LeaseLeft(c) == lease' = lease \/ lease = Nobody \/ lease.by # c \/ lease.until # call[c].seen

\* An export that a step leaves alone keeps what it holds, if the lease, unless it is
\* another's, and its spool, unless it is too old, are left too.
LEMMA HoldsOn ==
    ASSUME Grounds, [Next]_vars, NEW c \in Caller, Holds(c), call'[c] = call[c],
           Exporting(c) /\ call[c].seen > now /\ call[c].user \notin retired' => LeaseLeft(c),
           \A seen \in Int : seen > now' /\ HasSpool(spools, c, seen) => HasSpool(spools', c, seen)
    PROVE  Holds(c)'
<1>1. now \in Int /\ now' \in Int /\ now' >= now /\ retired \subseteq retired'
  BY CountersTyped, RetiredStay DEF Grounds, TypesHold
<1>2. LeaseTime \in Nat
  BY LimitAssumption
<1>3. (Exporting(c)' <=> Exporting(c)) /\ (Writing(c)' <=> Writing(c)) /\ (Writing(c) => Exporting(c))
  BY DEF Exporting, Writing
<1>4. ASSUME Exporting(c)
      PROVE  call'[c].seen \in Int /\ call'[c].seen <= now' + LeaseTime
  <2>1. call[c].seen \in Int /\ call[c].seen <= now + LeaseTime
    BY <1>4 DEF Holds
  <2>2. call[c].seen <= now' + LeaseTime
    BY <1>1, <1>2, <2>1
  <2> QED
    BY <2>1, <2>2
<1>5. ASSUME Exporting(c), call[c].seen > now', call[c].user \notin retired'
      PROVE  /\ lease' # Nobody /\ lease'.user = call[c].user
             /\ lease'.by = c /\ lease'.until = call[c].seen
  <2>1. call[c].seen \in Int
    BY <1>5 DEF Holds
  <2>2. call[c].seen > now /\ call[c].user \notin retired
    BY <1>1, <1>5, <2>1
  <2>3. lease # Nobody /\ lease.user = call[c].user /\ lease.by = c /\ lease.until = call[c].seen
    BY <1>5, <2>2 DEF Holds
  <2>4. lease' = lease
    BY <1>5, <2>2, <2>3 DEF LeaseLeft
  <2> QED
    BY <2>3, <2>4
<1>6. ASSUME Writing(c), call[c].seen > now'
      PROVE  HasSpool(spools', c, call[c].seen)
  <2>1. call[c].seen \in Int
    BY <1>3, <1>6 DEF Holds
  <2>2. call[c].seen > now
    BY <1>1, <1>6, <2>1
  <2> QED
    BY <1>6, <2>1, <2>2 DEF Holds
<1> QED
  BY <1>3, <1>4, <1>5, <1>6 DEF Holds, HasSpool

\* A request that is not exporting holds nothing.
LEMMA HoldsIdle ==
    ASSUME NEW c \in Caller, call'[c] = Idle
    PROVE  Holds(c)'
<1>1. ~(call'[c] \in Serving)
  BY DEF Idle, Serving, SessionOps
<1> QED
  BY <1>1 DEF Holds, Exporting, Writing

\* Every export keeps what it holds.
LEMMA ExportsStayHeld ==
    ASSUME Grounds, ExportsHoldTheLease, [Next]_vars
    PROVE  ExportsHoldTheLease'
<1>1. /\ \A c \in Caller : Holds(c)
      /\ \A d \in spools : d.by # Nobody => Writing(d.by)
  BY HoldsApart
<1>2. /\ TypesHold /\ call \in [Caller -> Requests] /\ spools \subseteq Spools
      /\ now \in Int /\ now' \in Int /\ now' >= now /\ LeaseTime \in Nat /\ SweepMargin \in Nat
      /\ \A d \in Spools : d.made \in Int /\ d.by \in Caller \cup {Nobody}
      /\ Nobody \notin Caller /\ lease \in LeaseRows \cup {Nobody}
  BY CountersTyped, LimitAssumption, NobodyAssumption DEF Grounds, TypesHold, Spools
<1> DEFINE Goal == (\A c \in Caller : Holds(c)') /\ (\A d \in spools' : d.by # Nobody => Writing(d.by)')
<1>3. ASSUME ExportsWait,
             \A d \in Caller : Exporting(d) /\ call[d].seen > now /\ call[d].user \notin retired' => LeaseLeft(d)
      PROVE  Goal
  <2>1. ASSUME NEW d \in Caller
        PROVE  Holds(d)'
    <3>1. CASE call'[d] = call[d]
      BY <1>1, <1>3, <3>1, HoldsOn DEF ExportsWait
    <3>2. CASE call[d].op \notin ExportOps /\ call'[d].op \notin ExportOps
      BY <3>2 DEF Holds, Exporting, Writing, ExportOps
    <3> QED
      BY <1>3, <3>1, <3>2 DEF ExportsWait
  <2>2. ASSUME NEW d \in spools', d.by # Nobody
        PROVE  Writing(d.by)'
    <3>1. d \in spools /\ d.by \in Caller /\ Writing(d.by)
      BY <1>1, <1>2, <1>3, <2>2 DEF ExportsWait
    <3>2. \/ call'[d.by] = call[d.by]
          \/ call[d.by].op \notin ExportOps /\ call'[d.by].op \notin ExportOps
      BY <1>3, <3>1 DEF ExportsWait
    <3> QED
      BY <3>1, <3>2 DEF Writing, ExportOps
  <2> QED
    BY <2>1, <2>2
<1>4. ASSUME ExportsWait, lease' = lease
      PROVE  Goal
  <2>1. \A d \in Caller : Exporting(d) /\ call[d].seen > now /\ call[d].user \notin retired' => LeaseLeft(d)
    BY <1>4 DEF LeaseLeft
  <2> HIDE DEF Goal
  <2> QED
    BY <1>3, <1>4, <2>1
<1>5. ASSUME NEW c \in Caller, Deletes(c), ExportsWait
      PROVE  Goal
  <2>1. retired' = retired \cup {call[c].user}
        /\ lease' = IF lease # Nobody /\ lease.user = call[c].user THEN Nobody ELSE lease
    BY <1>5, DeletionWrites DEF Grounds
  <2>2. ASSUME NEW d \in Caller, Exporting(d), call[d].seen > now, call[d].user \notin retired'
        PROVE  LeaseLeft(d)
    <3>1. lease.user = call[d].user
      BY <1>1, <2>1, <2>2 DEF Holds
    <3> QED
      BY <2>1, <2>2, <3>1 DEF LeaseLeft
  <2> HIDE DEF Goal
  <2> QED
    BY <1>3, <1>5, <2>2
<1>6. ASSUME NEW c \in Caller, AcquireLease(c), OthersKept(c)
      PROVE  Goal
  <2>1. spools' = spools /\ call[c].op = "verified"
    BY <1>6 DEF AcquireLease
  <2>2. call[c] \in Serving /\ ~Exporting(c) /\ ~Writing(c)
    BY <1>2, <2>1, RequestKinds DEF SessionOps, Exporting, Writing
  <2>3. ASSUME NEW d \in spools', d.by # Nobody
        PROVE  Writing(d.by)'
    <3>1. Writing(d.by) /\ d.by \in Caller
      BY <1>1, <1>2, <2>1, <2>3
    <3>2. call'[d.by] = call[d.by]
      BY <1>6, <2>2, <3>1 DEF OthersKept
    <3> QED
      BY <3>1, <3>2 DEF Writing
  <2>4. CASE CoolingDown(call[c].user) \/ LeaseHeld
    <3>1. /\ Done(c)
          /\ lease' = IF lease # Nobody /\ lease.until <= now THEN Nobody ELSE lease
      BY <1>6, <2>4 DEF AcquireLease
    <3>2. call'[c] = Idle
      BY <1>2, <3>1 DEF Done
    <3>3. ASSUME NEW d \in Caller, d # c
          PROVE  Holds(d)'
      <4>1. call'[d] = call[d]
        BY <1>6, <3>3 DEF OthersKept
      <4>2. ASSUME Exporting(d), call[d].seen > now, call[d].user \notin retired'
            PROVE  LeaseLeft(d)
        <5>1. call[d].seen \in Int
          BY <1>1, <4>2 DEF Holds
        <5>2. lease' # lease => lease.until <= now
          BY <3>1
        <5>3. lease.until = call[d].seen => ~(lease.until <= now)
          BY <1>2, <4>2, <5>1
        <5> QED
          BY <5>2, <5>3 DEF LeaseLeft
      <4> QED
        BY <1>1, <2>1, <4>1, <4>2, HoldsOn
    <3> QED
      BY <2>3, <3>2, <3>3, HoldsIdle
  <2>5. CASE ~(CoolingDown(call[c].user) \/ LeaseHeld)
    <3>1. /\ call' = [call EXCEPT ![c].op = "leased", ![c].seen = now + LeaseTime]
          /\ lease' = [user |-> call[c].user, by |-> c, until |-> now + LeaseTime]
      BY <1>6, <2>5 DEF AcquireLease
    <3>2. now' = now
      BY <1>6 DEF AcquireLease
    <3>3. ASSUME NEW d \in Caller, d # c
          PROVE  Holds(d)'
      <4>1. call'[d] = call[d]
        BY <1>6, <3>3 DEF OthersKept
      <4>2. ASSUME Exporting(d), call[d].seen > now, call[d].user \notin retired'
            PROVE  LeaseLeft(d)
        <5>1. ~(lease # Nobody /\ lease.until > now)
          BY <2>5 DEF LeaseHeld
        <5> QED
          BY <4>2, <5>1 DEF LeaseLeft
      <4> QED
        BY <1>1, <2>1, <4>1, <4>2, HoldsOn
    <3>4. call'[c] = [call[c] EXCEPT !.op = "leased", !.seen = now + LeaseTime]
      BY <1>2, <3>1
    <3>5. /\ call'[c].op = "leased" /\ call'[c].seen = now + LeaseTime /\ call'[c].user = call[c].user
      BY <2>2, <3>4 DEF Serving
    <3>6. ~Writing(c)'
      BY <3>5 DEF Writing
    <3>7. lease' # Nobody /\ lease'.user = call'[c].user /\ lease'.by = c /\ lease'.until = call'[c].seen
      <4>1. lease'.user = call'[c].user /\ lease'.by = c /\ lease'.until = call'[c].seen
        BY <3>1, <3>5
      <4>2. lease' \in LeaseRows
        <5>1. call[c].user \in Nat \ {0} /\ now + LeaseTime \in Int
          BY <1>2, <2>2 DEF Serving, Ids
        <5> QED
          BY <3>1, <5>1 DEF LeaseRows
      <4> QED
        BY <4>1, <4>2, NobodyAssumption
    <3>8. call'[c].seen \in Int /\ call'[c].seen <= now' + LeaseTime
      BY <1>2, <3>2, <3>5
    <3>9. Holds(c)'
      BY <3>6, <3>7, <3>8 DEF Holds
    <3> QED
      BY <2>3, <3>3, <3>9
  <2> QED
    BY <2>4, <2>5
<1>7. ASSUME NEW c \in Caller, StartSpool(c), OthersKept(c)
      PROVE  Goal
  <2>1. /\ spools' = {d \in spools : ~LeftBehind(d)} \cup {[by |-> c, made |-> now]}
        /\ call' = [call EXCEPT ![c] = [call[c] EXCEPT !.op = "spooling"]]
        /\ lease' = lease /\ call[c].op = "leased" /\ now' = now
    BY <1>7 DEF StartSpool
  <2>2. call[c] \in Serving
    BY <1>2, <2>1, RequestKinds DEF SessionOps
  <2>3. call'[c] = [call[c] EXCEPT !.op = "spooling"]
    BY <1>2, <2>1
  <2>4. call'[c] \in Serving /\ call'[c].op = "spooling" /\ call'[c].seen = call[c].seen
        /\ call'[c].user = call[c].user
    BY <2>2, <2>3 DEF Serving, SessionOps
  <2>5. Exporting(c) /\ Writing(c)'
    BY <2>1, <2>2, <2>4 DEF Exporting, Writing
  <2>6. \A seen \in Int : seen > now' => \A d \in spools : d.made + LeaseTime >= seen => d \in spools'
    <3>1. ASSUME NEW seen \in Int, seen > now', NEW d \in spools, d.made + LeaseTime >= seen
          PROVE  ~LeftBehind(d)
      <4>1. d.made \in Int
        BY <1>2
      <4> QED
        BY <1>2, <2>1, <3>1, <4>1 DEF LeftBehind
    <3> QED
      BY <2>1, <3>1
  <2>7. ASSUME NEW d \in Caller, d # c
        PROVE  Holds(d)'
    <3>1. call'[d] = call[d]
      BY <1>7, <2>7 DEF OthersKept
    <3>2. \A seen \in Int : seen > now' /\ HasSpool(spools, d, seen) => HasSpool(spools', d, seen)
      BY <2>6 DEF HasSpool
    <3>3. LeaseLeft(d)
      BY <2>1 DEF LeaseLeft
    <3> QED
      BY <1>1, <3>1, <3>2, <3>3, HoldsOn
  <2>8. Holds(c)'
    <3>1. call[c].seen \in Int /\ call[c].seen <= now + LeaseTime
      BY <1>1, <2>5 DEF Holds
    <3>2. [by |-> c, made |-> now] \in spools'
      BY <2>1
    <3>3. HasSpool(spools', c, call[c].seen)
      BY <1>2, <3>1, <3>2 DEF HasSpool
    <3>4. call[c].seen > now /\ call[c].user \notin retired' =>
             lease # Nobody /\ lease.user = call[c].user /\ lease.by = c /\ lease.until = call[c].seen
      BY <1>1, <2>5, RetiredStay DEF Holds, Grounds
    <3> QED
      BY <2>1, <2>4, <3>1, <3>3, <3>4 DEF Holds, HasSpool
  <2>9. ASSUME NEW d \in spools', d.by # Nobody
        PROVE  Writing(d.by)'
    <3>1. CASE d \in spools
      <4>1. Writing(d.by) /\ d.by \in Caller
        BY <1>1, <1>2, <2>9, <3>1
      <4>2. d.by = c \/ call'[d.by] = call[d.by]
        BY <1>7, <4>1 DEF OthersKept
      <4> QED
        BY <2>5, <4>1, <4>2 DEF Writing
    <3>2. CASE d = [by |-> c, made |-> now]
      BY <2>5, <3>2
    <3> QED
      BY <2>1, <3>1, <3>2
  <2> QED
    BY <2>7, <2>8, <2>9
<1>8. ASSUME NEW c \in Caller, FinishSpool(c), OthersKept(c)
      PROVE  Goal
  <2>1. /\ spools' = spools /\ lease' = lease
        /\ call' = [call EXCEPT ![c] = [call[c] EXCEPT !.op = "streaming"]]
        /\ call[c].op = "spooling" /\ now' = now
    BY <1>8 DEF FinishSpool, exports
  <2>2. call[c] \in Serving
    BY <1>2, <2>1, RequestKinds DEF SessionOps
  <2>3. call'[c] = [call[c] EXCEPT !.op = "streaming"]
    BY <1>2, <2>1
  <2>4. call'[c] \in Serving /\ call'[c].op = "streaming" /\ call'[c].seen = call[c].seen
        /\ call'[c].user = call[c].user
    BY <2>2, <2>3 DEF Serving, SessionOps
  <2>5. Exporting(c) /\ Writing(c) /\ Writing(c)'
    BY <2>1, <2>2, <2>4 DEF Exporting, Writing
  <2>6. ASSUME NEW d \in Caller, d # c
        PROVE  Holds(d)'
    <3>1. call'[d] = call[d]
      BY <1>8, <2>6 DEF OthersKept
    <3>2. LeaseLeft(d)
      BY <2>1 DEF LeaseLeft
    <3> QED
      BY <1>1, <2>1, <3>1, <3>2, HoldsOn
  <2>7. Holds(c)'
    BY <1>1, <2>1, <2>4, <2>5, RetiredStay DEF Holds, HasSpool, Grounds
  <2>8. ASSUME NEW d \in spools', d.by # Nobody
        PROVE  Writing(d.by)'
    <3>1. Writing(d.by) /\ d.by \in Caller
      BY <1>1, <1>2, <2>1, <2>8
    <3>2. d.by = c \/ call'[d.by] = call[d.by]
      BY <1>8, <3>1 DEF OthersKept
    <3> QED
      BY <2>5, <3>1, <3>2 DEF Writing
  <2> QED
    BY <2>6, <2>7, <2>8
<1>9. ASSUME NEW c \in Caller, FailSpool(c) \/ FinishStream(c), OthersKept(c)
      PROVE  Goal
  <2>1. /\ spools' = spools \ OwnSpool(c)
        /\ lease' = IF ReleasedBy(c) THEN Nobody ELSE lease
        /\ Done(c)
    BY <1>9 DEF FailSpool, FinishStream, Release
  <2>2. call'[c] = Idle
    BY <1>2, <2>1 DEF Done
  <2>3. \A d \in spools : d.by # c => d \in spools'
    BY <2>1 DEF OwnSpool
  <2>4. ASSUME NEW d \in Caller, d # c
        PROVE  Holds(d)'
    <3>1. call'[d] = call[d]
      BY <1>9, <2>4 DEF OthersKept
    <3>2. LeaseLeft(d)
      BY <2>1, <2>4 DEF LeaseLeft, ReleasedBy
    <3>3. \A seen \in Int : seen > now' /\ HasSpool(spools, d, seen) => HasSpool(spools', d, seen)
      BY <2>3, <2>4 DEF HasSpool
    <3> QED
      BY <1>1, <3>1, <3>2, <3>3, HoldsOn
  <2>5. ASSUME NEW d \in spools', d.by # Nobody
        PROVE  Writing(d.by)'
    <3>1. d \in spools /\ d.by # c
      BY <2>1 DEF OwnSpool
    <3>2. Writing(d.by) /\ d.by \in Caller
      BY <1>1, <1>2, <2>5, <3>1
    <3>3. call'[d.by] = call[d.by]
      BY <1>9, <3>1, <3>2 DEF OthersKept
    <3> QED
      BY <3>2, <3>3 DEF Writing
  <2> QED
    BY <2>2, <2>4, <2>5, HoldsIdle
<1>10. ASSUME Crash
       PROVE  Goal
  <2>1. call' = [c \in Caller |-> Idle] /\ spools' = {[d EXCEPT !.by = Nobody] : d \in spools}
    BY <1>10 DEF Crash
  <2>2. \A d \in Spools : [d EXCEPT !.by = Nobody].by = Nobody
    BY DEF Spools
  <2>3. \A d \in spools' : d.by = Nobody
    BY <1>2, <2>1, <2>2
  <2>4. \A c \in Caller : call'[c] = Idle
    BY <2>1
  <2> QED
    BY <2>3, <2>4, HoldsIdle
<1> HIDE DEF Goal
<1>11. Goal
  BY <1>4, <1>5, <1>6, <1>7, <1>8, <1>9, <1>10, ExportCases
<1> QED
  BY <1>11 DEF Goal, ExportsHoldTheLease, Holds, HasSpool

ExportsInv == Grounds /\ ExportsHoldTheLease

\* One export at a time, unless the earlier one's time is over or its account is gone;
\* a spool that is streamed is there, and one that nobody works on was left by a crash
\* (AccountExportAdmission with the row of account_export_leases).
THEOREM ExportsTakeTurns == Spec => []OneExportAtATime
<1>1. Init => ExportsInv
  <2> SUFFICES ASSUME Init PROVE ExportsHoldTheLease
    BY GroundsInit DEF ExportsInv
  <2>1. spools = {} /\ call = [c \in Caller |-> Idle]
    BY DEF Init
  <2>2. Idle \notin Serving
    BY DEF Idle, Serving, SessionOps
  <2> QED
    BY <2>1, <2>2 DEF ExportsHoldTheLease, Exporting, Writing
<1>2. ExportsInv /\ [Next]_vars => ExportsInv'
  BY GroundsStay, ExportsStayHeld DEF ExportsInv
<1>3. ExportsInv => OneExportAtATime
  <2> SUFFICES ASSUME ExportsInv PROVE OneExportAtATime
    OBVIOUS
  <2>1. /\ call \in [Caller -> Requests] /\ now \in Int /\ spools \subseteq Spools
        /\ Nobody \notin Caller
    BY NobodyAssumption DEF ExportsInv, Grounds, TypesHold
  <2>2. ASSUME NEW c \in Caller, call[c].op \in {"leased", "spooling", "streaming"}
        PROVE  Exporting(c)
    BY <2>1, <2>2, RequestKinds DEF Exporting, SessionOps
  <2>3. ASSUME NEW c \in Caller, NEW d \in Caller, c # d, Exporting(c), Exporting(d)
        PROVE  \/ call[c].seen <= now \/ call[d].seen <= now
               \/ call[c].user \in retired \/ call[d].user \in retired
    <3>1. call[c].seen \in Int /\ call[d].seen \in Int
      BY <2>3 DEF ExportsInv, ExportsHoldTheLease
    <3>2. call[c].seen > now /\ call[c].user \notin retired => lease.by = c
      BY <2>3 DEF ExportsInv, ExportsHoldTheLease
    <3>3. call[d].seen > now /\ call[d].user \notin retired => lease.by = d
      BY <2>3 DEF ExportsInv, ExportsHoldTheLease
    <3> QED
      BY <2>1, <2>3, <3>1, <3>2, <3>3
  <2>4. ASSUME NEW c \in Caller, call[c].op = "streaming", call[c].seen > now
        PROVE  OwnSpool(c) # {}
    <3>1. Writing(c)
      BY <2>2, <2>4 DEF Writing, Exporting
    <3> QED
      BY <2>4, <3>1 DEF ExportsInv, ExportsHoldTheLease, OwnSpool
  <2>5. ASSUME NEW d \in spools, d.by # Nobody
        PROVE  call[d.by].op \in {"spooling", "streaming"}
    BY <2>5 DEF ExportsInv, ExportsHoldTheLease, Writing
  <2> QED
    BY <2>2, <2>3, <2>4, <2>5 DEF OneExportAtATime
<1> QED
  BY <1>1, <1>2, <1>3, PTL DEF Spec

-----------------------------------------------------------------------------
(* How many sessions there are.                                            *)

\* Sessions with at most one unended to a device and no more than the limits allow.
Few(S) ==
    /\ IsFiniteSet(S)
    /\ \A s, t \in S : s.user = t.user /\ s.device = t.device /\ ~Ended(s) /\ ~Ended(t) => s = t
    /\ \A u \in Ids :
          /\ Cardinality({s \in S : s.user = u}) <= HistoryLimit + DeviceLimit
          /\ Cardinality({s \in S : s.user = u /\ ~Ended(s)}) <= DeviceLimit

\* A subset of a finite set is finite and no larger than a bound of the set.
LEMMA SubsetBound ==
    ASSUME NEW S, IsFiniteSet(S), NEW T, T \subseteq S, NEW n \in Nat, Cardinality(S) <= n
    PROVE  IsFiniteSet(T) /\ Cardinality(T) <= n /\ Cardinality(T) \in Nat
<1>1. IsFiniteSet(T) /\ Cardinality(T) <= Cardinality(S)
  BY FS_Subset
<1>2. Cardinality(S) \in Nat /\ Cardinality(T) \in Nat
  BY <1>1, FS_CardinalityType
<1> QED
  BY <1>1, <1>2

\* The image of a finite set under a function is finite and no larger.
LEMMA ImageBound ==
    ASSUME NEW S, IsFiniteSet(S), NEW f, NEW n \in Nat, Cardinality(S) <= n
    PROVE  LET T == {f[s] : s \in S}
           IN  IsFiniteSet(T) /\ Cardinality(T) <= n /\ Cardinality(T) \in Nat
<1> DEFINE T == {f[s] : s \in S}
           g == [s \in S |-> f[s]]
<1>1. g \in Surjection(S, T)
  BY DEF Surjection
<1>2. IsFiniteSet(T) /\ Cardinality(T) <= Cardinality(S)
  BY <1>1, FS_Surjection
<1>3. Cardinality(S) \in Nat /\ Cardinality(T) \in Nat
  BY <1>2, FS_CardinalityType
<1> QED
  BY <1>2, <1>3

\* The limits are numbers.
LEMMA LimitsAreNumbers ==
    /\ DeviceLimit \in Nat /\ DeviceLimit - 1 \in Nat /\ HistoryLimit \in Nat
    /\ HistoryLimit + DeviceLimit \in Nat /\ SessionTime \in Nat
    /\ HistoryLimit + (DeviceLimit - 1) + 1 = HistoryLimit + DeviceLimit
    /\ (DeviceLimit - 1) + 1 = DeviceLimit
BY LimitAssumption

\* Fewer sessions are few, too.
LEMMA FewSubset ==
    ASSUME NEW S, Few(S), NEW T, T \subseteq S
    PROVE  Few(T)
<1>1. IsFiniteSet(T)
  BY FS_Subset DEF Few
<1>2. ASSUME NEW u \in Ids
      PROVE  /\ Cardinality({s \in T : s.user = u}) <= HistoryLimit + DeviceLimit
             /\ Cardinality({s \in T : s.user = u /\ ~Ended(s)}) <= DeviceLimit
  <2> DEFINE A == {s \in S : s.user = u}
             B == {s \in S : s.user = u /\ ~Ended(s)}
             C == {s \in T : s.user = u}
             D == {s \in T : s.user = u /\ ~Ended(s)}
  <2>1. A \in SUBSET S /\ B \in SUBSET S /\ C \subseteq A /\ D \subseteq B
    OBVIOUS
  <2>2. Cardinality(A) <= HistoryLimit + DeviceLimit /\ Cardinality(B) <= DeviceLimit /\ IsFiniteSet(S)
    BY DEF Few
  <2> HIDE DEF A, B, C, D
  <2>3. IsFiniteSet(A) /\ IsFiniteSet(B)
    BY <2>1, <2>2, FS_Subset
  <2>4. Cardinality(C) <= HistoryLimit + DeviceLimit
    BY <2>1, <2>2, <2>3, LimitsAreNumbers, SubsetBound
  <2>5. Cardinality(D) <= DeviceLimit
    BY <2>1, <2>2, <2>3, LimitsAreNumbers, SubsetBound
  <2> QED
    BY <2>4, <2>5 DEF C, D
<1> QED
  BY <1>1, <1>2 DEF Few

\* Sessions that are altered one by one, but for id, user and device, and never brought
\* back, stay few.
LEMMA FewAltered ==
    ASSUME NEW S, Few(S), NEW f, NEW T, T = {f[s] : s \in S},
           \A s \in S : /\ f[s].user = s.user /\ f[s].device = s.device
                        /\ ~Ended(f[s]) => ~Ended(s)
    PROVE  Few(T)
<1>1. IsFiniteSet(S)
  BY DEF Few
<1>2. IsFiniteSet(T)
  <2>1. PICK n \in Nat : n = Cardinality(S)
    BY <1>1, FS_CardinalityType
  <2>2. Cardinality(S) <= n
    BY <2>1
  <2>3. IsFiniteSet({f[s] : s \in S})
    BY <1>1, <2>2, ImageBound
  <2> QED
    BY <2>3
<1>3. ASSUME NEW s \in T, NEW t \in T, s.user = t.user, s.device = t.device, ~Ended(s), ~Ended(t)
      PROVE  s = t
  <2>1. PICK a \in S : s = f[a]
    OBVIOUS
  <2>2. PICK b \in S : t = f[b]
    OBVIOUS
  <2>3. a.user = b.user /\ a.device = b.device /\ ~Ended(a) /\ ~Ended(b)
    BY <1>3, <2>1, <2>2
  <2> QED
    BY <2>1, <2>2, <2>3 DEF Few
<1>4. ASSUME NEW u \in Ids
      PROVE  /\ Cardinality({s \in T : s.user = u}) <= HistoryLimit + DeviceLimit
             /\ Cardinality({s \in T : s.user = u /\ ~Ended(s)}) <= DeviceLimit
  <2> DEFINE A == {s \in S : s.user = u}
             B == {s \in S : s.user = u /\ ~Ended(s)}
             C == {s \in T : s.user = u}
             D == {s \in T : s.user = u /\ ~Ended(s)}
  <2>1. A \in SUBSET S /\ B \in SUBSET S /\ C \subseteq {f[s] : s \in A} /\ D \subseteq {f[s] : s \in B}
    OBVIOUS
  <2>2. Cardinality(A) <= HistoryLimit + DeviceLimit /\ Cardinality(B) <= DeviceLimit
    BY DEF Few
  <2> HIDE DEF A, B, C, D
  <2>3. IsFiniteSet(A) /\ IsFiniteSet(B)
    BY <1>1, <2>1, FS_Subset
  <2>4. IsFiniteSet({f[s] : s \in A}) /\ Cardinality({f[s] : s \in A}) <= HistoryLimit + DeviceLimit
    BY <2>2, <2>3, LimitsAreNumbers, ImageBound
  <2>5. IsFiniteSet({f[s] : s \in B}) /\ Cardinality({f[s] : s \in B}) <= DeviceLimit
    BY <2>2, <2>3, LimitsAreNumbers, ImageBound
  <2>6. Cardinality(C) <= HistoryLimit + DeviceLimit
    BY <2>1, <2>4, LimitsAreNumbers, SubsetBound
  <2>7. Cardinality(D) <= DeviceLimit
    BY <2>1, <2>5, LimitsAreNumbers, SubsetBound
  <2> QED
    BY <2>6, <2>7 DEF C, D
<1> QED
  BY <1>2, <1>3, <1>4 DEF Few

\* The newest n of a finite set are at most n of its members.
LEMMA NewestBound ==
    ASSUME NEW S, IsFiniteSet(S), NEW n \in Nat, NEW at, NEW k \in Newest(S, n, at)
    PROVE  k \subseteq S /\ IsFiniteSet(k) /\ Cardinality(k) \in Nat /\ Cardinality(k) <= n
<1>1. k \subseteq S /\ Cardinality(k) = IF Cardinality(S) <= n THEN Cardinality(S) ELSE n
  BY DEF Newest
<1>2. IsFiniteSet(k)
  BY <1>1, FS_Subset
<1>3. Cardinality(k) \in Nat /\ Cardinality(S) \in Nat
  BY <1>2, FS_CardinalityType
<1> QED
  BY <1>1, <1>2, <1>3

\* The set of a is at most n large, and that of b: together they are at most the sum.
LEMMA UnionBound ==
    ASSUME NEW S, IsFiniteSet(S), NEW T, IsFiniteSet(T), NEW m \in Nat, NEW n \in Nat,
           Cardinality(S) <= m, Cardinality(T) <= n
    PROVE  IsFiniteSet(S \cup T) /\ Cardinality(S \cup T) <= m + n
<1>1. /\ IsFiniteSet(S \cup T)
      /\ Cardinality(S \cup T) = Cardinality(S) + Cardinality(T) - Cardinality(S \cap T)
  BY FS_Union
<1>2. IsFiniteSet(S \cap T)
  BY FS_Intersection
<1>3. Cardinality(S) \in Nat /\ Cardinality(T) \in Nat /\ Cardinality(S \cap T) \in Nat
  BY <1>2, FS_CardinalityType
<1> QED
  BY <1>1, <1>3

\* Of the user's sessions the live ones that were kept, the ended ones that were kept and
\* the fresh one are left.
LEMMA IssuedCounts ==
    ASSUME NEW all, all \subseteq SessionRows, IsFiniteSet(all), now \in Int,
           NEW user \in Ids, NEW device \in Device, NEW id \in Ids,
           NEW X \in Issued(all, user, device, id)
    PROVE  \E k, h : /\ IsFiniteSet(k) /\ Cardinality(k) <= DeviceLimit - 1
                     /\ IsFiniteSet(h) /\ Cardinality(h) <= HistoryLimit
                     /\ \A s \in h : Ended(s)
                     /\ X \subseteq Others(all, user) \cup k \cup h \cup {Fresh(user, device, id)}
<1> DEFINE kept == KeptOf(all, user)
           rest == Rest(all, user, device)
<1>1. PICK k \in Choices(rest) : X \in Outcomes(all, user, device, id, rest, k)
  BY IssuedUnpacked
<1>2. PICK h \in Newest(EndedOf(Cut(rest, k)), HistoryLimit, RevokedAt(EndedOf(Cut(rest, k)))) :
            X = Others(all, user) \cup (Cut(rest, k) \ EndedOf(Cut(rest, k))) \cup h
                   \cup {Fresh(user, device, id)}
  BY <1>1 DEF Outcomes
<1>3. IsFiniteSet(kept) /\ kept \subseteq SessionRows /\ \A s \in kept : s.expires > now
  <2>1. kept \in SUBSET all /\ kept \subseteq SessionRows
    BY DEF KeptOf
  <2>2. ASSUME NEW s \in kept
        PROVE  s.expires > now
    <3>1. s.expires \in Int /\ ~(s.expires <= now)
      BY <2>1, <2>2 DEF KeptOf, Forgotten, SessionRows
    <3> QED
      BY <3>1
  <2> QED
    BY <2>1, <2>2, FS_Subset
<1>4. IsFiniteSet(rest)
  <2> DEFINE f == [s \in kept |-> IF Superseded(s, device) THEN Revoke(s) ELSE s]
  <2>1. rest = {f[s] : s \in kept}
    BY DEF Rest
  <2> HIDE DEF kept, rest, f
  <2>2. PICK n \in Nat : n = Cardinality(kept)
    BY <1>3, FS_CardinalityType
  <2>3. Cardinality(kept) <= n
    BY <2>2
  <2> QED
    BY <1>3, <2>1, <2>3, ImageBound
<1>5. \A r \in rest : ~Ended(r) => r \in LiveOf(rest)
  <2>1. ASSUME NEW r \in rest, ~Ended(r)
        PROVE  Live(r)
    <3>1. PICK s \in kept : r = (IF Superseded(s, device) THEN Revoke(s) ELSE s)
      BY DEF Rest
    <3>2. Ended(Revoke(s))
      BY <1>3, Revoking
    <3> QED
      BY <1>3, <2>1, <3>1, <3>2 DEF Live
  <2> QED
    BY <2>1 DEF LiveOf
<1>6. rest \subseteq SessionRows
  <2>1. ASSUME NEW r \in rest
        PROVE  r \in SessionRows
    <3>1. PICK s \in kept : r = (IF Superseded(s, device) THEN Revoke(s) ELSE s)
      BY DEF Rest
    <3> QED
      BY <1>3, <3>1, Revoking
  <2> QED
    BY <2>1
<1> HIDE DEF kept, rest
<1>7. IsFiniteSet(LiveOf(rest)) /\ LiveOf(rest) \subseteq rest
  BY <1>4, FS_Subset DEF LiveOf
<1>8. k \subseteq LiveOf(rest) /\ IsFiniteSet(k) /\ Cardinality(k) <= DeviceLimit - 1
  BY <1>7, NewestBound, LimitsAreNumbers DEF Choices
<1>9. IsFiniteSet(Cut(rest, k))
  <2> DEFINE f == [s \in rest |-> IF s \in LiveOf(rest) \ k THEN Revoke(s) ELSE s]
  <2>1. Cut(rest, k) = {f[s] : s \in rest}
    BY DEF Cut
  <2> HIDE DEF f
  <2>2. PICK n \in Nat : n = Cardinality(rest)
    BY <1>4, FS_CardinalityType
  <2>3. Cardinality(rest) <= n
    BY <2>2
  <2>4. IsFiniteSet({f[s] : s \in rest})
    BY <1>4, <2>3, ImageBound
  <2> QED
    BY <2>1, <2>4
<1>10. IsFiniteSet(EndedOf(Cut(rest, k)))
  BY <1>9, FS_Subset DEF EndedOf
<1>11. h \subseteq EndedOf(Cut(rest, k)) /\ IsFiniteSet(h) /\ Cardinality(h) <= HistoryLimit
  BY <1>10, NewestBound, LimitsAreNumbers
<1>12. \A s \in h : Ended(s)
  BY <1>11 DEF EndedOf
<1>13. Cut(rest, k) \ EndedOf(Cut(rest, k)) \subseteq k
  <2>1. ASSUME NEW s \in Cut(rest, k), ~Ended(s)
        PROVE  s \in k
    <3>1. PICK r \in rest : s = (IF r \in LiveOf(rest) \ k THEN Revoke(r) ELSE r)
      BY DEF Cut
    <3>2. Ended(Revoke(r))
      BY <1>6, Revoking
    <3>3. s = r /\ r \notin LiveOf(rest) \ k
      BY <2>1, <3>1, <3>2
    <3> QED
      BY <1>5, <2>1, <3>3
  <2> QED
    BY <2>1 DEF EndedOf
<1> QED
  BY <1>2, <1>8, <1>11, <1>12, <1>13

\* After one was issued, the sessions are few again.
LEMMA FewIssued ==
    ASSUME NEW all, all \subseteq SessionRows, Few(all), now \in Int,
           NEW user \in Ids, NEW device \in Device, NEW id \in Ids,
           NEW X \in Issued(all, user, device, id)
    PROVE  Few(X)
<1>1. IsFiniteSet(all)
  BY DEF Few
<1>2. PICK k, h : /\ IsFiniteSet(k) /\ Cardinality(k) <= DeviceLimit - 1
                  /\ IsFiniteSet(h) /\ Cardinality(h) <= HistoryLimit
                  /\ \A s \in h : Ended(s)
                  /\ X \subseteq Others(all, user) \cup k \cup h \cup {Fresh(user, device, id)}
  BY <1>1, IssuedCounts
<1> DEFINE new == {Fresh(user, device, id)}
<1>3. IsFiniteSet(new) /\ Cardinality(new) <= 1
  <2>1. IsFiniteSet(new) /\ Cardinality(new) = 1
    BY FS_Singleton
  <2> QED
    BY <2>1
<1> HIDE DEF new
<1>4. IsFiniteSet(k \cup new) /\ Cardinality(k \cup new) <= (DeviceLimit - 1) + 1
  BY <1>2, <1>3, LimitsAreNumbers, UnionBound
<1>5. Cardinality(k \cup new) <= DeviceLimit
  BY <1>4, LimitsAreNumbers
<1>6. IsFiniteSet(h \cup (k \cup new)) /\ Cardinality(h \cup (k \cup new)) <= HistoryLimit + DeviceLimit
  BY <1>2, <1>4, <1>5, LimitsAreNumbers, UnionBound
<1>7. Others(all, user) \subseteq all /\ \A s \in Others(all, user) : s.user # user
  BY DEF Others
<1>8. IsFiniteSet(Others(all, user))
  BY <1>1, <1>7, FS_Subset
<1>9. X \subseteq Others(all, user) \cup (h \cup (k \cup new))
  BY <1>2 DEF new
<1>10. IsFiniteSet(X)
  <2>1. IsFiniteSet(Others(all, user) \cup (h \cup (k \cup new)))
    BY <1>6, <1>8, FS_Union
  <2> QED
    BY <1>9, <2>1, FS_Subset
<1>11. \A s \in X : \/ s \in Others(all, user)
                    \/ s = Fresh(user, device, id)
                    \/ Inherited(s, all, user, device)
  BY LimitsAreNumbers, IssuedInherits
<1>12. ASSUME NEW s \in X, NEW t \in X, s.user = t.user, s.device = t.device, ~Ended(s), ~Ended(t)
       PROVE  s = t
  <2>1. Fresh(user, device, id).user = user /\ Fresh(user, device, id).device = device
    BY DEF Fresh
  <2>2. ASSUME NEW r \in X, ~Ended(r)
        PROVE  r = Fresh(user, device, id) \/ (r \in all /\ (r.user = user => r.device # device))
    <3>1. CASE r \in Others(all, user)
      BY <1>7, <3>1
    <3>2. CASE Inherited(r, all, user, device)
      BY <2>2, <3>2 DEF Inherited, Continues
    <3> QED
      BY <1>11, <3>1, <3>2
  <2> QED
    BY <1>12, <2>1, <2>2 DEF Few
<1>13. ASSUME NEW u \in Ids
       PROVE  /\ Cardinality({s \in X : s.user = u}) <= HistoryLimit + DeviceLimit
              /\ Cardinality({s \in X : s.user = u /\ ~Ended(s)}) <= DeviceLimit
  <2> DEFINE A == {s \in X : s.user = u}
             B == {s \in X : s.user = u /\ ~Ended(s)}
  <2>1. CASE u = user
    <3>1. A \subseteq h \cup (k \cup new)
      BY <1>7, <1>9, <2>1
    <3>2. B \subseteq k \cup new
      BY <1>2, <1>7, <1>9, <2>1
    <3> HIDE DEF A, B
    <3>3. Cardinality(A) <= HistoryLimit + DeviceLimit
      BY <1>6, <3>1, LimitsAreNumbers, SubsetBound
    <3>4. Cardinality(B) <= DeviceLimit
      BY <1>4, <1>5, <3>2, LimitsAreNumbers, SubsetBound
    <3> QED
      BY <3>3, <3>4 DEF A, B
  <2>2. CASE u # user
    <3> DEFINE C == {s \in all : s.user = u}
               D == {s \in all : s.user = u /\ ~Ended(s)}
    <3>1. Cardinality(C) <= HistoryLimit + DeviceLimit /\ Cardinality(D) <= DeviceLimit
      BY DEF Few
    <3>2. \A s \in X : s.user = u => s \in all
      <4>1. ASSUME NEW s \in X, s.user = u
            PROVE  s \in all
        <5>1. s # Fresh(user, device, id)
          BY <2>2, <4>1 DEF Fresh
        <5>2. ~Inherited(s, all, user, device)
          BY <2>2, <4>1 DEF Inherited, Continues
        <5> QED
          BY <1>7, <1>11, <5>1, <5>2
      <4> QED
        BY <4>1
    <3>3. A \subseteq C /\ B \subseteq D /\ C \in SUBSET all /\ D \in SUBSET all
      BY <3>2
    <3> HIDE DEF A, B, C, D
    <3>4. IsFiniteSet(C) /\ IsFiniteSet(D)
      BY <1>1, <3>3, FS_Subset
    <3>5. Cardinality(A) <= HistoryLimit + DeviceLimit
      BY <3>1, <3>3, <3>4, LimitsAreNumbers, SubsetBound
    <3>6. Cardinality(B) <= DeviceLimit
      BY <3>1, <3>3, <3>4, LimitsAreNumbers, SubsetBound
    <3> QED
      BY <3>5, <3>6 DEF A, B
  <2> QED
    BY <2>1, <2>2
<1> QED
  BY <1>10, <1>12, <1>13 DEF Few

\* An account starts with few sessions.
LEMMA FewAtFirst ==
    ASSUME NEW k \in Cases
    PROVE  Few(k.sessions)
<1>1. /\ IsFiniteSet(k.sessions) /\ k.sessions \subseteq SessionRows
      /\ \A s \in k.sessions : \E u \in k.users : u.id = s.user
  BY StartRows
<1>2. ASSUME NEW s \in k.sessions, NEW t \in k.sessions,
             s.user = t.user, s.device = t.device, ~Ended(s), ~Ended(t)
      PROVE  s = t
  BY <1>2, StartAssumption DEF Ended
<1>3. ASSUME NEW u \in Ids
      PROVE  /\ Cardinality({s \in k.sessions : s.user = u}) <= HistoryLimit + DeviceLimit
             /\ Cardinality({s \in k.sessions : s.user = u /\ ~Ended(s)}) <= DeviceLimit
  <2>1. CASE \E v \in k.users : v.id = u
    <3>1. PICK v \in k.users : v.id = u
      BY <2>1
    <3>2. /\ Cardinality({s \in k.sessions : s.user = v.id}) <= HistoryLimit + DeviceLimit
          /\ Cardinality({s \in k.sessions : s.user = v.id /\ s.revoked = Nobody}) <= DeviceLimit
      BY StartAssumption
    <3>3. {s \in k.sessions : s.user = u /\ ~Ended(s)} = {s \in k.sessions : s.user = v.id /\ s.revoked = Nobody}
      BY <3>1 DEF Ended
    <3> QED
      BY <3>1, <3>2, <3>3
  <2>2. CASE ~ \E v \in k.users : v.id = u
    <3>1. {s \in k.sessions : s.user = u} = {} /\ {s \in k.sessions : s.user = u /\ ~Ended(s)} = {}
      BY <1>1, <2>2
    <3>2. Cardinality({}) = 0
      BY FS_EmptySet
    <3>3. 0 <= HistoryLimit + DeviceLimit /\ 0 <= DeviceLimit
      BY LimitsAreNumbers
    <3> QED
      BY <3>1, <3>2, <3>3
  <2> QED
    BY <2>1, <2>2
<1> QED
  BY <1>1, <1>2, <1>3 DEF Few

\* However logins race, the sessions stay few.
LEMMA FewStay ==
    ASSUME Grounds, Few(sessions), [Next]_vars
    PROVE  Few(sessions')
<1>1. TypesHold /\ HashesAreSeen /\ sessions \subseteq SessionRows /\ now \in Int /\ drawn \in Nat
  BY DEF Grounds, TypesHold
<1>2. \A s \in SessionRows : /\ Revoke(s) \in SessionRows
                             /\ Revoke(s).user = s.user /\ Revoke(s).device = s.device
                             /\ Ended(Revoke(s))
  BY <1>1, Revoking
<1>3. ASSUME NEW S
      PROVE  RevokedIn(sessions, S) \subseteq SessionRows /\ Few(RevokedIn(sessions, S))
  <2> DEFINE f == [s \in sessions |-> IF s \in S THEN Revoke(s) ELSE s]
             T == RevokedIn(sessions, S)
  <2>1. T = {f[s] : s \in sessions}
    BY DEF RevokedIn
  <2>2. \A s \in sessions : /\ f[s].user = s.user /\ f[s].device = s.device
                            /\ ~Ended(f[s]) => ~Ended(s)
    BY <1>1, <1>2
  <2>3. T \subseteq SessionRows
    BY <1>1, <1>2 DEF RevokedIn
  <2> HIDE DEF f, T
  <2>4. Few(T)
    BY <2>1, <2>2, FewAltered
  <2> QED
    BY <2>3, <2>4 DEF T
<1>4. ASSUME NEW c \in Caller, Registers(c)
      PROVE  Few(sessions')
  <2>1. /\ sessions' \in Issued(sessions, NewUser(c), call[c].device, drawn + 3)
        /\ NewUser(c) \in Ids /\ call[c] \in Registering
    BY <1>1, <1>4, RegistrationWrites
  <2>2. call[c].device \in Device /\ drawn + 3 \in Ids
    BY <1>1, <2>1 DEF Registering, Ids
  <2> QED
    BY <1>1, <2>1, <2>2, FewIssued
<1>5. ASSUME NEW c \in Caller, LogsIn(c)
      PROVE  Few(sessions')
  <2>1. /\ sessions' \in Issued(sessions, call[c].user.id, call[c].device, drawn + 2)
        /\ call[c].user \in UserRows /\ call[c] \in LoggingIn
    BY <1>1, <1>5, LoginWrites
  <2>2. call[c].device \in Device /\ drawn + 2 \in Ids /\ call[c].user.id \in Ids
    BY <1>1, <2>1 DEF LoggingIn, Ids, UserRows
  <2> QED
    BY <1>1, <2>1, <2>2, FewIssued
<1>6. ASSUME NEW c \in Caller, Changes(c)
      PROVE  Few(sessions')
  <2>1. /\ sessions' \in Issued(RevokedOf(c), call[c].user, call[c].device, drawn + 2)
        /\ call[c].user \in Ids /\ call[c].device \in Device
    BY <1>1, <1>6, ChangeWrites
  <2>2. drawn + 2 \in Ids
    BY <1>1 DEF Ids
  <2> DEFINE S == {s \in sessions : s.user = call[c].user}
  <2>3. RevokedOf(c) \subseteq SessionRows /\ Few(RevokedOf(c))
    <3>1. RevokedOf(c) = RevokedIn(sessions, S)
      BY DEF RevokedOf, RevokedIn
    <3> HIDE DEF S
    <3> QED
      BY <1>3, <3>1
  <2> QED
    BY <1>1, <2>1, <2>2, <2>3, FewIssued
<1>7. ASSUME NEW c \in Caller, Deletes(c)
      PROVE  Few(sessions')
  <2>1. sessions' \subseteq sessions
    BY <1>1, <1>7, DeletionWrites
  <2> QED
    BY <2>1, FewSubset
<1>8. ASSUME NEW c \in Caller, StartSession(c)
      PROVE  Few(sessions')
  <2>1. PICK s \in sessions : sessions' = (sessions \ {s}) \cup {[s EXCEPT !.used = now]}
    BY <1>1, <1>8, EntryWrites
  <2> DEFINE t == [s EXCEPT !.used = now]
             f == [x \in sessions |-> IF x = s THEN t ELSE x]
  <2>2. t.user = s.user /\ t.device = s.device /\ t.revoked = s.revoked
    BY <1>1 DEF SessionRows
  <2>3. sessions' = {f[x] : x \in sessions}
    <3> HIDE DEF t
    <3>1. sessions' = (sessions \ {s}) \cup {t}
      BY <2>1 DEF t
    <3>2. \A x \in sessions : f[x] = IF x = s THEN t ELSE x
      OBVIOUS
    <3> HIDE DEF f
    <3>3. ASSUME NEW x \in sessions'
          PROVE  \E y \in sessions : x = f[y]
      BY <3>1, <3>2
    <3>4. ASSUME NEW y \in sessions
          PROVE  f[y] \in sessions'
      BY <3>1, <3>2
    <3> QED
      BY <3>3, <3>4
  <2>4. \A x \in sessions : /\ f[x].user = x.user /\ f[x].device = x.device
                            /\ ~Ended(f[x]) => ~Ended(x)
    <3> HIDE DEF t
    <3> QED
      BY <2>2 DEF Ended
  <2> HIDE DEF f
  <2> QED
    BY <2>3, <2>4, FewAltered
<1>9. ASSUME NEW c \in Caller, Logout(c)
      PROVE  Few(sessions')
  <2> DEFINE S == {s \in sessions : s.id = call[c].session}
  <2>1. sessions' = RevokedIn(sessions, S)
    BY <1>9 DEF Logout, RevokedIn
  <2> HIDE DEF S
  <2> QED
    BY <1>3, <2>1
<1>10. CASE sessions' = sessions
  BY <1>10
<1> QED
  BY <1>4, <1>5, <1>6, <1>7, <1>8, <1>9, <1>10, StepCases DEF Quiet, CreateInvite, RevokeInvite, Write

-----------------------------------------------------------------------------
(* Password work.                                                          *)

\* A set that grows by one at most, and only when there is room, keeps its bound.
LEMMA GrowthBound ==
    ASSUME NEW S, IsFiniteSet(S), NEW n \in Nat, Cardinality(S) <= n,
           NEW T, T \subseteq S \/ (Cardinality(S) < n /\ \E x : T \subseteq S \cup {x})
    PROVE  IsFiniteSet(T) /\ Cardinality(T) <= n
<1>1. CASE T \subseteq S
  BY <1>1, SubsetBound
<1>2. CASE Cardinality(S) < n /\ \E x : T \subseteq S \cup {x}
  <2>1. PICK x : T \subseteq S \cup {x}
    BY <1>2
  <2>2. Cardinality(S) \in Nat
    BY FS_CardinalityType
  <2>3. n - 1 \in Nat /\ Cardinality(S) <= n - 1 /\ (n - 1) + 1 = n
    BY <1>2, <2>2
  <2>4. IsFiniteSet({x}) /\ Cardinality({x}) <= 1
    <3>1. IsFiniteSet({x}) /\ Cardinality({x}) = 1
      BY FS_Singleton
    <3> QED
      BY <3>1
  <2>5. IsFiniteSet(S \cup {x}) /\ Cardinality(S \cup {x}) <= (n - 1) + 1
    BY <2>3, <2>4, UnionBound
  <2>6. Cardinality(S \cup {x}) <= n
    BY <2>3, <2>5
  <2> QED
    BY <2>1, <2>5, <2>6, SubsetBound
<1> QED
  BY <1>1, <1>2

\* Password work starts only in a free slot.
LEMMA HashingGrows ==
    ASSUME TypesHold, [Next]_vars
    PROVE  Hashing' \subseteq Hashing \/ (SlotFree /\ \E c : Hashing' \subseteq Hashing \cup {c})
<1>1. call \in [Caller -> Requests]
  BY DEF TypesHold
<1>2. ASSUME NEW c \in Caller, OthersKept(c)
      PROVE  Hashing' \subseteq Hashing \cup {c}
  BY <1>2 DEF Hashing, OthersKept
<1>3. ASSUME NEW c \in Caller, OthersKept(c), call'[c].op \notin {"register", "login", "change", "delete"}
      PROVE  Hashing' \subseteq Hashing
  BY <1>3 DEF Hashing, OthersKept
<1>4. ASSUME NEW c \in Caller, NEW n \in case.names, NEW w \in case.words, NEW d \in case.devices,
             Login(c, n, w, d) \/ \E k \in Code \cup {NoCode} : Register(c, n, w, d, k)
      PROVE  SlotFree /\ \E x : Hashing' \subseteq Hashing \cup {x}
  <2>1. SlotFree
    BY <1>4 DEF Login, Register
  <2>2. OthersKept(c)
    BY <1>4, Starting
  <2> QED
    BY <1>2, <2>1, <2>2
<1>5. ASSUME NEW c \in Caller, StartSession(c)
      PROVE  Hashing' \subseteq Hashing
  <2>1. OthersKept(c)
    BY <1>5, Starting
  <2>2. call'[c].seen = Nobody /\ call'[c].op \notin {"register", "login"}
    BY <1>1, <1>5 DEF StartSession, Enter, Begin
  <2> QED
    BY <2>1, <2>2 DEF Hashing, OthersKept
<1>6. ASSUME NEW c \in Caller, Step(c)
      PROVE  Hashing' \subseteq Hashing \/ (SlotFree /\ \E x : Hashing' \subseteq Hashing \cup {x})
  <2>1. OthersKept(c) /\ (call'[c] = Idle \/ Progresses(c))
    BY <1>6, Stepping
  <2>2. CASE call'[c] = Idle
    BY <1>3, <2>1, <2>2 DEF Idle
  <2>3. CASE Observe(c)
    BY <1>2, <2>1, <2>3 DEF Observe
  <2>4. CASE Progresses(c) /\ ~Observe(c)
    <3>1. call[c] \in Serving
      BY <2>4, Progressing
    <3>2. call'[c].op \in {"verified", "leased", "spooling", "streaming"}
      BY <2>4, <3>1 DEF Progresses, Serving
    <3> QED
      BY <1>3, <2>1, <3>2
  <2> QED
    BY <2>1, <2>2, <2>3, <2>4
<1>7. CASE Crash
  BY <1>7 DEF Crash, Hashing, Idle
<1>8. CASE call' = call
  BY <1>8 DEF Hashing
<1> QED
  BY <1>4, <1>5, <1>6, <1>7, <1>8 DEF Next, vars, CreateInvite, RevokeInvite, Tick

\* However requests race, no more than the slots do password work.
LEMMA SlotsStay ==
    ASSUME TypesHold, Cardinality(Hashing) <= HashSlots, [Next]_vars
    PROVE  Cardinality(Hashing') <= HashSlots
<1>1. IsFiniteSet(Hashing) /\ HashSlots \in Nat
  BY LimitAssumption, FS_Subset DEF Hashing
<1>2. PICK S : S = Hashing
  OBVIOUS
<1>3. PICK T : T = Hashing'
  OBVIOUS
<1>4. T \subseteq S \/ (Cardinality(S) < HashSlots /\ \E x : T \subseteq S \cup {x})
  BY <1>2, <1>3, HashingGrows DEF SlotFree
<1>5. Cardinality(T) <= HashSlots
  BY <1>1, <1>2, <1>4, GrowthBound
<1> QED
  BY <1>3, <1>5

\* The salts of new hashes are drawn numbers.
LEMMA SaltsStayDrawn ==
    ASSUME TypesHold, HashesAreSeen, SaltsAreDrawn, [Next]_vars
    PROVE  SaltsAreDrawn'
<1>1. case' = case /\ users \subseteq UserRows /\ drawn \in Nat
  BY CaseStays DEF TypesHold
<1>2. case.ids \in Nat
  BY CaseAssumption DEF TypesHold
<1>3. ASSUME NEW h \in Hashes, h.salt \in 1..case.ids, NEW S, users' = {Rehashed(u, h, S) : u \in users}
      PROVE  \A v \in users' : v.hash # Nobody => v.hash.salt \in 1..case.ids
  <2>1. ASSUME NEW v \in users', v.hash # Nobody
        PROVE  v.hash.salt \in 1..case.ids
    <3>1. PICK u \in users : v = Rehashed(u, h, S)
      BY <1>3
    <3>2. v.hash = h \/ v = u
      BY <1>1, <3>1, Rehashing
    <3> QED
      BY <1>3, <2>1, <3>1, <3>2 DEF SaltsAreDrawn
  <2> QED
    BY <2>1
<1>4. ASSUME NEW c \in Caller, Registers(c)
      PROVE  \A v \in users' : v.hash # Nobody => v.hash.salt \in 1..case.ids
  <2>1. users' = (users \ Named(call[c].name)) \cup {NewRow(c)} /\ drawn + 3 <= case.ids
    BY <1>4, RegistrationWrites
  <2>2. NewRow(c).hash.salt = drawn + 2
    BY DEF NewRow, Hash
  <2>3. drawn + 2 \in 1..case.ids
    BY <1>1, <1>2, <2>1
  <2> QED
    BY <2>1, <2>2, <2>3 DEF SaltsAreDrawn
<1>5. ASSUME NEW c \in Caller, LogsIn(c)
      PROVE  \A v \in users' : v.hash # Nobody => v.hash.salt \in 1..case.ids
  <2> DEFINE h == Hash(call[c].word, drawn + 1)
             S == {v \in users : v.id = call[c].user.id /\ call[c].user.hash.weak}
  <2>1. h \in Hashes /\ users' = {Rehashed(u, h, S) : u \in users} /\ drawn + 2 <= case.ids
    BY <1>5, LoginWrites
  <2>2. h.salt \in 1..case.ids
    BY <1>1, <1>2, <2>1 DEF Hash
  <2> HIDE DEF h, S
  <2> QED
    BY <1>3, <2>1, <2>2
<1>6. ASSUME NEW c \in Caller, Changes(c)
      PROVE  \A v \in users' : v.hash # Nobody => v.hash.salt \in 1..case.ids
  <2> DEFINE h == Hash(call[c].new, drawn + 1)
             S == {v \in users : v.id = call[c].user}
  <2>1. h \in Hashes /\ users' = {Rehashed(u, h, S) : u \in users} /\ drawn + 2 <= case.ids
    BY <1>6, ChangeWrites
  <2>2. h.salt \in 1..case.ids
    BY <1>1, <1>2, <2>1 DEF Hash
  <2> HIDE DEF h, S
  <2> QED
    BY <1>3, <2>1, <2>2
<1>7. ASSUME NEW c \in Caller, Deletes(c)
      PROVE  \A v \in users' : v.hash # Nobody => v.hash.salt \in 1..case.ids
  BY <1>7, DeletionWrites DEF SaltsAreDrawn
<1>8. ASSUME users' = users
      PROVE  \A v \in users' : v.hash # Nobody => v.hash.salt \in 1..case.ids
  BY <1>8 DEF SaltsAreDrawn
<1>9. \A v \in users' : v.hash # Nobody => v.hash.salt \in 1..case.ids
  BY <1>4, <1>5, <1>6, <1>7, <1>8, EntryWrites, StepCases
     DEF Quiet, CreateInvite, RevokeInvite, Write, Logout
<1> QED
  BY <1>1, <1>9 DEF SaltsAreDrawn

\* From the invariants the types that are checked follow.
LEMMA GroundsTyped ==
    ASSUME Grounds, SaltsAreDrawn, Cardinality(Hashing) <= HashSlots
    PROVE  TypeOK
<1>1. TypesHold /\ RowsAreUnique /\ IdsAreOld /\ NamesAreKnown
  BY DEF Grounds
<1>2. now \in 0..case.time /\ drawn \in 0..case.ids /\ case.ids \in Nat
  BY <1>1, CaseAssumption DEF TypesHold
<1>3. ASSUME NEW u \in users
      PROVE  /\ u.id \in UserIds /\ u.name \in Name
             /\ u.hash # Nobody => u.hash.word \in Word /\ u.hash.salt \in UserIds
             /\ Named(u.name) = {u}
  <2>1. u \in UserRows /\ u.id <= drawn /\ drawn <= case.ids /\ drawn \in Nat
    BY <1>1 DEF TypesHold, IdsAreOld
  <2>2. u.id \in UserIds
    BY <1>2, <2>1 DEF UserRows, UserIds
  <2>3. u.hash # Nobody => u.hash.word \in Word /\ u.hash.salt \in UserIds
    BY <2>1 DEF UserRows, Hashes, UserIds, SaltsAreDrawn
  <2>4. Named(u.name) = {u}
    BY <1>1 DEF Named, RowsAreUnique
  <2> QED
    BY <2>1, <2>2, <2>3, <2>4 DEF UserRows
<1>4. \A c \in Code : codes[c].state \in {"none", "open", "revoked", "used"}
  BY <1>1 DEF TypesHold, CodeRows
<1>5. \A s \in sessions : /\ Exists(s.user)
                          /\ s.device \in Device
                          /\ \A t \in sessions : t.id = s.id => t = s
  BY <1>1 DEF TypesHold, SessionRows, RowsAreUnique, NamesAreKnown
<1>6. \A n \in Name : failures[n] # Nobody => failures[n].count \in Nat
  BY <1>1 DEF TypesHold, FailureRows
<1> QED
  BY <1>2, <1>3, <1>4, <1>5, <1>6 DEF TypeOK

-----------------------------------------------------------------------------
(* Wrong passwords.                                                        *)

\* Guessers that were not locked out.
Guessers(n) == {c \in Caller : call[c] \in LoggingIn /\ call[c].name = n /\ ~call[c].locked}

Reached(n) == failures[n] # Nobody /\ failures[n].count >= FailureLimit

StillToCome(n) == IF Restarts(n, now) THEN 0 ELSE Cardinality(Guessers(n))

\* The failures on record count the guesses until the limit is reached; then the name
\* is locked for the rest of the window, and only the guesses under way are added.
Counted(n) ==
    /\ failures[n] = Nobody => guesses[n] = 0
    /\ failures[n] # Nobody => failures[n].since <= now
    /\ failures[n] # Nobody /\ ~Reached(n) => guesses[n] <= failures[n].count
    /\ Reached(n) => /\ failures[n].until >= failures[n].since + LockTime
                     /\ guesses[n] + StillToCome(n) <= FailureLimit + HashSlots - 1

GuessesAreCounted ==
    /\ \A c \in Caller : call[c] \in LoggingIn => call[c].at = now
    /\ \A n \in Name : Counted(n)

\* No login starts, and none of the counts changes.
GuessersWait ==
    /\ UNCHANGED <<failures, guesses, now>>
    /\ \A c \in Caller : call'[c] \in LoggingIn => call'[c] = call[c]

\* Only these steps are about guesses.
LEMMA GuessCases ==
    ASSUME TypesHold, [Next]_vars
    PROVE  \/ GuessersWait
           \/ Tick
           \/ \E c \in Caller : /\ OthersKept(c)
                                /\ \/ FailLogin(c)
                                   \/ LogsIn(c) /\ call'[c] = Idle
                                   \/ \E n \in Name, w \in Word, d \in Device : Login(c, n, w, d)
<1>1. call \in [Caller -> Requests] /\ call' \in [Caller -> Requests] /\ case \in Cases
  BY CallsTyped DEF TypesHold
<1>2. ASSUME NEW c \in Caller, OthersKept(c), UNCHANGED <<failures, guesses, now>>,
             call'[c].op # "login"
      PROVE  GuessersWait
  <2>1. call'[c] \notin LoggingIn
    BY <1>2 DEF LoggingIn
  <2> QED
    BY <1>2, <2>1 DEF GuessersWait, OthersKept
<1>3. ASSUME NEW c \in Caller, NEW n \in case.names, NEW w \in case.words, NEW d \in case.devices,
             NEW k \in Code \cup {NoCode}, Register(c, n, w, d, k)
      PROVE  GuessersWait
  <2>1. OthersKept(c)
    BY <1>3, Starting
  <2>2. call'[c].op = "register" /\ UNCHANGED <<failures, guesses, now>>
    BY <1>1, <1>3 DEF Register, Begin, database, history
  <2> QED
    BY <1>2, <2>1, <2>2
<1>4. ASSUME NEW c \in Caller, NEW n \in case.names, NEW w \in case.words, NEW d \in case.devices,
             Login(c, n, w, d)
      PROVE  OthersKept(c) /\ \E m \in Name, x \in Word, e \in Device : Login(c, m, x, e)
  <2>1. n \in Name /\ w \in Word /\ d \in Device
    BY <1>1, CaseAssumption
  <2>2. OthersKept(c)
    BY <1>4, Starting
  <2> QED
    BY <1>4, <2>1, <2>2
<1>5. ASSUME NEW c \in Caller, StartSession(c)
      PROVE  GuessersWait
  <2>1. OthersKept(c)
    BY <1>5, Starting
  <2>2. call'[c].op # "login" /\ UNCHANGED <<failures, guesses, now>>
    BY <1>1, <1>5 DEF StartSession, Enter, Begin, history
  <2> QED
    BY <1>2, <2>1, <2>2
<1>6. ASSUME NEW c \in Caller, Step(c)
      PROVE  \/ GuessersWait
             \/ OthersKept(c) /\ (FailLogin(c) \/ (LogsIn(c) /\ call'[c] = Idle))
  <2>1. OthersKept(c) /\ (call'[c] = Idle \/ Progresses(c))
    BY <1>6, Stepping
  <2>2. call'[c].op # "login"
    <3>1. CASE call'[c] = Idle
      BY <3>1 DEF Idle
    <3>2. CASE Progresses(c)
      <4>1. call'[c] \in Serving
        BY <3>2, Progressing
      <4> QED
        BY <4>1 DEF Serving, SessionOps
    <3> QED
      BY <2>1, <3>1, <3>2
  <2>3. CASE FailLogin(c)
    BY <2>1, <2>3
  <2>4. CASE FinishLogin(c)
    <3>1. CASE LogsIn(c)
      <4>1. call'[c] = Idle
        BY <1>1, <3>1 DEF LogsIn, FinishLogin, Done
      <4> QED
        BY <2>1, <3>1, <4>1
    <3>2. CASE ~LogsIn(c)
      <4>1. UNCHANGED <<failures, guesses, now>>
        BY <2>4, <3>2 DEF LogsIn, FinishLogin, Refused, database, history
      <4> QED
        BY <1>2, <2>1, <2>2, <4>1
    <3> QED
      BY <3>1, <3>2
  <2>5. CASE ~FailLogin(c) /\ ~FinishLogin(c)
    <3>1. UNCHANGED <<failures, guesses, now>>
      BY <1>6, <2>5 DEF Step, FinishRegister, Refused, Write, Logout, Observe, ChangePassword,
         DeleteAccount, VerifyForExport, AcquireLease, StartSpool, FinishSpool, FailSpool,
         FinishStream, database, history
    <3> QED
      BY <1>2, <2>1, <2>2, <3>1
  <2> QED
    BY <2>3, <2>4, <2>5
<1>7. CASE Crash
  <2>1. \A c \in Caller : call'[c] = Idle
    BY <1>7 DEF Crash
  <2>2. Idle \notin LoggingIn
    BY DEF Idle, LoggingIn
  <2> QED
    BY <1>7, <2>1, <2>2 DEF Crash, GuessersWait, database, history
<1>8. CASE \/ \E k \in Code : CreateInvite(k) \/ RevokeInvite(k)
           \/ UNCHANGED vars
  BY <1>8 DEF CreateInvite, RevokeInvite, vars, GuessersWait, database, history
<1> QED
  BY <1>3, <1>4, <1>5, <1>6, <1>7, <1>8 DEF Next

\* No more guess at a time than there are slots.
LEMMA GuessersBound ==
    ASSUME Cardinality(Hashing) <= HashSlots, NEW n
    PROVE  IsFiniteSet(Guessers(n)) /\ Cardinality(Guessers(n)) <= HashSlots /\ Cardinality(Guessers(n)) \in Nat
<1>1. Guessers(n) \subseteq Hashing
  BY DEF Guessers, Hashing, LoggingIn
<1>2. IsFiniteSet(Hashing) /\ HashSlots \in Nat
  BY LimitAssumption, FS_Subset DEF Hashing
<1>3. PICK S : S = Hashing
  OBVIOUS
<1>4. PICK T : T = Guessers(n)
  OBVIOUS
<1>5. IsFiniteSet(T) /\ Cardinality(T) <= HashSlots /\ Cardinality(T) \in Nat
  BY <1>1, <1>2, <1>3, <1>4, SubsetBound
<1> QED
  BY <1>4, <1>5

\* Where nothing is counted and nobody starts, fewer are still to come.
LEMMA CountedOn ==
    ASSUME TypesHold, Cardinality(Hashing) <= HashSlots, NEW n \in Name, Counted(n),
           failures'[n] = failures[n], guesses'[n] = guesses[n], now' = now,
           Guessers(n)' \subseteq Guessers(n)
    PROVE  Counted(n)'
<1>1. /\ failures[n] \in FailureRows \cup {Nobody} /\ guesses[n] \in Nat /\ now \in Int
      /\ FailureLimit \in Nat /\ HashSlots \in Nat
  BY LimitAssumption DEF TypesHold
<1>2. IsFiniteSet(Guessers(n)) /\ Cardinality(Guessers(n)) \in Nat
  BY GuessersBound
<1>3. PICK S : S = Guessers(n)
  OBVIOUS
<1>4. PICK T : T = Guessers(n)'
  OBVIOUS
<1>5. PICK a \in Nat : a = Cardinality(S)
  BY <1>2, <1>3
<1>6. IsFiniteSet(S) /\ T \subseteq S /\ Cardinality(S) <= a
  BY <1>2, <1>3, <1>4, <1>5
<1>7. Cardinality(T) <= a /\ Cardinality(T) \in Nat
  BY <1>6, SubsetBound
<1>8. Restarts(n, now)' <=> Restarts(n, now)
  BY DEF Restarts
<1>9. StillToCome(n)' <= StillToCome(n) /\ StillToCome(n)' \in Nat /\ StillToCome(n) \in Nat
  <2>1. CASE Restarts(n, now)
    BY <1>8, <2>1 DEF StillToCome
  <2>2. CASE ~Restarts(n, now)
    BY <1>3, <1>4, <1>5, <1>7, <1>8, <2>2 DEF StillToCome
  <2> QED
    BY <2>1, <2>2
<1>10. Reached(n)' <=> Reached(n)
  BY DEF Reached
<1>11. Reached(n) => guesses'[n] + StillToCome(n)' <= FailureLimit + HashSlots - 1
  <2> SUFFICES ASSUME Reached(n) PROVE guesses'[n] + StillToCome(n)' <= FailureLimit + HashSlots - 1
    OBVIOUS
  <2>1. guesses[n] + StillToCome(n) <= FailureLimit + HashSlots - 1
    BY DEF Counted
  <2> QED
    BY <1>1, <1>9, <2>1
<1> QED
  BY <1>10, <1>11 DEF Counted

\* A guess under way that fails is counted now and is not under way any more.
LEMMA CountedFailure ==
    ASSUME TypesHold, Cardinality(Hashing) <= HashSlots, [Next]_vars,
           NEW c \in Caller, FailLogin(c), OthersKept(c), call[c].at = now,
           NEW n \in Name, n = call[c].name, Counted(n)
    PROVE  Counted(n)'
<1>1. PICK r : r = call[c]
  OBVIOUS
<1>2. n = r.name
  BY <1>1
<1>3. r \in LoggingIn /\ n \in Name /\ r.locked \in BOOLEAN /\ r.at = now
  <2>1. r \in LoggingIn
    BY <1>1, RequestKinds DEF FailLogin, TypesHold
  <2> QED
    BY <1>1, <1>2, <2>1 DEF LoggingIn
<1>4. /\ failures \in [Name -> FailureRows \cup {Nobody}] /\ guesses \in [Name -> Nat]
      /\ failures[n] # Nobody => failures[n] \in FailureRows
      /\ guesses[n] \in Nat /\ now \in Int /\ now' = now
      /\ FailureLimit \in Nat \ {0} /\ HashSlots \in Nat \ {0} /\ LockTime \in Nat /\ FailureWindow \in Nat
      /\ call \in [Caller -> Requests]
  BY <1>3, LimitAssumption DEF TypesHold, FailLogin
<1>5. PICK count \in Nat \ {0} : count = Failures(r)
  BY <1>2, <1>3, <1>4 DEF Failures, Restarts, FailureRows
<1>6. PICK since \in Int : since = IF Restarts(n, now) THEN now ELSE failures[n].since
  BY <1>4 DEF Restarts, FailureRows
<1>7. PICK until \in Int : until = IF count >= FailureLimit THEN now + LockTime ELSE 0
  BY <1>4
<1>8. failures'[n] = [count |-> count, since |-> since, until |-> until]
  BY <1>1, <1>2, <1>3, <1>4, <1>5, <1>6, <1>7 DEF FailLogin
<1>9. /\ failures'[n] # Nobody
      /\ failures'[n].count = count /\ failures'[n].since = since /\ failures'[n].until = until
  <2>1. [count |-> count, since |-> since, until |-> until] \in FailureRows
    BY DEF FailureRows
  <2> QED
    BY <1>8, <2>1, NobodyAssumption
<1>10. guesses'[n] = (IF Restarts(n, now) THEN 0 ELSE guesses[n]) + (IF r.locked THEN 0 ELSE 1)
  BY <1>1, <1>2, <1>3, <1>4 DEF FailLogin
<1>11. Guessers(n)' = Guessers(n) \ {c} /\ (c \in Guessers(n) <=> ~r.locked)
  <2>1. call'[c] \notin LoggingIn
    BY <1>4 DEF FailLogin, Done, Idle, LoggingIn
  <2> QED
    BY <1>1, <1>2, <1>3, <2>1 DEF Guessers, OthersKept
<1>12. PICK S : S = Guessers(n)
  OBVIOUS
<1>13. PICK T : T = Guessers(n)'
  OBVIOUS
<1>14. IsFiniteSet(S) /\ Cardinality(S) <= HashSlots /\ Cardinality(S) \in Nat
  BY <1>12, GuessersBound
<1>15. PICK g \in Nat : g = Cardinality(S)
  BY <1>14
<1>16. Cardinality(T) = IF r.locked THEN g ELSE g - 1
  <2>1. CASE r.locked
    <3>1. T = S
      BY <1>11, <1>12, <1>13, <2>1
    <3> QED
      BY <1>15, <2>1, <3>1
  <2>2. CASE ~r.locked
    <3>1. T = S \ {c} /\ c \in S
      BY <1>11, <1>12, <1>13, <2>2
    <3>2. Cardinality(S \ {c}) = Cardinality(S) - 1
      BY <1>14, <3>1, FS_RemoveElement
    <3> QED
      BY <1>15, <2>2, <3>1, <3>2
  <2> QED
    BY <2>1, <2>2
<1>17. (r.locked \/ g > 0) /\ g <= HashSlots
  BY <1>11, <1>12, <1>14, <1>15, FS_EmptySet
<1>18. PICK h \in Nat : h = Cardinality(T)
  BY <1>15, <1>16, <1>17
<1>19. h = (IF r.locked THEN g ELSE g - 1)
  BY <1>16, <1>18
<1>20. StillToCome(n)' = 0 \/ StillToCome(n)' = h
  BY <1>13, <1>18 DEF StillToCome
<1>21. since <= now /\ (count >= FailureLimit => until >= since + LockTime)
  <2>1. since <= now
    <3>1. CASE Restarts(n, now)
      BY <1>6, <3>1, <1>4
    <3>2. CASE ~Restarts(n, now)
      <4>1. failures[n].since <= now
        BY <1>1, <1>2, <3>2 DEF Counted, Restarts
      <4> QED
        BY <1>6, <3>2, <4>1
    <3> QED
      BY <3>1, <3>2
  <2> QED
    BY <1>4, <1>7, <2>1
<1>22. PICK tried \in Nat : tried = guesses'[n]
  BY <1>4, <1>10
<1>23. /\ count < FailureLimit => tried <= count
       /\ count >= FailureLimit => tried + h <= FailureLimit + HashSlots - 1
  <2>1. CASE Restarts(n, now)
    <3>1. count = 1 /\ tried = (IF r.locked THEN 0 ELSE 1)
      BY <1>2, <1>3, <1>5, <1>10, <1>22, <2>1 DEF Failures
    <3> QED
      BY <1>4, <1>17, <1>19, <3>1
  <2>2. CASE ~Restarts(n, now)
    <3>1. failures[n] # Nobody /\ count = failures[n].count + 1 /\ failures[n].count \in Nat
      BY <1>2, <1>3, <1>4, <1>5, <2>2 DEF Failures, Restarts, FailureRows
    <3>2. PICK old \in Nat : old = failures[n].count
      BY <3>1
    <3>3. PICK before \in Nat : before = guesses[n]
      BY <1>4
    <3>4. tried = before + (IF r.locked THEN 0 ELSE 1) /\ count = old + 1
      BY <1>10, <1>22, <2>2, <3>1, <3>2, <3>3
    <3>5. CASE old < FailureLimit
      <4>1. before <= old
        BY <1>1, <1>2, <1>4, <3>1, <3>2, <3>3, <3>5 DEF Counted, Reached
      <4> QED
        BY <1>4, <1>17, <1>19, <3>4, <3>5, <4>1
    <3>6. CASE old >= FailureLimit
      <4>1. before + g <= FailureLimit + HashSlots - 1
        BY <1>1, <1>2, <1>12, <1>15, <2>2, <3>1, <3>2, <3>3, <3>6 DEF Counted, Reached, StillToCome
      <4> QED
        BY <1>4, <1>17, <1>19, <3>4, <3>6, <4>1
    <3> QED
      BY <1>4, <3>5, <3>6
  <2> QED
    BY <2>1, <2>2
<1>24. tried <= FailureLimit + HashSlots - 1 \/ count < FailureLimit
  BY <1>4, <1>23
<1>25. Counted(n)'
  <2>1. Reached(n)' <=> count >= FailureLimit
    BY <1>9 DEF Reached
  <2>2. count >= FailureLimit => guesses'[n] + StillToCome(n)' <= FailureLimit + HashSlots - 1
    BY <1>4, <1>20, <1>22, <1>23, <1>24
  <2>3. count < FailureLimit <=> ~(count >= FailureLimit)
    BY <1>4
  <2> QED
    BY <1>4, <1>9, <1>21, <1>22, <1>23, <2>1, <2>2, <2>3 DEF Counted
<1> QED
  BY <1>25

\* A new guess is not counted with the window of a lock: that is over.
LEMMA CountedStart ==
    ASSUME TypesHold, Cardinality(Hashing) <= HashSlots,
           NEW c \in Caller, NEW n \in Name, NEW w, NEW d, Login(c, n, w, d), OthersKept(c), Counted(n)
    PROVE  Counted(n)'
<1>1. /\ failures[n] # Nobody => failures[n] \in FailureRows
      /\ guesses[n] \in Nat /\ now \in Int /\ call \in [Caller -> Requests]
      /\ FailureLimit \in Nat \ {0} /\ HashSlots \in Nat \ {0} /\ LockTime \in Nat /\ FailureWindow \in Nat
      /\ LockTime >= FailureWindow
  BY LimitAssumption DEF TypesHold
<1>2. UNCHANGED <<failures, guesses, now>>
  BY DEF Login, database, history
<1>3. CASE Locked(n)
  <2>1. call'[c].locked
    BY <1>1, <1>3 DEF Login, Begin
  <2>2. Guessers(n)' \subseteq Guessers(n)
    BY <2>1 DEF Guessers, OthersKept
  <2> QED
    BY <1>2, <2>2, CountedOn
<1>4. CASE ~Locked(n)
  <2>1. (Restarts(n, now)' <=> Restarts(n, now)) /\ (Reached(n)' <=> Reached(n))
    BY <1>2 DEF Restarts, Reached
  <2>2. ASSUME Reached(n)
        PROVE  StillToCome(n)' = StillToCome(n)
    <3>1. /\ failures[n] # Nobody /\ failures[n] \in FailureRows
          /\ failures[n].until >= failures[n].since + LockTime
          /\ ~(failures[n].until > now)
      BY <1>1, <1>4, <2>2 DEF Reached, Counted, Locked
    <3>2. PICK since \in Int, until \in Int : since = failures[n].since /\ until = failures[n].until
      BY <3>1 DEF FailureRows
    <3>3. since <= now - FailureWindow
      BY <1>1, <3>1, <3>2
    <3>4. Restarts(n, now)
      BY <3>2, <3>3 DEF Restarts
    <3> QED
      BY <2>1, <3>4 DEF StillToCome
  <2> QED
    BY <1>2, <2>1, <2>2 DEF Counted
<1> QED
  BY <1>3, <1>4

\* Guesses stay counted.
LEMMA GuessesStayCounted ==
    ASSUME TypesHold, Cardinality(Hashing) <= HashSlots, GuessesAreCounted, [Next]_vars
    PROVE  GuessesAreCounted'
<1>1. /\ failures \in [Name -> FailureRows \cup {Nobody}] /\ guesses \in [Name -> Nat]
      /\ now \in Int /\ call \in [Caller -> Requests]
      /\ FailureLimit \in Nat \ {0} /\ HashSlots \in Nat \ {0}
  BY LimitAssumption DEF TypesHold
<1>2. CASE GuessersWait
  <2>1. \A c \in Caller : call'[c] \in LoggingIn => call'[c].at = now'
    BY <1>2 DEF GuessersWait, GuessesAreCounted
  <2>2. ASSUME NEW n \in Name
        PROVE  Counted(n)'
    <3>1. Guessers(n)' \subseteq Guessers(n)
      BY <1>2 DEF Guessers, GuessersWait
    <3>2. Counted(n)
      BY DEF GuessesAreCounted
    <3> QED
      BY <1>2, <3>1, <3>2, CountedOn DEF GuessersWait
  <2> QED
    BY <2>1, <2>2 DEF GuessesAreCounted
<1>3. CASE Tick
  <2>1. /\ \A c \in Caller : call[c] \notin LoggingIn
        /\ call' = call /\ failures' = failures /\ guesses' = guesses /\ now' = now + 1
    BY <1>3 DEF Tick, LoggingIn, database, history
  <2>2. ASSUME NEW n \in Name
        PROVE  Counted(n)'
    <3>1. Counted(n)
      BY DEF GuessesAreCounted
    <3>2. Guessers(n) = {} /\ Guessers(n)' = {}
      BY <2>1 DEF Guessers
    <3>3. StillToCome(n) = 0 /\ StillToCome(n)' = 0
      BY <3>2, FS_EmptySet DEF StillToCome
    <3>4. Reached(n)' <=> Reached(n)
      BY <2>1 DEF Reached
    <3>5. failures[n] # Nobody => failures[n].since <= now'
      <4>1. ASSUME failures[n] # Nobody
            PROVE  failures[n].since <= now'
        <5>1. failures[n].since \in Int /\ failures[n].since <= now
          BY <1>1, <3>1, <4>1 DEF Counted, FailureRows
        <5> QED
          BY <1>1, <2>1, <5>1
      <4> QED
        BY <4>1
    <3> QED
      BY <2>1, <3>1, <3>3, <3>4, <3>5 DEF Counted
  <2> QED
    BY <2>1, <2>2 DEF GuessesAreCounted
<1>4. ASSUME NEW c \in Caller, OthersKept(c),
             FailLogin(c) \/ (LogsIn(c) /\ call'[c] = Idle)
      PROVE  GuessesAreCounted'
  <2>1. call'[c] \notin LoggingIn /\ now' = now
    BY <1>1, <1>4 DEF FailLogin, LogsIn, FinishLogin, Done, Idle, LoggingIn
  <2>2. \A d \in Caller : call'[d] \in LoggingIn => call'[d].at = now'
    BY <1>4, <2>1 DEF OthersKept, GuessesAreCounted
  <2>3. call[c] \in LoggingIn
    BY <1>1, <1>4, RequestKinds DEF FailLogin, LogsIn, FinishLogin
  <2>4. PICK m \in Name : m = call[c].name
    BY <2>3 DEF LoggingIn
  <2>5. ASSUME NEW n \in Name, n # m
        PROVE  Counted(n)'
    <3>1. Counted(n)
      BY DEF GuessesAreCounted
    <3>2. failures'[n] = failures[n] /\ guesses'[n] = guesses[n]
      BY <1>1, <1>4, <2>4, <2>5, LoginWrites DEF FailLogin
    <3>3. Guessers(n)' \subseteq Guessers(n)
      BY <1>4, <2>1 DEF Guessers, OthersKept
    <3> QED
      BY <2>1, <3>1, <3>2, <3>3, CountedOn
  <2>6. Counted(m)'
    <3>1. CASE FailLogin(c)
      <4>1. Counted(m) /\ call[c].at = now
        BY <2>3 DEF GuessesAreCounted
      <4> QED
        BY <1>4, <2>4, <3>1, <4>1, CountedFailure
    <3>2. CASE LogsIn(c)
      <4>1. failures'[m] = Nobody /\ guesses'[m] = 0
        BY <1>1, <2>4, <3>2, LoginWrites
      <4> QED
        BY <4>1 DEF Counted, Reached
    <3> QED
      BY <1>4, <3>1, <3>2
  <2> QED
    BY <2>2, <2>5, <2>6 DEF GuessesAreCounted
<1>5. ASSUME NEW c \in Caller, OthersKept(c),
             NEW m \in Name, NEW w \in Word, NEW d \in Device, Login(c, m, w, d)
      PROVE  GuessesAreCounted'
  <2>1. UNCHANGED <<failures, guesses, now>>
    BY <1>5 DEF Login, database, history
  <2>2. call'[c].at = now /\ call'[c].name = m
    BY <1>1, <1>5 DEF Login, Begin
  <2>3. \A x \in Caller : call'[x] \in LoggingIn => call'[x].at = now'
    BY <1>5, <2>1, <2>2 DEF OthersKept, GuessesAreCounted
  <2>4. ASSUME NEW n \in Name, n # m
        PROVE  Counted(n)'
    <3>1. Counted(n)
      BY DEF GuessesAreCounted
    <3>2. Guessers(n)' \subseteq Guessers(n)
      BY <1>5, <2>2, <2>4 DEF Guessers, OthersKept
    <3> QED
      BY <2>1, <3>1, <3>2, CountedOn
  <2>5. Counted(m)'
    <3>1. Counted(m)
      BY DEF GuessesAreCounted
    <3> QED
      BY <1>5, <3>1, CountedStart
  <2> QED
    BY <2>3, <2>4, <2>5 DEF GuessesAreCounted
<1> QED
  BY <1>2, <1>3, <1>4, <1>5, GuessCases

LimitsInv ==
    /\ Grounds
    /\ SaltsAreDrawn
    /\ Cardinality(Hashing) <= HashSlots
    /\ Few(sessions)
    /\ GuessesAreCounted

\* However logins race, sessions and wrong passwords stay within their limits
\* (_issue_session, AuthenticationHashAdmission, record_login_failure).
THEOREM LoginsStayLimited == Spec => []LoginsAreLimited
<1>1. Init => LimitsInv
  <2> SUFFICES ASSUME Init PROVE LimitsInv
    OBVIOUS
  <2>1. Grounds
    BY GroundsInit
  <2>2. /\ case \in Cases /\ users = case.users /\ sessions = case.sessions
        /\ call = [c \in Caller |-> Idle]
        /\ failures = [n \in Name |-> Nobody] /\ guesses = [n \in Name |-> 0]
    BY DEF Init
  <2>3. SaltsAreDrawn
    BY <2>2, StartRows DEF SaltsAreDrawn
  <2>4. Cardinality(Hashing) <= HashSlots
    <3>1. Hashing = {}
      BY <2>2 DEF Hashing, Idle
    <3>2. Cardinality({}) = 0
      BY FS_EmptySet
    <3> QED
      BY <3>1, <3>2, LimitAssumption
  <2>5. Few(sessions)
    BY <2>2, FewAtFirst
  <2>6. GuessesAreCounted
    <3>1. Idle \notin LoggingIn
      BY DEF Idle, LoggingIn
    <3> QED
      BY <2>2, <3>1 DEF GuessesAreCounted, Counted, Reached
  <2> QED
    BY <2>1, <2>3, <2>4, <2>5, <2>6 DEF LimitsInv
<1>2. LimitsInv /\ [Next]_vars => LimitsInv'
  <2> SUFFICES ASSUME LimitsInv, [Next]_vars PROVE LimitsInv'
    OBVIOUS
  <2>1. TypesHold /\ HashesAreSeen /\ Grounds
    BY DEF LimitsInv, Grounds
  <2>2. Grounds'
    BY <2>1, GroundsStay
  <2>3. SaltsAreDrawn'
    BY <2>1, SaltsStayDrawn DEF LimitsInv
  <2>4. Cardinality(Hashing') <= HashSlots
    BY <2>1, SlotsStay DEF LimitsInv
  <2>5. Few(sessions')
    BY <2>1, FewStay DEF LimitsInv
  <2>6. GuessesAreCounted'
    BY <2>1, GuessesStayCounted DEF LimitsInv
  <2> QED
    BY <2>2, <2>3, <2>4, <2>5, <2>6 DEF LimitsInv
<1>3. LimitsInv => LoginsAreLimited
  <2> SUFFICES ASSUME LimitsInv PROVE LoginsAreLimited
    OBVIOUS
  <2>1. TypeOK
    BY GroundsTyped DEF LimitsInv
  <2>2. ASSUME NEW u \in users
        PROVE  LET own == {s \in sessions : s.user = u.id}
                   live == {s \in own : Live(s)}
               IN  /\ \A s, t \in live : s.device = t.device => s = t
                   /\ Cardinality(live) <= DeviceLimit
                   /\ Cardinality({s \in own : Ended(s)}) <= HistoryLimit + DeviceLimit
    <3> DEFINE own == {s \in sessions : s.user = u.id}
               unended == {s \in sessions : s.user = u.id /\ ~Ended(s)}
               live == {s \in own : Live(s)}
               ended == {s \in own : Ended(s)}
    <3>1. u.id \in Ids
      BY DEF LimitsInv, Grounds, TypesHold, UserRows, Ids
    <3>2. /\ IsFiniteSet(sessions)
          /\ Cardinality(own) <= HistoryLimit + DeviceLimit /\ Cardinality(unended) <= DeviceLimit
      BY <3>1 DEF LimitsInv, Few
    <3>3. own \in SUBSET sessions /\ unended \in SUBSET sessions /\ live \subseteq unended /\ ended \subseteq own
      BY DEF Live
    <3>4. \A s, t \in live : s.device = t.device => s = t
      BY DEF LimitsInv, Few, Live
    <3> HIDE DEF own, unended, live, ended
    <3>5. IsFiniteSet(own) /\ IsFiniteSet(unended)
      BY <3>2, <3>3, FS_Subset
    <3>6. Cardinality(live) <= DeviceLimit
      BY <3>2, <3>3, <3>5, LimitsAreNumbers, SubsetBound
    <3>7. Cardinality(ended) <= HistoryLimit + DeviceLimit
      BY <3>2, <3>3, <3>5, LimitsAreNumbers, SubsetBound
    <3> QED
      BY <3>4, <3>6, <3>7 DEF own, live, ended
  <2>3. ASSUME NEW n \in Name
        PROVE  guesses[n] <= FailureLimit + HashSlots - 1
    <3>1. /\ guesses[n] \in Nat /\ FailureLimit \in Nat \ {0} /\ HashSlots \in Nat \ {0}
          /\ failures[n] # Nobody => failures[n].count \in Nat
          /\ StillToCome(n) \in Nat
      BY GuessersBound, LimitAssumption DEF LimitsInv, Grounds, TypesHold, FailureRows, StillToCome
    <3>2. Counted(n)
      BY DEF LimitsInv, GuessesAreCounted
    <3>3. CASE failures[n] = Nobody
      BY <3>1, <3>2, <3>3 DEF Counted
    <3>4. CASE failures[n] # Nobody /\ ~Reached(n)
      <4>1. guesses[n] <= failures[n].count /\ ~(failures[n].count >= FailureLimit)
        BY <3>2, <3>4 DEF Counted, Reached
      <4> QED
        BY <3>1, <3>4, <4>1
    <3>5. CASE Reached(n)
      <4>1. guesses[n] + StillToCome(n) <= FailureLimit + HashSlots - 1
        BY <3>2, <3>5 DEF Counted
      <4> QED
        BY <3>1, <4>1
    <3> QED
      BY <3>3, <3>4, <3>5
  <2> QED
    BY <2>1, <2>2, <2>3 DEF LoginsAreLimited
<1> QED
  BY <1>1, <1>2, <1>3, PTL DEF Spec

=============================================================================
