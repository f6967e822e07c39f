------------------------------ MODULE Accounts ------------------------------
(***************************************************************************)
(* Accounts, sessions and account exports (backend/app/storage.py, main.py, *)
(* account_export_admission.py).                                           *)
(*                                                                         *)
(* Hashing and checking a password is slow and happens outside the lock,   *)
(* so registration, login, change of password and deletion each read the   *)
(* database, work, and then write in one transaction; a request carrying a *)
(* session is authenticated once, before all of that.  A caller is a       *)
(* request under way; call[c] is what it has read so far.  An export holds *)
(* the single lease while it writes a private spool file and streams it.   *)
(*                                                                         *)
(* Random ids (users, salts, session tokens) are drawn from a counter.     *)
(*                                                                         *)
(* A definition named Op_Variant is Op as a plausible slip would have      *)
(* written it; no specification uses it.                                   *)
(***************************************************************************)
EXTENDS Integers, FiniteSets

CONSTANTS
    Caller,        \* requests under way at the same time
    Name, Word, Device,
    Bootstrap,     \* the configured one-time code that claims the legacy tenant
    Invite,        \* codes of invitations
    NoCode,        \* registration without a code
    Nobody,        \* SQL NULL, or no row
    Cases,         \* what the database may hold at first, and what happens, see Init
    DeviceLimit,   \* live sessions of one account
    HistoryLimit,  \* ended sessions kept of one account
    HashSlots,     \* password hashes worked on at the same time
    FailureLimit, FailureWindow, LockTime,
    SessionTime,   \* life of a session
    KeepTime,      \* how long an ended session is kept
    LeaseTime, Cooldown, \* of an export
    SweepMargin,   \* how long after its lease a spool counts as left behind
    MaxFailures    \* bound: failed logins counted for a name

Code == Invite \cup {Bootstrap}

ASSUME CaseAssumption ==
    \A k \in Cases :
        /\ k.time \in Nat /\ k.ids \in Nat          \* bounds on time and on ids drawn
        /\ k.ops \subseteq {"register", "login", "change", "delete", "write",
                            "logout", "export", "invite", "crash"}
        /\ k.open \in BOOLEAN
        /\ k.names \subseteq Name /\ k.words \subseteq Word /\ k.devices \subseteq Device

\* Rows of the tables; a hash is kept with its salt.
Hashes == [word: Word, salt: Nat, weak: BOOLEAN]
UserRows == [id: Nat \ {0}, name: Name, hash: Hashes \cup {Nobody}]
CodeRows == [state: {"none", "open", "revoked", "used"}, expires: Int, by: Int \cup {Nobody}]
SessionRows == [id: Nat \ {0}, user: Nat \ {0}, device: Device, used: Int, expires: Int,
                revoked: Int \cup {Nobody}]
FailureRows == [count: Nat \ {0}, since: Int, until: Int]
LeaseRows == [user: Nat \ {0}, by: Caller, until: Int]

\* What the database holds at first keeps its unique indexes and its limits, and its
\* ids were drawn before.
ASSUME StartAssumption ==
    \A k \in Cases :
        LET given == Cardinality(k.users) + Cardinality(k.sessions) IN
        /\ IsFiniteSet(k.users) /\ k.users \subseteq UserRows
        /\ IsFiniteSet(k.sessions) /\ k.sessions \subseteq SessionRows
        /\ given <= k.ids
        /\ \A u \in k.users : /\ u.id <= given
                              /\ u.hash # Nobody => u.hash.salt \in 1..k.ids
        /\ \A u, v \in k.users : u.id = v.id \/ u.name = v.name => u = v
        /\ \A s \in k.sessions : /\ s.id <= given
                                 /\ \E u \in k.users : u.id = s.user
        /\ \A s, t \in k.sessions :
              \/ s.id = t.id
              \/ s.user = t.user /\ s.device = t.device /\ s.revoked = Nobody /\ t.revoked = Nobody
              => s = t
        /\ \A u \in k.users :
              /\ Cardinality({s \in k.sessions : s.user = u.id}) <= HistoryLimit + DeviceLimit
              /\ Cardinality({s \in k.sessions : s.user = u.id /\ s.revoked = Nobody}) <= DeviceLimit
        /\ k.codes \in [Code -> CodeRows]
        /\ \A c \in Code : IF k.codes[c].state = "used" THEN \E u \in k.users : k.codes[c].by = u.id
                            ELSE k.codes[c].by = Nobody

ASSUME LimitAssumption ==
    /\ IsFiniteSet(Caller)
    /\ DeviceLimit \in Nat \ {0} /\ HistoryLimit \in Nat /\ HistoryLimit >= DeviceLimit
    /\ HashSlots \in Nat \ {0} /\ FailureLimit \in Nat \ {0}
    /\ FailureWindow \in Nat /\ LockTime \in Nat /\ LockTime >= FailureWindow
    /\ SessionTime \in Nat /\ KeepTime \in Nat
    /\ LeaseTime \in Nat /\ Cooldown \in Nat /\ SweepMargin \in Nat

ASSUME NobodyAssumption ==
    /\ Bootstrap \notin Invite /\ NoCode \notin Code
    /\ Nobody \notin Caller /\ Nobody \notin Word /\ Nobody \notin Int
    /\ Nobody \notin Hashes /\ Nobody \notin UserRows
    /\ Nobody \notin FailureRows /\ Nobody \notin LeaseRows

VARIABLES
    case,      \* the scenario
    now,       \* the clock
    drawn,     \* random ids drawn so far
    users,     \* the users table
    retired,   \* ids of deleted users
    codes,     \* invitations and the bootstrap code
    sessions,  \* the session tokens
    failures,  \* failed logins by name (and source)
    rows,      \* users with rows in the tables of the application
    lease,     \* the row of account_export_leases, or Nobody
    asked,     \* the last export request of a user, by id
    spools,    \* spool directories on disk
    call,      \* requests under way
    joined,    \* history: [user, code] of every registration
    epoch,     \* history: ids drawn when a user's password was last changed
    guesses    \* history: wrong passwords tried in a name's failure window

database == <<users, retired, codes, sessions, failures, rows>>
exports == <<lease, asked, spools>>
history == <<joined, epoch, guesses>>
vars == <<case, now, drawn, database, exports, call, history>>

Idle == [op |-> "idle"]

UserIds == 1..case.ids
UserOf(id) == CHOOSE u \in users : u.id = id
Exists(id) == \E u \in users : u.id = id
Named(n) == {u \in users : u.name = n}

Init ==
    /\ case \in Cases
    /\ now = 0
    /\ drawn = Cardinality(case.users) + Cardinality(case.sessions)
    /\ users = case.users
    /\ retired = {}
    /\ codes = [c \in Code |-> case.codes[c]]
    /\ sessions = case.sessions
    /\ failures = [n \in Name |-> Nobody]
    /\ rows = {u.id : u \in case.users}
    /\ lease = Nobody
    /\ asked = [u \in UserIds |-> Nobody]
    /\ spools = {}
    /\ call = [c \in Caller |-> Idle]
    /\ joined = {}
    /\ epoch = [u \in UserIds |-> 0]
    /\ guesses = [n \in Name |-> 0]

-----------------------------------------------------------------------------
(* Requests: the slots for password work, and the end of a request.        *)

Hashing == {c \in Caller : \/ call[c].op \in {"register", "login"}
                           \/ call[c].op \in {"change", "delete"} /\ call[c].seen # Nobody}

\* AuthenticationHashAdmission.
SlotFree == Cardinality(Hashing) < HashSlots

Begin(c, op, request) ==
    /\ call[c] = Idle
    /\ op \in case.ops
    /\ call' = [call EXCEPT ![c] = request]

Done(c) == call' = [call EXCEPT ![c] = Idle]

\* A write that names a retired user is aborted by the guard triggers.
Writable(id) == id \notin retired

\* A request refused after its work; nothing is written.
Refused(c) ==
    /\ Done(c)
    /\ UNCHANGED <<case, now, drawn, database, exports, history>>

-----------------------------------------------------------------------------
(* Sessions.                                                               *)

Ended(s) == s.revoked # Nobody

Live(s) == ~Ended(s) /\ s.expires > now

Revoke(s) == IF Ended(s) THEN s ELSE [s EXCEPT !.revoked = now]

Forgotten(s) == s.expires <= now \/ (Ended(s) /\ s.revoked <= now - KeepTime)

\* The most recent n members of S by the times at; ties may fall either way.
Newest(S, n, at) ==
    {k \in SUBSET S : /\ Cardinality(k) = IF Cardinality(S) <= n THEN Cardinality(S) ELSE n
                      /\ \A s \in k, t \in S \ k : at[s] >= at[t]}

LastUse(S) == [s \in S |-> s.used]
RevokedAt(S) == [s \in S |-> s.revoked]

\* Logging in again replaces the device's own session.
Superseded(s, device) == s.device = device

\* Which of the live ones stay: the new one takes a place too.
Staying_Full(live) == Newest(live, DeviceLimit, LastUse(live))
Staying(live) == Newest(live, DeviceLimit - 1, LastUse(live))

\* The sessions after user's device was given token id, the present ones being all.
Issued(all, user, device, id) ==
    LET others == {s \in all : s.user # user}
        kept == {s \in all : s.user = user /\ ~Forgotten(s)}
        rest == {IF Superseded(s, device) THEN Revoke(s) ELSE s : s \in kept}
        live == {s \in rest : Live(s)}
        new == [id |-> id, user |-> user, device |-> device, used |-> now,
                expires |-> now + SessionTime, revoked |-> Nobody]
    IN  UNION {LET cut == {IF s \in live \ k THEN Revoke(s) ELSE s : s \in rest}
                   ended == {s \in cut : Ended(s)}
               IN  {others \cup (cut \ ended) \cup h \cup {new} :
                        h \in Newest(ended, HistoryLimit, RevokedAt(ended))} :
               k \in Staying(live)}

-----------------------------------------------------------------------------
(* Registration.                                                           *)

Available(c) == codes[c].state = "open" /\ codes[c].expires > now

CreateInvite(c) ==
    /\ "invite" \in case.ops
    /\ c \in Invite
    /\ codes[c].state = "none"
    /\ codes' = [codes EXCEPT ![c] = [state |-> "open", expires |-> now + 1, by |-> Nobody]]
    /\ UNCHANGED <<case, now, drawn, users, retired, sessions, failures, rows, exports, call, history>>

RevokeInvite(c) ==
    /\ "invite" \in case.ops
    /\ c \in Invite
    /\ codes[c].state = "open"
    /\ codes' = [codes EXCEPT ![c].state = "revoked"]
    /\ UNCHANGED <<case, now, drawn, users, retired, sessions, failures, rows, exports, call, history>>

\* What a code entitles to, asked before any transaction; the bootstrap code is
\* compared with the configured secret only.  With open registration no code is
\* looked at.
Kinds(code) ==
    IF case.open THEN {"open"}
    ELSE IF code = Bootstrap THEN {"bootstrap"}
    ELSE IF code \in Invite /\ Available(code) THEN {"invite"} ELSE {}

Register(c, name, word, device, code) ==
    /\ SlotFree
    /\ \E kind \in Kinds(code) :
           Begin(c, "register", [op |-> "register", name |-> name, word |-> word,
                                 device |-> device, code |-> code, kind |-> kind])
    /\ UNCHANGED <<case, now, drawn, database, exports, history>>

\* Only the bootstrap code claims the tenant mapped to a name before there were
\* accounts, and while such a tenant waits it does nothing else.
MayTake(r) ==
    IF Named(r.name) # {} THEN r.kind = "bootstrap" /\ \A u \in Named(r.name) : u.hash = Nobody
    ELSE r.kind = "bootstrap" => \A u \in users : u.hash # Nobody

\* The code is used up in the same transaction, if it still can be.
StillGood_AsAuthorized(r) == TRUE

StillGood(r) ==
    CASE r.kind = "open" -> TRUE
      [] r.kind = "invite" -> Available(r.code)
      [] r.kind = "bootstrap" -> codes[r.code].by = Nobody

Hash(word, salt) == [word |-> word, salt |-> salt, weak |-> FALSE]

FinishRegister(c) ==
    LET r == call[c]
        claimed == Named(r.name)
        id == IF claimed = {} THEN drawn + 1 ELSE (CHOOSE u \in claimed : TRUE).id
    IN  /\ r.op = "register"
        /\ drawn + 3 <= case.ids
        /\ IF MayTake(r) /\ StillGood(r)
           THEN /\ users' = (users \ claimed) \cup
                              {[id |-> id, name |-> r.name, hash |-> Hash(r.word, drawn + 2)]}
                /\ codes' = IF r.kind = "open" THEN codes
                            ELSE [codes EXCEPT ![r.code].state = "used", ![r.code].by = id]
                /\ sessions' \in Issued(sessions, id, r.device, drawn + 3)
                /\ drawn' = drawn + 3
                /\ joined' = joined \cup {[user |-> id, code |-> IF r.kind = "open" THEN NoCode ELSE r.code]}
                /\ Done(c)
                /\ UNCHANGED <<case, now, retired, failures, rows, exports, epoch, guesses>>
           ELSE Refused(c)

-----------------------------------------------------------------------------
(* Login.                                                                  *)

Locked(n) == failures[n] # Nobody /\ failures[n].until > now

Login(c, name, word, device) ==
    /\ SlotFree
    /\ failures[name] # Nobody => failures[name].count < MaxFailures
    /\ Begin(c, "login",
             [op |-> "login", name |-> name, word |-> word, device |-> device, at |-> now,
              locked |-> Locked(name),
              user |-> IF Named(name) = {} THEN Nobody ELSE CHOOSE u \in Named(name) : TRUE])
    /\ UNCHANGED <<case, now, drawn, database, exports, history>>

Verified(r) == /\ ~r.locked
               /\ r.user # Nobody
               /\ r.user.hash # Nobody
               /\ r.user.hash.word = r.word

\* The failure counts from when the attempt began, in the row as it is now.
Restarts(n, at) == failures[n] = Nobody \/ failures[n].since <= at - FailureWindow

Failures(r) == IF Restarts(r.name, r.at) THEN 1 ELSE failures[r.name].count + 1

FailLogin(c) ==
    LET r == call[c]
        n == r.name
        count == Failures(r)
    IN  /\ r.op = "login"
        /\ ~Verified(r)
        /\ failures' = [failures EXCEPT ![n] =
                          [count |-> count,
                           since |-> IF Restarts(n, r.at) THEN r.at ELSE failures[n].since,
                           until |-> IF count >= FailureLimit THEN r.at + LockTime ELSE 0]]
        /\ guesses' = [guesses EXCEPT ![n] = (IF Restarts(n, r.at) THEN 0 ELSE @)
                                             + (IF r.locked THEN 0 ELSE 1)]
        /\ Done(c)
        /\ UNCHANGED <<case, now, drawn, users, retired, codes, sessions, rows, exports, joined, epoch>>

\* A hash of weaker parameters than today's is replaced by a new one of the word
\* given, whatever the row holds by now.
FinishLogin(c) ==
    LET r == call[c]
        id == r.user.id
    IN  /\ r.op = "login"
        /\ Verified(r)
        /\ drawn + 2 <= case.ids
        /\ IF Writable(id)
           THEN /\ users' = {IF u.id = id /\ r.user.hash.weak
                             THEN [u EXCEPT !.hash = Hash(r.word, drawn + 1)] ELSE u : u \in users}
                /\ failures' = [failures EXCEPT ![r.name] = Nobody]
                /\ sessions' \in Issued(sessions, id, r.device, drawn + 2)
                /\ drawn' = drawn + 2
                /\ guesses' = [guesses EXCEPT ![r.name] = 0]
                /\ Done(c)
                /\ UNCHANGED <<case, now, retired, codes, rows, exports, joined, epoch>>
           ELSE Refused(c)

-----------------------------------------------------------------------------
(* Requests carrying a session.                                            *)

\* The middleware authenticates a request once; the use of a session is noted.
Enter(c, s, op, word, new) ==
    /\ Live(s)
    /\ Begin(c, op, [op |-> op, user |-> s.user, session |-> s.id, device |-> s.device,
                     word |-> word, new |-> new, seen |-> Nobody])
    /\ sessions' = (sessions \ {s}) \cup {[s EXCEPT !.used = now]}
    /\ UNCHANGED <<case, now, drawn, users, retired, codes, failures, rows, exports, history>>

StartSession(c) ==
    \E s \in sessions :
        \/ \E op \in {"write", "logout"} : Enter(c, s, op, Nobody, Nobody)
        \/ \E op \in {"delete", "export"}, w \in case.words : Enter(c, s, op, w, Nobody)
        \/ \E w, n \in case.words : Enter(c, s, "change", w, n)

\* Any handler that stores something of the user.
Write(c) ==
    LET r == call[c]
    IN  /\ r.op = "write"
        /\ rows' = IF Writable(r.user) THEN rows \cup {r.user} ELSE rows
        /\ Done(c)
        /\ UNCHANGED <<case, now, drawn, users, retired, codes, sessions, failures, exports, history>>

Logout(c) ==
    LET r == call[c]
    IN  /\ r.op = "logout"
        /\ sessions' = {IF s.id = r.session THEN Revoke(s) ELSE s : s \in sessions}
        /\ Done(c)
        /\ UNCHANGED <<case, now, drawn, users, retired, codes, failures, rows, exports, history>>

Knows(r) == \E u \in users : u.id = r.user /\ u.hash # Nobody /\ u.hash.word = r.word

\* Reading the hash, and the check of the password given against it.
Observe(c) ==
    LET r == call[c]
    IN  /\ r.op \in {"change", "delete"}
        /\ r.seen = Nobody
        /\ SlotFree
        /\ IF Knows(r) THEN call' = [call EXCEPT ![c].seen = UserOf(r.user).hash] ELSE Done(c)
        /\ UNCHANGED <<case, now, drawn, database, exports, history>>

\* The compare-and-swap on the password hash.
Unchanged_Exists(r) == Exists(r.user)
Unchanged(r) == \E u \in users : u.id = r.user /\ u.hash = r.seen

Signed(r) == \E s \in sessions : s.id = r.session /\ s.user = r.user /\ Live(s)

\* Sessions that end with the password.
EndedByChange(s, r) == s.user = r.user

ChangePassword(c) ==
    LET r == call[c]
    IN  /\ r.op = "change"
        /\ r.seen # Nobody
        /\ drawn + 2 <= case.ids
        /\ IF Signed(r) /\ Unchanged(r)
           THEN /\ users' = {IF u.id = r.user THEN [u EXCEPT !.hash = Hash(r.new, drawn + 1)] ELSE u :
                             u \in users}
                /\ sessions' \in Issued({IF EndedByChange(s, r) THEN Revoke(s) ELSE s : s \in sessions},
                                        r.user, r.device, drawn + 2)
                /\ epoch' = [epoch EXCEPT ![r.user] = drawn + 1]
                /\ drawn' = drawn + 2
                /\ Done(c)
                /\ UNCHANGED <<case, now, retired, codes, failures, rows, exports, joined, guesses>>
           ELSE Refused(c)

\* Everything that names the user goes; used codes stay used under a marker.
Retired_NoTombstone(r) == retired
Retired(r) == retired \cup {r.user}

DeleteAccount(c) ==
    LET r == call[c]
    IN  /\ r.op = "delete"
        /\ r.seen # Nobody
        /\ IF Unchanged(r)
           THEN /\ retired' = Retired(r)
                /\ users' = {u \in users : u.id # r.user}
                /\ sessions' = {s \in sessions : s.user # r.user}
                /\ rows' = rows \ {r.user}
                /\ codes' = [k \in Code |->
                                IF codes[k].by = r.user THEN [codes[k] EXCEPT !.by = -r.user] ELSE codes[k]]
                /\ lease' = IF lease # Nobody /\ lease.user = r.user THEN Nobody ELSE lease
                /\ asked' = [asked EXCEPT ![r.user] = Nobody]
                /\ Done(c)
                /\ UNCHANGED <<case, now, drawn, failures, spools, history>>
           ELSE Refused(c)

-----------------------------------------------------------------------------
(* Exports.                                                                *)

VerifyForExport(c) ==
    LET r == call[c]
    IN  /\ r.op = "export"
        /\ SlotFree
        /\ IF Knows(r) THEN call' = [call EXCEPT ![c].op = "verified"] ELSE Done(c)
        /\ UNCHANGED <<case, now, drawn, database, exports, history>>

LeaseHeld == lease # Nobody /\ lease.until > now

CoolingDown(u) == asked[u] # Nobody /\ asked[u] + Cooldown > now

AcquireLease(c) ==
    LET r == call[c]
    IN  /\ r.op = "verified"
        /\ IF CoolingDown(r.user) \/ LeaseHeld
           THEN /\ Done(c)
                /\ lease' = IF lease # Nobody /\ lease.until <= now THEN Nobody ELSE lease
                /\ asked' = asked
           ELSE /\ call' = [call EXCEPT ![c].op = "leased", ![c].seen = now + LeaseTime]
                /\ lease' = [user |-> r.user, by |-> c, until |-> now + LeaseTime]
                /\ asked' = [asked EXCEPT ![r.user] = now]
        /\ UNCHANGED <<case, now, drawn, database, spools, history>>

\* Only this export's own lease row, whatever is held by then.
ReleasedBy_Anyone(c) == TRUE
ReleasedBy(c) == lease # Nobody /\ lease.by = c /\ lease.until = call[c].seen

Release(c) == lease' = IF ReleasedBy(c) THEN Nobody ELSE lease

\* Directories of crashed exports go when the next export starts.
LeftBehind(d) == d.made <= now - LeaseTime - SweepMargin

StartSpool(c) ==
    /\ call[c].op = "leased"
    /\ spools' = {d \in spools : ~LeftBehind(d)} \cup {[by |-> c, made |-> now]}
    /\ call' = [call EXCEPT ![c].op = "spooling"]
    /\ UNCHANGED <<case, now, drawn, database, lease, asked, history>>

OwnSpool(c) == {d \in spools : d.by = c}

\* The file holds a snapshot; nothing bounds the time it takes.
FinishSpool(c) ==
    /\ call[c].op = "spooling"
    /\ Exists(call[c].user)
    /\ call' = [call EXCEPT ![c].op = "streaming"]
    /\ UNCHANGED <<case, now, drawn, database, exports, history>>

\* The account is gone, the export is too large, or anything else failed.
FailSpool(c) ==
    /\ call[c].op = "spooling"
    /\ spools' = spools \ OwnSpool(c)
    /\ Release(c)
    /\ Done(c)
    /\ UNCHANGED <<case, now, drawn, database, asked, history>>

\* All sent, the client gone, or the lease's time over.
FinishStream(c) ==
    /\ call[c].op = "streaming"
    /\ spools' = spools \ OwnSpool(c)
    /\ Release(c)
    /\ Done(c)
    /\ UNCHANGED <<case, now, drawn, database, asked, history>>

-----------------------------------------------------------------------------
(* Everything else.                                                        *)

\* The process dies; spools and the lease stay.
Crash ==
    /\ "crash" \in case.ops
    /\ \E c \in Caller : call[c] # Idle
    /\ call' = [c \in Caller |-> Idle]
    /\ spools' = {[d EXCEPT !.by = Nobody] : d \in spools}
    /\ UNCHANGED <<case, now, drawn, database, lease, asked, history>>

\* A stream ends at its deadline at the latest, and the check of a password takes
\* no time compared with what the clock is for.
Tick ==
    /\ now < case.time
    /\ \A c \in Caller : call[c].op # "login"
    /\ \A c \in Caller : call[c].op = "streaming" => call[c].seen > now
    /\ now' = now + 1
    /\ UNCHANGED <<case, drawn, database, exports, call, history>>

Step(c) ==
    \/ FinishRegister(c) \/ FailLogin(c) \/ FinishLogin(c)
    \/ Write(c) \/ Logout(c) \/ Observe(c) \/ ChangePassword(c) \/ DeleteAccount(c)
    \/ VerifyForExport(c) \/ AcquireLease(c)
    \/ StartSpool(c) \/ FinishSpool(c) \/ FailSpool(c) \/ FinishStream(c)

Next ==
    \/ \E k \in Code : CreateInvite(k) \/ RevokeInvite(k)
    \/ \E c \in Caller :
          \/ \E n \in case.names, w \in case.words, d \in case.devices :
                \/ Login(c, n, w, d)
                \/ \E k \in Code \cup {NoCode} : Register(c, n, w, d, k)
          \/ StartSession(c)
          \/ Step(c)
    \/ Crash
    \/ Tick

Spec == Init /\ [][Next]_vars

-----------------------------------------------------------------------------
(* Properties.                                                             *)

\* The parts of the state have their types; whatever names a user names one that
\* exists or existed.
TypeOK ==
    /\ now \in 0..case.time
    /\ drawn \in 0..case.ids
    /\ \A u \in users : /\ u.id \in UserIds /\ u.name \in Name
                        /\ u.hash # Nobody => u.hash.word \in Word /\ u.hash.salt \in UserIds
                        /\ Named(u.name) = {u}
    /\ \A c \in Code : codes[c].state \in {"none", "open", "revoked", "used"}
    /\ \A s \in sessions : /\ Exists(s.user)
                           /\ s.device \in Device
                           /\ \A t \in sessions : t.id = s.id => t = s
    /\ \A n \in Name : failures[n] # Nobody => failures[n].count \in Nat
    /\ Cardinality(Hashing) <= HashSlots

\* The tenants of before there were accounts.
Legacy == {u.id : u \in {v \in case.users : v.hash = Nobody}}

\* A code makes one account, and not after it was revoked; a tenant of before there
\* were accounts goes to the bootstrap code or to nobody, and where there is one the
\* bootstrap code makes no other account.
CodesAreHonoured ==
    /\ \A i, j \in joined : i.code = j.code /\ i.code # NoCode => i = j
    /\ \A i \in joined : i.code # NoCode => codes[i.code].state = "used"
    /\ \A k \in Code : codes[k].state = "used" =>
           codes[k].by # Nobody /\ (codes[k].by \in UserIds \/ -codes[k].by \in retired)
    /\ \A i \in joined : i.user \in Legacy => i.code = Bootstrap
    /\ Legacy # {} => \A i \in joined : i.code = Bootstrap => i.user \in Legacy

\* What was ended stays ended: no session issued before a change of password is good
\* after it, whatever requests were under way with it (change_account_password revokes
\* every old session); of a deleted account no row comes back, and its codes stay used.
\* Not said is that nobody gets a session with the old password any more: a login that
\* had checked it when the change was committed looks at the hash no second time, and
\* issues one that is newer than the change (login_account).
EndedStaysEnded ==
    /\ \A s \in sessions : Live(s) => s.id > epoch[s.user]
    /\ \A u \in UserIds :
          (u <= drawn /\ u \in {i.user : i \in joined} \cup {v.id : v \in case.users} /\ ~Exists(u)) =>
              /\ u \notin rows
              /\ \A s \in sessions : s.user # u
              /\ \A k \in Code : codes[k].by # u

\* However logins race, a device has one live session and an account no more than
\* its limit, nor more ended ones than are kept; and of wrong passwords no more are
\* tried in a name's window than the limit and those that were under way when it was
\* reached.
LoginsAreLimited ==
    /\ TypeOK
    /\ \A u \in users :
          LET own == {s \in sessions : s.user = u.id}
              live == {s \in own : Live(s)}
          IN  /\ \A s, t \in live : s.device = t.device => s = t
              /\ Cardinality(live) <= DeviceLimit
              /\ Cardinality({s \in own : Ended(s)}) <= HistoryLimit + DeviceLimit
    /\ \A n \in Name : guesses[n] <= FailureLimit + HashSlots - 1

\* Two exports are under way at once only if the earlier one's time is over or its
\* account has been deleted, which frees the lease.  A file being streamed is not
\* swept from under the stream, and one that nobody works on was left by a crash.
OneExportAtATime ==
    /\ \A c, d \in Caller :
          (/\ c # d
           /\ call[c].op \in {"leased", "spooling", "streaming"}
           /\ call[d].op \in {"leased", "spooling", "streaming"}) =>
              \/ call[c].seen <= now \/ call[d].seen <= now
              \/ call[c].user \in retired \/ call[d].user \in retired
    /\ \A c \in Caller : call[c].op = "streaming" /\ call[c].seen > now => OwnSpool(c) # {}
    /\ \A d \in spools : d.by # Nobody => call[d.by].op \in {"spooling", "streaming"}

\* Who changes the password or deletes the account has given the password that is
\* in force at that moment, not one that was when the request was checked.
OnlyWithThePasswordInForce ==
    [][\A u \in users :
          (epoch'[u.id] # epoch[u.id] \/ u.id \in retired' \ retired) =>
              \E c \in Caller : /\ call[c] # Idle /\ call'[c] = Idle
                               /\ call[c].op \in {"change", "delete"}
                               /\ call[c].user = u.id
                               /\ call[c].word = u.hash.word]_vars

=============================================================================
