------------------------------- MODULE Desktop -------------------------------
(* The Windows agent (desktop/mouchen_desktop/agent.py) between the user's   *)
(* screen, its workers and the server: observing, the store of unsent events *)
(* and cached advice, signing in and out, the session that the server ends,  *)
(* and the language of the account.                                          *)
(*                                                                           *)
(* Threads: the screen (ui.py), which is busy while it signs in or out; the  *)
(* collector, the event worker ("sync") and the advice worker, which the     *)
(* agent starts for one session; and the tasks that the screen starts for a  *)
(* choice of language or an answer to an advice.  A context is the session   *)
(* epoch with the identity of the settings, taken before a request and       *)
(* compared after it.                                                        *)
(*                                                                           *)
(* Left out: the legacy mode without accounts, the settings a user edits     *)
(* (but for consent), pausing by hand, and time: a wait may end at once, and *)
(* the back-off after "storage quota exceeded" is a round that sends nothing.*)
(* The claims of reminders are in ReminderDelivery.                          *)
(*                                                                           *)
(* A definition named Op_Variant is Op as a plausible slip would have        *)
(* written it; no specification uses it.                                     *)
EXTENDS Integers, FiniteSets, Sequences

CONSTANTS
    Account, Language,
    SystemLanguage,   \* the language of Windows, shown while nobody is signed in
    NoAccount,        \* no account
    MaxTries,         \* failed sends after which an event is not sent again
    Situations        \* scenarios: the session at the start, and how often each thing may happen

AnswerKinds == {"none", "ok", "failed", "lost", "refused", "full"}
Chance == {"polls", "problems", "rounds", "choices", "responses", "logins", "faults", "crashes", "revokes", "others"}

\* What an account and a language may be: an answer that carries a language is told
\* from one that carries none.
ASSUME NamesAssumption ==
    /\ NoAccount \notin Account
    /\ SystemLanguage \in Language
    /\ Language \cap AnswerKinds = {}

ASSUME TriesAssumption == MaxTries \in Nat

ASSUME SituationsAssumption ==
    Situations \subseteq [user : Account \cup {NoAccount}, consents : SUBSET Account, left : [Chance -> Nat]]

VARIABLES
    saved,     \* the saved settings: user, token (0: none), consents, locale
    epoch, stopped, paused,
    events,       \* rows of the store: id, account observed under, tries, synced
    cache,        \* accounts whose advice the store holds
    thread,       \* the three workers
    screen,       \* what the screen does, and the session it has been given
    tasks,        \* background tasks of the screen
    results,      \* accounts whose answered feedback is still to be shown
    requested, entered,      \* numbers of the last choice clicked, and of the newest one let in
    generation,   \* counts the choices let in
    confirmed,    \* the language the server confirmed last, and for whom
    owner, live, spoken,     \* server: sessions issued and live, languages of the accounts
    astray,       \* events that reached another account than the one they were observed under
    torn,         \* the program died between new settings and an emptied store
    unsure,       \* the language may have changed behind this program's back
    left          \* what may still happen

agent == <<saved, epoch, stopped, paused>>
store == <<events, cache, torn>>
language == <<requested, entered, generation, confirmed>>
sessions == <<owner, live>>
voice == <<spoken, unsure>>
threads == <<thread, screen, tasks, results>>
desktopVars == <<agent, store, language, sessions, voice, astray, threads, left>>

Workers == {"collector", "sync", "advice"}

-----------------------------------------------------------------------------
(* Settings, contexts and the store.                                         *)

\* What may happen once less from now on.
Spend(what) ==
    /\ left[what] > 0
    /\ left' = [left EXCEPT ![what] = @ - 1]

Identity(s) == <<s.user, s.token>>
HasSession(s) == s.token > 0 /\ s.user # NoAccount
MayCollect(s) == s.user \in s.consents
Cleared(s) == [s EXCEPT !.token = 0, !.locale = SystemLanguage]

Context == <<epoch, Identity(saved)>>
InForce(context) == context = Context

\* update_settings: one snapshot is saved and replaces the other; with another
\* identity the workers' session is over and the confirmed language void.
Replace(new) ==
    /\ saved' = new
    /\ IF Identity(new) = Identity(saved)
       THEN UNCHANGED <<epoch, stopped, confirmed>>
       ELSE /\ epoch' = epoch + 1
            /\ stopped' = TRUE
            /\ confirmed' = [language |-> new.locale, for |-> Identity(new)]

Enqueued(of) ==
    events \cup {[id |-> Cardinality(events) + 1, of |-> of, tries |-> 0, synced |-> FALSE]}

Pending == {e \in events : ~e.synced /\ e.tries < MaxTries}

Empty == events' = {} /\ cache' = {} /\ torn' = FALSE

-----------------------------------------------------------------------------
(* The server, as far as its answers show it.                                *)

\* The answers to a request made with a token.  "failed" did not arrive, the
\* answer to "lost" did not.
AnswersTo(token) ==
    IF token \in live THEN {"ok", "failed", "lost"} ELSE {"refused", "failed"}

Arrived(got) == got \in {"ok", "lost"}

\* A request that fails costs a fault.
Costs(got) ==
    IF got \in {"failed", "lost"} THEN Spend("faults") ELSE UNCHANGED left

\* The server ends a session: another device changed the password.
Revoke ==
    /\ Spend("revokes")
    /\ \E t \in live : live' = live \ {t}
    /\ UNCHANGED <<agent, store, language, owner, voice, astray, threads>>

\* Another device changes the language of an account.
SpeakElsewhere ==
    /\ Spend("others")
    /\ \E a \in Account : \E l \in Language \ {spoken[a]} : spoken' = [spoken EXCEPT ![a] = l]
    /\ unsure' = TRUE
    /\ UNCHANGED <<agent, store, language, sessions, astray, threads>>

-----------------------------------------------------------------------------
(* The workers.  Each keeps the epoch it was started in.                     *)

Dead == [at |-> "dead", born |-> 0, context |-> <<>>, was |-> <<>>, got |-> "none", batch |-> {}]

AllDead_ButTheCollector == \A w \in Workers \ {"collector"} : thread[w].at = "dead"

\* stop joins the threads of all workers.
AllDead == \A w \in Workers : thread[w].at = "dead"
Serving(w) == ~stopped /\ InForce(thread[w].context)

Ends(w) == thread' = [thread EXCEPT ![w] = Dead]
Rests(w) == thread' = [thread EXCEPT ![w] = [Dead EXCEPT !.at = "idle", !.born = thread[w].born]]
GoesTo(w, at) == thread' = [thread EXCEPT ![w].at = at]

\* A round of a worker starts with a copy of the settings.
Begins(w, at, was) ==
    /\ thread[w].at = "idle"
    /\ ~stopped
    /\ thread' = [thread EXCEPT ![w].at = at, ![w].context = <<thread[w].born, Identity(saved)>>,
                                ![w].was = was]

UserOf(w) == thread[w].context[2][1]
Token(w) == thread[w].context[2][2]

LoopEnds(w) ==
    /\ thread[w].at = "idle"
    /\ stopped
    /\ Ends(w)
    /\ UNCHANGED <<agent, store, language, sessions, voice, astray, screen, tasks, results, left>>

Poll ==
    /\ MayCollect(saved)
    /\ ~paused
    /\ Begins("collector", "polled", <<>>)
    /\ Spend("polls")
    /\ UNCHANGED <<agent, store, language, sessions, voice, astray, screen, tasks, results>>

Checks ==
    /\ thread["collector"].at = "polled"
    /\ IF Serving("collector") THEN GoesTo("collector", "checked") ELSE Ends("collector")
    /\ UNCHANGED <<agent, store, language, sessions, voice, astray, screen, tasks, results, left>>

\* The lock is not held from the check on.
Collects ==
    /\ thread["collector"].at = "checked"
    /\ events' = Enqueued(UserOf("collector"))
    /\ Rests("collector")
    /\ UNCHANGED <<agent, cache, torn, language, sessions, voice, astray, screen, tasks, results, left>>

-----------------------------------------------------------------------------
(* The event worker: the language of the account, then the events.           *)

sync == thread["sync"]

ChoiceTasks == {t \in tasks : t.kind = "choice"}

\* _locale_update_io_lock: one request about the language at a time.
IoFree ==
    /\ sync.at \notin {"reading", "read"}
    /\ \A t \in ChoiceTasks : t.at \notin {"putting", "put"}

SyncBegins ==
    /\ HasSession(saved)
    /\ Begins("sync", "waiting", [locale |-> saved.locale, generation |-> generation])
    /\ Spend("rounds")
    /\ UNCHANGED <<agent, store, language, sessions, voice, astray, screen, tasks, results>>

Locks ==
    /\ sync.at = "waiting"
    /\ IoFree
    /\ GoesTo("sync", "reading")
    /\ UNCHANGED <<agent, store, language, sessions, voice, astray, screen, tasks, results, left>>

\* The server answers the request with a language, or not.
Reads ==
    /\ sync.at = "reading"
    /\ \E got \in AnswersTo(Token("sync")) :
           /\ thread' = [thread EXCEPT !["sync"].at = "read",
                  !["sync"].got = IF got = "ok" THEN spoken[owner[Token("sync")]] ELSE got]
           /\ Costs(got)
    /\ UNCHANGED <<agent, store, language, sessions, voice, astray, screen, tasks, results>>

\* An answer that a choice has overtaken ends the worker, like one that a change
\* of the session has.
OvertakenWhileReading ==
    /\ sync.at = "read"
    /\ ~Serving("sync") \/ sync.was.generation # generation
    /\ Ends("sync")
    /\ UNCHANGED <<agent, store, language, sessions, voice, astray, screen, tasks, results, left>>

\* Then the events of the moment are taken, when the account has consented.
Refreshes ==
    /\ sync.at = "read"
    /\ Serving("sync")
    /\ sync.was.generation = generation
    /\ IF sync.got \in Language
       THEN /\ confirmed' = [language |-> sync.got, for |-> sync.context[2]]
            /\ saved' = [saved EXCEPT !.locale =
                                IF sync.got = sync.was.locale THEN @ ELSE sync.got]
            /\ unsure' = (unsure /\ {sync.got, saved'.locale} # {spoken[UserOf("sync")]})
       ELSE UNCHANGED <<confirmed, saved, unsure>>
    /\ IF MayCollect(saved)
       THEN thread' = [thread EXCEPT !["sync"].at = "batch", !["sync"].batch = Pending]
       ELSE Rests("sync")
    /\ UNCHANGED <<epoch, stopped, paused, store, requested, entered, generation, sessions, spoken, astray,
                   screen, tasks, results, left>>

BatchEnds ==
    /\ sync.at = "batch"
    /\ IF ~Serving("sync") THEN Ends("sync") ELSE sync.batch = {} /\ Rests("sync")
    /\ UNCHANGED <<agent, store, language, sessions, voice, astray, screen, tasks, results, left>>

\* The next event in the order of the attempts reaches the server, or not; the
\* account's store of events may be full.
Sends ==
    /\ sync.at = "batch"
    /\ Serving("sync")
    /\ \E e \in sync.batch : \E got \in AnswersTo(Token("sync")) \cup {"full"} :
           /\ \A other \in sync.batch : e.tries <= other.tries
           /\ thread' = [thread EXCEPT !["sync"].at = "sent", !["sync"].was = e,
                                       !["sync"].got = got, !["sync"].batch = @ \ {e}]
           /\ astray' = IF Arrived(got) /\ e.of # owner[Token("sync")]
                        THEN astray \cup {[of |-> e.of, under |-> owner[Token("sync")], torn |-> torn]}
                        ELSE astray
           /\ got = "full" => Token("sync") \in live
           /\ Costs(got)
    /\ UNCHANGED <<agent, store, language, sessions, voice, screen, tasks, results>>

\* A late answer changes nothing.  Otherwise the event is sent, and the advice in
\* the answer is kept; or the session is over; or the batch is; or one attempt is.
SendAnswered ==
    /\ sync.at = "sent"
    /\ LET mark(new(_)) == events' = {IF e.id = sync.was.id THEN new(e) ELSE e : e \in events} IN
       CASE ~Serving("sync") ->
              Ends("sync") /\ UNCHANGED <<events, cache>>
         [] Serving("sync") /\ sync.got = "ok" ->
              /\ mark(LAMBDA e : [e EXCEPT !.synced = TRUE])
              /\ cache' \in {cache, cache \cup {UserOf("sync")}}
              /\ GoesTo("sync", "batch")
         [] Serving("sync") /\ sync.got = "refused" ->
              /\ thread' = [thread EXCEPT !["sync"].at = "dropping", !["sync"].was = saved]
              /\ UNCHANGED <<events, cache>>
         [] Serving("sync") /\ sync.got = "full" ->
              Rests("sync") /\ UNCHANGED <<events, cache>>
         [] Serving("sync") /\ sync.got \in {"failed", "lost"} ->
              /\ mark(LAMBDA e : [e EXCEPT !.tries = @ + 1])
              /\ GoesTo("sync", "batch")
              /\ UNCHANGED cache
    /\ UNCHANGED <<agent, torn, language, sessions, voice, astray, screen, tasks, results, left>>

\* _invalidate_runtime_session: the settings copied before lose their token and
\* replace those of now.  The identity is kept, and with it the unsent events.
Drops(w) ==
    /\ thread[w].at = "dropping"
    /\ Replace(Cleared(thread[w].was))
    /\ paused' = TRUE
    /\ Ends(w)
    /\ UNCHANGED <<store, requested, entered, generation, sessions, voice, astray, screen, tasks, results, left>>

-----------------------------------------------------------------------------
(* The advice worker.                                                        *)

advice == thread["advice"]

AdviceBegins ==
    /\ HasSession(saved)
    /\ Begins("advice", "asking", <<>>)
    /\ Spend("rounds")
    /\ UNCHANGED <<agent, store, language, sessions, voice, astray, screen, tasks, results>>

AdviceAsks ==
    /\ advice.at = "asking"
    /\ \E got \in AnswersTo(Token("advice")) :
           /\ thread' = [thread EXCEPT !["advice"].at = "asked", !["advice"].got = got]
           /\ Costs(got)
    /\ UNCHANGED <<agent, store, language, sessions, voice, astray, screen, tasks, results>>

AdviceAnswered ==
    /\ advice.at = "asked"
    /\ CASE ~Serving("advice") -> Ends("advice") /\ UNCHANGED cache
         [] Serving("advice") /\ advice.got = "ok" ->
              cache' = cache \cup {UserOf("advice")} /\ Rests("advice")
         [] Serving("advice") /\ advice.got = "refused" ->
              /\ thread' = [thread EXCEPT !["advice"].at = "dropping", !["advice"].was = saved]
              /\ UNCHANGED cache
         [] Serving("advice") /\ advice.got \in {"failed", "lost"} ->
              Rests("advice") /\ UNCHANGED cache
    /\ UNCHANGED <<agent, events, torn, language, sessions, voice, astray, screen, tasks, results, left>>

-----------------------------------------------------------------------------
(* Tasks of the screen: a choice of language, an answer to an advice.        *)

Task(kind, number, want) ==
    [kind |-> kind, at |-> "new", number |-> number, want |-> want, context |-> Context,
     generation |-> 0, got |-> "none"]

Becomes(t, new) == tasks' = (tasks \ {t}) \cup {new}
Discards(t) == tasks' = tasks \ {t}

Chooses ==
    /\ screen.at = "main"
    /\ Spend("choices")
    /\ \E l \in Language :
           /\ l # saved.locale \/ ChoiceTasks # {}
           /\ tasks' = tasks \cup {Task("choice", requested + 1, l)}
    /\ requested' = requested + 1
    /\ UNCHANGED <<agent, store, entered, generation, confirmed, sessions, voice, astray, thread, screen, results>>

\* Choices enter the agent in any order; one that a later choice came before is
\* dropped.
Enters(t) ==
    /\ t.kind = "choice"
    /\ t.at = "new"
    /\ IF InForce(t.context) /\ t.number > entered
       THEN /\ entered' = t.number
            /\ generation' = generation + 1
            /\ Becomes(t, [t EXCEPT !.at = "waiting", !.generation = generation + 1])
       ELSE Discards(t) /\ UNCHANGED <<entered, generation>>
    /\ UNCHANGED <<agent, store, requested, confirmed, sessions, voice, astray, thread, screen, results, left>>

Newest(t) == InForce(t.context) /\ t.generation = generation

\* Requests are sent one after the other, so the newest is the last one sent.
Takes(t) ==
    /\ t.kind = "choice"
    /\ t.at = "waiting"
    /\ IoFree
    /\ IF Newest(t) THEN Becomes(t, [t EXCEPT !.at = "putting"]) ELSE Discards(t)
    /\ UNCHANGED <<agent, store, language, sessions, voice, astray, thread, screen, results, left>>

Puts(t) ==
    /\ t.kind = "choice"
    /\ t.at = "putting"
    /\ \E got \in AnswersTo(t.context[2][2]) :
           /\ Becomes(t, [t EXCEPT !.at = "put", !.got = got])
           /\ Costs(got)
           /\ IF Arrived(got)
              THEN spoken' = [spoken EXCEPT ![owner[t.context[2][2]]] = t.want]
              ELSE UNCHANGED spoken
           /\ unsure' = (unsure \/ got = "lost" \/ (got = "ok" /\ ~InForce(t.context)))
    /\ UNCHANGED <<agent, store, language, sessions, astray, thread, screen, results>>

\* What the server confirmed is remembered even when a newer choice is on its
\* way, and a newest choice that fails goes back to it.
Settles(t) ==
    /\ t.kind = "choice"
    /\ t.at = "put"
    /\ confirmed' = IF t.got = "ok" /\ InForce(t.context)
                    THEN [language |-> t.want, for |-> t.context[2]] ELSE confirmed
    /\ saved' = [saved EXCEPT !.locale =
                       IF Newest(t) /\ confirmed'.for = t.context[2] THEN confirmed'.language ELSE @]
    /\ Discards(t)
    /\ UNCHANGED <<epoch, stopped, paused, store, requested, entered, generation, sessions, voice, astray,
                   thread, screen, results, left>>

Responds ==
    /\ screen.at = "main"
    /\ saved.user \in cache
    /\ Spend("responses")
    /\ tasks' = tasks \cup {Task("response", 0, saved.user)}
    /\ UNCHANGED <<agent, store, language, sessions, voice, astray, thread, screen, results>>

\* The task's thread takes the settings of the moment it starts.
Posts(t) ==
    /\ t.kind = "response"
    /\ t.at = "new"
    /\ \E got \in AnswersTo(saved.token) :
           /\ Becomes(t, [t EXCEPT !.at = "posted", !.context = Context,
                 !.got = IF Arrived(got) /\ owner[saved.token] # t.want THEN "refused" ELSE got])
           /\ Costs(got)
    /\ UNCHANGED <<agent, store, language, sessions, voice, astray, thread, screen, results>>

\* The advice in the answer is kept for the account that asked, and shown later.
Posted(t) ==
    /\ t.kind = "response"
    /\ t.at = "posted"
    /\ IF t.got = "ok" /\ InForce(t.context)
       THEN cache' = cache \cup {t.want} /\ results' = results \cup {t.want}
       ELSE UNCHANGED <<cache, results>>
    /\ Discards(t)
    /\ UNCHANGED <<agent, events, torn, language, sessions, voice, astray, thread, screen, left>>

\* The screen keeps the advice of an answer once more, whoever is signed in, also
\* while it shows the sign-in window.
Shows ==
    /\ screen.at \in {"main", "door", "settled"}
    /\ \E a \in results : cache' = cache \cup {a} /\ results' = results \ {a}
    /\ UNCHANGED <<agent, events, torn, language, sessions, voice, astray, thread, screen, tasks, left>>

-----------------------------------------------------------------------------
(* The screen: one thing at a time.                                          *)

Screen(at) == [at |-> at, user |-> NoAccount, token |-> 0, locale |-> SystemLanguage]

\* The user asks a question, also while observation is paused.
SubmitProblem ==
    /\ screen.at = "main"
    /\ saved.user # NoAccount
    /\ Spend("problems")
    /\ events' = Enqueued(saved.user)
    /\ UNCHANGED <<agent, cache, torn, language, sessions, voice, astray, threads>>

\* stop: what the window in front was doing is still observed, then the workers are
\* told to end.
ScreenStops ==
    /\ screen.at = "main"
    /\ screen' = Screen("stopping")
    /\ \/ UNCHANGED <<events, left>>
       \/ /\ MayCollect(saved)
          /\ ~paused
          /\ Spend("polls")
          /\ events' = Enqueued(saved.user)
    /\ stopped' = TRUE
    /\ epoch' = epoch + 1
    /\ UNCHANGED <<saved, paused, cache, torn, language, sessions, voice, astray, thread, tasks, results>>

\* Signing out goes on when all of them have, and is given up otherwise.
Joined ==
    /\ screen.at = "stopping"
    /\ AllDead
    /\ screen' = Screen("leaving")
    /\ paused' = TRUE
    /\ epoch' = epoch + 1
    /\ UNCHANGED <<saved, stopped, store, language, sessions, voice, astray, thread, tasks, results, left>>

JoinTimesOut ==
    /\ screen.at = "stopping"
    /\ ~AllDead
    /\ Spend("faults")
    /\ screen' = Screen("main")
    /\ UNCHANGED <<agent, store, language, sessions, voice, astray, thread, tasks, results>>

\* The server is told, if it can be.
Leaves ==
    /\ screen.at = "leaving"
    /\ \E got \in AnswersTo(saved.token) :
           /\ live' = IF Arrived(got) THEN live \ {saved.token} ELSE live
           /\ Costs(got)
    /\ screen' = Screen("left")
    /\ UNCHANGED <<agent, store, language, owner, voice, astray, thread, tasks, results>>

Forgets ==
    /\ screen.at = "left"
    /\ Replace([Cleared(saved) EXCEPT !.user = NoAccount])
    /\ screen' = Screen("emptying")
    /\ UNCHANGED <<paused, store, requested, entered, generation, sessions, voice, astray, thread, tasks,
                   results, left>>

Empties ==
    /\ screen.at = "emptying"
    /\ Empty
    /\ screen' = Screen("door")
    /\ UNCHANGED <<agent, language, sessions, voice, astray, thread, tasks, results, left>>

\* The server issues a session and is asked for it; without the second answer
\* nothing changes here.
SignsIn ==
    /\ screen.at = "door"
    /\ Spend("logins")
    /\ paused' = TRUE
    /\ epoch' = epoch + 1
    /\ \E a \in Account :
           /\ owner' = Append(owner, a)
           /\ live' = live \cup {Len(owner')}
           /\ screen' \in {screen, [at |-> "entered", user |-> a, token |-> Len(owner'), locale |-> spoken[a]]}
    /\ UNCHANGED <<saved, stopped, store, language, voice, astray, thread, tasks, results>>

\* The new session is saved first, and the store of another account emptied after it.
Adopts ==
    /\ screen.at = "entered"
    /\ Replace([saved EXCEPT !.user = screen.user, !.token = screen.token, !.locale = screen.locale])
    /\ unsure' = (spoken[screen.user] # screen.locale)
    /\ screen' = Screen(IF saved.user \in {NoAccount, screen.user} THEN "settled" ELSE "switching")
    /\ UNCHANGED <<paused, store, requested, entered, generation, sessions, spoken, astray, thread, tasks,
                   results, left>>

Switches ==
    /\ screen.at = "switching"
    /\ Empty
    /\ screen' = Screen("settled")
    /\ UNCHANGED <<agent, language, sessions, voice, astray, thread, tasks, results, left>>

\* Consent looks forward: what is stored is dropped.
Consents ==
    /\ screen.at = "settled"
    /\ ~MayCollect(saved)
    /\ Empty
    /\ saved' = [saved EXCEPT !.consents = @ \cup {saved.user}]
    /\ UNCHANGED <<epoch, stopped, paused, language, sessions, voice, astray, threads, left>>

Starts ==
    /\ screen.at = "settled"
    /\ MayCollect(saved)
    /\ paused' = FALSE
    /\ stopped' = FALSE
    /\ epoch' = epoch + 1
    /\ thread' = [w \in Workers |-> [Dead EXCEPT !.at = "idle", !.born = epoch + 1]]
    /\ screen' = Screen("main")
    /\ UNCHANGED <<saved, store, language, sessions, voice, astray, tasks, results, left>>

\* The program dies: what was not saved is gone.
ProgramDies ==
    /\ screen.at # "down"
    /\ Spend("crashes")
    /\ screen' = Screen("down")
    /\ thread' = [w \in Workers |-> Dead]
    /\ tasks' = {}
    /\ results' = {}
    /\ epoch' = 0
    /\ stopped' = FALSE
    /\ paused' = FALSE
    /\ requested' = 0
    /\ entered' = 0
    /\ generation' = 0
    /\ confirmed' = [language |-> saved.locale, for |-> Identity(saved)]
    /\ torn' = (torn \/ (screen.at \in {"emptying", "switching"} /\ (events # {} \/ cache # {})))
    /\ unsure' = (unsure \/ (HasSession(saved) /\ saved.locale # spoken[saved.user]))
    /\ UNCHANGED <<saved, events, cache, sessions, spoken, astray>>

\* A saved session is shown to the server, and its language taken over; only a
\* refusal leads to the sign-in window, with the identity and the events kept.
Launches ==
    /\ screen.at = "down"
    /\ IF ~HasSession(saved)
       THEN screen' = Screen("door") /\ UNCHANGED <<agent, confirmed, unsure, left>>
       ELSE \E got \in AnswersTo(saved.token) :
              /\ Costs(got)
              /\ screen' = Screen(IF got = "refused" THEN "door" ELSE "settled")
              /\ IF got = "ok"
                 THEN /\ saved' = [saved EXCEPT !.locale = spoken[saved.user]]
                      /\ confirmed' = [language |-> spoken[saved.user], for |-> Identity(saved)]
                      /\ UNCHANGED <<epoch, stopped>>
                 ELSE Replace(IF got = "refused" THEN Cleared(saved) ELSE saved)
              /\ unsure' = (unsure /\ got # "ok")
              /\ UNCHANGED paused
    /\ UNCHANGED <<store, requested, entered, generation, sessions, spoken, astray, thread, tasks, results>>

-----------------------------------------------------------------------------

DesktopInit ==
    \E case \in Situations :
        /\ saved = [user |-> case.user, token |-> IF case.user = NoAccount THEN 0 ELSE 1,
                    consents |-> case.consents, locale |-> SystemLanguage]
        /\ owner = IF case.user = NoAccount THEN <<>> ELSE <<case.user>>
        /\ live = 1..Len(owner)
        /\ spoken = [a \in Account |-> SystemLanguage]
        /\ epoch = 0 /\ stopped = FALSE /\ paused = FALSE
        /\ events = {} /\ cache = {} /\ torn = FALSE
        /\ requested = 0 /\ entered = 0 /\ generation = 0
        /\ confirmed = [language |-> saved.locale, for |-> Identity(saved)]
        /\ thread = [w \in Workers |-> Dead]
        /\ screen = Screen("down")
        /\ tasks = {} /\ results = {}
        /\ astray = {}
        /\ unsure = FALSE
        /\ left = case.left

Observing == Poll \/ Checks \/ Collects
Syncing == SyncBegins \/ Locks \/ Reads \/ OvertakenWhileReading \/ Refreshes \/ BatchEnds \/ Sends \/ SendAnswered
Advising == AdviceBegins \/ AdviceAsks \/ AdviceAnswered
Choosing == Chooses \/ \E t \in tasks : Enters(t) \/ Takes(t) \/ Puts(t) \/ Settles(t)
Responding == Responds \/ Shows \/ \E t \in tasks : Posts(t) \/ Posted(t)
SigningOut == ScreenStops \/ Joined \/ JoinTimesOut \/ Leaves \/ Forgets \/ Empties
SigningIn == SignsIn \/ Adopts \/ Switches \/ Consents \/ Starts

DesktopNext ==
    \/ Observing \/ Syncing \/ Advising \/ Choosing \/ Responding
    \/ SubmitProblem \/ SigningOut \/ SigningIn \/ ProgramDies \/ Launches
    \/ \E w \in Workers : LoopEnds(w) \/ Drops(w)
    \/ Revoke \/ SpeakElsewhere

DesktopSpec == DesktopInit /\ [][DesktopNext]_desktopVars

-----------------------------------------------------------------------------
(* Properties.                                                               *)

DesktopTypeOK ==
    /\ saved \in [user : Account \cup {NoAccount}, token : 0..Len(owner), consents : SUBSET Account,
                  locale : Language]
    /\ epoch \in Nat /\ stopped \in BOOLEAN /\ paused \in BOOLEAN
    /\ \A e \in events : e.of \in Account /\ e.tries \in 0..MaxTries /\ e.synced \in BOOLEAN
    /\ cache \subseteq Account /\ results \subseteq Account
    /\ \A w \in Workers :
          /\ thread[w].at \in {"dead", "idle", "polled", "checked", "waiting", "reading", "read", "batch", "sent",
                             "dropping", "asking", "asked"}
          /\ thread[w].got \in Language \cup AnswerKinds
    /\ confirmed.language \in Language
    /\ owner \in Seq(Account) /\ live \subseteq 1..Len(owner) /\ spoken \in [Account -> Language]
    /\ generation <= requested /\ entered <= requested

\* An event goes to the account it was observed under and to no other, through
\* sign-outs, switches, sessions that end and crashes; only a store that a crash kept
\* from being emptied may give its events to the next account.
EventsReachTheirAccount == \A a \in astray : a.torn

\* While an account is signed in, the store holds none of the events of another.
NothingLeftBehind ==
    screen.at = "main" /\ ~torn => \A e \in events : e.of = saved.user

\* While a session runs and nothing is on its way, the program shows the language that the account has at
\* the server: the last choice that succeeded, whatever order threads and answers
\* took.  Not so after a change it cannot know of.
LanguageIsTheServers ==
    /\ screen.at = "main" /\ ~stopped /\ ChoiceTasks = {} /\ sync.at \notin {"reading", "read"} /\ ~unsure
    => saved.locale = spoken[saved.user]

\* The three of them, for every thread of the program (agent.py 306, 460, 546, 571, 978).
AccountsAreKeptApart == DesktopTypeOK /\ EventsReachTheirAccount /\ NothingLeftBehind /\ LanguageIsTheServers

\* agent.py 931: "Locale refresh must never make collection or event synchronization
\* appear offline."  While the session lasts, the event worker does.
SyncLastsAsLongAsTheSession ==
    screen.at = "main" /\ ~stopped => sync.at # "dead"
=============================================================================
