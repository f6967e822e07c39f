---------------------------- MODULE MCPublishing ----------------------------
(* A small instance of Publishing: scenarios in which the steps that may    *)
(* interfere with each other do.                                            *)
EXTENDS Publishing, TLC

CONSTANTS Bill, Reminder, Breach, Outage, Plea, Promise, Rumour, Debt, Leak, Safety, Money, Work

Symmetry == Permutations(Worker) \cup Permutations(Client)

Idea(goal, topic, requested) ==
    [goal |-> goal, topic |-> topic, requested |-> requested,
     bypass |-> FALSE, manual |-> FALSE, reviewed |-> FALSE, observable |-> TRUE,
     foretold |-> TRUE]

\* Two events about one thing, a warning that needs a review, one from discovery, and
\* a problem the user asks about; and two from before results of adoption were foretold,
\* with a prediction that can be observed and one that cannot.
MCCandidate ==
    [e \in Event |->
        CASE e \in {Bill, Reminder} -> Idea(Money, Debt, 2)
          [] e = Breach -> Idea(Money, Leak, 3)
          [] e = Promise -> [Idea(Money, Leak, 2) EXCEPT !.foretold = FALSE]
          [] e = Rumour -> [Idea(Work, Safety, 2) EXCEPT !.foretold = FALSE, !.observable = FALSE]
          [] e = Outage -> [Idea(Work, Safety, 4) EXCEPT !.reviewed = TRUE]
          [] OTHER -> [Idea(Work, Debt, 2) EXCEPT !.bypass = TRUE, !.manual = TRUE]]

MCQuota == [active |-> 2, quiet |-> 1]
MCCooldown == [active |-> 1, quiet |-> 2]
MCErrorWindow == [l \in 2..4 |-> IF l = 2 THEN 1 ELSE 2]
MCAllowed == [l \in 2..4 |-> IF l = 2 THEN 1 ELSE 0]
MCNeeded == [l \in 3..4 |-> l - 2]

NoTrust == [l \in Level |-> 0]

Scenario == [time |-> 1, ops |-> {"arrive"}, legacy |-> <<>>, events |-> {}, answers |-> {},
             scopes |-> {}, screens |-> 1, revisions |-> 1,
             modes |-> {"active"}, hearing |-> {TRUE}, trust |-> NoTrust,
             charter |-> [max |-> 2, redline |-> FALSE], charters |-> {}]

\* Preferences change while advice is on its way: of one goal at first, of all later.
Limits ==
    [Scenario EXCEPT !.ops = {"arrive", "refine"}, !.events = {Bill, Breach},
                     !.scopes = {Global, Money}, !.modes = {"paused"}]
LaterLimits == [Limits EXCEPT !.time = 2, !.scopes = {Global}]

\* Several things to say, and few that may be said.
Quotas ==
    [Scenario EXCEPT !.time = 3, !.events = {Bill, Outage, Plea}, !.scopes = {Global},
                     !.modes = {"quiet"},
                     !.trust = [NoTrust EXCEPT ![2] = 1],
                     !.charter = [max |-> 3, redline |-> FALSE],
                     !.charters = {[max |-> 2, redline |-> FALSE]}]

Important == [Quotas EXCEPT !.time = 2, !.modes = {"important_only"}]

\* Advice is called wrong, and more asks to be said.
Mistakes ==
    [Scenario EXCEPT !.time = 3, !.events = {Bill, Reminder, Outage}, !.answers = {"fact_error"},
                     !.trust = [NoTrust EXCEPT ![2] = 2],
                     !.charter = [max |-> 4, redline |-> TRUE]]

\* Advice is answered, refined and judged at the same time.
Judging ==
    [Scenario EXCEPT !.time = 2, !.ops = {"arrive", "refine", "outcome"}, !.events = {Bill},
                     !.answers = {"fact_error", "timing_error", "adopted", "guidance"}]

\* Advice of before results of adoption were foretold is answered and judged.
Legacy ==
    [Judging EXCEPT !.ops = {"outcome"}, !.legacy = <<Promise, Rumour>>, !.events = {},
                    !.answers = {"fact_error", "adopted"}]

\* The user silences a topic.
Silence ==
    [Scenario EXCEPT !.time = 2, !.ops = {"arrive", "outcome"},
                     !.events = {Bill, Outage}, !.answers = {"stop_topic", "adopted"},
                     !.trust = [NoTrust EXCEPT ![2] = 1],
                     !.charter = [max |-> 4, redline |-> TRUE]]

\* Two screens edit the preferences.
Settings ==
    [Scenario EXCEPT !.scopes = {Global, Money}, !.screens = 2, !.revisions = 2, !.modes = {"active", "quiet"},
                     !.hearing = {TRUE, FALSE}, !.time = 1]

AllCases == {Limits, LaterLimits, Quotas, Important, Mistakes, Judging, Legacy, Silence, Settings}
=============================================================================
