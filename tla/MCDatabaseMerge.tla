--------------------------- MODULE MCDatabaseMerge ---------------------------
(* Small histories for DatabaseMerge: overlapping copies and colliding ids. *)
EXTENDS DatabaseMerge

CONSTANTS u1, u2, i1, i2, walk, read, seen1, seen2, ref1, ref2, home, away,
          advise1, advise2, topic1, topic2, tap1, tap2, key1, domain

Nothing == [t \in TableNames |-> {}]

Goal(text, at) == [id |-> i1, text |-> text, at |-> at]
Event(observed, label) == [id |-> i1, observed |-> observed, ref |-> ref1, label |-> label]
AdviceRow(id, text, topic, ref, status) ==
    [id |-> id, goal |-> i1, event |-> i1, text |-> text, topic |-> topic,
     ref |-> ref, status |-> status]
Feedback(tap, advice, kind) == [id |-> tap, advice |-> advice, key |-> key1, kind |-> kind]
Relevance(advice, weight) ==
    [id |-> [advice |-> advice, signal |-> "shown"], weight |-> weight, at |-> weight]
Outcome(advice, result) == [id |-> advice, result |-> result]
Charter(level) == [id |-> domain, level |-> level, redline |-> level = 2]
Trust(judged) == [id |-> domain, judged |-> judged]
Preference(goal, value, at, rev) == [id |-> goal, value |-> value, at |-> at, rev |-> rev]
Mute(advice, until) == [id |-> topic1, advice |-> advice, until |-> until]

\* One account, its advice judged once.
Walker(label, status, kind) ==
    [Nothing EXCEPT !.goal = {Goal(walk, 1)}, !.event = {Event(seen1, label)},
        !.advice = {AdviceRow(i1, advise1, topic1, ref1, status)},
        !.feedback = {Feedback(tap1, i1, kind)},
        !.relevance = {Relevance(i1, 1)}, !.outcome = {Outcome(i1, kind)},
        !.charter = {Charter(1)}, !.trust = {Trust(1)},
        !.preference = {Preference(i1, "often", 1, 2)}, !.mute = {Mute(i1, 1)}]

\* Another one that uses the same ids, topics and references for other things.
Reader ==
    [Nothing EXCEPT !.goal = {Goal(read, 1)}, !.event = {Event(seen2, home)},
        !.advice = {AdviceRow(i1, advise2, topic1, ref2, "active"),
                    AdviceRow(i2, advise1, topic2, ref1, "active")},
        !.feedback = {Feedback(tap1, i1, "useful"), Feedback(tap2, i2, "noise")},
        !.relevance = {Relevance(i1, 2)}, !.outcome = {Outcome(i1, "useful")},
        !.charter = {Charter(2)}, !.trust = {Trust(1)},
        !.preference = {Preference(i1, "never", 2, 1), Preference(None, "often", 2, 1)},
        !.mute = {Mute(i1, 2)}]

\* Feedback, outcome and signal whose advice is gone, and an unfinished advice.
Orphans ==
    [Nothing EXCEPT !.advice = {AdviceRow(i2, advise2, topic2, ref2, "provisional")},
        !.feedback = {Feedback(tap1, i1, "useful")},
        !.relevance = {Relevance(i1, 1)}, !.outcome = {Outcome(i1, "useful")}]

Histories ==
    { \* an answered copy of the destination, and a stranger
      [own |-> Walker(home, "active", "useful"),
       source |-> [u \in User |-> IF u = u1 THEN Walker(away, "dismissed", "noise") ELSE Reader]],
      \* two copies of one account come to a destination that uses their ids
      [own |-> [Reader EXCEPT !.advice = {AdviceRow(i1, advise2, topic2, ref1, "dismissed")},
                              !.feedback = {}],
       source |-> [u \in User |-> IF u = u1 THEN Walker(home, "active", "useful")
                                   ELSE Walker(away, "adopted", "useful")]],
      \* orphans and an account of the destination's name come to an empty one
      [own |-> Nothing,
       source |-> [u \in User |-> IF u = u1 THEN Orphans ELSE Walker(home, "active", "useful")]],
      \* two strangers with the same ids come to an empty destination
      [own |-> Nothing,
       source |-> [u \in User |-> IF u = u1 THEN Reader ELSE Walker(home, "active", "useful")]] }
=============================================================================
