------------------------------ MODULE MCDesktop ------------------------------
(* Small instances of Desktop for TLC.                                       *)
EXTENDS Desktop, TLC

CONSTANTS ann, bob, zh, en

Left == [polls |-> 0, problems |-> 0, rounds |-> 0, choices |-> 0, responses |-> 0, logins |-> 0,
         faults |-> 0, crashes |-> 0, revokes |-> 0, others |-> 0]
Case(chances) == [user |-> ann, consents |-> {ann, bob}, left |-> chances]

\* An account follows another on the same computer.
Switch == Case([Left EXCEPT !.polls = 1, !.problems = 1, !.rounds = 2, !.logins = 1, !.faults = 1])
\* The session ends, and the same or another account signs in.
Ended == Case([Left EXCEPT !.polls = 1, !.rounds = 2, !.logins = 1, !.revokes = 1, !.crashes = 1])
\* The program dies anywhere.
Dies == Case([Left EXCEPT !.problems = 1, !.rounds = 2, !.logins = 1, !.crashes = 1, !.faults = 1])
\* An account that has not consented.
New == [Case([Left EXCEPT !.polls = 2, !.rounds = 1, !.logins = 1]) EXCEPT !.consents = {ann}]
\* Choices of language, and one made elsewhere.
Language2 == Case([Left EXCEPT !.choices = 2, !.rounds = 1, !.faults = 1])
Elsewhere == Case([Left EXCEPT !.choices = 1, !.rounds = 2, !.others = 1])
Abroad == Case([Left EXCEPT !.choices = 1, !.rounds = 1, !.logins = 1, !.faults = 1])
Answers2 == Case([Left EXCEPT !.rounds = 1, !.responses = 1, !.logins = 1])

Languages == {Language2, Elsewhere, Abroad}
MCCases == Languages \cup {Switch, Ended, Dies, New, Answers2}
=============================================================================
