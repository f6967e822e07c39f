------------------------- MODULE MCLocalizationQueue -------------------------
(* Small instances of LocalizationQueue for TLC.                            *)
EXTENDS LocalizationQueue

CONSTANTS x1, x2, p1, p2

Chinese(status) == [status |-> status, v |-> 1, english |-> FALSE]
Gone == [status |-> "deleted", v |-> 0, english |-> FALSE]
Missing == [status |-> "none", v |-> 0, english |-> FALSE]

Case(who, what, reads, refined, switches, arrivals, crashes) ==
    [owner |-> [a \in Advice |-> IF a = x1 THEN p1 ELSE who],
     advice |-> [a \in Advice |-> IF a = x1 THEN Chinese("visible") ELSE what],
     locale |-> [u \in User |-> reads],
     bounds |-> [refined |-> refined, switches |-> switches, arrivals |-> arrivals,
                 crashes |-> crashes]]

\* The text and the language change while it is translated.
Changing == Case(p1, Gone, "zh-CN", 1, 2, 0, 0)
Refining == Case(p1, Gone, "en-US", 2, 0, 0, 1)
\* Two translations compete for the day's share.
Share == Case(p1, Chinese("visible"), "en-US", 0, 0, 0, 0)
\* Two users, one of whose advice is still to come, and live analysis.
Users == Case(p2, Missing, "en-US", 0, 0, 1, 0)

MCCases == {Changing, Refining, Share, Users}

=============================================================================
