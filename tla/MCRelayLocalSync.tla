-------------------------- MODULE MCRelayLocalSync --------------------------
(* Small instances of RelayLocalSync for TLC: what each run lets happen.   *)
EXTENDS RelayLocalSync, TLC

CONSTANT m1

Case(submitted, malformed, cut, keys, attempts, lost) ==
    [submitted |-> submitted, malformed |-> malformed, cut |-> cut, keys |-> keys,
     attempts |-> attempts, lost |-> lost]

\* One request whose response is lost once or asked for again; or two requests
\* whose responses may overtake each other: either work on one of them is cut
\* short, or a response is lost or asked for again.
OneOrTwo == {Case({m}, {}, {m}, 1, 1, 1) : m \in Request} \cup
            {Case(Request, {}, {m}, 1, 0, 0) : m \in Request} \cup
            {Case(Request, {}, {}, 1, 1, 1)}

\* OneOrTwo treats the requests alike.
Symmetry == Permutations(Request)

\* A request whose answer is lost once, refused by the application or not; or
\* one whose first transfer may expire unread.
Undisturbed == {Case({m1}, {m1}, {m1}, 1, 1, 1), Case({m1}, {}, {m1}, 1, 1, 1),
                Case({m1}, {}, {m1}, 2, 1, 0)}
=============================================================================
