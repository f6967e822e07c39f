----------------------------- MODULE MCAccounts -----------------------------
(* A small instance of Accounts: scenarios in which the requests that may   *)
(* interfere with each other do.                                            *)
EXTENDS Accounts, TLC

CONSTANTS Owner, Ann, Old, New, Phone, Desk, Web, Invitation

Symmetry == Permutations(Caller)

NoCodes == [c \in Code |-> [state |-> "none", expires |-> 0, by |-> Nobody]]

Account(id, name, weak) == [id |-> id, name |-> name,
                            hash |-> [word |-> Old, salt |-> id, weak |-> weak]]

Session(id, user, device) == [id |-> id, user |-> user, device |-> device, used |-> 0,
                              expires |-> SessionTime, revoked |-> Nobody]

Past(id, user, device) == [Session(id, user, device) EXCEPT !.revoked = 0]

Scenario == [time |-> 2, ids |-> 9, ops |-> {}, open |-> FALSE, names |-> {Ann}, words |-> {Old},
             devices |-> {Phone}, users |-> {}, sessions |-> {}, codes |-> NoCodes]

\* Two people with the same invitation, the bootstrap code or none; a tenant of
\* before there were accounts may be waiting.
Registration(open, waiting) ==
    [Scenario EXCEPT
        !.names = {Owner, Ann}, !.ops = {"register", "invite", "delete"}, !.open = open, !.ids = 8, !.time = 1,
        !.users = IF waiting THEN {[id |-> 1, name |-> Owner, hash |-> Nobody]} ELSE {},
        !.codes = [NoCodes EXCEPT ![Bootstrap].state = "open"]]

\* The password is changed while somebody logs in, changes it too or deletes the account.
Change ==
    [Scenario EXCEPT
        !.ops = {"login", "change", "delete"}, !.words = {Old, New}, !.ids = 7, !.time = 0,
        !.devices = {Web}, !.users = {Account(1, Ann, FALSE)},
        !.sessions = {Session(2, 1, Phone), Session(3, 1, Desk)}]

\* Sessions come and go, and expire: the account has as many live ones and as many
\* ended ones as it may have.
Devices ==
    [Scenario EXCEPT
        !.ops = {"login", "logout"}, !.ids = 9,
        !.devices = {Phone, Web},
        !.users = {Account(1, Ann, FALSE)},
        !.sessions = {Session(2, 1, Phone), Session(3, 1, Desk), Past(4, 1, Web), Past(5, 1, Desk)}]

\* The account is deleted meanwhile, and its name taken again.
Deletion ==
    [Scenario EXCEPT
        !.ops = {"login", "write", "change", "delete", "register"}, !.ids = 7, !.time = 0,
        !.users = {Account(1, Ann, TRUE)},
        !.sessions = {Session(2, 1, Desk)},
        !.codes = [NoCodes EXCEPT ![Invitation] = [state |-> "open", expires |-> 2, by |-> Nobody]]]

\* Passwords are guessed.
Guessing ==
    [Scenario EXCEPT !.ops = {"login"}, !.words = {Old, New}, !.ids = 5, !.time = 4,
                     !.users = {Account(1, Ann, FALSE)}]

\* Exports of two accounts, with crashes and deletion.
Exports ==
    [Scenario EXCEPT
        !.ops = {"export", "delete", "crash"}, !.ids = 4, !.time = 4,
        !.users = {Account(1, Ann, FALSE), Account(2, Owner, FALSE)},
        !.sessions = {Session(3, 1, Phone), Session(4, 2, Desk)}]

AllCases == {Registration(FALSE, TRUE), Registration(FALSE, FALSE), Registration(TRUE, TRUE),
             Change, Devices, Deletion, Guessing, Exports}
=============================================================================
