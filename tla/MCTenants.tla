------------------------------ MODULE MCTenants ------------------------------
(* The users of the backend, in one run: their accounts (Accounts), the       *)
(* copies of their data merged into one (DatabaseMerge), and the reminders of *)
(* an advice on their devices (ReminderDelivery).  The three share nothing    *)
(* but the database, so a behaviour is one of one part, and the others stay   *)
(* as they began.                                                             *)
EXTENDS MCAccounts, MCDatabaseMerge, ReminderDelivery

VARIABLE part   \* the part that moves

allVars == <<part, vars, mergeVars, reminderVars>>

-----------------------------------------------------------------------------
\* A restart or a lost message anywhere, with an answer that ends the reminders ...
Faulty == [deadlines |-> {9}, answers |-> {"dismissed"}, faults |-> 1, mutes |-> 0]
\* ... or defers them, with a deadline inside the horizon, at which the advice is withdrawn
\* before it could be closed as ignored: that happens in the other two cases.
Deferred == [deadlines |-> {3}, answers |-> {"later"}, faults |-> 1, mutes |-> 0]
\* A pause.
Paused == [deadlines |-> {3}, answers |-> {"dismissed"}, faults |-> 0, mutes |-> 1]

ReminderBounds == {Faulty, Deferred, Paused}

-----------------------------------------------------------------------------
TenantsInit ==
    /\ part \in {"accounts", "merge", "reminders"}
    /\ Init /\ (part = "accounts" \/ case = Guessing)
    /\ MergeInit /\ (part = "merge" \/ source[u1] = Orphans)
    /\ ReminderInit /\ (part = "reminders" \/ left = Paused)

TenantsNext ==
    /\ UNCHANGED part
    /\ \/ part = "accounts" /\ Next /\ UNCHANGED <<mergeVars, reminderVars>>
       \/ part = "merge" /\ MergeNext /\ UNCHANGED <<vars, reminderVars>>
       \/ part = "reminders" /\ ReminderNext /\ UNCHANGED <<vars, mergeVars>>

TenantsSpec == TenantsInit /\ [][TenantsNext]_allVars
=============================================================================
