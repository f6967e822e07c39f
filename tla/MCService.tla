------------------------------ MODULE MCService ------------------------------
(* The conversation with one user, in one run: what may be said (Publishing), *)
(* which requests are admitted (Admission), and the desktop client that asks  *)
(* (Desktop).  The three share none of the state that is modelled, so a       *)
(* behaviour is one of one part, and the others stay as they began.           *)
EXTENDS MCPublishing, MCDesktop, Admission

VARIABLE part   \* the part that moves

allVars == <<part, vars, admissionVars, desktopVars>>

-----------------------------------------------------------------------------
Asked == [kind |-> "speech", work |-> 0, time |-> 4, arrivals |-> 4, slots |-> 1, cancels |-> 0,
          faults |-> 0, deletes |-> 0]

\* Recognitions of speech that are cancelled, crash, or outlive the account.
Speech == [Asked EXCEPT !.arrivals = 3, !.cancels = 1, !.faults = 1]
Deleted == [Asked EXCEPT !.arrivals = 3, !.deletes = 1, !.slots = 2]
\* Model requests, also slow ones; templates, which need no slot.
Model == [Asked EXCEPT !.arrivals = 3, !.kind = "model", !.slots = 2, !.work = 2, !.faults = 1]
Slow == [Asked EXCEPT !.kind = "model", !.work = 4]
Template == [Asked EXCEPT !.kind = "template", !.arrivals = 5, !.faults = 1]
\* Passwords that are verified again.
Password == [Asked EXCEPT !.kind = "password", !.time = 3]

AllScenarios == {Speech, Deleted, Model, Slow, Template, Password}

-----------------------------------------------------------------------------
ServiceInit ==
    /\ part \in {"publishing", "admission", "desktop"}
    /\ Init /\ (part = "publishing" \/ case = Settings)
    /\ AdmissionInit /\ (part = "admission" \/ scenario = Template)
    /\ DesktopInit /\ (part = "desktop" \/ left = New.left)

ServiceNext ==
    /\ UNCHANGED part
    /\ \/ part = "publishing" /\ Next /\ UNCHANGED <<admissionVars, desktopVars>>
       \/ part = "admission" /\ AdmissionNext /\ UNCHANGED <<vars, desktopVars>>
       \/ part = "desktop" /\ DesktopNext /\ UNCHANGED <<vars, admissionVars>>

ServiceSpec == ServiceInit /\ [][ServiceNext]_allVars
=============================================================================
