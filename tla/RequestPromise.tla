--------------------------- MODULE RequestPromise ---------------------------
(***************************************************************************)
(* What local processing promises to the person with the phone             *)
(* (docs/relay-local-sync.md): a request submitted once takes effect at    *)
(* most once, is decided once, and the phone is told that decision and no  *)
(* other, however often messages are sent again.                           *)
(***************************************************************************)
EXTENDS Naturals

CONSTANT Request

VARIABLES
    progress, \* where each request stands
    effects   \* how many times it changed the business data

vars == <<progress, effects>>

TypeOK ==
    /\ progress \in [Request -> {"new", "pending", "accepted", "refused",
                                 "completed", "rejected"}]
    /\ effects \in [Request -> Nat]

Init ==
    /\ progress = [m \in Request |-> "new"]
    /\ effects = [m \in Request |-> 0]

Submit(m) ==
    /\ progress[m] = "new"
    /\ progress' = [progress EXCEPT ![m] = "pending"]
    /\ UNCHANGED effects

Accept(m) ==
    /\ progress[m] = "pending"
    /\ progress' = [progress EXCEPT ![m] = "accepted"]
    /\ effects' = [effects EXCEPT ![m] = @ + 1]

Refuse(m) ==
    /\ progress[m] = "pending"
    /\ progress' = [progress EXCEPT ![m] = "refused"]
    /\ UNCHANGED effects

Report(m) ==
    /\ progress[m] \in {"accepted", "refused"}
    /\ progress' = [progress EXCEPT ![m] =
                       IF @ = "accepted" THEN "completed" ELSE "rejected"]
    /\ UNCHANGED effects

Next == \E m \in Request : Submit(m) \/ Accept(m) \/ Refuse(m) \/ Report(m)

Spec == Init /\ [][Next]_vars
=============================================================================
