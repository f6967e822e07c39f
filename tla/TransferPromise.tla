-------------------------- MODULE TransferPromise --------------------------
(***************************************************************************)
(* What the relay promises about a transfer, without clocks, leases, files *)
(* or crashes: content is offered to the devices it was meant for, each of *)
(* them takes it at most once, it counts as delivered exactly when all     *)
(* have taken it, and until then the relay may only give it up as expired. *)
(* RelayStore implements this; the relay that RelayLocalSync assumes takes *)
(* no step it forbids.                                                     *)
(***************************************************************************)
CONSTANTS Id, Device

VARIABLES
    status,  \* where each transfer stands
    awaiting \* the targets that have not taken it

vars == <<status, awaiting>>

Live == {"open", "ready"}
Finished == {"expired", "delivered"}
Status == Live \cup Finished \cup {"free", "gone"}

TypeOK ==
    /\ status \in [Id -> Status]
    /\ awaiting \in [Id -> SUBSET Device]

Init ==
    /\ status = [t \in Id |-> "free"]
    /\ awaiting = [t \in Id |-> {}]

\* The transfers in late expire, the finished ones in old are forgotten.
Swept(late, old) ==
    [t \in Id |-> IF t \in old THEN "gone"
                  ELSE IF t \in late THEN "expired" ELSE status[t]]

SweptAwaiting(old) == [t \in Id |-> IF t \in old THEN {} ELSE awaiting[t]]

InState(states) == {t \in Id : status[t] \in states}

Sweep ==
    \E late \in SUBSET InState(Live) :
        \E old \in SUBSET (late \cup InState(Finished)) :
            /\ status' = Swept(late, old)
            /\ awaiting' = SweptAwaiting(old)

\* A new transfer may take the place a sweep made.
Open(t, targets) ==
    /\ status[t] = "free"
    /\ targets # {}
    /\ \E late \in SUBSET InState(Live) :
          \E old \in SUBSET (late \cup InState(Finished)) :
              /\ status' = [Swept(late, old) EXCEPT ![t] = "open"]
              /\ awaiting' = [SweptAwaiting(old) EXCEPT ![t] = targets]

Publish(t) ==
    /\ status[t] = "open"
    /\ status' = [status EXCEPT ![t] = "ready"]
    /\ UNCHANGED awaiting

Take(t, d) ==
    /\ status[t] = "ready"
    /\ d \in awaiting[t]
    /\ awaiting' = [awaiting EXCEPT ![t] = @ \ {d}]
    /\ status' = IF awaiting[t] = {d} THEN [status EXCEPT ![t] = "delivered"]
                 ELSE status

Next ==
    \/ Sweep
    \/ \E t \in Id :
          \/ \E targets \in SUBSET Device : Open(t, targets)
          \/ Publish(t)
          \/ \E d \in Device : Take(t, d)

Spec == Init /\ [][Next]_vars
=============================================================================
