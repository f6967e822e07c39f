-------------------------- MODULE MCAnalysisQueue --------------------------
(* Small instances of AnalysisQueue for TLC.                               *)
EXTENDS AnalysisQueue, TLC

CONSTANTS alice, bob, a1, a2, b1

\* Who owns the events, and what they are about.
TwoOwners == (a1 :> alice) @@ (a2 :> alice) @@ (b1 :> bob)
ThreeTopics == (a1 :> "first") @@ (a2 :> "second") @@ (b1 :> "third")
SoloOwner == (a1 :> alice)
SoloTopic == (a1 :> "first")
PairOwners == (a1 :> alice) @@ (b1 :> bob)
PairTopics == (a1 :> "first") @@ (b1 :> "third")

\* No process dies, no transaction fails, no lease lapses, and a concluded
\* attempt is settled at once: every settlement finds its reservation open.
SteadySpec ==
    Init /\ [][/\ Next
               /\ ~\E w \in Worker : Crash(w) \/ ConcludeFails(w) \/ Abandon(w)
               /\ \A e \in Event : ~Lapsed(job', e)
               /\ \A w \in Worker : worker[w].step = "settling" => Settle(w)]_vars

Symmetry == Permutations(Worker) \cup Permutations(DirectCall)
=============================================================================
