---------------------------- MODULE MCRelayStore ----------------------------
(* Small instances of RelayStore for TLC.                                  *)
EXTENDS RelayStore, TLC

\* Identifiers are drawn freshly and keys are opaque, so both are symmetric;
\* so are devices, none of which has a role of its own.
Symmetry == Permutations(Id) \cup Permutations(Device) \cup Permutations(Key)
=============================================================================
