----------------------------- MODULE MCConfigStore -----------------------------
(* Instances of ConfigStore for TLC.                                       *)
EXTENDS ConfigStore, TLC

\* Keys, values, entries and connections are interchangeable.
Symmetry == Permutations(Key) \cup Permutations(Value)
              \cup Permutations(Entry) \cup Permutations(Worker)
=============================================================================
