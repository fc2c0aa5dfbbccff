--------------------------- MODULE MCEventManager ---------------------------
(* Model-checking instance of EventManager. *)
EXTENDS EventManager, TLC

\* Events, EventRefs and owners are interchangeable addresses.
Symmetry == Permutations(Event) \cup Permutations(Ref) \cup Permutations(Owner)
=============================================================================
