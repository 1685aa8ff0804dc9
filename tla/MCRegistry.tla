----------------------------- MODULE MCRegistry -----------------------------
(***************************************************************************)
(* Instances of the registry for TLC: one device is installed; another,    *)
(* where there is one, may be made, on the same topic or on another.       *)
(***************************************************************************)
EXTENDS Registry, TLC

CONSTANTS d1, t1

OneInstalled == [d \in Ids |-> IF d = d1 THEN t1 ELSE None]

Commands == Permutations(Workers)

=============================================================================
