-------------------------------- MODULE Usize --------------------------------
(* The machine integer of lengths and limits. *)
EXTENDS Naturals

CONSTANT MaxUsize       \* usize::MAX

ASSUME UsizeAssumption == MaxUsize \in Nat \ {0}
==============================================================================
