-------------------------------- MODULE Faults --------------------------------
(* What may happen in a behaviour, chosen at its start: the sum of the behaviours a run explores. *)
VARIABLE faults
Happens(word) == word \in faults
=============================================================================
