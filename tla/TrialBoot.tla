------------------------------ MODULE TrialBoot ------------------------------
(***************************************************************************)
(* What ADR-0005 promises of an update: one release is known to be good,    *)
(* at most one other is on trial, a trial has a fixed number of boots, a    *)
(* release becomes the known good one only by running on trial, and a       *)
(* machine whose trial is over is on the known good release.                *)
(***************************************************************************)
EXTENDS Integers

CONSTANTS Releases, First, MaxTries, None

VARIABLES known, trial, left, on

vars == <<known, trial, left, on>>

Init == known = First /\ trial = None /\ left = 0 /\ on = First

(* An update run on the known good release puts a newer one on trial. *)
Stage(r) ==
  /\ on = known /\ trial = None /\ r > known
  /\ trial' = r /\ left' = MaxTries
  /\ UNCHANGED <<known, on>>

(* An update discards an earlier trial before it stages its own. *)
Discard ==
  /\ on = known /\ trial # None
  /\ trial' = None /\ left' = 0
  /\ UNCHANGED <<known, on>>

(* A boot on trial uses a try and may not come up; otherwise the known good release boots. *)
Boot ==
  /\ on = None
  /\ IF left > 0 THEN left' = left - 1 /\ on' \in {None, trial}
                 ELSE on' = known /\ UNCHANGED left
  /\ UNCHANGED <<known, trial>>

Promote ==
  /\ trial # None /\ on = trial
  /\ known' = trial /\ trial' = None /\ left' = 0
  /\ UNCHANGED on

Stop == on # None /\ on' = None /\ UNCHANGED <<known, trial, left>>

Next == (\E r \in Releases : Stage(r)) \/ Discard \/ Boot \/ Promote \/ Stop

(* What an update may do, and with it that a machine that is off boots. *)
Safe == Init /\ [][Next]_vars
Spec == Safe /\ WF_vars(Boot)
=============================================================================
