---------------------------- MODULE ABUpdateTrial ----------------------------
(* ABUpdate, under its discipline, implements TrialBoot: the refinement mapping. *)
EXTENDS ABUpdate

NewestOf(entries) == CHOOSE e \in entries : \A f \in entries : f.rel <= e.rel

PermanentIn(entries) == {e \in entries : ~OnTrial(e)}
TrialsIn(entries)    == {e \in entries : OnTrial(e)}

KnownOf(entries) == NewestOf(PermanentIn(entries)).rel
TrialOf(entries) == IF TrialsIn(entries) = {} THEN NoRelease ELSE NewestOf(TrialsIn(entries)).rel
LeftOf(entries)  == IF TrialsIn(entries) = {} THEN 0 ELSE NewestOf(TrialsIn(entries)).left

Promise == INSTANCE TrialBoot WITH
  MaxTries <- Tries,
  None     <- NoRelease,
  known    <- KnownOf(esp),
  trial    <- TrialOf(esp),
  left     <- LeftOf(esp),
  on       <- running.rel

(* ADR-0005's promise: file names on the ESP, a bootloader that renames them, a gate that
   renames them back and an update job that is cut off anywhere amount to one known good
   release and one bounded trial. *)
KeepsPromise == Promise!Spec
=============================================================================
