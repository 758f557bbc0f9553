----------------------------- MODULE BootEntries -----------------------------
(***************************************************************************)
(* What the file names on the EFI system partition say, and what each      *)
(* reader of them decides: systemd-boot (which entry boots), the health     *)
(* gate (is this boot still counted, which entry to make permanent) and     *)
(* the updater (which entries to remove).                                   *)
(*                                                                          *)
(* An entry is a record [rel, slot, left, whole].  `rel` and `left` are its *)
(* file name: plexos-<rel>+<left>-<done>.efi, or plexos-<rel>.efi when      *)
(* left = Permanent.  `slot` is the slot its kernel command line mounts,    *)
(* and `whole` is FALSE while the file is a truncated copy.                 *)
(***************************************************************************)
EXTENDS Integers, FiniteSets

Slots == {"A", "B"}
Other(s) == IF s = "A" THEN "B" ELSE "A"

NoRelease == 0
Permanent == -1

OnTrial(e)   == e.left # Permanent
Exhausted(e) == e.left = 0

(* Two entries with one name are one file. *)
SameName(e, f) == e.rel = f.rel /\ e.left = f.left

(***************************************************************************)
(* systemd-boot's order: an entry with no tries left sorts last, and        *)
(* otherwise the newer release sorts first.                                 *)
(***************************************************************************)
SortsBefore(e, f) ==
  \/ ~Exhausted(e) /\ Exhausted(f)
  \/ (Exhausted(e) <=> Exhausted(f)) /\ e.rel > f.rel

BootChoices(esp) == {e \in esp : \A f \in esp : ~SortsBefore(f, e)}

(***************************************************************************)
(* Before it hands over, the bootloader takes one try by renaming the       *)
(* entry; an entry with no counter, or a spent one, keeps its name, and so  *)
(* does one whose new name is taken.                                        *)
(***************************************************************************)
Booted(esp, e) ==
  IF e.left > 0 /\ ~(\E f \in esp : f.rel = e.rel /\ f.left = e.left - 1)
  THEN (esp \ {e}) \cup {[e EXCEPT !.left = @ - 1]}
  ELSE esp

(* Whether the kernel that `e` is finds, in its slot, the bytes its root hash names. *)
Verifies(e, slots) ==
  e.whole /\ slots[e.slot].usr = e.rel /\ slots[e.slot].verity = e.rel

(***************************************************************************)
(* gate::decide_trial.  The entry is looked up by the running release's     *)
(* name; when two entries carry it, the directory order decides, so the     *)
(* answer is a set.                                                         *)
(***************************************************************************)
Trial(e, esp) ==
  CASE ~OnTrial(e)                 -> "Permanent"
    [] OnTrial(e) /\ ~Exhausted(e) -> "Counting"
    [] OTHER -> IF \E f \in esp : f.rel # e.rel /\ ~Exhausted(f)
                THEN "Spent" ELSE "Exhausted"

DecideTrial(esp, running) ==
  LET mine == {e \in esp : e.rel = running}
  IN  IF mine = {} THEN {"Unknown"} ELSE {Trial(e, esp) : e \in mine}

(* Mutant: a boot whose last try is being spent stays up. *)
RestartableWhileCounting == {"Counting"}

(* Verdict::demands_restart: the trials a restart can do something about. *)
Restartable == {"Counting", "Spent"}

(* gate::clear_counter considers every entry still counted, whichever of them booted. *)
StillCounted(esp) == {e \in esp : OnTrial(e) /\ ~Exhausted(e)}

(* Mutant: the entry is copied to its new name and the old name is left. *)
MarkedByCopy(esp, e) == esp \cup {[e EXCEPT !.left = Permanent]}

(* esp::mark_good: rename(2) to the name with no counter, replacing what had it. *)
MarkedGood(esp, e) ==
  {f \in esp : f # e /\ ~(f.rel = e.rel /\ f.left = Permanent)}
    \cup {[e EXCEPT !.left = Permanent]}

(* Mutant: the newest release is the one to keep. *)
AllButNewest(esp, running) == {e \in esp : \E f \in esp : f.rel > e.rel}

(* esp::remove_superseded: everything that does not carry the running release's name. *)
Superseded(esp, running) == {e \in esp : e.rel # running}
=============================================================================
