------------------------------ MODULE ABUpdate ------------------------------
(***************************************************************************)
(* Two slots, the boot entries on the EFI partition, the bootloader, the    *)
(* health gate and the update job of one appliance (ADR-0005, ADR-0006).    *)
(*                                                                          *)
(* Durable state: `esp`, `slots`, `floor` (the accepted sequence) and       *)
(* `note` (the rollback record).  State of the running machine: `running`,  *)
(* and who has the ESP `mounted`.  State of plexosd: `gate` and `job`.      *)
(* `proven` is history: the releases the gate has found healthy while they  *)
(* ran.  `faults` counts the power cuts, crashes and I/O errors so far.     *)
(***************************************************************************)
EXTENDS BootEntries

CONSTANTS
  Releases,     \* the releases a bundle can carry; a release is its build stamp
  First,        \* the release the installer put in slot A
  MinSequence,  \* the floor each release's manifest demands
  Quality,      \* what each release does once it is booted
  Tries,        \* esp::INITIAL_TRIES
  MaxFaults,    \* bound on power cuts, crashes and I/O errors
  RemovalsFail, \* whether removing a superseded boot entry can fail
  Discipline    \* which rules of the discipline below the environment keeps

ASSUME ReleasesAssumption == Releases \subseteq Nat \ {0} /\ First \in Releases
ASSUME SequenceAssumption == MinSequence \in [Releases -> Nat]
ASSUME QualityAssumption ==
  /\ Quality \in [Releases -> {"good", "bad", "flaky", "dead"}]
  /\ Quality[First] = "good"
ASSUME BoundAssumption == Tries \in Nat \ {0} /\ MaxFaults \in Nat
ASSUME SwitchAssumption == RemovalsFail \in BOOLEAN /\ Discipline \subseteq {"decided", "settled", "daemon"}

Torn == 0   \* what a partition holds while it is written, or after a failed write

VARIABLES esp, slots, floor, note, running, mounted, gate, job, proven, faults

durable == <<esp, slots, floor, note>>
vars    == <<esp, slots, floor, note, running, mounted, gate, job, proven, faults>>

Content == Releases \cup {Torn}
Entry   == [rel : Releases, slot : Slots, left : (0..Tries) \cup {Permanent}, whole : BOOLEAN]

Off     == [rel |-> NoRelease, slot |-> "A"]
Gate(pc) == [pc |-> pc, verdict |-> "none"]
NoJob   == [pc |-> "idle", rel |-> NoRelease, prune |-> {}]

IsUp     == running.rel # NoRelease
DaemonUp == gate.pc # "down"
(* Mutant: the slot that is running is the one to write. *)
RunningTarget == running.slot

Target   == Other(running.slot)

(* Phase::is_running: Checking, Downloading, Writing and Activating. *)
IsRunning == job.pc \notin {"idle", "ready", "failed"}

(* What the slot of the running release must hold for /usr to be readable. *)
RunningEntry(e) == e.rel = running.rel /\ e.slot = running.slot

(***************************************************************************)
(* The discipline of a careful operator and a quiet machine.  Nothing in    *)
(* the code enforces any of it.  "decided": an update is requested only     *)
(* when the gate has decided about this boot.  "settled": and only when the *)
(* running release was found healthy and its entry carries no counter.      *)
(* "daemon": plexosd does not crash while an entry waits for its first boot *)
(* (it may with the ESP mounted, which then stays so until a restart).      *)
(***************************************************************************)
Settled == /\ running.rel \in proven
           /\ \E e \in esp : RunningEntry(e) /\ ~OnTrial(e) /\ e.whole
NothingWaits == \A e \in esp : OnTrial(e) => e.rel = running.rel \/ Exhausted(e)

TypeOK ==
  /\ esp \subseteq Entry
  /\ slots \in [Slots -> [usr : Content, verity : Content]]
  /\ floor \in Releases \cup {0}
  /\ note \in Releases \cup {NoRelease}
  /\ running \in [rel : Releases \cup {NoRelease}, slot : Slots]
  /\ mounted \in {"free", "gate", "job", "nobody"}
  /\ gate \in [pc : {"down", "wait", "healthy", "unhealthy", "restart", "done"},
               verdict : {"none", "good", "unrecorded", "unhealthy", "blind"}]
  /\ job \in [pc : {"idle", "check", "stage", "usr", "verity", "mount", "prune", "copy",
                    "record", "ready", "failed"},
              rel : Releases \cup {NoRelease}, prune : SUBSET Entry]
  /\ proven \subseteq Releases
  /\ faults \in 0..MaxFaults

Init ==
  /\ esp = {[rel |-> First, slot |-> "A", left |-> Permanent, whole |-> TRUE]}
  /\ slots = [s \in Slots |-> IF s = "A" THEN [usr |-> First, verity |-> First]
                              ELSE [usr |-> Torn, verity |-> Torn]]
  /\ floor = 0
  /\ note = NoRelease
  /\ running = [rel |-> First, slot |-> "A"]
  /\ mounted = "free"
  /\ gate = Gate("wait")
  /\ job = NoJob
  /\ proven = {First}
  /\ faults = 0

Fault == faults < MaxFaults /\ faults' = faults + 1

-----------------------------------------------------------------------------
(* The machine: bootloader, power, and PID 1's supervision of plexosd. *)

(***************************************************************************)
(* The bootloader takes a try and hands over.  A kernel that is truncated,  *)
(* a slot dm-verity refuses or a release that never gets as far as plexosd  *)
(* ends in a panic, and panic= boots the machine again.                     *)
(***************************************************************************)
Boot(e) ==
  /\ ~IsUp
  /\ e \in BootChoices(esp)
  /\ esp' = Booted(esp, e)
  /\ IF Verifies(e, slots) /\ Quality[e.rel] # "dead"
     THEN running' = [rel |-> e.rel, slot |-> e.slot] /\ gate' = Gate("wait")
     ELSE UNCHANGED <<running, gate>>
  /\ UNCHANGED <<slots, floor, note, mounted, job, proven, faults>>

GoDown == running' = Off /\ mounted' = "free" /\ gate' = Gate("down") /\ job' = NoJob

PowerLoss == IsUp /\ Fault /\ GoDown /\ UNCHANGED <<durable, proven>>

(* POST /api/power: power::schedule, then power::stop_now. *)
OperatorRestart == IsUp /\ DaemonUp /\ GoDown /\ UNCHANGED <<durable, proven, faults>>

(* plexosd dies: its threads go with it, the machine and its mounts stay up. *)
DaemonCrash ==
  /\ IsUp /\ DaemonUp /\ Fault
  /\ "daemon" \in Discipline => NothingWaits
  /\ mounted' = IF mounted = "free" THEN "free" ELSE "nobody"
  /\ gate' = Gate("down") /\ job' = NoJob
  /\ UNCHANGED <<durable, running, proven>>

(* PID 1 starts `plexosd --serve` again, and console::run starts a gate again. *)
DaemonRestart ==
  /\ IsUp /\ ~DaemonUp
  /\ gate' = Gate("wait")
  /\ UNCHANGED <<durable, running, mounted, job, proven, faults>>

-----------------------------------------------------------------------------
(* The gate thread: run_after_plex, then record_rollback and stop_now. *)

(***************************************************************************)
(* esp::with_esp_mounted.  The kernel refuses the same filesystem on the    *)
(* same mount point twice, so the gate and the job never list the ESP at    *)
(* once: the second to come gets an error.  A plexosd that dies with the    *)
(* ESP mounted leaves it so until the machine restarts.                     *)
(***************************************************************************)
Mount(who) == mounted = "free" /\ mounted' = who
Unmount    == mounted' = "free"
StaysMounted == Fault /\ mounted' = "nobody"
CannotMount ==
  /\ UNCHANGED mounted
  /\ \/ mounted # "free" /\ UNCHANGED faults
     \/ mounted = "free" /\ Fault

Decided(verdict) == [pc |-> "done", verdict |-> verdict]
CanBeHealthy     == Quality[running.rel] \in {"good", "flaky"}
CanBeUnhealthy   == Quality[running.rel] \in {"bad", "flaky"}

(* health::run_all has passed, at the latest 90 s after Plex was expected. *)
GateFindsHealthy ==
  /\ gate.pc = "wait" /\ CanBeHealthy
  /\ proven' = proven \cup {running.rel}
  /\ \/ Mount("gate") /\ gate' = Gate("healthy") /\ UNCHANGED faults
     \/ CannotMount /\ gate' = Decided("unrecorded")
  /\ UNCHANGED <<durable, running, job>>

(* clear_counter makes the one entry still counted permanent, if there is exactly one; what it did is not recorded as
   done where the ESP cannot be unmounted after it.  That it can be neither read nor unmounted is one fault. *)
GateClear ==
  /\ gate.pc = "healthy"
  /\ LET counted == StillCounted(esp) IN
       \/ /\ \/ counted = {} /\ UNCHANGED esp
             \/ \E e \in counted : counted = {e} /\ esp' = MarkedGood(esp, e)
          /\ \/ Unmount /\ gate' = Decided("good") /\ UNCHANGED faults
             \/ StaysMounted /\ gate' = Decided("unrecorded")
       \/ Fault /\ Unmount /\ gate' = Decided("unrecorded") /\ UNCHANGED esp
       \/ StaysMounted /\ gate' = Decided("unrecorded") /\ UNCHANGED esp
       \/ Cardinality(counted) > 1 /\ Unmount /\ gate' = Decided("unrecorded") /\ UNCHANGED <<esp, faults>>
  /\ UNCHANGED <<slots, floor, note, running, job, proven>>

(* A check has failed: trial_state mounts the ESP, or answers Trial::Unknown. *)
GateFindsUnhealthy ==
  /\ gate.pc = "wait" /\ CanBeUnhealthy
  /\ \/ Mount("gate") /\ gate' = Gate("unhealthy") /\ UNCHANGED faults
     \/ CannotMount /\ gate' = Decided("blind")
  /\ UNCHANGED <<durable, running, job, proven>>

(***************************************************************************)
(* decide_trial says whether a restart spends a try, where the ESP can be   *)
(* read and unmounted again: else Trial::Unknown.  The note is written on   *)
(* the way to the restart; that it could not be written is only logged.     *)
(***************************************************************************)
GateWeighsRestart ==
  /\ gate.pc = "unhealthy"
  /\ \/ /\ Unmount
        /\ \E trial \in DecideTrial(esp, running.rel) :
             IF trial \in Restartable
             THEN /\ gate' = [pc |-> "restart", verdict |-> "unhealthy"]
                  /\ \/ note' = running.rel /\ UNCHANGED faults
                     \/ Fault /\ UNCHANGED note
             ELSE gate' = Decided("unhealthy") /\ UNCHANGED <<note, faults>>
     \/ Fault /\ Unmount /\ gate' = Decided("blind") /\ UNCHANGED note
     \/ StaysMounted /\ gate' = Decided("blind") /\ UNCHANGED note
  /\ UNCHANGED <<esp, slots, floor, running, job, proven>>

GateRestart == gate.pc = "restart" /\ GoDown /\ UNCHANGED <<durable, proven, faults>>

-----------------------------------------------------------------------------
(* The update job: Job::begin, run_bundle, evaluate, write_slot. *)

JobStep(pc) == [job EXCEPT !.pc = pc]
JobFails    == job' = [NoJob EXCEPT !.pc = "failed"]
SameMachine == UNCHANGED <<note, running, gate, proven>>
SameEsp     == UNCHANGED <<esp, mounted>>

(* POST /api/update: begin refuses while a run holds the job. *)
Request(r) ==
  /\ DaemonUp /\ ~IsRunning
  /\ "decided" \in Discipline => gate.pc = "done"
  /\ "settled" \in Discipline => Settled
  /\ job' = [pc |-> "check", rel |-> r, prune |-> {}]
  /\ SameMachine /\ SameEsp /\ UNCHANGED <<slots, floor, faults>>

(* sequence::floor and sequence::check. *)
Max2(a, b)        == IF a > b THEN a ELSE b
(* Mutant: the recorded floor is not consulted. *)
FloorOfRunning == running.rel

SequenceFloor     == Max2(floor, running.rel)
SequenceAllows(r) == r >= SequenceFloor /\ SequenceFloor >= MinSequence[r]

(* plan::plan: an older or equal release is nothing to install. *)
PlanInstalls(r) == r > running.rel

Evaluate ==
  /\ job.pc = "check"
  /\ \/ ~SequenceAllows(job.rel) /\ JobFails
     \/ SequenceAllows(job.rel) /\ PlanInstalls(job.rel)  /\ job' = JobStep("stage")
     \/ SequenceAllows(job.rel) /\ ~PlanInstalls(job.rel) /\ job' = NoJob
  /\ SameMachine /\ SameEsp /\ UNCHANGED <<slots, floor, faults>>

(* A bundle that cannot be fetched or believed, and a run that was only a check. *)
GiveUp ==
  /\ job.pc \in {"check", "stage"}
  /\ \/ JobFails
     \/ job' = NoJob
  /\ SameMachine /\ SameEsp /\ UNCHANGED <<slots, floor, faults>>

(* Everything is on /var and the UKI is this slot's: the first partition write begins. *)
Stage ==
  /\ job.pc = "stage"
  /\ job' = JobStep("usr")
  /\ slots' = [slots EXCEPT ![Target].usr = Torn]
  /\ SameMachine /\ SameEsp /\ UNCHANGED <<floor, faults>>

(* Mutant: the hash tree is not written. *)
WriteUsrOnly ==
  /\ job.pc = "usr"
  /\ job' = JobStep("mount")
  /\ slots' = [slots EXCEPT ![Target] = [usr |-> job.rel, verity |-> Torn]]
  /\ SameMachine /\ SameEsp /\ UNCHANGED <<floor, faults>>

(* write_partition returns once what it wrote reads back with the right digest. *)
WriteUsr ==
  /\ job.pc = "usr"
  /\ job' = JobStep("verity")
  /\ slots' = [slots EXCEPT ![Target] = [usr |-> job.rel, verity |-> Torn]]
  /\ SameMachine /\ SameEsp /\ UNCHANGED <<floor, faults>>

WriteVerity ==
  /\ job.pc = "verity"
  /\ job' = JobStep("mount")
  /\ slots' = [slots EXCEPT ![Target].verity = job.rel]
  /\ SameMachine /\ SameEsp /\ UNCHANGED <<floor, faults>>

(* A write, or its read-back, fails: the slot stays as it is and nothing is activated. *)
WriteFails ==
  /\ job.pc \in {"usr", "verity"} /\ Fault
  /\ JobFails
  /\ SameMachine /\ SameEsp /\ UNCHANGED <<slots, floor>>

(* remove_superseded lists the ESP once; a listing that fails removes nothing. *)
MountEsp ==
  /\ job.pc = "mount"
  /\ \/ /\ Mount("job")
        /\ \/ /\ job' = [job EXCEPT !.pc = "prune", !.prune = Superseded(esp, running.rel)]
              /\ UNCHANGED faults
           \/ RemovalsFail /\ Fault /\ job' = JobStep("prune")
     \/ CannotMount /\ JobFails
  /\ SameMachine /\ UNCHANGED <<esp, slots, floor>>

(* It goes down that list; a removal that fails is swallowed. *)
Prune(e) ==
  /\ job.pc = "prune" /\ e \in job.prune
  /\ job' = [job EXCEPT !.prune = @ \ {e}]
  /\ \/ esp' = {f \in esp : ~SameName(f, e)} /\ UNCHANGED faults
     \/ RemovalsFail /\ Fault /\ UNCHANGED esp
  /\ SameMachine /\ UNCHANGED <<slots, floor, mounted>>

(* Mutant: no counter at all. *)
EntryForGood(whole)      == [rel |-> job.rel, slot |-> Target, left |-> Permanent, whole |-> whole]

(* install_entry: the file exists under its final name before it is whole. *)
NewEntry(whole) == [rel |-> job.rel, slot |-> Target, left |-> Tries, whole |-> whole]

InstallEntry ==
  /\ job.pc = "prune" /\ job.prune = {}
  /\ job' = JobStep("copy")
  /\ esp' = {e \in esp : ~SameName(e, NewEntry(FALSE))} \cup {NewEntry(FALSE)}
  /\ SameMachine /\ UNCHANGED <<slots, floor, mounted, faults>>

(* The copy is synced and the ESP unmounted; not being able to unmount fails the run. *)
CopyDone ==
  /\ job.pc = "copy"
  /\ esp' = (esp \ {NewEntry(FALSE)}) \cup {NewEntry(TRUE)}
  /\ \/ Unmount /\ job' = JobStep("record") /\ UNCHANGED faults
     \/ StaysMounted /\ JobFails
  /\ SameMachine /\ UNCHANGED <<slots, floor>>

ActivationFails ==
  /\ job.pc \in {"prune", "copy"}
  /\ JobFails /\ ((Fault /\ Unmount) \/ StaysMounted)
  /\ SameMachine /\ UNCHANGED <<esp, slots, floor>>

(* sequence::record never lowers the floor; that it could not be written is only noted. *)
Record ==
  /\ job.pc = "record"
  /\ job' = [NoJob EXCEPT !.pc = "ready", !.rel = job.rel]
  /\ \/ floor' = Max2(floor, job.rel) /\ UNCHANGED faults
     \/ Fault /\ UNCHANGED floor
  /\ SameMachine /\ SameEsp /\ UNCHANGED slots

-----------------------------------------------------------------------------
GateNext == GateFindsHealthy \/ GateClear \/ GateFindsUnhealthy \/ GateWeighsRestart \/ GateRestart
JobNext  ==
  \/ Evaluate \/ GiveUp \/ Stage \/ WriteUsr \/ WriteVerity \/ WriteFails \/ MountEsp
  \/ \E e \in job.prune : Prune(e)
  \/ InstallEntry \/ CopyDone \/ ActivationFails \/ Record
Next ==
  \/ \E e \in esp : Boot(e)
  \/ PowerLoss \/ OperatorRestart \/ DaemonCrash \/ DaemonRestart
  \/ GateNext
  \/ \E r \in Releases : Request(r)
  \/ JobNext

Spec == Init /\ [][Next]_vars

(***************************************************************************)
(* The firmware boots a machine that is off, PID 1's loop starts a plexosd  *)
(* that died, and the gate and the job are threads the kernel schedules.    *)
(* Nothing makes the operator ask for anything.                             *)
(***************************************************************************)
Fairness ==
  /\ WF_vars(\E e \in esp : Boot(e))
  /\ WF_vars(DaemonRestart)
  /\ WF_vars(GateNext)
  /\ WF_vars(JobNext)

FairSpec == Spec /\ Fairness

-----------------------------------------------------------------------------
(* Safety whatever the operator does and whenever anything fails. *)

(* The slot the machine runs from always holds the release it booted: no step of an
   update, whenever it is interrupted, writes to it (update.rs: every write goes to the
   slot that is not running). *)
RunningSlotIntact ==
  IsUp => slots[running.slot] = [usr |-> running.rel, verity |-> running.rel]

(* Past evaluation a run carries a release newer than the one running and no older than
   the floor, and once it may activate, the other slot holds that release whole: the two
   facts that make the order of write_slot's steps safe. *)
JobIsSound ==
  /\ IsRunning => IsUp
  /\ job.pc \in {"stage", "usr", "verity", "mount", "prune", "copy", "record"}
       => job.rel \in Releases /\ job.rel > running.rel /\ job.rel >= floor
  /\ job.pc = "verity" => slots[Target].usr = job.rel
  /\ job.pc \in {"mount", "prune", "copy", "record"}
       => slots[Target] = [usr |-> job.rel, verity |-> job.rel]

(* An entry for a release appears on the ESP only once its slot holds that release
   whole: activation is after both partitions have been written and read back. *)
NewNamesAreWritten ==
  \A e \in esp' : (\A f \in esp : f.rel # e.rel \/ f.slot # e.slot)
                  => slots[e.slot] = [usr |-> e.rel, verity |-> e.rel]
ActivatedAfterWritten == [][NewNamesAreWritten]_vars

(* The accepted sequence never goes down, and no release older than it, or than the one
   running, is ever written to a slot (sequence.rs: a machine can never be talked below
   the release it is executing). *)
WritesAreNewer ==
  /\ floor' >= floor
  /\ \A s \in Slots : slots'[s].usr \notin {slots[s].usr, Torn}
                       => slots'[s].usr >= floor /\ slots'[s].usr > running.rel
NothingOlderWritten == [][WritesAreNewer]_vars

-----------------------------------------------------------------------------
(* What ADR-0005 promises: it holds under the discipline, and not without it. *)

(* An entry is permanent only for a release the gate found healthy while it ran, and there is always one whose slot
   verifies: the way back from the next update. *)
KnownGoodKept == LET permanent == {e \in esp : ~OnTrial(e)} IN
  /\ \A e \in permanent : e.rel \in proven
  /\ \E e \in permanent : Verifies(e, slots)

-----------------------------------------------------------------------------
(* Liveness, under Fairness. *)

(* A machine that is off comes up again on something that verifies: a truncated entry, a
   stale one and a release that panics each use up their tries. *)
ComesBack == ~IsUp ~> IsUp

(* A machine that runs a bad release ends up on a healthy one by itself, unless the gate
   could not read the ESP and so did not know whether a restart helps. *)
BadReleaseIsLeft ==
  (IsUp /\ Quality[running.rel] = "bad")
    ~> ((IsUp /\ running.rel \in proven) \/ gate.verdict = "blind")
=============================================================================
