------------------------------ MODULE EarlyBoot ------------------------------
(***************************************************************************)
(* PID 1 in the initrd: it decides what to do about the layout of /var,     *)
(* asks which disk the firmware booted, and performs the boot plan, up to   *)
(* switch_root or to the panic that ends a failed boot.                     *)
(*                                                                          *)
(* Disks enumerate while it runs.  Every one of them carries an            *)
(* installation, so every GPT label of the plan names one partition on      *)
(* each; Signed are those whose slot holds the /usr and the hash tree that  *)
(* the booted kernel's root hash is of.  Which release boots next, and so   *)
(* which layout it expects, is ABUpdate's subject and free here.            *)
(***************************************************************************)
EXTENDS Integers, Sequences, FiniteSets

CONSTANTS
  Disks,      \* the disks with a MediaLith installation
  Home,       \* the one the firmware booted
  Signed,     \* those whose /usr the root hash verifies
  Layouts,    \* the layout versions releases implement
  CommandLines, \* what the kernel may be started with: sequences of [key, value]
  Processors, \* what processors may have, of CpuFeatures
  NoDisk,     \* no disk
  MaxBoots    \* bound on boots

ASSUME DisksAssumption == Home \in Signed /\ Signed \subseteq Disks /\ NoDisk \notin Disks /\ IsFiniteSet(Disks)
ASSUME LayoutsAssumption == Layouts \subseteq Nat \ {0} /\ Layouts # {} /\ MaxBoots \in Nat

VARIABLES
  phase,               \* what PID 1 does next
  args,                \* BootArgs, as parsed from the command line
  expects,             \* STATE_LAYOUT_VERSION of the release that boots
  present,             \* the disks the kernel has enumerated
  order,               \* how their device names sort
  sysfs,               \* /sys is mounted
  booted,              \* what booted_disk answered
  action,              \* what state::decide answered
  data, hash, var,     \* the disk each was taken from
  stamp,               \* what STATE_VERSION on each /var says, 0 if nothing readable
  boots                \* counter

plan == <<args, expects, order, booted, action>>
taken == <<data, hash, var>>
boot == <<phase, plan, present, sysfs, taken, stamp, boots>>

Unstamped == 0
Steps  == {"args", "decide", "ask", "pseudo", "data", "hash", "superblock", "verity", "usr", "var", "state", "stamp", "root"}
Orders == {f \in [Disks -> 1..Cardinality(Disks)] : \A d, e \in Disks : f[d] = f[e] => d = e}

-----------------------------------------------------------------------------
(* cpu.rs: the build requires nothing above the baseline, so no processor lacks anything. *)
CpuFeatures == {"SSE3", "SSSE3", "SSE4.1", "SSE4.2", "POPCNT", "CMPXCHG16B", "LAHF/SAHF", "AVX", "AVX2", "BMI1", "BMI2", "FMA"}
REQUIRED == {}
Lacks(detected) == {f \in CpuFeatures : f \in REQUIRED /\ f \notin detected}

(* BootArgs::parse: of two tokens with one key the later one counts; a flag without a value is one of "1". *)
Slots == {"a", "b"}
PlacesIn(line, key)  == {i \in DOMAIN line : line[i].key = key}
ValueOf(line, key) == line[CHOOSE i \in PlacesIn(line, key) : \A j \in PlacesIn(line, key) : j <= i].value

(* A root hash is told by its length and by being lowercase hexadecimal. *)
IsPlausibleRootHash(value) == value.length \in 64..128 /\ value.lowercaseHex

ParsesArgs(line) ==
  /\ PlacesIn(line, "plexos.slot") # {} /\ ValueOf(line, "plexos.slot") \in Slots
  /\ PlacesIn(line, "plexos.roothash") # {} /\ IsPlausibleRootHash(ValueOf(line, "plexos.roothash"))

BootArgs(line) ==
  [slot |-> ValueOf(line, "plexos.slot"), rootHash |-> ValueOf(line, "plexos.roothash"),
   debugShell |-> PlacesIn(line, "plexos.debug_shell") # {} /\ ValueOf(line, "plexos.debug_shell") # "0"]
NoArgs == [slot |-> "", rootHash |-> [length |-> 0, lowercaseHex |-> TRUE], debugShell |-> FALSE]

-----------------------------------------------------------------------------
(* clock.rs: the moment the image was built, by the fourth component of its version, is the earliest its clock may show.  A
   component is the five fields of a stamp, or empty; moments are minutes since the epoch. *)
DaysFromCivil(year, month, day) ==
  LET y == IF month <= 2 THEN year - 1 ELSE year
      yearOfEra == y % 400
      dayOfYear == (153 * (IF month > 2 THEN month - 3 ELSE month + 9) + 2) \div 5 + day - 1
  IN (y \div 400) * 146097 + yearOfEra * 365 + yearOfEra \div 4 - yearOfEra \div 100 + dayOfYear - 719468
HasBuildTime(version) ==
  /\ Len(version) >= 4 /\ Len(version[4]) = 5
  /\ version[4][2] \in 1..12 /\ version[4][3] \in 1..31 /\ version[4][4] \in 0..23 /\ version[4][5] \in 0..59
BuildTime(version) ==
  LET s == version[4] IN DaysFromCivil(s[1], s[2], s[3]) * 24 * 60 + s[4] * 60 + s[5]

(* raise_clock: an earlier reading is wrong. *)
Correction(now, floor) == IF now < floor THEN floor ELSE now
RaisedClock(now, version) == IF HasBuildTime(version) THEN Correction(now, BuildTime(version)) ELSE now

-----------------------------------------------------------------------------
(* state::decide *)
Proceed         == [kind |-> "proceed", to |-> Unstamped]
Initialise(n)   == [kind |-> "initialise", to |-> n]
Migrate(n)      == [kind |-> "migrate", to |-> n]
Restore(n)      == [kind |-> "restore", to |-> n]
Decide(found, expected) ==
  CASE found = Unstamped   -> Initialise(expected)
    [] found = expected -> Proceed
    [] found \in 1..(expected - 1) -> Migrate(expected)
    [] OTHER            -> Restore(expected)

Actions == {Proceed} \cup {Initialise(n) : n \in Layouts} \cup {Migrate(n) : n \in Layouts}
             \cup {Restore(n) : n \in Layouts}

BootTypeOK ==
  /\ phase \in Steps \cup {"off", "serving", "panic"}
  /\ args \in {NoArgs} \cup {BootArgs(line) : line \in {l \in CommandLines : ParsesArgs(l)}}
  /\ expects \in Layouts /\ present \subseteq Disks /\ order \in Orders
  /\ sysfs \in BOOLEAN /\ booted \in {Home, NoDisk} /\ action \in Actions
  /\ data \in Disks \cup {NoDisk} /\ hash \in Disks \cup {NoDisk} /\ var \in Disks \cup {NoDisk}
  /\ stamp \in [Disks -> Layouts \cup {Unstamped}]
  /\ boots \in 0..MaxBoots

BootInit ==
  /\ phase = "off" /\ args = NoArgs /\ expects = (CHOOSE n \in Layouts : TRUE) /\ present = {} /\ order = (CHOOSE f \in Orders : TRUE)
  /\ sysfs = FALSE /\ booted = NoDisk /\ action = Proceed
  /\ data = NoDisk /\ hash = NoDisk /\ var = NoDisk
  /\ stamp = [d \in Disks |-> Unstamped]
  /\ boots = 0

-----------------------------------------------------------------------------
(* The kernel and the firmware. *)

(* What is in memory, of the kernel or of PID 1, goes with the power. *)
Forgets ==
  /\ args' = NoArgs /\ booted' = NoDisk /\ action' = Proceed /\ present' = {} /\ sysfs' = FALSE
  /\ data' = NoDisk /\ hash' = NoDisk /\ var' = NoDisk

PowerOn ==
  /\ phase = "off" /\ boots < MaxBoots
  /\ boots' = boots + 1
  /\ phase' = "args" /\ expects' \in Layouts /\ order' \in Orders
  /\ Forgets /\ UNCHANGED stamp

(* A disk appears: on PCI at once, on USB seconds later. *)
Enumerate(d) ==
  /\ phase \in Steps /\ d \notin present
  /\ present' = present \cup {d}
  /\ UNCHANGED <<phase, plan, sysfs, taken, stamp, boots>>

(* A power cut, a restart, or the panic that follows fail(). *)
GoDown ==
  /\ phase # "off" /\ phase' = "off"
  /\ Forgets /\ UNCHANGED <<expects, order, stamp, boots>>

-----------------------------------------------------------------------------
(* main: a processor that lacks what the build requires, or a command line without a slot or a root hash, fails the boot
   before anything is mounted. *)
ParseArgs ==
  /\ phase = "args"
  /\ \E detected \in Processors, cmdline \in CommandLines :
       IF Lacks(detected) = {} /\ ParsesArgs(cmdline)
       THEN phase' = "decide" /\ args' = BootArgs(cmdline)
       ELSE phase' = "panic" /\ UNCHANGED args
  /\ UNCHANGED <<expects, order, booted, action, present, sysfs, taken, stamp, boots>>

(* main: STATE_VERSION is read, and the plan computed from it, before anything is mounted. *)
FoundDisk == IF var = NoDisk THEN Unstamped ELSE stamp[var]

DecideState ==
  /\ phase = "decide" /\ phase' = "ask"
  /\ action' = Decide(FoundDisk, expects)
  /\ UNCHANGED <<args, expects, order, booted, present, sysfs, taken, stamp, boots>>

(* execute, before its first step: booted_disk reads a variable that may not be there, and
   finds the partition it names under /sys. *)
Ask ==
  /\ phase = "ask" /\ phase' = "pseudo"
  /\ booted' \in {NoDisk} \cup {d \in {Home} : sysfs /\ d \in present}
  /\ UNCHANGED <<args, expects, order, action, present, sysfs, taken, stamp, boots>>

MountPseudo ==
  /\ phase = "pseudo" /\ phase' = "data"
  /\ sysfs' = TRUE
  /\ UNCHANGED <<plan, present, taken, stamp, boots>>

(* resolve_on: the label on the booted disk, or, when that is not known, on any; then the
   first name in order. *)
Candidates == {d \in present : booted \in {NoDisk, d}}
First      == CHOOSE d \in Candidates : \A e \in Candidates : order[d] <= order[e]

ResolveData ==
  /\ phase = "data" /\ Candidates # {} /\ phase' = "hash"
  /\ data' = First
  /\ UNCHANGED <<plan, present, sysfs, hash, var, stamp, boots>>

ResolveHash ==
  /\ phase = "hash" /\ Candidates # {} /\ phase' = "superblock"
  /\ hash' = First
  /\ UNCHANGED <<plan, present, sysfs, data, var, stamp, boots>>

(* Mutant: the label is looked for without end. *)
WaitForEver ==
  /\ phase \in {"data", "hash", "var"} /\ Candidates = {}
  /\ UNCHANGED boot

(* DEVICE_TIMEOUT has passed. *)
Timeout ==
  /\ phase \in {"data", "hash", "var"} /\ Candidates = {}
  /\ phase' = "panic"
  /\ UNCHANGED <<plan, present, sysfs, taken, stamp, boots>>

(* VeritySuperblock::parse: those of this release are sound; another's may be of a later version. *)
SuperblockParses(d) == IF d \in Signed THEN {TRUE} ELSE BOOLEAN

ReadSuperblock ==
  /\ phase = "superblock"
  /\ \E parsed \in SuperblockParses(hash) : phase' = IF parsed THEN "verity" ELSE "panic"
  /\ UNCHANGED <<plan, present, sysfs, taken, stamp, boots>>

(* create_verity: the device is there, and nothing has been compared yet. *)
CreateVerity ==
  /\ phase = "verity" /\ phase' = "usr"
  /\ UNCHANGED <<plan, present, sysfs, taken, stamp, boots>>

(* Mutant: the hash tree is believed. *)
MountUsrByData ==
  /\ phase = "usr"
  /\ phase' = IF data \in Signed THEN "var" ELSE "panic"
  /\ UNCHANGED <<plan, present, sysfs, taken, stamp, boots>>

(* The mount is the first to read through the device, and every block is checked against the root hash of the command
   line. *)
MountUsr ==
  /\ phase = "usr"
  /\ phase' = IF {data, hash} \subseteq Signed THEN "var" ELSE "panic"
  /\ UNCHANGED <<plan, present, sysfs, taken, stamp, boots>>

MountVar ==
  /\ phase = "var" /\ Candidates # {} /\ phase' = "state"
  /\ var' = First
  /\ UNCHANGED <<plan, present, sysfs, data, hash, stamp, boots>>

(* apply_state: nothing to do; a stamp to write, which empties the file first; no migration
   exists; a rollback goes on. *)
AfterState == [proceed |-> "root", initialise |-> "stamp", migrate |-> "panic", restore |-> "root"]

ApplyState ==
  /\ phase = "state" /\ phase' = AfterState[action.kind]
  /\ stamp' = IF action.kind = "initialise" THEN [stamp EXCEPT ![var] = Unstamped] ELSE stamp
  /\ UNCHANGED <<plan, present, sysfs, taken, boots>>

WriteStamp ==
  /\ phase = "stamp" /\ phase' = "root"
  /\ stamp' = [stamp EXCEPT ![var] = action.to]
  /\ UNCHANGED <<plan, present, sysfs, taken, boots>>

(* The /etc overlay, the moved mounts and switch_root. *)
SwitchRoot ==
  /\ phase = "root" /\ phase' = "serving"
  /\ UNCHANGED <<plan, present, sysfs, taken, stamp, boots>>

(* What comes before the plan, and any step of it, can fail; PID 1 says so, holds and exits. *)
StepFails ==
  /\ phase \in Steps \ {"ask"} /\ phase' = "panic"
  /\ UNCHANGED <<plan, present, sysfs, taken, stamp, boots>>

BootStep ==
  \/ ParseArgs \/ DecideState \/ Ask \/ MountPseudo \/ ResolveData \/ ResolveHash \/ Timeout
  \/ ReadSuperblock \/ CreateVerity \/ MountUsr \/ MountVar \/ ApplyState \/ WriteStamp \/ SwitchRoot

BootNext == PowerOn \/ GoDown \/ BootStep \/ StepFails \/ \E d \in Disks : Enumerate(d)

-----------------------------------------------------------------------------
(* No /usr is run that the kernel's root hash does not cover, whichever disks its two halves
   were found on and in whichever order those appeared, and that hash is a whole digest. *)
Told == args.slot \in Slots /\ IsPlausibleRootHash(args.rootHash)
RunsWhatWasSigned ==
  phase \in {"var", "state", "stamp", "root", "serving"} => Told /\ {data, hash} \subseteq Signed

(* A boot that has not ended: no wait for a disk keeps a slot from failing, and the bootloader from
   counting it (device.rs, DEVICE_TIMEOUT: "rather than hanging forever, which would defeat
   the rollback in ADR-0005 by never failing at all"). *)
Booting == phase \in Steps

(* The machine comes up on the /var of the disk the firmware booted (device.rs, resolve_on). *)
VarOfBootedDisk == phase = "serving" => var = Home

-----------------------------------------------------------------------------
BootSpec == BootInit /\ [][BootNext]_boot

=============================================================================
