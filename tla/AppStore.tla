------------------------------ MODULE AppStore ------------------------------
(***************************************************************************)
(* The Plex app images on /var (ADR-0007, ADR-0010): the provisioning job   *)
(* that builds, records, publishes and activates one, the retention that    *)
(* removes others, and the verified loop mount of the active one.           *)
(*                                                                          *)
(* Files are known by what is in them: an image holds the bytes of one run  *)
(* of mkfs.erofs, a record the digest of one, and each run of mkfs.erofs    *)
(* writes bytes of its own.  Whether Plex runs from the mount is            *)
(* PlexServer's subject.                                                    *)
(***************************************************************************)
EXTENDS Integers, FiniteSets

CONSTANTS
  Versions,    \* the versions of Plex a package can carry; newer is greater
  Keep,        \* store::KEEP
  Loops,       \* the kernel's loop devices
  MaxBuilds,   \* bound on images built
  MaxFaults    \* bound on failures, crashes and power cuts

ASSUME VersionsAssumption == Versions \subseteq Nat \ {0} /\ IsFiniteSet(Versions)
ASSUME BoundAssumption ==
  Keep \in Nat \ {0} /\ Loops \in Nat \ {0} /\ MaxBuilds \in Nat /\ MaxFaults \in Nat

Nothing == 0      \* no file, no link, no mount
Damaged == -1     \* half written, or no longer what was written

VARIABLES
  image, record,   \* what the version-named image and record files hold
  staging,         \* what the .incoming image of a version holds
  package,         \* the version .package.deb carries, Nothing or Damaged
  current,         \* the version the `current` link names
  mounted,         \* the version mounted, and the bytes it was mounted from
  loops,           \* loop devices in use
  job,             \* the provisioning job
  up,              \* the machine is up
  built, faults,   \* counters
  spoiled          \* history: whether a file decayed, or a version was installed again

disk == <<image, record, staging, package, current>>
rest == <<mounted, loops, up, built, spoiled>>
vars == <<disk, job, rest, faults>>

Bytes     == 1..MaxBuilds
Contents  == Bytes \cup {Nothing, Damaged}
Installed == {v \in Versions : image[v] # Nothing}
NotMounted == [ver |-> Nothing, bytes |-> Nothing]
NoJob(pc)  == [pc |-> pc, ver |-> Nothing, was |-> Nothing, drop |-> {}]

(* provision::Phase::is_running *)
IsRunning == job.pc \notin {"idle", "done", "failed"}

TypeOK ==
  /\ image \in [Versions -> Contents] /\ record \in [Versions -> Contents]
  /\ staging \in [Versions -> Contents]
  /\ package \in Versions \cup {Nothing, Damaged} /\ current \in Versions \cup {Nothing}
  /\ mounted \in [ver : Versions, bytes : Bytes] \cup {NotMounted}
  /\ loops \in 0..Loops
  /\ job \in [pc : {"idle", "receive", "verify", "unpack", "mkfs", "record", "digest", "publish",
                    "activate", "remove", "swap", "mount", "prune", "done", "failed"},
              ver : Versions \cup {Nothing}, was : Versions \cup {Nothing}, drop : SUBSET Versions]
  /\ up \in BOOLEAN /\ built \in 0..MaxBuilds /\ faults \in 0..MaxFaults
  /\ spoiled \subseteq {"decay", "reinstall"}

Init ==
  /\ image = [v \in Versions |-> Nothing] /\ record = image /\ staging = image
  /\ package = Nothing /\ current = Nothing
  /\ mounted = NotMounted /\ loops = 0
  /\ job = NoJob("idle")
  /\ up = TRUE /\ built = 0 /\ faults = 0 /\ spoiled = {}

Fault      == faults < MaxFaults /\ faults' = faults + 1
Goto(pc)   == job' = [job EXCEPT !.pc = pc]
JobFails   == job' = NoJob("failed")

-----------------------------------------------------------------------------
(* store::Store::superseded and mount::check. *)

(* Mutants: one more is kept; the version being installed is not left out. *)
SupersededByMore(v) ==
  {w \in Installed \ {v} : Cardinality({x \in Installed \ {v} : x > w}) >= Keep}
SupersededByAll(v) ==
  {w \in Installed : Cardinality({x \in Installed : x > w}) >= Keep - 1}

(* Everything but the active version and the Keep - 1 newest others. *)
SupersededBy(v) ==
  {w \in Installed \ {v} : Cardinality({x \in Installed \ {v} : x > w}) >= Keep - 1}

(* The image is there, the record is readable, and the one hashes to the other. *)
Verified(v) == image[v] # Nothing /\ image[v] # Damaged /\ record[v] = image[v]

-----------------------------------------------------------------------------
(* provision::run and build::install_plan, in order. *)

(* POST /api/provision and its upload and media forms: Job::begin, then a package file. *)
Request ==
  /\ up /\ ~IsRunning
  /\ job' = NoJob("receive")
  /\ package' \in {package, Damaged}
  /\ UNCHANGED <<image, record, staging, current, rest, faults>>

(* Mutant: a transfer that stands still is waited for. *)
ReceiveHangs == job.pc = "receive" /\ UNCHANGED vars

(* It arrives whole; or the transfer fails and removes it; or the catalogue does not answer. *)
Receive ==
  /\ job.pc = "receive"
  /\ \/ package' \in Versions /\ Goto("verify")
     \/ package' \in {package, Nothing} /\ JobFails
  /\ UNCHANGED <<image, record, staging, current, rest, faults>>

(* The signature, the members and the version; then what to drop is decided and whatever an
   earlier attempt at this version left is cleared. *)
Verify ==
  /\ job.pc = "verify"
  /\ \/ /\ built < MaxBuilds
        /\ job' = [pc |-> "unpack", ver |-> package, was |-> current, drop |-> SupersededBy(package)]
        /\ staging' = [staging EXCEPT ![package] = Nothing]
        /\ spoiled' = IF package \in Installed THEN spoiled \cup {"reinstall"} ELSE spoiled
        /\ UNCHANGED faults
     \/ JobFails /\ UNCHANGED <<staging, spoiled, faults>>
  /\ UNCHANGED <<image, record, package, current, mounted, loops, up, built>>

(* Any step of the plan can fail, and leaves what it has done: of a removal, the record. *)
StepFails ==
  /\ job.pc \in {"unpack", "mkfs", "record", "digest", "publish", "activate", "remove"}
  /\ Fault /\ JobFails
  /\ \/ UNCHANGED image
     \/ \E v \in job.drop : job.pc = "remove" /\ image' = [image EXCEPT ![v] = Nothing]
  /\ UNCHANGED <<record, staging, package, current, rest>>

(* The tree is there; mkfs.erofs begins to write. *)
Unpack ==
  /\ job.pc = "unpack" /\ Goto("mkfs")
  /\ staging' = [staging EXCEPT ![job.ver] = Damaged]
  /\ UNCHANGED <<image, record, package, current, rest, faults>>

Mkfs ==
  /\ job.pc = "mkfs" /\ Goto("record")
  /\ built' = built + 1
  /\ staging' = [staging EXCEPT ![job.ver] = built + 1]
  /\ UNCHANGED <<image, record, package, current, mounted, loops, up, spoiled, faults>>

(* fs::write empties the record, then fills it. *)
OpenRecord ==
  /\ job.pc = "record" /\ Goto("digest")
  /\ record' = [record EXCEPT ![job.ver] = Damaged]
  /\ UNCHANGED <<image, staging, package, current, rest, faults>>

(* Mutant: `current` is moved before the image has its name. *)
ActivateFirst ==
  /\ job.pc = "digest" /\ Goto("publish")
  /\ current' = job.ver
  /\ record' = [record EXCEPT ![job.ver] = staging[job.ver]]
  /\ UNCHANGED <<image, staging, package, rest, faults>>

WriteRecord ==
  /\ job.pc = "digest" /\ Goto("publish")
  /\ record' = [record EXCEPT ![job.ver] = staging[job.ver]]
  /\ UNCHANGED <<image, staging, package, current, rest, faults>>

(* The rename, and then the unpacked tree goes. *)
Publish ==
  /\ job.pc = "publish" /\ Goto("activate")
  /\ image' = [image EXCEPT ![job.ver] = staging[job.ver]]
  /\ staging' = [staging EXCEPT ![job.ver] = Nothing]
  /\ UNCHANGED <<record, package, current, rest, faults>>

(* A second link renamed over `current`. *)
Activate ==
  /\ job.pc = "activate" /\ Goto("remove")
  /\ current' = job.ver
  /\ UNCHANGED <<image, record, staging, package, rest, faults>>

(* One superseded version: its image, then its record. *)
Remove(v) ==
  /\ job.pc = "remove" /\ v \in job.drop
  /\ job' = [job EXCEPT !.drop = @ \ {v}]
  /\ image' = [image EXCEPT ![v] = Nothing] /\ record' = [record EXCEPT ![v] = Nothing]
  /\ UNCHANGED <<staging, package, current, rest, faults>>

PlanDone ==
  /\ job.pc = "remove" /\ job.drop = {} /\ Goto("swap")
  /\ package' = Nothing
  /\ UNCHANGED <<image, record, staging, current, rest, faults>>

-----------------------------------------------------------------------------
(* provision::spawn once the plan is done: swap or mount_and_start, then prune_superseded. *)

(* Mutant: the loop device is not released. *)
UnmountOnly ==
  /\ job.pc = "swap"
  /\ mounted' = NotMounted /\ Goto("mount") /\ UNCHANGED <<loops, faults>>
  /\ UNCHANGED <<disk, up, built, spoiled>>

(* unmount_current: nothing to do; done, and the device released or leaked; or refused, and
   the version that ran goes on. *)
Unmount ==
  /\ job.pc = "swap"
  /\ \/ mounted = NotMounted /\ Goto("mount") /\ UNCHANGED <<mounted, loops, faults>>
     \/ /\ mounted # NotMounted
        /\ mounted' = NotMounted /\ Goto("mount")
        /\ \/ loops' = loops - 1 /\ UNCHANGED faults
           \/ Fault /\ UNCHANGED loops
     \/ /\ mounted # NotMounted
        /\ Fault /\ Goto("prune") /\ UNCHANGED <<mounted, loops>>
  /\ UNCHANGED <<disk, up, built, spoiled>>

(* appmount::mount_current: verified against the record, attached, mounted; a device attached
   before a mount that fails stays attached. *)
MountIf(allowed) ==
  IF allowed /\ loops < Loops
  THEN /\ loops' = loops + 1
       /\ \/ mounted' = [ver |-> current, bytes |-> image[current]] /\ UNCHANGED faults
          \/ Fault /\ UNCHANGED mounted
  ELSE UNCHANGED <<mounted, loops, faults>>

MountCurrent == MountIf(current \in Versions /\ Verified(current))

Mount ==
  /\ job.pc = "mount" /\ MountCurrent
  /\ job' = [job EXCEPT !.pc = "prune"]
  /\ UNCHANGED <<disk, up, built, spoiled>>

(* prune_superseded asks again, and skips what it cannot remove. *)
Prune ==
  /\ job.pc = "prune"
  /\ LET gone == IF current = Nothing THEN {} ELSE SupersededBy(current) IN
     \E images \in SUBSET gone : \E records \in SUBSET images :
       /\ image'  = [v \in Versions |-> IF v \in images THEN Nothing ELSE image[v]]
       /\ record' = [v \in Versions |-> IF v \in records THEN Nothing ELSE record[v]]
       /\ IF records = gone THEN UNCHANGED faults ELSE Fault
  /\ job' = [job EXCEPT !.pc = "done", !.drop = {}]
  /\ UNCHANGED <<staging, package, current, rest>>

(* The thread panics: Unfinished's Drop records the failure. *)
Panic == IsRunning /\ Fault /\ JobFails /\ UNCHANGED <<disk, rest>>

-----------------------------------------------------------------------------
(* What happens to the machine, and to its disk. *)

DaemonCrash ==
  /\ up /\ Fault /\ job' = NoJob("idle")
  /\ UNCHANGED <<disk, rest>>

(* With the machine go the job, the mount and every loop device. *)
GoDown ==
  /\ up /\ Fault
  /\ up' = FALSE /\ job' = NoJob("idle") /\ mounted' = NotMounted /\ loops' = 0
  /\ UNCHANGED <<disk, built, spoiled>>

(* PID 1 runs plexosd --mount-plex once, before it serves. *)
BootUp ==
  /\ ~up /\ up' = TRUE /\ MountCurrent
  /\ UNCHANGED <<disk, job, built, spoiled>>

(* A file is no longer what was written: a failing disk, or a power cut before the data. *)
Decay(v) ==
  /\ Fault /\ spoiled' = spoiled \cup {"decay"}
  /\ \/ image[v] # Nothing /\ image' = [image EXCEPT ![v] = Damaged] /\ UNCHANGED record
     \/ record[v] # Nothing /\ record' = [record EXCEPT ![v] = Damaged] /\ UNCHANGED image
  /\ UNCHANGED <<staging, package, current, mounted, loops, job, up, built>>

-----------------------------------------------------------------------------
JobStep ==
  \/ Receive \/ Verify \/ Unpack \/ Mkfs \/ OpenRecord \/ WriteRecord \/ Publish
  \/ Activate \/ PlanDone \/ Unmount \/ Mount \/ Prune
  \/ \E v \in Versions : Remove(v)

Next ==
  \/ Request \/ JobStep \/ StepFails \/ Panic
  \/ DaemonCrash \/ GoDown \/ BootUp \/ \E v \in Versions : Decay(v)

Spec     == Init /\ [][Next]_vars
(* The job's thread runs, its transfers time out, and PID 1 boots the machine. *)
FairSpec == Spec /\ WF_vars(JobStep) /\ WF_vars(BootUp)

-----------------------------------------------------------------------------
(* `current` never names an image that is not there, however an install is interrupted and
   whatever the two passes of retention remove (store.rs: "a dangling symlink and a Plex that
   cannot start"). *)
CurrentNeverDangles == current # Nothing => image[current] # Nothing

(* What is mounted is bytes a build produced, never a torn or a decayed file. *)
MountedIsWhole == mounted # NotMounted => mounted.bytes \in Bytes

(* Every loop device in use is under the mount or was lost to a failure: swaps do not leak
   the eight there are (appmount.rs, unmount_current). *)
LoopsAccountedFor ==
  loops <= (IF mounted = NotMounted THEN 0 ELSE 1) + faults

(* The active version mounts at the next boot, when nothing has decayed and the run in
   flight or the last one cut off was not for it. *)
FreshInstallMounts ==
  spoiled = {} /\ current # Nothing => Verified(current)

(* The same of a version that was installed again: whenever no run is in flight. *)
CurrentMounts ==
  "decay" \notin spoiled /\ ~IsRunning /\ current # Nothing => Verified(current)

(* After an install that met no failure the store is within ADR-0007's bound, whatever
   earlier, interrupted ones had left in it. *)
Finishes == job.pc = "prune" /\ job'.pc = "done" /\ faults' = faults
BoundIsKept == Finishes => Cardinality({v \in Versions : image'[v] # Nothing}) <= Keep

(* There is always something to go back to: retention removes an image only while a newer one
   that is not the active one stays, whichever of its two passes removes it and whatever was
   decided before the install moved `current` (store.rs, superseded). *)
RollbackStays == \A v \in Versions :
  image[v] # Nothing /\ image'[v] = Nothing => \E w \in Versions \ {current'} : w > v /\ image'[w] # Nothing
RetentionHolds == [][BoundIsKept /\ RollbackStays]_vars

(* A run in flight ends, so the console never reports an installation for ever. *)
JobEnds == IsRunning ~> ~IsRunning
=============================================================================
