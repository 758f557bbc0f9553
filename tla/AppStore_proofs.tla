--------------------------- MODULE AppStore_proofs ---------------------------
(***************************************************************************)
(* Proofs about AppStore, for every set of versions, retention, number of   *)
(* loop devices and bound on builds and on faults: the files an install and *)
(* a mount leave, and what the two passes of retention remove.              *)
(***************************************************************************)
EXTENDS AppStore, FiniteSetTheorems, WellFoundedInduction, TLAPS

Building == {"unpack", "mkfs", "record", "digest", "publish", "activate", "remove"}
BeforePublish == {"unpack", "mkfs", "record", "digest", "publish"}

(* What a run has in hand at each of its steps. *)
JobInv ==
  /\ job.pc = "verify" => package \in Versions
  /\ job.pc \in Building => job.ver \in Versions /\ job.ver \notin job.drop
  /\ job.pc \in {"unpack", "mkfs"} => built < MaxBuilds
  /\ job.pc \in {"record", "digest", "publish"} => staging[job.ver] \in Bytes
  /\ job.pc = "activate" => image[job.ver] # Nothing
  /\ job.pc = "remove" => current = job.ver

(* What is mounted, and on what. *)
MountInv ==
  /\ mounted # NotMounted => loops > 0
  /\ job.pc = "mount" => mounted = NotMounted
  /\ ~up => mounted = NotMounted /\ loops = 0 /\ job.pc \in {"idle", "failed"}

(* With no decay and no version installed twice, a version is not there before its run
   publishes it, and verifies from then on. *)
FreshInv ==
  spoiled = {} =>
    /\ job.pc \in BeforePublish => image[job.ver] = Nothing
    /\ job.pc = "publish" => record[job.ver] = staging[job.ver]
    /\ job.pc = "activate" => Verified(job.ver)

(* The inductive invariant. *)
IInv ==
  /\ TypeOK /\ JobInv /\ MountInv /\ FreshInv
  /\ CurrentNeverDangles /\ LoopsAccountedFor /\ FreshInstallMounts

USE VersionsAssumption, BoundAssumption DEF Nothing, Damaged

-----------------------------------------------------------------------------
(* An empty store satisfies the invariant. *)
LEMMA InitInv == Init => IInv
  BY DEF Init, IInv, TypeOK, JobInv, MountInv, FreshInv, CurrentNeverDangles, LoopsAccountedFor,
         FreshInstallMounts, NoJob, NotMounted, Building, BeforePublish, Contents, Bytes, Verified

(* Retention never names the version it is asked to keep. *)
LEMMA NotItself == \A v \in Versions : SupersededBy(v) \subseteq Versions \ {v}
  BY DEF SupersededBy, Installed

(* A file that verifies is the bytes of a build. *)
LEMMA VerifiedIsBytes == ASSUME TypeOK, NEW v \in Versions, Verified(v) PROVE image[v] \in Bytes
  BY DEF TypeOK, Contents, Verified

(* A fault more leaves room for the loop devices there are. *)
LEMMA LoopsWithFaults ==
  ASSUME LoopsAccountedFor, loops \in Int, faults \in Int, faults' \in Int,
         UNCHANGED <<mounted, loops>>, faults' >= faults
  PROVE  LoopsAccountedFor'
<1> DEFINE under(m) == IF m = NotMounted THEN 0 ELSE 1
<1>1. under(mounted) \in 0..1 /\ under(mounted') = under(mounted)
  OBVIOUS
<1> HIDE DEF under
<1>2. loops' <= under(mounted') + faults'
  <2>1. loops <= under(mounted) + faults
    BY DEF LoopsAccountedFor, under
  <2> QED
    BY <1>1, <2>1
<1> QED
  BY <1>2 DEF LoopsAccountedFor, under

(* A run that fails, or dies, leaves the store. *)
LEMMA JobGone ==
  ASSUME IInv, UNCHANGED <<disk, rest>>, faults' \in 0..MaxFaults, faults' >= faults,
         job' = NoJob("failed") \/ job' = NoJob("idle") PROVE IInv'
<1>1. TypeOK'
  BY DEF IInv, TypeOK, disk, rest, NoJob, Contents, Bytes
<1>2. job'.pc \in {"failed", "idle"}
  BY DEF NoJob
<1>3. LoopsAccountedFor'
  BY LoopsWithFaults DEF IInv, TypeOK, rest
<1>4. MountInv'
  BY <1>2 DEF IInv, MountInv, rest, NotMounted
<1>5. JobInv' /\ FreshInv'
  BY <1>2 DEF JobInv, FreshInv, Building, BeforePublish
<1>6. CurrentNeverDangles' /\ FreshInstallMounts'
  BY DEF IInv, CurrentNeverDangles, FreshInstallMounts, Verified, disk, rest
<1> QED
  BY <1>1, <1>3, <1>4, <1>5, <1>6 DEF IInv

(* A request touches the package file only. *)
LEMMA RequestKeeps == ASSUME IInv, Request PROVE IInv'
<1>1. TypeOK'
  BY DEF IInv, TypeOK, Request, rest, NoJob
<1>2. job'.pc = "receive" /\ up
  BY DEF Request, NoJob
<1>3. JobInv' /\ FreshInv' /\ MountInv'
  BY <1>2 DEF IInv, JobInv, FreshInv, MountInv, Building, BeforePublish, Request, rest
<1>4. CurrentNeverDangles' /\ FreshInstallMounts' /\ LoopsAccountedFor'
  BY DEF IInv, CurrentNeverDangles, FreshInstallMounts, LoopsAccountedFor, Verified, Request, rest
<1> QED
  BY <1>1, <1>3, <1>4 DEF IInv

(* A transfer that succeeds leaves a package whose version is known. *)
LEMMA ReceiveKeeps == ASSUME IInv, Receive PROVE IInv'
<1>1. TypeOK'
  BY DEF IInv, TypeOK, Receive, rest, NoJob, JobFails, Goto
<1>2. job'.pc \in {"verify", "failed"} /\ (job'.pc = "verify" => package' \in Versions) /\ job.pc = "receive"
  BY DEF IInv, TypeOK, Receive, NoJob, JobFails, Goto
<1>3. JobInv' /\ FreshInv' /\ MountInv'
  BY <1>2 DEF IInv, JobInv, FreshInv, MountInv, Building, BeforePublish, Receive, rest
<1>4. CurrentNeverDangles' /\ FreshInstallMounts' /\ LoopsAccountedFor'
  BY DEF IInv, CurrentNeverDangles, FreshInstallMounts, LoopsAccountedFor, Verified, Receive, rest
<1> QED
  BY <1>1, <1>3, <1>4 DEF IInv

(* The run fixes its version and what it will drop, and clears its own staging file. *)
LEMMA VerifyKeeps == ASSUME IInv, Verify PROVE IInv'
<1>0. package \in Versions /\ job.pc = "verify" /\ up
  BY DEF IInv, JobInv, MountInv, Verify
<1>1. CASE JobFails /\ UNCHANGED <<staging, spoiled, faults>>
  BY <1>1, JobGone DEF Verify, JobFails, disk, rest, IInv, TypeOK
<1>2. CASE /\ built < MaxBuilds
           /\ job' = [pc |-> "unpack", ver |-> package, was |-> current, drop |-> SupersededBy(package)]
           /\ staging' = [staging EXCEPT ![package] = Nothing]
           /\ spoiled' = IF package \in Installed THEN spoiled \cup {"reinstall"} ELSE spoiled
           /\ UNCHANGED faults
  <2>1. SupersededBy(package) \subseteq Versions \ {package}
    BY <1>0, NotItself
  <2>2. TypeOK'
    BY <1>0, <1>2, <2>1 DEF IInv, TypeOK, Verify, Contents
  <2>3. JobInv' /\ MountInv'
    BY <1>0, <1>2, <2>1 DEF IInv, JobInv, MountInv, Verify, Building
  <2>4. FreshInv' /\ FreshInstallMounts'
    BY <1>0, <1>2 DEF IInv, TypeOK, FreshInv, FreshInstallMounts, Verify, Verified, Installed, BeforePublish
  <2>5. CurrentNeverDangles' /\ LoopsAccountedFor'
    BY <1>2 DEF IInv, CurrentNeverDangles, LoopsAccountedFor, Verify
  <2> QED
    BY <2>2, <2>3, <2>4, <2>5 DEF IInv
<1> QED
  BY <1>1, <1>2 DEF Verify

(* A step that fails leaves the store, short of one superseded image at most. *)
LEMMA StepFailsKeeps == ASSUME IInv, StepFails PROVE IInv'
<1>0. faults' \in 0..MaxFaults /\ faults' >= faults /\ job' = NoJob("failed") /\ job'.pc = "failed"
  BY DEF IInv, TypeOK, StepFails, Fault, JobFails, NoJob
<1>1. CASE UNCHANGED image
  BY <1>0, <1>1, JobGone DEF StepFails, disk, rest
<1>2. ASSUME NEW v \in job.drop, job.pc = "remove", image' = [image EXCEPT ![v] = Nothing] PROVE IInv'
  <2>1. v \in Versions /\ v # current /\ current = job.ver
    BY <1>2 DEF IInv, TypeOK, JobInv, Building
  <2>2. TypeOK'
    BY <1>0, <1>2, <2>1 DEF IInv, TypeOK, StepFails, rest, NoJob, Contents
  <2>3. JobInv' /\ FreshInv' /\ MountInv'
    BY <1>0 DEF IInv, JobInv, FreshInv, MountInv, Building, BeforePublish, StepFails, rest, NotMounted
  <2>4. CurrentNeverDangles' /\ FreshInstallMounts'
    BY <1>2, <2>1 DEF IInv, TypeOK, CurrentNeverDangles, FreshInstallMounts, Verified, StepFails, rest
  <2>5. LoopsAccountedFor'
    BY <1>0, LoopsWithFaults DEF IInv, TypeOK, StepFails, rest
  <2> QED
    BY <2>2, <2>3, <2>4, <2>5 DEF IInv
<1> QED
  BY <1>1, <1>2 DEF StepFails

(* The steps that build an image touch nothing but its staging file and its record. *)
LEMMA BuildKeeps == ASSUME IInv, Unpack \/ Mkfs \/ OpenRecord \/ WriteRecord PROVE IInv'
<1>0. /\ job.pc \in {"unpack", "mkfs", "record", "digest"} /\ job.ver \in Versions
      /\ UNCHANGED <<image, package, current, mounted, loops, up, spoiled, faults>>
      /\ job' = [job EXCEPT !.pc = job'.pc] /\ job'.pc \in {"mkfs", "record", "digest", "publish"}
      /\ job'.ver = job.ver /\ job'.drop = job.drop
  BY DEF IInv, TypeOK, JobInv, Building, Unpack, Mkfs, OpenRecord, WriteRecord, Goto, rest
<1>1. TypeOK'
  <2>1. built < MaxBuilds => built + 1 \in Bytes
    BY DEF IInv, TypeOK, Bytes
  <2>2. job' \in [pc : {"idle", "receive", "verify", "unpack", "mkfs", "record", "digest", "publish",
                    "activate", "remove", "swap", "mount", "prune", "done", "failed"},
              ver : Versions \cup {Nothing}, was : Versions \cup {Nothing}, drop : SUBSET Versions]
    BY <1>0 DEF IInv, TypeOK
  <2>3. staging' \in [Versions -> Contents] /\ record' \in [Versions -> Contents] /\ built' \in 0..MaxBuilds
    BY <1>0, <2>1 DEF IInv, TypeOK, JobInv, Contents, Unpack, Mkfs, OpenRecord, WriteRecord, rest
  <2> QED
    BY <1>0, <2>2, <2>3 DEF IInv, TypeOK
<1>2. JobInv'
  <2>1. CASE Unpack
    BY <1>0, <2>1 DEF IInv, TypeOK, JobInv, Building, Unpack, Goto, rest
  <2>2. CASE Mkfs
    BY <1>0, <2>2 DEF IInv, TypeOK, JobInv, Building, Mkfs, Goto, Bytes
  <2>3. CASE OpenRecord
    BY <1>0, <2>3 DEF IInv, TypeOK, JobInv, Building, OpenRecord, Goto, rest
  <2>4. CASE WriteRecord
    BY <1>0, <2>4 DEF IInv, TypeOK, JobInv, Building, WriteRecord, Goto, rest
  <2> QED
    BY <2>1, <2>2, <2>3, <2>4
<1>3. MountInv'
  BY <1>0 DEF IInv, MountInv, NotMounted
<1>4. CurrentNeverDangles' /\ LoopsAccountedFor'
  BY <1>0 DEF IInv, CurrentNeverDangles, LoopsAccountedFor, NotMounted
<1>5. FreshInv'
  <2>1. job.pc = "digest" => record'[job.ver] = staging'[job.ver]
    BY <1>0 DEF IInv, TypeOK, Unpack, Mkfs, OpenRecord, WriteRecord, rest
  <2>2. job'.pc = "publish" => job.pc = "digest"
    BY <1>0 DEF IInv, TypeOK, Unpack, Mkfs, OpenRecord, WriteRecord, Goto
  <2> QED
    BY <1>0, <2>1, <2>2 DEF IInv, FreshInv, BeforePublish
<1>6. FreshInstallMounts'
  <2>1. \A v \in Versions \ {job.ver} : record'[v] = record[v]
    BY <1>0 DEF IInv, TypeOK, Unpack, Mkfs, OpenRecord, WriteRecord
  <2>2. spoiled = {} /\ current # Nothing => current \in Versions \ {job.ver}
    BY <1>0 DEF IInv, TypeOK, FreshInv, CurrentNeverDangles, BeforePublish
  <2> QED
    BY <1>0, <2>1, <2>2 DEF IInv, FreshInstallMounts, Verified
<1> QED
  BY <1>1, <1>2, <1>3, <1>4, <1>5, <1>6 DEF IInv

(* The rename puts a whole image, already recorded, under its name. *)
LEMMA PublishKeeps == ASSUME IInv, Publish PROVE IInv'
<1>0. /\ job.pc = "publish" /\ job'.pc = "activate" /\ job'.ver = job.ver /\ job'.drop = job.drop
      /\ job.ver \in Versions /\ job.ver \notin job.drop /\ staging[job.ver] \in Bytes
      /\ UNCHANGED <<record, package, current, mounted, loops, up, built, spoiled, faults>>
      /\ image' = [image EXCEPT ![job.ver] = staging[job.ver]]
  BY DEF IInv, TypeOK, JobInv, Building, Publish, Goto, rest
<1>1. TypeOK'
  BY <1>0 DEF IInv, TypeOK, Publish, Goto, Contents
<1>2. JobInv' /\ MountInv' /\ CurrentNeverDangles'
  BY <1>0 DEF IInv, TypeOK, JobInv, MountInv, CurrentNeverDangles, Building, NotMounted, Bytes
<1>3. FreshInv' /\ FreshInstallMounts'
  BY <1>0 DEF IInv, TypeOK, FreshInv, FreshInstallMounts, Verified, BeforePublish, Bytes
<1>4. LoopsAccountedFor'
  BY <1>0 DEF IInv, LoopsAccountedFor, NotMounted
<1> QED
  BY <1>1, <1>2, <1>3, <1>4 DEF IInv

(* The link moves to an image that is there. *)
LEMMA ActivateKeeps == ASSUME IInv, Activate PROVE IInv'
<1>0. /\ job.pc = "activate" /\ job'.pc = "remove" /\ job'.ver = job.ver /\ job'.drop = job.drop
      /\ job.ver \in Versions /\ job.ver \notin job.drop /\ image[job.ver] # Nothing /\ current' = job.ver
      /\ UNCHANGED <<image, record, staging, package, mounted, loops, up, built, spoiled, faults>>
  BY DEF IInv, TypeOK, JobInv, Building, Activate, Goto, rest
<1>1. TypeOK'
  BY <1>0 DEF IInv, TypeOK, Activate, Goto
<1>2. JobInv' /\ MountInv' /\ CurrentNeverDangles'
  BY <1>0 DEF IInv, JobInv, MountInv, CurrentNeverDangles, Building, NotMounted
<1>3. FreshInv' /\ FreshInstallMounts'
  BY <1>0 DEF IInv, FreshInv, FreshInstallMounts, Verified, BeforePublish
<1>4. LoopsAccountedFor'
  BY <1>0 DEF IInv, LoopsAccountedFor, NotMounted
<1> QED
  BY <1>1, <1>2, <1>3, <1>4 DEF IInv

(* A version other than the active one goes. *)
LEMMA RemoveKeeps == ASSUME IInv, NEW v \in Versions, Remove(v) PROVE IInv'
<1>0. /\ job.pc = "remove" /\ job' = [job EXCEPT !.drop = @ \ {v}] /\ job'.pc = "remove" /\ job'.ver = job.ver
      /\ job'.drop = job.drop \ {v} /\ v # current /\ current = job.ver
      /\ job.ver \in Versions /\ job.ver \notin job.drop
      /\ image' = [image EXCEPT ![v] = Nothing] /\ record' = [record EXCEPT ![v] = Nothing]
      /\ UNCHANGED <<staging, package, current, mounted, loops, up, built, spoiled, faults>>
  BY DEF IInv, TypeOK, JobInv, Building, Remove, rest
<1>1. TypeOK'
  BY <1>0 DEF IInv, TypeOK, Contents
<1>2. JobInv' /\ MountInv' /\ CurrentNeverDangles'
  BY <1>0 DEF IInv, TypeOK, JobInv, MountInv, CurrentNeverDangles, Building, NotMounted
<1>3. FreshInv' /\ FreshInstallMounts'
  BY <1>0 DEF IInv, TypeOK, FreshInv, FreshInstallMounts, Verified, BeforePublish
<1>4. LoopsAccountedFor'
  BY <1>0 DEF IInv, LoopsAccountedFor, NotMounted
<1> QED
  BY <1>1, <1>2, <1>3, <1>4 DEF IInv

(* Only the package file goes. *)
LEMMA PlanDoneKeeps == ASSUME IInv, PlanDone PROVE IInv'
<1>0. /\ job' = [job EXCEPT !.pc = "swap"] /\ job'.pc = "swap" /\ package' = Nothing
      /\ UNCHANGED <<image, record, staging, current, mounted, loops, up, built, spoiled, faults>> /\ job.pc = "remove"
  BY DEF IInv, TypeOK, PlanDone, Goto, rest
<1>1. TypeOK'
  BY <1>0 DEF IInv, TypeOK
<1>2. JobInv' /\ MountInv' /\ CurrentNeverDangles'
  BY <1>0 DEF IInv, JobInv, MountInv, CurrentNeverDangles, Building, NotMounted
<1>3. FreshInv' /\ FreshInstallMounts' /\ LoopsAccountedFor'
  BY <1>0 DEF IInv, FreshInv, FreshInstallMounts, Verified, BeforePublish, LoopsAccountedFor, NotMounted
<1> QED
  BY <1>1, <1>2, <1>3 DEF IInv

-----------------------------------------------------------------------------
(* What a step may do to the mount: the devices are accounted for, and in use under it. *)
MountStep ==
  /\ mounted' \in [ver : Versions, bytes : Bytes] \cup {NotMounted}
  /\ loops' \in 0..Loops /\ faults' \in 0..MaxFaults
  /\ mounted' # NotMounted => loops' > 0
  /\ LoopsAccountedFor'

(* A step that leaves the disk alone, and a job that is past `remove`, is judged by what it
   does to the mount. *)
LEMMA MountStepKeeps ==
  ASSUME IInv, MountStep, UNCHANGED <<disk, built, spoiled>>, up' \in BOOLEAN,
         job' \in [pc : {"idle", "swap", "mount", "prune", "done", "failed"},
                    ver : Versions \cup {Nothing}, was : Versions \cup {Nothing}, drop : SUBSET Versions],
         job'.pc = "mount" => mounted' = NotMounted,
         ~up' => mounted' = NotMounted /\ loops' = 0 /\ job'.pc = "idle"
  PROVE  IInv'
<1>0. job'.pc \in {"idle", "swap", "mount", "prune", "done", "failed"}
  OBVIOUS
<1>1. TypeOK'
  <2>1. job' \in [pc : {"idle", "receive", "verify", "unpack", "mkfs", "record", "digest", "publish",
                    "activate", "remove", "swap", "mount", "prune", "done", "failed"},
              ver : Versions \cup {Nothing}, was : Versions \cup {Nothing}, drop : SUBSET Versions]
    OBVIOUS
  <2>2. mounted' \in [ver : Versions, bytes : Bytes'] \cup {NotMounted'}
    BY DEF MountStep, Bytes, NotMounted
  <2> QED
    BY <2>1, <2>2 DEF IInv, TypeOK, MountStep, disk, Contents, Bytes
<1>2. JobInv' /\ FreshInv'
  BY <1>0 DEF JobInv, FreshInv, Building, BeforePublish
<1>3. MountInv'
  BY DEF MountStep, MountInv, NotMounted
<1>4. CurrentNeverDangles' /\ FreshInstallMounts'
  BY DEF IInv, CurrentNeverDangles, FreshInstallMounts, Verified, disk
<1> QED
  BY <1>1, <1>2, <1>3, <1>4 DEF IInv, MountStep

(* The only images that are mounted are those that verify. *)
LEMMA MountCurrentIsStep == ASSUME IInv, mounted = NotMounted, MountCurrent PROVE MountStep
<1> DEFINE can == current \in Versions /\ Verified(current) /\ loops < Loops
<1>0. loops \in 0..Loops /\ faults \in 0..MaxFaults /\ loops <= faults
  BY DEF IInv, TypeOK, LoopsAccountedFor
<1>1. CASE can /\ mounted' = [ver |-> current, bytes |-> image[current]] /\ loops' = loops + 1 /\ faults' = faults
  <2>1. image[current] \in Bytes /\ current \in Versions
    BY <1>1, VerifiedIsBytes DEF IInv
  <2>2. mounted' \in [ver : Versions, bytes : Bytes] /\ mounted' # NotMounted
    BY <1>1, <2>1 DEF NotMounted
  <2>3. loops' <= 1 + faults'
    BY <1>0, <1>1
  <2>4. LoopsAccountedFor'
    BY <2>2, <2>3 DEF LoopsAccountedFor, NotMounted
  <2> QED
    BY <1>0, <1>1, <2>2, <2>4 DEF MountStep
<1>2. CASE can /\ mounted' = NotMounted /\ loops' = loops + 1 /\ faults' = faults + 1 /\ faults < MaxFaults
  <2>1. loops' <= 0 + faults'
    BY <1>0, <1>2
  <2>2. LoopsAccountedFor'
    BY <1>2, <2>1 DEF LoopsAccountedFor, NotMounted
  <2> QED
    BY <1>0, <1>2, <2>2 DEF MountStep
<1>3. CASE UNCHANGED <<mounted, loops, faults>>
  <2>1. LoopsAccountedFor'
    BY <1>3 DEF IInv, LoopsAccountedFor, NotMounted
  <2> QED
    BY <1>0, <1>3, <2>1 DEF MountStep
<1> QED
  BY <1>1, <1>2, <1>3 DEF MountCurrent, MountIf, Fault

(* The mount goes, and its device is released or counted as lost. *)
LEMMA UnmountKeeps == ASSUME IInv, Unmount PROVE IInv'
<1>0. /\ loops \in 0..Loops /\ faults \in 0..MaxFaults /\ job.pc = "swap" /\ up /\ up' = up
      /\ UNCHANGED <<disk, built, spoiled>>
  BY DEF IInv, TypeOK, MountInv, Unmount
<1>1. job' \in [pc : {"idle", "swap", "mount", "prune", "done", "failed"},
              ver : Versions \cup {Nothing}, was : Versions \cup {Nothing}, drop : SUBSET Versions]
  BY DEF IInv, TypeOK, Unmount, Goto
<1>2. CASE mounted = NotMounted /\ Goto("mount") /\ UNCHANGED <<mounted, loops, faults>>
  <2>1. MountStep
    BY <1>0, <1>2 DEF IInv, MountStep, LoopsAccountedFor, NotMounted
  <2> QED
    BY <1>0, <1>1, <1>2, <2>1, MountStepKeeps
<1>3. CASE /\ mounted # NotMounted /\ mounted' = NotMounted /\ Goto("mount")
           /\ loops' = loops - 1 /\ UNCHANGED faults
  <2>1. loops <= 1 + faults /\ loops > 0
    BY <1>3 DEF IInv, LoopsAccountedFor, MountInv
  <2>2. LoopsAccountedFor'
    BY <1>0, <1>3, <2>1 DEF LoopsAccountedFor, NotMounted
  <2> QED
    BY <1>0, <1>1, <1>3, <2>1, <2>2, MountStepKeeps DEF MountStep, NotMounted
<1>4. CASE /\ mounted # NotMounted /\ mounted' = NotMounted /\ Goto("mount")
           /\ Fault /\ UNCHANGED loops
  <2>1. loops <= 1 + faults
    BY <1>4 DEF IInv, LoopsAccountedFor
  <2>2. LoopsAccountedFor'
    BY <1>0, <1>4, <2>1 DEF LoopsAccountedFor, Fault, NotMounted
  <2> QED
    BY <1>0, <1>1, <1>4, <2>2, MountStepKeeps DEF MountStep, Fault, NotMounted
<1>5. CASE mounted # NotMounted /\ Fault /\ Goto("prune") /\ UNCHANGED <<mounted, loops>>
  <2>1. LoopsAccountedFor'
    BY <1>0, <1>5, LoopsWithFaults DEF IInv, Fault
  <2>2. MountStep
    BY <1>0, <1>5, <2>1 DEF IInv, TypeOK, MountInv, MountStep, Fault, NotMounted
  <2>3. job'.pc = "prune"
    BY <1>5 DEF IInv, TypeOK, Goto
  <2> QED
    BY <1>0, <1>1, <2>2, <2>3, MountStepKeeps
<1> QED
  BY <1>2, <1>3, <1>4, <1>5 DEF Unmount

(* After a swap nothing is mounted until this. *)
LEMMA MountKeeps == ASSUME IInv, Mount PROVE IInv'
<1>1. mounted = NotMounted /\ up /\ up' = up /\ UNCHANGED <<disk, built, spoiled>>
  BY DEF IInv, MountInv, Mount
<1>2. job'.pc = "prune"
      /\ job' \in [pc : {"idle", "swap", "mount", "prune", "done", "failed"},
              ver : Versions \cup {Nothing}, was : Versions \cup {Nothing}, drop : SUBSET Versions]
  BY DEF IInv, TypeOK, Mount
<1> QED
  BY <1>1, <1>2, MountCurrentIsStep, MountStepKeeps DEF Mount, IInv, TypeOK

(* The boot mounts what verifies, whatever the last run left. *)
LEMMA BootUpKeeps == ASSUME IInv, BootUp PROVE IInv'
<1>1. mounted = NotMounted /\ job.pc \in {"idle", "failed"} /\ up' = TRUE /\ UNCHANGED <<disk, job, built, spoiled>>
  BY DEF IInv, MountInv, BootUp
<1>2. job' \in [pc : {"idle", "swap", "mount", "prune", "done", "failed"},
              ver : Versions \cup {Nothing}, was : Versions \cup {Nothing}, drop : SUBSET Versions]
  BY <1>1 DEF IInv, TypeOK
<1> QED
  BY <1>1, <1>2, MountCurrentIsStep, MountStepKeeps DEF BootUp

(* The kernel forgets the mount and every device. *)
LEMMA GoDownKeeps == ASSUME IInv, GoDown PROVE IInv'
<1>1. job'.pc = "idle"
      /\ job' \in [pc : {"idle", "swap", "mount", "prune", "done", "failed"},
              ver : Versions \cup {Nothing}, was : Versions \cup {Nothing}, drop : SUBSET Versions]
  BY DEF GoDown, NoJob
<1>2. MountStep
  BY DEF IInv, TypeOK, MountStep, GoDown, Fault, LoopsAccountedFor, NotMounted
<1> QED
  BY <1>1, <1>2, MountStepKeeps DEF GoDown

(* The second pass of retention, too, leaves the active version alone. *)
LEMMA PruneKeeps == ASSUME IInv, Prune PROVE IInv'
<1> DEFINE gone == IF current = Nothing THEN {} ELSE SupersededBy(current)
<1>1. PICK images \in SUBSET gone : \E records \in SUBSET images :
        /\ image'  = [v \in Versions |-> IF v \in images THEN Nothing ELSE image[v]]
        /\ record' = [v \in Versions |-> IF v \in records THEN Nothing ELSE record[v]]
        /\ IF records = gone THEN UNCHANGED faults ELSE Fault
  BY DEF Prune
<1>2. PICK records \in SUBSET images :
        /\ image'  = [v \in Versions |-> IF v \in images THEN Nothing ELSE image[v]]
        /\ record' = [v \in Versions |-> IF v \in records THEN Nothing ELSE record[v]]
        /\ IF records = gone THEN UNCHANGED faults ELSE Fault
  BY <1>1
<1>3. current \notin images /\ current \notin records
  BY NotItself DEF IInv, TypeOK
<1>4. /\ job.pc = "prune" /\ job' = [job EXCEPT !.pc = "done", !.drop = {}] /\ job'.pc = "done"
      /\ UNCHANGED <<staging, package, current, mounted, loops, up, built, spoiled>>
      /\ faults' \in 0..MaxFaults /\ faults' >= faults
  BY <1>2 DEF IInv, TypeOK, Prune, rest, Fault
<1>5. TypeOK'
  <2>1. image' \in [Versions -> Contents] /\ record' \in [Versions -> Contents]
    BY <1>2 DEF IInv, TypeOK, Contents
  <2> QED
    BY <1>4, <2>1 DEF IInv, TypeOK
<1>6. JobInv' /\ FreshInv' /\ MountInv'
  BY <1>4 DEF IInv, JobInv, FreshInv, MountInv, Building, BeforePublish, NotMounted
<1>7. CurrentNeverDangles' /\ FreshInstallMounts'
  <2>1. current # Nothing => image'[current] = image[current] /\ record'[current] = record[current]
    BY <1>2, <1>3 DEF IInv, TypeOK
  <2> QED
    BY <1>4, <2>1 DEF IInv, CurrentNeverDangles, FreshInstallMounts, Verified
<1>8. LoopsAccountedFor'
  BY <1>4, LoopsWithFaults DEF IInv, TypeOK
<1> QED
  BY <1>5, <1>6, <1>7, <1>8 DEF IInv

(* A damaged file is still a file, and no longer a store in which nothing decayed. *)
LEMMA DecayKeeps == ASSUME IInv, NEW v \in Versions, Decay(v) PROVE IInv'
<1>0. /\ spoiled' = spoiled \cup {"decay"} /\ faults' \in 0..MaxFaults /\ faults' >= faults
      /\ UNCHANGED <<staging, package, current, mounted, loops, job, up, built>>
      /\ \/ image[v] # Nothing /\ image' = [image EXCEPT ![v] = Damaged] /\ UNCHANGED record
         \/ record[v] # Nothing /\ record' = [record EXCEPT ![v] = Damaged] /\ UNCHANGED image
  BY DEF IInv, TypeOK, Decay, Fault
<1>1. TypeOK'
  BY <1>0 DEF IInv, TypeOK, Contents
<1>2. \A w \in Versions : image[w] # Nothing => image'[w] # Nothing
  BY <1>0 DEF IInv, TypeOK
<1>3. JobInv' /\ CurrentNeverDangles' /\ MountInv'
  BY <1>0, <1>2 DEF IInv, TypeOK, JobInv, CurrentNeverDangles, MountInv, Building, NotMounted
<1>4. FreshInv' /\ FreshInstallMounts'
  BY <1>0 DEF FreshInv, FreshInstallMounts
<1>5. LoopsAccountedFor'
  BY <1>0, LoopsWithFaults DEF IInv, TypeOK
<1> QED
  BY <1>1, <1>3, <1>4, <1>5 DEF IInv

-----------------------------------------------------------------------------
(* Every step of the specification, one by one. *)
LEMMA NextInv == IInv /\ [Next]_vars => IInv'
<1> SUFFICES ASSUME IInv, [Next]_vars PROVE IInv'
  OBVIOUS
<1>1. CASE Request
  BY <1>1, RequestKeeps
<1>2. CASE Receive \/ Verify
  BY <1>2, ReceiveKeeps, VerifyKeeps
<1>3. CASE Unpack \/ Mkfs \/ OpenRecord \/ WriteRecord
  BY <1>3, BuildKeeps
<1>4. CASE Publish \/ Activate \/ PlanDone
  BY <1>4, PublishKeeps, ActivateKeeps, PlanDoneKeeps
<1>5. CASE Unmount \/ Mount \/ Prune
  BY <1>5, UnmountKeeps, MountKeeps, PruneKeeps
<1>6. CASE \E v \in Versions : Remove(v)
  BY <1>6, RemoveKeeps
<1>7. CASE StepFails
  BY <1>7, StepFailsKeeps
<1>8. CASE Panic \/ DaemonCrash
  BY <1>8, JobGone DEF Panic, DaemonCrash, Fault, JobFails, IInv, TypeOK
<1>9. CASE GoDown \/ BootUp
  BY <1>9, GoDownKeeps, BootUpKeeps
<1>10. CASE \E v \in Versions : Decay(v)
  BY <1>10, DecayKeeps
<1>11. CASE UNCHANGED vars
  BY <1>11 DEF vars, disk, rest, IInv, TypeOK, JobInv, MountInv, FreshInv, CurrentNeverDangles,
               LoopsAccountedFor, FreshInstallMounts, Verified, Building, BeforePublish, Contents, Bytes, NotMounted
<1> QED
  BY <1>1, <1>2, <1>3, <1>4, <1>5, <1>6, <1>7, <1>8, <1>9, <1>10, <1>11 DEF Next, JobStep

(* The store's invariant holds in every state the jobs, the crashes and the disk can reach. *)
THEOREM Invariance == Spec => []IInv
<1>1. Init => IInv
  BY InitInv
<1>2. IInv /\ [Next]_vars => IInv'
  BY NextInv
<1> QED
  BY <1>1, <1>2, PTL DEF Spec

(* Every variable keeps its type: no job is without its version, no loop device is freed twice. *)
THEOREM TypeCorrect == Spec => []TypeOK
<1>1. IInv => TypeOK
  BY DEF IInv
<1> QED
  BY <1>1, Invariance, PTL

(* The `current` link names an image that is there, wherever an install was cut. *)
THEOREM CurrentStays == Spec => []CurrentNeverDangles
<1>1. IInv => CurrentNeverDangles
  BY DEF IInv
<1> QED
  BY <1>1, Invariance, PTL

(* Nothing but the whole output of a build is ever mounted. *)
THEOREM MountedWhole == Spec => []MountedIsWhole
<1>1. IInv => MountedIsWhole
  BY DEF IInv, TypeOK, MountedIsWhole
<1> QED
  BY <1>1, Invariance, PTL

(* Loop devices are under the mount, or lost to a failure that was counted. *)
THEOREM LoopsHold == Spec => []LoopsAccountedFor
<1>1. IInv => LoopsAccountedFor
  BY DEF IInv
<1> QED
  BY <1>1, Invariance, PTL

(* While nothing decayed and no version was installed twice, the active version verifies. *)
THEOREM FreshMounts == Spec => []FreshInstallMounts
<1>1. IInv => FreshInstallMounts
  BY DEF IInv
<1> QED
  BY <1>1, Invariance, PTL
-----------------------------------------------------------------------------
(* Retention.  Of some numbers, one is the least. *)
LEMMA Least == ASSUME NEW S \in SUBSET Nat, S # {} PROVE \E i \in S : \A j \in S : i <= j
<1>1. PICK i \in S : \A j \in S : ~(<<j, i>> \in OpToRel(<, Nat))
  BY NatLessThanWellFounded, WFMin
<1>2. OpToRel(<, Nat) = {ss \in Nat \X Nat : ss[1] < ss[2]}
  BY DEF OpToRel
<1>3. ASSUME NEW j \in S PROVE ~(j < i)
  <2>1. <<j, i>> \in Nat \X Nat
    OBVIOUS
  <2> QED
    BY <1>1, <1>2, <2>1
<1> QED
  BY <1>3

(* Those of a set with fewer than k above them are at most k. *)
LEMMA NewestAreFew ==
  ASSUME NEW S \in SUBSET Nat, IsFiniteSet(S), NEW k \in Nat
  PROVE  LET newest == {w \in S : Cardinality({x \in S : x > w}) < k} IN
         IsFiniteSet(newest) /\ Cardinality(newest) <= k
<1> DEFINE above(w) == {x \in S : x > w}
           newest == {w \in S : Cardinality(above(w)) < k}
<1>1. \A w \in S : IsFiniteSet(above(w)) /\ Cardinality(above(w)) \in Nat
  BY FS_Subset, FS_CardinalityType
<1>2. IsFiniteSet(newest)
  BY FS_Subset
<1>3. CASE newest = {}
  <2>1. Cardinality({}) = 0
    BY FS_EmptySet
  <2>2. newest = {} => Cardinality(newest) = 0
    BY <2>1
  <2> HIDE DEF newest
  <2> QED
    BY <1>2, <1>3, <2>2 DEF newest
<1>4. CASE newest # {}
  <2>1. PICK m \in newest : \A w \in newest : m <= w
    BY <1>4, Least
  <2>2. newest \subseteq above(m) \cup {m}
    <3> SUFFICES ASSUME NEW w \in newest, w # m PROVE w \in above(m)
      OBVIOUS
    <3>1. w \in S /\ w \in Nat /\ m \in Nat /\ m <= w
      BY <2>1
    <3> QED
      BY <3>1
  <2>3. m \notin above(m) /\ IsFiniteSet(above(m)) /\ Cardinality(above(m)) \in Nat /\ Cardinality(above(m)) < k
    BY <1>1, <2>1
  <2> HIDE DEF above, newest
  <2>4. IsFiniteSet(above(m) \cup {m}) /\ Cardinality(above(m) \cup {m}) = Cardinality(above(m)) + 1
    BY <2>3, FS_AddElement
  <2>5. Cardinality(newest) <= Cardinality(above(m) \cup {m}) /\ Cardinality(newest) \in Nat
    BY <1>2, <2>2, <2>4, FS_Subset, FS_CardinalityType
  <2> QED
    BY <1>2, <2>3, <2>4, <2>5 DEF newest, above
<1> QED
  BY <1>3, <1>4

(* The newest of the others is never superseded. *)
LEMMA OneNewerStays ==
  ASSUME TypeOK, Keep > 1, NEW c \in Versions, NEW v \in SupersededBy(c)
  PROVE  \E w \in Installed \ {c} : w > v /\ w \notin SupersededBy(c)
<1> DEFINE others == Installed \ {c}
           above(w) == {x \in others : x > w}
           counts == {Cardinality(above(w)) : w \in above(v)}
<1>1. others \subseteq Versions /\ IsFiniteSet(others) /\ v \in others
  BY FS_Subset DEF Installed, SupersededBy
<1>2. \A w \in others : IsFiniteSet(above(w)) /\ Cardinality(above(w)) \in Nat
  BY <1>1, FS_Subset, FS_CardinalityType
<1>3. above(v) # {}
  <2>1. Cardinality(above(v)) >= Keep - 1
    BY DEF SupersededBy
  <2> QED
    BY <2>1, FS_EmptySet
<1>4. counts \in SUBSET Nat /\ counts # {}
  BY <1>2, <1>3
<1>5. PICK w \in above(v) : \A y \in above(v) : Cardinality(above(w)) <= Cardinality(above(y))
  <2>1. PICK n \in counts : \A i \in counts : n <= i
    BY <1>4, Least
  <2>2. PICK w \in above(v) : n = Cardinality(above(w))
    OBVIOUS
  <2>3. \A y \in above(v) : Cardinality(above(y)) \in counts
    OBVIOUS
  <2> QED
    BY <2>1, <2>2, <2>3
<1>6. above(w) = {}
  <2> SUFFICES ASSUME NEW y \in above(w) PROVE FALSE
    OBVIOUS
  <2>1. y \in above(v) /\ y \notin above(y) /\ above(y) \subseteq above(w) /\ w \in others /\ y \in others
    <3>1. w \in others /\ w > v /\ y \in others /\ y > w
      BY <1>5
    <3>2. v \in Nat /\ w \in Nat /\ y \in Nat
      BY <1>1, <3>1
    <3>3. y \in above(v) /\ ~(y > y)
      BY <3>1, <3>2
    <3>5. ASSUME NEW x \in above(y) PROVE x \in above(w)
      <4>1. x \in others /\ x \in Nat /\ x > y
        BY <1>1
      <4>2. x > w
        BY <3>1, <3>2, <4>1
      <4> QED
        BY <4>1, <4>2
    <3> QED
      BY <3>1, <3>3, <3>5
  <2>2. Cardinality(above(w)) <= Cardinality(above(y))
    BY <1>5, <2>1
  <2>3. above(y) \subseteq above(w) \ {y}
    BY <2>1
  <2> HIDE DEF above, others
  <2>4. IsFiniteSet(above(w) \ {y}) /\ Cardinality(above(w) \ {y}) = Cardinality(above(w)) - 1
    BY <1>2, <2>1, FS_RemoveElement
  <2>5. Cardinality(above(y)) <= Cardinality(above(w) \ {y})
    BY <2>3, <2>4, FS_Subset
  <2> QED
    BY <1>2, <2>1, <2>2, <2>4, <2>5
<1>7. Cardinality(above(w)) = 0
  BY <1>6, FS_EmptySet
<1>8. w \notin SupersededBy(c)
  BY <1>7 DEF SupersededBy
<1> QED
  BY <1>5, <1>8

(* What a run has decided to drop, and what has kept is active. *)
RetentionInv ==
  /\ job.pc \in Building =>
       \A v \in job.drop : \E w \in Versions \ (job.drop \cup {job.ver}) : w > v /\ image[w] # Nothing
  /\ job.pc \in {"swap", "mount", "prune"} => current \in Versions

LEMMA RetentionGoesOn == ASSUME IInv, RetentionInv, [Next]_vars, Keep > 1 PROVE RetentionInv'
<1> USE DEF RetentionInv
<1>1. CASE UNCHANGED vars
  BY <1>1 DEF vars, disk
<1>2. CASE Request
  BY <1>2 DEF Request, NoJob, Building
<1>3. CASE Receive
  BY <1>3 DEF Receive, Goto, JobFails, NoJob, Building, IInv, TypeOK
<1>4. CASE Verify
  <2>1. CASE JobFails
    BY <2>1 DEF JobFails, NoJob, Building
  <2>2. CASE job' = [pc |-> "unpack", ver |-> package, was |-> current, drop |-> SupersededBy(package)]
    <3>1. package \in Versions /\ UNCHANGED image
      BY <1>4 DEF Verify, IInv, JobInv
    <3>2. \A v \in SupersededBy(package) : \E w \in Installed \ {package} : w > v /\ w \notin SupersededBy(package)
      BY <3>1, OneNewerStays DEF IInv
    <3> QED
      BY <2>2, <3>1, <3>2 DEF Building, Installed
  <2> QED
    BY <1>4, <2>1, <2>2 DEF Verify
<1>5. CASE StepFails \/ Panic
  BY <1>5 DEF StepFails, Panic, JobFails, NoJob, Building
<1>6. CASE Unpack \/ Mkfs \/ OpenRecord \/ WriteRecord
  <2>1. job'.pc \in Building \ {"remove"} /\ job'.drop = job.drop /\ job'.ver = job.ver /\ UNCHANGED image /\ job.pc \in Building
    BY <1>6 DEF Unpack, Mkfs, OpenRecord, WriteRecord, Goto, Building, IInv, TypeOK
  <2> QED
    BY <2>1 DEF Building
<1>7. CASE Publish
  <2>1. job'.pc = "activate" /\ job'.drop = job.drop /\ job'.ver = job.ver /\ job.pc = "publish"
    BY <1>7 DEF Publish, Goto, IInv, TypeOK
  <2>2. \A w \in Versions \ {job.ver} : image'[w] = image[w]
    BY <1>7 DEF Publish, IInv, TypeOK
  <2> QED
    BY <2>1, <2>2 DEF Building
<1>8. CASE Activate
  BY <1>8 DEF Activate, Goto, IInv, TypeOK, Building
<1>9. CASE \E v \in Versions : Remove(v)
  <2>1. PICK v \in Versions : Remove(v)
    BY <1>9
  <2>2. job.pc = "remove" /\ job'.pc = "remove" /\ job'.ver = job.ver /\ job'.drop = job.drop \ {v} /\ v \in job.drop
    BY <2>1 DEF Remove, IInv, TypeOK
  <2>3. \A w \in Versions \ {v} : image'[w] = image[w]
    BY <2>1 DEF Remove, IInv, TypeOK
  <2> QED
    BY <2>2, <2>3 DEF Building
<1>10. CASE PlanDone
  BY <1>10 DEF PlanDone, Goto, IInv, TypeOK, JobInv, Building, rest
<1>11. CASE Unmount \/ Mount
  BY <1>11 DEF Unmount, Mount, Goto, IInv, TypeOK, Building, disk
<1>12. CASE Prune
  BY <1>12 DEF Prune, IInv, TypeOK, Building
<1>13. CASE DaemonCrash \/ GoDown
  BY <1>13 DEF DaemonCrash, GoDown, NoJob, Building
<1>14. CASE BootUp
  BY <1>14 DEF BootUp, disk
<1>15. CASE \E v \in Versions : Decay(v)
  <2>1. PICK v \in Versions : Decay(v)
    BY <1>15
  <2>2. UNCHANGED <<job, current>> /\ \A w \in Versions : image[w] # Nothing => image'[w] # Nothing
    BY <2>1 DEF Decay, IInv, TypeOK
  <2> QED
    BY <2>2
<1> QED
  BY <1>1, <1>2, <1>3, <1>4, <1>5, <1>6, <1>7, <1>8, <1>9, <1>10, <1>11, <1>12, <1>13, <1>14, <1>15 DEF Next, JobStep

(* The second pass keeps the active version, the newest of the others, and no more than there is room for. *)
LEMMA PruneRetains ==
  ASSUME IInv, RetentionInv, Prune, Keep > 1 PROVE BoundIsKept /\ RollbackStays
<1>0. job.pc = "prune" /\ current \in Versions /\ current' = current
  BY DEF Prune, RetentionInv
<1>1. PICK images \in SUBSET SupersededBy(current) : \E records \in SUBSET images :
        /\ image' = [v \in Versions |-> IF v \in images THEN Nothing ELSE image[v]]
        /\ IF records = SupersededBy(current) THEN UNCHANGED faults ELSE Fault
  BY <1>0 DEF Prune
<1>2. ASSUME Finishes PROVE Cardinality({v \in Versions : image'[v] # Nothing}) <= Keep
  <2>1. images = SupersededBy(current)
    BY <1>1, <1>2 DEF Finishes, Fault, IInv, TypeOK
  <2> DEFINE others == Installed \ {current}
             newest == {w \in others : Cardinality({x \in others : x > w}) < Keep - 1}
             kept == {v \in Versions : image'[v] # Nothing}
  <2>2. others \in SUBSET Nat /\ IsFiniteSet(others) /\ Keep - 1 \in Nat
    <3>1. Installed \subseteq Versions
      BY DEF Installed
    <3>2. others \subseteq Versions
      BY <3>1
    <3>3. IsFiniteSet(others)
      BY <3>2, FS_Subset
    <3>4. Versions \subseteq Nat /\ Keep - 1 \in Nat
      OBVIOUS
    <3> HIDE DEF others
    <3> QED
      BY <3>2, <3>3, <3>4
  <2>3. IsFiniteSet(newest) /\ Cardinality(newest) <= Keep - 1 /\ Cardinality(newest) \in Nat
    BY <2>2, NewestAreFew, FS_CardinalityType
  <2>4. \A w \in others : IsFiniteSet({x \in others : x > w}) /\ Cardinality({x \in others : x > w}) \in Nat
    BY <2>2, FS_Subset, FS_CardinalityType
  <2>5. kept \subseteq newest \cup {current}
    <3> SUFFICES ASSUME NEW v \in kept, v # current PROVE v \in newest
      OBVIOUS
    <3>1. v \in Versions /\ image[v] # Nothing /\ v \notin SupersededBy(current)
      BY <1>1, <2>1
    <3>2. v \in others /\ ~(Cardinality({x \in others : x > v}) >= Keep - 1)
      BY <3>1 DEF SupersededBy, Installed
    <3>3. Cardinality({x \in others : x > v}) \in Nat
      BY <2>4, <3>2
    <3>4. \A n, k \in Int : ~(n >= k) => n < k
      OBVIOUS
    <3>5. Cardinality({x \in others : x > v}) < Keep - 1
      BY <2>2, <3>2, <3>3, <3>4
    <3> QED
      BY <3>2, <3>5
  <2>6. current \notin newest
    OBVIOUS
  <2> HIDE DEF newest, kept
  <2>7. IsFiniteSet(newest \cup {current}) /\ Cardinality(newest \cup {current}) = Cardinality(newest) + 1
    BY <2>3, <2>6, FS_AddElement
  <2>8. Cardinality(kept) <= Cardinality(newest \cup {current}) /\ IsFiniteSet(kept)
    BY <2>5, <2>7, FS_Subset
  <2>9. Cardinality(kept) \in Nat
    BY <2>8, FS_CardinalityType
  <2> QED
    BY <2>3, <2>7, <2>8, <2>9 DEF kept
<1>3. ASSUME NEW v \in Versions, image[v] # Nothing, image'[v] = Nothing
      PROVE  \E w \in Versions \ {current'} : w > v /\ image'[w] # Nothing
  <2>1. v \in SupersededBy(current)
    BY <1>1, <1>3
  <2>2. PICK w \in Installed \ {current} : w > v /\ w \notin SupersededBy(current)
    BY <1>0, <2>1, OneNewerStays DEF IInv
  <2> QED
    BY <1>0, <1>1, <2>2 DEF Installed
<1> QED
  BY <1>2, <1>3 DEF BoundIsKept, RollbackStays

(* Of the other steps only a removal takes an image away, and none of them ends a run. *)
LEMMA StepRetains ==
  ASSUME IInv, IInv', RetentionInv, [Next]_vars, Keep > 1 PROVE BoundIsKept /\ RollbackStays
<1>1. CASE Prune
  BY <1>1, PruneRetains
<1>2. ASSUME ~Prune PROVE ~Finishes
  <2>1. CASE UNCHANGED vars
    BY <2>1 DEF vars, Finishes
  <2>2. CASE Request \/ StepFails \/ Panic \/ DaemonCrash \/ GoDown
    BY <2>2 DEF Request, StepFails, Panic, DaemonCrash, GoDown, JobFails, NoJob, Finishes
  <2>3. CASE Receive \/ Verify \/ Unpack \/ Mkfs \/ OpenRecord \/ WriteRecord \/ Publish \/ Activate \/ PlanDone \/ Unmount \/ Mount
    BY <2>3 DEF Receive, Verify, Unpack, Mkfs, OpenRecord, WriteRecord, Publish, Activate, PlanDone, Unmount, Mount, Finishes
  <2>4. CASE BootUp \/ \E v \in Versions : Remove(v) \/ Decay(v)
    BY <2>4 DEF BootUp, Remove, Decay, Finishes, disk
  <2> QED
    BY <1>2, <2>1, <2>2, <2>3, <2>4 DEF Next, JobStep
<1>3. ASSUME NEW d \in job.drop, job.pc = "remove", image' = [image EXCEPT ![d] = Nothing], current' = current PROVE RollbackStays
  <2>1. current = job.ver /\ job.pc \in Building
    BY <1>3 DEF IInv, JobInv, Building
  <2>2. PICK w \in Versions \ (job.drop \cup {job.ver}) : w > d /\ image[w] # Nothing
    BY <2>1 DEF RetentionInv
  <2>3. image'[w] # Nothing /\ \A v \in Versions : image[v] # Nothing /\ image'[v] = Nothing => v = d
    BY <1>3, <2>2 DEF IInv, TypeOK
  <2> QED
    BY <1>3, <2>1, <2>2, <2>3 DEF RollbackStays
<1>4. ASSUME ~Prune, \A v \in Versions : image[v] # Nothing => image'[v] # Nothing PROVE RollbackStays
  BY <1>4 DEF RollbackStays
<1>5. ASSUME ~Prune PROVE RollbackStays
  <2>1. CASE UNCHANGED image
    BY <1>4, <1>5, <2>1
  <2>2. CASE StepFails /\ ~UNCHANGED image
    BY <1>3, <2>2 DEF StepFails
  <2>3. CASE \E v \in Versions : Remove(v)
    BY <1>3, <2>3 DEF Remove
  <2>4. CASE Publish
    <3>1. staging[job.ver] # Nothing /\ image' = [image EXCEPT ![job.ver] = staging[job.ver]]
      BY <2>4 DEF Publish, IInv, JobInv, TypeOK, Bytes
    <3> QED
      BY <1>4, <1>5, <3>1 DEF IInv, TypeOK
  <2>5. CASE \E v \in Versions : Decay(v)
    BY <1>4, <1>5, <2>5 DEF Decay, IInv, TypeOK
  <2>6. CASE Request \/ Receive \/ Verify \/ Unpack \/ Mkfs \/ OpenRecord \/ WriteRecord \/ Activate \/ PlanDone \/ Unmount \/ Mount
    BY <2>1, <2>6 DEF Request, Receive, Verify, Unpack, Mkfs, OpenRecord, WriteRecord, Activate, PlanDone, Unmount, Mount, disk
  <2>7. CASE Panic \/ DaemonCrash \/ GoDown \/ BootUp \/ UNCHANGED vars
    BY <2>1, <2>7 DEF Panic, DaemonCrash, GoDown, BootUp, vars, disk
  <2> QED
    BY <1>5, <2>1, <2>2, <2>3, <2>4, <2>5, <2>6, <2>7 DEF Next, JobStep
<1> QED
  BY <1>1, <1>2, <1>5 DEF BoundIsKept

(* With room for one version beside the active one, an install that met no failure leaves the store within its bound,
   and nothing is removed but for a newer one that stays: there is always something to go back to. *)
THEOREM RetentionKeepsAWayBack == ASSUME Keep > 1 PROVE Spec => RetentionHolds
<1>1. Init => RetentionInv
  BY DEF Init, NoJob, RetentionInv, Building
<1>2. IInv /\ RetentionInv /\ [Next]_vars => RetentionInv'
  BY RetentionGoesOn
<1>3. IInv /\ IInv' /\ RetentionInv /\ [Next]_vars => [BoundIsKept /\ RollbackStays]_vars
  BY StepRetains
<1> QED
  BY <1>1, <1>2, <1>3, Invariance, PTL DEF Spec, RetentionHolds
=============================================================================
