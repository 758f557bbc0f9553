------------------------------- MODULE Installer -------------------------------
(***************************************************************************)
(* Copying the running system onto another disk (install.rs).  The disk was  *)
(* chosen by name, and every step opens the name again.                     *)
(***************************************************************************)
EXTENDS Drives

CONSTANT TooSmall  \* disks the layout does not fit on

VARIABLE job  \* the installation: its phase, the next step of its thread, the disk and what the kernel sees of it

Steps == <<"table", "reread", "verity", "esp", "usr", "var">>
NoJob == [phase |-> "idle", step |-> 0, name |-> Nothing, disk |-> Nothing, sees |-> FALSE]
PhaseOf(step) == IF step <= 2 THEN "partitioning" ELSE IF step <= 5 THEN "copying" ELSE "formatting"
Working == {"partitioning", "copying", "formatting"}
Turns(word) == job.phase \in Working /\ Steps[job.step] = word

InstallerTypeOK ==
  job \in [phase : {"idle", "done", "failed"} \cup Working, step : 0..Len(Steps), name : Names \cup {Nothing},
           disk : Disks \cup {Nothing}, sees : BOOLEAN]

InstallerInit == job = NoJob

(* install::vet of the disk called n: it is there, it is not where the system runs, the layout fits, and its
   name was typed. *)
Vetted(n, typed) == \E d \in At(n) : d \notin RunningDisk /\ d \notin TooSmall /\ typed = n

(* Mutant: not knowing the running disk taken for there being none to spare. *)
BeginUnknown == \E n \in Names, typed \in Names :
  /\ Happens("install")
  /\ Vetted(n, typed)
  /\ job.phase \notin Working
  /\ job' = [NoJob EXCEPT !.phase = "partitioning", !.step = 1, !.name = n]
  /\ UNCHANGED content
(* console::begin_install: refused when the running disk is not known; vetted, then the job is claimed. *)
BeginInstall == \E n \in Names, typed \in Names :
  /\ Happens("install")
  /\ RunningDisk # {}
  /\ Vetted(n, typed)
  /\ job.phase \notin Working
  /\ job' = [NoJob EXCEPT !.phase = "partitioning", !.step = 1, !.name = n]
  /\ UNCHANGED content

Advance == [job EXCEPT !.step = @ + 1, !.phase = PhaseOf(job.step + 1)]
Target == At(job.name)
(* Job::finish with an error: the phase, and a job that can be begun again. *)
Failed == [job EXCEPT !.phase = "failed", !.step = 0]

(* write_regions: the table of the new layout, over whatever there was. *)
WriteTable == \E d \in Target :
  /\ Turns("table")
  /\ content' = [content EXCEPT ![d] = [is |-> "appliance", parts |-> {"table"}]]
  /\ job' = [Advance EXCEPT !.disk = d, !.sees = content[d].is = "appliance"]

(* reread: the kernel takes the new partitions unless something on the disk is in use, or partprobe failed,
   which is not an error. *)
Reread(inUse) ==
  /\ Turns("reread")
  /\ \E seen \in BOOLEAN :
       /\ seen => job.disk \notin inUse
       /\ ~seen => job.disk \in inUse \/ Happens("fail")
       /\ job' = [Advance EXCEPT !.sees = @ \/ seen]
  /\ UNCHANGED content

(* The partitions of the layout are at the device's name: the kernel read this table. *)
Present(d) == content[d].is = "appliance" /\ (d = job.disk => job.sees)

(* copy_partition: written, and read back; make_var. *)
Copy(part) == \E d \in Target :
  /\ Turns(part)
  /\ Present(d)
  /\ content' = [content EXCEPT ![d].parts = @ \cup {part}]
  /\ job' = IF part = "var" THEN [job EXCEPT !.phase = "done", !.step = 0] ELSE Advance

(* Any step may fail: the device is not there, it has no such partition, it does not store what it is given. *)
InstallFails ==
  /\ job.phase \in Working
  /\ Target = {} \/ (job.step > 2 /\ \A d \in Target : ~Present(d)) \/ Happens("fail")
  /\ \E damaged \in SUBSET (Target \cap {job.disk}) :
       content' = [d \in Disks |-> IF d \in damaged THEN [content[d] EXCEPT !.parts = @ \ {Steps[job.step]}] ELSE content[d]]
  /\ job' = Failed

InstallerCrash == job' = NoJob

InstallStep(inUse) ==
  \/ BeginInstall \/ WriteTable \/ Reread(inUse) \/ \E part \in {"verity", "esp", "usr", "var"} : Copy(part)
  \/ InstallFails
=============================================================================
