-------------------------------- MODULE Storage --------------------------------
(***************************************************************************)
(* Everything done with the disks of one machine, while drives come and go:  *)
(* libraries and shares, removable media, and installing onto a disk.       *)
(***************************************************************************)
EXTENDS Libraries, Media, Installer

disks == <<kernel, storage, media_vars, job>>

Others == Disks \ {System}

StorageTypeOK == DrivesTypeOK /\ LibrariesTypeOK /\ MediaTypeOK /\ InstallerTypeOK

StorageInit == DrivesInit /\ LibrariesInit /\ MediaInit /\ InstallerInit

(* The disks something is mounted from, anywhere. *)
MountedDisks == {d \in Disks : InUse(d) \/ \E n \in Names : medium[n] = d}

(* Nothing is in the middle of something.  Without the word "swap" drives come and go only then. *)
NothingUnderWay ==
  /\ \A r \in Requests : request[r].at = "idle"
  /\ \A r \in Readers : reader[r].at = "idle"
  /\ job.phase \notin Working

(* A name is given again once nothing holds the drive that had it. *)
NameFree(n) == At(n) = {} /\ (\A m \in AllMounts : m.node # n) /\ medium[n] = Nothing

Plug(d) == \E n \in Names :
  /\ Happens("plug") /\ d \notin attached
  /\ Happens("swap") \/ NothingUnderWay
  /\ NameFree(n)
  /\ attached' = attached \cup {d} /\ name' = [name EXCEPT ![d] = n]
  /\ UNCHANGED <<content, storage, media_vars, job>>

(* What was mounted from it stays mounted, and answers nothing. *)
Unplug(d) ==
  /\ d \in attached \ {System}
  /\ Happens("swap") \/ (Happens("plug") /\ NothingUnderWay)
  /\ attached' = attached \ {d}
  /\ UNCHANGED <<name, content, storage, media_vars, job>>

DaemonStops ==
  /\ Happens("crash") /\ daemon # "down"
  /\ LibrariesCrash /\ MediaCrash /\ InstallerCrash
  /\ UNCHANGED kernel

MachineRestart ==
  /\ Happens("restart") /\ daemon # "down"
  /\ LibrariesReboot /\ MediaReboot /\ InstallerCrash
  /\ UNCHANGED kernel

InstallThread == daemon = "up" /\ InstallStep(MountedDisks) /\ UNCHANGED <<attached, name, storage, media_vars>>

StorageNext ==
  \/ LibrariesStep /\ UNCHANGED <<kernel, media_vars, job>>
  \/ daemon = "up" /\ MediaStep /\ UNCHANGED <<kernel, storage, job>>
  \/ InstallThread
  \/ \E d \in Others : Plug(d) \/ Unplug(d)
  \/ DaemonStops \/ MachineRestart

-----------------------------------------------------------------------------
(* The running system's disk is never written by an installation, never mounted where libraries are made,
   and never mounted over: whichever drives came and went, and whether or not it could be told which disk
   it is (install.rs, disks.rs). *)
RunningDiskUntouched ==
  /\ content[System] = [is |-> "appliance", parts |-> Parts]
  /\ ~InUse(System)

(* "Done" is said of a disk that has every part of a system, unless drives were swapped while it was
   written; and a disk whose table could not be read again is not one (install.rs, reread). *)
DoneIsWhole == job.phase = "done" /\ ~Happens("swap") => content[job.disk].parts = Parts

(* Where nothing fails or dies half way, one request comes at a time, and nobody gives a share a library's name, a
   library that is remembered and mounted shows the disk somebody chose, whatever was plugged in since under which name
   (disks.rs, ADR on PARTUUID).  After a failed unmount or a crash a mount can be left under a folder that is forgotten,
   and come to light again when a later library of that name is taken off it. *)
LibraryIsWhatWasChosen ==
  faults \cap {"shares", "overlap", "swap", "fail", "crash"} = {} =>
    \A f \in Folders : libraries[f] # Nothing /\ MountedAt(f) => Shown(f).disk = libraries[f]

(* Nobody lets go of a medium somebody else is reading: a scan that could not mount it leaves it alone, and
   each reader's own mount is there until it is done with it (media.rs, update::Mounted). *)
ReaderKeepsItsMedium == \A r \in Readers : reader[r].at \in Holding => medium[reader[r].name] # Nothing

(* A folder a running machine was told to show is shown after it comes up, if its disk is there: the mount
   is made before the console serves (console::run, disks::mount_all). *)
ConfiguredIsShown ==
  daemon = "libraries" /\ daemon' = "up" /\ ~Happens("fail") =>
    \A f \in Folders : libraries[f] \in attached /\ content[libraries[f]].is = "library" => media'[f] # <<>>

(* An installation that has begun and not ended yet, in a disk that is done or a failure somebody can see: no other
   can be begun. *)
Installing == job.phase \in Working
=============================================================================
