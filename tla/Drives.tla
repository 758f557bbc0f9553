-------------------------------- MODULE Drives --------------------------------
(***************************************************************************)
(* The disks of one machine as the kernel shows them, shared by what is     *)
(* done with them: libraries, removable media, installing.                  *)
(*                                                                          *)
(* A disk has one interesting partition, so a disk, its volume and its      *)
(* PARTUUID are one value.  Device names are given out by the kernel when a *)
(* drive is plugged in, and may come to mean another drive; a name is not   *)
(* given again while something mounted still holds it.                      *)
(***************************************************************************)
EXTENDS Integers, FiniteSets, Sequences, SequencesExt, Faults

CONSTANTS
  Disks,        \* every disk that may be attached
  System,       \* the one this system runs from
  Names,        \* kernel names of disks
  SystemName,   \* the name the running disk keeps
  Kind          \* what is on each disk at first: "library", "bare", "locked" or "appliance"

ASSUME DiskAssumption == System \in Disks /\ SystemName \in Names
ASSUME KindAssumption == Kind \in [Disks -> {"library", "bare", "locked", "appliance"}] /\ Kind[System] = "appliance"

VARIABLES
  attached,  \* the disks that are there
  name,      \* the name each disk has, or had last
  content    \* what is on each disk

kernel == <<attached, name, content>>

Nothing == "nothing"
Parts   == {"table", "verity", "esp", "usr", "var"}

(* A PARTUUID is not a device name. *)
ASSUME NothingAssumption == Nothing \notin Disks \cup Names /\ Disks \cap Names = {}

(* What is at /dev/n now. *)
At(n) == {d \in attached : name[d] = n}

DrivesTypeOK ==
  /\ attached \subseteq Disks /\ System \in attached
  /\ name \in [Disks -> Names \cup {Nothing}] /\ name[System] = SystemName
  /\ content \in [Disks -> [is : {"library", "bare", "locked", "appliance"}, parts : SUBSET Parts]]

(* Drives are plugged in later, or are all there. *)
DrivesInit ==
  /\ attached = IF Happens("plug") THEN {System} ELSE Disks
  /\ name \in [Disks -> Names \cup {Nothing}] /\ name[System] = SystemName
  /\ \A d \in Disks : name[d] = Nothing <=> d \notin attached
  /\ \A d, e \in attached : name[d] = name[e] => d = e
  /\ content = [d \in Disks |-> [is |-> Kind[d], parts |-> IF d = System THEN Parts ELSE {}]]

(* install::running_disk: the disk behind the verified /usr, or no answer. *)
RunningDisk == IF Happens("unknown") THEN {} ELSE {System}

(* A whole disk somebody could have plugged in, which is not this system's own machinery: every name
   here is one. *)
Enumerated == {n \in Names : At(n) # {}}

(* disks::refusal_for, whatever the reason: where the system runs is not known, it is there, or the
   partition carries one of MediaLith's own labels. *)
VolumeRefused(d) == RunningDisk = {} \/ d \in RunningDisk \/ content[d].is = "appliance"

(* disks::mount_probe, media::mount_ro: some filesystem this kernel builds mounts it. *)
Mountable(d) == d \in attached /\ content[d].is \in {"library", "bare"}
=============================================================================
