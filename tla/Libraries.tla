------------------------------- MODULE Libraries -------------------------------
(***************************************************************************)
(* Media libraries: folders on disks of this machine (disks.rs) and shares  *)
(* of servers (shares.rs), both shown to Plex as directories of /var/media. *)
(*                                                                          *)
(* A mount is the disk it shows and the device name it was mounted from.    *)
(* Requests run on a thread each, read a file, act, and write the file      *)
(* back, with no lock anywhere.                                             *)
(***************************************************************************)
EXTENDS Drives

CONSTANTS
  Folders,   \* names of directories of /var/media
  Servers,   \* exports of servers
  Requests,  \* threads
  MaxStack   \* bound of the model: mounts on top of each other at one directory

ASSUME ServersAssumption == Servers \cap Disks = {} /\ MaxStack \in Nat

VARIABLES
  daemon,     \* plexosd: down, mounting shares, mounting libraries, or serving
  scan,       \* what is mounted at each point under /run/plexos/disks
  media,      \* what is mounted at each directory of /var/media, the last one on top
  libraries,  \* disks.json: which disk each folder is on
  shares,     \* shares.json
  lastScan,   \* LAST_SCAN: the names refused by the last scan, or that there was none
  request     \* each thread, with what it has read

storage == <<daemon, scan, media, libraries, shares, lastScan, request>>

NoMount == [disk |-> Nothing, node |-> Nothing]
Mounts  == [disk : Disks, node : Names]
Share(server) == [disk |-> server, node |-> Nothing]
NotScanned == [tried |-> FALSE, refused |-> {}]

(* Volume::scan_point: by PARTUUID, or by device name when there is no partition table. *)
Keys == Disks \cup Names
ScanPoint(d) == IF content[d].is = "bare" THEN name[d] ELSE d

MountedAt(folder) == media[folder] # <<>>
Shown(folder) == Last(media[folder])
AllMounts == {scan[k] : k \in Keys} \cup UNION {Range(media[f]) : f \in Folders}
InUse(d) == \E m \in AllMounts : m.disk = d

Idle == [at |-> "idle", folder |-> Nothing, disk |-> Nothing, todo |-> {}, refused |-> {}, loaded |-> <<>>]
Turn(r, at) == daemon = "up" /\ request[r].at = at
Becomes(r, to) == request' = [request EXCEPT ![r] = to]
Ends(r) == Becomes(r, Idle)
(* Two requests at once only where the behaviour has them. *)
Free(r) == /\ Turn(r, "idle") /\ Happens("libraries")
           /\ Happens("overlap") \/ \A q \in Requests : request[q].at = "idle"

LibrariesTypeOK ==
  /\ daemon \in {"down", "shares", "libraries", "up"}
  /\ scan \in [Keys -> Mounts \cup {NoMount}]
  /\ \A f \in Folders : media[f] \in Seq(Mounts \cup {Share(s) : s \in Servers})
  /\ libraries \in [Folders -> Disks \cup {Nothing}]
  /\ shares \in [Folders -> Servers \cup {Nothing}]
  /\ lastScan \in [tried : BOOLEAN, refused : SUBSET Names]
  /\ \A r \in Requests :
       /\ request[r].at \in {"idle", "scan", "bind", "save", "forget", "share_save", "share_mount"}
       /\ request[r].folder \in Folders \cup {Nothing}
       /\ request[r].disk \in Disks \cup Servers \cup {Nothing}
       /\ request[r].todo \subseteq (Names \X Disks)
       /\ request[r].refused \subseteq Names

LibrariesInit ==
  /\ daemon = "down"
  /\ scan = [k \in Keys |-> NoMount] /\ media = [f \in Folders |-> <<>>]
  /\ libraries = [f \in Folders |-> Nothing] /\ shares = [f \in Folders |-> Nothing]
  /\ lastScan = NotScanned /\ request = [r \in Requests |-> Idle]

-----------------------------------------------------------------------------
(* POST /api/disks: scan. *)

(* disks::volumes, then the loop over what it returned. *)
ScanBegin(r) ==
  /\ Free(r)
  /\ Becomes(r, [Idle EXCEPT !.at = "scan", !.todo = {p \in Names \X attached : name[p[2]] = p[1] /\ ~VolumeRefused(p[2])}])
  /\ UNCHANGED <<daemon, scan, media, libraries, shares, lastScan>>

(* One volume: left alone if something is mounted at its point, else whatever is at its device name by
   now is mounted there. *)
ScanOne(r) == \E seen \in request[r].todo :
  LET point == ScanPoint(seen[2])
      found == {d \in At(seen[1]) : Mountable(d)}
      rest  == [request[r] EXCEPT !.todo = @ \ {seen}]
  IN /\ Turn(r, "scan")
     /\ \/ /\ scan[point] # NoMount
           /\ Becomes(r, rest) /\ UNCHANGED scan
        \/ /\ scan[point] = NoMount
           /\ \E d \in found : scan' = [scan EXCEPT ![point] = [disk |-> d, node |-> seen[1]]]
           /\ Becomes(r, rest)
        \/ /\ scan[point] = NoMount /\ found = {}
           /\ Becomes(r, [rest EXCEPT !.refused = @ \cup {seen[1]}]) /\ UNCHANGED scan
     /\ UNCHANGED <<daemon, media, libraries, shares, lastScan>>

ScanEnd(r) ==
  /\ Turn(r, "scan") /\ request[r].todo = {}
  /\ lastScan' = [tried |-> TRUE, refused |-> request[r].refused]
  /\ Ends(r)
  /\ UNCHANGED <<daemon, scan, media, libraries, shares>>

(* GET /api/disks after that, disks::report and carry_over: the names shown as refused. *)
ReportedRefused ==
  {n \in Enumerated : \E d \in At(n) : VolumeRefused(d) \/ (scan[ScanPoint(d)] = NoMount /\ n \in lastScan.refused)}

-----------------------------------------------------------------------------
(* POST /api/disks: add, remove, release. *)

(* disks::vet and record_for: the path is on something mounted under /run/plexos/disks, whose key is
   the PARTUUID of a volume that is attached. *)
Rememberable(d) == scan[d] # NoMount /\ d \in attached /\ content[d].is # "bare"

AddVetted(r) == \E f \in Folders, d \in Disks :
  /\ Free(r)
  /\ Rememberable(d)
  /\ libraries[f] = Nothing
  /\ Becomes(r, [Idle EXCEPT !.at = "bind", !.folder = f, !.disk = d, !.loaded = libraries])
  /\ UNCHANGED <<daemon, scan, media, libraries, shares, lastScan>>

(* disks::bind.  The path was resolved before; a drive released since has nothing there. *)
AddBind(r) ==
  LET q == request[r] IN
  /\ Turn(r, "bind")
  /\ \/ /\ scan[q.disk] # NoMount /\ Len(media[q.folder]) < MaxStack
        /\ media' = [media EXCEPT ![q.folder] = Append(@, scan[q.disk])]
        /\ Becomes(r, [q EXCEPT !.at = "save"])
     \/ /\ scan[q.disk] = NoMount \/ Happens("fail") \/ Len(media[q.folder]) = MaxStack
        /\ Ends(r) /\ UNCHANGED media
  /\ UNCHANGED <<daemon, scan, libraries, shares, lastScan>>

AddSave(r) ==
  LET q == request[r] IN
  /\ Turn(r, "save")
  /\ \/ libraries' = [q.loaded EXCEPT ![q.folder] = q.disk]
     \/ Happens("fail") /\ UNCHANGED libraries
  /\ Ends(r)
  /\ UNCHANGED <<daemon, scan, media, shares, lastScan>>

(* disks::remove.  An unmount that fails is reported, and the entry goes all the same. *)
RemoveUnmount(r) == \E f \in Folders :
  /\ Free(r)
  /\ libraries[f] # Nothing
  /\ \/ media' = [media EXCEPT ![f] = IF MountedAt(f) THEN Front(@) ELSE @]
     \/ Happens("fail") /\ UNCHANGED media
  /\ Becomes(r, [Idle EXCEPT !.at = "forget", !.folder = f, !.loaded = libraries])
  /\ UNCHANGED <<daemon, scan, libraries, shares, lastScan>>

RemoveSave(r) ==
  LET q == request[r] IN
  /\ Turn(r, "forget")
  /\ \/ libraries' = [q.loaded EXCEPT ![q.folder] = Nothing]
     \/ Happens("fail") /\ UNCHANGED libraries
  /\ Ends(r)
  /\ UNCHANGED <<daemon, scan, media, shares, lastScan>>

(* disks::release_unused: every scan mount no library is on, but for those still in use. *)
Unused(k) == scan[k] # NoMount /\ \A f \in Folders : libraries[f] # k
Release(r) ==
  /\ Free(r)
  /\ \E held \in SUBSET Keys :
       /\ held = {} \/ Happens("fail")
       /\ scan' = [k \in Keys |-> IF Unused(k) /\ k \notin held THEN NoMount ELSE scan[k]]
  /\ lastScan' = NotScanned
  /\ UNCHANGED <<daemon, media, libraries, shares, request>>

-----------------------------------------------------------------------------
(* POST /api/shares. *)

(* shares::mount_one: what is mounted already is left, and is not an error. *)
MountShare(f, server) ==
  \/ media' = [media EXCEPT ![f] = IF MountedAt(f) THEN @ ELSE <<Share(server)>>]
  \/ Happens("fail") /\ UNCHANGED media

ShareAdd(r) == \E f \in Folders, s \in Servers :
  /\ Free(r)
  /\ Happens("shares")
  /\ Becomes(r, [Idle EXCEPT !.at = "share_save", !.folder = f, !.disk = s, !.loaded = shares])
  /\ UNCHANGED <<daemon, scan, media, libraries, shares, lastScan>>

ShareSave(r) ==
  LET q == request[r] IN
  /\ Turn(r, "share_save")
  /\ \/ /\ shares' = [q.loaded EXCEPT ![q.folder] = q.disk]
        /\ IF q.disk = Nothing THEN Ends(r) ELSE Becomes(r, [q EXCEPT !.at = "share_mount"])
     \/ Happens("fail") /\ Ends(r) /\ UNCHANGED shares
  /\ UNCHANGED <<daemon, scan, media, libraries, lastScan>>

ShareMount(r) ==
  /\ Turn(r, "share_mount")
  /\ MountShare(request[r].folder, request[r].disk)
  /\ Ends(r)
  /\ UNCHANGED <<daemon, scan, libraries, shares, lastScan>>

(* act_on_named: mount, unmount, remove. *)
ShareNamed(r) == \E f \in Folders :
  /\ Free(r)
  /\ shares[f] # Nothing
  /\ \/ MountShare(f, shares[f]) /\ UNCHANGED request
     \/ MountedAt(f) /\ media' = [media EXCEPT ![f] = Front(@)] /\ UNCHANGED request
     \/ /\ media' = [media EXCEPT ![f] = IF MountedAt(f) THEN Front(@) ELSE @]
        /\ Becomes(r, [Idle EXCEPT !.at = "share_save", !.folder = f, !.loaded = shares])
  /\ UNCHANGED <<daemon, scan, libraries, shares, lastScan>>

-----------------------------------------------------------------------------
(* console::run, before Plex: shares first, then libraries. *)

StartDaemon ==
  /\ daemon = "down" /\ daemon' = "shares"
  /\ UNCHANGED <<scan, media, libraries, shares, lastScan, request>>

(* shares::mount_all; a server that does not answer costs its own share. *)
MountShares == \E silent \in SUBSET Folders :
  /\ daemon = "shares" /\ daemon' = "libraries"
  /\ silent = {} \/ Happens("fail")
  /\ media' = [f \in Folders |-> IF MountedAt(f) \/ shares[f] = Nothing \/ f \in silent THEN media[f]
                                 ELSE <<Share(shares[f])>>]
  /\ UNCHANGED <<scan, libraries, shares, lastScan, request>>

(* Mutants: by the name it had; only where a scan has been. *)
DeviceNamed(d)   == {e \in attached : name[e] = name[d] /\ Mountable(e)}
DeviceScanned(d) == {e \in attached : e = d /\ scan[e] # NoMount}

(* disks::mount_all and mount_one: the volume is found by its PARTUUID whatever its name, mounted if
   nothing is mounted at its point, and the folder bound from there, if the folder is still on it.  One step for all of
   them: what is looked for is each volume on its own, and one plugged in just after it was looked for is left as one
   whose folder has gone. *)
DeviceWith(d) == {e \in attached : e = d /\ content[e].is = "library"}
MountLibraries == \E vanished \in SUBSET Folders :
  LET wanted == {f \in Folders : libraries[f] # Nothing /\ ~MountedAt(f)}
      probed(d) == IF scan[d] # NoMount \/ DeviceWith(d) = {} THEN scan[d]
                   ELSE LET e == CHOOSE e \in DeviceWith(d) : TRUE IN [disk |-> e, node |-> name[e]]
      point(d)  == IF \E f \in wanted : libraries[f] = d THEN probed(d) ELSE scan[d]
  IN /\ daemon = "libraries" /\ daemon' = "up"
     /\ vanished = {} \/ Happens("fail")
     /\ scan' = [k \in Keys |-> IF k \in Disks THEN point(k) ELSE scan[k]]
     /\ media' = [f \in Folders |->
          IF f \in wanted \ vanished /\ probed(libraries[f]) # NoMount THEN <<probed(libraries[f])>> ELSE media[f]]
     /\ UNCHANGED <<libraries, shares, lastScan, request>>

(* plexosd dies: what it knew is gone, what is mounted stays.  The machine restarts: the mounts too. *)
LibrariesCrash ==
  /\ daemon' = "down" /\ lastScan' = NotScanned /\ request' = [r \in Requests |-> Idle]
  /\ UNCHANGED <<scan, media, libraries, shares>>
LibrariesReboot ==
  /\ daemon' = "down" /\ lastScan' = NotScanned /\ request' = [r \in Requests |-> Idle]
  /\ scan' = [k \in Keys |-> NoMount] /\ media' = [f \in Folders |-> <<>>]
  /\ UNCHANGED <<libraries, shares>>

LibrariesStep ==
  \/ \E r \in Requests : ScanBegin(r) \/ ScanOne(r) \/ ScanEnd(r) \/ AddVetted(r) \/ AddBind(r) \/ AddSave(r)
                         \/ RemoveUnmount(r) \/ RemoveSave(r) \/ Release(r)
                         \/ ShareAdd(r) \/ ShareSave(r) \/ ShareMount(r) \/ ShareNamed(r)
  \/ StartDaemon \/ MountShares \/ MountLibraries
=============================================================================
