--------------------------------- MODULE Media ---------------------------------
(***************************************************************************)
(* Removable media (media.rs): a medium is mounted while somebody looks at  *)
(* it, copies a package from it, or updates from it, each on a thread of     *)
(* its own, at a mount point named for the device.                          *)
(***************************************************************************)
EXTENDS Drives

CONSTANT Readers  \* threads

VARIABLES
  medium,  \* the disk mounted at /run/plexos-media/<name>
  reader   \* what each thread is doing, with which medium

media_vars == <<medium, reader>>

NotReading == [at |-> "idle", name |-> Nothing, todo |-> {}]
Reads(r, at) == reader[r].at = at
ReaderBecomes(r, to) == reader' = [reader EXCEPT ![r] = to]
Holding == {"looking", "copying", "holding", "updating"}

MediaTypeOK ==
  /\ medium \in [Names -> Disks \cup {Nothing}]
  /\ reader \in [Readers -> [at : {"idle", "scanning"} \cup Holding, name : Names \cup {Nothing}, todo : SUBSET Names]]

MediaInit == medium = [n \in Names |-> Nothing] /\ reader = [r \in Readers |-> NotReading]

(* media::mount_ro of /dev/n.  The kernel does not mount a device twice at one point. *)
Readable(n) == {d \in At(n) : medium[n] = Nothing /\ content[d].is # "locked"}
MountRo(n) == \E d \in Readable(n) : medium' = [medium EXCEPT ![n] = d]
(* media::unmount, whoever mounted it. *)
Unmount(n) == medium' = [medium EXCEPT ![n] = Nothing]

(* media::volumes: every volume but the running disk's, or every one when that is not known. *)
MediaVolumes == {n \in Enumerated : At(n) \cap RunningDisk = {}}

(* GET /api/media and POST /api/update/media: mount, look, unmount, one volume after another. *)
ScanMedia(r) ==
  /\ Reads(r, "idle") /\ Happens("media")
  /\ ReaderBecomes(r, [NotReading EXCEPT !.at = "scanning", !.todo = MediaVolumes])
  /\ UNCHANGED medium

LookAt(r) == \E n \in reader[r].todo :
  /\ Reads(r, "scanning")
  /\ MountRo(n)
  /\ ReaderBecomes(r, [reader[r] EXCEPT !.at = "looking", !.name = n, !.todo = @ \ {n}])

SkipMedium(r) == \E n \in reader[r].todo :
  /\ Reads(r, "scanning")
  /\ Readable(n) = {}
  /\ ReaderBecomes(r, [reader[r] EXCEPT !.todo = @ \ {n}])
  /\ UNCHANGED medium

Looked(r) ==
  /\ Reads(r, "looking")
  /\ Unmount(reader[r].name)
  /\ ReaderBecomes(r, [reader[r] EXCEPT !.at = "scanning", !.name = Nothing])

ScannedMedia(r) ==
  /\ Reads(r, "scanning") /\ reader[r].todo = {}
  /\ ReaderBecomes(r, NotReading)
  /\ UNCHANGED medium

(* POST /api/provision/media, media::fetch: under the provisioning job, the medium by the name in the path. *)
FetchPackage(r) == \E n \in Enumerated :
  /\ Reads(r, "idle") /\ Happens("media")
  /\ \A q \in Readers : ~Reads(q, "copying")
  /\ MountRo(n)
  /\ ReaderBecomes(r, [NotReading EXCEPT !.at = "copying", !.name = n])

Fetched(r) ==
  /\ Reads(r, "copying")
  /\ Unmount(reader[r].name)
  /\ ReaderBecomes(r, NotReading)

(* POST /api/update with a path on a medium: mounted first, then the job is claimed, and the mount is let
   go of with the job, or at once if there is one already. *)
MountForUpdate(r) == \E n \in Names :
  /\ Reads(r, "idle") /\ Happens("media")
  /\ MountRo(n)
  /\ ReaderBecomes(r, [NotReading EXCEPT !.at = "holding", !.name = n])

BeginUpdate(r) ==
  /\ Reads(r, "holding") /\ \A q \in Readers : ~Reads(q, "updating")
  /\ ReaderBecomes(r, [reader[r] EXCEPT !.at = "updating"])
  /\ UNCHANGED medium

LetGo(r) ==
  /\ \/ Reads(r, "updating")
     \/ Reads(r, "holding") /\ \E q \in Readers : Reads(q, "updating")
  /\ Unmount(reader[r].name)
  /\ ReaderBecomes(r, NotReading)

(* plexosd dies: a mount it held stays, until the machine restarts. *)
MediaCrash  == reader' = [r \in Readers |-> NotReading] /\ UNCHANGED medium
MediaReboot == reader' = [r \in Readers |-> NotReading] /\ medium' = [n \in Names |-> Nothing]

MediaStep == \E r \in Readers :
  \/ ScanMedia(r) \/ LookAt(r) \/ SkipMedium(r) \/ Looked(r) \/ ScannedMedia(r)
  \/ FetchPackage(r) \/ Fetched(r) \/ MountForUpdate(r) \/ BeginUpdate(r) \/ LetGo(r)
=============================================================================
