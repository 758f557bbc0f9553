----------------------------- MODULE Storage_proofs -----------------------------
(***************************************************************************)
(* Proofs about Storage, for any number of disks, names, folders, servers,  *)
(* readers and threads: the running system's disk is never touched, what is *)
(* kept of folders and scans is true of the drives, a copy holds the medium *)
(* it reads, and an installation writes the disk it was begun on.           *)
(*                                                                          *)
(* The argument has two halves.  A device name that is vetted is not the    *)
(* running disk's, because no other drive is ever given that name and it    *)
(* never loses it; so no step of an installation, which opens the name      *)
(* again each time, reaches it.  And what is mounted was mountable or is a  *)
(* server's, while the running disk is an appliance and stays one: this is  *)
(* where the second half needs the first.                                   *)
(***************************************************************************)
EXTENDS Storage, SequenceTheorems, TLAPS

StorageSpec == StorageInit /\ [][StorageNext]_disks

-----------------------------------------------------------------------------
(* The invariant. *)

(* What may be shown anywhere. *)
Elsewhere == {m \in Mounts \cup {Share(s) : s \in Servers} : m.disk # System}

LibraryFile == [Folders -> Disks \cup {Nothing}]
ShareFile   == [Folders -> Servers \cup {Nothing}]

Found  == Names \X Disks
Loaded == {<<>>} \cup LibraryFile \cup ShareFile
Asked == [at : {"idle", "scan", "bind", "save", "forget", "share_save", "share_mount"},
          folder : Folders \cup {Nothing}, disk : Disks \cup Servers \cup {Nothing},
          todo : SUBSET Found, refused : SUBSET Names, loaded : Loaded]

(* What a thread of each kind has in hand. *)
InHand(q) ==
  /\ q.at \in {"bind", "save"} => q.folder \in Folders /\ q.disk \in Disks /\ q.loaded \in LibraryFile
  /\ q.at = "forget" => q.folder \in Folders /\ q.loaded \in LibraryFile
  /\ q.at = "share_save" => q.folder \in Folders /\ q.disk \in Servers \cup {Nothing} /\ q.loaded \in ShareFile
  /\ q.at = "share_mount" => q.folder \in Folders /\ q.disk \in Servers

(* Nobody else has the running disk's name, and its content is what it was. *)
OwnName == \A d \in attached : name[d] = SystemName => d = System
OwnContent == content[System] = [is |-> "appliance", parts |-> Parts]

(* A disk that is there has a name. *)
AttachedIsNamed == \A d \in attached : name[d] \in Names

(* An installation under way has a name that is not the running disk's. *)
JobInv ==
  /\ job = [phase |-> job.phase, step |-> job.step, name |-> job.name, disk |-> job.disk, sees |-> job.sees]
  /\ job.phase \in Working => job.name # SystemName

KernelInv == DrivesTypeOK /\ AttachedIsNamed /\ OwnName /\ OwnContent /\ JobInv

ShownInv ==
  /\ scan \in [Keys -> Elsewhere \cup {NoMount}] /\ media \in [Folders -> Seq(Elsewhere)]
  /\ libraries \in LibraryFile /\ shares \in ShareFile
  /\ request \in [Requests -> Asked] /\ \A r \in Requests : InHand(request[r])

DiskInv == KernelInv /\ ShownInv

-----------------------------------------------------------------------------
(* What may be shown. *)

LEMMA DiskElsewhere ==
  ASSUME NEW d \in Disks, NEW n \in Names, d # System
  PROVE  [disk |-> d, node |-> n] \in Elsewhere
BY DEF Elsewhere, Mounts

LEMMA ServerElsewhere ==
  ASSUME NEW s \in Servers
  PROVE  Share(s) \in Elsewhere
BY DiskAssumption, ServersAssumption DEF Elsewhere, Share

(* Taking off what is on top leaves what was below. *)
LEMMA FrontIsSeq ==
  ASSUME NEW S, NEW s \in Seq(S), s # <<>>
  PROVE  Front(s) \in Seq(S)
<1>1. Len(s) \in Nat \ {0}
  BY EmptySeq
<1> QED
  BY <1>1, SubSeqProperties DEF Front

LEMMA InvIsEnough == DiskInv => RunningDiskUntouched
<1> SUFFICES ASSUME DiskInv, NEW m \in AllMounts
             PROVE  m.disk # System
  BY DEF RunningDiskUntouched, InUse, DiskInv, KernelInv, OwnContent
<1>1. NoMount.disk # System
  BY NothingAssumption, DiskAssumption DEF NoMount
<1>2. ASSUME NEW k \in Keys, m = scan[k]
      PROVE  m.disk # System
  BY <1>1, <1>2 DEF DiskInv, ShownInv, Elsewhere
<1>3. ASSUME NEW f \in Folders, m \in Range(media[f])
      PROVE  m.disk # System
  <2>1. media[f] \in Seq(Elsewhere)
    BY DEF DiskInv, ShownInv
  <2>2. m \in Elsewhere
    BY <1>3, <2>1, LenProperties, ElementOfSeq DEF Range
  <2> QED
    BY <2>2 DEF Elsewhere
<1> QED
  BY <1>2, <1>3 DEF AllMounts

-----------------------------------------------------------------------------
(* It holds at the start. *)

LEMMA IdleIsAsked == Idle \in Asked /\ InHand(Idle)
<1>1. Idle.at = "idle"
  BY DEF Idle
<1>2. InHand(Idle)
  BY <1>1 DEF InHand
<1>3. Idle \in Asked
  BY DEF Idle, Asked, Loaded
<1> QED
  BY <1>2, <1>3

LEMMA Initially == StorageInit => DiskInv
<1> SUFFICES ASSUME StorageInit
             PROVE  DiskInv
  OBVIOUS
<1> USE DEF StorageInit
<1>1. attached \subseteq Disks /\ System \in attached
  BY DiskAssumption DEF DrivesInit
<1>2. content \in [Disks -> [is : {"library", "bare", "locked", "appliance"}, parts : SUBSET Parts]] /\ OwnContent
  BY DiskAssumption, KindAssumption DEF DrivesInit, OwnContent
<1>3. DrivesTypeOK /\ AttachedIsNamed /\ OwnName
  BY <1>1, <1>2 DEF DrivesInit, DrivesTypeOK, AttachedIsNamed, OwnName
<1>4. JobInv
  BY DEF InstallerInit, NoJob, JobInv, Working
<1>5. scan \in [Keys -> Elsewhere \cup {NoMount}] /\ libraries \in LibraryFile /\ shares \in ShareFile
  BY DEF LibrariesInit, LibraryFile, ShareFile
<1>6. media \in [Folders -> Seq(Elsewhere)]
  BY EmptySeq DEF LibrariesInit
<1>7. request \in [Requests -> Asked] /\ \A r \in Requests : InHand(request[r])
  BY IdleIsAsked DEF LibrariesInit
<1> QED
  BY <1>2, <1>3, <1>4, <1>5, <1>6, <1>7 DEF DiskInv, KernelInv, ShownInv

-----------------------------------------------------------------------------
(* Drives that come and go, and the installation. *)

LEMMA PlugKeeps ==
  ASSUME KernelInv, NEW d \in Others, Plug(d) \/ Unplug(d)
  PROVE  KernelInv'
<1> USE DEF KernelInv, Others
<1>1. job' = job /\ content' = content
  BY DEF Plug, Unplug
<1>2. DrivesTypeOK'
  BY <1>1, DiskAssumption DEF Plug, Unplug, DrivesTypeOK
<1>3. CASE Plug(d)
  <2>1. PICK n \in Names : NameFree(n) /\ attached' = attached \cup {d} /\ name' = [name EXCEPT ![d] = n]
    BY <1>3 DEF Plug
  <2>2. n # SystemName
    BY <2>1 DEF NameFree, At, DrivesTypeOK
  <2>3. OwnName' /\ AttachedIsNamed'
    BY <2>1, <2>2 DEF OwnName, AttachedIsNamed, DrivesTypeOK
  <2> QED
    BY <1>1, <1>2, <2>3 DEF OwnContent, JobInv
<1>4. CASE Unplug(d)
  BY <1>1, <1>2, <1>4 DEF Unplug, OwnName, AttachedIsNamed, OwnContent, JobInv
<1> QED
  BY <1>3, <1>4

(* The name an installation works on has some other drive behind it, if any. *)
LEMMA TargetIsOther ==
  ASSUME KernelInv, job.phase \in Working, NEW d \in Target
  PROVE  d \in Disks /\ d # System
BY DEF KernelInv, DrivesTypeOK, JobInv, Target, At

LEMMA InstallKeeps ==
  ASSUME KernelInv, NEW inUse, InstallStep(inUse), UNCHANGED <<attached, name>>
  PROVE  KernelInv'
<1> USE DEF KernelInv
<1>1. OwnName' /\ AttachedIsNamed'
  BY DEF OwnName, AttachedIsNamed
<1>2. CASE BeginInstall
  <2>1. PICK n \in Names : /\ RunningDisk # {} /\ \E d \in At(n) : d \notin RunningDisk
                           /\ job' = [NoJob EXCEPT !.phase = "partitioning", !.step = 1, !.name = n]
                           /\ content' = content
    BY <1>2 DEF BeginInstall, Vetted
  <2>2. n # SystemName
    BY <2>1 DEF RunningDisk, At, OwnName
  <2>3. JobInv'
    BY <2>1, <2>2 DEF JobInv, NoJob
  <2> QED
    BY <1>1, <2>1, <2>3 DEF OwnContent, DrivesTypeOK
<1>3. CASE WriteTable
  <2>1. PICK d \in Target : /\ Turns("table")
                            /\ content' = [content EXCEPT ![d] = [is |-> "appliance", parts |-> {"table"}]]
                            /\ job' = [Advance EXCEPT !.disk = d, !.sees = content[d].is = "appliance"]
    BY <1>3 DEF WriteTable
  <2>2. job.phase \in Working
    BY <2>1 DEF Turns
  <2>3. d \in Disks /\ d # System
    BY <2>1, <2>2, TargetIsOther
  <2>4. OwnContent' /\ DrivesTypeOK'
    BY <2>1, <2>3 DEF OwnContent, DrivesTypeOK, Parts
  <2>5. JobInv'
    BY <2>1, <2>2 DEF JobInv, Advance
  <2> QED
    BY <1>1, <2>4, <2>5
<1>4. CASE Reread(inUse)
  <2>1. JobInv'
    BY <1>4 DEF Reread, Turns, JobInv, Advance
  <2> QED
    BY <1>1, <1>4, <2>1 DEF Reread, OwnContent, DrivesTypeOK
<1>5. ASSUME NEW part \in {"verity", "esp", "usr", "var"}, Copy(part)
      PROVE  KernelInv'
  <2>1. PICK d \in Target : /\ Turns(part)
                            /\ content' = [content EXCEPT ![d].parts = @ \cup {part}]
                            /\ job' = IF part = "var" THEN [job EXCEPT !.phase = "done", !.step = 0] ELSE Advance
    BY <1>5 DEF Copy
  <2>2. job.phase \in Working
    BY <2>1 DEF Turns
  <2>3. d \in Disks /\ d # System
    BY <2>1, <2>2, TargetIsOther
  <2>4. OwnContent' /\ DrivesTypeOK'
    BY <2>1, <2>3 DEF OwnContent, DrivesTypeOK, Parts
  <2>5. JobInv'
    BY <2>1, <2>2 DEF JobInv, Advance
  <2> QED
    BY <1>1, <2>4, <2>5
<1>6. CASE InstallFails
  <2>1. PICK damaged \in SUBSET (Target \cap {job.disk}) :
          content' = [d \in Disks |-> IF d \in damaged THEN [content[d] EXCEPT !.parts = @ \ {Steps[job.step]}] ELSE content[d]]
    BY <1>6 DEF InstallFails
  <2>2. System \notin damaged
    BY <1>6, <2>1, TargetIsOther DEF InstallFails
  <2>3. OwnContent'
    BY <2>1, <2>2, DiskAssumption DEF OwnContent
  <2>4. DrivesTypeOK'
    BY <2>1 DEF DrivesTypeOK
  <2>5. JobInv'
    BY <1>6 DEF InstallFails, Failed, JobInv, Working
  <2> QED
    BY <1>1, <2>3, <2>4, <2>5
<1> QED
  BY <1>2, <1>3, <1>4, <1>5, <1>6 DEF InstallStep

-----------------------------------------------------------------------------
(* Libraries and shares. *)

(* A thread goes on with what its place allows it to have in hand. *)
LEMMA RequestGoesOn ==
  ASSUME ShownInv, NEW r \in Requests, NEW q \in Asked, InHand(q), Becomes(r, q)
  PROVE  request' \in [Requests -> Asked] /\ \A p \in Requests : InHand(request'[p])
BY DEF ShownInv, Becomes

LEMMA RequestEnds ==
  ASSUME ShownInv, NEW r \in Requests, Ends(r)
  PROVE  request' \in [Requests -> Asked] /\ \A p \in Requests : InHand(request'[p])
BY IdleIsAsked, RequestGoesOn DEF Ends

LEMMA RequestStays ==
  ASSUME ShownInv, UNCHANGED request
  PROVE  request' \in [Requests -> Asked] /\ \A p \in Requests : InHand(request'[p])
BY DEF ShownInv

(* Something more, or something less, on top of one folder. *)
LEMMA ShowMore ==
  ASSUME ShownInv, NEW f \in Folders, NEW m \in Elsewhere, media' = [media EXCEPT ![f] = Append(@, m)]
  PROVE  media' \in [Folders -> Seq(Elsewhere)]
BY DEF ShownInv

LEMMA ShowLess ==
  ASSUME ShownInv, NEW f \in Folders, media' = [media EXCEPT ![f] = IF MountedAt(f) THEN Front(@) ELSE @]
  PROVE  media' \in [Folders -> Seq(Elsewhere)]
<1>1. media[f] \in Seq(Elsewhere) /\ (MountedAt(f) => Front(media[f]) \in Seq(Elsewhere))
  BY FrontIsSeq DEF ShownInv, MountedAt
<1> QED
  BY <1>1 DEF ShownInv

LEMMA ShowShare ==
  ASSUME ShownInv, NEW f \in Folders, NEW s \in Servers, MountShare(f, s)
  PROVE  media' \in [Folders -> Seq(Elsewhere)]
<1>1. <<Share(s)>> \in Seq(Elsewhere)
  BY ServerElsewhere
<1> QED
  BY <1>1 DEF ShownInv, MountShare

(* A disk that can be mounted is not the one the system runs from. *)
LEMMA MountableIsOther ==
  ASSUME KernelInv, NEW d, Mountable(d)
  PROVE  d \in Disks /\ d # System /\ name[d] \in Names \cup {Nothing}
BY DEF KernelInv, DrivesTypeOK, OwnContent, Mountable

LEMMA ScanKeeps ==
  ASSUME DiskInv, NEW r \in Requests, ScanBegin(r) \/ ScanOne(r) \/ ScanEnd(r)
  PROVE  ShownInv'
<1> USE DEF DiskInv
<1>1. CASE ScanBegin(r)
  <2> DEFINE todo == {p \in Names \X attached : name[p[2]] = p[1] /\ ~VolumeRefused(p[2])}
             q == [Idle EXCEPT !.at = "scan", !.todo = todo]
  <2>1. todo \in SUBSET Found
    BY DEF KernelInv, DrivesTypeOK, Found
  <2>2. q \in Asked /\ InHand(q)
    <3> HIDE DEF todo
    <3> QED
      BY <2>1 DEF Idle, Asked, InHand, Loaded
  <2>3. Becomes(r, q) /\ UNCHANGED <<scan, media, libraries, shares>>
    BY <1>1 DEF ScanBegin
  <2> QED
    BY <2>2, <2>3, RequestGoesOn DEF ShownInv
<1>2. CASE ScanOne(r)
  <2>1. PICK seen \in request[r].todo :
          /\ Turn(r, "scan")
          /\ \/ UNCHANGED scan
             \/ \E d \in At(seen[1]) :
                  Mountable(d) /\ scan' = [scan EXCEPT ![ScanPoint(seen[2])] = [disk |-> d, node |-> seen[1]]]
          /\ \E refused \in SUBSET Names :
               Becomes(r, [request[r] EXCEPT !.todo = @ \ {seen}, !.refused = refused])
          /\ UNCHANGED <<media, libraries, shares>>
    <3>1. PICK seen \in request[r].todo :
            LET point == ScanPoint(seen[2])
                found == {d \in At(seen[1]) : Mountable(d)}
                rest  == [request[r] EXCEPT !.todo = @ \ {seen}]
            IN /\ Turn(r, "scan")
               /\ \/ /\ scan[point] # NoMount
                     /\ Becomes(r, rest) /\ UNCHANGED scan
                  \/ /\ scan[point] = NoMount
                     /\ \E d \in found : scan' = [scan EXCEPT ![point] = [disk |-> d, node |-> seen[1]]]
                     /\ Becomes(r, rest)
                  \/ /\ scan[point] = NoMount /\ found = {}
                     /\ Becomes(r, [rest EXCEPT !.refused = @ \cup {seen[1]}]) /\ UNCHANGED scan
               /\ UNCHANGED <<daemon, media, libraries, shares, lastScan>>
      BY <1>2 DEF ScanOne
    <3>2. request[r] \in Asked
      BY DEF ShownInv
    <3>3. seen[1] \in Names /\ request[r].refused \in SUBSET Names
      BY <3>1, <3>2 DEF Asked, Found
    <3>4. [request[r] EXCEPT !.todo = @ \ {seen}] = [request[r] EXCEPT !.todo = @ \ {seen}, !.refused = request[r].refused]
      BY <3>2 DEF Asked
    <3>5. [[request[r] EXCEPT !.todo = @ \ {seen}] EXCEPT !.refused = @ \cup {seen[1]}]
            = [request[r] EXCEPT !.todo = @ \ {seen}, !.refused = request[r].refused \cup {seen[1]}]
      BY <3>2 DEF Asked
    <3>6. request[r].refused \cup {seen[1]} \in SUBSET Names
      BY <3>3
    <3>7. \E refused \in SUBSET Names : Becomes(r, [request[r] EXCEPT !.todo = @ \ {seen}, !.refused = refused])
      BY <3>1, <3>3, <3>4, <3>5, <3>6
    <3> QED
      BY <3>1, <3>7
  <2>2. request[r] \in Asked /\ InHand(request[r]) /\ request[r].at = "scan" /\ seen[1] \in Names
    BY <2>1 DEF ShownInv, Turn, Asked, Found
  <2>3. PICK refused \in SUBSET Names : Becomes(r, [request[r] EXCEPT !.todo = @ \ {seen}, !.refused = refused])
    BY <2>1
  <2> DEFINE q == [request[r] EXCEPT !.todo = @ \ {seen}, !.refused = refused]
  <2>4. q \in Asked /\ InHand(q)
    BY <2>2 DEF Asked, InHand
  <2>5. scan' \in [Keys -> Elsewhere \cup {NoMount}]
    <3>1. ASSUME NEW d \in At(seen[1]), Mountable(d)
          PROVE  [disk |-> d, node |-> seen[1]] \in Elsewhere
      BY <2>2, <3>1, MountableIsOther, DiskElsewhere
    <3> QED
      BY <2>1, <3>1 DEF ShownInv
  <2> HIDE DEF q
  <2> QED
    BY <2>1, <2>3, <2>4, <2>5, RequestGoesOn DEF ShownInv, q
<1>3. CASE ScanEnd(r)
  BY <1>3, RequestEnds DEF ScanEnd, ShownInv
<1> QED
  BY <1>1, <1>2, <1>3

LEMMA LibraryKeeps ==
  ASSUME DiskInv, NEW r \in Requests,
         AddVetted(r) \/ AddBind(r) \/ AddSave(r) \/ RemoveUnmount(r) \/ RemoveSave(r) \/ Release(r)
  PROVE  ShownInv'
<1> USE DEF DiskInv
<1>1. request[r] \in Asked /\ InHand(request[r])
  BY DEF ShownInv
<1>2. CASE AddVetted(r)
  <2>1. PICK f \in Folders, d \in Disks :
          Becomes(r, [Idle EXCEPT !.at = "bind", !.folder = f, !.disk = d, !.loaded = libraries])
    BY <1>2 DEF AddVetted
  <2> DEFINE q == [Idle EXCEPT !.at = "bind", !.folder = f, !.disk = d, !.loaded = libraries]
  <2>2. q \in Asked /\ InHand(q)
    BY DEF ShownInv, Idle, Asked, InHand, Loaded
  <2> HIDE DEF q
  <2> QED
    BY <1>2, <2>1, <2>2, RequestGoesOn DEF AddVetted, ShownInv, q
<1>3. CASE AddBind(r)
  <2> DEFINE q == [request[r] EXCEPT !.at = "save"]
  <2>1. request[r].at = "bind" /\ request[r].folder \in Folders /\ request[r].disk \in Disks
    BY <1>1, <1>3 DEF AddBind, Turn, InHand
  <2>2. q \in Asked /\ InHand(q)
    BY <1>1, <2>1 DEF Asked, InHand
  <2>3. CASE scan[request[r].disk] # NoMount /\ Becomes(r, q)
             /\ media' = [media EXCEPT ![request[r].folder] = Append(@, scan[request[r].disk])]
    <3>1. scan[request[r].disk] \in Elsewhere
      BY <2>1, <2>3 DEF ShownInv, Keys
    <3>2. media' \in [Folders -> Seq(Elsewhere)]
      BY <2>1, <2>3, <3>1, ShowMore
    <3> HIDE DEF q
    <3> QED
      BY <1>3, <2>2, <2>3, <3>2, RequestGoesOn DEF AddBind, ShownInv
  <2>4. CASE Ends(r) /\ UNCHANGED media
    BY <1>3, <2>4, RequestEnds DEF AddBind, ShownInv
  <2> QED
    BY <1>3, <2>3, <2>4 DEF AddBind
<1>4. CASE AddSave(r) \/ RemoveSave(r)
  <2>1. libraries' \in LibraryFile
    <3>1. CASE AddSave(r)
      <4>1. request[r].loaded \in LibraryFile /\ request[r].disk \in Disks
        BY <1>1, <3>1 DEF AddSave, Turn, InHand
      <4> QED
        BY <3>1, <4>1 DEF AddSave, ShownInv, LibraryFile
    <3>2. CASE RemoveSave(r)
      <4>1. request[r].loaded \in LibraryFile
        BY <1>1, <3>2 DEF RemoveSave, Turn, InHand
      <4> QED
        BY <3>2, <4>1 DEF RemoveSave, ShownInv, LibraryFile
    <3> QED
      BY <1>4, <3>1, <3>2
  <2> QED
    BY <1>4, <2>1, RequestEnds DEF AddSave, RemoveSave, ShownInv
<1>5. CASE RemoveUnmount(r)
  <2>1. PICK f \in Folders :
          /\ \/ media' = [media EXCEPT ![f] = IF MountedAt(f) THEN Front(@) ELSE @]
             \/ UNCHANGED media
          /\ Becomes(r, [Idle EXCEPT !.at = "forget", !.folder = f, !.loaded = libraries])
    BY <1>5 DEF RemoveUnmount
  <2> DEFINE q == [Idle EXCEPT !.at = "forget", !.folder = f, !.loaded = libraries]
  <2>2. q \in Asked /\ InHand(q)
    BY DEF ShownInv, Idle, Asked, InHand, Loaded
  <2>3. media' \in [Folders -> Seq(Elsewhere)]
    BY <2>1, ShowLess DEF ShownInv
  <2> HIDE DEF q
  <2> QED
    BY <1>5, <2>1, <2>2, <2>3, RequestGoesOn DEF RemoveUnmount, ShownInv, q
<1>6. CASE Release(r)
  BY <1>6, RequestStays DEF Release, ShownInv
<1> QED
  BY <1>2, <1>3, <1>4, <1>5, <1>6

LEMMA ShareKeeps ==
  ASSUME DiskInv, NEW r \in Requests, ShareAdd(r) \/ ShareSave(r) \/ ShareMount(r) \/ ShareNamed(r)
  PROVE  ShownInv'
<1> USE DEF DiskInv
<1>1. request[r] \in Asked /\ InHand(request[r])
  BY DEF ShownInv
<1>2. CASE ShareAdd(r)
  <2>1. PICK f \in Folders, s \in Servers :
          Becomes(r, [Idle EXCEPT !.at = "share_save", !.folder = f, !.disk = s, !.loaded = shares])
    BY <1>2 DEF ShareAdd
  <2> DEFINE q == [Idle EXCEPT !.at = "share_save", !.folder = f, !.disk = s, !.loaded = shares]
  <2>2. q \in Asked /\ InHand(q)
    BY DEF ShownInv, Idle, Asked, InHand, Loaded
  <2> HIDE DEF q
  <2> QED
    BY <1>2, <2>1, <2>2, RequestGoesOn DEF ShareAdd, ShownInv, q
<1>3. CASE ShareSave(r)
  <2> DEFINE q == [request[r] EXCEPT !.at = "share_mount"]
  <2>1. request[r].at = "share_save" /\ request[r].folder \in Folders
          /\ request[r].disk \in Servers \cup {Nothing} /\ request[r].loaded \in ShareFile
    BY <1>1, <1>3 DEF ShareSave, Turn, InHand
  <2>2. shares' \in ShareFile
    BY <1>3, <2>1 DEF ShareSave, ShownInv, ShareFile
  <2>3. request[r].disk # Nothing => q \in Asked /\ InHand(q)
    BY <1>1, <2>1 DEF Asked, InHand
  <2>4. Ends(r) \/ (request[r].disk # Nothing /\ Becomes(r, q))
    BY <1>3 DEF ShareSave
  <2> HIDE DEF q
  <2> QED
    BY <1>3, <2>2, <2>3, <2>4, RequestEnds, RequestGoesOn DEF ShareSave, ShownInv
<1>4. CASE ShareMount(r)
  <2>1. request[r].folder \in Folders /\ request[r].disk \in Servers
    BY <1>1, <1>4 DEF ShareMount, Turn, InHand
  <2>2. media' \in [Folders -> Seq(Elsewhere)]
    BY <1>4, <2>1, ShowShare DEF ShareMount
  <2> QED
    BY <1>4, <2>2, RequestEnds DEF ShareMount, ShownInv
<1>5. CASE ShareNamed(r)
  <2>1. PICK f \in Folders :
          /\ shares[f] # Nothing
          /\ \/ MountShare(f, shares[f]) /\ UNCHANGED request
             \/ MountedAt(f) /\ media' = [media EXCEPT ![f] = Front(@)] /\ UNCHANGED request
             \/ /\ media' = [media EXCEPT ![f] = IF MountedAt(f) THEN Front(@) ELSE @]
                /\ Becomes(r, [Idle EXCEPT !.at = "share_save", !.folder = f, !.loaded = shares])
    BY <1>5 DEF ShareNamed
  <2> DEFINE q == [Idle EXCEPT !.at = "share_save", !.folder = f, !.loaded = shares]
  <2>2. q \in Asked /\ InHand(q)
    BY DEF ShownInv, Idle, Asked, InHand, Loaded
  <2>3. shares[f] \in Servers
    BY <2>1 DEF ShownInv, ShareFile
  <2>4. media' \in [Folders -> Seq(Elsewhere)]
    BY <2>1, <2>3, ShowShare, ShowLess DEF ShownInv
  <2> HIDE DEF q
  <2>5. UNCHANGED request \/ Becomes(r, q)
    BY <2>1 DEF q
  <2> QED
    BY <1>5, <2>2, <2>4, <2>5, RequestGoesOn, RequestStays DEF ShareNamed, ShownInv
<1> QED
  BY <1>2, <1>3, <1>4, <1>5

(* Before it serves, and when it stops. *)
LEMMA StartKeeps ==
  ASSUME DiskInv, StartDaemon \/ MountShares \/ MountLibraries
  PROVE  ShownInv'
<1> USE DEF DiskInv
<1>1. CASE StartDaemon
  BY <1>1, RequestStays DEF StartDaemon, ShownInv
<1>2. CASE MountShares
  <2>1. \A f \in Folders : shares[f] # Nothing => <<Share(shares[f])>> \in Seq(Elsewhere)
    BY ServerElsewhere DEF ShownInv, ShareFile
  <2> QED
    BY <1>2, <2>1, RequestStays DEF MountShares, ShownInv
<1>3. CASE MountLibraries
  <2> DEFINE wanted == {f \in Folders : libraries[f] # Nothing /\ ~MountedAt(f)}
             probed(d) == IF scan[d] # NoMount \/ DeviceWith(d) = {} THEN scan[d]
                          ELSE LET e == CHOOSE e \in DeviceWith(d) : TRUE IN [disk |-> e, node |-> name[e]]
             point(d) == IF \E f \in wanted : libraries[f] = d THEN probed(d) ELSE scan[d]
  <2>1. PICK vanished \in SUBSET Folders :
          /\ scan' = [k \in Keys |-> IF k \in Disks THEN point(k) ELSE scan[k]]
          /\ media' = [f \in Folders |->
               IF f \in wanted \ vanished /\ probed(libraries[f]) # NoMount THEN <<probed(libraries[f])>> ELSE media[f]]
          /\ UNCHANGED <<libraries, shares, lastScan, request>>
    BY <1>3 DEF MountLibraries
  <2>2. ASSUME NEW d \in Disks
        PROVE  probed(d) \in Elsewhere \cup {NoMount}
    <3>1. CASE scan[d] # NoMount \/ DeviceWith(d) = {}
      BY <3>1 DEF ShownInv, Keys
    <3>2. CASE ~(scan[d] # NoMount \/ DeviceWith(d) = {})
      <4>1. PICK e \in DeviceWith(d) : probed(d) = [disk |-> e, node |-> name[e]]
        BY <3>2
      <4>2. e \in attached /\ content[e].is = "library"
        BY <4>1 DEF DeviceWith
      <4>3. e \in Disks /\ e # System
        BY <4>2 DEF KernelInv, DrivesTypeOK, OwnContent
      <4>4. name[e] \in Names
        BY <4>2 DEF KernelInv, AttachedIsNamed
      <4> QED
        BY <4>1, <4>3, <4>4, DiskElsewhere
    <3> QED
      BY <3>1, <3>2
  <2> HIDE DEF probed
  <2>3. scan' \in [Keys -> Elsewhere \cup {NoMount}]
    BY <2>1, <2>2 DEF ShownInv
  <2>4. ASSUME NEW f \in wanted, probed(libraries[f]) # NoMount
        PROVE  <<probed(libraries[f])>> \in Seq(Elsewhere)
    <3>1. probed(libraries[f]) \in Elsewhere
      BY <2>2, <2>4 DEF ShownInv, LibraryFile
    <3> QED
      BY <3>1
  <2> HIDE DEF wanted
  <2>5. media' \in [Folders -> Seq(Elsewhere)]
    BY <2>1, <2>4 DEF ShownInv
  <2> QED
    BY <2>1, <2>3, <2>5, RequestStays DEF ShownInv
<1> QED
  BY <1>1, <1>2, <1>3

LEMMA StopKeeps ==
  ASSUME ShownInv, LibrariesCrash \/ LibrariesReboot
  PROVE  ShownInv'
<1>1. request' \in [Requests -> Asked] /\ \A r \in Requests : InHand(request'[r])
  BY IdleIsAsked DEF LibrariesCrash, LibrariesReboot
<1>2. scan' \in [Keys -> Elsewhere \cup {NoMount}] /\ media' \in [Folders -> Seq(Elsewhere)]
  BY EmptySeq DEF LibrariesCrash, LibrariesReboot, ShownInv
<1> QED
  BY <1>1, <1>2 DEF LibrariesCrash, LibrariesReboot, ShownInv

-----------------------------------------------------------------------------
(* Every step. *)

LEMMA Inductive == DiskInv /\ [StorageNext]_disks => DiskInv'
<1> SUFFICES ASSUME DiskInv, [StorageNext]_disks
             PROVE  DiskInv'
  OBVIOUS
<1>1. ASSUME UNCHANGED <<kernel, job>>
      PROVE  KernelInv'
  BY <1>1 DEF DiskInv, KernelInv, kernel, DrivesTypeOK, AttachedIsNamed, OwnName, OwnContent, JobInv
<1>2. ASSUME UNCHANGED storage
      PROVE  ShownInv'
  BY <1>2 DEF DiskInv, ShownInv, storage
<1>3. CASE LibrariesStep /\ UNCHANGED <<kernel, media_vars, job>>
  <2>1. ShownInv'
    BY <1>3, ScanKeeps, LibraryKeeps, ShareKeeps, StartKeeps DEF LibrariesStep
  <2> QED
    BY <1>1, <1>3, <2>1 DEF DiskInv
<1>4. CASE UNCHANGED <<kernel, storage, job>>
  BY <1>1, <1>2, <1>4 DEF DiskInv
<1>5. CASE InstallThread
  BY <1>2, <1>5, InstallKeeps DEF InstallThread, DiskInv
<1>6. ASSUME NEW d \in Others, Plug(d) \/ Unplug(d)
      PROVE  DiskInv'
  BY <1>2, <1>6, PlugKeeps DEF Plug, Unplug, DiskInv
<1>7. CASE DaemonStops \/ MachineRestart
  <2>1. ShownInv'
    BY <1>7, StopKeeps DEF DaemonStops, MachineRestart, DiskInv
  <2>2. JobInv' /\ UNCHANGED kernel
    BY <1>7 DEF DaemonStops, MachineRestart, InstallerCrash, NoJob, JobInv, Working
  <2> QED
    BY <2>1, <2>2 DEF DiskInv, KernelInv, kernel, DrivesTypeOK, AttachedIsNamed, OwnName, OwnContent
<1> QED
  BY <1>3, <1>4, <1>5, <1>6, <1>7 DEF StorageNext, disks

(* The strengthening of RunningDiskUntouched: what every thread, every mount and the installation have in hand. *)
THEOREM Invariance == StorageSpec => []DiskInv
BY Initially, Inductive, PTL DEF StorageSpec

(* For any number of drives, names, folders and threads, whatever is plugged in when and whichever requests overlap:
   no installation writes the running disk and no library, share or scan shows it (install.rs, disks.rs). *)
THEOREM RunningDiskIsSafe == StorageSpec => []RunningDiskUntouched
BY Invariance, InvIsEnough, PTL

-----------------------------------------------------------------------------
(* Whoever reads a medium has a mount of its own. *)

Tasked == [at : {"idle", "scanning"} \cup Holding, name : Names \cup {Nothing}, todo : SUBSET Names]

(* What is held is there, and held by one. *)
Held(r) ==
  reader[r].at \in Holding =>
    /\ reader[r].name \in Names /\ medium[reader[r].name] # Nothing
    /\ \A q \in Readers : reader[q].at \in Holding /\ reader[q].name = reader[r].name => q = r

MediaInv == MediaTypeOK /\ \A r \in Readers : Held(r)

LEMMA MediaBegins == MediaInit => MediaInv
BY DEF MediaInit, MediaInv, MediaTypeOK, Held, NotReading, Holding

LEMMA HoldingHas == {"looking", "copying", "holding", "updating"} = Holding
BY DEF Holding

LEMMA HoldingIsBusy == "idle" \notin Holding /\ "scanning" \notin Holding
BY DEF Holding

(* A thread in hand, field by field. *)
LEMMA TaskedOf ==
  ASSUME NEW q \in Tasked
  PROVE  q = [at |-> q.at, name |-> q.name, todo |-> q.todo] /\ q.at \in {"idle", "scanning"} \cup Holding
         /\ q.name \in Names \cup {Nothing} /\ q.todo \in SUBSET Names
BY DEF Tasked

LEMMA TaskedIs ==
  ASSUME NEW at \in {"idle", "scanning"} \cup Holding, NEW n \in Names \cup {Nothing}, NEW todo \in SUBSET Names
  PROVE  [at |-> at, name |-> n, todo |-> todo] \in Tasked
BY DEF Tasked

(* One thread goes on; and it takes a mount, lets one go, or leaves them alone. *)
LEMMA ReaderGoesOn ==
  ASSUME MediaInv, NEW r \in Readers, NEW to \in Tasked, ReaderBecomes(r, to)
  PROVE  reader' \in [Readers -> Tasked] /\ reader'[r] = to /\ \A q \in Readers : q # r => reader'[q] = reader[q]
BY DEF MediaInv, MediaTypeOK, ReaderBecomes, Tasked

LEMMA TakesAMount ==
  ASSUME MediaInv, attached \subseteq Disks, NEW r \in Readers, reader[r].at \notin Holding, NEW n \in Names, MountRo(n),
         NEW to \in Tasked, ReaderBecomes(r, to), to.name = n
  PROVE  MediaInv'
<1>1. reader' \in [Readers -> Tasked] /\ reader'[r] = to /\ \A q \in Readers : q # r => reader'[q] = reader[q]
  BY ReaderGoesOn
<1>2. PICK d \in Disks : medium[n] = Nothing /\ medium' = [medium EXCEPT ![n] = d]
  BY DEF MountRo, Readable, At
<1>3. medium \in [Names -> Disks \cup {Nothing}] /\ \A q \in Readers : Held(q)
  BY DEF MediaInv, MediaTypeOK
<1>4. medium' \in [Names -> Disks \cup {Nothing}] /\ medium'[n] # Nothing /\ \A m \in Names : m # n => medium'[m] = medium[m]
  BY <1>2, <1>3, NothingAssumption
<1>5. \A q \in Readers : Held(q)'
  BY <1>1, <1>2, <1>3, <1>4 DEF Held
<1> QED
  BY <1>1, <1>4, <1>5 DEF MediaInv, MediaTypeOK, Tasked

LEMMA LetsAMountGo ==
  ASSUME MediaInv, NEW r \in Readers, reader[r].at \in Holding, Unmount(reader[r].name),
         NEW to \in Tasked, ReaderBecomes(r, to), to.at \notin Holding
  PROVE  MediaInv'
<1>1. reader' \in [Readers -> Tasked] /\ reader'[r] = to /\ \A q \in Readers : q # r => reader'[q] = reader[q]
  BY ReaderGoesOn
<1>2. medium \in [Names -> Disks \cup {Nothing}] /\ \A q \in Readers : Held(q)
  BY DEF MediaInv, MediaTypeOK
<1>3. medium' \in [Names -> Disks \cup {Nothing}] /\ \A m \in Names : m # reader[r].name => medium'[m] = medium[m]
  BY <1>2 DEF Unmount
<1>4. \A q \in Readers : Held(q)'
  BY <1>1, <1>2, <1>3 DEF Held
<1> QED
  BY <1>1, <1>3, <1>4 DEF MediaInv, MediaTypeOK, Tasked

LEMMA LeavesMounts ==
  ASSUME MediaInv, NEW r \in Readers, UNCHANGED medium, NEW to \in Tasked, ReaderBecomes(r, to),
         to.at \in Holding => reader[r].at \in Holding /\ to.name = reader[r].name
  PROVE  MediaInv'
<1>1. reader' \in [Readers -> Tasked] /\ reader'[r] = to /\ \A q \in Readers : q # r => reader'[q] = reader[q]
  BY ReaderGoesOn
<1>2. \A q \in Readers : Held(q)'
  BY <1>1 DEF MediaInv, Held
<1> QED
  BY <1>1, <1>2 DEF MediaInv, MediaTypeOK, Tasked

LEMMA MediaKeeps ==
  ASSUME MediaInv, attached \subseteq Disks, MediaStep
  PROVE  MediaInv'
<1>1. PICK r \in Readers :
        \/ ScanMedia(r) \/ LookAt(r) \/ SkipMedium(r) \/ Looked(r) \/ ScannedMedia(r)
        \/ FetchPackage(r) \/ Fetched(r) \/ MountForUpdate(r) \/ BeginUpdate(r) \/ LetGo(r)
  BY DEF MediaStep
<1> DEFINE q == reader[r]
<1>2. q \in Tasked
  BY DEF MediaInv, MediaTypeOK, Tasked
<1>0. q = [at |-> q.at, name |-> q.name, todo |-> q.todo]
  BY <1>2, TaskedOf
<1>3. NotReading \in Tasked /\ NotReading.at \notin Holding
  BY DEF NotReading, Tasked, Holding
<1>4. ASSUME NEW at \in Holding, NEW n \in Names, NEW to, to = [NotReading EXCEPT !.at = at, !.name = n]
      PROVE  to \in Tasked /\ to.name = n
  <2>1. NotReading = [at |-> "idle", name |-> Nothing, todo |-> {}]
    BY DEF NotReading
  <2>2. to = [at |-> at, name |-> n, todo |-> {}]
    BY <1>4, <2>1
  <2> QED
    BY <2>2, TaskedIs
<1>5. CASE ScanMedia(r)
  <2>1. PICK to : to = [NotReading EXCEPT !.at = "scanning", !.todo = MediaVolumes]
    OBVIOUS
  <2>2. to = [at |-> "scanning", name |-> Nothing, todo |-> MediaVolumes]
    BY <2>1 DEF NotReading
  <2>3. MediaVolumes \in SUBSET Names
    BY DEF MediaVolumes, Enumerated
  <2>4. to \in Tasked /\ to.at = "scanning"
    BY <2>2, <2>3, TaskedIs
  <2> QED
    BY <1>5, <2>1, <2>4, LeavesMounts, HoldingIsBusy DEF ScanMedia
<1>6. CASE LookAt(r)
  <2>1. PICK n \in q.todo : q.at = "scanning" /\ MountRo(n) /\ ReaderBecomes(r, [q EXCEPT !.at = "looking", !.name = n, !.todo = @ \ {n}])
    BY <1>6 DEF LookAt, Reads
  <2>2. PICK to : to = [q EXCEPT !.at = "looking", !.name = n, !.todo = @ \ {n}]
    OBVIOUS
  <2>3. to = [at |-> "looking", name |-> n, todo |-> q.todo \ {n}]
    BY <1>0, <2>2
  <2>4. n \in Names /\ to \in Tasked /\ to.name = n
    BY <1>2, <2>3, TaskedOf, TaskedIs DEF Holding
  <2> QED
    BY <2>1, <2>2, <2>4, TakesAMount, HoldingIsBusy
<1>7. CASE SkipMedium(r)
  <2>1. PICK n \in q.todo : q.at = "scanning" /\ ReaderBecomes(r, [q EXCEPT !.todo = @ \ {n}]) /\ UNCHANGED medium
    BY <1>7 DEF SkipMedium, Reads
  <2>2. PICK to : to = [q EXCEPT !.todo = @ \ {n}]
    OBVIOUS
  <2>3. to = [at |-> q.at, name |-> q.name, todo |-> q.todo \ {n}]
    BY <1>0, <2>2
  <2>4. to \in Tasked /\ to.at = "scanning"
    BY <1>2, <2>1, <2>3, TaskedOf, TaskedIs
  <2> QED
    BY <2>1, <2>2, <2>4, LeavesMounts, HoldingIsBusy
<1>8. CASE Looked(r)
  <2>1. q.at = "looking" /\ Unmount(q.name) /\ ReaderBecomes(r, [q EXCEPT !.at = "scanning", !.name = Nothing])
    BY <1>8 DEF Looked, Reads
  <2>2. PICK to : to = [q EXCEPT !.at = "scanning", !.name = Nothing]
    OBVIOUS
  <2>3. to = [at |-> "scanning", name |-> Nothing, todo |-> q.todo]
    BY <1>0, <2>2
  <2>4. to \in Tasked /\ to.at = "scanning"
    BY <1>2, <2>3, TaskedOf, TaskedIs
  <2> QED
    BY <2>1, <2>2, <2>4, LetsAMountGo, HoldingIsBusy DEF Holding
<1>9. CASE ScannedMedia(r)
  BY <1>3, <1>9, LeavesMounts DEF ScannedMedia
<1>10. CASE FetchPackage(r)
  <2>1. PICK n \in Names : q.at = "idle" /\ MountRo(n) /\ ReaderBecomes(r, [NotReading EXCEPT !.at = "copying", !.name = n])
    BY <1>10 DEF FetchPackage, Enumerated, Reads
  <2>2. PICK to : to = [NotReading EXCEPT !.at = "copying", !.name = n]
    OBVIOUS
  <2>3. to \in Tasked /\ to.name = n
    BY <1>4, <2>2, HoldingHas, ZenonT(60)
  <2> QED
    BY <2>1, <2>2, <2>3, TakesAMount, HoldingIsBusy
<1>11. CASE Fetched(r) \/ LetGo(r)
  <2>1. q.at \in Holding /\ Unmount(q.name) /\ ReaderBecomes(r, NotReading)
    BY <1>11 DEF Fetched, LetGo, Reads, Holding
  <2> QED
    BY <1>3, <2>1, LetsAMountGo
<1>12. CASE MountForUpdate(r)
  <2>1. PICK n \in Names : q.at = "idle" /\ MountRo(n) /\ ReaderBecomes(r, [NotReading EXCEPT !.at = "holding", !.name = n])
    BY <1>12 DEF MountForUpdate, Reads
  <2>2. PICK to : to = [NotReading EXCEPT !.at = "holding", !.name = n]
    OBVIOUS
  <2>3. to \in Tasked /\ to.name = n
    BY <1>4, <2>2, HoldingHas
  <2> QED
    BY <2>1, <2>2, <2>3, TakesAMount, HoldingIsBusy
<1>13. CASE BeginUpdate(r)
  <2>1. q.at = "holding" /\ UNCHANGED medium /\ ReaderBecomes(r, [q EXCEPT !.at = "updating"])
    BY <1>13 DEF BeginUpdate, Reads
  <2>2. PICK to : to = [q EXCEPT !.at = "updating"]
    OBVIOUS
  <2>3. to = [at |-> "updating", name |-> q.name, todo |-> q.todo]
    BY <1>2, <2>2, TaskedOf
  <2>4. to \in Tasked /\ to.name = q.name
    BY <1>2, <2>3, TaskedOf, TaskedIs DEF Holding
  <2> QED
    BY <2>1, <2>2, <2>4, LeavesMounts DEF Holding
<1> QED
  BY <1>1, <1>5, <1>6, <1>7, <1>8, <1>9, <1>10, <1>11, <1>12, <1>13

LEMMA MediaIsHeld == MediaInv => ReaderKeepsItsMedium
BY DEF MediaInv, Held, ReaderKeepsItsMedium

(* Threads of the media go with plexosd, and mounts with the machine. *)
LEMMA MediaStops == ASSUME MediaInv, MediaCrash \/ MediaReboot PROVE MediaInv'
BY DEF MediaInv, MediaTypeOK, MediaCrash, MediaReboot, Held, NotReading, Holding

-----------------------------------------------------------------------------
(* A disk that is called done is whole. *)

NamesDiffer == \A d, e \in attached : name[d] = name[e] => d = e

(* What an installation has copied when a step begins. *)
Copied(step) == {"table"} \cup {Steps[i] : i \in 3..(step - 1)}

(* Without swaps, the disk an installation has begun to write is the one at its name, and has what was copied. *)
JobWhole ==
  /\ job.phase \in Working => job.step \in 1..6
  /\ ~Happens("swap") =>
       /\ job.phase \in Working /\ job.step > 1 =>
            job.disk \in attached /\ name[job.disk] = job.name /\ Copied(job.step) \subseteq content[job.disk].parts
       /\ job.phase = "done" => job.disk \in Disks /\ content[job.disk].parts = Parts

InstallInv == InstallerTypeOK /\ NamesDiffer /\ JobWhole

LEMMA InstallBegins == StorageInit => InstallInv
BY DEF StorageInit, DrivesInit, InstallerInit, InstallInv, InstallerTypeOK, NamesDiffer, JobWhole, NoJob, Working

JobOf(phase, step, n, d, sees) == [phase |-> phase, step |-> step, name |-> n, disk |-> d, sees |-> sees]

LEMMA JobIs ==
  ASSUME InstallerTypeOK
  PROVE  /\ job = JobOf(job.phase, job.step, job.name, job.disk, job.sees)
         /\ job.step \in 0..6 /\ job.name \in Names \cup {Nothing} /\ job.disk \in Disks \cup {Nothing} /\ job.sees \in BOOLEAN
BY DEF InstallerTypeOK, JobOf, Steps

Fits(phase, step, n, d, sees) ==
  /\ phase \in {"idle", "done", "failed"} \cup Working /\ step \in 0..6
  /\ n \in Names \cup {Nothing} /\ d \in Disks \cup {Nothing} /\ sees \in BOOLEAN

LEMMA IsAJob ==
  ASSUME NEW phase, NEW step, NEW n, NEW d, NEW sees, Fits(phase, step, n, d, sees), job' = JobOf(phase, step, n, d, sees)
  PROVE  /\ InstallerTypeOK'
         /\ job'.phase = phase /\ job'.step = step /\ job'.name = n /\ job'.disk = d
BY DEF Fits, InstallerTypeOK, JobOf, Steps

(* Which step a word names. *)
LEMMA StepIs ==
  ASSUME NEW step \in 1..6
  PROVE  /\ Steps[step] = "table" => step = 1
         /\ Steps[step] = "reread" => step = 2
         /\ Steps[step] = "verity" => step = 3
         /\ Steps[step] = "esp" => step = 4
         /\ Steps[step] = "usr" => step = 5
         /\ Steps[step] = "var" => step = 6
         /\ PhaseOf(step) \in Working
BY DEF Steps, PhaseOf, Working

LEMMA CopiedGrows ==
  /\ Copied(2) = {"table"} /\ Copied(3) = {"table"}
  /\ \A k \in 3..6 : Copied(k + 1) = Copied(k) \cup {Steps[k]}
  /\ Copied(7) = Parts
<1>1. Copied(2) = {"table"} /\ Copied(3) = {"table"}
  BY DEF Copied
<1>2. \A k \in 3..6 : 3..((k + 1) - 1) = (3..(k - 1)) \cup {k}
  OBVIOUS
<1>3. \A k \in 3..6 : Copied(k + 1) = Copied(k) \cup {Steps[k]}
  BY <1>2 DEF Copied
<1>4. Copied(4) = {"table", "verity"}
  BY <1>1, <1>3 DEF Steps
<1>5. Copied(5) = {"table", "verity", "esp"}
  BY <1>3, <1>4 DEF Steps
<1>6. Copied(6) = {"table", "verity", "esp", "usr"}
  BY <1>3, <1>5 DEF Steps
<1>7. Copied(7) = {"table", "verity", "esp", "usr", "var"}
  BY <1>3, <1>6 DEF Steps
<1> QED
  BY <1>1, <1>3, <1>7 DEF Parts

LEMMA AdvanceIs ==
  ASSUME InstallerTypeOK, NEW a, a = Advance
  PROVE  a = JobOf(PhaseOf(job.step + 1), job.step + 1, job.name, job.disk, job.sees)
<1>1. job = JobOf(job.phase, job.step, job.name, job.disk, job.sees)
  BY JobIs
<1>2. a = [job EXCEPT !.step = job.step + 1, !.phase = PhaseOf(job.step + 1)]
  BY DEF Advance
<1> QED
  BY <1>1, <1>2 DEF JobOf

LEMMA TableIsWritten ==
  ASSUME KernelInv, InstallInv, WriteTable, UNCHANGED <<attached, name, faults>>
  PROVE  InstallInv'
<1>1. PICK d \in Target : /\ Turns("table")
                          /\ content' = [content EXCEPT ![d] = [is |-> "appliance", parts |-> {"table"}]]
                          /\ job' = [Advance EXCEPT !.disk = d, !.sees = content[d].is = "appliance"]
  BY DEF WriteTable
<1>2. job.phase \in Working /\ job.step = 1 /\ InstallerTypeOK /\ NamesDiffer
  BY <1>1, StepIs DEF Turns, InstallInv, JobWhole
<1>3. d \in attached /\ name[d] = job.name /\ attached \subseteq Disks /\ content \in [Disks -> [is : {"library", "bare", "locked", "appliance"}, parts : SUBSET Parts]]
  BY <1>1 DEF Target, At, KernelInv, DrivesTypeOK
<1>4. PICK sees \in BOOLEAN : sees = (content[d].is = "appliance")
  OBVIOUS
<1>5. job' = JobOf(PhaseOf(2), 2, job.name, d, sees)
  <2>1. PICK a : a = Advance
    OBVIOUS
  <2>2. a = JobOf(PhaseOf(2), 2, job.name, job.disk, job.sees)
    BY <1>2, <2>1, AdvanceIs
  <2>3. job' = [a EXCEPT !.disk = d, !.sees = sees]
    BY <1>1, <1>4, <2>1
  <2> QED
    BY <2>2, <2>3 DEF JobOf
<1>6. PhaseOf(2) \in Working /\ job.name \in Names \cup {Nothing} /\ d \in Disks \cup {Nothing} /\ 2 \in 0..6
  BY <1>2, <1>3, StepIs, JobIs
<1>7. InstallerTypeOK' /\ job'.phase = PhaseOf(2) /\ job'.step = 2 /\ job'.name = job.name /\ job'.disk = d
  <2>1. Fits(PhaseOf(2), 2, job.name, d, sees)
    BY <1>4, <1>6 DEF Fits
  <2> QED
    BY <1>5, <2>1, IsAJob, Zenon
<1>8. content'[d].parts = {"table"}
  BY <1>1, <1>3
<1>9. JobWhole'
  BY <1>3, <1>6, <1>7, <1>8, CopiedGrows DEF JobWhole, Working
<1> QED
  BY <1>2, <1>7, <1>9 DEF InstallInv, NamesDiffer

LEMMA TableIsReread ==
  ASSUME KernelInv, InstallInv, NEW inUse, Reread(inUse), UNCHANGED <<attached, name, faults>>
  PROVE  InstallInv'
<1>1. PICK seen \in BOOLEAN : job' = [Advance EXCEPT !.sees = @ \/ seen]
  BY DEF Reread
<1>2. job.phase \in Working /\ job.step = 2 /\ InstallerTypeOK /\ NamesDiffer /\ content' = content
  BY StepIs DEF Reread, Turns, InstallInv, JobWhole
<1>3. job.sees \in BOOLEAN /\ job.name \in Names \cup {Nothing} /\ job.disk \in Disks \cup {Nothing}
  BY <1>2, JobIs
<1>4. PICK sees \in BOOLEAN : sees = (job.sees \/ seen)
  OBVIOUS
<1>5. job' = JobOf(PhaseOf(3), 3, job.name, job.disk, sees)
  <2>1. PICK a : a = Advance
    OBVIOUS
  <2>2. a = JobOf(PhaseOf(3), 3, job.name, job.disk, job.sees)
    BY <1>2, <2>1, AdvanceIs
  <2>3. job' = [a EXCEPT !.sees = a.sees \/ seen]
    BY <1>1, <2>1
  <2>4. a.sees = job.sees
    BY <2>2 DEF JobOf
  <2>5. job' = [a EXCEPT !.sees = sees]
    BY <1>4, <2>3, <2>4
  <2> QED
    BY <2>2, <2>5 DEF JobOf
<1>6. PhaseOf(3) \in Working /\ 3 \in 0..6
  BY StepIs
<1>7. InstallerTypeOK' /\ job'.phase = PhaseOf(3) /\ job'.step = 3 /\ job'.name = job.name /\ job'.disk = job.disk
  <2>1. Fits(PhaseOf(3), 3, job.name, job.disk, sees)
    BY <1>3, <1>4, <1>6 DEF Fits
  <2> QED
    BY <1>5, <2>1, IsAJob, Zenon
<1>8. JobWhole'
  BY <1>2, <1>6, <1>7, CopiedGrows DEF JobWhole, InstallInv, Working, Happens
<1> QED
  BY <1>2, <1>7, <1>8 DEF InstallInv, NamesDiffer

LEMMA PartIsCopied ==
  ASSUME KernelInv, InstallInv, NEW part \in {"verity", "esp", "usr", "var"}, Copy(part), UNCHANGED <<attached, name, faults>>
  PROVE  InstallInv'
<1>1. PICK d \in Target : /\ Turns(part)
                          /\ content' = [content EXCEPT ![d].parts = @ \cup {part}]
                          /\ job' = IF part = "var" THEN [job EXCEPT !.phase = "done", !.step = 0] ELSE Advance
  BY DEF Copy
<1>2. job.phase \in Working /\ job.step \in 3..6 /\ Steps[job.step] = part /\ InstallerTypeOK /\ NamesDiffer /\ (part = "var" <=> job.step = 6)
  <2>1. job.phase \in Working /\ job.step \in 1..6 /\ Steps[job.step] = part
    BY <1>1 DEF Turns, InstallInv, JobWhole
  <2>2. job.step \in 3..6 /\ (part = "var" <=> job.step = 6)
    BY <2>1 DEF Steps
  <2> QED
    BY <2>1, <2>2 DEF InstallInv
<1>3. d \in attached /\ name[d] = job.name /\ attached \subseteq Disks /\ content \in [Disks -> [is : {"library", "bare", "locked", "appliance"}, parts : SUBSET Parts]]
  BY <1>1 DEF Target, At, KernelInv, DrivesTypeOK
<1>4. job.name \in Names \cup {Nothing} /\ job.disk \in Disks \cup {Nothing} /\ job.sees \in BOOLEAN
  BY <1>2, JobIs
<1>5. content'[d].parts = content[d].parts \cup {part} /\ content[d].parts \subseteq Parts
  BY <1>1, <1>3
<1>6. ~Happens("swap") => d = job.disk /\ Copied(job.step) \subseteq content[d].parts
  BY <1>2, <1>3 DEF InstallInv, JobWhole, NamesDiffer
<1>7. Copied(job.step + 1) = Copied(job.step) \cup {part}
  BY <1>2, CopiedGrows
<1>8. CASE part = "var"
  <2>1. job' = JobOf("done", 0, job.name, job.disk, job.sees)
    <3>1. job' = [job EXCEPT !.phase = "done", !.step = 0]
      BY <1>1, <1>8
    <3>2. job = JobOf(job.phase, job.step, job.name, job.disk, job.sees)
      BY <1>2, JobIs
    <3> QED
      BY <3>1, <3>2 DEF JobOf
  <2>2. InstallerTypeOK' /\ job'.phase = "done" /\ job'.disk = job.disk
    <3>1. Fits("done", 0, job.name, job.disk, job.sees)
      BY <1>4 DEF Fits
    <3> QED
      BY <2>1, <3>1, IsAJob, Zenon
  <2>3. Copied(7) = Copied(job.step) \cup {part} /\ Copied(7) = Parts
    BY <1>2, <1>7, <1>8, CopiedGrows
  <2>4. JobWhole'
    BY <1>3, <1>5, <1>6, <2>2, <2>3, CopiedGrows DEF JobWhole, Working, Happens
  <2> QED
    BY <1>2, <2>2, <2>4 DEF InstallInv, NamesDiffer
<1>9. CASE part # "var"
  <2>1. job' = JobOf(PhaseOf(job.step + 1), job.step + 1, job.name, job.disk, job.sees)
    BY <1>1, <1>2, <1>9, AdvanceIs
  <2>2. job.step + 1 \in 1..6 /\ job.step + 1 \in 0..6 /\ job.step + 1 > 1 /\ job.step > 1
    BY <1>2, <1>9
  <2>3. PhaseOf(job.step + 1) \in Working
    BY <2>2, StepIs
  <2>4. InstallerTypeOK' /\ job'.phase = PhaseOf(job.step + 1) /\ job'.step = job.step + 1 /\ job'.name = job.name /\ job'.disk = job.disk
    <3>1. Fits(PhaseOf(job.step + 1), job.step + 1, job.name, job.disk, job.sees)
      BY <1>4, <2>2, <2>3 DEF Fits
    <3> QED
      BY <2>1, <3>1, IsAJob, Zenon
  <2>5. ~Happens("swap") => Copied(job.step + 1) \subseteq content'[job.disk].parts /\ job.disk \in attached /\ name[job.disk] = job.name
    BY <1>3, <1>5, <1>6, <1>7
  <2>6. JobWhole'
    BY <2>2, <2>3, <2>4, <2>5 DEF JobWhole, Working, Happens
  <2> QED
    BY <1>2, <2>4, <2>6 DEF InstallInv, NamesDiffer
<1> QED
  BY <1>8, <1>9

LEMMA InstallationKeeps ==
  ASSUME KernelInv, InstallInv, NEW inUse, InstallStep(inUse), UNCHANGED <<attached, name, faults>>
  PROVE  InstallInv'
<1>1. CASE BeginInstall
  <2>1. PICK n \in Names : job' = [NoJob EXCEPT !.phase = "partitioning", !.step = 1, !.name = n]
    BY <1>1 DEF BeginInstall
  <2>2. job' = JobOf("partitioning", 1, n, Nothing, FALSE)
    <3>1. NoJob = JobOf("idle", 0, Nothing, Nothing, FALSE)
      BY DEF NoJob, JobOf
    <3> QED
      BY <2>1, <3>1 DEF JobOf
  <2>3. Fits("partitioning", 1, n, Nothing, FALSE)
    BY DEF Fits, Working
  <2>4. InstallerTypeOK' /\ job'.phase = "partitioning" /\ job'.step = 1
    BY <2>2, <2>3, IsAJob, Zenon
  <2> QED
    BY <2>4 DEF InstallInv, NamesDiffer, JobWhole, Working
<1>2. CASE InstallFails
  <2>1. job' = JobOf("failed", 0, job.name, job.disk, job.sees)
    <3>1. job' = [job EXCEPT !.phase = "failed", !.step = 0]
      BY <1>2 DEF InstallFails, Failed
    <3>2. job = JobOf(job.phase, job.step, job.name, job.disk, job.sees)
      BY JobIs DEF InstallInv
    <3> QED
      BY <3>1, <3>2 DEF JobOf
  <2>2. Fits("failed", 0, job.name, job.disk, job.sees)
    BY JobIs DEF InstallInv, Fits
  <2>3. InstallerTypeOK' /\ job'.phase = "failed"
    BY <2>1, <2>2, IsAJob, Zenon
  <2> QED
    BY <2>3 DEF InstallInv, NamesDiffer, JobWhole, Working
<1> QED
  BY <1>1, <1>2, TableIsWritten, TableIsReread, PartIsCopied DEF InstallStep

(* Drives that come and go: only when nothing is under way, unless they are swapped. *)
LEMMA PlugLeavesTheJob ==
  ASSUME KernelInv, InstallInv, NEW d \in Others, Plug(d) \/ Unplug(d), UNCHANGED faults
  PROVE  InstallInv'
<1>1. job' = job /\ content' = content /\ (Happens("swap") \/ job.phase \notin Working)
  BY DEF Plug, Unplug, NothingUnderWay
<1>2. NamesDiffer'
  <2>1. CASE Plug(d)
    <3>1. PICK n \in Names : d \notin attached /\ At(n) = {} /\ attached' = attached \cup {d} /\ name' = [name EXCEPT ![d] = n]
      BY <2>1 DEF Plug, NameFree
    <3>2. d \in Disks /\ name \in [Disks -> Names \cup {Nothing}] /\ attached \subseteq Disks
      BY DEF Others, KernelInv, DrivesTypeOK
    <3>3. name'[d] = n /\ \A e \in attached : name'[e] = name[e] /\ name[e] # n
      BY <3>1, <3>2 DEF At
    <3> QED
      BY <3>1, <3>3 DEF InstallInv, NamesDiffer
  <2>2. CASE Unplug(d)
    BY <2>2 DEF Unplug, InstallInv, NamesDiffer
  <2> QED
    BY <2>1, <2>2
<1> QED
  BY <1>1, <1>2 DEF InstallInv, InstallerTypeOK, JobWhole, Happens

LEMMA InstallGoesOn ==
  ASSUME KernelInv, InstallInv, [StorageNext]_disks, UNCHANGED faults
  PROVE  InstallInv'
<1>1. CASE UNCHANGED <<kernel, job>>
  BY <1>1 DEF kernel, InstallInv, InstallerTypeOK, NamesDiffer, JobWhole, Happens
<1>2. CASE InstallThread
  BY <1>2, InstallationKeeps DEF InstallThread
<1>3. ASSUME NEW d \in Others, Plug(d) \/ Unplug(d) PROVE InstallInv'
  BY <1>3, PlugLeavesTheJob
<1>4. CASE UNCHANGED kernel /\ InstallerCrash
  <2>1. job' = JobOf("idle", 0, Nothing, Nothing, FALSE)
    BY <1>4 DEF InstallerCrash, NoJob, JobOf
  <2>2. Fits("idle", 0, Nothing, Nothing, FALSE)
    BY DEF Fits
  <2>3. InstallerTypeOK' /\ job'.phase = "idle"
    BY <2>1, <2>2, IsAJob, Zenon
  <2> QED
    BY <1>4, <2>3 DEF kernel, InstallInv, NamesDiffer, JobWhole, Working
<1> QED
  BY <1>1, <1>2, <1>3, <1>4 DEF StorageNext, DaemonStops, MachineRestart, disks

LEMMA DoneIsCopied == InstallInv => DoneIsWhole
BY DEF InstallInv, JobWhole, DoneIsWhole

-----------------------------------------------------------------------------
(* A library shows the disk somebody chose.  With one request at a time, and none that fails or is cut off, nothing is
   left under a folder that is forgotten, so a folder shows its library alone. *)

Calm == faults \cap {"shares", "overlap", "swap", "fail", "crash"} = {}

OneAtATime ==
  /\ \A r, q \in Requests : request[r].at # "idle" /\ request[q].at # "idle" => r = q
  /\ daemon # "up" => \A r \in Requests : request[r].at = "idle"

NoShares == (\A f \in Folders : shares[f] = Nothing) /\ \A r \in Requests : request[r].at \notin {"share_save", "share_mount"}

(* What a scan has yet to look at is still where it was seen, and a scan point named for a disk shows that disk. *)
SeenIsThere == \A r \in Requests : request[r].at = "scan" => \A p \in request[r].todo : p[2] \in attached /\ name[p[2]] = p[1]
ScanIsOwn   == \A d \in Disks : scan[d] # NoMount => scan[d].disk = d

Shows(f, d) == \E m \in Mounts : media[f] = <<m>> /\ m.disk = d

(* A request has read what is still so, and works on a folder that shows nothing or what it was asked to show. *)
HandIsTrue(r) == LET q == request[r] IN
  /\ q.at \in {"bind", "save", "forget"} => q.loaded = libraries
  /\ q.at \in {"bind", "save"} => libraries[q.folder] = Nothing
  /\ q.at \in {"bind", "forget"} => media[q.folder] = <<>>
  /\ q.at = "save" => Shows(q.folder, q.disk)

(* A folder shows nothing, or its library alone, or what is about to become its library. *)
FolderIsTrue(f) ==
  \/ media[f] = <<>>
  \/ libraries[f] # Nothing /\ Shows(f, libraries[f])
  \/ \E r \in Requests : request[r].at = "save" /\ request[r].folder = f

CalmInv ==
  /\ OneAtATime /\ NoShares /\ SeenIsThere /\ ScanIsOwn
  /\ \A r \in Requests : HandIsTrue(r)
  /\ \A f \in Folders : FolderIsTrue(f)

(* What is mounted at a point is of some disk, by some name: nothing failed or overlapping is needed for that. *)
ScanTyped ==
  /\ daemon \in {"down", "shares", "libraries", "up"} /\ scan \in [Keys -> Mounts \cup {NoMount}]
  /\ lastScan \in [tried : BOOLEAN, refused : SUBSET Names]

LibrariesInv == ScanTyped /\ (Calm => CalmInv)

LEMMA LibrariesBegin == StorageInit => LibrariesInv
<1> SUFFICES ASSUME StorageInit PROVE LibrariesInv
  OBVIOUS
<1>1. /\ daemon = "down" /\ lastScan = NotScanned
      /\ scan = [k \in Keys |-> NoMount] /\ media = [f \in Folders |-> <<>>]
      /\ shares = [f \in Folders |-> Nothing] /\ request = [r \in Requests |-> Idle]
  BY DEF StorageInit, LibrariesInit
<1>2. \A r \in Requests : request[r].at = "idle"
  BY <1>1 DEF Idle
<1>3. OneAtATime /\ NoShares /\ SeenIsThere
  BY <1>1, <1>2 DEF OneAtATime, NoShares, SeenIsThere
<1>4. ScanIsOwn
  BY <1>1 DEF ScanIsOwn, Keys
<1>5. (\A r \in Requests : HandIsTrue(r)) /\ \A f \in Folders : FolderIsTrue(f)
  BY <1>1, <1>2 DEF HandIsTrue, FolderIsTrue
<1>6. scan \in [Keys -> Mounts \cup {NoMount}]
  BY <1>1
<1>7. lastScan \in [tried : BOOLEAN, refused : SUBSET Names]
  BY <1>1 DEF NotScanned
<1> QED
  BY <1>1, <1>3, <1>4, <1>5, <1>6, <1>7 DEF LibrariesInv, ScanTyped, CalmInv

(* A request that begins is the first, and one that goes on is the only one. *)
LEMMA OnlyRequest ==
  ASSUME Calm, CalmInv, NEW r \in Requests, Free(r) \/ (daemon = "up" /\ request[r].at # "idle")
  PROVE  \A q \in Requests : q # r => request[q].at = "idle"
BY DEF CalmInv, OneAtATime, Free, Happens, Calm

(* What is left to show of a step of a request. *)
LEMMA RequestSteps ==
  ASSUME Calm, CalmInv, ShownInv, NEW r \in Requests, NEW to \in Asked, Free(r) \/ (daemon = "up" /\ request[r].at # "idle"), Becomes(r, to),
         UNCHANGED <<daemon, shares, kernel>>, to.at \notin {"share_save", "share_mount"},
         to.at = "scan" => \A p \in to.todo : p[2] \in attached /\ name[p[2]] = p[1],
         ScanIsOwn',
         to.at \in {"bind", "save", "forget"} => to.loaded = libraries',
         to.at \in {"bind", "save"} => libraries'[to.folder] = Nothing,
         to.at \in {"bind", "forget"} => media'[to.folder] = <<>>,
         to.at = "save" => Shows(to.folder, to.disk)',
         \A f \in Folders : media'[f] = <<>> \/ (libraries'[f] # Nothing /\ Shows(f, libraries[f])') \/ (to.at = "save" /\ to.folder = f)
  PROVE  CalmInv'
<1>1. \A q \in Requests : q # r => request[q].at = "idle"
  BY OnlyRequest
<1>2. request'[r] = to /\ \A q \in Requests : q # r => request'[q] = request[q]
  BY DEF ShownInv, Becomes
<1>3. daemon = "up"
  BY DEF Free, Turn
<1>4. OneAtATime' /\ NoShares'
  BY <1>1, <1>2, <1>3 DEF CalmInv, OneAtATime, NoShares
<1>5. SeenIsThere'
  BY <1>1, <1>2 DEF SeenIsThere, kernel
<1>6. \A q \in Requests : HandIsTrue(q)'
  BY <1>1, <1>2 DEF HandIsTrue
<1>7. \A f \in Folders : FolderIsTrue(f)'
  BY <1>2 DEF FolderIsTrue
<1> QED
  BY <1>4, <1>5, <1>6, <1>7 DEF CalmInv

(* What a folder shows when nobody is about to save, and nothing of it changes. *)
LEMMA FoldersStay ==
  ASSUME CalmInv, NEW r \in Requests, \A q \in Requests : q # r => request[q].at = "idle", request[r].at # "save",
         UNCHANGED <<media, libraries>>
  PROVE  \A f \in Folders : media'[f] = <<>> \/ (libraries'[f] # Nothing /\ Shows(f, libraries[f])')
<1>1. \A f \in Folders : media[f] = <<>> \/ (libraries[f] # Nothing /\ Shows(f, libraries[f]))
  BY DEF CalmInv, FolderIsTrue
<1> QED
  BY <1>1 DEF Shows

(* A request in hand, field by field. *)
Asks(at, folder, disk, todo, refused, loaded) ==
  [at |-> at, folder |-> folder, disk |-> disk, todo |-> todo, refused |-> refused, loaded |-> loaded]

LEMMA AsksOf ==
  ASSUME NEW q \in Asked
  PROVE  /\ q = Asks(q.at, q.folder, q.disk, q.todo, q.refused, q.loaded)
         /\ q.folder \in Folders \cup {Nothing} /\ q.disk \in Disks \cup Servers \cup {Nothing} /\ q.todo \in SUBSET Found
         /\ q.refused \in SUBSET Names /\ q.loaded \in Loaded
<1> HIDE DEF Found, Loaded
<1> QED
  BY DEF Asked, Asks

LEMMA AsksIs ==
  ASSUME NEW at \in {"idle", "scan", "bind", "save", "forget"}, NEW folder \in Folders \cup {Nothing},
         NEW disk \in Disks \cup Servers \cup {Nothing}, NEW todo \in SUBSET Found, NEW refused \in SUBSET Names, NEW loaded \in Loaded,
         NEW to, to = Asks(at, folder, disk, todo, refused, loaded)
  PROVE  /\ to \in Asked /\ to.at = at /\ to.folder = folder /\ to.disk = disk /\ to.todo = todo /\ to.loaded = loaded
<1> HIDE DEF Found, Loaded
<1> QED
  BY DEF Asked, Asks

LEMMA IdleAsks == Idle = Asks("idle", Nothing, Nothing, {}, {}, <<>>) /\ Idle \in Asked /\ Idle.at = "idle"
BY IdleIsAsked DEF Idle, Asks

LEMMA ScanStaysTrue ==
  ASSUME Calm, CalmInv, KernelInv, ShownInv, NEW r \in Requests, ScanBegin(r) \/ ScanEnd(r)
  PROVE  UNCHANGED kernel => CalmInv'
<1> SUFFICES ASSUME UNCHANGED kernel PROVE CalmInv'
  OBVIOUS
<1>1. /\ UNCHANGED <<daemon, scan, media, libraries, shares>> /\ (Free(r) \/ (daemon = "up" /\ request[r].at # "idle"))
      /\ request[r].at # "save"
  BY DEF ScanBegin, ScanEnd, Free, Turn
<1>2. ScanIsOwn'
  BY <1>1 DEF CalmInv, ScanIsOwn
<1>3. \A f \in Folders : media'[f] = <<>> \/ (libraries'[f] # Nothing /\ Shows(f, libraries[f])')
  BY <1>1, OnlyRequest, FoldersStay
<1>4. CASE ScanBegin(r)
  <2> DEFINE seen == {p \in Names \X attached : name[p[2]] = p[1] /\ ~VolumeRefused(p[2])}
  <2>1. PICK to : to = [Idle EXCEPT !.at = "scan", !.todo = seen]
    OBVIOUS
  <2>2. Becomes(r, to)
    BY <1>4, <2>1 DEF ScanBegin
  <2>3. seen \in SUBSET Found /\ \A p \in seen : p[2] \in attached /\ name[p[2]] = p[1]
    BY DEF Found, KernelInv, DrivesTypeOK
  <2> HIDE DEF seen
  <2>4. to = Asks("scan", Nothing, Nothing, seen, {}, <<>>)
    BY <2>1, IdleAsks DEF Asks
  <2>5. <<>> \in Loaded
    BY DEF Loaded
  <2>6. to \in Asked /\ to.at = "scan" /\ to.todo = seen
    BY <2>3, <2>4, <2>5, AsksIs
  <2> QED
    BY <1>1, <1>2, <1>3, <2>2, <2>3, <2>6, RequestSteps
<1>5. CASE ScanEnd(r)
  <2>1. Becomes(r, Idle)
    BY <1>5 DEF ScanEnd, Ends
  <2> QED
    BY <1>1, <1>2, <1>3, <2>1, IdleAsks, RequestSteps
<1> QED
  BY <1>4, <1>5

(* One volume of a scan: what is at its name is the disk that was seen, so its own point shows it. *)
LEMMA ScanOneStaysTrue ==
  ASSUME Calm, CalmInv, KernelInv, NamesDiffer, ShownInv, NEW r \in Requests, ScanOne(r), UNCHANGED kernel
  PROVE  CalmInv'
<1>1. PICK seen \in request[r].todo :
        /\ Turn(r, "scan") /\ UNCHANGED <<daemon, media, libraries, shares, lastScan>>
        /\ \/ UNCHANGED scan
           \/ \E d \in {e \in At(seen[1]) : Mountable(e)} : scan' = [scan EXCEPT ![ScanPoint(seen[2])] = [disk |-> d, node |-> seen[1]]]
        /\ \/ Becomes(r, [request[r] EXCEPT !.todo = @ \ {seen}])
           \/ Becomes(r, [[request[r] EXCEPT !.todo = @ \ {seen}] EXCEPT !.refused = @ \cup {seen[1]}])
  BY DEF ScanOne
<1> DEFINE q == request[r]
<1>2. q \in Asked /\ q.at = "scan" /\ daemon = "up"
  BY <1>1 DEF ShownInv, Turn
<1>3. q = Asks(q.at, q.folder, q.disk, q.todo, q.refused, q.loaded) /\ q.todo \in SUBSET Found /\ q.refused \in SUBSET Names
      /\ q.folder \in Folders \cup {Nothing} /\ q.disk \in Disks \cup Servers \cup {Nothing} /\ q.loaded \in Loaded
  BY <1>2, AsksOf
<1>4. seen[1] \in Names /\ seen[2] \in attached /\ name[seen[2]] = seen[1]
  BY <1>1, <1>2, <1>3 DEF Found, CalmInv, SeenIsThere
<1>5. ScanIsOwn'
  <2>1. ASSUME NEW d \in At(seen[1]) PROVE d = seen[2]
    BY <1>4, <2>1 DEF At, NamesDiffer
  <2>2. seen[2] \in Disks /\ ScanPoint(seen[2]) \in Keys /\ (ScanPoint(seen[2]) \in Disks => ScanPoint(seen[2]) = seen[2])
    BY <1>4, NothingAssumption DEF KernelInv, DrivesTypeOK, ScanPoint, Keys
  <2>3. scan \in [Keys -> Elsewhere \cup {NoMount}] /\ Disks \subseteq Keys
    BY DEF ShownInv, Keys
  <2>4. ASSUME NEW d \in Disks, d = seen[2], scan' = [scan EXCEPT ![ScanPoint(seen[2])] = [disk |-> d, node |-> seen[1]]]
        PROVE  ScanIsOwn'
    BY <2>2, <2>3, <2>4 DEF CalmInv, ScanIsOwn
  <2>5. CASE UNCHANGED scan
    BY <2>5 DEF CalmInv, ScanIsOwn
  <2> QED
    BY <1>1, <2>1, <2>2, <2>4, <2>5
<1>6. PICK refused \in SUBSET Names : Becomes(r, Asks("scan", q.folder, q.disk, q.todo \ {seen}, refused, q.loaded))
  <2>1. [q EXCEPT !.todo = @ \ {seen}] = Asks("scan", q.folder, q.disk, q.todo \ {seen}, q.refused, q.loaded)
    BY <1>2, <1>3 DEF Asks
  <2>2. ASSUME NEW rest, rest = Asks("scan", q.folder, q.disk, q.todo \ {seen}, q.refused, q.loaded)
        PROVE  [rest EXCEPT !.refused = @ \cup {seen[1]}]
                 = Asks("scan", q.folder, q.disk, q.todo \ {seen}, q.refused \cup {seen[1]}, q.loaded)
    <3> HIDE DEF q
    <3> QED
      BY <2>2 DEF Asks
  <2>3. q.refused \cup {seen[1]} \in SUBSET Names
    BY <1>3, <1>4
  <2> QED
    BY <1>1, <1>3, <2>1, <2>2, <2>3
<1>11. PICK to : to = Asks("scan", q.folder, q.disk, q.todo \ {seen}, refused, q.loaded)
  OBVIOUS
<1>7. to \in Asked /\ to.at = "scan" /\ to.todo = q.todo \ {seen}
  <2>1. q.todo \ {seen} \in SUBSET Found
    BY <1>3
  <2>2. q.folder \in Folders \cup {Nothing} /\ q.disk \in Disks \cup Servers \cup {Nothing} /\ q.loaded \in Loaded
    BY <1>3
  <2>3. ASSUME NEW f \in Folders \cup {Nothing}, NEW d \in Disks \cup Servers \cup {Nothing}, NEW todo \in SUBSET Found, NEW loaded \in Loaded,
               to = Asks("scan", f, d, todo, refused, loaded)
        PROVE  to \in Asked /\ to.at = "scan" /\ to.todo = todo
    BY <2>3, AsksIs
  <2> HIDE DEF q
  <2> QED
    BY <1>11, <2>1, <2>2, <2>3
<1>8. \A f \in Folders : media'[f] = <<>> \/ (libraries'[f] # Nothing /\ Shows(f, libraries[f])')
  BY <1>1, <1>2, OnlyRequest, FoldersStay
<1>9. \A p \in to.todo : p[2] \in attached /\ name[p[2]] = p[1]
  BY <1>2, <1>7 DEF CalmInv, SeenIsThere
<1>10. Becomes(r, to) /\ daemon = "up" /\ request[r].at # "idle"
  BY <1>2, <1>6, <1>11
<1> HIDE DEF q
<1> QED
  BY <1>1, <1>5, <1>7, <1>8, <1>9, <1>10, RequestSteps

(* A folder of a request that begins shows its library alone, or nothing. *)
LEMMA FolderAtRest ==
  ASSUME CalmInv, NEW r \in Requests, \A q \in Requests : q # r => request[q].at = "idle", request[r].at # "save", NEW f \in Folders
  PROVE  media[f] = <<>> \/ (libraries[f] # Nothing /\ Shows(f, libraries[f]))
BY DEF CalmInv, FolderIsTrue

LEMMA LibraryIsIn == ASSUME ShownInv PROVE libraries \in Loaded /\ libraries \in [Folders -> Disks \cup {Nothing}]
BY DEF ShownInv, Loaded, LibraryFile

(* A library is asked for: the folder is free. *)
LEMMA AddVettedStaysTrue ==
  ASSUME Calm, CalmInv, ShownInv, NEW r \in Requests, AddVetted(r), UNCHANGED kernel
  PROVE  CalmInv'
<1>0. PICK f \in Folders, d \in Disks :
        /\ libraries[f] = Nothing /\ Becomes(r, [Idle EXCEPT !.at = "bind", !.folder = f, !.disk = d, !.loaded = libraries])
  BY DEF AddVetted
<1>1. PICK to : to = [Idle EXCEPT !.at = "bind", !.folder = f, !.disk = d, !.loaded = libraries] /\ Becomes(r, to)
  BY <1>0
<1>2. Free(r) /\ request[r].at = "idle" /\ UNCHANGED <<daemon, scan, media, libraries, shares>>
  BY DEF AddVetted, Free, Turn
<1>3. to = Asks("bind", f, d, {}, {}, libraries)
  BY <1>1, IdleAsks DEF Asks
<1>4. to \in Asked /\ to.at = "bind" /\ to.folder = f /\ to.disk = d /\ to.loaded = libraries
  <2>1. {} \in SUBSET Found /\ {} \in SUBSET Names
    OBVIOUS
  <2> QED
    BY <1>3, <2>1, AsksIs, LibraryIsIn
<1>5. \A q \in Requests : q # r => request[q].at = "idle"
  BY <1>2, OnlyRequest
<1>6. \A g \in Folders : media'[g] = <<>> \/ (libraries'[g] # Nothing /\ Shows(g, libraries[g])')
  BY <1>2, <1>5, FoldersStay
<1>7. media[f] = <<>>
  BY <1>0, <1>2, <1>5, FolderAtRest
<1>8. ScanIsOwn'
  BY <1>2 DEF CalmInv, ScanIsOwn
<1> QED
  BY <1>0, <1>1, <1>2, <1>4, <1>6, <1>7, <1>8, RequestSteps

(* It is bound: the folder shows what is at the disk's own point. *)
LEMMA AddBindStaysTrue ==
  ASSUME Calm, CalmInv, ShownInv, scan \in [Keys -> Mounts \cup {NoMount}], NEW r \in Requests, AddBind(r), UNCHANGED kernel
  PROVE  CalmInv'
<1> DEFINE q == request[r]
           m == scan[q.disk]
<1>1. daemon = "up" /\ q.at = "bind" /\ UNCHANGED <<daemon, scan, libraries, shares>>
  BY DEF AddBind, Turn
<1>2. q.folder \in Folders /\ q.disk \in Disks /\ q.loaded = libraries /\ libraries[q.folder] = Nothing /\ media[q.folder] = <<>>
  BY <1>1 DEF ShownInv, InHand, CalmInv, HandIsTrue
<1>3. \A p \in Requests : p # r => request[p].at = "idle"
  BY <1>1, OnlyRequest
<1>4. ScanIsOwn'
  BY <1>1 DEF CalmInv, ScanIsOwn
<1>5. CASE m # NoMount /\ media' = [media EXCEPT ![q.folder] = Append(@, m)] /\ Becomes(r, [q EXCEPT !.at = "save"])
  <2>1. q \in Asked
    BY DEF ShownInv
  <2>2. q = Asks(q.at, q.folder, q.disk, q.todo, q.refused, q.loaded) /\ q.todo \in SUBSET Found /\ q.refused \in SUBSET Names
        /\ q.folder \in Folders \cup {Nothing} /\ q.disk \in Disks \cup Servers \cup {Nothing} /\ q.loaded \in Loaded
    BY <2>1, AsksOf
  <2>3. PICK to : to = [q EXCEPT !.at = "save"] /\ Becomes(r, to)
    BY <1>5
  <2>4. to = Asks("save", q.folder, q.disk, q.todo, q.refused, q.loaded)
    BY <2>2, <2>3 DEF Asks
  <2>5. to \in Asked /\ to.at = "save" /\ to.folder = q.folder /\ to.disk = q.disk /\ to.loaded = libraries
    BY <1>2, <2>2, <2>4, AsksIs
  <2>6. m \in Mounts /\ m.disk = q.disk
    BY <1>2, <1>5 DEF CalmInv, ScanIsOwn, Keys
  <2>7. media'[q.folder] = <<m>> /\ \A f \in Folders : f # q.folder => media'[f] = media[f]
    <3>1. Append(<<>>, m) = <<m>>
      OBVIOUS
    <3>2. media \in [Folders -> Seq(Elsewhere)]
      BY DEF ShownInv
    <3> HIDE DEF m, q
    <3> QED
      BY <1>2, <1>5, <3>1, <3>2
  <2>8. Shows(to.folder, to.disk)'
    BY <2>5, <2>6, <2>7 DEF Shows
  <2>9. ASSUME NEW f \in Folders, f # q.folder
        PROVE  media'[f] = <<>> \/ (libraries'[f] # Nothing /\ Shows(f, libraries[f])')
    BY <1>1, <1>3, <2>7, <2>9, FolderAtRest DEF Shows
  <2> HIDE DEF m, q
  <2> QED
    BY <1>1, <1>2, <1>4, <2>3, <2>5, <2>8, <2>9, RequestSteps DEF q
<1>6. CASE Becomes(r, Idle) /\ UNCHANGED media
  <2>1. \A f \in Folders : media'[f] = <<>> \/ (libraries'[f] # Nothing /\ Shows(f, libraries[f])')
    BY <1>1, <1>3, <1>6, FoldersStay
  <2> QED
    BY <1>1, <1>4, <1>6, <2>1, IdleAsks, RequestSteps
<1> QED
  BY <1>5, <1>6 DEF AddBind, Ends

(* It is remembered, as it is shown. *)
LEMMA AddSaveStaysTrue ==
  ASSUME Calm, CalmInv, ShownInv, NEW r \in Requests, AddSave(r), UNCHANGED kernel
  PROVE  CalmInv'
<1> DEFINE q == request[r]
<1>1. daemon = "up" /\ q.at = "save" /\ UNCHANGED <<daemon, scan, media, shares>> /\ Becomes(r, Idle)
  BY DEF AddSave, Turn, Ends
<1>2. q.folder \in Folders /\ q.disk \in Disks /\ q.loaded = libraries /\ Shows(q.folder, q.disk)
  BY <1>1 DEF ShownInv, InHand, CalmInv, HandIsTrue
<1>3. \A p \in Requests : p # r => request[p].at = "idle"
  BY <1>1, OnlyRequest
<1>4. libraries' = [libraries EXCEPT ![q.folder] = q.disk]
  BY <1>2 DEF AddSave, Calm, Happens
<1>5. libraries'[q.folder] = q.disk /\ \A f \in Folders : f # q.folder => libraries'[f] = libraries[f]
  BY <1>2, <1>4, LibraryIsIn
<1>6. ScanIsOwn'
  BY <1>1 DEF CalmInv, ScanIsOwn
<1>7. ASSUME NEW f \in Folders
      PROVE  media'[f] = <<>> \/ (libraries'[f] # Nothing /\ Shows(f, libraries[f])')
  <2>1. CASE f = q.folder
    BY <1>1, <1>2, <1>5, <2>1, NothingAssumption DEF Shows
  <2>2. CASE f # q.folder
    <3>1. media[f] = <<>> \/ (libraries[f] # Nothing /\ Shows(f, libraries[f]))
      BY <1>1, <1>3, <2>2 DEF CalmInv, FolderIsTrue
    <3> QED
      BY <1>1, <1>5, <2>2, <3>1 DEF Shows
  <2> QED
    BY <2>1, <2>2
<1> HIDE DEF q
<1> QED
  BY <1>1, <1>6, <1>7, IdleAsks, RequestSteps DEF q

(* A library is taken off its folder, and forgotten. *)
LEMMA RemoveUnmountStaysTrue ==
  ASSUME Calm, CalmInv, ShownInv, NEW r \in Requests, RemoveUnmount(r), UNCHANGED kernel
  PROVE  CalmInv'
<1>0. PICK f \in Folders :
        /\ media' = [media EXCEPT ![f] = IF MountedAt(f) THEN Front(@) ELSE @]
        /\ Becomes(r, [Idle EXCEPT !.at = "forget", !.folder = f, !.loaded = libraries])
  BY DEF RemoveUnmount, Calm, Happens
<1>1. PICK to : to = [Idle EXCEPT !.at = "forget", !.folder = f, !.loaded = libraries] /\ Becomes(r, to)
  BY <1>0
<1>2. Free(r) /\ request[r].at = "idle" /\ UNCHANGED <<daemon, scan, libraries, shares>>
  BY DEF RemoveUnmount, Free, Turn
<1>3. to = Asks("forget", f, Nothing, {}, {}, libraries)
  BY <1>1, IdleAsks DEF Asks
<1>4. to \in Asked /\ to.at = "forget" /\ to.folder = f /\ to.loaded = libraries
  <2>1. {} \in SUBSET Found /\ {} \in SUBSET Names /\ Nothing \in Disks \cup Servers \cup {Nothing} /\ f \in Folders \cup {Nothing}
    OBVIOUS
  <2>2. libraries \in Loaded
    BY LibraryIsIn
  <2> QED
    BY <1>3, <2>1, <2>2, AsksIs
<1>5. \A q \in Requests : q # r => request[q].at = "idle"
  BY <1>2, OnlyRequest
<1>6. media'[f] = <<>> /\ \A g \in Folders : g # f => media'[g] = media[g]
  <2>1. media \in [Folders -> Seq(Elsewhere)]
    BY DEF ShownInv
  <2>2. ASSUME NEW m PROVE Front(<<m>>) = <<>>
    BY DEF Front
  <2>3. media[f] = <<>> \/ \E m \in Mounts : media[f] = <<m>>
    BY <1>2, <1>5, FolderAtRest DEF Shows
  <2> QED
    BY <1>0, <2>1, <2>2, <2>3 DEF MountedAt
<1>7. ASSUME NEW g \in Folders
      PROVE  media'[g] = <<>> \/ (libraries'[g] # Nothing /\ Shows(g, libraries[g])')
  BY <1>2, <1>5, <1>6, FolderAtRest DEF Shows
<1>8. ScanIsOwn'
  BY <1>2 DEF CalmInv, ScanIsOwn
<1> QED
  BY <1>1, <1>2, <1>4, <1>6, <1>7, <1>8, RequestSteps

LEMMA RemoveSaveStaysTrue ==
  ASSUME Calm, CalmInv, ShownInv, NEW r \in Requests, RemoveSave(r), UNCHANGED kernel
  PROVE  CalmInv'
<1> DEFINE q == request[r]
<1>1. daemon = "up" /\ q.at = "forget" /\ UNCHANGED <<daemon, scan, media, shares>> /\ Becomes(r, Idle)
  BY DEF RemoveSave, Turn, Ends
<1>2. q.folder \in Folders /\ q.loaded = libraries /\ media[q.folder] = <<>>
  BY <1>1 DEF ShownInv, InHand, CalmInv, HandIsTrue
<1>3. \A p \in Requests : p # r => request[p].at = "idle"
  BY <1>1, OnlyRequest
<1>4. libraries' = [libraries EXCEPT ![q.folder] = Nothing]
  BY <1>2 DEF RemoveSave, Calm, Happens
<1>5. \A f \in Folders : f # q.folder => libraries'[f] = libraries[f]
  BY <1>2, <1>4, LibraryIsIn
<1>6. ScanIsOwn'
  BY <1>1 DEF CalmInv, ScanIsOwn
<1>7. ASSUME NEW f \in Folders
      PROVE  media'[f] = <<>> \/ (libraries'[f] # Nothing /\ Shows(f, libraries[f])')
  BY <1>1, <1>2, <1>3, <1>5, FolderAtRest DEF Shows
<1> HIDE DEF q
<1> QED
  BY <1>1, <1>6, <1>7, IdleAsks, RequestSteps DEF q


(* With nobody asking, what counts is what is mounted. *)
LEMMA NobodyAsks ==
  ASSUME CalmInv, \A r \in Requests : request'[r].at = "idle", UNCHANGED shares, ScanIsOwn',
         \A f \in Folders : media'[f] = <<>> \/ (libraries'[f] # Nothing /\ Shows(f, libraries[f])')
  PROVE  CalmInv'
<1>1. OneAtATime' /\ NoShares' /\ SeenIsThere'
  BY DEF CalmInv, OneAtATime, NoShares, SeenIsThere
<1>2. (\A r \in Requests : HandIsTrue(r)') /\ \A f \in Folders : FolderIsTrue(f)'
  BY DEF HandIsTrue, FolderIsTrue
<1> QED
  BY <1>1, <1>2 DEF CalmInv

LEMMA LibrariesAtRest ==
  ASSUME CalmInv, \A r \in Requests : request[r].at = "idle", UNCHANGED <<media, libraries>>
  PROVE  \A f \in Folders : media'[f] = <<>> \/ (libraries'[f] # Nothing /\ Shows(f, libraries[f])')
BY DEF CalmInv, FolderIsTrue, Shows

LEMMA ReleaseStaysTrue ==
  ASSUME Calm, CalmInv, NEW r \in Requests, Release(r)
  PROVE  CalmInv'
<1>1. (\A q \in Requests : request[q].at = "idle") /\ UNCHANGED <<media, libraries, shares, request>>
  BY DEF Release, Free, Turn, Calm, Happens
<1>2. ScanIsOwn'
  BY DEF Release, CalmInv, ScanIsOwn, Keys
<1>3. \A f \in Folders : media'[f] = <<>> \/ (libraries'[f] # Nothing /\ Shows(f, libraries[f])')
  BY <1>1, LibrariesAtRest
<1> QED
  BY <1>1, <1>2, <1>3, NobodyAsks

(* Nobody asks for a share. *)
LEMMA NoShareIsAsked ==
  ASSUME Calm, CalmInv, NEW r \in Requests
  PROVE  ~(ShareAdd(r) \/ ShareSave(r) \/ ShareMount(r) \/ ShareNamed(r))
BY DEF Calm, Happens, CalmInv, NoShares, ShareAdd, ShareSave, ShareMount, ShareNamed, Turn

(* What a remembered disk shows as the console comes up is that disk. *)
LEMMA MountLibrariesStaysTrue ==
  ASSUME Calm, CalmInv, KernelInv, ShownInv, scan \in [Keys -> Mounts \cup {NoMount}], MountLibraries
  PROVE  CalmInv'
<1> DEFINE wanted == {f \in Folders : libraries[f] # Nothing /\ ~MountedAt(f)}
           probed(d) == IF scan[d] # NoMount \/ DeviceWith(d) = {} THEN scan[d]
                        ELSE LET e == CHOOSE e \in DeviceWith(d) : TRUE IN [disk |-> e, node |-> name[e]]
           point(d) == IF \E f \in wanted : libraries[f] = d THEN probed(d) ELSE scan[d]
<1>1. PICK vanished \in SUBSET Folders :
        /\ scan' = [k \in Keys |-> IF k \in Disks THEN point(k) ELSE scan[k]]
        /\ media' = [f \in Folders |->
             IF f \in wanted \ vanished /\ probed(libraries[f]) # NoMount THEN <<probed(libraries[f])>> ELSE media[f]]
        /\ UNCHANGED <<libraries, shares, lastScan, request>>
  BY DEF MountLibraries
<1>2. \A r \in Requests : request[r].at = "idle"
  BY DEF MountLibraries, CalmInv, OneAtATime
<1>3. ASSUME NEW d \in Disks
      PROVE  probed(d) \in Mounts \cup {NoMount} /\ (probed(d) # NoMount => probed(d).disk = d)
  <2>1. CASE scan[d] # NoMount \/ DeviceWith(d) = {}
    BY <2>1 DEF CalmInv, ScanIsOwn, Keys
  <2>2. CASE ~(scan[d] # NoMount \/ DeviceWith(d) = {})
    <3>1. PICK e \in DeviceWith(d) : probed(d) = [disk |-> e, node |-> name[e]]
      BY <2>2
    <3>2. e = d /\ name[e] \in Names
      BY <3>1 DEF DeviceWith, KernelInv, AttachedIsNamed
    <3>3. probed(d) = [disk |-> d, node |-> name[d]]
      BY <3>1, <3>2
    <3> HIDE DEF probed
    <3> QED
      BY <3>2, <3>3 DEF Mounts
  <2> QED
    BY <2>1, <2>2
<1> HIDE DEF probed
<1>4. ScanIsOwn'
  BY <1>1, <1>3 DEF CalmInv, ScanIsOwn, Keys
<1>5. ASSUME NEW f \in Folders
      PROVE  media'[f] = <<>> \/ (libraries'[f] # Nothing /\ Shows(f, libraries[f])')
  <2>1. CASE f \in wanted \ vanished /\ probed(libraries[f]) # NoMount
    <3>1. libraries[f] \in Disks /\ libraries[f] # Nothing
      BY <2>1, LibraryIsIn
    <3>2. media'[f] = <<probed(libraries[f])>>
      BY <1>1, <2>1
    <3> QED
      BY <1>1, <1>3, <2>1, <3>1, <3>2 DEF Shows
  <2>2. CASE ~(f \in wanted \ vanished /\ probed(libraries[f]) # NoMount)
    <3>1. media'[f] = media[f]
      BY <1>1, <2>2
    <3>2. media[f] = <<>> \/ (libraries[f] # Nothing /\ Shows(f, libraries[f]))
      BY <1>2 DEF CalmInv, FolderIsTrue
    <3> QED
      BY <1>1, <3>1, <3>2 DEF Shows
  <2> QED
    BY <2>1, <2>2
<1> QED
  BY <1>1, <1>2, <1>4, <1>5, NobodyAsks


(* Where nothing of it is touched, and where drives come and go. *)
LEMMA CalmStays == ASSUME CalmInv, UNCHANGED <<kernel, storage>> PROVE CalmInv'
<1>1. UNCHANGED <<attached, name, daemon, scan, media, libraries, shares, request>>
  BY DEF kernel, storage
<1>2. OneAtATime' /\ NoShares' /\ SeenIsThere' /\ ScanIsOwn'
  BY <1>1 DEF CalmInv, OneAtATime, NoShares, SeenIsThere, ScanIsOwn
<1>3. (\A r \in Requests : HandIsTrue(r)') /\ \A f \in Folders : FolderIsTrue(f)'
  BY <1>1 DEF CalmInv, HandIsTrue, FolderIsTrue, Shows
<1> QED
  BY <1>2, <1>3 DEF CalmInv

LEMMA PlugLeavesLibraries ==
  ASSUME Calm, CalmInv, NEW d \in Others, Plug(d) \/ Unplug(d)
  PROVE  CalmInv'
<1>1. (\A r \in Requests : request[r].at = "idle") /\ UNCHANGED storage
  BY DEF Plug, Unplug, NothingUnderWay, Calm, Happens
<1>2. ScanIsOwn' /\ UNCHANGED <<media, libraries, shares, request>>
  BY <1>1 DEF storage, CalmInv, ScanIsOwn
<1>3. \A f \in Folders : media'[f] = <<>> \/ (libraries'[f] # Nothing /\ Shows(f, libraries[f])')
  BY <1>1, <1>2, LibrariesAtRest
<1> QED
  BY <1>1, <1>2, <1>3, NobodyAsks

(* A restart takes the mounts, and plexosd before it serves makes them again. *)
LEMMA StartStaysTrue ==
  ASSUME Calm, CalmInv, StartDaemon \/ MountShares \/ LibrariesReboot
  PROVE  CalmInv'
<1>1. CASE LibrariesReboot
  <2>1. \A r \in Requests : request'[r].at = "idle"
    BY <1>1 DEF LibrariesReboot, Idle
  <2>2. ScanIsOwn'
    BY <1>1 DEF LibrariesReboot, ScanIsOwn, Keys
  <2> QED
    BY <1>1, <2>1, <2>2, NobodyAsks DEF LibrariesReboot
<1>2. CASE StartDaemon \/ MountShares
  <2>1. (\A r \in Requests : request[r].at = "idle") /\ UNCHANGED <<scan, libraries, shares, request>>
    BY <1>2 DEF StartDaemon, MountShares, CalmInv, OneAtATime
  <2>2. \A f \in Folders : media'[f] = media[f] \/ ~StartDaemon
    BY DEF StartDaemon
  <2>3. \A f \in Folders : media'[f] = media[f]
    BY <1>2, <2>2 DEF MountShares, CalmInv, NoShares
  <2>4. ASSUME NEW f \in Folders PROVE media'[f] = <<>> \/ (libraries'[f] # Nothing /\ Shows(f, libraries[f])')
    BY <2>1, <2>3 DEF CalmInv, FolderIsTrue, Shows
  <2>5. ScanIsOwn'
    BY <2>1 DEF CalmInv, ScanIsOwn
  <2> QED
    BY <2>1, <2>4, <2>5, NobodyAsks
<1> QED
  BY <1>1, <1>2

LEMMA RequestTypesScan ==
  ASSUME KernelInv, ShownInv, ScanTyped, NEW r \in Requests, ScanOne(r) \/ ScanEnd(r) \/ Release(r)
  PROVE  ScanTyped'
<1>1. CASE ScanOne(r)
  <2>1. PICK seen \in request[r].todo :
          /\ Turn(r, "scan") /\ UNCHANGED <<daemon, lastScan>>
          /\ \/ UNCHANGED scan
             \/ \E d \in {e \in At(seen[1]) : Mountable(e)} : scan' = [scan EXCEPT ![ScanPoint(seen[2])] = [disk |-> d, node |-> seen[1]]]
    BY <1>1 DEF ScanOne
  <2>2. seen[1] \in Names
    BY <2>1 DEF ShownInv, Asked, Found
  <2>3. ASSUME NEW d \in At(seen[1]) PROVE [disk |-> d, node |-> seen[1]] \in Mounts
    BY <2>2 DEF At, Mounts, KernelInv, DrivesTypeOK
  <2>4. scan' \in [Keys -> Mounts \cup {NoMount}]
    BY <2>1, <2>3 DEF ScanTyped
  <2> QED
    BY <2>1, <2>4 DEF ScanTyped
<1>2. CASE ScanEnd(r)
  <2>1. request[r].refused \in SUBSET Names
    BY DEF ShownInv, Asked
  <2> QED
    BY <1>2, <2>1 DEF ScanEnd, ScanTyped
<1>3. CASE Release(r)
  <2>1. scan' \in [Keys -> Mounts \cup {NoMount}]
    BY <1>3 DEF Release, ScanTyped
  <2>2. lastScan' \in [tried : BOOLEAN, refused : SUBSET Names] /\ UNCHANGED daemon
    BY <1>3 DEF Release, NotScanned
  <2> QED
    BY <2>1, <2>2 DEF ScanTyped
<1> QED
  BY <1>1, <1>2, <1>3

LEMMA StopTypesScan ==
  ASSUME ScanTyped, LibrariesCrash \/ LibrariesReboot
  PROVE  ScanTyped'
<1>0. NotScanned \in [tried : BOOLEAN, refused : SUBSET Names]
  BY DEF NotScanned
<1>1. lastScan' \in [tried : BOOLEAN, refused : SUBSET Names] /\ daemon' = "down"
  BY <1>0 DEF LibrariesCrash, LibrariesReboot
<1>2. scan' \in [Keys -> Mounts \cup {NoMount}]
  BY DEF LibrariesCrash, LibrariesReboot, ScanTyped
<1> QED
  BY <1>1, <1>2 DEF ScanTyped


LEMMA MountLibrariesTypesScan ==
  ASSUME KernelInv, ShownInv, ScanTyped, MountLibraries
  PROVE  ScanTyped'
<1> DEFINE wanted == {f \in Folders : libraries[f] # Nothing /\ ~MountedAt(f)}
           probed(d) == IF scan[d] # NoMount \/ DeviceWith(d) = {} THEN scan[d]
                        ELSE LET e == CHOOSE e \in DeviceWith(d) : TRUE IN [disk |-> e, node |-> name[e]]
           point(d) == IF \E f \in wanted : libraries[f] = d THEN probed(d) ELSE scan[d]
<1>1. scan' = [k \in Keys |-> IF k \in Disks THEN point(k) ELSE scan[k]] /\ UNCHANGED lastScan /\ daemon' = "up"
  BY DEF MountLibraries
<1>2. ASSUME NEW d \in Disks
      PROVE  probed(d) \in Mounts \cup {NoMount}
  <2>1. CASE scan[d] # NoMount \/ DeviceWith(d) = {}
    BY <2>1 DEF ScanTyped, Keys
  <2>2. CASE ~(scan[d] # NoMount \/ DeviceWith(d) = {})
    <3>1. PICK e \in DeviceWith(d) : probed(d) = [disk |-> e, node |-> name[e]]
      BY <2>2
    <3>2. e \in Disks /\ name[e] \in Names
      BY <3>1 DEF DeviceWith, KernelInv, AttachedIsNamed, DrivesTypeOK
    <3>3. [disk |-> e, node |-> name[e]] \in Mounts
      BY <3>2 DEF Mounts
    <3> QED
      BY <3>1, <3>3
  <2> QED
    BY <2>1, <2>2
<1> HIDE DEF probed
<1>3. scan' \in [Keys -> Mounts \cup {NoMount}]
  BY <1>1, <1>2 DEF ScanTyped
<1> QED
  BY <1>1, <1>3 DEF ScanTyped

(* Every step. *)
LEMMA LibrariesGoOn ==
  ASSUME KernelInv, ShownInv, NamesDiffer, LibrariesInv, [StorageNext]_disks, UNCHANGED faults
  PROVE  LibrariesInv'
<1>0. ScanTyped /\ (Calm => CalmInv) /\ (Calm' <=> Calm)
  BY DEF LibrariesInv, ScanTyped, Calm
<1>1. ASSUME UNCHANGED <<kernel, storage>>
      PROVE  ScanTyped' /\ (Calm => CalmInv')
  BY <1>0, <1>1, CalmStays DEF storage, ScanTyped
<1>2. ASSUME NEW r \in Requests, UNCHANGED kernel,
             ScanBegin(r) \/ ScanOne(r) \/ ScanEnd(r) \/ AddVetted(r) \/ AddBind(r) \/ AddSave(r)
               \/ RemoveUnmount(r) \/ RemoveSave(r) \/ Release(r) \/ ShareAdd(r) \/ ShareSave(r) \/ ShareMount(r) \/ ShareNamed(r)
      PROVE  ScanTyped' /\ (Calm => CalmInv')
  <2>1. ScanTyped'
    <3>1. CASE ScanOne(r) \/ ScanEnd(r) \/ Release(r)
      BY <1>0, <3>1, RequestTypesScan
    <3>2. CASE ~(ScanOne(r) \/ ScanEnd(r) \/ Release(r))
      <4>1. UNCHANGED <<daemon, scan, lastScan>>
        BY <1>2, <3>2 DEF ScanBegin, AddVetted, AddBind, AddSave, RemoveUnmount, RemoveSave, ShareAdd, ShareSave, ShareMount, ShareNamed
      <4> QED
        BY <1>0, <4>1, SMTT(40) DEF ScanTyped
    <3> QED
      BY <3>1, <3>2
  <2>2. scan \in [Keys -> Mounts \cup {NoMount}]
    BY <1>0 DEF ScanTyped
  <2>3. ASSUME Calm PROVE CalmInv'
    BY <1>0, <1>2, <2>2, <2>3, ScanStaysTrue, ScanOneStaysTrue, AddVettedStaysTrue, AddBindStaysTrue, AddSaveStaysTrue,
       RemoveUnmountStaysTrue, RemoveSaveStaysTrue, ReleaseStaysTrue, NoShareIsAsked
  <2> QED
    BY <2>1, <2>3
<1>3. CASE MountLibraries
  <2>1. scan \in [Keys -> Mounts \cup {NoMount}]
    BY <1>0 DEF ScanTyped
  <2>2. Calm => CalmInv'
    BY <1>0, <1>3, <2>1, MountLibrariesStaysTrue
  <2> QED
    BY <1>0, <1>3, <2>2, MountLibrariesTypesScan DEF LibrariesInv, ScanTyped
<1>4. CASE StartDaemon \/ MountShares
  <2>1. ScanTyped'
    BY <1>0, <1>4 DEF StartDaemon, MountShares, ScanTyped
  <2> QED
    BY <1>0, <1>4, <2>1, StartStaysTrue DEF LibrariesInv, ScanTyped
<1>5. ASSUME NEW d \in Others, Plug(d) \/ Unplug(d)
      PROVE  ScanTyped' /\ (Calm => CalmInv')
  <2>1. UNCHANGED storage
    BY <1>5 DEF Plug, Unplug
  <2> QED
    BY <1>0, <1>5, <2>1, PlugLeavesLibraries DEF storage, ScanTyped
<1>6. CASE DaemonStops
  <2>1. LibrariesCrash /\ ~Calm
    BY <1>6 DEF DaemonStops, Calm, Happens
  <2> QED
    BY <1>0, <2>1, StopTypesScan DEF LibrariesInv, ScanTyped
<1>7. CASE MachineRestart
  <2>1. LibrariesReboot
    BY <1>7 DEF MachineRestart
  <2> QED
    BY <1>0, <2>1, StopTypesScan, StartStaysTrue DEF LibrariesInv, ScanTyped
<1>8. CASE InstallThread
  <2>1. UNCHANGED <<attached, name, storage>>
    BY <1>8 DEF InstallThread
  <2>2. CalmInv => CalmInv'
    <3>1. UNCHANGED <<attached, name, daemon, scan, media, libraries, shares, request>>
      BY <2>1 DEF storage
    <3>2. CalmInv => OneAtATime' /\ NoShares' /\ SeenIsThere' /\ ScanIsOwn'
      BY <3>1 DEF CalmInv, OneAtATime, NoShares, SeenIsThere, ScanIsOwn
    <3>3. CalmInv => (\A r \in Requests : HandIsTrue(r)') /\ \A f \in Folders : FolderIsTrue(f)'
      BY <3>1 DEF CalmInv, HandIsTrue, FolderIsTrue, Shows
    <3> QED
      BY <3>2, <3>3 DEF CalmInv
  <2> QED
    BY <1>0, <2>1, <2>2 DEF storage, LibrariesInv, ScanTyped
<1>9. CASE LibrariesStep /\ UNCHANGED <<kernel, media_vars, job>>
  BY <1>0, <1>2, <1>3, <1>4, <1>9 DEF LibrariesStep, LibrariesInv, ScanTyped, kernel
<1>10. CASE UNCHANGED <<kernel, storage>>
  BY <1>0, <1>1, <1>10 DEF LibrariesInv, ScanTyped
<1>11. CASE \E d \in Others : Plug(d) \/ Unplug(d)
  BY <1>0, <1>5, <1>11 DEF LibrariesInv, ScanTyped
<1> QED
  BY <1>6, <1>7, <1>8, <1>9, <1>10, <1>11 DEF StorageNext, disks

LEMMA ShownIsChosen == LibrariesInv /\ ShownInv => LibraryIsWhatWasChosen
<1> SUFFICES ASSUME LibrariesInv, ShownInv, Calm, NEW f \in Folders, libraries[f] # Nothing, MountedAt(f)
             PROVE  Shown(f).disk = libraries[f]
  BY DEF LibraryIsWhatWasChosen, Calm
<1>1. CalmInv
  BY DEF LibrariesInv
<1>2. \A m : Last(<<m>>) = m
  BY DEF Last
<1>3. CASE Shows(f, libraries[f])
  BY <1>2, <1>3 DEF Shows, Shown
<1>4. CASE \E r \in Requests : request[r].at = "save" /\ request[r].folder = f
  BY <1>1, <1>4 DEF CalmInv, HandIsTrue
<1> QED
  BY <1>1, <1>3, <1>4 DEF CalmInv, FolderIsTrue, MountedAt

-----------------------------------------------------------------------------
(* Readers, over all that happens to the disks. *)

LEMMA MediaGoesOn ==
  ASSUME MediaInv, attached \subseteq Disks, [StorageNext]_disks
  PROVE  MediaInv'
<1>1. CASE UNCHANGED media_vars
  BY <1>1 DEF media_vars, MediaInv, MediaTypeOK, Held
<1>2. CASE MediaStep
  BY <1>2, MediaKeeps
<1>3. CASE MediaCrash \/ MediaReboot
  BY <1>3, MediaStops
<1> QED
  BY <1>1, <1>2, <1>3 DEF StorageNext, InstallThread, Plug, Unplug, DaemonStops, MachineRestart, disks

(* All of it, and the types. *)
StorageInv == DiskInv /\ MediaInv /\ InstallInv /\ LibrariesInv

LEMMA StorageBegins == StorageInit => StorageInv
BY Initially, MediaBegins, InstallBegins, LibrariesBegin DEF StorageInv, StorageInit

LEMMA StorageGoesOn ==
  ASSUME StorageInv, [StorageNext]_disks, UNCHANGED faults
  PROVE  StorageInv'
BY Inductive, MediaGoesOn, InstallGoesOn, LibrariesGoOn DEF StorageInv, DiskInv, KernelInv, DrivesTypeOK, InstallInv

LEMMA StorageIsTyped == StorageInv => StorageTypeOK
<1> SUFFICES ASSUME StorageInv PROVE StorageTypeOK
  OBVIOUS
<1>1. DrivesTypeOK /\ MediaTypeOK /\ InstallerTypeOK
  BY DEF StorageInv, DiskInv, KernelInv, MediaInv, InstallInv
<1>2. LibrariesTypeOK
  <2>1. ASSUME NEW f \in Folders PROVE media[f] \in Seq(Mounts \cup {Share(s) : s \in Servers})
    <3>1. media[f] \in Seq(Elsewhere) /\ Elsewhere \subseteq Mounts \cup {Share(s) : s \in Servers}
      BY DEF StorageInv, DiskInv, ShownInv, Elsewhere
    <3> HIDE DEF Elsewhere
    <3>2. \A i \in 1..Len(media[f]) : media[f][i] \in Mounts \cup {Share(s) : s \in Servers}
      BY <3>1, ElementOfSeq
    <3> QED
      BY <3>1, <3>2, SeqDef
  <2>2. ASSUME NEW r \in Requests
        PROVE  /\ request[r].at \in {"idle", "scan", "bind", "save", "forget", "share_save", "share_mount"}
               /\ request[r].folder \in Folders \cup {Nothing}
               /\ request[r].disk \in Disks \cup Servers \cup {Nothing}
               /\ request[r].todo \subseteq (Names \X Disks)
               /\ request[r].refused \subseteq Names
    BY DEF StorageInv, DiskInv, ShownInv, Asked, Found
  <2>3. libraries \in [Folders -> Disks \cup {Nothing}] /\ shares \in [Folders -> Servers \cup {Nothing}]
    BY DEF StorageInv, DiskInv, ShownInv, LibraryFile, ShareFile
  <2>4. ScanTyped
    BY DEF StorageInv, LibrariesInv, ScanTyped
  <2> QED
    BY <2>1, <2>2, <2>3, <2>4 DEF LibrariesTypeOK, ScanTyped
<1> QED
  BY <1>1, <1>2 DEF StorageTypeOK

(* What the run asks of the disks. *)
LEMMA StorageIsAsSaid ==
  StorageInv => RunningDiskUntouched /\ LibraryIsWhatWasChosen /\ DoneIsWhole /\ ReaderKeepsItsMedium
BY InvIsEnough, ShownIsChosen, DoneIsCopied, MediaIsHeld DEF StorageInv, DiskInv

(* A folder that was remembered is shown when the console serves: what it needs is that a name and a file have types. *)
LEMMA ConfiguredGetsShown ==
  ASSUME StorageInv, [StorageNext]_disks
  PROVE  ConfiguredIsShown
<1> SUFFICES ASSUME daemon = "libraries", daemon' = "up", ~Happens("fail"),
                    NEW f \in Folders, libraries[f] \in attached, content[libraries[f]].is = "library"
             PROVE  media'[f] # <<>>
  BY DEF ConfiguredIsShown
<1>1. MountLibraries
  <2>1. ~(daemon = "up") /\ ~(daemon' = "down") /\ ~UNCHANGED daemon
    OBVIOUS
  <2>2. LibrariesStep
    BY <2>1 DEF StorageNext, disks, storage, InstallThread, Plug, Unplug, DaemonStops, MachineRestart, LibrariesCrash, LibrariesReboot
  <2> QED
    BY <2>1, <2>2 DEF LibrariesStep, StartDaemon, MountShares, ScanBegin, ScanOne, ScanEnd, AddVetted, AddBind, AddSave, RemoveUnmount,
       RemoveSave, Release, ShareAdd, ShareSave, ShareMount, ShareNamed
<1> DEFINE wanted == {g \in Folders : libraries[g] # Nothing /\ ~MountedAt(g)}
           probed(d) == IF scan[d] # NoMount \/ DeviceWith(d) = {} THEN scan[d]
                        ELSE LET e == CHOOSE e \in DeviceWith(d) : TRUE IN [disk |-> e, node |-> name[e]]
<1>2. media' = [g \in Folders |-> IF g \in wanted /\ probed(libraries[g]) # NoMount THEN <<probed(libraries[g])>> ELSE media[g]]
  BY <1>1 DEF MountLibraries
<1>3. libraries[f] \in Disks /\ libraries[f] # Nothing
  BY NothingAssumption DEF StorageInv, DiskInv, KernelInv, DrivesTypeOK
<1>4. DeviceWith(libraries[f]) # {}
  BY DEF DeviceWith
<1>5. probed(libraries[f]) # NoMount
  <2>1. CASE scan[libraries[f]] # NoMount
    BY <2>1
  <2>2. CASE scan[libraries[f]] = NoMount
    <3>1. PICK e \in DeviceWith(libraries[f]) : probed(libraries[f]) = [disk |-> e, node |-> name[e]]
      BY <1>4, <2>2
    <3>2. e = libraries[f]
      BY <3>1 DEF DeviceWith
    <3> QED
      BY <1>3, <3>1, <3>2 DEF NoMount
  <2> QED
    BY <2>1, <2>2
<1> HIDE DEF probed
<1>6. \A m : <<m>> # <<>>
  OBVIOUS
<1> QED
  BY <1>2, <1>3, <1>5, <1>6 DEF MountedAt
=============================================================================
