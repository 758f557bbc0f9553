---------------------------- MODULE PartitionTable ----------------------------
(***************************************************************************)
(* Writing a partition table (gpt.rs; install.rs, identity and              *)
(* write_regions): planned from the size of the disk, written as five       *)
(* regions that reach the disk in any order, and read back by a kernel that *)
(* believes a header whose checksums match and turns to the copy at the end *)
(* of the disk when the first does not.                                     *)
(*                                                                          *)
(* Positions are in sectors.  A checksum is what it is over, and a GUID the *)
(* sixteen bytes it is written as.                                          *)
(***************************************************************************)
EXTENDS Integers, Sequences, SequencesExt, Faults

CONSTANT Tried  \* the disks somebody installs onto: [sectors, size], size being that of a sector

ASSUME TriedAssumption == \A disk \in Tried : disk.sectors \in Nat /\ disk.size \in Nat \ {0}

VARIABLES
  making,  \* the install thread: what it does, the disk, the regions it has yet to write
  cached,  \* what whoever opens the disk reads at each region's place
  stored   \* what is on the disk there

table == <<making, cached, stored>>

-----------------------------------------------------------------------------
(* The layout and its identifiers. *)

Bytes(of, from, to) == [i \in 1..(to - from + 1) |-> <<of, from + i - 1>>]
(* A GUID as it is written: 8-4-4-4-12 digits. *)
Written(guid) == <<Bytes(guid, 1, 4), Bytes(guid, 5, 6), Bytes(guid, 7, 8), Bytes(guid, 9, 10), Bytes(guid, 11, 16)>>

(* guid_bytes: the first three groups the other way round. *)
GuidBytes(groups) == LET turned(i) == Reverse(groups[i]) IN turned(1) \o turned(2) \o turned(3) \o groups[4] \o groups[5]

(* LAYOUT_X86_64; the last takes what is left. *)
Rest == 0
Part(label, type, mib) == [label |-> label, type |-> Written(type), mib |-> mib]
Layout == <<Part("esp", "efi", 512), Part("usr_a", "usr", 1024), Part("usr_a_hash", "verity", 32),
            Part("usr_b", "usr", 1024), Part("usr_b_hash", "verity", 32), Part("var", "state", Rest)>>
MinimumVar == 8192

(* The disk's GUID and each partition's, drawn anew for every installation. *)
Identity(n) == [disk |-> <<n, 0>>, partitions |-> [i \in DOMAIN Layout |-> <<n, i>>]]

-----------------------------------------------------------------------------
(* plan *)

Up(n, by)          == ((n + by - 1) \div by) * by
ArraySectors(disk) == (128 * 128 + disk.size - 1) \div disk.size
PerMib(disk)       == 1048576 \div disk.size
FirstUsable(disk)  == 2 + ArraySectors(disk)
(* Mutant: the backup header counted, and not its array's last sector. *)
LastUsableOneTooFar(disk) == disk.sectors - (ArraySectors(disk) + 1)
(* Below zero where checked_sub says so. *)
LastUsable(disk)   == disk.sectors - (ArraySectors(disk) + 2)

Placed(disk, spec, first) ==
  [spec |-> spec, first |-> first,
   last |-> IF spec.mib = Rest THEN LastUsable(disk) ELSE first + spec.mib * PerMib(disk) - 1]
(* The loop over the six: each begins at the first whole MiB behind the one before. *)
Following(disk, spec, end) == Placed(disk, spec, Up(end, PerMib(disk)))
Joined(disk, placed, spec) == Append(placed, Following(disk, spec, Last(placed).last + 1))
Plan(disk) ==
  Joined(disk, Joined(disk, Joined(disk, Joined(disk, Joined(disk,
    <<Following(disk, Layout[1], FirstUsable(disk))>>, Layout[2]), Layout[3]), Layout[4]), Layout[5]), Layout[6])

(* GptError: sectors of another size, a partition that does not fit, or too little for /var. *)
Unfit(disk) ==
  \/ disk.size \notin {512, 4096}
  \/ LET plan == Plan(disk) var == Last(plan) IN
     \/ \E i \in DOMAIN plan : plan[i].first > LastUsable(disk) \/ plan[i].last > LastUsable(disk)
     \/ var.last - var.first + 1 < MinimumVar * PerMib(disk)

-----------------------------------------------------------------------------
(* table: the five regions. *)

Blank == [is |-> "nothing"]
Torn  == [is |-> "torn"]
Mbr   == [is |-> "mbr"]

BackupHeader(disk) == disk.sectors - 1
BackupArray(disk)  == BackupHeader(disk) - ArraySectors(disk)

(* write_entry *)
Entries(disk, identity) == LET plan == Plan(disk) IN [i \in DOMAIN plan |->
  [type |-> GuidBytes(plan[i].spec.type), unique |-> identity.partitions[i],
   first |-> plan[i].first, last |-> plan[i].last, name |-> plan[i].spec.label]]
Array(disk, identity) == [is |-> "array", entries |-> Entries(disk, identity)]

Header(disk, identity, at, alternate, array) ==
  [is |-> "header", disk |-> identity.disk, at |-> at, alternate |-> alternate, array |-> array,
   first |-> FirstUsable(disk), last |-> BackupArray(disk) - 1, sum |-> Entries(disk, identity)]

Region(at, is) == [at |-> at, is |-> is]
Regions(disk, identity) ==
  <<Region(0, Mbr),
    Region(1, Header(disk, identity, 1, BackupHeader(disk), 2)),
    Region(2, Array(disk, identity)),
    Region(BackupArray(disk), Array(disk, identity)),
    Region(BackupHeader(disk), Header(disk, identity, BackupHeader(disk), 1, BackupArray(disk)))>>

Before == 1
Now    == 2
LaidOut(disk, n) == LET all == Regions(disk, Identity(n)) IN
  [at \in {all[i].at : i \in DOMAIN all} |-> all[CHOOSE i \in DOMAIN all : all[i].at = at].is]

TableTypeOK ==
  /\ making.at \in {"rest", "write", "done", "refused", "failed", "off"} /\ making.disk \in Tried
  /\ DOMAIN cached = DOMAIN stored

(* A disk that is empty, or that was installed before. *)
TableInit == \E disk \in Tried :
  /\ making = [at |-> "rest", disk |-> disk, left |-> <<>>]
  /\ IF Unfit(disk) THEN cached = <<>> ELSE cached \in {[at \in DOMAIN LaidOut(disk, Before) |-> Blank], LaidOut(disk, Before)}
  /\ stored = cached

-----------------------------------------------------------------------------
(* refusal_for, then install with an identity of its own. *)
BeginTable ==
  /\ making.at = "rest"
  /\ making' = IF Unfit(making.disk) THEN [making EXCEPT !.at = "refused"]
               ELSE [making EXCEPT !.at = "write", !.left = Regions(making.disk, Identity(Now))]
  /\ UNCHANGED <<cached, stored>>

(* write_regions: one after the other, into the cache; then sync_all. *)
WriteRegion ==
  /\ making.at = "write" /\ making.left # <<>>
  /\ cached' = [cached EXCEPT ![Head(making.left).at] = Head(making.left).is]
  /\ making' = [making EXCEPT !.left = Tail(@)]
  /\ UNCHANGED stored
SyncTable ==
  /\ making.at = "write" /\ making.left = <<>>
  /\ stored' = cached /\ making' = [making EXCEPT !.at = "done"]
  /\ UNCHANGED cached
RegionFails ==
  /\ Happens("fail") /\ making.at = "write"
  /\ making' = [making EXCEPT !.at = "failed", !.left = <<>>]
  /\ UNCHANGED <<cached, stored>>

(* The kernel writes what it has in the cache when it likes. *)
WriteBack(at) ==
  /\ making.at \in {"write", "failed"}
  /\ cached[at] # stored[at] /\ stored' = [stored EXCEPT ![at] = cached[at]]
  /\ UNCHANGED <<making, cached>>

(* An array is many sectors, and can be cut. *)
PowerGoes ==
  /\ Happens("power") /\ making.at \in {"write", "failed"}
  /\ \E cut \in SUBSET {at \in DOMAIN stored : cached[at] # stored[at] /\ cached[at].is = "array"} :
       stored' = [at \in DOMAIN stored |-> IF at \in cut THEN Torn ELSE stored[at]]
  /\ cached' = stored' /\ making' = [making EXCEPT !.at = "off", !.left = <<>>]

TableNext ==
  BeginTable \/ WriteRegion \/ SyncTable \/ RegionFails \/ PowerGoes \/ \E at \in DOMAIN stored : WriteBack(at)

-----------------------------------------------------------------------------
(* The kernel's reading of a table. *)

Believes(contents, at) ==
  /\ contents[at].is = "header" /\ contents[at].at = at
  /\ contents[contents[at].array].is = "array" /\ contents[contents[at].array].entries = contents[at].sum
Table(contents, disk) ==
  LET headers == {at \in {1, BackupHeader(disk)} : contents[0].is = "mbr" /\ Believes(contents, at)} IN
  IF headers = {} THEN <<>> ELSE contents[contents[IF 1 \in headers THEN 1 ELSE BackupHeader(disk)].array].entries
ReadGuid(bytes) == LET part(a, b) == [i \in 1..(b - a + 1) |-> bytes[a + i - 1]] IN
  <<Reverse(part(1, 4)), Reverse(part(5, 6)), Reverse(part(7, 8)), part(9, 10), part(11, 16)>>

(* Whatever reached the disk, and in whichever order, what is read from it is the table it had, the new one, or none,
   and never parts of two (gpt.rs, install.rs). *)
TableIsOneOrTheOther == \A contents \in {cached, stored} : contents # <<>> =>
  Table(contents, making.disk) \in {<<>>, Entries(making.disk, Identity(Before)), Entries(making.disk, Identity(Now))}

(* The new one is read whole once it is called written, from either copy (gpt.rs, install.rs). *)
WrittenIsWhole == \A contents \in {cached, stored} : contents # <<>> /\ making.at = "done" =>
  LET read(c) == Table(c, making.disk) new == Entries(making.disk, Identity(Now)) IN
       /\ read(contents) = new
       /\ \A lost \in {1, 2, BackupHeader(making.disk)} : read([contents EXCEPT ![lost] = Torn]) = new

(* A disk is refused exactly when the layout has no room on it, and on any other each partition is what the layout says,
   where the layout says, aligned, apart from the rest and clear of both copies of the table (gpt.rs, plan). *)
LayoutHasItsRoom ==
  LET disk == making.disk
      start == 1 + Layout[1].mib + Layout[2].mib + Layout[3].mib + Layout[4].mib + Layout[5].mib
      room == disk.size \in {512, 4096} /\ disk.sectors - 2 - ArraySectors(disk) + 1 >= (start + MinimumVar) * PerMib(disk)
  IN  /\ making.at = "refused" => ~room
      /\ making.at \notin {"rest", "refused"} => room
      /\ making.at = "done" => LET read == Table(stored, disk) IN \A i \in DOMAIN Layout :
           /\ ReadGuid(read[i].type) = Layout[i].type /\ read[i].name = Layout[i].label
           /\ read[i].first % PerMib(disk) = 0
           /\ Layout[i].mib # Rest => read[i].last - read[i].first + 1 = Layout[i].mib * PerMib(disk)
           /\ read[i].first > 1 + ArraySectors(disk) /\ read[i].last < BackupArray(disk)
           /\ \A j \in 1..(i - 1) : read[j].last < read[i].first /\ read[j].unique # read[i].unique
=============================================================================
