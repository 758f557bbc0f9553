-------------------------------- MODULE Package --------------------------------
(***************************************************************************)
(* Plex's package, from its arrival to the image built of it (provision.rs, *)
(* plexos-plex's ar, verify, manifest, tools and store): located, checked   *)
(* against the pinned key and against itself, and read again by its path to *)
(* be unpacked.  A version is its numbers; what a member holds is known by  *)
(* the release it was made for.                                             *)
(***************************************************************************)
EXTENDS Integers, Sequences, SequencesExt, FiniteSets, Faults

CONSTANTS
  Numbers,     \* the numbers of each release's version, by its identity
  Pages,       \* those who may start an installation
  MaxMembers,  \* MAX_MEMBERS
  KeptImages,  \* store::KEEP
  Installs     \* bound: installations begun

ASSUME PackageAssumption ==
  /\ DOMAIN Numbers \subseteq Nat \ {0} /\ \A v \in DOMAIN Numbers : Numbers[v] \in Seq(Nat) /\ Numbers[v] # <<>>
  /\ DOMAIN Numbers # {}
  /\ MaxMembers \in Nat \ {0} /\ KeptImages \in Nat \ {0} /\ Installs \in Nat \ {0}

VARIABLES
  offered,  \* what a page or the catalogue has to give
  file,     \* .package.deb: its members, and how much of it is there
  claimed,  \* the job is taken
  run,      \* each page's installation: where it is and what it holds
  begun,    \* installations begun
  store,    \* Store: the versions installed, and which of them `current` names
  made      \* history: of what each image was built, and under which version

package == <<offered, file, claimed, run, begun, store, made>>

Releases == DOMAIN Numbers
Others   == 0   \* what was made for no release of Plex's
NoFile   == [as |-> "page", v |-> Others, length |-> -1]
Magic    == 2   \* in units of which a header is two
HeaderLen == 2

(* manifest::Entry and Measured: MD5 and SHA-1 stand for the body. *)
Entry(name, size, body) == [name |-> name, size |-> size, body |-> body]
EntriesFor(v) == {Entry("debian-binary", 1, v), Entry("control", 1, v), Entry("data", 2, v)}

(* ar::Member and what it holds; a clearsigned document: who signed it, what it lists, and its shape. *)
NoDocument == [by |-> "nobody", lists |-> {}, shape |-> "none"]
Member(name, size, body) == [name |-> name, size |-> size, body |-> body, document |-> NoDocument]
Signature(by, lists, shape) ==
  [Member("_gpgplex", 1, Others) EXCEPT !.document = [by |-> by, lists |-> lists, shape |-> shape]]
Genuine(v) ==
  <<Member("debian-binary", 1, v), Member("control", 1, v), Member("data", 2, v), Signature("plex", EntriesFor(v), "whole")>>

(* What may be offered under a release's name. *)
Variants(v) ==
  LET g == Genuine(v) IN
  [genuine   |-> g,
   added     |-> Append(g, Member("extra", 1, Others)),
   doubled   |-> <<g[1], g[2], Member("data", 2, Others), g[3], g[4]>>,
   altered   |-> [g EXCEPT ![3].body = Others],
   relabeled |-> [g EXCEPT ![2].body = Others],
   longer    |-> [g EXCEPT ![3].size = 3],
   lacking   |-> <<g[1], g[3], g[4]>>,
   unsigned  |-> SubSeq(g, 1, 3),
   anothers  |-> [g EXCEPT ![4] = Signature("another", EntriesFor(v), "whole")],
   reshaped  |-> [g EXCEPT ![4] = Signature("plex", {}, "no-list")],
   garbled   |-> [g EXCEPT ![4] = Signature("plex", {}, "malformed")],
   hollow    |-> [g EXCEPT ![4] = Signature("plex", {}, "whole")],
   crowded   |-> g \o [i \in 1..MaxMembers |-> Member("extra", 1, Others)],
   page      |-> <<>>]

Members(f) == Variants(f.v)[f.as]

NoRun == [at |-> "idle", source |-> "none", dir |-> <<>>, manifest |-> {}, version |-> Others, error |-> "none", wrote |-> FALSE, sum |-> FALSE]

(* What each part can say was wrong. *)
CatalogueErrors == {"catalogue", "no-match", "untrusted"}
ArchiveErrors   == {"no-archive", "damaged", "crowded"}
SignatureErrors == {"no-verifier", "no-keyring", "rejected"}
ManifestErrors  == {"no-list", "malformed", "no-entries"}
Mismatches      == {"unsigned", "unlisted", "missing", "size", "digest"}
Errors == {"none", "image", "no-curl", "fetch", "transfer", "nothing-supplied", "unsigned", "mismatch", "read", "tar", "no-control", "no-version", "no-data"}
          \cup CatalogueErrors \cup ArchiveErrors \cup SignatureErrors \cup ManifestErrors

PackageTypeOK ==
  /\ file.length \in Nat \cup {-1} /\ claimed \in BOOLEAN /\ begun \in 0..Installs
  /\ store \in [installed : SUBSET (Releases \cup {Others}), current : Releases \cup {Others}] /\ IsFiniteSet(store.installed)
  /\ store.installed # {} => store.current \in store.installed
  /\ \A p \in Pages : run[p].error \in Errors

-----------------------------------------------------------------------------
(* ar: the members are located by their headers, and none is read. *)

(* A package is cut in a header, before or after a payload, or behind its padding; how long a payload is does not
   matter to that. *)
Payload == 1
Extent  == HeaderLen + Payload + 1
StartOf(i) == Magic + Extent * (i - 1)
EndOf(i)   == StartOf(i) + HeaderLen + Payload
SizeOf(members) == IF members = <<>> THEN 1 ELSE EndOf(Len(members))

Begun(f) == {i \in DOMAIN Members(f) : StartOf(i) < f.length}
Whole(f) == {i \in DOMAIN Members(f) : StartOf(i) + HeaderLen <= f.length}

(* directory: an end between two members is an end; a header cut in two is not. *)
Directory(f) ==
  IF Members(f) = <<>> \/ f.length < Magic THEN [error |-> "no-archive", members |-> <<>>]
  ELSE IF Cardinality(Whole(f)) > MaxMembers THEN [error |-> "crowded", members |-> <<>>]
  ELSE IF Begun(f) # Whole(f) THEN [error |-> "damaged", members |-> <<>>]
  ELSE [error |-> "none", members |-> SubSeq(Members(f), 1, Cardinality(Whole(f)))]

(* member_bytes: all of a payload or an error; what is there now. *)
Readable(i) == EndOf(i) <= file.length
BytesAt(dir, i)  == IF i \in DOMAIN Members(file) THEN Members(file)[i].body ELSE Others
DocumentAt(dir, i) == IF i \in DOMAIN Members(file) THEN Members(file)[i].document ELSE NoDocument

(* The first of a name. *)
Named(dir, name) == {i \in DOMAIN dir : dir[i].name = name /\ \A j \in 1..(i - 1) : dir[j].name # name}

-----------------------------------------------------------------------------
(* plexos_plex: the signed text against the package. *)

(* Mutant: only that everything listed is there *)
ListedIsThere(measured, signed) == {p \in Mismatches : p = "missing" /\ \E e \in signed : \A m \in measured : m.name # e.name}

(* agrees_with: every discrepancy, both ways, every member of a name. *)
Problems(measured, signed) ==
  LET payload == {m \in measured : m.name # "_gpgplex"}
      Of(m)   == {e \in signed : e.name = m.name}
  IN {p \in Mismatches :
        \/ p = "unsigned" /\ payload = measured
        \/ p = "unlisted" /\ \E m \in payload : Of(m) = {}
        \/ p = "size"     /\ \E m \in payload : \E e \in Of(m) : e.size # m.size
        \/ p = "digest"   /\ \E m \in payload : \E e \in Of(m) : e.body # m.body
        \/ p = "missing"  /\ \E e \in signed : \A m \in measured : m.name # e.name}

(* verify::clearsigned: gpgv of the image, with the keyring of the image and no other *)
Clearsigned(document) ==
  CASE Happens("no-gpgv")    -> "no-verifier"
    [] Happens("no-keyring") -> "no-keyring"
    [] OTHER -> IF document.by = "plex" THEN "none" ELSE "rejected"

(* manifest::parse: no list, or an empty one, checks nothing. *)
Parsed(document) ==
  IF document.shape # "whole" THEN document.shape ELSE IF document.lists = {} THEN "no-entries" ELSE "none"

-----------------------------------------------------------------------------
(* store: versions and their order. *)

Part(v, i) == IF i \in DOMAIN Numbers[v] THEN Numbers[v][i] ELSE 0

(* Version::cmp: number by number, a missing one being zero *)
OlderThan(v, w) ==
  \E i \in 1..Len(Numbers[v] \o Numbers[w]) : Part(v, i) < Part(w, i) /\ \A j \in 1..(i - 1) : Part(v, j) = Part(w, j)

(* superseded: all but the one being installed and the newest of the others *)
Superseded(v) ==
  LET others == store.installed \ {v} IN {w \in others : Cardinality({x \in others : OlderThan(w, x)}) >= KeptImages - 1}

-----------------------------------------------------------------------------
PackageInit ==
  /\ \E w \in DOMAIN Variants(1) : (w # "genuine" => Happens("variants")) /\ offered = [as |-> w, v |-> CHOOSE v \in Releases : TRUE]
  /\ file = NoFile /\ claimed = FALSE /\ begun = 0 /\ store = [installed |-> {}, current |-> Others] /\ made = {}
  /\ run = [p \in Pages |-> NoRun]

RunGoes(p, r) == run' = [run EXCEPT ![p] = r]
RunAt(p, at) == RunGoes(p, [run[p] EXCEPT !.at = at])
(* Job::finish, which gives the job up *)
RunEnds(p, error) == RunGoes(p, [NoRun EXCEPT !.at = "over", !.error = error, !.wrote = run[p].wrote, !.source = run[p].source, !.sum = run[p].sum]) /\ claimed' = FALSE
Holds(p, at) == run[p].at = at /\ UNCHANGED <<offered, begun, store, made>>

(* Job::begin: taken under one lock, before a byte is written. *)
Free == ~claimed

(* Bound: one installation of whatever may be offered, or several of what Plex publishes; one page, or two. *)
Allowed(p) == begun < (IF Happens("variants") THEN 1 ELSE Installs) /\ (Happens("two") \/ \A q \in Pages \ {p} : run[q].at = "idle")

(* start_download, upload_route and start_from_media *)
Begin(p, source) ==
  /\ Free /\ run[p].at \in {"idle", "over"} /\ Allowed(p)
  /\ claimed' = TRUE /\ begun' = begun + 1
  /\ RunGoes(p, [NoRun EXCEPT !.at = IF source = "download" THEN "tools" ELSE "supply", !.source = source])
  /\ UNCHANGED <<offered, file, store, made>>

(* Something else is offered meanwhile: another file chosen, a newer release published. *)
Offers == \E v \in Releases : Happens("newer") /\ offered.v # v /\ offered' = [as |-> "genuine", v |-> v] /\ UNCHANGED <<file, claimed, run, begun, store, made>>

(* The body of an upload, or a copy off a medium: written over what was there, and removed when it fails. *)
Supply(p) ==
  /\ Holds(p, "supply")
  /\ \/ /\ \E n \in 0..SizeOf(Members(offered)) :
             file' = [as |-> offered.as, v |-> offered.v, length |-> n] /\ (n < SizeOf(Members(offered)) => Happens("short"))
        /\ RunGoes(p, [run[p] EXCEPT !.at = "tools", !.wrote = TRUE]) /\ UNCHANGED claimed
     \/ file' = NoFile /\ RunEnds(p, "fetch")

(* Tools::find and check_compressor, before anything is fetched *)
Tools(p) ==
  /\ Holds(p, "tools") /\ UNCHANGED file
  /\ IF Happens("no-tar") \/ Happens("no-lz4") THEN RunEnds(p, "image")
     ELSE RunAt(p, IF run[p].source = "download" THEN "catalogue" ELSE "look") /\ UNCHANGED claimed

(* is_trusted: https, one of Plex's hosts, and nobody's name in it *)
IsTrusted == ~Happens("elsewhere")

(* pick, of the document curl fetched: a release for this machine, at an address of Plex's *)
Pick(p) ==
  /\ Holds(p, "catalogue") /\ UNCHANGED file
  /\ \/ Happens("no-curl") /\ RunEnds(p, "no-curl")
     \/ ~Happens("no-curl") /\ RunEnds(p, "fetch")
     \/ ~Happens("no-curl") /\ Happens("no-match") /\ (RunEnds(p, "catalogue") \/ RunEnds(p, "no-match"))
     \/ ~Happens("no-curl") /\ ~Happens("no-match") /\ ~IsTrusted /\ RunEnds(p, "untrusted")
     \/ /\ ~Happens("no-curl") /\ ~Happens("no-match") /\ IsTrusted
        /\ RunAt(p, "download") /\ UNCHANGED claimed

(* download: curl fails and what it wrote is removed; or says that it did not. *)
Download(p) ==
  /\ Holds(p, "download")
  /\ \/ /\ \E n \in 0..SizeOf(Members(offered)) :
             file' = [as |-> offered.as, v |-> offered.v, length |-> n] /\ (n < SizeOf(Members(offered)) => Happens("short"))
        /\ RunGoes(p, [run[p] EXCEPT !.at = "sum", !.wrote = TRUE, !.sum = ~Happens("no-sum")]) /\ UNCHANGED claimed
     \/ file' = NoFile /\ RunEnds(p, "fetch")

(* The catalogue's checksum, of the file it publishes, when it gives one. *)
Matches == file.length = SizeOf(Members(file))
Sum(p) ==
  /\ Holds(p, "sum")
  /\ IF run[p].sum /\ ~Matches THEN file' = NoFile /\ RunEnds(p, "transfer") ELSE RunAt(p, "open") /\ UNCHANGED <<file, claimed>>

LookSupplied(p) ==
  /\ Holds(p, "look") /\ UNCHANGED file
  /\ IF file.length <= 0 THEN RunEnds(p, "nothing-supplied") ELSE RunAt(p, "open") /\ UNCHANGED claimed

Open(p) ==
  /\ Holds(p, "open") /\ UNCHANGED file
  /\ IF Directory(file).error # "none" THEN RunEnds(p, Directory(file).error)
     ELSE RunGoes(p, [run[p] EXCEPT !.at = "signature", !.dir = Directory(file).members]) /\ UNCHANGED claimed

(* verified_manifest: of the text gpgv gave back, and of no other *)
Verified(p) ==
  LET dir == run[p].dir  named == Named(dir, "_gpgplex") IN
  /\ Holds(p, "signature") /\ UNCHANGED file
  /\ IF named = {} THEN RunEnds(p, "unsigned")
     ELSE \E i \in named :
            IF ~Readable(i) THEN RunEnds(p, "read")
            ELSE LET document == DocumentAt(dir, i) IN
                 IF Clearsigned(document) # "none" THEN RunEnds(p, Clearsigned(document))
                 ELSE IF Parsed(document) # "none" THEN RunEnds(p, Parsed(document))
                 ELSE RunGoes(p, [run[p] EXCEPT !.at = "tie", !.manifest = document.lists]) /\ UNCHANGED claimed

(* tie_to_payload: every member that was located, as it hashes now *)
TieToPayload(p) ==
  LET dir == run[p].dir IN
  /\ Holds(p, "tie") /\ UNCHANGED file
  /\ IF \E i \in DOMAIN dir : ~Readable(i) THEN RunEnds(p, "read")
     ELSE IF Problems({Entry(dir[i].name, dir[i].size, BytesAt(dir, i)) : i \in DOMAIN dir}, run[p].manifest) = {}
          THEN RunAt(p, "version") /\ UNCHANGED claimed
          ELSE RunEnds(p, "mismatch")

(* version_of, by the control file, which the tar of the image decompresses or cannot *)
VersionOf(p) ==
  LET dir == run[p].dir  named == Named(dir, "control") IN
  /\ Holds(p, "version") /\ UNCHANGED file
  /\ IF named = {} THEN RunEnds(p, "no-control")
     ELSE \E i \in named :
            IF ~Readable(i) THEN RunEnds(p, "read")
            ELSE IF Happens("no-xz") THEN RunEnds(p, "tar")
            ELSE IF BytesAt(dir, i) \notin Releases THEN RunEnds(p, "no-version")
            ELSE RunGoes(p, [run[p] EXCEPT !.at = "build", !.version = BytesAt(dir, i)]) /\ UNCHANGED claimed

(* What is unpacked is read again, from where the data was found; then the package is removed. *)
Build(p) ==
  LET dir == run[p].dir  named == Named(dir, "data")  v == run[p].version IN
  /\ run[p].at = "build" /\ UNCHANGED <<offered, begun>>
  /\ IF named = {} THEN RunEnds(p, "no-data") /\ UNCHANGED <<file, store, made>>
     ELSE \E i \in named :
       /\ made' = made \cup {[version |-> v, body |-> BytesAt(dir, i), size |-> dir[i].size]}
       /\ store' = [installed |-> {w \in store.installed : v \in Releases => w \notin Superseded(v)} \cup {v}, current |-> v]
       /\ file' = NoFile /\ RunEnds(p, "none")

(* plexosd dies, or power is cut: what was written stays, and nothing is in progress. *)
RunDies ==
  /\ Happens("dies") /\ claimed /\ claimed' = FALSE /\ run' = [p \in Pages |-> NoRun]
  /\ UNCHANGED <<offered, file, begun, store, made>>

PackageNext ==
  \/ RunDies \/ Offers
  \/ \E p \in Pages :
       \/ \E source \in {"download", "supplied"} : Begin(p, source)
       \/ Supply(p) \/ Tools(p) \/ Pick(p) \/ Download(p) \/ Sum(p) \/ LookSupplied(p) \/ Open(p)
       \/ Verified(p) \/ TieToPayload(p) \/ VersionOf(p) \/ Build(p)

-----------------------------------------------------------------------------
(* What an image is built of, and the version it is published under, are what Plex signed together for one release,
   whatever was offered, cut short, left behind or replaced meanwhile (plexos-plex/src/lib.rs, "The order of
   operations"). *)
InstalledIsSigned ==
  \A m \in made : m.version \in Releases /\ Entry("data", m.size, m.body) \in EntriesFor(m.version)

(* A failed installation says what was wrong: the image is blamed for what it lacks and before anything was fetched,
   or for a tar that cannot decompress, which is not said of Plex's control file; the transfer for what came short of what the catalogue published, Plex for a manifest of another shape, and only
   what is not Plex's, or is not whole, is said not to match or not to be signed (provision.rs, tools.rs). *)
BlameIsRight ==
  \A p \in Pages :
    LET e == run[p].error IN
    run[p].at = "over" /\ begun = 1 /\ ~Happens("newer") =>
      /\ e = "image" => (Happens("no-tar") \/ Happens("no-lz4")) /\ (run[p].source = "download" => ~run[p].wrote)
      /\ e = "tar" => Happens("no-xz")
      /\ e # "no-version"
      /\ e = "transfer" => Happens("short")
      /\ e \in ManifestErrors => offered.as \in {"reshaped", "garbled", "hollow"}
      /\ e \in {"no-verifier", "no-keyring"} => (Happens("no-gpgv") \/ Happens("no-keyring"))
      /\ e \in {"mismatch", "rejected"} => offered.as # "genuine"
      /\ e \in {"unsigned", "read", "damaged", "no-archive", "nothing-supplied"} /\ offered.as = "genuine" =>
           Happens("short") /\ (run[p].source = "download" => ~run[p].sum)

(* Of what was installed before, an installation drops nothing while there is room, and nothing newer than what it
   keeps: by the numbers of a version and not as it is spelt (store.rs). *)
Newer(v, w) ==
  LET differ == {i \in 1..(Len(Numbers[v]) + Len(Numbers[w])) : Part(v, i) # Part(w, i)}
  IN  differ # {} /\ Part(v, Min(differ)) > Part(w, Min(differ))
NewestIsKept == \A w \in store.installed \ store'.installed :
  /\ Cardinality(store'.installed) >= KeptImages
  /\ \A x \in store'.installed \ {store'.current} : ~Newer(w, x)
=============================================================================
