-------------------------------- MODULE Activity --------------------------------
(***************************************************************************)
(* What Plex is playing (plexactivity.rs): a request reads the machine in   *)
(* several steps, asks Plex over loopback, and fills in from a cache what a *)
(* transcoding session does not say of its file.                            *)
(***************************************************************************)
EXTENDS Integers, Sequences, SequencesExt, Faults

CONSTANTS
  Watchers,     \* browsers with the page open
  Items,        \* rating keys
  SourceCache,  \* SOURCE_CACHE
  MaxArtwork,   \* MAX_ARTWORK
  Heading,         \* the bytes of an answer before its body
  Versions      \* bound: times a file is replaced

ASSUME ActivityAssumption == SourceCache \in Nat \ {0} /\ MaxArtwork \in Nat /\ Heading \in Nat \ {0} /\ Versions \in Nat

VARIABLES
  plex,     \* the installation and its server
  files,    \* an item: the version of its file, the one of half an hour ago, and the size of its poster
  sources,  \* SOURCES, oldest first
  watcher,  \* a request: where it is, what it found, what it answered
  held      \* history: what was so of the machine at some moment of a watcher's request

activity == <<plex, files, sources, watcher, held>>

NoNode    == [is |-> "none"]
Entries   == {[key |-> i, node |-> node, stream |-> word] : i \in Items, word \in {"transcode", "other"},
               node \in {NoNode} \cup [is : {"node"}, video : {"transcode", "copy"}, named : BOOLEAN, started : BOOLEAN]}
Quiet     == [at |-> "idle", state |-> "none", shown |-> {}, asked |-> {}, poster |-> 0]

States == {"not-provisioned", "not-running", "not-claimed", "no-token", "unreachable", "refused", "unreadable", "idle", "playing"}

ActivityTypeOK ==
  /\ plex \in [installed : BOOLEAN, prefs : {"none", "no-token", "token"}, listening : BOOLEAN, claimed : BOOLEAN, playing : BOOLEAN]
  /\ \A i \in Items : files[i].now \in 0..Versions /\ files[i].settled \in 0..files[i].now
  /\ Len(sources) <= SourceCache
  /\ \A v \in Watchers : watcher[v].at \in {"idle", "prefs", "claimed", "ask", "enrich", "push", "answered"}
  /\ \A v \in Watchers : watcher[v].state \in States \cup {"none"} /\ held[v] \subseteq States

ActivityInit ==
  /\ plex = IF Happens("owners") THEN [installed |-> FALSE, prefs |-> "none", listening |-> FALSE, claimed |-> FALSE, playing |-> FALSE]
            ELSE [installed |-> TRUE, prefs |-> "token", listening |-> TRUE, claimed |-> TRUE, playing |-> TRUE]
  /\ files = [i \in Items |-> [now |-> 0, settled |-> 0, poster |-> MaxArtwork]]
  /\ sources = <<>> /\ watcher = [v \in Watchers |-> Quiet] /\ held = [v \in Watchers |-> {}]

-----------------------------------------------------------------------------
(* What a document says of a session. *)

(* Decision::read *)
Decision(word) == CASE word = "transcode" -> "transcode" [] word = "copy" -> "direct-stream" [] word = "directplay" -> "direct-play" [] OTHER -> "unknown"

(* stream_decision: the transcode session, then the stream; and silence is Direct Play. *)
StreamDecision(node, stream) ==
  IF node # NoNode /\ Decision(node.video) # "unknown" THEN Decision(node.video)
  ELSE IF Decision(stream) # "unknown" \/ node # NoNode THEN Decision(stream) ELSE "direct-play"

(* overall, of which the picture decides *)
Overall(node, stream) == IF node = NoNode THEN "direct-play" ELSE StreamDecision(node, stream)

(* hardware: no, only once something has been produced without it. *)
Hardware(node) == IF node.named THEN "yes" ELSE IF node.started THEN "no" ELSE "not-known"

SessionOf(entry) ==
  [key |-> entry.key, decision |-> Overall(entry.node, entry.stream), source |-> -1,
   hardware |-> IF entry.node # NoNode /\ StreamDecision(entry.node, entry.stream) = "transcode" THEN Hardware(entry.node) ELSE "not-known"]

-----------------------------------------------------------------------------
(* What is so of the machine, in the words of State. *)

So(p) ==
  {s \in States :
     \/ s = "not-provisioned" /\ ~p.installed
     \/ s = "not-running" /\ p.installed /\ ~p.listening
     \/ s = "not-claimed" /\ p.listening /\ ~p.claimed
     \/ s = "no-token" /\ p.claimed /\ p.prefs # "token"
     \/ s = "idle" /\ p.listening /\ ~p.playing
     \/ s = "playing" /\ p.listening /\ p.playing
     \/ s \in {"unreachable", "refused", "unreadable"} /\ p.listening /\ Happens("unwell")}

AsksPlex(v) == watcher[v].at \notin {"idle", "answered"}
Machine(p) ==
  /\ Happens("owners") /\ plex' = p
  /\ held' = [v \in Watchers |-> IF AsksPlex(v) THEN held[v] \cup So(p) ELSE held[v]]
  /\ UNCHANGED <<files, sources, watcher>>

(* Plex has written its preferences by the time it listens, and its token after it knows its owner. *)
Provisioning == Machine([plex EXCEPT !.installed = TRUE])
PlexStarts     == plex.installed /\ Machine([plex EXCEPT !.listening = TRUE, !.prefs = IF @ = "none" THEN "no-token" ELSE @])
PlexStops      == plex.listening /\ Machine([plex EXCEPT !.listening = FALSE, !.playing = FALSE])
OwnerSignsIn     == plex.listening /\ Machine([plex EXCEPT !.claimed = TRUE])
SaveToken == plex.claimed /\ Machine([plex EXCEPT !.prefs = "token"])
OwnerSignsOut  == plex.listening /\ Machine([plex EXCEPT !.claimed = FALSE, !.prefs = "no-token"])
Play      == plex.listening /\ Machine([plex EXCEPT !.playing = ~@])

(* A file is replaced; its poster is of any size. *)
Replace(i) ==
  /\ Happens("library") /\ files[i].now < Versions
  /\ \E size \in 1..(MaxArtwork + 1) : files' = [files EXCEPT ![i].now = @ + 1, ![i].poster = size]
  /\ UNCHANGED <<plex, sources, watcher, held>>

-----------------------------------------------------------------------------
(* observe: the order of the checks is the order of the remedies.  Requests meet only in the cache, so where it is
   the owners that change, one asks. *)

Moves(v, to) == watcher' = [watcher EXCEPT ![v] = to] /\ UNCHANGED <<plex, files, held>>
Says(v, state) == [watcher[v] EXCEPT !.at = "answered", !.state = state]

LookInstalled(v) ==
  /\ ~AsksPlex(v)
  /\ Happens("owners") => \A other \in Watchers \ {v} : watcher[other] = Quiet
  /\ held' = [held EXCEPT ![v] = So(plex)]
  /\ watcher' = [watcher EXCEPT ![v] = IF plex.installed THEN [Quiet EXCEPT !.at = "prefs"]
                                      ELSE [Quiet EXCEPT !.at = "answered", !.state = "not-provisioned"]]
  /\ UNCHANGED <<plex, files, sources>>

LookForToken(v) ==
  /\ watcher[v].at = "prefs"
  /\ Moves(v, CASE plex.prefs = "none" -> Says(v, "not-running")
                [] plex.prefs = "no-token" -> [watcher[v] EXCEPT !.at = "claimed"]
                [] plex.prefs = "token" -> [watcher[v] EXCEPT !.at = "ask"])
  /\ UNCHANGED sources

(* is_claimed: no, too, of a Plex that does not answer. *)
IsClaimed == plex.listening /\ plex.claimed

AskOwner(v) ==
  /\ watcher[v].at = "claimed"
  /\ Moves(v, Says(v, IF IsClaimed THEN "no-token" ELSE "not-claimed"))
  /\ UNCHANGED sources

(* ask, and parse; a session that is not direct play is filled in from the library. *)
AskPlex(v) ==
  /\ watcher[v].at = "ask"
  /\ \/ ~plex.listening /\ Moves(v, Says(v, "not-running"))
     \/ plex.listening /\ Happens("unwell") /\ \E s \in {"unreachable", "refused", "unreadable"} : Moves(v, Says(v, s))
     \/ plex.listening /\ ~plex.playing /\ Moves(v, Says(v, "idle"))
     \/ /\ plex.listening /\ plex.playing
        /\ \E entry \in Entries : LET session == SessionOf(entry) IN
             Moves(v, [Says(v, "playing") EXCEPT !.at = IF session.decision = "direct-play" THEN "answered" ELSE "enrich",
                                                 !.shown = {session}])
  /\ UNCHANGED sources

(* SOURCE_TTL *)
Trusted(s) == ~s.old

Key(v) == (CHOOSE s \in watcher[v].shown : TRUE).key
Filled(v, version) == [watcher[v] EXCEPT !.at = "answered", !.shown = {[s EXCEPT !.source = version] : s \in @}, !.asked = {}]

(* library_source: the cache, or the library, asked without the lock. *)
LibrarySource(v) == \E n \in 0..Len(sources) :
  LET kept == SubSeq(sources, n + 1, Len(sources))
      hits == {m \in DOMAIN kept : kept[m].key = Key(v)} IN
  /\ watcher[v].at = "enrich"
  /\ \A i \in DOMAIN sources : Trusted(sources[i]) <=> i > n   \* retain: what is old came first
  /\ sources' = kept
  /\ \/ hits # {} /\ Moves(v, Filled(v, kept[Min(hits)].version))
     \/ hits = {} /\ plex.listening /\ Moves(v, [watcher[v] EXCEPT !.at = "push", !.asked = {files[Key(v)].now}])
     \/ hits = {} /\ (~plex.listening \/ Happens("unwell")) /\ Moves(v, [watcher[v] EXCEPT !.at = "answered"])

(* Mutant: room is made once there is one too many. *)
RoomLate(kept) == IF Len(kept) > SourceCache THEN Tail(kept) ELSE kept
(* The oldest goes when there are enough. *)
Room(kept) == IF Len(kept) >= SourceCache THEN Tail(kept) ELSE kept

Remember(v) ==
  LET version == CHOOSE n \in watcher[v].asked : TRUE IN
  /\ watcher[v].at = "push"
  /\ sources' = Append(Room(sources), [key |-> Key(v), version |-> version, old |-> FALSE])
  /\ Moves(v, Filled(v, version))

(* Half an hour, which no request lasts. *)
HalfAnHour ==
  /\ Happens("library") /\ \A v \in Watchers : ~AsksPlex(v)
  /\ sources' = [n \in DOMAIN sources |-> [sources[n] EXCEPT !.old = TRUE]]
  /\ files' = [i \in Items |-> [files[i] EXCEPT !.settled = files[i].now]]
  /\ watcher' = [v \in Watchers |-> Quiet]
  /\ UNCHANGED <<plex, held>>

(* poster: the answer is read up to one byte over the limit, its head counted with it, and only then is what is
   left of the picture held against the limit. *)
PosterRead(size) == IF Heading + size > MaxArtwork + 1 THEN MaxArtwork + 1 - Heading ELSE size
Poster(v, i) ==
  /\ ~AsksPlex(v) /\ Happens("posters") /\ plex.installed /\ plex.prefs = "token" /\ plex.listening
  /\ LET read == PosterRead(files[i].poster) IN
     Moves(v, [Quiet EXCEPT !.at = "answered", !.asked = {i}, !.poster = IF read > MaxArtwork THEN 0 ELSE read])
  /\ UNCHANGED sources

ActivityNext ==
  \/ Provisioning \/ PlexStarts \/ PlexStops \/ OwnerSignsIn \/ SaveToken \/ OwnerSignsOut \/ Play \/ HalfAnHour \/ \E i \in Items : Replace(i)
  \/ \E v \in Watchers : LookInstalled(v) \/ LookForToken(v) \/ AskOwner(v) \/ AskPlex(v) \/ LibrarySource(v) \/ Remember(v)
                         \/ \E i \in Items : Poster(v, i)

-----------------------------------------------------------------------------
(* What is said of a machine that changes while it is looked at was so of it at some moment of the request: each
   state has a remedy of its own.  "Not claimed" is said as well where Plex is not running. *)
StateWasTrue ==
  \A v \in Watchers : LET s == watcher[v].state IN watcher[v].at = "answered" /\ s # "none" =>
    s \in held[v] \/ (s = "not-claimed" /\ "not-running" \in held[v])

(* A file replaced by a better copy is not shown as the old one for more than half an hour, whatever lookups
   overlapped the replacement. *)
SourceIsRecent ==
  \A v \in Watchers : watcher[v].at = "answered" =>
    \A s \in watcher[v].shown : s.source = -1 \/ s.source >= files[s.key].settled
=============================================================================
