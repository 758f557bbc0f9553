------------------------------- MODULE Discovery -------------------------------
(***************************************************************************)
(* Whether there is a newer release, and installing what the service offers *)
(* (discover.rs, update.rs: evaluate, believe, revocations_in_force, and    *)
(* the console's update routes).  A check and an installation each read the *)
(* same service, document by document, while it is published to, and the    *)
(* same configuration, while it is saved.                                   *)
(***************************************************************************)
EXTENDS Trust, Configuration

CONSTANTS
  Offers,       \* what the service may answer: [kind, up, feed, at, list], feed and at being functions
  Republished,  \* bound: how often that changes
  Latest        \* bound: the last moment of the clock

ASSUME DiscoveryAssumption == Republished \in Nat /\ Latest \in Nat

VARIABLES
  service,      \* what the service answers now, and how often that has changed
  clock,        \* the machine's clock
  held,         \* REVOCATION_FILE
  availability, \* what was last found out
  work,         \* the thread that checks and the one that installs
  round,        \* the thread that starts the automatic rounds
  written       \* what was installed, the list it was judged by, and the one that was held then

discovery == <<service, clock, held, availability, work, round, written>>

Workers  == {"check", "install"}
NoOffer  == [release |-> 0]
NoSignature == [readable |-> FALSE]
Resting  == [at |-> "rest", channel |-> "", tracked |-> "", path |-> "", manifest |-> NoOffer, signature |-> NoSignature,
             seen |-> NoList, list |-> NoList, install |-> FALSE]
Nothing  == [status |-> "never checked", channel |-> "", offer |-> NoOffer]

Statuses == {"never checked", "checking", "not configured", "up to date", "available", "failed"}
Stations == {"rest", "load", "ask", "track", "manifest", "signature", "held", "list", "store", "judge", "write"}

DiscoveryTypeOK ==
  /\ service.offer \in Offers /\ service.changes \in 0..Republished
  /\ clock \in 0..Latest
  /\ availability.status \in Statuses
  /\ \A w \in Workers : work[w].at \in Stations
  /\ round \in {"waits", "due", "checks"}

DiscoveryInit ==
  /\ service \in [offer : {o \in Offers : o.kind \in faults}, changes : {0}]
  /\ clock \in {t \in 0..Latest : Happens("clock") \/ t = Untold} /\ held = NoList
  /\ availability = Nothing /\ round = "waits" /\ written = {}
  /\ work = [w \in Workers |-> Resting]

-----------------------------------------------------------------------------
At(w, at) == work[w].at = at
Goes(w, change) == work' = [work EXCEPT ![w] = [f \in DOMAIN Resting |-> IF f \in DOMAIN change THEN change[f] ELSE @[f]]]
Rests(w) == work' = [work EXCEPT ![w] = Resting]

(* Discovery::finish overwrites all that was known; the installation's outcome is its job's. *)
Finds(w, found) ==
  IF w = "check" THEN availability' = found /\ round' = IF round = "checks" THEN "waits" ELSE round
                 ELSE UNCHANGED <<availability, round>>

Answered(status, w, offer) == [status |-> status, channel |-> work[w].channel, offer |-> offer]
Ends(w, status, offer) == Rests(w) /\ Finds(w, Answered(status, w, offer))
ComesToNothing(w) == Ends(w, "failed", NoOffer)

Rest == UNCHANGED <<configuration, service, clock>>

(* begin: one check at a time, under one lock. *)
Begins == availability.status # "checking" /\ availability' = [availability EXCEPT !.status = "checking"]

-----------------------------------------------------------------------------
(* schedule: a day and the machine's own share of an hour have gone by. *)
DayPasses == round = "waits" /\ round' = "due" /\ Rest /\ UNCHANGED <<held, availability, work, written>>

(* automatic_skip: not while an update runs, nor when Settings says not to; an unreadable file does not say so. *)
Skips == ~At("install", "rest") \/ (Load.whole /\ Load.is.check = "off")

(* automatic_round, on the scheduler's own thread. *)
Round ==
  /\ round = "due"
  /\ IF ~Skips /\ availability.status # "checking"
     THEN Begins /\ Goes("check", [at |-> "load"]) /\ round' = "checks"
     ELSE UNCHANGED <<availability, work>> /\ round' = "waits"
  /\ Rest /\ UNCHANGED <<held, written>>

(* POST /api/update/check *)
Button ==
  /\ Happens("button") /\ At("install", "rest") /\ Begins
  /\ Goes("check", [at |-> "load"])
  /\ Rest /\ UNCHANGED <<held, round, written>>

(* POST /api/update without an address: the job is begun if a service is configured. *)
Request ==
  /\ Happens("install") /\ At("install", "rest")
  /\ Happens("together") \/ availability.status # "checking"
  /\ Load.whole /\ Configured(Load.is)
  /\ \E install \in BOOLEAN : Goes("install", [at |-> "load", install |-> install])
  /\ Rest /\ UNCHANGED <<held, availability, round, written>>

(* check and locate_configured: the channel and the address as they are stored. *)
LoadConfig(w) ==
  /\ At(w, "load")
  /\ IF Load.whole /\ Configured(Load.is) /\ Tracked(Load.is) \in Channels
     THEN Goes(w, [at |-> "ask", channel |-> Tracked(Load.is)]) /\ UNCHANGED <<availability, round>>
     ELSE Ends(w, IF Load.whole /\ ~Configured(Load.is) THEN "not configured" ELSE "failed", NoOffer)
  /\ Rest /\ UNCHANGED <<held, written>>

ServiceAnswers == service.offer.up
Offered == service.offer

(* ask and locate: the channel file, unless it is missing, too large, unreadable, or points outside the service. *)
AskFeed(w) ==
  /\ At(w, "ask")
  /\ IF ServiceAnswers /\ Offered.feed[work[w].channel] \in DOMAIN Offered.at
     THEN Goes(w, [at |-> "track", path |-> Offered.feed[work[w].channel]]) /\ UNCHANGED <<availability, round>>
     ELSE ComesToNothing(w)
  /\ Rest /\ UNCHANGED <<held, written>>

(* tracked_channel: evaluate reads the configuration again. *)
Track(w) ==
  /\ At(w, "track")
  /\ IF Load.whole /\ Tracked(Load.is) \in Channels
     THEN Goes(w, [at |-> "manifest", tracked |-> Tracked(Load.is)]) /\ UNCHANGED <<availability, round>>
     ELSE ComesToNothing(w)
  /\ Rest /\ UNCHANGED <<held, written>>

(* believe: the manifest, then its signature, as the service has them at that moment. *)
FetchManifest(w) ==
  /\ At(w, "manifest")
  /\ IF ServiceAnswers /\ work[w].path \in DOMAIN Offered.at
     THEN Goes(w, [at |-> "signature", manifest |-> Offered.at[work[w].path].manifest]) /\ UNCHANGED <<availability, round>>
     ELSE ComesToNothing(w)
  /\ Rest /\ UNCHANGED <<held, written>>
FetchSignature(w) ==
  /\ At(w, "signature")
  /\ IF ServiceAnswers /\ work[w].path \in DOMAIN Offered.at /\ Offered.at[work[w].path].signature.readable
     THEN Goes(w, [at |-> "held", signature |-> Offered.at[work[w].path].signature]) /\ UNCHANGED <<availability, round>>
     ELSE ComesToNothing(w)
  /\ Rest /\ UNCHANGED <<held, written>>

(* revocations_in_force: the list that is held, the one that is offered, and the later of them stored. *)
ReadHeld(w) ==
  /\ At(w, "held")
  /\ Goes(w, [at |-> "list", seen |-> IF RootSigned(held) THEN held ELSE NoList])
  /\ Rest /\ UNCHANGED <<held, availability, round, written>>
FetchList(w) ==
  /\ At(w, "list")
  /\ IF ServiceAnswers /\ Replaces(Offered.list, work[w].seen)
     THEN Goes(w, [at |-> "store", list |-> Offered.list])
     ELSE Goes(w, [at |-> "judge", list |-> work[w].seen])
  /\ Rest /\ UNCHANGED <<held, availability, round, written>>
StoreList(w) ==
  /\ At(w, "store")
  /\ \/ held' = work[w].list
     \/ Happens("full") /\ UNCHANGED held
  /\ Goes(w, [at |-> "judge"])
  /\ Rest /\ UNCHANGED <<availability, round, written>>

Believed(w) ==
  /\ Verify(work[w].manifest, work[w].signature, work[w].list.keys, ExpiryClock(clock))
  /\ InSequence(work[w].manifest, OurRelease)
(* evaluate: believed, fitting, and newer than what runs. An installation goes on to write_slot. *)
Judge(w) ==
  /\ At(w, "judge")
  /\ LET m == work[w].manifest IN
     CASE Believed(w) /\ Fits(m, work[w].tracked) /\ Newer(m) ->
            IF w = "install" /\ work[w].install THEN Goes(w, [at |-> "write"]) /\ UNCHANGED <<availability, round>>
                                               ELSE Ends(w, "available", m)
       [] Believed(w) /\ Fits(m, work[w].tracked) /\ Same(m) -> Ends(w, "up to date", m)
       [] OTHER -> Ends(w, "failed", IF Believed(w) THEN m ELSE NoOffer)
  /\ Rest /\ UNCHANGED <<held, written>>

(* write_slot, for the slot that does not run: every artifact is located and fetched, and the kernel image looked at, before
   anything is written; from there on it is ABUpdate's. *)
WriteSlot(w) ==
  /\ At(w, "write")
  /\ LET m == work[w].manifest  from == Artifacts(m) IN
     IF ServiceAnswers /\ (\A i \in DOMAIN from : Resolves(from[i].sources)) /\ Belongs(m.uki[Target])
     THEN written' = written \cup {[manifest |-> m, list |-> work[w].list, held |-> held]}
     ELSE UNCHANGED written
  /\ Rests(w) /\ Rest /\ UNCHANGED <<held, availability, round>>

Work(w) ==
  LoadConfig(w) \/ AskFeed(w) \/ Track(w) \/ FetchManifest(w) \/ FetchSignature(w)
  \/ ReadHeld(w) \/ FetchList(w) \/ StoreList(w) \/ Judge(w) \/ WriteSlot(w)

-----------------------------------------------------------------------------
(* What is published, withdrawn, mirrored or put there by somebody else. *)
Republish == \E o \in Offers :
  /\ o.kind \in faults /\ o # service.offer /\ service.changes < Republished
  /\ service' = [offer |-> o, changes |-> service.changes + 1]
  /\ UNCHANGED <<configuration, clock, held, availability, work, round, written>>

TimePasses ==
  /\ Happens("time") /\ clock < Latest /\ clock' = clock + 1
  /\ UNCHANGED <<configuration, service, held, availability, work, round, written>>

(* plexosd dies: what it knew goes with it, what it stored stays. *)
Restart ==
  /\ Happens("dies") /\ (availability # Nothing \/ work # [w \in Workers |-> Resting] \/ saver # AtRest)
  /\ Restarted
  /\ work' = [w \in Workers |-> Resting] /\ availability' = Nothing /\ round' = "waits"
  /\ UNCHANGED <<service, clock, held, written>>

DiscoveryNext ==
  \/ DayPasses \/ Round \/ Button \/ Request \/ Republish \/ TimePasses \/ Restart
  \/ \E w \in Workers : Work(w)
  \/ Serve /\ UNCHANGED discovery

-----------------------------------------------------------------------------
(* The list in force, or a later one of a root that could not be stored. *)
NoEarlier(list, than) == list = than \/ (RootSigned(list) /\ Supersedes(list, than))

(* Whatever the service answered and however it changed between two documents, what is written to a slot is
   a manifest that the key in its certificate signed, that a root of this image certified, that is not older
   than what runs, and whose key is not revoked by the list it was judged by (update.rs, believe); as long as no check
   stores one meanwhile, that list is no earlier than the one the machine holds when the slot is written; and the kernel
   that would boot the slot is the one of that slot. *)
WrittenWasVouchedFor == \A w \in written :
  /\ w.manifest.certificate.root \in Roots /\ w.manifest.certificate.by = w.manifest.certificate.root
  /\ w.manifest.certificate.key = w.manifest.key
  /\ w.manifest.key \notin w.list.keys /\ (~Happens("together") => NoEarlier(w.list, w.held))
  /\ w.manifest.release > OurRelease /\ Target \in w.manifest.uki[Target].says

(* "The list an appliance holds can only be replaced by a root-signed one with a higher counter, so somebody
   who can answer at this address can withhold a revocation but cannot withdraw one" (update.rs): what changes it is
   signed by a root, and later as long as no check and installation are under way together, so that no list of the past
   comes back.  Whether the later list still names a key is for whoever holds a root to say (trust.rs, KeyRevoked). *)
CounterRises ==
  held' # held => RootSigned(held') /\ (~Happens("together") => Supersedes(held', held))

(* "Never merged into UpToDate": an answer, that there is news or that there is none, rests on a manifest of
   the channel that was asked about, and any other outcome is told apart from it (discover.rs, Status). *)
AnswerRestsOnAManifest ==
  availability.status \in {"up to date", "available"} /\ ~Happens("settings")
    => /\ availability.offer # NoOffer /\ availability.offer.channel = availability.channel
       /\ (availability.offer.release = OurRelease <=> availability.status = "up to date")

(* Nothing is in the way of the news: this machine is asked to look, and its service has one good release that it
   can judge. *)
Good(o) == o.up /\ \A c \in Channels :
  /\ o.feed[c] \in DOMAIN o.at
  /\ LET p == o.at[o.feed[c]] IN
     Verify(p.manifest, p.signature, {}, Untold) /\ InSequence(p.manifest, OurRelease) /\ Fits(p.manifest, c) /\ Newer(p.manifest)
NewsIsDue ==
  /\ ~Happens("dies") /\ file.whole /\ Configured(file.is) /\ Tracked(file.is) \in Channels /\ file.is.check = "on"
  /\ Good(service.offer) /\ At("install", "rest") /\ ExpiryClock(clock) = Untold
  /\ \A c \in Channels : service.offer.at[service.offer.feed[c]].manifest.key \notin held.keys \cup service.offer.list.keys
=============================================================================
