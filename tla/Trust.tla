--------------------------------- MODULE Trust ---------------------------------
(***************************************************************************)
(* Whether a manifest may be believed and what is to be done about it       *)
(* (trust.rs, manifest.rs, clock.rs, sequence.rs, plan.rs, location.rs,     *)
(* uki.rs).  Keys are their names; what was signed by whom, and what a     *)
(* kernel image says on its command line, are facts of the document.        *)
(***************************************************************************)
EXTENDS Integers, Sequences, FiniteSets, SequencesExt

CONSTANTS
  Roots,      \* ROOT_KEYS: what this image believes without proof
  OurRelease, \* the release that runs
  Target,     \* the slot that does not run, "a" or "b"
  BuiltAt     \* when it was built, or 0 when its version carries no stamp

(* A release is never number 0. *)
ASSUME ReleaseAssumption == OurRelease \in Nat \ {0}

Untold   == 0                                          \* a clock that cannot be judged
Channels == {"stable", "beta"}                         \* Channel::ALL, but for dev
NoList   == [readable |-> FALSE, counter |-> 0, keys |-> {}]

-----------------------------------------------------------------------------
(* rfc3339: the fields of a moment, in minutes since the epoch.  Years begin in March here, and eras of 400 years have as
   many days each. *)
CivilDay(days) ==
  LET shifted    == days + 719468
      dayOfEra   == shifted % 146097
      yearOfEra  == (dayOfEra - dayOfEra \div 1460 + dayOfEra \div 36524 - dayOfEra \div 146096) \div 365
      dayOfYear  == dayOfEra - (365 * yearOfEra + yearOfEra \div 4 - yearOfEra \div 100)
      position   == (5 * dayOfYear + 2) \div 153
      month      == IF position < 10 THEN position + 3 ELSE position - 9
  IN <<yearOfEra + (shifted \div 146097) * 400 + IF month <= 2 THEN 1 ELSE 0, month, dayOfYear - (153 * position + 2) \div 5 + 1>>
MinutesOfDay == 24 * 60
Rfc3339(minutes) ==
  CivilDay(minutes \div MinutesOfDay) \o <<(minutes % MinutesOfDay) \div 60, (minutes % MinutesOfDay) % 60>>

(* build_stamp, and built_at with it: the last component of a version, if it is a date to the minute that can be.  A
   component is the five fields of a stamp, or empty. *)
NoStamp == <<>>
IsDate(s) == Len(s) = 5 /\ s[2] \in 1..12 /\ s[3] \in 1..31 /\ s[4] \in 0..23 /\ s[5] \in 0..59
BuildStamp(version) == LET s == Last(version) IN IF IsDate(s) /\ s[1] >= 2020 THEN s ELSE NoStamp

(* expiry_is_checkable: both as text, which compares as the fields do, the first that differs deciding. *)
Before(s, t) == \E f \in 1..5 : s[f] < t[f] /\ \A e \in 1..(f - 1) : s[e] = t[e]
ExpiryIsCheckable(now, built) == ~Before(now, built)

-----------------------------------------------------------------------------
(* RawManifest::parse: the version before the body, and a release that extends its os_version. *)
Parses(m) == m.version = 1 /\ m.consistent

(* A certificate or a list is believed when the root key it names is known and is the one that signed it. *)
RootSigned(document) == document.readable /\ document.root \in Roots /\ document.by = document.root

(* expiry_clock: a clock before the image's own build stamp is wrong, and is not asked. *)
ExpiryClock(clock) == IF BuiltAt # Untold /\ clock >= BuiltAt THEN clock ELSE Untold
InDate(certificate, now) == now # Untold => now <= certificate.until

(* The detached signature is over the bytes that arrived. *)
SignedBy(key, m, signature) == signature.readable /\ signature.by = key /\ signature.over = m

(* Mutant: the manifest's own word for who signed it. *)
VerifyClaimed(m, signature, revoked, now) ==
  /\ Roots # {} /\ Parses(m) /\ RootSigned(m.certificate) /\ InDate(m.certificate, now)
  /\ m.key \notin revoked
  /\ SignedBy(m.certificate.key, m, signature)

(* verify: the whole chain, under the policy of this image and the revocations in force. *)
Verify(m, signature, revoked, now) ==
  /\ Roots # {} /\ Parses(m)
  /\ RootSigned(m.certificate) /\ InDate(m.certificate, now)
  /\ m.key = m.certificate.key /\ m.certificate.key \notin revoked
  /\ SignedBy(m.certificate.key, m, signature)

(* Revocations::supersedes *)
Supersedes(list, held) == list.counter > held.counter
(* Mutant: any list of a root, whatever its counter. *)
ReplacesAny(offered, held) == Roots # {} /\ RootSigned(offered)
(* revocations_in_force: what is held stays, unless a root signed a later list. *)
Replaces(offered, held) == Roots # {} /\ RootSigned(offered) /\ Supersedes(offered, held)

-----------------------------------------------------------------------------
(* sequence::floor and check. *)
Floor(accepted) == IF BuiltAt = Untold \/ accepted > OurRelease THEN accepted ELSE OurRelease
InSequence(m, accepted) == m.sequence >= Floor(accepted) /\ m.needs <= Floor(accepted)

(* plan: the product, the channel, the format and the partitions' sizes. *)
Fits(m, tracked) ==
  /\ m.product = "medialith" /\ m.channel \in Channels /\ m.channel = tracked
  /\ m.format = "erofs" /\ m.fits

(* location::resolve: the first source this build can fetch from, a whole file, at an address or under a plain name
   beside the manifest; any other name is refused. *)
IsSupported(source)   == source.kind = "full"
FirstSupported(sources) == SelectInSeq(sources, IsSupported)
IsPlace(url)     == url \in {"address", "plain name"}
Resolves(sources) == FirstSupported(sources) # 0 /\ IsPlace(sources[FirstSupported(sources)].url)

(* What a slot is written from: /usr, its hash tree, and the kernel image of that slot. *)
Artifacts(m) == <<m.usr, m.verity, m.uki[Target]>>

(* uki::check: the image says the slot it is fetched for, and the root hash that the manifest declares. *)
Belongs(uki) == Target \in uki.says /\ uki.carriesHash

Newer(m) == m.release > OurRelease
Same(m)  == m.release = OurRelease
=============================================================================
