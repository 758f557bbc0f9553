-------------------------------- MODULE Standing --------------------------------
(***************************************************************************)
(* What the console says of the machine: the attached screen's headline     *)
(* (dashboard/model.rs over status.rs, health.rs and rollback.rs), what is  *)
(* left to set up (setup.rs) and what is wrong with the network             *)
(* (netdiag.rs).  Each is read in several steps from a machine that changes *)
(* meanwhile; the releases it ran are told from a note in /var.             *)
(***************************************************************************)
EXTENDS Integers, Sequences, SequencesExt, Faults

CONSTANTS
  Newest,   \* bound: the build stamp of the newest release
  Tries,    \* boots a release on trial is given
  Ports,    \* the interfaces, in the order they are listed
  Address,  \* the address an interface is given, as its characters
  Covered   \* the addresses the certificate names

ASSUME StandingAssumption == Newest \in Nat \ {0} /\ Tries \in Nat \ {0} /\ DOMAIN Address = ToSet(Ports) /\ Ports \in Seq(ToSet(Ports))

VARIABLES
  release,  \* the running release and the one to fall back to, and the boots left to the trial, 0 when it is permanent
  note,     \* the record in /var of a boot that failed its gate
  undone,   \* history: the releases that were fallen back from
  machine,  \* what the checks ask about
  reader,   \* a request: what it is for, where it is and what it has found
  seen      \* history: what was so at some moment of the request

standing == <<release, note, undone, machine, reader, seen>>

NoRecord  == -1   \* no record, or one cut short
Nameless  == 0    \* a record of a release without a stamp
Resolvers == {"good", "missing", "dangling", "empty"}
Upstreams == {"answers", "refuses", "silent"}
NoReader  == [what |-> "none", at |-> "idle"]

Checks   == {"var", "usr", "plex"}
Steps    == <<"network", "identity", "shares", "plex", "claim-plex">>
Required == {"network", "plex", "claim-plex"}

StandingTypeOK ==
  /\ release \in [running : 1..Newest, other : 1..Newest, tries : 0..Tries]
  /\ note \in NoRecord..Newest /\ undone \subseteq 1..Newest
  /\ machine \in [var : BOOLEAN, usr : {"verity", "writable", "plain", "none"}, apps : BOOLEAN, mounted : BOOLEAN,
                  answering : BOOLEAN, claimed : BOOLEAN, up : SUBSET ToSet(Ports), configured : BOOLEAN, library : BOOLEAN,
                  route : BOOLEAN, resolver : Resolvers, upstream : Upstreams]
  /\ reader.what \in {"none", "screen", "wizard", "diagnosis"}

StandingInit ==
  /\ release = [running |-> 1, other |-> 1, tries |-> 0] /\ note = NoRecord /\ undone = {}
  /\ machine = [var |-> TRUE, usr |-> "verity", apps |-> ~Happens("new"), mounted |-> ~Happens("new"), answering |-> ~Happens("new"),
                claimed |-> ~Happens("new"), up |-> ToSet(Ports), configured |-> ~Happens("new"), library |-> ~Happens("new"),
                route |-> TRUE, resolver |-> "good", upstream |-> "answers"]
  /\ reader = NoReader /\ seen = {}

-----------------------------------------------------------------------------
(* The gate's checks, as they are found at the moment each is made. *)

(* check_usr_verified: read-only, and from the device mapper *)
UsrVerified(m) == m.usr = "verity"

(* check_plex: a Plex that was never provisioned is not asked for *)
PlexCheck(m) == IF ~m.apps THEN "n/a" ELSE IF m.answering THEN "pass" ELSE "fail"

(* run_all *)
CheckVar(m)  == IF m.var THEN "pass" ELSE "fail"
Found(m, which) ==
  CASE which = "var" -> CheckVar(m) [] which = "usr" -> IF UsrVerified(m) THEN "pass" ELSE "fail" [] which = "plex" -> PlexCheck(m)

Failures(checks) == {c \in Checks : checks[c] = "fail"}
IsHealthy(checks) == Failures(checks) = {} /\ \E c \in Checks : checks[c] = "pass"

(* What is so of the machine, in words. *)
Word(b) == IF b THEN "yes" ELSE "no"
Sayings(m) ==
  {<<c, Found(m, c)>> : c \in Checks} \cup {<<"address", Word(m.up # {})>>}
  \cup {<<f, Word(m[f])>> : f \in {"mounted", "answering", "claimed", "route"}} \cup {<<f, m[f]>> : f \in {"resolver", "upstream"}}

-----------------------------------------------------------------------------
(* The releases. *)

Fresh == reader' = NoReader /\ seen' = {}   \* a restart ends every request
Settles(m) == [m EXCEPT !.usr = "verity", !.answering = m.mounted]

(* An update installs a newer release over the other slot and the machine restarts into it, on trial. *)
Updated(v) ==
  /\ Happens("releases") /\ release.tries = 0 /\ v > release.running
  /\ release' = [running |-> v, other |-> release.running, tries |-> Tries]
  /\ machine' = Settles(machine) /\ Fresh /\ UNCHANGED <<note, undone>>

FallsBack(left) ==
  IF left > 0 THEN release' = [release EXCEPT !.tries = left] /\ UNCHANGED undone
  ELSE release' = [running |-> release.other, other |-> release.other, tries |-> 0] /\ undone' = undone \cup {release.running}

(* write: a record that could not be written, or was cut short, is none *)
Record == IF Happens("unstamped") THEN Nameless ELSE release.running
Written(record) == note' = record

(* record_rollback: the gate fails a release on trial, says why in /var, and restarts. *)
GateFails ==
  /\ release.tries > 0 /\ Fresh /\ machine' = Settles(machine) /\ FallsBack(release.tries - 1)
  /\ \/ machine.var /\ Written(Record)
     \/ ~machine.var /\ UNCHANGED note
     \/ Happens("power") /\ Written(NoRecord)

(* A boot that never reaches its gate says nothing. *)
DiesEarly == Happens("power") /\ release.tries > 0 /\ FallsBack(release.tries - 1) /\ Fresh /\ machine' = Settles(machine) /\ UNCHANGED note

(* The gate passes and the release is permanent; the older of the two is kept. *)
GatePasses == release.tries > 0 /\ release' = [release EXCEPT !.tries = 0] /\ UNCHANGED <<note, undone, machine, reader, seen>>

(* The machine changes under whoever is reading. *)
Becomes(m) == m # machine /\ machine' = m /\ seen' = (IF reader = NoReader THEN {} ELSE seen \cup Sayings(m)) /\ UNCHANGED <<release, note, undone, reader>>

Changes ==
  \/ Happens("disk") /\ \E b \in BOOLEAN : Becomes([machine EXCEPT !.var = b])
  \/ Happens("disk") /\ \E u \in {"verity", "writable", "none"} : Becomes([machine EXCEPT !.usr = u])
  \/ Happens("plex") /\ Becomes([machine EXCEPT !.apps = TRUE])
  \/ Happens("plex") /\ \E b \in BOOLEAN : machine.apps /\ Becomes([machine EXCEPT !.mounted = b, !.answering = @ /\ b])
  \/ Happens("plex") /\ \E b \in BOOLEAN : machine.mounted /\ Becomes([machine EXCEPT !.answering = b])
  \/ Happens("plex") /\ \E b \in BOOLEAN : machine.answering /\ Becomes([machine EXCEPT !.claimed = b])
  \/ Happens("cable") /\ \E up \in SUBSET ToSet(Ports) : Becomes([machine EXCEPT !.up = up])
  \/ Happens("settings") /\ (Becomes([machine EXCEPT !.configured = TRUE]) \/ \E b \in BOOLEAN : Becomes([machine EXCEPT !.library = b]))
  \/ Happens("names") /\ \E b \in BOOLEAN : Becomes([machine EXCEPT !.route = b])
  \/ Happens("names") /\ \E r \in Resolvers : Becomes([machine EXCEPT !.resolver = r])
  \/ Happens("names") /\ \E u \in Upstreams : Becomes([machine EXCEPT !.upstream = u])

-----------------------------------------------------------------------------
(* The screen. *)

ReaderGoes(r) == reader' = r /\ UNCHANGED <<release, note, undone, machine, seen>>
Asks(what, at) ==
  /\ reader = NoReader /\ Happens(what) /\ reader' = [what |-> what, at |-> at] /\ seen' = Sayings(machine)
  /\ UNCHANGED <<release, note, undone, machine>>
Asked == reader.at \in {"verdict", "steps", "remedies"} /\ reader' = NoReader /\ seen' = {} /\ UNCHANGED <<release, note, undone, machine>>

(* Status::gather_with asks the checks, of which /usr goes by the mounts as they were read before /var was written to,
   then the addresses. *)
Gather ==
  \/ /\ reader.what = "screen" /\ reader.at = "mounts"
     /\ ReaderGoes([what |-> "screen", at |-> "var", usr |-> Found(machine, "usr")])
  \/ /\ reader.what = "screen" /\ reader.at = "var"
     /\ ReaderGoes([what |-> "screen", at |-> "plex", var |-> CheckVar(machine), usr |-> reader.usr])
  \/ /\ reader.what = "screen" /\ reader.at = "plex"
     /\ ReaderGoes([what |-> "screen", at |-> "addresses", checks |-> [var |-> reader.var, usr |-> reader.usr, plex |-> PlexCheck(machine)]])

(* net::addresses: those of the interfaces that are up, by their place in the list *)
Addresses(m) == {i \in DOMAIN Ports : Ports[i] \in m.up}

Nameable(addresses) == {i \in addresses : Address[Ports[i]] \in Covered}

(* prefer_covered: a stable partition, of which the first is the one shown *)
PreferCovered(addresses) == Min(IF Nameable(addresses) # {} THEN Nameable(addresses) ELSE addresses)

(* The interface beside the address: the first that has one that begins with it. *)
InterfaceOf(m, address) == SelectInSeq(Ports, LAMBDA p : p \in m.up /\ IsPrefix(address, Address[p] \o <<"/">>))

(* Mutant: a note stays in force for ever *)
StandsForEver(record, running) == TRUE

(* Record::still_current: the same stamps as the floor's, and what cannot be told is taken to be so. *)
StillCurrent(record, running) == record = Nameless \/ Happens("unstamped") \/ running < record

(* last_for *)
Recovered == note # NoRecord /\ StillCurrent(note, release.running)

PlexIs(checks) == CASE checks.plex = "pass" -> "running" [] checks.plex = "fail" -> "stopped" [] OTHER -> "not-installed"

OnlyPlexFailed(failures) == failures = {"plex"}

(* Facts::from_status: one headline, of all that may be so. *)
Verdict(checks, addresses) ==
  CASE Recovered -> "recovered"
    [] ~Recovered /\ addresses = {} -> "no-network"
    [] ~Recovered /\ addresses # {} /\ OnlyPlexFailed(Failures(checks)) -> "plex-down"
    [] ~Recovered /\ addresses # {} /\ ~OnlyPlexFailed(Failures(checks)) /\ Failures(checks) # {} -> "unhealthy"
    [] OTHER -> IF PlexIs(checks) = "not-installed" THEN "needs-setup" ELSE "working"

Mark(verdict) == CASE verdict = "working" -> "good" [] verdict = "needs-setup" -> "testing" [] OTHER -> "warning"

Drawn ==
  LET addresses == Addresses(machine)
      first     == IF addresses = {} THEN 0 ELSE PreferCovered(addresses) IN
  /\ reader.what = "screen" /\ reader.at = "addresses"
  /\ ReaderGoes([what |-> "screen", at |-> "verdict", verdict |-> Verdict(reader.checks, addresses), healthy |-> IsHealthy(reader.checks),
           addresses |-> addresses, first |-> first, interface |-> IF first = 0 THEN 0 ELSE InterfaceOf(machine, Address[Ports[first]]),
           failed |-> note])

-----------------------------------------------------------------------------
(* What is left to set up. *)

(* Facts::observe: answering is asked once, and whether it is claimed only of a Plex that answered. *)
Observe ==
  \/ /\ reader.what = "wizard" /\ reader.at = "answering"
     /\ ReaderGoes([what |-> "wizard", at |-> "settings", answering |-> machine.answering])
  \/ /\ reader.what = "wizard" /\ reader.at = "settings"
     /\ ReaderGoes([what |-> "wizard", at |-> "installed", answering |-> reader.answering, configured |-> machine.configured, library |-> machine.library])
  \/ /\ reader.what = "wizard" /\ reader.at = "installed"
     /\ ReaderGoes([what |-> "wizard", at |-> "claimed", answering |-> reader.answering, configured |-> reader.configured,
              library |-> reader.library, installed |-> machine.mounted])

(* is_claimed of the server itself, which has to be there to say so *)
Claimed == reader.answering /\ machine.answering /\ machine.claimed

Done(facts, step) ==
  CASE step = "network" -> TRUE [] step = "identity" -> facts.configured [] step = "shares" -> facts.library
    [] step = "plex" -> facts.installed [] step = "claim-plex" -> facts.claimed

(* mark: the first that is not done is next, and the others later *)
Marked(facts) ==
  [i \in DOMAIN Steps |->
     IF Done(facts, Steps[i]) THEN "done"
     ELSE IF \E j \in 1..(i - 1) : ~Done(facts, Steps[j]) THEN "later" ELSE "next"]

Complete(steps) == \A i \in DOMAIN Steps : Steps[i] \in Required => steps[i] = "done"

Reported ==
  /\ reader.what = "wizard" /\ reader.at = "claimed"
  /\ LET steps == Marked([configured |-> reader.configured, library |-> reader.library, installed |-> reader.installed, claimed |-> Claimed])
     IN ReaderGoes([what |-> "wizard", at |-> "steps", steps |-> steps, complete |-> Complete(steps)])

-----------------------------------------------------------------------------
(* What is wrong with the network. *)

(* resolver: the file and how it is reached *)
ReadResolver ==
  /\ reader.what = "diagnosis" /\ reader.at = "resolver"
  /\ ReaderGoes([what |-> "diagnosis", at |-> "route", resolver |-> machine.resolver])

(* parse_default_route *)
ReadRoute ==
  /\ reader.what = "diagnosis" /\ reader.at = "route"
  /\ ReaderGoes([what |-> "diagnosis", at |-> "lookup", resolver |-> reader.resolver, route |-> machine.route])

(* lookup, given LOOKUP_TIMEOUT; what there is no way to ask fails at once *)
Lookup ==
  IF ~machine.route \/ machine.resolver # "good" THEN {"failed"} \cup (IF machine.upstream = "silent" THEN {"timed-out"} ELSE {})
  ELSE {CASE machine.upstream = "answers" -> "resolved" [] machine.upstream = "refuses" -> "failed" [] OTHER -> "timed-out"}

(* remedies: by layer, for a lower one makes those above it fail *)
Remedies(route, resolver, lookup) ==
  (IF route THEN <<>> ELSE <<"route">>) \o (IF resolver = "good" THEN <<>> ELSE <<"resolver">>)
  \o (IF lookup = "resolved" THEN <<>> ELSE <<"lookup">>)

Diagnosed ==
  /\ reader.what = "diagnosis" /\ reader.at = "lookup"
  /\ \E lookup \in Lookup :
       ReaderGoes([what |-> "diagnosis", at |-> "remedies", remedies |-> Remedies(reader.route, reader.resolver, lookup)])

StandingNext ==
  \/ \E v \in 1..Newest : Updated(v)
  \/ GateFails \/ GatePasses \/ DiesEarly \/ Changes
  \/ Asks("screen", "mounts") \/ Asks("wizard", "answering") \/ Asks("diagnosis", "resolver")
  \/ Gather \/ Drawn \/ Observe \/ Reported \/ ReadResolver \/ ReadRoute \/ Diagnosed \/ Asked

-----------------------------------------------------------------------------
Was(word) == word \in seen

(* The headline says a release was undone exactly while the machine runs something older than the one the note in
   /var names; and otherwise what it says was so of the machine while it was read: only a machine that was reachable,
   with a /var that takes writes, a verified /usr and a Plex that answers is "working" (dashboard/model.rs, rollback.rs). *)
HeadlineIsTrue ==
  reader.what = "screen" /\ reader.at = "verdict" =>
    /\ ~Happens("unstamped") =>
         ((reader.verdict = "recovered") <=> (\E v \in undone : note = v /\ release.running < v))
    /\ reader.verdict = "no-network" => Was(<<"address", "no">>)
    /\ reader.verdict \notin {"recovered", "no-network"} => Was(<<"address", "yes">>)
    /\ reader.verdict = "plex-down" => Was(<<"plex", "fail">>) /\ Was(<<"var", "pass">>) /\ Was(<<"usr", "pass">>)
    /\ reader.verdict = "unhealthy" => (Was(<<"var", "fail">>) \/ Was(<<"usr", "fail">>))
    /\ reader.verdict = "needs-setup" => Was(<<"plex", "n/a">>) /\ reader.healthy
    /\ Mark(reader.verdict) = "good" => reader.healthy /\ \A c \in Checks : Was(<<c, "pass">>)
    /\ Nameable(reader.addresses) # {} => reader.first \in Nameable(reader.addresses)

(* Setup is finished only on a machine with a Plex that somebody signed in to, and has one thing to do next until
   everything is done, before which nothing is left (setup.rs). *)
SetupIsHonest ==
  reader.what = "wizard" /\ reader.at = "steps" =>
    /\ reader.complete => Was(<<"mounted", "yes">>) /\ Was(<<"claimed", "yes">>) /\ Was(<<"answering", "yes">>)
    /\ ~reader.complete => (Was(<<"mounted", "no">>) \/ Was(<<"claimed", "no">>) \/ Was(<<"answering", "no">>))
    /\ \A i \in DOMAIN Steps :
         (reader.steps[i] = "next") <=> (reader.steps[i] # "done" /\ \A j \in 1..(i - 1) : reader.steps[j] = "done")

(* The first remedy is about a layer that was broken, under which none was broken all along; and there is nothing to
   fix only when there was a route, a resolver and an answer (netdiag.rs). *)
FirstThingFirst ==
  reader.what = "diagnosis" /\ reader.at = "remedies" =>
    /\ reader.remedies = <<>> => Was(<<"route", "yes">>) /\ Was(<<"resolver", "good">>) /\ Was(<<"upstream", "answers">>)
    /\ reader.remedies # <<>> /\ reader.remedies[1] # "route" => Was(<<"route", "yes">>)
    /\ reader.remedies # <<>> /\ reader.remedies[1] = "lookup" => Was(<<"resolver", "good">>)
    /\ reader.remedies # <<>> /\ reader.remedies[1] = "route" => Was(<<"route", "no">>)
=============================================================================
