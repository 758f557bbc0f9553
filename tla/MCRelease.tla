-------------------------------- MODULE MCRelease --------------------------------
(***************************************************************************)
(* A release, from the service that publishes it to a Plex that plays, part *)
(* by part: how it is found and believed, PID 1 in the initrd, PID 1 over   *)
(* its services, and a start of Plex on a machine with its graphics cards.  *)
(* They share no state, so a behaviour is of one of them, named by a word   *)
(* of its faults, while the rest stay as they began.                        *)
(*                                                                          *)
(* A publisher with one root and two signing keys, the second stolen and    *)
(* revoked, and by a later list no more; releases 0 to 2, of which 1 runs.  *)
(* The disk the firmware booted, one with the same release on it, and one   *)
(* with another.  Two services and three process identifiers.               *)
(***************************************************************************)
EXTENDS Discovery, Supervisor, EarlyBoot, Launch, TLC

CONSTANTS Environments, console, shell, home, twin, stranger

everything == <<faults, configuration, discovery, vars, boot, graphics, launch>>

Of(part, step, others) == Happens(part) /\ step /\ UNCHANGED <<faults, others>>

OfUpdates(step)  == Of("updates", step, <<vars, boot, graphics, launch>>)
OfServices(step) == Of("services", step, <<configuration, discovery, boot, graphics, launch>>)
OfBoot(step)     == Of("initrd", step, <<configuration, discovery, vars, graphics, launch>>)
OfPlex(step)     == Of("plex", step, <<configuration, discovery, vars, boot>>)

SumInit ==
  /\ faults \in Environments
  /\ ConfigurationInit /\ DiscoveryInit /\ Init /\ BootInit /\ GraphicsInit /\ LaunchInit

SumNext == OfUpdates(DiscoveryNext) \/ OfServices(Next) \/ OfBoot(BootNext) \/ OfPlex(LaunchStep)

(* PID 1 is scheduled, before switch_root and after; days pass, and the threads of a check and of a save go on, every
   fetch ending after DOCUMENT_TIMEOUT_SECS at the latest.  A behaviour is of one part, so that the first of these is
   the fairness of each part by itself. *)
Fairness ==
  /\ WF_everything(OfServices(Tick) \/ OfBoot(BootStep) \/ OfUpdates(DayPasses \/ Round))
  /\ \A w \in Workers : WF_everything(OfUpdates(Work(w)))
  /\ WF_everything(OfUpdates(Serving /\ UNCHANGED discovery))

SumSpec == SumInit /\ [][SumNext]_everything /\ Fairness

Root == "root"
Certified(key) == [readable |-> TRUE, key |-> key, root |-> Root, by |-> Root, until |-> 1]
Sources(url) == [sources |-> <<[kind |-> "chunked", url |-> "address"], [kind |-> "full", url |-> url]>>]
Release(n, channel, key) ==
  [release |-> n, sequence |-> n, needs |-> 0, version |-> 1, consistent |-> TRUE, key |-> key, certificate |-> Certified(key),
   channel |-> channel, product |-> "medialith", format |-> "erofs", fits |-> TRUE,
   usr |-> Sources("plain name"), verity |-> Sources("address"),
   uki |-> [slot \in {"a", "b"} |-> [sources |-> Sources("plain name").sources, says |-> {slot}, carriesHash |-> TRUE]]]
With(m, key)  == [manifest |-> m, signature |-> [readable |-> TRUE, by |-> key, over |-> m]]
Genuine(m)      == With(m, m.key)

New    == Release(2, "stable", "k1")
Beta   == Release(2, "beta", "k1")
Escapes == [New EXCEPT !.verity = Sources("with a path")]
Chunked == [New EXCEPT !.usr.sources = SubSeq(@, 1, 1)]
Copied  == [New EXCEPT !.uki["b"] = New.uki["a"]]
Old    == Release(0, "stable", "k1")
Ours   == Release(1, "stable", "k1")
Stolen == Release(2, "stable", "k2")
Forged == [New EXCEPT !.certificate.by = "k2", !.certificate.key = "k2", !.key = "k2"]
Claims == [Stolen EXCEPT !.key = "k1"]
List(n, keys) == [readable |-> TRUE, counter |-> n, keys |-> keys, root |-> Root, by |-> Root]

Serves(kind, stable, beta, list) ==
  [kind |-> kind, up |-> TRUE, list |-> list,
   feed |-> [stable |-> "s", beta |-> "b"], at |-> [s |-> stable, b |-> beta]]
Silent == [Serves("down", Genuine(New), Genuine(Beta), NoList) EXCEPT !.up = FALSE]
Unpublished == [Serves("down", Genuine(New), Genuine(Beta), NoList) EXCEPT !.feed = [stable |-> "missing", beta |-> "escapes"]]

MCOffers == {
  Serves("honest", Genuine(Ours), Genuine(Beta), NoList),
  Serves("honest", With([New EXCEPT !.format = "later"], "k1"), [Genuine(New) EXCEPT !.signature.over = Ours], List(1, {})),
  Serves("honest", Genuine(New), Genuine(Beta), List(1, {})),
  Serves("revoking", Genuine(New), Genuine(Beta), List(2, {"k2"})),
  Serves("revoking", Genuine(Stolen), Genuine(Beta), List(3, {})),
  Serves("hostile", Genuine(Stolen), Genuine(Old), List(1, {})),
  Serves("hostile", With(Claims, "k2"), With(Forged, "k2"), [List(4, {}) EXCEPT !.by = "k2"]),
  Serves("hostile", With(New, "k2"), Genuine([Beta EXCEPT !.version = 2]), List(2, {"k2"})),
  Serves("misdirected", Genuine(Beta), Genuine(New), List(2, {"k2"})),
  Serves("misbuilt", Genuine(Escapes), Genuine(Beta), NoList), Serves("misbuilt", Genuine(Chunked), Genuine(Beta), NoList),
  Serves("misbuilt", Genuine(Copied), Genuine(Beta), NoList),
  Serves("plain", Genuine(New), Genuine(Beta), NoList),
  Silent, Unpublished}

MCWishes == {[hostname |-> "cinema", check |-> "off"], "channel" :> "beta", "channel" :> "nightly",
             [url |-> "http://service", check |-> "on"]}
MCConfigs == {Default, [Default EXCEPT !.url = "http://service"]}

MCServices == {console, shell}
MCPids     == 1..3
MCBackoff  == <<0, 2>>
MCDisks    == {home, twin, stranger}
MCSigned   == {home, twin}
MCLayouts  == 1..2

(* As the image tooling writes it; after another, whose tokens then count for nothing; and lines nothing can be booted from:
   for no slot, for one there is not, without a root hash, and with one that is too short. *)
CommandLine(slot, length) == <<[key |-> "plexos.slot", value |-> slot],
                               [key |-> "plexos.roothash", value |-> [length |-> length, lowercaseHex |-> TRUE]]>>
Booted == CommandLine("a", 64)
MCCommandLines ==
  {Booted, CommandLine("b", 63) \o <<[key |-> "plexos.debug_shell", value |-> "0"]>> \o Booted,
   Tail(Booted), CommandLine("c", 64), <<Head(Booted)>>, Booted \o CommandLine("b", 63)}
MCProcessors == {{}, {"SSE3", "CMPXCHG16B"}}

(* A kernel that can bound and confine everything, and some that lack a controller or a right. *)
MCKernels == {[controllers |-> Controllers, abi |-> 5]} \cup {[controllers |-> {"pids"}, abi |-> a] : a \in {0, 2, 4}}
MCStacks  ==
  [tool : BOOLEAN, driver : {TRUE}, decodes : {{"H.264", "HEVC", "HEVC10"}, {}}, encodes : {{"H.264"}, {}},
   guc : {<<{}>>}, huc : {<<{}, {"loaded"}>>, <<{"unsupported", "not loaded"}>>, <<{"loaded", "not loaded"}>>}]

(* Outside the first, the service and the configuration are plain and stay so. *)
MCEnvironments == {{"updates"} \cup more : more \in {
  {"honest", "button", "install", "down"},
  {"honest", "install", "clock"}, {"plain", "install", "clock", "time"},
  {"revoking", "hostile", "install", "dies"}, {"plain", "revoking", "install", "full"},
  {"honest", "misdirected", "button", "down", "clock"},
  {"misdirected", "plain", "install", "together"}, {"misbuilt", "install"},
  {"plain", "settings", "full"}, {"plain", "settings", "dies"}}}
  \cup {{"services", "plain"}, {"initrd", "plain"}} \cup {{"plex", "plain"} \cup more : more \in
  {{"account", "power"}, {"account", "power", "disk"}, {"cards", "stacks"}, {"cards", "power"}, {"cards", "stacks", "late"},
   {"cards", "modules"}, {"cards", "nodes"}, {"cards", "stacks", "chmod"}, {"cards", "no-caps"},
   {"kernels", "power", "cgroup", "landlock", "no-op"}, {"cards", "asleep"}}}
MCInitrd == {{"initrd", "plain"}}

(* What one part promises is promised by the sum. *)

Types == ConfigurationTypeOK /\ DiscoveryTypeOK /\ TypeOK /\ BootTypeOK /\ GraphicsTypeOK /\ LaunchTypeOK

(* What is kept can be read and was vouched for: the configuration whoever dies and whoever saves, the release that is
   written, the answer that is shown, and the list of revocations, whose counter only rises; and a setting that a request
   did not name is left as it was. *)
KeptIsVouchedFor ==
  /\ [](FileIsWhole /\ WrittenWasVouchedFor /\ AnswerRestsOnAManifest)
  /\ [][CounterRises /\ NothingElseChanges]_everything

(* No step leads to a Plex that runs and is not confined, and the one that starts it starts it whole. *)
StartsConfined == [][ConfinedPlex']_everything /\ StartsWhole

(* The two halves of the clock agree.  Every day of 132 years comes after the one before it, in both calendars; and whatever
   a clock shows, and whatever the version says, what PID 1 makes of it is a time that update.rs can judge an expiry by:
   were it not, a machine with a flat battery would go on believing a key for ever. *)
Leap(y) == y % 4 = 0 /\ (y % 100 # 0 \/ y % 400 = 0)
DaysIn(y, m) == IF m = 2 THEN (IF Leap(y) THEN 29 ELSE 28) ELSE IF m \in {4, 6, 9, 11} THEN 30 ELSE 31
NextDay(d) == CASE d[3] < DaysIn(d[1], d[2]) -> <<d[1], d[2], d[3] + 1>>
                [] d[3] >= DaysIn(d[1], d[2]) /\ d[2] < 12 -> <<d[1], d[2] + 1, 1>>
                [] OTHER -> <<d[1] + 1, 1, 1>>
CalendarsAgree ==
  /\ CivilDay(0) = <<1970, 1, 1>>
  /\ \A n \in 0..48211 : LET d == CivilDay(n) IN CivilDay(n + 1) = NextDay(d) /\ DaysFromCivil(d[1], d[2], d[3]) = n
Versions == {<<NoStamp, NoStamp, NoStamp, s>> : s \in {
  <<2026, 8, 9, 20, 53>>, <<2026, 2, 31, 23, 59>>, <<2028, 2, 29, 0, 0>>, <<2026, 13, 1, 0, 0>>, <<1999, 12, 31, 23, 59>>, NoStamp}}
Clocks == {0, 26298719, 29771333, 29771334, 40000000}
ClockIsKept ==
  /\ CalendarsAgree
  /\ \A v \in Versions, now \in Clocks :
       BuildStamp(v) # NoStamp => ExpiryIsCheckable(Rfc3339(RaisedClock(now, v)), BuildStamp(v))

(* Nobody waits for ever: a service of PID 1 that is down, however often it failed before; a machine that boots, or it
   stops for the bootloader to count; and a machine that is asked to look for releases, and whose service keeps one good
   one, comes to say that there is one, whatever it met before: no check hangs and no failed one is the last. *)
Unheard == NewsIsDue /\ availability.status # "available"
Waits(s) ==
  \/ Happens("services") /\ ~Running(s)
  \/ Happens("initrd") /\ Booting
  \/ Happens("updates") /\ Unheard
ComesUp == ClockIsKept /\ \A s \in Services : Waits(s) ~> ~Waits(s)
=============================================================================
