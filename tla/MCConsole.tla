------------------------------- MODULE MCConsole -------------------------------
(***************************************************************************)
(* The console's smaller parts, each on its own: a behaviour is of one of   *)
(* them, named by a word of its faults, while the rest stay as they began.  *)
(***************************************************************************)
EXTENDS Screen, Keyboard, Terminal, Sampler, Activity, Connections, Standing, Package

CONSTANT Environments

rest == <<attached, keyboard, terminal, sampler, activity, connections, standing, package>>
vars == <<faults, rest>>

Of(part, action, others) == Happens(part) /\ action /\ UNCHANGED <<faults, others>>

OfScreen(action) ==
  Of("attached", action, <<keyboard, terminal, sampler, activity, connections, standing, package>>)
OfKeyboard(action) ==
  Of("keyboard", action, <<attached, terminal, sampler, activity, connections, standing, package>>)
OfTerminal(action) ==
  Of("terminal", action, <<attached, keyboard, sampler, activity, connections, standing, package>>)
OfSampler(action) ==
  Of("sampler", action, <<attached, keyboard, terminal, activity, connections, standing, package>>)
OfActivity(action) ==
  Of("activity", action, <<attached, keyboard, terminal, sampler, connections, standing, package>>)
OfConnections(action) ==
  Of("connections", action, <<attached, keyboard, terminal, sampler, activity, standing, package>>)
OfStanding(action) ==
  Of("standing", action, <<attached, keyboard, terminal, sampler, activity, connections, package>>)
OfPackage(action) ==
  Of("package", action, <<attached, keyboard, terminal, sampler, activity, connections, standing>>)

Init ==
  /\ faults \in Environments
  /\ ScreenInit /\ KeyboardInit /\ TerminalInit /\ SamplerInit /\ ActivityInit /\ ConnectionsInit /\ StandingInit /\ PackageInit

Next ==
  \/ OfScreen(ScreenNext) \/ OfKeyboard(KeyboardNext) \/ OfTerminal(TerminalNext)
  \/ OfSampler(SamplerNext) \/ OfActivity(ActivityNext) \/ OfConnections(ConnectionsNext)
  \/ OfStanding(StandingNext) \/ OfPackage(PackageNext)

(* The screen's loop and a job of the radio's go on; the requests of the terminal are answered, its shell reads what
   it is sent and the page polls; a client sends, or its silence is found out. *)
Fairness ==
  /\ WF_vars(OfScreen(Loop)) /\ WF_vars(OfScreen(JobEnds))
  /\ WF_vars(OfTerminal(Expire)) /\ WF_vars(OfTerminal(InputTaken))
  /\ \A b \in Tabs : WF_vars(OfTerminal(Answered(b))) /\ SF_vars(OfTerminal(NoSuchSession(b)))
  /\ \A c \in Clients : WF_vars(OfConnections(MoreHead(c) \/ MoreBody(c) \/ Handled(c)))

FairSpec == Init /\ [][Next]_vars /\ Fairness

MCNumbers == <<<<1, 9>>, <<1, 10>>, <<1, 9, 1>>>>
MCPorts   == <<"eth0", "wlan0">>
MCAddress == [p \in {"eth0", "wlan0"} |-> IF p = "eth0" THEN <<1, 0>> ELSE <<1>>]
MCCovered == {<<1>>}

With(part, faultsets) == {{part} \cup more : more \in faultsets}
MCEnvironments == UNION {
  With("attached", {{"wireless", "page"}, {"wireless", "unplug"}, {"wireless", "power"}, {"pairs"}, {"first-boot", "pairs", "rotates"}}),
  With("keyboard", {{"split"}, {"hurry"}, {"slow"}}),
  With("terminal", {{"input"}, {"stubborn", "fail"}}),
  With("sampler", {{"rates"}, {"lists"}}),
  With("activity", {{"owners", "unwell"}, {"library", "unwell"}, {"posters"}}),
  With("connections", {{}}),
  With("standing", {{"screen", "releases", "power"}, {"screen", "releases", "disk"}, {"screen", "plex", "disk"}, {"screen", "new", "plex"},
                    {"screen", "plex", "cable"}, {"screen", "releases", "unstamped"}, {"wizard", "new", "plex", "settings"},
                    {"diagnosis", "names"}}),
  With("package", {{"variants", "short"}, {"variants", "short", "no-sum"}, {"newer", "two"}, {"newer", "dies"},
                   {"no-tar"}, {"no-lz4"}, {"no-curl"}, {"no-match"}, {"no-gpgv"}, {"no-keyring"}, {"no-xz"}, {"elsewhere"}})}

(* What one part promises is promised by the sum. *)

TypeOK ==
  /\ ScreenTypeOK /\ KeyboardTypeOK /\ TerminalTypeOK /\ SamplerTypeOK
  /\ ActivityTypeOK /\ ConnectionsTypeOK /\ StandingTypeOK /\ PackageTypeOK

(* Nothing is lost or kept that should not be: the machine is asked to go once, and after the screen says so; a
   passphrase is held while it is typed and no longer; a key is heard as it was struck; no output of a shell is skipped
   untold, no shell left behind; nothing is taken in from a stranger; and the newest package is kept beside a new one. *)
NothingIsLost ==
  /\ [](AskedOnce /\ TypedWhileTyping) /\ [][SeenBeforeItGoes]_vars
  /\ []HeardAsStruck
  /\ [](NothingSkippedUntold /\ NoShellLeft)
  /\ []NothingTakenFromStrangers
  /\ [][NewestIsKept]_vars

(* What the console shows was so while it was asked: rates, what is playing and from which file, the headline, what is
   left to set up, and the first thing to fix. *)
ShownWasTrue ==
  /\ FreshAndWide
  /\ StateWasTrue /\ SourceIsRecent
  /\ HeadlineIsTrue /\ SetupIsHonest /\ FirstThingFirst

(* Plex is installed as Plex signed it, and what fails is blamed on what failed. *)
InstalledAsSigned == InstalledIsSigned /\ BlameIsRight

(* Nobody waits for ever: who asked to join a network, whose terminal was taken, who sends or stopped sending. *)
Waits(w) == Joining \/ (w \in Tabs /\ Unaware(w)) \/ (w \in Clients /\ Served(w))
EveryoneIsAnswered == \A w \in Tabs \cup Clients : Waits(w) ~> ~Waits(w)
=============================================================================
