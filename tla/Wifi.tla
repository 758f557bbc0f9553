--------------------------------- MODULE Wifi ---------------------------------
(***************************************************************************)
(* Joining a wireless network (wifi.rs): one radio, one wpa_supplicant at a *)
(* time, a job that owns the radio, and a machine that must not be left on  *)
(* no network because somebody tried another.                               *)
(*                                                                          *)
(* A network is what wifi.json keeps of one: its name, the kind of          *)
(* credential, and whether that is the one the access point wants.  A       *)
(* hashed key is what an earlier release kept; nothing writes one any more. *)
(***************************************************************************)
EXTENDS Integers, Sequences, FiniteSets, Faults

CONSTANTS
  Networks,    \* what can be asked for, or was kept by an earlier release
  Kept,        \* what wifi.json holds of each
  Takes,       \* the key managements of the access points of each name
  Prints,      \* what `iw scan` may print: the beacons it heard
  Usual,       \* what it prints when nothing about the air is in question
  Supplicants, \* processes
  Threads      \* of plexosd, each one scan or join

Ssids  == DOMAIN Takes
Marks  == {"802.1X", "SAE", "PSK", "RSN", "WPA", "Privacy"}
NoSignal == 1   \* a block that was cut off before it said
Beacon == [ssid : Ssids \cup {"hidden"}, signal : Int, marks : SUBSET Marks]

Nowhere == "nowhere"
Corpse  == "corpse"

ASSUME NetworksAssumption ==
  /\ Nowhere \notin Networks /\ Nowhere \notin Supplicants /\ Corpse \notin Supplicants
  /\ Kept \in [Networks -> [ssid : Ssids, credential : {"none", "key", "passphrase"}, right : BOOLEAN]]
  /\ Takes \in [Ssids -> SUBSET {"NONE", "WPA-PSK", "SAE", "other"}]
ASSUME PrintsAssumption ==
  Usual \in Prints /\ \A out \in Prints : out.beacons \in Seq(Beacon) /\ out.complains \in BOOLEAN

VARIABLES
  power,       \* plexosd runs, or not
  saved,       \* wifi.json
  proc,        \* the supplicants
  socket,      \* whose the control socket is
  radio,       \* the job: its phase, and what it said of where the machine ended up
  thread,      \* what each thread is doing
  joined       \* history: the networks that a join got on to

wifi == <<power, saved, proc, socket, radio, thread, joined>>

Securities == {"open", "wep", "psk", "sae", "enterprise"}
Listing    == [ssid : Ssids, signal : Int, security : Securities]
(* Landed: where the machine is after a join that did not work. *)
Landed == {"nothing-before", "back", "adrift"}

Running == {"scanning", "associating", "addressing"}
Gone    == [state |-> "none", network |-> Nowhere]
Resting == [at |-> "idle", going |-> "join", wanted |-> Nowhere, prior |-> Nowhere, child |-> Nowhere, security |-> Nowhere]
Unasked == [phase |-> "idle", landed |-> Nowhere, on |-> Nowhere, networks |-> {}]
OnAir(s) == proc[s].state \in {"trying", "associated"}

Processes == [state : {"none", "starting", "trying", "associated", "stopping", "exited"}, network : Networks \cup {Nowhere}]
Jobs  == [phase : Running \cup {"idle", "connected", "failed"}, landed : {Nowhere, "untouched", "unsaved"} \cup Landed,
          on : Networks \cup {Nowhere}, networks : SUBSET Listing]
Tasks == [at : {"idle", "scan", "vet", "release", "releasing", "start", "associate", "lease", "save"},
          going : {"join", "back", "rejoin"}, wanted : Networks \cup {Nowhere}, prior : Networks \cup {Nowhere},
          child : Supplicants \cup {Nowhere}, security : Securities \cup {Nowhere}]

WifiTypeOK ==
  /\ power \in {"down", "up"}
  /\ saved \in Networks \cup {Nowhere}
  /\ proc \in [Supplicants -> Processes]
  /\ socket \in Supplicants \cup {Nowhere, Corpse}
  /\ radio \in Jobs
  /\ thread \in [Threads -> Tasks]
  /\ joined \subseteq Networks

WifiInit ==
  /\ power = "down"
  /\ saved \in IF Happens("upgraded") THEN {n \in Networks : Kept[n].credential = "key"} ELSE {Nowhere}
  /\ joined = {saved} \ {Nowhere}
  /\ proc = [s \in Supplicants |-> Gone] /\ socket = Nowhere
  /\ radio = Unasked /\ thread = [t \in Threads |-> Resting]

Thinks(t, at) == power = "up" /\ thread[t].at = at
Goes(t, to) == thread' = [thread EXCEPT ![t] = to]

(* The network the radio is on. *)
On == IF \E s \in Supplicants : proc[s].state = "associated"
      THEN proc[CHOOSE s \in Supplicants : proc[s].state = "associated"].network ELSE Nowhere

-----------------------------------------------------------------------------
(* What a scan prints, and what is made of it. *)

(* security_of.  SAE beside PSK is a network in transition, and goes by the older of the two. *)
SecurityOf(marks) ==
  IF "802.1X" \in marks THEN "enterprise"
  ELSE IF "SAE" \in marks /\ "PSK" \notin marks THEN "sae"
  ELSE IF marks \cap {"RSN", "WPA"} # {} THEN "psk"
  ELSE IF "Privacy" \in marks THEN "wep" ELSE "open"

(* Security::refusal: broken, or wanting more than a passphrase. *)
Refusals == {"wep", "enterprise"}

(* parse_scan: a block with no signal was cut off, and is dropped. *)
Heard(beacons) == {i \in DOMAIN beacons : beacons[i].signal # NoSignal}
Network(b)     == [ssid |-> b.ssid, signal |-> b.signal, security |-> SecurityOf(b.marks)]

(* best_per_ssid: of the radios with one name the strongest, and of two as strong the first. *)
Outdoes(beacons, i, j) ==
  \/ beacons[i].signal > beacons[j].signal
  \/ beacons[i].signal = beacons[j].signal /\ i <= j
BestPerSsid(beacons) ==
  {Network(beacons[i]) : i \in {i \in Heard(beacons) : beacons[i].ssid # "hidden" /\
     \A j \in Heard(beacons) : beacons[j].ssid = beacons[i].ssid => Outdoes(beacons, i, j)}}

(* supplicant_conf: a passphrase goes both ways, a hashed key only the older one. *)
KeyMgmt(credential) ==
  CASE credential = "passphrase" -> {"SAE", "WPA-PSK"}
    [] credential = "key"        -> {"WPA-PSK"}
    [] credential = "none"       -> {"NONE"}
Joinable == {n \in Networks : Kept[n].right /\ KeyMgmt(Kept[n].credential) \cap Takes[Kept[n].ssid] # {}}

-----------------------------------------------------------------------------
(* The job. *)

(* Job::begin: refused while a run is under way. *)
Begin(phase) ==
  /\ radio.phase \notin Running
  /\ radio' = [Unasked EXCEPT !.phase = phase, !.networks = radio.networks]

Step(phase) == radio' = [radio EXCEPT !.phase = phase]
Fail(landed, on) == radio' = [radio EXCEPT !.phase = "failed", !.landed = landed, !.on = on]
Connected(n) == radio' = [radio EXCEPT !.phase = "connected", !.landed = Nowhere, !.on = n]

(* after_a_failed_join *)
FailedJoin(landed, on) == landed \in Landed /\ Fail(landed, on)

Scan(t) ==
  /\ Thinks(t, "idle") /\ Begin("scanning")
  /\ Goes(t, [Resting EXCEPT !.at = "scan"])
  /\ UNCHANGED <<power, saved, proc, socket, joined, faults>>

(* scan: twice, a second apart, and what came of the last counts.  A list that is empty is an answer, unless iw complains. *)
Scanned(out) ==
  IF Heard(out.beacons) = {} /\ out.complains
  THEN Fail("untouched", Nowhere)
  ELSE radio' = [radio EXCEPT !.phase = "idle", !.networks = BestPerSsid(out.beacons)]

ScanEnds(t) ==
  /\ Thinks(t, "scan")
  /\ \/ \E out \in IF Happens("air") THEN Prints ELSE {Usual} :
          Scanned(out)
     \/ Happens("fail") /\ Fail("untouched", Nowhere)
  /\ Goes(t, Resting)
  /\ UNCHANGED <<power, saved, proc, socket, joined, faults>>

(* From the list, with the security that was heard; or typed, and then nobody says what it is. *)
SaidOf(ssid) == {Nowhere} \cup {e.security : e \in {e \in radio.networks : e.ssid = ssid}}

Join(t) == \E n \in Networks : \E security \in SaidOf(Kept[n].ssid) :
  /\ Kept[n].credential # "key"
  /\ Thinks(t, "idle") /\ Begin("associating")
  /\ Goes(t, [Resting EXCEPT !.at = "vet", !.wanted = n, !.security = security])
  /\ UNCHANGED <<power, saved, proc, socket, joined, faults>>

(* spawn_join: no radio, or a security that is refused, ends it; else the network it was on is read. *)
Vet(t) ==
  /\ Thinks(t, "vet")
  /\ \/ /\ thread[t].security \in Refusals \/ Happens("fail")
        /\ Fail("untouched", Nowhere) /\ Goes(t, Resting)
     \/ /\ thread[t].security \notin Refusals
        /\ Goes(t, [thread[t] EXCEPT !.at = "release", !.prior = saved, !.security = Nowhere])
        /\ UNCHANGED radio
  /\ UNCHANGED <<power, saved, proc, socket, joined, faults>>

(* spawn_rejoin, when plexosd starts, which may be before a supplicant of the one that died has taken its socket. *)
Rejoin(t) ==
  /\ power = "down" /\ power' = "up"
  /\ IF saved = Nowhere THEN UNCHANGED <<radio, thread>>
     ELSE /\ Begin("associating")
          /\ Goes(t, [Resting EXCEPT !.at = "release", !.going = "rejoin", !.wanted = saved])
  /\ UNCHANGED <<saved, proc, socket, joined, faults>>

Forget ==
  /\ power = "up" /\ saved # Nowhere /\ saved' = Nowhere
  /\ UNCHANGED <<power, proc, socket, radio, thread, joined, faults>>

-----------------------------------------------------------------------------
(* connect, from release_supplicant to the lease. *)

(* What follows an error of connect: a join goes back to where the machine was, once. *)
Erred(t) ==
  LET q == thread[t] IN
  CASE q.going = "join" /\ q.prior # Nowhere ->
         /\ Goes(t, [q EXCEPT !.at = "release", !.going = "back", !.wanted = q.prior, !.child = Nowhere])
         /\ Step("addressing")
    [] q.going = "join" /\ q.prior = Nowhere -> FailedJoin("nothing-before", Nowhere) /\ Goes(t, Resting)
    [] q.going = "back"                      -> FailedJoin("adrift", Nowhere) /\ Goes(t, Resting)
    [] q.going = "rejoin"                    -> Fail(Nowhere, Nowhere) /\ Goes(t, Resting)

(* wpa_cli terminate, to whoever has the socket. *)
Terminated(s) == [proc EXCEPT ![s].state = IF s \in Supplicants /\ ~Happens("stubborn") THEN "stopping" ELSE @]

ReleaseSupplicant(t) ==
  /\ Thinks(t, "release")
  /\ IF socket = Nowhere
     THEN Goes(t, [thread[t] EXCEPT !.at = "start"]) /\ UNCHANGED proc
     ELSE /\ proc' = [s \in Supplicants |-> IF s = socket THEN Terminated(s)[s] ELSE proc[s]]
          /\ Goes(t, [thread[t] EXCEPT !.at = "releasing"])
  /\ UNCHANGED <<power, saved, socket, radio, joined, faults>>

(* Mutant: a socket that is still there is taken for a file left behind. *)
AnswersNot == FALSE

(* The socket is gone; or it is still there after five seconds, which one that is stopping does not need,
   and then a ping tells a program from a file left behind. *)
Answers == socket \in Supplicants

Released(t) ==
  /\ Thinks(t, "releasing")
  /\ socket \in Supplicants => proc[socket].state # "stopping"
  /\ \/ /\ socket # Nowhere /\ Answers
        /\ Erred(t) /\ UNCHANGED socket
     \/ /\ socket = Nowhere \/ ~Answers
        /\ socket' = Nowhere
        /\ Goes(t, [thread[t] EXCEPT !.at = "start"]) /\ UNCHANGED radio
  /\ UNCHANGED <<power, saved, proc, joined, faults>>

Start(t) == \E s \in Supplicants :
  /\ Thinks(t, "start") /\ proc[s].state = "none"
  /\ proc' = [proc EXCEPT ![s] = [state |-> "starting", network |-> thread[t].wanted]]
  /\ Goes(t, [thread[t] EXCEPT !.at = "associate", !.child = s])
  /\ Step("addressing")
  /\ UNCHANGED <<power, saved, socket, joined, faults>>

(* A program that is missing, a file that cannot be written: before the radio is let go, or after. *)
ConnectFails(t) ==
  /\ Thinks(t, "release") \/ Thinks(t, "start")
  /\ Happens("fail")
  /\ Erred(t)
  /\ UNCHANGED <<power, saved, proc, socket, joined, faults>>

(* Every second: has it exited, and if not, what does the socket's owner say.  A second is longer than any supplicant
   needs to take the socket, or to find it taken. *)
Settled == \A s \in Supplicants : proc[s].state # "starting"

Exited(t) ==
  /\ Thinks(t, "associate") /\ proc[thread[t].child].state = "exited"
  /\ proc' = [proc EXCEPT ![thread[t].child] = Gone]
  /\ Erred(t)
  /\ UNCHANGED <<power, saved, socket, joined, faults>>

Associated(t) ==
  /\ Thinks(t, "associate") /\ Settled /\ proc[thread[t].child].state # "exited"
  /\ socket \in Supplicants /\ proc[socket].state = "associated"
  /\ joined' = joined \cup {proc[socket].network}
  /\ Goes(t, [thread[t] EXCEPT !.at = "lease"])
  /\ Step("addressing")
  /\ UNCHANGED <<power, saved, proc, socket, faults>>

(* Twenty-five seconds: terminated, and killed if it does not go, which leaves its socket behind. *)
AssociationTimesOut(t) ==
  LET s == thread[t].child IN
  /\ Thinks(t, "associate") /\ proc[s].state = "trying" /\ proc[s].network \notin Joinable
  /\ proc' = [proc EXCEPT ![s] = Gone]
  /\ socket' = IF socket # s THEN socket ELSE IF Happens("stubborn") THEN Corpse ELSE Nowhere
  /\ Erred(t)
  /\ UNCHANGED <<power, saved, joined, faults>>

(* net::dhcp starts a client and waits for nothing. *)
Lease(t) ==
  LET q == thread[t] IN
  /\ Thinks(t, "lease")
  /\ \/ Happens("fail") /\ Erred(t)
     \/ CASE q.going = "join"   -> Goes(t, [q EXCEPT !.at = "save"]) /\ Step("addressing")
          [] q.going = "back"   -> FailedJoin("back", q.wanted) /\ Goes(t, Resting)
          [] q.going = "rejoin" -> Connected(q.wanted) /\ Goes(t, Resting)
  /\ UNCHANGED <<power, saved, proc, socket, joined, faults>>

(* save writes in place, and narrows who may read it: cut off, or failing at either, it leaves what was there, all of it,
   or a file that says nothing. *)
Stored(n) == saved' = n
CutOff == {saved} \cup UNION {{Nowhere, thread[t].wanted} : t \in {t \in Threads : thread[t].at = "save"}}

Save(t) ==
  /\ Thinks(t, "save")
  /\ \/ /\ Stored(thread[t].wanted)
        /\ Connected(thread[t].wanted)
     \/ /\ Happens("fail") /\ saved' \in CutOff
        /\ Fail("unsaved", thread[t].wanted)
  /\ Goes(t, Resting)
  /\ UNCHANGED <<power, proc, socket, joined, faults>>
-----------------------------------------------------------------------------
(* wpa_supplicant. *)

(* Its exit status is kept for a thread that waits. *)
Ended(s) == [proc EXCEPT ![s] = IF \E t \in Threads : thread[t].at = "associate" /\ thread[t].child = s THEN [@ EXCEPT !.state = "exited"] ELSE Gone]

(* It takes the socket, or finds it taken and exits. *)
Binds(s) ==
  /\ proc[s].state = "starting"
  /\ IF socket = Nowhere
     THEN socket' = s /\ proc' = [proc EXCEPT ![s].state = "trying"]
     ELSE UNCHANGED socket /\ proc' = Ended(s)
  /\ UNCHANGED <<power, saved, radio, thread, joined, faults>>

Associates(s) ==
  /\ proc[s].state = "trying" /\ proc[s].network \in Joinable
  /\ proc' = [proc EXCEPT ![s].state = "associated"]
  /\ UNCHANGED <<power, saved, socket, radio, thread, joined, faults>>

(* Asked to stop, it stops and takes its socket with it. *)
Stops(s) ==
  /\ proc[s].state = "stopping"
  /\ proc' = [proc EXCEPT ![s] = Gone]
  /\ socket' = IF socket = s THEN Nowhere ELSE socket
  /\ UNCHANGED <<power, saved, radio, thread, joined, faults>>

(* Killed from outside: nobody removes its socket. *)
Dies(s) ==
  /\ Happens("die") /\ OnAir(s)
  /\ proc' = Ended(s)
  /\ socket' = IF socket = s THEN Corpse ELSE socket
  /\ UNCHANGED <<power, saved, radio, thread, joined, faults>>

(* plexosd dies and its supplicant does not; or the machine restarts. *)
DaemonCrashes ==
  /\ Happens("crash") /\ power = "up" /\ power' = "down"
  /\ radio' = Unasked /\ thread' = [t \in Threads |-> Resting]
  /\ proc' = [s \in Supplicants |-> IF proc[s].state = "exited" THEN Gone ELSE proc[s]]
  /\ saved' \in CutOff
  /\ UNCHANGED <<socket, joined, faults>>
MachineRestarts ==
  /\ Happens("restart") /\ power = "up" /\ power' = "down"
  /\ radio' = Unasked /\ thread' = [t \in Threads |-> Resting]
  /\ proc' = [s \in Supplicants |-> Gone] /\ socket' = Nowhere
  /\ saved' \in CutOff
  /\ UNCHANGED <<joined, faults>>

Thread(t) == Vet(t) \/ ScanEnds(t) \/ ReleaseSupplicant(t) \/ Released(t) \/ Start(t) \/ ConnectFails(t)
             \/ Exited(t) \/ Associated(t) \/ AssociationTimesOut(t) \/ Lease(t) \/ Save(t)
Supplicant(s) == Binds(s) \/ Associates(s) \/ Stops(s)
WifiNext ==
  \/ \E t \in Threads : Scan(t) \/ Join(t) \/ Rejoin(t) \/ Thread(t)
  \/ \E s \in Supplicants : Supplicant(s) \/ Dies(s)
  \/ Forget \/ DaemonCrashes \/ MachineRestarts

-----------------------------------------------------------------------------
(* A network is remembered only after a join got on to it, so a machine never starts on the strength of a
   passphrase nobody has shown to work (wifi.rs, spawn_join). *)
RememberedWorked == saved \in joined \cup {Nowhere}

(* One run at a time has the radio: scans, joins and the rejoin at start (Job::begin). *)
OneAtTheRadio == \A t, u \in Threads : thread[t].at # "idle" /\ thread[u].at # "idle" => t = u

(* A supplicant on the air is one wpa_cli reaches: the socket is never taken from under it, and there are
   never two (release_supplicant). *)
NoSupplicantOutOfReach == \A s \in Supplicants : OnAir(s) => socket = s

(* Where a run says the machine is, it is: on the network that was joined, or back on the one it was on; a
   supplicant for it is at work, unless it was killed since (Landed). *)
LandedWhereItSays ==
  ~Happens("die") /\ (radio.phase = "connected" \/ radio.landed \in {"back", "unsaved"}) =>
    \E s \in Supplicants : proc[s].state = "associated" /\ proc[s].network = radio.on

(* GET /api/wifi: what the owner of the socket says, and beside it what the radio measures. *)
Status == IF socket \in Supplicants THEN proc[socket] ELSE Gone
Report ==
  [configured |-> saved, connected |-> Status.state = "associated",
   ssid |-> IF Status.state = "associated" THEN Status.network ELSE Nowhere, link |-> On]

(* The two never contradict each other where nothing changes between the one reading and the next, which report makes
   one after the other: the page does not say "not connected" of a radio that is (report). *)
ReportAgrees == Report.connected = (Report.link # Nowhere) /\ Report.ssid = Report.link

(* The list shows no name twice, whatever bands and access points it comes from, and a run that begins or fails does
   not take it away: what it offers is what some scan heard of that name (best_per_ssid, Progress::networks). *)
ListedOnce ==
  /\ \A d, e \in radio.networks : d.ssid = e.ssid => d = e
  /\ \A e \in radio.networks : \E out \in Prints : \E i \in Heard(out.beacons) :
       /\ Network(out.beacons[i]) = e
       /\ \A j \in Heard(out.beacons) : out.beacons[j].ssid = e.ssid => out.beacons[j].signal <= e.signal

(* A run has begun, and the access point or the supplicant has not answered it. *)
OnARun == radio.phase \in Running
=============================================================================
