-------------------------------- MODULE Screen --------------------------------
(***************************************************************************)
(* The screen attached to the machine (dashboard/mod.rs): one loop that     *)
(* takes the keys struck, looks at what changed, paints, and only then does *)
(* what was asked of the power and of the radio.  Around it browsers use    *)
(* the pairing code it offers, and the console page uses the same radio.    *)
(***************************************************************************)
EXTENDS Naturals, Faults

CONSTANTS
  Ssids,   \* networks a scan may find
  Barred,  \* those whose security is refused
  Unsecured,    \* those that want no passphrase
  Longest  \* bound: characters of a passphrase

ASSUME SsidsAssumption == Barred \subseteq Ssids /\ Unsecured \subseteq Ssids /\ Longest \in Nat \ {0}

VARIABLES
  tick,     \* where the loop is
  display,   \* State.screen: what it shows, and of what network or action
  painted,  \* the last frame written
  awake,    \* a key was struck within the last minute
  notice,   \* State.notice_until: a time is set at which the dashboard comes back
  code,     \* State.first_boot_code: the recovery code is held
  invited,  \* State.first_boot_offered
  rows,     \* the networks listed
  typed,    \* State.typed: how many characters
  going,    \* State.going
  wish,     \* State.radio
  sight,    \* Facts: an address, a wireless card
  offering,    \* pairing.rs: the code on offer
  radio,    \* wifi.rs: the job, what it is for, and what a scan last found
  asked     \* history: how often the power sequence was started

attached == <<tick, display, painted, awake, notice, code, invited, rows, typed, going, wish, sight, offering, radio, asked>>

Nothing == "nothing"
Actions == {"restart", "off"}
Shows   == {"dashboard", "first-boot", "pairing", "expired", "paired", "details", "help",
            "power", "confirm", "going", "list", "key", "joining", "joined"}
AtWork  == {"scanning", "joining"}
Show(what, about) == display' = [shows |-> what, about |-> about]
Dashboard == [shows |-> "dashboard", about |-> Nothing]
Wireless  == {"list", "key", "joining", "joined"}
Patient   == ~Happens("hurry") /\ ~Happens("page")

ScreenTypeOK ==
  /\ tick \in {"keys", "paint", "act"}
  /\ display \in [shows : Shows, about : Ssids \cup Actions \cup {Nothing}] /\ painted \in Shows \cup {Nothing}
  /\ {awake, notice, code, invited} \subseteq BOOLEAN /\ rows \subseteq Ssids /\ typed \in 0..Longest
  /\ going \in Actions \cup {Nothing} /\ wish \in Ssids \cup {"scan", Nothing}
  /\ sight \in [address : BOOLEAN, wireless : BOOLEAN]
  /\ offering \in {"none", "standing", "expired", "used"}
  /\ radio \in [phase : AtWork \cup {"idle", "connected", "failed"}, about : Ssids \cup {Nothing}, found : SUBSET Ssids]
  /\ asked \in 0..2

ScreenInit ==
  /\ tick = "keys" /\ painted = Nothing /\ awake = TRUE /\ notice = FALSE /\ invited = FALSE
  /\ code = Happens("first-boot")
  /\ display = IF code THEN [shows |-> "first-boot", about |-> Nothing] ELSE Dashboard
  /\ rows = {} /\ typed = 0 /\ going = Nothing /\ wish = Nothing /\ offering = "none" /\ asked = 0
  /\ sight = [address |-> ~Happens("first-boot"), wireless |-> TRUE]
  /\ radio = [phase |-> "idle", about |-> Nothing, found |-> {}]

-----------------------------------------------------------------------------
(* Keys.  What a key means is the screen's to say. *)

Struck == tick = "keys" /\ awake' = TRUE /\ painted' = Nothing /\ UNCHANGED <<tick, rows, sight, radio, asked>>
On(what) == Struck /\ ~code /\ display.shows = what /\ UNCHANGED <<code, invited>>
Elsewhere == Struck /\ ~code /\ display.shows \in {"dashboard", "pairing", "expired", "paired", "details", "help"}
             /\ UNCHANGED <<code, invited, typed, going>>

(* Any key: the recovery code leaves the memory, and its offer with it. *)
AnyKey ==
  /\ Struck /\ code
  /\ code' = FALSE /\ offering' = "none" /\ display' = Dashboard
  /\ UNCHANGED <<notice, invited, typed, going, wish>>

KeyP ==
  /\ Elsewhere /\ sight.address /\ Happens("pairs")
  /\ offering' = "standing" /\ Show("pairing", Nothing) /\ notice' = FALSE
  /\ UNCHANGED wish

PressO ==
  /\ Elsewhere /\ Happens("power")
  /\ Show("power", "restart") /\ UNCHANGED <<notice, wish, offering>>

PressW ==
  /\ Elsewhere /\ Happens("wireless") /\ sight.wireless
  /\ Show("list", Nothing) /\ wish' = "scan" /\ UNCHANGED <<notice, offering>>

KeyOther ==
  /\ Elsewhere
  /\ \/ Show("details", Nothing) \/ Show("help", Nothing)
  /\ UNCHANGED <<notice, wish, offering>>

KeyEscape ==
  /\ Elsewhere
  /\ display' = Dashboard /\ notice' = FALSE
  /\ offering' = IF display.shows = "pairing" THEN "none" ELSE offering
  /\ UNCHANGED wish

PowerKey ==
  /\ On("power")
  /\ \/ \E a \in Actions \ {display.about} : Show("power", a)
     \/ Show("confirm", display.about)
     \/ display' = Dashboard
  /\ UNCHANGED <<notice, typed, going, wish, offering>>

ConfirmKey ==
  /\ On("confirm")
  /\ \/ going' = display.about /\ Show("going", display.about)
     \/ Show("power", display.about) /\ UNCHANGED going
  /\ UNCHANGED <<notice, typed, wish, offering>>

NetworkKey ==
  /\ On("list")
  /\ \/ wish' = "scan" /\ UNCHANGED <<display, typed>>
     \/ /\ \E s \in rows \ Barred : Show("key", s)
        /\ typed' = 0 /\ UNCHANGED wish
     \/ display' = Dashboard /\ UNCHANGED <<typed, wish>>
  /\ UNCHANGED <<notice, going, offering>>

Leave == Show("list", Nothing) /\ typed' = 0

(* Unless somebody is in a hurry, nothing is asked of a radio that is at work. *)
Typing ==
  /\ On("key")
  /\ \/ typed < Longest /\ typed' = typed + 1 /\ UNCHANGED <<display, wish>>
     \/ typed > 0 /\ typed' = typed - 1 /\ UNCHANGED <<display, wish>>
     \/ Leave /\ UNCHANGED wish
     \/ /\ typed > 0 \/ display.about \in Unsecured
        /\ radio.phase \in AtWork => Happens("hurry")
        /\ wish' = display.about /\ typed' = 0 /\ Show("joining", display.about)
  /\ UNCHANGED <<notice, going, offering>>

JoiningKey ==
  /\ On("joining") /\ Show("list", Nothing)
  /\ UNCHANGED <<notice, typed, going, wish, offering>>
JoinedKey ==
  /\ On("joined") /\ display' = Dashboard /\ notice' = FALSE
  /\ UNCHANGED <<typed, going, wish, offering>>

Keys == AnyKey \/ KeyP \/ PressO \/ PressW \/ KeyOther \/ KeyEscape \/ PowerKey \/ ConfirmKey
        \/ NetworkKey \/ Typing \/ JoiningKey \/ JoinedKey

-----------------------------------------------------------------------------
(* The tick. *)

(* What the screen makes of the radio's job while it waits for a join. *)
Answer(s) == IF radio.phase = "connected" THEN [shows |-> "joined", about |-> s.about] ELSE s

Advanced(s) ==
  CASE s.shows = "pairing" /\ offering # "standing" -> [shows |-> IF offering = "expired" THEN "expired" ELSE "paired", about |-> Nothing]
    [] s.shows = "joining" -> Answer(s)
    [] OTHER -> s

(* The screen a tick comes to: the notice that ran out, then what changed, then the radio that is gone. *)
Look ==
  /\ tick = "keys" /\ tick' = "paint"
  /\ sight' \in [address : {sight.address, TRUE}, wireless : IF Happens("unplug") THEN BOOLEAN ELSE {sight.wireless}]
  /\ \E over \in {notice, FALSE} :
       LET before == IF over THEN Dashboard ELSE display
           after  == Advanced(before)
           gone   == ~sight'.wireless /\ after.shows \in Wireless
       IN /\ display' = IF gone THEN Dashboard ELSE after
          /\ typed'  = IF gone THEN 0 ELSE typed
          /\ notice' = IF after # before /\ after.shows \in {"paired", "expired", "joined"} THEN TRUE ELSE notice /\ ~over
          /\ rows'   = IF after.shows = "list" THEN radio.found ELSE {}
          /\ IF before.shows = "first-boot" /\ ~invited /\ sight'.address /\ offering # "standing"
             THEN invited' = TRUE /\ offering' = "standing"
             ELSE UNCHANGED <<invited, offering>>
  /\ UNCHANGED <<painted, awake, code, going, wish, radio, asked>>

Paint ==
  /\ tick = "paint" /\ tick' = "act"
  /\ painted' = IF awake THEN display.shows ELSE painted
  /\ UNCHANGED <<display, awake, notice, code, invited, rows, typed, going, wish, sight, offering, radio, asked>>

(* power::schedule, and the claim on the radio, which may be taken. *)
Act ==
  /\ tick = "act" /\ tick' = "keys"
  /\ asked' = IF going # Nothing /\ asked < 2 THEN asked + 1 ELSE asked
  /\ radio' = IF wish = Nothing \/ radio.phase \in AtWork THEN radio
              ELSE [radio EXCEPT !.phase = IF wish = "scan" THEN "scanning" ELSE "joining",
                                 !.about = IF wish = "scan" THEN Nothing ELSE wish]
  /\ going' = Nothing /\ wish' = Nothing /\ awake' \in {awake, FALSE}
  /\ UNCHANGED <<display, painted, notice, code, invited, rows, typed, sight, offering>>

-----------------------------------------------------------------------------
(* Around it. *)

(* The job's thread ends its run. *)
JobEnds ==
  /\ radio.phase \in AtWork
  /\ \/ radio.phase = "scanning" /\ \E found \in SUBSET Ssids : radio' = [radio EXCEPT !.phase = "idle", !.found = found]
     \/ radio.phase = "joining" /\ radio' = [radio EXCEPT !.phase = "connected"]
     \/ radio' = [radio EXCEPT !.phase = "failed"]
  /\ UNCHANGED <<tick, display, painted, awake, notice, code, invited, rows, typed, going, wish, sight, offering, asked>>

PageJoins ==
  /\ Happens("page") /\ radio.phase \notin AtWork
  /\ \E s \in Ssids : radio' = [radio EXCEPT !.phase = "joining", !.about = s]
  /\ UNCHANGED <<tick, display, painted, awake, notice, code, invited, rows, typed, going, wish, sight, offering, asked>>

(* A browser spends the code; it runs out; the device code is rotated, or a late browser clears what ran out. *)
OfferEnds ==
  /\ \/ offering = "standing" /\ offering' \in {"used", "expired"}
     \/ Happens("rotates") /\ offering \in {"standing", "expired"} /\ offering' = "none"
  /\ UNCHANGED <<tick, display, painted, awake, notice, code, invited, rows, typed, going, wish, sight, radio, asked>>

Loop == Look \/ Paint \/ Act
ScreenNext == Keys \/ Loop \/ JobEnds \/ PageJoins \/ OfferEnds

-----------------------------------------------------------------------------
(* A notice still to run out undoes whatever is shown: one of a pairing, or of a join whose radio was then unplugged
   (and perhaps plugged in again). *)
Undisturbed == ~Happens("pairs") /\ ~(Happens("wireless") /\ Happens("unplug"))

(* The machine is asked to go once: "a loop that asked twice would put two shutdown sequences on the same
   Plex" (dashboard/mod.rs, draw).  Where no notice is left to undo the last screen. *)
AskedOnce == Undisturbed => asked <= 1

(* The frame that says so is on the screen before the machine begins to stop. *)
SeenBeforeItGoes == asked' > asked /\ Undisturbed => painted = "going"

(* A passphrase is held only while it is being typed (State.typed), where no notice is left to undo that screen. *)
TypedWhileTyping == typed > 0 /\ Undisturbed => display.shows = "key"

(* Somebody who asked to join has not been told how it went. *)
Joining == Patient /\ display.shows = "joining" /\ radio.phase # "failed"
=============================================================================
