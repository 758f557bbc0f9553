-------------------------------- MODULE Access --------------------------------
(***************************************************************************)
(* Who may change the machine (ADR-0013, ADR-0019): the recovery device     *)
(* code and its rotation, browser sessions, the pairing code on the         *)
(* machine's own screen, and one browser letting in another.                *)
(*                                                                          *)
(* The secrets are numbers in the order they were generated.  A browser     *)
(* presents what it has been given, or something that is refused without    *)
(* effect and is left out.  The stores drop what has expired before they    *)
(* look at anything, so here it is dropped as it expires.                   *)
(***************************************************************************)
EXTENDS Integers, FiniteSets

CONSTANTS
  Browsers,      \* each has one request in progress at a time
  Lifetime,      \* pairing::LIFETIME and browserpair::LIFETIME, in ticks
  Idle,          \* session::IDLE_TIMEOUT
  Absolute,      \* session::ABSOLUTE_LIFETIME
  MaxSessions,   \* session::MAX_SESSIONS
  MaxPending,    \* browserpair::MAX_PENDING
  Tokens,        \* bounds: device codes, pairing codes, requests of browsers to be let in
  Codes,         \*   and sessions ever generated
  Asks,
  Sessions,
  Environments   \* what may happen: sets of "restart", "crash", "fail", "overlap"

ASSUME DeadlineAssumption == Lifetime \in Nat \ {0} /\ Idle \in Nat \ {0} /\ Absolute \in Nat \ {0}
ASSUME CapacityAssumption == MaxSessions \in Nat \ {0} /\ MaxPending \in Nat \ {0}
ASSUME NumberAssumption ==
  \A numbers \in {Tokens, Codes, Asks, Sessions} : numbers # {} /\ IsFiniteSet(numbers) /\ numbers = 1..Cardinality(numbers)
ASSUME HazardAssumption == Environments \subseteq SUBSET {"restart", "crash", "fail", "overlap"}

VARIABLES
  up,         \* plexosd: down, claiming the device, or serving
  file,       \* the device code whose fingerprint is stored; None: none that can be read
  inForce,    \* auth::CURRENT
  generated,  \* history: the device codes generated so far
  known,      \* history: those the screen or a reply has told somebody
  screen,     \* the attached screen: first boot, a pairing code, or what has no say in this
  offer,      \* pairing::CURRENT
  offered,    \* history: the pairing codes offered so far
  ask,        \* browserpair::CURRENT
  session,    \* session::CURRENT
  thread,     \* the connection thread of each browser
  hazards     \* what happens in this behaviour; it never changes

None == 0

device == <<file, inForce, generated, known>>
panel  == <<screen, offer, offered>>
vars   == <<up, device, panel, ask, session, thread, hazards>>

Nobody   == "nobody"
NoOffer  == [code |-> None, age |-> 0]
NoAsk    == [is |-> "unasked", from |-> Nobody, age |-> 0]
NoGrant  == [by |-> "nothing", nr |-> None]
Unissued == [is |-> "unissued", how |-> NoGrant, to |-> Nobody, made |-> 0, used |-> 0]
NoThread == [at |-> "idle", nr |-> None]

Grants == [by : {"code"}, nr : Codes] \cup [by : {"ask"}, nr : Asks]

AskStates     == [is : {"unasked", "pending", "approved", "denied", "consumed", "gone"},
                  from : Browsers \cup {Nobody}, age : 0..Lifetime - 1]
SessionStates == [is : {"unissued", "live", "ended"}, how : Grants \cup {NoGrant},
                  to : Browsers \cup {Nobody}, made : 0..Absolute - 1, used : 0..Idle - 1]

Issued == {i \in Sessions : session[i].is # "unissued"}
Live   == {i \in Sessions : session[i].is = "live"}
Asked  == {r \in Asks : ask[r].is # "unasked"}
Held   == {r \in Asks : ask[r].is \notin {"unasked", "gone"}}
Offering == offer.code # None /\ offer.age < Lifetime
FirstBoot == screen \in {"first_boot", "first_offer"}

TypeOK ==
  /\ up \in {"down", "claiming", "up"}
  /\ file \in Tokens \cup {None} /\ inForce \in Tokens \cup {None}
  /\ generated \in Tokens \cup {None} /\ known \subseteq Tokens
  /\ screen \in {"dashboard", "first_boot", "first_offer", "pairing"}
  /\ offer \in [code : Codes \cup {None}, age : 0..Lifetime] /\ offered \in Codes \cup {None}
  /\ ask \in [Asks -> AskStates] /\ session \in [Sessions -> SessionStates]
  /\ thread \in [Browsers -> [at : {"idle", "connected", "admitted", "paired", "writing", "written",
                                    "installed", "revoked"},
                              nr : Tokens \cup Codes \cup Sessions \cup {None}]]
  /\ Cardinality(Live) <= MaxSessions /\ Cardinality(Held) <= MaxPending
  /\ hazards \in Environments

Init ==
  /\ up = "down" /\ file = None /\ inForce = None /\ generated = None /\ known = {}
  /\ screen = "dashboard" /\ offer = NoOffer /\ offered = None
  /\ ask = [r \in Asks |-> NoAsk] /\ session = [i \in Sessions |-> Unissued]
  /\ thread = [b \in Browsers |-> NoThread]
  /\ hazards \in Environments

At(b, step) == up = "up" /\ thread[b].at = step
Goto(b, step) == thread' = [thread EXCEPT ![b].at = step]
Finish(b) == thread' = [thread EXCEPT ![b] = NoThread]
Rotating == {b \in Browsers : thread[b].at \in {"writing", "written", "installed", "revoked"}}

-----------------------------------------------------------------------------
(* console::claim, at every start of plexosd, and what a start finds in memory. *)

Serve(token, what) ==
  /\ up' = "up" /\ inForce' = token /\ screen' = what

(* A device with a fingerprint on file trusts it; nobody is shown anything. *)
Start ==
  /\ up = "down" /\ file # None
  /\ Serve(file, "dashboard")
  /\ UNCHANGED <<file, generated, known, offer, offered, ask, session, thread, hazards>>

(* Without one it generates a device code, stores the fingerprint and then announces it. *)
Claim ==
  /\ up = "down" /\ file = None /\ generated + 1 \in Tokens
  /\ generated' = generated + 1 /\ file' = generated + 1 /\ up' = "claiming"
  /\ UNCHANGED <<inForce, known, panel, ask, session, thread, hazards>>

Announce ==
  /\ up = "claiming"
  /\ known' = known \cup {file}
  /\ Serve(file, "first_boot")
  /\ UNCHANGED <<file, generated, offer, offered, ask, session, thread, hazards>>

(* A fingerprint that cannot be stored, or a code that cannot be generated, leaves the device
   unclaimed and refusing; the bound on device codes counts as one that cannot be generated. *)
ClaimFails ==
  /\ up = "down" /\ file = None
  /\ \/ /\ "fail" \in hazards
        /\ generated + 1 \in Tokens /\ generated' = generated + 1
        /\ file' \in {None, generated + 1}
     \/ generated + 1 \notin Tokens /\ UNCHANGED <<generated, file>>
  /\ Serve(None, "dashboard")
  /\ UNCHANGED <<known, offer, offered, ask, session, thread, hazards>>

(* Nothing of a session, an offer or a request survives plexosd; the file does. *)
Ended(i) == IF i \in Live THEN [Unissued EXCEPT !.is = "ended", !.how = session[i].how] ELSE session[i]
Gone(r)  == IF r \in Held THEN [NoAsk EXCEPT !.is = "gone"] ELSE ask[r]
Stop ==
  /\ up # "down"
  /\ \/ "crash" \in hazards
     \/ "restart" \in hazards /\ up = "up" /\ Rotating = {}
  /\ up' = "down" /\ inForce' = None
  /\ session' = [i \in Sessions |-> Ended(i)] /\ ask' = [r \in Asks |-> Gone(r)]
  /\ offer' = NoOffer /\ screen' = "dashboard"
  /\ thread' = [b \in Browsers |-> NoThread]
  /\ UNCHANGED <<file, generated, known, offered, hazards>>

-----------------------------------------------------------------------------
(* The attached screen: the keys that matter here, and advance, which redraws it. *)

FreshOffer ==
  /\ offered + 1 \in Codes
  /\ offered' = offered + 1 /\ offer' = [code |-> offered + 1, age |-> 0]

(* P, on a screen that is not the first-boot one: a new code, and the one before it is no more. *)
PressP ==
  /\ up = "up" /\ ~FirstBoot
  /\ FreshOffer
  /\ screen' = "pairing"
  /\ UNCHANGED <<up, device, ask, session, thread, hazards>>

(* Escape withdraws the code it takes off the screen, and so does any key at first boot. *)
PressEscape ==
  /\ up = "up"
  /\ offer' = IF FirstBoot \/ screen = "pairing" THEN NoOffer ELSE offer
  /\ screen' = "dashboard"
  /\ UNCHANGED <<up, device, offered, ask, session, thread, hazards>>

(* Details or help, over whatever is there: an offer stands. *)
PressOther ==
  /\ up = "up" /\ ~FirstBoot
  /\ screen' = "dashboard"
  /\ UNCHANGED <<up, device, offer, offered, ask, session, thread, hazards>>

(* The first-boot screen offers one code by itself, once there is an address. *)
OfferAtFirstBoot ==
  /\ up = "up" /\ screen = "first_boot" /\ ~Offering
  /\ FreshOffer
  /\ screen' = "first_offer"
  /\ UNCHANGED <<up, device, ask, session, thread, hazards>>

(* A pairing screen follows its offer. *)
OfferLeavesScreen ==
  /\ up = "up" /\ screen = "pairing" /\ ~Offering
  /\ screen' = "dashboard"
  /\ UNCHANGED <<up, device, offer, offered, ask, session, thread, hazards>>

-----------------------------------------------------------------------------
(* The stores of sessions and of requests, under their locks. *)

(* Mutant: a full store takes one more. *)
FullLater == Cardinality(Live) > MaxSessions

Full      == Cardinality(Live) >= MaxSessions
LeastUsed == {i \in Live : \A j \in Live : session[j].used <= session[i].used}

(* session::issue: a full store lets go of the session unused for longest. *)
Issue(b, grant) ==
  \E i \in Sessions :
    /\ i \notin Issued /\ \A j \in Sessions : j < i => j \in Issued
    /\ LET new == [is |-> "live", how |-> grant, to |-> b, made |-> 0, used |-> 0] IN
       \/ /\ ~Full
          /\ session' = [session EXCEPT ![i] = new]
       \/ /\ Full
          /\ \E old \in LeastUsed : session' = [session EXCEPT ![i] = new, ![old] = Ended(old)]

(* Mutant: use pushes both deadlines forward. *)
UsedAnew(i) == [session EXCEPT ![i].used = 0, ![i].made = 0]

(* session::validate, on success: the idle deadline moves, the absolute one does not. *)
Used(i) == [session EXCEPT ![i].used = 0]

-----------------------------------------------------------------------------
(* A connection: what is trusted is read as it is accepted, the gate decides once the head
   has arrived, and the handler acts. *)

Connect(b) ==
  /\ At(b, "idle")
  /\ thread' = [thread EXCEPT ![b] = [at |-> "connected", nr |-> inForce]]
  /\ UNCHANGED <<up, device, panel, ask, session, hazards>>

(* http::refusal and auth::authenticate: by the device code trusted then, or by a session. *)
AdmitByToken(b) ==
  /\ At(b, "connected") /\ thread[b].nr \in known
  /\ thread' = [thread EXCEPT ![b] = [at |-> "admitted", nr |-> None]]
  /\ UNCHANGED <<up, device, panel, ask, session, hazards>>

AdmitBySession(b, i) ==
  /\ At(b, "connected") /\ thread[b].nr # None
  /\ i \in Live /\ session[i].to = b
  /\ session' = Used(i)
  /\ thread' = [thread EXCEPT ![b] = [at |-> "admitted", nr |-> i]]
  /\ UNCHANGED <<up, device, panel, ask, hazards>>

(* Refused, or gone, or a read or a check that changes nothing. *)
HangUp(b) ==
  /\ up = "up" /\ thread[b].at \in {"connected", "admitted"}
  /\ Finish(b)
  /\ UNCHANGED <<up, device, panel, ask, session, hazards>>

SignOut(b) ==
  /\ At(b, "admitted")
  /\ session' = IF thread[b].nr = None THEN session
                 ELSE [session EXCEPT ![thread[b].nr] = Ended(thread[b].nr)]
  /\ Finish(b)
  /\ UNCHANGED <<up, device, panel, ask, hazards>>

-----------------------------------------------------------------------------
(* pair_route: the code is spent, and then a session issued for it. *)

Pair(b) ==
  /\ At(b, "idle") /\ Offering
  /\ offer' = NoOffer
  /\ thread' = [thread EXCEPT ![b] = [at |-> "paired", nr |-> offer.code]]
  /\ UNCHANGED <<up, device, screen, offered, ask, session, hazards>>

(* A code that has run out is refused and put away, whatever was presented. *)
PairTooLate(b) ==
  /\ At(b, "idle") /\ offer.code # None /\ ~Offering
  /\ offer' = NoOffer
  /\ UNCHANGED <<up, device, screen, offered, ask, session, thread, hazards>>

PairIssues(b) ==
  /\ At(b, "paired")
  /\ Issue(b, [by |-> "code", nr |-> thread[b].nr])
  /\ Finish(b)
  /\ UNCHANGED <<up, device, panel, ask, hazards>>

(* No randomness: the code is not put back.  The bound on sessions counts as none. *)
PairFails(b) ==
  /\ At(b, "paired") /\ ("fail" \in hazards \/ Issued = Sessions)
  /\ Finish(b)
  /\ UNCHANGED <<up, device, panel, ask, session, hazards>>

-----------------------------------------------------------------------------
(* One browser letting in another (browserpair.rs). *)

(* open: refused rather than another one pushed out. *)
Open(b) ==
  /\ At(b, "idle") /\ Cardinality(Held) < MaxPending
  /\ \E r \in Asks :
       /\ r \notin Asked /\ \A q \in Asks : q < r => q \in Asked
       /\ ask' = [ask EXCEPT ![r] = [is |-> "pending", from |-> b, age |-> 0]]
  /\ UNCHANGED <<up, device, panel, session, thread, hazards>>

(* Mutant: a request may be decided again. *)
DecideAgain(b, r, verdict) ==
  /\ At(b, "admitted")
  /\ r \in Held
  /\ ask' = [ask EXCEPT ![r].is = verdict]
  /\ Finish(b)
  /\ UNCHANGED <<up, device, panel, session, hazards>>

(* decide, by an administrator; a request decided before is left as it is. *)
Decide(b, r, verdict) ==
  /\ At(b, "admitted")
  /\ ask[r].is = "pending"
  /\ ask' = [ask EXCEPT ![r].is = verdict]
  /\ Finish(b)
  /\ UNCHANGED <<up, device, panel, session, hazards>>

(* redeem, with the secret only the browser that asked was given: spent, and then a session is
   made under the same lock, or is not. *)
Redeem(b, r) ==
  /\ At(b, "idle")
  /\ ask[r].is = "approved" /\ ask[r].from = b
  /\ ask' = [ask EXCEPT ![r].is = "consumed"]
  /\ \/ Issue(b, [by |-> "ask", nr |-> r])
     \/ ("fail" \in hazards \/ Issued = Sessions) /\ UNCHANGED session
  /\ UNCHANGED <<up, device, panel, thread, hazards>>

Withdraw(b, r) ==
  /\ At(b, "idle")
  /\ r \in Held /\ ask[r].from = b
  /\ ask' = [ask EXCEPT ![r] = Gone(r)]
  /\ UNCHANGED <<up, device, panel, session, thread, hazards>>

-----------------------------------------------------------------------------
(* rotate_token: the file, then what is in force, then everything admitted so far. *)

(* fs::write empties the file before it fills it. *)
Rotate(b) ==
  /\ At(b, "admitted")
  /\ "overlap" \in hazards \/ Rotating = {}
  /\ generated + 1 \in Tokens /\ generated' = generated + 1
  /\ file' = None
  /\ thread' = [thread EXCEPT ![b] = [at |-> "writing", nr |-> generated + 1]]
  /\ UNCHANGED <<up, inForce, known, panel, ask, session, hazards>>

Written(b) ==
  /\ At(b, "writing")
  /\ file' = thread[b].nr
  /\ Goto(b, "written")
  /\ UNCHANGED <<up, inForce, generated, known, panel, ask, session, hazards>>

(* The reply is that the old code still works.  Nothing, half, or all of it was written. *)
WriteFails(b) ==
  /\ At(b, "writing") /\ "fail" \in hazards
  /\ file' \in {file, thread[b].nr}
  /\ Finish(b)
  /\ UNCHANGED <<up, inForce, generated, known, panel, ask, session, hazards>>

(* Mutant: the new code is left for the next start. *)
InstallLater(b) ==
  /\ At(b, "written")
  /\ Goto(b, "installed")
  /\ UNCHANGED <<up, device, panel, ask, session, hazards>>

Install(b) ==
  /\ At(b, "written")
  /\ inForce' = thread[b].nr
  /\ Goto(b, "installed")
  /\ UNCHANGED <<up, file, generated, known, panel, ask, session, hazards>>

RevokeAll(b) ==
  /\ At(b, "installed")
  /\ session' = [i \in Sessions |-> Ended(i)]
  /\ Goto(b, "revoked")
  /\ UNCHANGED <<up, device, panel, ask, hazards>>

(* The offer goes too, and the new code is told to the screen and to whoever asked. *)
Rotated(b) ==
  /\ At(b, "revoked")
  /\ offer' = NoOffer /\ known' = known \cup {thread[b].nr}
  /\ Finish(b)
  /\ UNCHANGED <<up, file, inForce, generated, screen, offered, ask, session, hazards>>

-----------------------------------------------------------------------------
(* Time passes for everything that expires. *)

Older(i) ==
  IF i \notin Live THEN session[i]
  ELSE IF session[i].made + 1 < Absolute /\ session[i].used + 1 < Idle
  THEN [session[i] EXCEPT !.made = @ + 1, !.used = @ + 1]
  ELSE Ended(i)

Staler(r) ==
  IF r \notin Held THEN ask[r]
  ELSE IF ask[r].age + 1 < Lifetime THEN [ask[r] EXCEPT !.age = @ + 1] ELSE Gone(r)

Tick ==
  /\ session' = [i \in Sessions |-> Older(i)]
  /\ ask' = [r \in Asks |-> Staler(r)]
  /\ offer' = IF Offering THEN [offer EXCEPT !.age = @ + 1] ELSE offer
  /\ UNCHANGED <<up, device, screen, offered, thread, hazards>>

Administration(b) ==
  \/ AdmitByToken(b) \/ \E i \in Sessions : AdmitBySession(b, i)
  \/ SignOut(b) \/ \E r \in Asks, verdict \in {"approved", "denied"} : Decide(b, r, verdict)
Rotation(b) == Rotate(b) \/ Written(b) \/ WriteFails(b) \/ Install(b) \/ RevokeAll(b) \/ Rotated(b)
Pairing(b)  == Pair(b) \/ PairTooLate(b) \/ PairIssues(b) \/ PairFails(b)
Asking(b)   == Open(b) \/ \E r \in Asks : Redeem(b, r) \/ Withdraw(b, r)
AtTheScreen == PressP \/ PressEscape \/ PressOther \/ OfferAtFirstBoot \/ OfferLeavesScreen

Next ==
  \/ Start \/ Claim \/ Announce \/ ClaimFails \/ Stop
  \/ AtTheScreen
  \/ \E b \in Browsers : Connect(b) \/ HangUp(b) \/ Administration(b) \/ Rotation(b) \/ Pairing(b) \/ Asking(b)
  \/ Tick

Spec     == Init /\ [][Next]_vars
FairSpec == Spec /\ WF_vars(Tick)

-----------------------------------------------------------------------------
(* Nobody is let in twice on one code or one approval: pairing.rs, "There is no window in which
   two callers can both succeed", and browserpair.rs, "two redemptions racing cannot produce two
   sessions", however the restarts, retries and second decisions fall. *)
AdmittedOnce ==
  \A i, j \in Issued : session[i].how = session[j].how => i = j

(* In use, and while nobody rotates twice at once and nothing fails, the code somebody was told is
   the one that works, now and after a restart. *)
Orderly == hazards \subseteq {"restart"}
OrderlyTokenIsKept ==
  Orderly /\ up = "up" /\ Rotating = {} => inForce = file /\ inForce \in known

(* A session ends however busily it is used: session.rs, a page that polls "would hold an
   administrator session open for ever". *)
SessionsEnd == \A i \in Sessions : (i \in Live) ~> (i \notin Live)
=============================================================================
