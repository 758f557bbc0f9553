--------------------------------- MODULE Link ---------------------------------
(***************************************************************************)
(* Waiting for a cable when plexosd starts (net.rs, wait_for_link): adapters *)
(* appear late, their carrier is readable only once they are up, and it     *)
(* appears later still.                                                     *)
(***************************************************************************)
EXTENDS Integers, Sequences, Faults

CONSTANTS
  Ports,       \* the machine's interfaces, in the order of their names
  Wired,       \* those that are real, wired hardware
  Passes,      \* LINK_TIMEOUT in polls
  Negotiation, \* polls until a link that is up with a cable has a carrier
  LeasePolls   \* LEASE_TIMEOUT in polls

ASSUME LinkAssumption ==
  Passes \in Nat \ {0} /\ Negotiation \in Nat \ {0} /\ LeasePolls \in Nat /\ Len(Ports) \in Nat

VARIABLES
  port,   \* per interface: is it there, is it up, and since how many polls
  cable,  \* the interfaces with a cable
  wait    \* the thread that waits: its polls, and what came of it

link == <<port, cable, wait>>

Absent == [there |-> FALSE, up |-> FALSE, since |-> 0]
Nobody  == 0

LinkTypeOK ==
  /\ port \in [1..Len(Ports) -> [there : BOOLEAN, up : BOOLEAN, since : 0..Negotiation]]
  /\ cable \in SUBSET (1..Len(Ports))
  /\ wait \in [at : {"link", "lease", "over"}, pass : 0..Passes + LeasePolls, found : 0..Len(Ports),
               said : {"unsaid", "leased", "no-lease", "no-adapter", "no-carrier", "not-up", "no-ip"},
               seen : [1..Len(Ports) -> 0..Passes]]

LinkInit ==
  /\ port = [i \in 1..Len(Ports) |-> Absent] /\ cable = {}
  /\ wait = [at |-> "link", pass |-> 0, found |-> Nobody, said |-> "unsaid", seen |-> [i \in 1..Len(Ports) |-> 0]]

-----------------------------------------------------------------------------
(* The machine. *)

Enumerates(i) ==
  /\ Happens("cables") /\ ~port[i].there
  /\ port' = [port EXCEPT ![i] = [Absent EXCEPT !.there = TRUE]]
  /\ UNCHANGED <<cable, wait, faults>>
Plugged(i) ==
  /\ Happens("cables") /\ cable' = cable \cup {i} /\ i \notin cable
  /\ UNCHANGED <<port, wait, faults>>
Unplugged(i) ==
  /\ Happens("loose") /\ cable' = cable \ {i} /\ i \in cable
  /\ port' = [port EXCEPT ![i].since = 0]
  /\ wait' = [wait EXCEPT !.seen[i] = 0]
  /\ UNCHANGED faults

Carrier(i) == port[i].there /\ port[i].up /\ i \in cable /\ port[i].since = Negotiation

-----------------------------------------------------------------------------
(* One pass of wait_for_link. *)

candidates == {i \in 1..Len(Ports) : Ports[i] \in Wired /\ port[i].there}

(* The first by name; there is none on a machine with no cable. *)
preferred(all) == {i \in all : Carrier(i) /\ \A j \in all : Carrier(j) => i <= j}

(* `ip` brings up what is down, unless it is not in the image or objects. *)
Raised(all) == IF Happens("no-ip") THEN {} ELSE {i \in all : ~port[i].up /\ ~Happens("objects")}

(* What a wait that is over says, of the interfaces as this pass found them. *)
Remedy(all) ==
  CASE Happens("no-ip")           -> "no-ip"
    [] ~Happens("no-ip") /\ all = {} -> "no-adapter"
    [] ~Happens("no-ip") /\ \E i \in all : port[i].up -> "no-carrier"
    [] OTHER                      -> "not-up"

(* Between two polls a link that is up with a cable gets nearer to its carrier. *)
Negotiating(up) == [i \in 1..Len(Ports) |->
  [port[i] EXCEPT !.up = @ \/ i \in up,
                  !.since = IF (port[i].up \/ i \in up) /\ i \in cable /\ @ < Negotiation THEN @ + 1 ELSE @]]

(* The client is started on it and left running; without one there is nothing to wait for. *)
dhcp(i) == [wait EXCEPT !.at = IF Happens("no-client") THEN "over" ELSE "lease", !.found = i, !.pass = 0]

Pass ==
  LET all  == candidates
      seen == [i \in 1..Len(Ports) |-> IF i \in all /\ i \in cable THEN wait.seen[i] + 1 ELSE 0] IN
  /\ wait.at = "link"
  /\ \/ \E i \in preferred(all) :
          wait' = dhcp(i) /\ UNCHANGED port
     \/ /\ preferred(all) = {}
        /\ port' = Negotiating(Raised(all))
        /\ wait' = IF wait.pass = Passes - 1
                   THEN [wait EXCEPT !.at = "over", !.said = Remedy(all), !.seen = seen]
                   ELSE [wait EXCEPT !.pass = @ + 1, !.seen = seen]
  /\ UNCHANGED <<cable, faults>>

(* wait_for_address: the client that was started gets a lease, or the console serves without one. *)
LeasePoll ==
  /\ wait.at = "lease"
  /\ \/ wait' = [wait EXCEPT !.at = "over", !.said = "leased"]
     \/ wait' = IF wait.pass = LeasePolls THEN [wait EXCEPT !.at = "over", !.said = "no-lease"]
                ELSE [wait EXCEPT !.pass = @ + 1]
  /\ UNCHANGED <<port, cable, faults>>

LinkNext ==
  \/ \E i \in 1..Len(Ports) : Enumerates(i) \/ Plugged(i) \/ Unplugged(i)
  \/ Pass \/ LeasePoll

-----------------------------------------------------------------------------
(* A wired adapter that was there with a cable for long enough was brought up and found, whenever during
   the wait it appeared: a wait that ends in nothing had none (net.rs, "inside the loop"). *)
CableIsEnough ==
  wait.said \in {"no-adapter", "no-carrier", "not-up"} /\ ~Happens("objects") =>
    \A i \in 1..Len(Ports) : wait.seen[i] <= Negotiation
=============================================================================
