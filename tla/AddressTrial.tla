---------------------------- MODULE AddressTrial ----------------------------
(***************************************************************************)
(* A static address on trial (addressing.rs, settings::store_with_network): *)
(* stored, applied, and undone after CONFIRM_WITHIN unless somebody reaches *)
(* the console at it and says so.                                           *)
(*                                                                          *)
(* Each saver thread loads the stored configuration, patches it, stores     *)
(* it, applies it and arms a revert; each arm starts a thread of its own    *)
(* that sleeps and then takes whatever change is pending.                   *)
(***************************************************************************)
EXTENDS Integers, FiniteSets, Faults

CONSTANTS
  Savers,       \* the console's threads that save settings
  Statics,      \* the static addresses somebody asks for
  Reachable,    \* those from which the browser gets an answer
  Routable,     \* those whose gateway the kernel accepts
  Window,       \* addressing::CONFIRM_WITHIN, in ticks
  Timers        \* bound: the revert threads that can be asleep at once

Leased    == "dhcp"
NoAddress == "no address"
Unset     == "nothing"

ASSUME AddressAssumption ==
  /\ Reachable \subseteq Statics /\ Routable \subseteq Statics
  /\ Leased \notin Statics /\ NoAddress \notin Statics /\ Unset \notin Statics
ASSUME BoundAssumption == Window \in Nat \ {0} /\ IsFiniteSet(Timers) /\ IsFiniteSet(Savers)

VARIABLES
  file,       \* the stored network configuration
  inForce,    \* what the interface has
  pending,    \* PENDING: the change awaiting confirmation
  saver,      \* each of those threads
  timers,     \* the revert threads
  agreed      \* the change somebody confirmed, until another is asked for (for the properties)

address == <<file, inForce, pending, saver, timers, agreed>>

Settings == Statics \cup {Leased}
None     == [previous |-> Unset, applied |-> Unset, left |-> 0]
AtRest   == [pc |-> "idle", previous |-> Unset, wanted |-> Unset]
Unarmed  == [pc |-> "unarmed", previous |-> Unset, left |-> 0]

(* Whether a browser on this network gets an answer from the console. *)
Answering(net) == net = Leased \/ net \in Reachable

AddressTypeOK ==
  /\ file \in Settings
  /\ inForce \in Settings \cup {NoAddress}
  /\ pending \in [previous : Settings, applied : Settings, left : 0..Window] \cup {None}
  /\ saver \in [Savers -> [pc : {"idle", "store", "apply", "arm"},
                               previous : Settings \cup {Unset}, wanted : Settings \cup {Unset}]]
  /\ timers \in [Timers -> [pc : {"unarmed", "sleep", "restore", "reapply"},
                             previous : Settings \cup {Unset}, left : 0..Window]]
  /\ agreed \in Settings \cup {Unset}

AddressInit ==
  /\ file = Leased /\ inForce = Leased /\ pending = None /\ agreed = Leased
  /\ saver = [r \in Savers |-> AtRest]
  /\ timers = [i \in Timers |-> Unarmed]

SaverAt(r, step) == saver' = [saver EXCEPT ![r].pc = step]
Done(r)          == saver' = [saver EXCEPT ![r] = AtRest]

Busy      == {r \in Savers : saver[r].pc # "idle"}
Spare     == {i \in Timers : timers[i].pc = "unarmed"}
Due       == {i \in Timers : timers[i].pc = "sleep" /\ timers[i].left = 0}
Reverting == {i \in Timers : timers[i].pc \in {"restore", "reapply"}}

-----------------------------------------------------------------------------
(* save_settings.  Unless changes overlap, no save is begun while another goes on or a thread undoes one, and none
   takes so long that a thread wakes in the middle; any number of threads may be asleep. *)

Load(r, net) ==
  /\ saver[r].pc = "idle" /\ Answering(inForce)
  /\ Happens("overlap") \/ Busy \cup Due \cup Reverting = {}
  /\ Happens("refuse") \/ net \in Routable \cup {Leased}
  /\ Cardinality(Busy) < Cardinality(Spare)
  /\ saver' = [saver EXCEPT ![r] = [pc |-> "store", previous |-> file, wanted |-> net]]
  /\ agreed' = Unset
  /\ UNCHANGED <<file, inForce, pending, timers>>

(* The file first; a saver that leaves the network as it was ends there, and so does one
   whose file cannot be written. *)
Store(r) ==
  /\ saver[r].pc = "store"
  /\ \/ /\ file' = saver[r].wanted
        /\ IF saver[r].wanted = saver[r].previous THEN Done(r) ELSE SaverAt(r, "apply")
     \/ Happens("refuse") /\ Done(r) /\ UNCHANGED file
  /\ UNCHANGED <<inForce, pending, timers, agreed>>

(* addressing::apply flushes the interface, adds the address and replaces the route. *)
Apply(r) ==
  /\ saver[r].pc = "apply"
  /\ LET net == saver[r].wanted IN
     \/ /\ net \in Routable \cup {Leased}
        /\ inForce' = net /\ SaverAt(r, "arm")
     \/ /\ net \in Statics \ Routable            \* `ip route` fails after `ip addr add`
        /\ inForce' = net /\ Done(r)
     \/ /\ Happens("refuse")                  \* `ip addr` or udhcpc fails after the flush, or
        /\ inForce' \in {NoAddress, inForce}     \* the flush itself does
        /\ Done(r)
  /\ UNCHANGED <<file, pending, timers, agreed>>

(* arm replaces what was pending and starts a thread that sleeps; the thread armed for
   what it replaces goes on sleeping. *)
Sleeping(i, ticks) == [timers EXCEPT ![i].pc = "sleep", ![i].left = ticks]
ArmWith(r, threads) ==
  /\ saver[r].pc = "arm"
  /\ pending' = [previous |-> saver[r].previous, applied |-> saver[r].wanted, left |-> Window]
  /\ timers' \in threads
  /\ Done(r)
  /\ UNCHANGED <<file, inForce, agreed>>

(* Mutant: the thread sleeps too long. *)
ArmLate(r)  == ArmWith(r, {Sleeping(i, Window + 1) : i \in Spare})

Arm(r) == ArmWith(r, {Sleeping(i, Window) : i \in Spare})

(* POST /api/network: somebody reached the console where it is now. *)
Confirm ==
  /\ pending # None /\ Answering(inForce)
  /\ pending' = None
  /\ agreed' = IF Busy = {} THEN pending.applied ELSE agreed
  /\ UNCHANGED <<file, inForce, saver, timers>>

-----------------------------------------------------------------------------
(* The revert thread, and the clock. *)

(* A second passes for whatever is provisional; a thread that is due is not kept waiting. *)
Tick ==
  /\ Happens("overlap") \/ Busy = {}
  /\ \E i \in Timers : timers[i].pc = "sleep"
  /\ \A i \in Timers : timers[i].pc = "sleep" => timers[i].left > 0
  /\ timers' = [i \in Timers |-> IF timers[i].pc = "sleep" THEN [timers[i] EXCEPT !.left = @ - 1]
                                     ELSE timers[i]]
  /\ pending' = IF pending = None THEN None ELSE [pending EXCEPT !.left = @ - 1]
  /\ UNCHANGED <<file, inForce, saver, agreed>>

(* Mutants: it takes what is pending and leaves it at that; it goes by what it was told when it was armed, whether or
   not anything is pending. *)
WakeInVain(i) ==
  /\ timers[i].pc = "sleep" /\ timers[i].left = 0
  /\ timers' = [timers EXCEPT ![i] = Unarmed]
  /\ pending' = None
  /\ UNCHANGED <<file, inForce, saver, agreed>>
WakeAnyway(i) ==
  /\ timers[i].pc = "sleep" /\ timers[i].left = 0
  /\ timers' = [timers EXCEPT ![i] = [pc |-> "restore", left |-> 0,
                                       previous |-> IF pending = None THEN Leased ELSE pending.previous]]
  /\ pending' = None
  /\ UNCHANGED <<file, inForce, saver, agreed>>

(* It wakes and takes what is pending, whichever change that is. *)
Wake(i) ==
  /\ timers[i].pc = "sleep" /\ timers[i].left = 0
  /\ IF pending = None
     THEN timers' = [timers EXCEPT ![i] = Unarmed]
     ELSE timers' = [timers EXCEPT ![i] = [pc |-> "restore", previous |-> pending.previous, left |-> 0]]
  /\ pending' = None
  /\ UNCHANGED <<file, inForce, saver, agreed>>

(* Mutant: the old file is not put back. *)
RestoreNothing(i) ==
  /\ timers[i].pc = "restore"
  /\ timers' = [timers EXCEPT ![i].pc = "reapply"]
  /\ UNCHANGED <<file, inForce, pending, saver, agreed>>

(* The old file is put back before the old address; neither failure is more than logged. *)
Restore(i) ==
  /\ timers[i].pc = "restore"
  /\ \/ file' = timers[i].previous
     \/ Happens("refuse") /\ UNCHANGED file
  /\ timers' = [timers EXCEPT ![i].pc = "reapply"]
  /\ UNCHANGED <<inForce, pending, saver, agreed>>

Reapply(i) ==
  /\ timers[i].pc = "reapply"
  /\ \/ inForce' = timers[i].previous
     \/ Happens("refuse") /\ inForce' \in {NoAddress, inForce}
  /\ timers' = [timers EXCEPT ![i] = Unarmed]
  /\ UNCHANGED <<file, pending, saver, agreed>>

-----------------------------------------------------------------------------
(* What is lost with the process, and with the machine. *)

Forgotten ==
  /\ pending' = None
  /\ saver' = [r \in Savers |-> AtRest]
  /\ timers' = [i \in Timers |-> Unarmed]

(* plexosd dies and is started again: the interface keeps its address. *)
DaemonCrash == Happens("crash") /\ Forgotten /\ UNCHANGED <<file, inForce, agreed>>

(* net::configure asks for a lease, whatever the file says. *)
RestartsOnLease == Happens("reboot") /\ Forgotten /\ inForce' = Leased /\ UNCHANGED <<file, agreed>>

Revert(i) == Wake(i) \/ Restore(i) \/ Reapply(i)

AddressNext ==
  \/ \E r \in Savers : (\E net \in Settings : Load(r, net)) \/ Store(r) \/ Apply(r) \/ Arm(r)
  \/ Confirm \/ Tick
  \/ \E i \in Timers : Revert(i)
  \/ DaemonCrash \/ RestartsOnLease

-----------------------------------------------------------------------------
(* A change awaiting confirmation always has a thread that will take it, no later than its
   deadline: however changes overlap, none stays provisional for ever. *)
PendingIsWatched ==
  pending # None => \E i \in Timers : timers[i].pc = "sleep" /\ timers[i].left <= pending.left

(* With nothing in flight the machine is where its configuration says, whoever is still asleep and whatever awaits
   confirmation. *)
StoredIsInForce == Busy \cup Reverting = {} => inForce = file

(* No save meets another, or a thread that undoes one, on a machine where nothing else goes wrong.  Saves one after
   another, each while the threads of those before it sleep, are orderly. *)
Orderly == faults \cap {"overlap", "refuse", "crash", "reboot"} = {}

(* Then the stored address is the one in force again, *)
OrderlyStoredIsInForce == Orderly => StoredIsInForce
(* and a machine nobody can reach comes back (addressing.rs, "without being able to lose it"). *)
OrderlyLost == Orderly /\ ~Answering(inForce)

(* An address that was confirmed stands, stored and in force, until somebody asks for another, though the threads of
   earlier trials still sleep and plexosd dies: "Confirmed, or superseded. Either way this thread has nothing to undo"
   (addressing.rs 102).  Of the confirmed that is so; a thread whose change was superseded undoes the one that took
   its place, and early. *)
ConfirmedStands ==
  faults \cap {"overlap", "refuse", "reboot"} = {} /\ agreed # Unset => file = agreed /\ inForce = agreed
=============================================================================
