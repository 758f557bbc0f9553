------------------------------- MODULE MCGround -------------------------------
(***************************************************************************)
(* The ground the appliance stands on, part by part: its disks, the table   *)
(* on one of them, its network, its address.  They share no state, so a     *)
(* behaviour is of one of them, named by a word of its faults, while the    *)
(* rest stay as they began.                                                 *)
(*                                                                          *)
(* Two drives beside the running disk; two networks that work, one that     *)
(* does not and one that is refused; a wireless card, a bridge and two      *)
(* wired cards; an address that is good, one nobody can reach, and one      *)
(* whose gateway is on another network.  Disks for a table of either sector *)
(* size, one sector too small and just large enough, and some of neither.   *)
(***************************************************************************)
EXTENDS Storage, PartitionTable, Wifi, Link, Certificate, AddressTrial

CONSTANTS Environments, own, film, blank, bridge, eth0, eth1, wlan, home, work, typo, wep, old

(* The wait for a cable, the radio, and the certificate that names the addresses they bring. *)
network == <<wifi, link, certificate>>
everything == <<faults, disks, table, network, address>>

Of(part, action, others) == Happens(part) /\ action /\ UNCHANGED <<faults, others>>

OfDisks(action)   == Of("disks", action, <<table, network, address>>)
OfTable(action)   == Of("table", action, <<disks, network, address>>)
OfRadio(action)   == Of("radio", action, <<disks, table, link, certificate, address>>)
OfWire(action)    == Of("cables", action, <<disks, table, wifi, certificate, address>>)
OfIssue(action)   == Of("addresses", action, <<disks, table, wifi, link, address>>)
OfAddress(action) == Of("trial", action, <<disks, table, network>>)

GroundInit ==
  /\ faults \in Environments
  /\ StorageInit /\ TableInit /\ WifiInit /\ LinkInit /\ CertificateInit /\ AddressInit
  /\ Happens("disks") \/ name = (CHOOSE n \in [Disks -> Names] : n[System] = SystemName /\ \A d, e \in Disks : n[d] = n[e] => d = e)
  /\ Happens("table") \/ making.disk.sectors = 20

GroundNext ==
  \/ OfDisks(StorageNext) \/ OfTable(TableNext)
  \/ OfRadio(WifiNext) \/ OfWire(LinkNext) \/ OfIssue(CertificateNext)
  \/ OfAddress(AddressNext)

(* Threads go on: the installer's, a job's of the radio, the wait for a cable, the console's issuer, a saver's and a
   revert's; a supplicant answers, and time passes for what is provisional. *)
Fairness ==
  /\ WF_everything(OfDisks(InstallThread /\ job.phase \in Working))
  /\ WF_everything(OfDisks(StartDaemon /\ UNCHANGED <<kernel, media_vars, job>>))
  /\ \A t \in Threads : WF_everything(OfRadio(Thread(t)))
  /\ \A s \in Supplicants : WF_everything(OfRadio(Supplicant(s)))
  /\ WF_everything(OfWire(Pass \/ LeasePoll))
  /\ WF_everything(OfIssue(ConsoleStarts \/ Issuing))
  /\ \A r \in Savers : WF_everything(OfAddress(Store(r) \/ Apply(r) \/ Arm(r)))
  /\ WF_everything(OfAddress(Tick))
  /\ \A i \in Timers : WF_everything(OfAddress(Revert(i)))

GroundSpec == GroundInit /\ [][GroundNext]_everything /\ Fairness

Sized(sectors, size) == [sectors |-> sectors, size |-> size]
MCTried == {Sized(20, 512), Sized(22153248, 512), Sized(22153249, 512), Sized(22153249, 520),
            Sized(2769156, 4096), Sized(2769157, 4096)}

MCKind == (own :> "appliance") @@ (film :> "library") @@ (blank :> "bare")
Keep(ssid, credential, right) == [ssid |-> ssid, credential |-> credential, right |-> right]
MCKept == (home :> Keep("home", "passphrase", TRUE)) @@ (work :> Keep("work", "none", TRUE)) @@
          (typo :> Keep("home", "passphrase", FALSE)) @@ (wep :> Keep("attic", "passphrase", TRUE)) @@
          (old :> Keep("home", "key", TRUE))
MCTakes == "home" :> {"SAE", "WPA-PSK"} @@ "work" :> {"NONE"} @@ "attic" :> {"other"}
Beam(ssid, signal, marks) == [ssid |-> ssid, signal |-> signal, marks |-> marks]
Out(beacons, complains)   == [beacons |-> beacons, complains |-> complains]
MCUsual == Out(<<Beam("home", -60, {"RSN", "PSK", "SAE", "Privacy"}), Beam("attic", -70, {"Privacy"})>>, FALSE)
MCPrints == {MCUsual, Out(<<>>, FALSE), Out(<<>>, TRUE), Out(<<Beam("home", NoSignal, {})>>, TRUE),
  Out(<<Beam("home", -70, {"RSN", "SAE", "Privacy"}), Beam("hidden", -40, {"WPA", "PSK"}), Beam("work", -50, {}),
        Beam("home", -60, {"RSN", "PSK", "Privacy"}), Beam("home", -60, {"RSN", "PSK", "802.1X"})>>, FALSE)}
MCPorts == <<bridge, eth0, eth1, wlan>>
MCStatics   == {"good", "unreachable", "no route"}
MCReachable == {"good"}
MCRoutable  == {"good", "unreachable"}
Everything  == {"overlap", "refuse", "crash", "reboot"}

With(part, faultsets) == {{part} \cup more : more \in faultsets}
MCEnvironments == UNION {
  With("disks", {{"libraries", "plug", "restart"}, {"libraries", "plug", "fail", "restart"}, {"libraries", "plug", "unknown"}, {"libraries", "shares", "restart"},
                 {"libraries", "overlap"}, {"media", "plug", "crash"}, {"media", "plug", "swap"},
                 {"install", "plug", "fail", "crash"}, {"install", "plug", "swap"}, {"install", "libraries"},
                 {"install", "unknown"}}),
  With("table", {{}, {"fail"}, {"power"}, {"fail", "power"}}),
  With("radio", {{}, {"fail"}, {"stubborn", "fail"}, {"die"}, {"crash"}, {"restart"}, {"air"}, {"upgraded", "fail"}}),
  With("cables", {{}, {"loose"}, {"objects"}, {"no-ip"}, {"no-client"}}),
  With("addresses", {{}, {"full"}, {"dies"}, {"power"}}),
  With("trial", {{}, {"crash"}, Everything})}

(* What one part promises is promised by the sum. *)

TypeOK == StorageTypeOK /\ TableTypeOK /\ WifiTypeOK /\ LinkTypeOK /\ CertificateTypeOK /\ AddressTypeOK

(* The running disk is left alone, a library shows the disk that was chosen for it, a disk that is called done has a
   whole system, and a medium stays where it is for whoever reads it. *)
DisksAreAsSaid == RunningDiskUntouched /\ LibraryIsWhatWasChosen /\ DoneIsWhole /\ ReaderKeepsItsMedium

(* A partition table is whole, whatever reached the disk, and has room for the layout. *)
TableIsAsSaid == TableIsOneOrTheOther /\ WrittenIsWhole /\ LayoutHasItsRoom

(* What the machine says of its network is so: one run has the radio, the network it remembers worked, no supplicant
   is at work that nobody can stop, "back on" names the network it is on, its page agrees with the radio and lists each
   name once, a cable is enough wherever the machine looks for one, and the fingerprint and the names it shows are those of the certificate it serves. *)
NetworkIsAsSaid ==
  /\ OneAtTheRadio /\ RememberedWorked /\ NoSupplicantOutOfReach /\ LandedWhereItSays
  /\ ReportAgrees /\ ListedOnce
  /\ CableIsEnough
  /\ ShownIsServed /\ CoversWhenWhole

(* An address on trial has a thread that ends the trial in time, afterwards the address in force is the stored one, and
   one that was confirmed is no longer undone. *)
TrialsEnd == PendingIsWatched /\ OrderlyStoredIsInForce /\ ConfirmedStands

(* What was set up stands: a folder somebody chose is shown once the machine serves again. *)
WhatWasSetUpStands == [][ConfiguredIsShown]_everything

(* What nobody has to help along ends: an installation, a run of the radio, a certificate for addresses that are gone,
   an address nobody can reach. *)
Unsettled == Installing \/ OnARun \/ Outdated \/ OrderlyLost
Settles == Unsettled ~> ~Unsettled
=============================================================================
