----------------------------- MODULE Ground_proofs -----------------------------
(***************************************************************************)
(* What the appliance stands on, proved for any disks, networks, cables,    *)
(* addresses and threads: an address on trial, the console's certificate,   *)
(* the wait for a cable, the radio, the table an installation writes, and,  *)
(* from Storage_proofs, the disks.  Each part has an invariant of its own,  *)
(* and since the parts share no state, those are invariants of the sum.     *)
(***************************************************************************)
EXTENDS MCGround, Storage_proofs, SequenceTheorems, WellFoundedInduction, TLAPS

-----------------------------------------------------------------------------
(* An address on trial.  Whoever is under way has settings in hand, not nothing. *)

ChangeInHand ==
  /\ \A r \in Savers : saver[r].pc # "idle" => saver[r].previous \in Settings /\ saver[r].wanted \in Settings
  /\ \A i \in Timers : timers[i].pc \in {"restore", "reapply"} => timers[i].previous \in Settings

(* Where nothing overlaps, is refused or reboots.  What is stored is in force, and what is on trial is that; only a crash in
   the middle of a save leaves them apart, and then nothing is on trial. *)
Agrees ==
  /\ ~Happens("crash") => inForce = file
  /\ pending # None => inForce = file /\ pending.applied = file

(* The saver that is under way is alone, no thread is about to wake, and it knows what is stored and in force. *)
SaverAlone(r) ==
  /\ saver[r].pc # "idle" =>
       /\ agreed = Unset /\ saver[r].wanted \in Routable \cup {Leased}
       /\ \A i \in Timers : timers[i].pc \in {"unarmed", "sleep"} /\ (timers[i].pc = "sleep" => timers[i].left # 0)
       /\ \A q \in Savers : saver[q].pc # "idle" => q = r
  /\ saver[r].pc = "store" => file = saver[r].previous /\ Agrees
  /\ saver[r].pc = "apply" => file = saver[r].wanted
  /\ saver[r].pc = "arm" => file = saver[r].wanted /\ inForce = file

(* So is the thread that undoes a change, though others sleep. *)
TimerAlone(i) ==
  /\ timers[i].pc \in {"restore", "reapply"} =>
       /\ pending = None /\ agreed = Unset
       /\ \A j \in Timers : timers[j].pc \in {"restore", "reapply"} => j = i
  /\ timers[i].pc = "reapply" => file = timers[i].previous

OneChange ==
  /\ \A r \in Savers : SaverAlone(r)
  /\ \A i \in Timers : TimerAlone(i)
  /\ pending # None => agreed = Unset
  /\ Busy \cup Reverting = {} => Agrees
  /\ agreed # Unset => file = agreed /\ inForce = agreed

Sole == faults \cap {"overlap", "refuse", "reboot"} = {}

TrialInv == AddressTypeOK /\ ChangeInHand /\ PendingIsWatched /\ (Sole => OneChange)

LEMMA TrialBegins == AddressInit => TrialInv
BY AddressAssumption, BoundAssumption
DEF AddressInit, TrialInv, AddressTypeOK, ChangeInHand, PendingIsWatched, OneChange, SaverAlone, TimerAlone, Agrees, Settings, AtRest,
    Unarmed, None, Leased, Unset

(* Nothing on trial is told apart from a change by what it goes back to. *)
LEMMA OnTrial ==
  ASSUME AddressTypeOK
  PROVE  /\ pending # None <=> pending.previous \in Settings
         /\ pending # None => pending.left \in 0..Window
BY AddressAssumption DEF AddressTypeOK, None, Settings, Leased, Unset

LEMMA ChangeTyped ==
  ASSUME AddressTypeOK, ChangeInHand, PendingIsWatched, AddressNext
  PROVE  AddressTypeOK' /\ ChangeInHand'
<1> USE AddressAssumption, BoundAssumption DEF AddressTypeOK, ChangeInHand, Settings, Leased, Unset, None
<1>1. ASSUME NEW r \in Savers, NEW net \in Settings, Load(r, net) PROVE AddressTypeOK' /\ ChangeInHand'
  BY <1>1 DEF Load, Answering, NoAddress
<1>2. ASSUME NEW r \in Savers, Store(r) \/ Apply(r) PROVE AddressTypeOK' /\ ChangeInHand'
  BY <1>2 DEF Store, Apply, SaverAt, Done, AtRest
<1>3. ASSUME NEW r \in Savers, Arm(r) PROVE AddressTypeOK' /\ ChangeInHand'
  <2>1. PICK i \in Timers : timers' = [timers EXCEPT ![i].pc = "sleep", ![i].left = Window]
    BY <1>3 DEF Arm, ArmWith, Sleeping, Spare
  <2>2. timers' = [j \in Timers |-> timers'[j]] /\ \A j \in Timers : j # i => timers'[j] = timers[j]
    BY <2>1
  <2>3. timers'[i] = [pc |-> "sleep", previous |-> timers[i].previous, left |-> Window]
    <3>1. timers[i] = [pc |-> timers[i].pc, previous |-> timers[i].previous, left |-> timers[i].left]
      OBVIOUS
    <3> QED
      BY <2>1, <3>1
  <2>4. \A j \in Timers : timers'[j] \in [pc : {"unarmed", "sleep", "restore", "reapply"}, previous : Settings \cup {Unset}, left : 0..Window]
    BY <2>2, <2>3
  <2>5. timers' \in [Timers -> [pc : {"unarmed", "sleep", "restore", "reapply"}, previous : Settings \cup {Unset}, left : 0..Window]]
    BY <2>2, <2>4
  <2> QED
    BY <1>3, <2>2, <2>3, <2>5 DEF Arm, ArmWith, Done, AtRest
<1>4. CASE Confirm
  BY <1>4 DEF Confirm
<1>5. CASE Tick
  BY <1>5, OnTrial DEF Tick, PendingIsWatched
<1>6. ASSUME NEW i \in Timers, Revert(i) PROVE AddressTypeOK' /\ ChangeInHand'
  BY <1>6 DEF Revert, Wake, Restore, Reapply, Unarmed
<1>7. CASE DaemonCrash \/ RestartsOnLease
  BY <1>7 DEF DaemonCrash, RestartsOnLease, Forgotten, AtRest, Unarmed
<1> QED
  BY <1>1, <1>2, <1>3, <1>4, <1>5, <1>6, <1>7 DEF AddressNext

LEMMA ChangeWatched ==
  ASSUME AddressTypeOK, PendingIsWatched, AddressNext
  PROVE  PendingIsWatched'
<1> USE BoundAssumption DEF AddressTypeOK, PendingIsWatched
<1>1. ASSUME NEW r \in Savers, Arm(r) PROVE PendingIsWatched'
  <2>1. PICK i \in Timers : timers' = [timers EXCEPT ![i].pc = "sleep", ![i].left = Window]
    BY <1>1 DEF Arm, ArmWith, Sleeping, Spare
  <2>2. timers'[i].pc = "sleep" /\ timers'[i].left = Window /\ pending'.left = Window
    BY <1>1, <2>1 DEF Arm, ArmWith
  <2> QED
    BY <2>2
<1>2. CASE Tick
  BY <1>2, OnTrial DEF Tick
<1>3. ASSUME NEW i \in Timers, Revert(i) PROVE PendingIsWatched'
  BY <1>3 DEF Revert, Wake, Restore, Reapply, Unarmed
<1> QED
  BY <1>1, <1>2, <1>3 DEF AddressNext, Load, Store, Apply, Confirm, DaemonCrash, RestartsOnLease, Forgotten

(* One change at a time: every step of it leaves the rest as it found them. *)
LEMMA ChangeAlone ==
  ASSUME TrialInv, Sole, AddressNext, UNCHANGED faults
  PROVE  OneChange'
<1> USE AddressAssumption, BoundAssumption DEF AddressTypeOK, ChangeInHand, Settings, Leased, Unset, None, TrialInv, OneChange
<1>0. ~Happens("overlap") /\ ~Happens("refuse") /\ ~Happens("reboot") /\ (Happens("crash") <=> Happens("crash")')
  BY DEF Sole, Happens
<1>1. /\ \A r \in Savers : SaverAlone(r)
      /\ \A i \in Timers : TimerAlone(i)
      /\ pending # None => agreed = Unset
      /\ (\A r \in Savers : saver[r].pc = "idle") /\ (\A i \in Timers : timers[i].pc \notin {"restore", "reapply"}) => Agrees
      /\ agreed # Unset => file = agreed /\ inForce = agreed
  BY DEF Busy, Reverting
<1>2. ASSUME \A r \in Savers : SaverAlone(r)', \A i \in Timers : TimerAlone(i)', pending' # None => agreed' = Unset,
             (\A r \in Savers : saver'[r].pc = "idle") /\ (\A i \in Timers : timers'[i].pc \notin {"restore", "reapply"}) => Agrees',
             agreed' # Unset => file' = agreed' /\ inForce' = agreed'
      PROVE  OneChange'
  BY <1>2 DEF Busy, Reverting
<1> HIDE DEF TrialInv, OneChange
<1>3. ASSUME NEW r \in Savers, NEW net \in Settings, Load(r, net) PROVE OneChange'
  BY <1>0, <1>1, <1>2, <1>3 DEF Load, SaverAlone, TimerAlone, Agrees, Busy, Due, Reverting, TrialInv
<1>4. ASSUME NEW r \in Savers, Store(r) PROVE OneChange'
  BY <1>0, <1>1, <1>2, <1>4 DEF Store, SaverAt, Done, AtRest, SaverAlone, TimerAlone, Agrees, TrialInv
<1>5. ASSUME NEW r \in Savers, Apply(r) PROVE OneChange'
  BY <1>0, <1>1, <1>2, <1>5 DEF Apply, SaverAt, Done, AtRest, SaverAlone, TimerAlone, Agrees, TrialInv
<1>6. ASSUME NEW r \in Savers, Arm(r) PROVE OneChange'
  <2>1. PICK i \in Timers : timers' = [timers EXCEPT ![i].pc = "sleep", ![i].left = Window]
    BY <1>6 DEF Arm, ArmWith, Sleeping, Spare
  <2> QED
    BY <1>0, <1>1, <1>2, <1>6, <2>1 DEF Arm, ArmWith, Done, AtRest, SaverAlone, TimerAlone, Agrees, TrialInv
<1>7. CASE Confirm
  BY <1>0, <1>1, <1>2, <1>7 DEF Confirm, SaverAlone, TimerAlone, Agrees, Busy, TrialInv
<1>8. CASE Tick
  BY <1>0, <1>1, <1>2, <1>8, OnTrial DEF Tick, SaverAlone, TimerAlone, Agrees, Busy, TrialInv
<1>9. ASSUME NEW i \in Timers, Wake(i) PROVE OneChange'
  <2>1. /\ timers[i].pc = "sleep" /\ timers[i].left = 0 /\ pending' = None
        /\ UNCHANGED <<file, inForce, saver, agreed>> /\ \A r \in Savers : saver[r].pc = "idle"
    BY <1>1, <1>9 DEF Wake, SaverAlone
  <2>2. CASE pending = None
    <3>1. timers' = [timers EXCEPT ![i] = Unarmed]
      BY <1>9, <2>2 DEF Wake
    <3> QED
      BY <1>0, <1>1, <1>2, <2>1, <2>2, <3>1 DEF Unarmed, SaverAlone, TimerAlone, Agrees, TrialInv
  <2>3. CASE pending # None
    <3>1. timers' = [timers EXCEPT ![i] = [pc |-> "restore", previous |-> pending.previous, left |-> 0]]
      BY <1>9, <2>3 DEF Wake
    <3>2. timers'[i].pc = "restore" /\ \A j \in Timers : j # i => timers'[j] = timers[j]
      BY <3>1 DEF TrialInv
    <3>3. agreed = Unset /\ \A j \in Timers : timers[j].pc \notin {"restore", "reapply"}
      BY <1>1, <2>3 DEF TimerAlone
    <3>4. (\A r \in Savers : SaverAlone(r)') /\ \A j \in Timers : TimerAlone(j)'
      BY <2>1, <3>2, <3>3 DEF SaverAlone, TimerAlone
    <3> QED
      BY <1>2, <2>1, <3>2, <3>3, <3>4
  <2> QED
    BY <2>2, <2>3
<1>10. ASSUME NEW i \in Timers, Restore(i) PROVE OneChange'
  BY <1>0, <1>1, <1>2, <1>10 DEF Restore, SaverAlone, TimerAlone, Agrees, TrialInv
<1>11. ASSUME NEW i \in Timers, Reapply(i) PROVE OneChange'
  BY <1>0, <1>1, <1>2, <1>11 DEF Reapply, Unarmed, SaverAlone, TimerAlone, Agrees, TrialInv
<1>12. CASE DaemonCrash
  BY <1>0, <1>1, <1>2, <1>12 DEF DaemonCrash, Forgotten, AtRest, Unarmed, SaverAlone, TimerAlone, Agrees, TrialInv
<1> QED
  BY <1>0, <1>3, <1>4, <1>5, <1>6, <1>7, <1>8, <1>9, <1>10, <1>11, <1>12 DEF AddressNext, Revert, RestartsOnLease

(* An address on trial, for any savers, revert threads and settings. *)
LEMMA TrialGoesOn ==
  ASSUME TrialInv, [AddressNext]_address, UNCHANGED faults
  PROVE  TrialInv'
<1>1. CASE AddressNext
  <2>1. AddressTypeOK' /\ ChangeInHand' /\ PendingIsWatched' /\ (Sole => OneChange')
    BY <1>1, ChangeTyped, ChangeWatched, ChangeAlone DEF TrialInv
  <2> QED
    BY <2>1 DEF TrialInv, Sole
<1>2. CASE UNCHANGED address
  BY <1>2 DEF address, TrialInv, AddressTypeOK, ChangeInHand, PendingIsWatched, OneChange, SaverAlone, TimerAlone, Agrees, Busy, Reverting,
              Sole, Happens
<1> QED
  BY <1>1, <1>2

-----------------------------------------------------------------------------
(* The console's certificate.  The key that is stored is the one in hand and the one whose fingerprint is shown. *)

Making == {"key", "reuse", "write-cert", "write-names"}

KeyIsKept ==
  /\ shown.fingerprint # NoKey => tls.key = shown.fingerprint
  /\ issuer.at \in {"reuse", "write-cert", "write-names", "remember", "install"} => issuer.key \in KeyPairs /\ tls.key = issuer.key
  /\ issuer.at = "write-key" => issuer.key \in KeyPairs /\ tls.key = NoKey
  /\ issuer.at \in {"off", "failed"} => served = NotServed
  /\ served # NotServed => served.key \in KeyPairs
  /\ issuer.at = "install" => shown.fingerprint = issuer.key
  /\ issuer.at \in {"write-cert", "write-names", "remember", "install"} => issuer.cert # NoCert

(* In a process that lasts, the names are written down once the certificate for them is, or are cut off, and a reissue is
   for others than those: so a stored certificate is never taken for one of other names. *)
NamesAreKept ==
  /\ tls.cert.key \in KeyPairs => tls.cert.key = tls.key
  /\ issuer.at \in {"write-cert", "write-names", "remember", "install"} => issuer.cert = [key |-> issuer.key, names |-> issuer.names]
  /\ issuer.at \in {"off", "failed"} => tls.names = Unknown
  /\ issuer.at \in Making \cup {"write-key"} =>
       IF served = NotServed THEN tls.names = Unknown
       ELSE tls.names \in {shown.covers, Unknown} /\ shown.covers # issuer.names /\ served.cert.names = shown.covers
  /\ issuer.at \in {"remember", "install"} => tls.names = issuer.names
  /\ issuer.at = "remember" /\ served # NotServed => served.cert.names = shown.covers
  /\ issuer.at = "install" => shown.covers = issuer.names
  /\ issuer.at = "watch" => tls.names \in {shown.covers, Unknown} /\ served # NotServed /\ served.cert.names = shown.covers

Lasting == ~Happens("dies") /\ ~Happens("power")
CertificateInv == CertificateTypeOK /\ ShownIsServed /\ KeyIsKept /\ (Lasting => NamesAreKept)

LEMMA CertificateBegins == CertificateInit => CertificateInv
BY AddressesAssumption
DEF CertificateInit, CertificateInv, CertificateTypeOK, ShownIsServed, KeyIsKept, NamesAreKept, Making, Off, Unshown, NotServed, NoCert,
    NoKey, Unknown, Truncated, KeyPairs, Certs, Coverage, Stages, Garbled

(* What the thread that issues goes on with. *)
Doing(at, names, key, cert) == [at |-> at, names |-> names, key |-> key, cert |-> cert]
Same(at) == Doing(at, issuer.names, issuer.key, issuer.cert)
OnFile(key, cert, names, spent) == [key |-> key, cert |-> cert, names |-> names, spent |-> spent]
GivenUp == Same(IF served = NotServed THEN "failed" ELSE "watch")

LEMMA IssuerGoesOn ==
  ASSUME CertificateTypeOK
  PROVE  /\ ConsoleStarts => issuer' = Doing("key", has, NoKey, NoCert)
         /\ Look => issuer' = Doing("key", has, issuer.key, issuer.cert)
         /\ LoadKey => \/ tls.key \in KeyPairs /\ issuer' = Doing("reuse", issuer.names, tls.key, issuer.cert)
                       \/ tls.key = NoKey /\ issuer' = Doing("write-key", issuer.names, NewKey, issuer.cert)
                       \/ tls.key = Truncated /\ issuer' = GivenUp
         /\ WriteKey => \/ issuer' = Same("reuse") /\ tls' = OnFile(issuer.key, tls.cert, tls.names, issuer.key)
                        \/ issuer' = GivenUp /\ \E key \in {tls.key, Truncated, issuer.key}, spent \in {tls.spent, issuer.key} :
                                               tls' = OnFile(key, tls.cert, tls.names, spent)
         /\ Reuse => IF Reusable THEN issuer' = Doing("remember", issuer.names, issuer.key, tls.cert)
                     ELSE issuer' = Doing("write-cert", issuer.names, issuer.key, [key |-> issuer.key, names |-> issuer.names])
         /\ WriteCert => \/ issuer' = Same("write-names") /\ tls' = OnFile(tls.key, issuer.cert, tls.names, tls.spent)
                         \/ issuer' = GivenUp /\ \E cert \in {tls.cert, Garbled} : tls' = OnFile(tls.key, cert, tls.names, tls.spent)
         /\ WriteNames => \/ issuer' = Same("remember") /\ tls' = OnFile(tls.key, tls.cert, issuer.names, tls.spent)
                          \/ issuer' = GivenUp /\ \E names \in {tls.names, Unknown} : tls' = OnFile(tls.key, tls.cert, names, tls.spent)
         /\ Remember => issuer' = Same("install")
         /\ Install => issuer' = IF issuer.cert.key = issuer.key THEN Same("watch") ELSE GivenUp
<1> USE DEF Doing, Same, OnFile, GivenUp, Then, Fails
<1>0. issuer = Same(issuer.at) /\ tls = [key |-> tls.key, cert |-> tls.cert, names |-> tls.names, spent |-> tls.spent]
  BY DEF CertificateTypeOK
<1>1. ConsoleStarts => issuer' = Doing("key", has, NoKey, NoCert)
  BY DEF ConsoleStarts, Off, names_for
<1>2. Look => issuer' = Doing("key", has, issuer.key, issuer.cert)
  BY <1>0 DEF Look, names_for
<1>3. LoadKey => \/ tls.key \in KeyPairs /\ issuer' = Doing("reuse", issuer.names, tls.key, issuer.cert)
                 \/ tls.key = NoKey /\ issuer' = Doing("write-key", issuer.names, NewKey, issuer.cert)
                 \/ tls.key = Truncated /\ issuer' = GivenUp
  <2>1. ASSUME LoadKey, NEW at, NEW key, issuer' = [issuer EXCEPT !.at = at, !.key = key] PROVE issuer' = Doing(at, issuer.names, key, issuer.cert)
    BY <1>0, <2>1
  <2>2. ASSUME LoadKey, Fails PROVE issuer' = GivenUp
    BY <1>0, <2>2
  <2>3. tls.key \in KeyPairs \/ tls.key = NoKey \/ tls.key = Truncated
    BY DEF CertificateTypeOK
  <2> QED
    BY <2>1, <2>2, <2>3 DEF LoadKey
<1>4. WriteKey => \/ issuer' = Same("reuse") /\ tls' = OnFile(issuer.key, tls.cert, tls.names, issuer.key)
                  \/ issuer' = GivenUp /\ \E key \in {tls.key, Truncated, issuer.key}, spent \in {tls.spent, issuer.key} :
                                         tls' = OnFile(key, tls.cert, tls.names, spent)
  <2>1. Wrote(issuer.key) = OnFile(issuer.key, tls.cert, tls.names, issuer.key)
    <3>1. ASSUME NEW x, x = [tls EXCEPT !.key = issuer.key, !.spent = issuer.key]
          PROVE  x = OnFile(issuer.key, tls.cert, tls.names, issuer.key)
      BY <1>0, <3>1
    <3> QED
      BY <3>1 DEF Wrote
  <2>2. tls = OnFile(tls.key, tls.cert, tls.names, tls.spent) /\ [tls EXCEPT !.key = Truncated] = OnFile(Truncated, tls.cert, tls.names, tls.spent)
    BY <1>0
  <2> HIDE DEF OnFile
  <2>3. (\E at : issuer' = [issuer EXCEPT !.at = at]) => issuer' = Same(issuer'.at)
    BY <1>0
  <2> QED
    BY <2>1, <2>2, <2>3, <1>0 DEF WriteKey
<1>5. Reuse => IF Reusable THEN issuer' = Doing("remember", issuer.names, issuer.key, tls.cert)
               ELSE issuer' = Doing("write-cert", issuer.names, issuer.key, [key |-> issuer.key, names |-> issuer.names])
  <2>1. ASSUME NEW at, NEW cert, issuer' = [issuer EXCEPT !.at = at, !.cert = cert] PROVE issuer' = Doing(at, issuer.names, issuer.key, cert)
    BY <1>0, <2>1
  <2> QED
    BY <2>1 DEF Reuse
<1>6. WriteCert => \/ issuer' = Same("write-names") /\ tls' = OnFile(tls.key, issuer.cert, tls.names, tls.spent)
                   \/ issuer' = GivenUp /\ \E cert \in {tls.cert, Garbled} : tls' = OnFile(tls.key, cert, tls.names, tls.spent)
  BY <1>0 DEF WriteCert
<1>8. WriteNames => \/ issuer' = Same("remember") /\ tls' = OnFile(tls.key, tls.cert, issuer.names, tls.spent)
                    \/ issuer' = GivenUp /\ \E names \in {tls.names, Unknown} : tls' = OnFile(tls.key, tls.cert, names, tls.spent)
  BY <1>0 DEF WriteNames
<1>7. (Remember => issuer' = Same("install")) /\ (Install => issuer' = IF issuer.cert.key = issuer.key THEN Same("watch") ELSE GivenUp)
  BY <1>0 DEF Remember, Install
<1> QED
  BY <1>1, <1>2, <1>3, <1>4, <1>5, <1>6, <1>7, <1>8

LEMMA ReissueIsTyped == ASSUME CertificateTypeOK, KeyIsKept, CertificateNext PROVE CertificateTypeOK'
<1> USE AddressesAssumption DEF CertificateTypeOK, Doing, Same, OnFile, GivenUp
<1>1. NoCert \in Certs /\ Garbled \in Certs /\ \A k \in KeyPairs, n \in Coverage : [key |-> k, names |-> n] \in Certs
  BY DEF Certs
<1>2. NewKey \in KeyPairs
  BY DEF KeyPairs, NewKey
<1>3. {"off", "key", "write-key", "reuse", "write-cert", "write-names", "remember", "install", "watch", "failed"} \subseteq Stages
  BY DEF Stages
<1>4. {} \in Coverage
  BY DEF Coverage
<1>5. CASE Readdressed
  BY <1>5 DEF Readdressed
<1>6. CASE ConsoleStarts \/ Look
  BY <1>1, <1>3, <1>6, IssuerGoesOn DEF ConsoleStarts, Look, Unshown
<1>7. CASE LoadKey
  <2>1. issuer.at = "key" /\ UNCHANGED <<has, moved, tls, shown, served>>
    BY <1>7 DEF LoadKey, Issuer
  <2>2. \/ tls.key \in KeyPairs /\ issuer' = Doing("reuse", issuer.names, tls.key, issuer.cert)
        \/ tls.key = NoKey /\ issuer' = Doing("write-key", issuer.names, NewKey, issuer.cert)
        \/ tls.key = Truncated /\ issuer' = GivenUp
    BY <1>7, IssuerGoesOn
  <2> QED
    BY <1>2, <1>3, <2>1, <2>2
<1>8. CASE WriteKey
  <2>1. issuer.at = "write-key" /\ UNCHANGED <<has, moved, shown, served>>
    BY <1>8 DEF WriteKey, Issuer
  <2>2. \/ issuer' = Same("reuse") /\ tls' = OnFile(issuer.key, tls.cert, tls.names, issuer.key)
        \/ issuer' = GivenUp /\ \E key \in {tls.key, Truncated, issuer.key}, spent \in {tls.spent, issuer.key} :
                               tls' = OnFile(key, tls.cert, tls.names, spent)
    BY <1>8, IssuerGoesOn
  <2> QED
    BY <1>3, <2>1, <2>2
<1>9. CASE Reuse
  <2>1. issuer.key \in KeyPairs
    BY <1>9 DEF Reuse, KeyIsKept, Issuer
  <2> QED
    BY <1>1, <1>3, <1>9, <2>1, IssuerGoesOn DEF Reuse
<1>10. CASE WriteCert \/ WriteNames
  <2>1. UNCHANGED <<has, moved, shown, served>>
    BY <1>10 DEF WriteCert, WriteNames
  <2>2. CASE WriteCert
    BY <1>1, <1>3, <2>1, <2>2, IssuerGoesOn
  <2>3. CASE WriteNames
    BY <1>1, <1>3, <2>1, <2>3, IssuerGoesOn
  <2> QED
    BY <1>10, <2>2, <2>3
<1>11. CASE Remember \/ Install
  BY <1>3, <1>11, IssuerGoesOn DEF Remember, Install
<1>12. CASE ConsoleDies \/ PowerFails
  <2>1. issuer' = Doing("off", {}, NoKey, NoCert) /\ served' = [key |-> NoKey, cert |-> NoCert] /\ shown' = [fingerprint |-> NoKey, covers |-> Unknown]
    BY <1>12 DEF ConsoleDies, PowerFails, Stopped, Off, NotServed, Unshown
  <2>2. tls' \in {tls, [tls EXCEPT !.key = Truncated], [tls EXCEPT !.cert = Garbled], [tls EXCEPT !.names = Unknown]}
    BY <1>12 DEF ConsoleDies, PowerFails, Unsynced
  <2> QED
    BY <1>1, <1>3, <1>4, <1>12, <2>1, <2>2 DEF ConsoleDies, PowerFails, Stopped
<1> QED
  BY <1>5, <1>6, <1>7, <1>8, <1>9, <1>10, <1>11, <1>12 DEF CertificateNext, Issuing

LEMMA ReissueKeepsTheKey == ASSUME CertificateTypeOK, ShownIsServed, KeyIsKept, CertificateNext PROVE ShownIsServed' /\ KeyIsKept'
<1> USE DEF CertificateTypeOK, ShownIsServed, KeyIsKept, Issuer, Doing, Same, OnFile, GivenUp
<1>1. NoKey \notin KeyPairs /\ Truncated \notin KeyPairs /\ NewKey \in KeyPairs /\ NoKey # Truncated
  BY DEF NoKey, Truncated, KeyPairs, NewKey
<1>2. CASE Readdressed
  BY <1>2 DEF Readdressed
<1>3. CASE ConsoleStarts \/ Look
  BY <1>3, IssuerGoesOn DEF ConsoleStarts, Look, Unshown
<1>4. CASE LoadKey
  <2>1. issuer.at = "key" /\ UNCHANGED <<has, moved, tls, shown, served>>
    BY <1>4 DEF LoadKey
  <2>2. \/ tls.key \in KeyPairs /\ issuer' = Doing("reuse", issuer.names, tls.key, issuer.cert)
        \/ tls.key = NoKey /\ issuer' = Doing("write-key", issuer.names, NewKey, issuer.cert)
        \/ tls.key = Truncated /\ issuer' = GivenUp
    BY <1>4, IssuerGoesOn
  <2> QED
    BY <1>1, <2>1, <2>2
<1>5. CASE WriteKey
  <2>1. issuer.at = "write-key" /\ UNCHANGED <<has, moved, shown, served>>
    BY <1>5 DEF WriteKey
  <2>2. \/ issuer' = Same("reuse") /\ tls' = OnFile(issuer.key, tls.cert, tls.names, issuer.key)
        \/ issuer' = GivenUp /\ \E key \in {tls.key, Truncated, issuer.key}, spent \in {tls.spent, issuer.key} :
                               tls' = OnFile(key, tls.cert, tls.names, spent)
    BY <1>5, IssuerGoesOn
  <2> QED
    BY <1>1, <2>1, <2>2
<1>6. CASE Reuse
  BY <1>1, <1>6, IssuerGoesOn DEF Reuse, Reusable, NoCert
<1>7. CASE WriteCert \/ WriteNames
  BY <1>7, IssuerGoesOn DEF WriteCert, WriteNames
<1>8. CASE Remember
  <2>1. issuer.at = "remember" /\ UNCHANGED <<has, moved, tls, served>> /\ shown' = [fingerprint |-> IF shown.fingerprint = NoKey THEN issuer.key ELSE shown.fingerprint, covers |-> issuer.names]
    BY <1>8 DEF Remember
  <2>2. issuer' = Same("install")
    BY <1>8, IssuerGoesOn
  <2> QED
    BY <1>1, <2>1, <2>2
<1>9. CASE Install
  <2>1. issuer.at = "install" /\ UNCHANGED <<has, moved, tls, shown>> /\ (IF issuer.cert.key = issuer.key THEN served' = [key |-> issuer.key, cert |-> issuer.cert] ELSE UNCHANGED served)
    BY <1>9 DEF Install
  <2>2. issuer' = IF issuer.cert.key = issuer.key THEN Same("watch") ELSE GivenUp
    BY <1>9, IssuerGoesOn
  <2> QED
    BY <1>1, <2>1, <2>2
<1>10. CASE ConsoleDies \/ PowerFails
  <2>1. issuer' = Doing("off", {}, NoKey, NoCert) /\ served' = NotServed /\ shown' = [fingerprint |-> NoKey, covers |-> Unknown]
    BY <1>10 DEF ConsoleDies, PowerFails, Stopped, Off, Unshown
  <2> QED
    BY <2>1
<1> QED
  BY <1>2, <1>3, <1>4, <1>5, <1>6, <1>7, <1>8, <1>9, <1>10 DEF CertificateNext, Issuing

LEMMA ReissueKeepsTheNames ==
  ASSUME CertificateTypeOK, KeyIsKept, Lasting, NamesAreKept, CertificateNext
  PROVE  NamesAreKept'
<1> USE DEF CertificateTypeOK, KeyIsKept, NamesAreKept, Making, Issuer, Doing, Same, OnFile, GivenUp
<1>1. NoKey \notin KeyPairs /\ Truncated \notin KeyPairs /\ NewKey \in KeyPairs /\ NoKey # Truncated
  BY DEF NoKey, Truncated, KeyPairs, NewKey
<1>2. Unknown \notin Coverage
  BY AddressesAssumption DEF Unknown, Coverage
<1>3. CASE Readdressed
  BY <1>3 DEF Readdressed
<1>4. CASE ConsoleStarts \/ Look
  BY <1>2, <1>4, IssuerGoesOn DEF ConsoleStarts, Look, Unshown, names_for
<1>5. CASE LoadKey
  <2>1. issuer.at = "key" /\ UNCHANGED <<has, moved, tls, shown, served>>
    BY <1>5 DEF LoadKey
  <2>2. \/ tls.key \in KeyPairs /\ issuer' = Doing("reuse", issuer.names, tls.key, issuer.cert)
        \/ tls.key = NoKey /\ issuer' = Doing("write-key", issuer.names, NewKey, issuer.cert)
        \/ tls.key = Truncated /\ issuer' = GivenUp
    BY <1>5, IssuerGoesOn
  <2> QED
    BY <1>1, <2>1, <2>2
<1>6. CASE WriteKey
  <2>1. issuer.at = "write-key" /\ UNCHANGED <<has, moved, shown, served>>
    BY <1>6 DEF WriteKey
  <2>2. \/ issuer' = Same("reuse") /\ tls' = OnFile(issuer.key, tls.cert, tls.names, issuer.key)
        \/ issuer' = GivenUp /\ \E key \in {tls.key, Truncated, issuer.key}, spent \in {tls.spent, issuer.key} :
                               tls' = OnFile(key, tls.cert, tls.names, spent)
    BY <1>6, IssuerGoesOn
  <2>3. tls.cert.key \notin KeyPairs
    BY <1>1, <2>1
  <2> QED
    BY <1>1, <2>1, <2>2, <2>3
<1>7. CASE Reuse
  BY <1>1, <1>2, <1>7, IssuerGoesOn DEF Reuse, Reusable
<1>8. CASE WriteCert \/ WriteNames
  <2>1. issuer.at \in {"write-cert", "write-names"} /\ (WriteCert => issuer.at = "write-cert") /\ (WriteNames => issuer.at = "write-names")
        /\ UNCHANGED <<has, moved, shown, served>>
    BY <1>8 DEF WriteCert, WriteNames
  <2>2. Garbled.key \notin KeyPairs
    BY <1>1 DEF Garbled
  <2>3. CASE WriteCert
    BY <1>1, <1>2, <2>1, <2>2, <2>3, IssuerGoesOn
  <2>4. CASE WriteNames
    BY <1>1, <1>2, <2>1, <2>4, IssuerGoesOn
  <2> QED
    BY <1>8, <2>3, <2>4
<1>9. CASE Remember
  <2>1. issuer.at = "remember" /\ UNCHANGED <<has, moved, tls, served>> /\ shown' = [fingerprint |-> IF shown.fingerprint = NoKey THEN issuer.key ELSE shown.fingerprint, covers |-> issuer.names]
    BY <1>9 DEF Remember
  <2>2. issuer' = Same("install")
    BY <1>9, IssuerGoesOn
  <2> QED
    BY <2>1, <2>2
<1>10. CASE Install
  <2>1. issuer.at = "install" /\ UNCHANGED <<has, moved, tls, shown>> /\ (IF issuer.cert.key = issuer.key THEN served' = [key |-> issuer.key, cert |-> issuer.cert] ELSE UNCHANGED served)
    BY <1>10 DEF Install
  <2>2. issuer' = IF issuer.cert.key = issuer.key THEN Same("watch") ELSE GivenUp
    BY <1>10, IssuerGoesOn
  <2>3. issuer.cert.key = issuer.key /\ issuer.cert.names = issuer.names /\ issuer.key # NoKey
    BY <1>1, <2>1
  <2>4. served' # NotServed /\ served'.cert.names = issuer.names
    BY <2>1, <2>3 DEF NotServed
  <2> QED
    BY <2>1, <2>2, <2>3, <2>4
<1> QED
  BY <1>3, <1>4, <1>5, <1>6, <1>7, <1>8, <1>9, <1>10 DEF CertificateNext, Issuing, Lasting, ConsoleDies, PowerFails

(* The certificate, for any addresses that come and go. *)
LEMMA CertificateGoesOn ==
  ASSUME CertificateInv, [CertificateNext]_certificate, UNCHANGED faults
  PROVE  CertificateInv'
<1>1. CASE CertificateNext
  BY <1>1, ReissueIsTyped, ReissueKeepsTheKey, ReissueKeepsTheNames DEF CertificateInv, Lasting, Happens
<1>2. CASE UNCHANGED certificate
  BY <1>2 DEF certificate, CertificateInv, CertificateTypeOK, ShownIsServed, KeyIsKept, NamesAreKept, Lasting, Happens, Issuer
<1> QED
  BY <1>1, <1>2

LEMMA CertificateIsAsShown == CertificateInv => ShownIsServed /\ CoversWhenWhole
BY DEF CertificateInv, CoversWhenWhole, NamesAreKept, Lasting

-----------------------------------------------------------------------------
(* The wait for a cable.  What a pass has seen of a port that can be brought up is no more than that has negotiated, and
   one that has negotiated long enough is found. *)

Raisable == ~Happens("no-ip") /\ ~Happens("objects")

PortInv(i) ==
  /\ port[i].since > 0 => port[i].up = TRUE
  /\ port[i].there = FALSE => wait.seen[i] = 0
  /\ Raisable => wait.seen[i] <= port[i].since

LinkInv ==
  /\ LinkTypeOK
  /\ wait.at = "link" => wait.pass < Passes /\ \A i \in 1..Len(Ports) : wait.seen[i] <= wait.pass
  /\ wait.at = "lease" => wait.pass <= LeasePolls
  /\ \A i \in 1..Len(Ports) : PortInv(i)
  /\ Happens("no-ip") => wait.said \notin {"no-adapter", "no-carrier", "not-up"}

LEMMA LinkBegins == LinkInit => LinkInv
BY LinkAssumption DEF LinkInit, LinkInv, LinkTypeOK, PortInv, Absent, Nobody

(* Of some numbers, one is the least. *)
LEMMA Least == ASSUME NEW S \in SUBSET Nat, S # {} PROVE \E i \in S : \A j \in S : i <= j
<1>1. PICK i \in S : \A j \in S : ~(<<j, i>> \in OpToRel(<, Nat))
  BY NatLessThanWellFounded, WFMin
<1>2. OpToRel(<, Nat) = {ss \in Nat \X Nat : ss[1] < ss[2]}
  BY DEF OpToRel
<1>3. ASSUME NEW j \in S PROVE ~(j < i)
  <2>1. <<j, i>> \in Nat \X Nat
    OBVIOUS
  <2> QED
    BY <1>1, <1>2, <2>1
<1> QED
  BY <1>3

(* A pass that finds nothing: of the ports that can be brought up, one with a cable has got on. *)
LEMMA PassGetsOn ==
  ASSUME LinkInv, Pass, preferred(candidates) = {}, port' = Negotiating(Raised(candidates)), NEW i \in 1..Len(Ports)
  PROVE  LET more == IF i \in candidates /\ i \in cable THEN wait.seen[i] + 1 ELSE 0 IN
         /\ port'[i] \in [there : BOOLEAN, up : BOOLEAN, since : 0..Negotiation]
         /\ port'[i].there = port[i].there
         /\ port'[i].since > 0 => port'[i].up = TRUE
         /\ port[i].there = FALSE => more = 0
         /\ Raisable => more <= port'[i].since
<1> USE LinkAssumption DEF LinkInv, LinkTypeOK, PortInv
<1> DEFINE up == Raised(candidates)
           live == port[i].up \/ i \in up
<1>1. port'[i] = [port[i] EXCEPT !.up = @ \/ i \in up, !.since = IF live /\ i \in cable /\ @ < Negotiation THEN @ + 1 ELSE @]
  BY DEF Negotiating
<1>2. port[i] = [there |-> port[i].there, up |-> port[i].up, since |-> port[i].since] /\ port[i].since \in 0..Negotiation
  OBVIOUS
<1>3. /\ port'[i].there = port[i].there /\ port'[i].up = live
      /\ port'[i].since = IF live /\ i \in cable /\ port[i].since < Negotiation THEN port[i].since + 1 ELSE port[i].since
      /\ port'[i] = [there |-> port'[i].there, up |-> port'[i].up, since |-> port'[i].since]
  BY <1>1, <1>2
<1>4. live \in BOOLEAN /\ port[i].there \in BOOLEAN
  OBVIOUS
<1>5. ~Carrier(i) \/ i \notin candidates
  <2>1. SUFFICES ASSUME Carrier(i), i \in candidates PROVE FALSE
    OBVIOUS
  <2>2. PICK j \in {k \in candidates : Carrier(k)} : \A k \in {l \in candidates : Carrier(l)} : j <= k
    <3>1. {k \in candidates : Carrier(k)} \in SUBSET Nat /\ {k \in candidates : Carrier(k)} # {}
      BY <2>1 DEF candidates
    <3> QED
      BY <3>1, Least
  <2> QED
    BY <2>2 DEF preferred
<1>6. ASSUME Raisable, i \in candidates, i \in cable PROVE wait.seen[i] + 1 <= port'[i].since
  <2>1. live = TRUE
    BY <1>4, <1>6 DEF Raised, Raisable, candidates
  <2>2. port[i].since < Negotiation
    BY <1>2, <1>5, <1>6 DEF Carrier, candidates
  <2> QED
    BY <1>2, <1>3, <1>6, <2>1, <2>2, SMTT(40)
<1>7. port[i].there = FALSE => i \notin candidates
  BY DEF candidates
<1>8. port'[i].since > 0 => port'[i].up = TRUE
  <2>1. CASE live = TRUE
    BY <1>3, <2>1
  <2>2. CASE live = FALSE
    BY <1>2, <1>3, <2>2
  <2> QED
    BY <1>4, <2>1, <2>2
<1>9. port'[i] \in [there : BOOLEAN, up : BOOLEAN, since : 0..Negotiation]
  <2>1. port'[i].since \in 0..Negotiation
    BY <1>2, <1>3
  <2> QED
    BY <1>3, <1>4, <2>1
<1> HIDE DEF live
<1> QED
  BY <1>2, <1>3, <1>6, <1>7, <1>8, <1>9

LEMMA LinkGoesOn ==
  ASSUME LinkInv, [LinkNext]_link, UNCHANGED faults
  PROVE  LinkInv'
<1> USE LinkAssumption DEF LinkInv, LinkTypeOK, PortInv, Raisable, Happens
<1>0. /\ wait = [at |-> wait.at, pass |-> wait.pass, found |-> wait.found, said |-> wait.said, seen |-> wait.seen]
      /\ wait.seen \in [1..Len(Ports) -> 0..Passes]
  OBVIOUS
<1>1. ASSUME NEW i \in 1..Len(Ports), Enumerates(i) PROVE LinkInv'
  <2>1. port[i].there = FALSE
    BY <1>1 DEF Enumerates
  <2>2. port' = [port EXCEPT ![i] = [there |-> TRUE, up |-> FALSE, since |-> 0]] /\ UNCHANGED <<cable, wait>>
    <3>1. ASSUME NEW new, new = [Absent EXCEPT !.there = TRUE] PROVE new = [there |-> TRUE, up |-> FALSE, since |-> 0]
      BY <3>1 DEF Absent
    <3> QED
      BY <1>1, <3>1 DEF Enumerates
  <2> QED
    BY <2>1, <2>2
<1>2. ASSUME NEW i \in 1..Len(Ports), Plugged(i) PROVE LinkInv'
  BY <1>2 DEF Plugged
<1>7. ASSUME NEW i \in 1..Len(Ports), Unplugged(i) PROVE LinkInv'
  <2>1. /\ port' = [port EXCEPT ![i].since = 0] /\ cable' = cable \ {i}
        /\ wait' = [wait EXCEPT !.seen = [wait.seen EXCEPT ![i] = 0]]
    BY <1>0, <1>7 DEF Unplugged
  <2>2. wait' = [at |-> wait.at, pass |-> wait.pass, found |-> wait.found, said |-> wait.said, seen |-> [wait.seen EXCEPT ![i] = 0]]
    BY <1>0, <2>1
  <2>3. [wait.seen EXCEPT ![i] = 0] \in [1..Len(Ports) -> 0..Passes]
    BY <1>0
  <2>4. LinkTypeOK'
    <3>1. port[i] = [there |-> port[i].there, up |-> port[i].up, since |-> port[i].since]
      OBVIOUS
    <3>2. port'[i] = [there |-> port[i].there, up |-> port[i].up, since |-> 0] /\ port' = [j \in 1..Len(Ports) |-> port'[j]]
          /\ \A j \in 1..Len(Ports) : j # i => port'[j] = port[j]
      BY <2>1, <3>1
    <3>3. port' \in [1..Len(Ports) -> [there : BOOLEAN, up : BOOLEAN, since : 0..Negotiation]]
      <4>1. \A j \in 1..Len(Ports) : port'[j] \in [there : BOOLEAN, up : BOOLEAN, since : 0..Negotiation]
        <5>1. port[i].there \in BOOLEAN /\ port[i].up \in BOOLEAN /\ 0 \in 0..Negotiation
          OBVIOUS
        <5>2. port'[i] \in [there : BOOLEAN, up : BOOLEAN, since : 0..Negotiation]
          BY <3>2, <5>1
        <5> QED
          BY <3>2, <5>2, ZenonT(60)
      <4> QED
        BY <3>2, <4>1
    <3> QED
      BY <2>1, <2>2, <2>3, <3>3
  <2>5. \A j \in 1..Len(Ports) : PortInv(j)'
    BY <1>0, <2>1, <2>2
  <2>6. \A j \in 1..Len(Ports) : wait'.seen[j] <= wait.seen[j]
    <3>1. ASSUME NEW j \in 1..Len(Ports) PROVE [wait.seen EXCEPT ![i] = 0][j] <= wait.seen[j]
      BY <1>0
    <3> QED
      BY <2>2, <3>1
  <2>7. wait'.at = wait.at /\ wait'.pass = wait.pass /\ wait'.said = wait.said
    BY <2>2
  <2>8. wait'.at = "link" => wait'.pass < Passes /\ \A j \in 1..Len(Ports) : wait'.seen[j] <= wait'.pass
    BY <1>0, <2>2, <2>7
  <2> QED
    BY <2>4, <2>5, <2>7, <2>8
<1>3. ASSUME Pass, NEW i \in preferred(candidates), wait' = dhcp(i), UNCHANGED port PROVE LinkInv'
  <2>1. i \in 1..Len(Ports)
    BY DEF preferred, candidates
  <2>2. wait' = [at |-> IF Happens("no-client") THEN "over" ELSE "lease", pass |-> 0, found |-> i, said |-> wait.said, seen |-> wait.seen]
    BY <1>0, <1>3 DEF dhcp
  <2> QED
    BY <1>3, <2>1, <2>2 DEF Pass
<1>4. ASSUME Pass, preferred(candidates) = {} PROVE LinkInv'
  <2> DEFINE seen == [i \in 1..Len(Ports) |-> IF i \in candidates /\ i \in cable THEN wait.seen[i] + 1 ELSE 0]
  <2>1. /\ port' = Negotiating(Raised(candidates)) /\ UNCHANGED cable /\ wait.at = "link"
        /\ wait' = IF wait.pass = Passes - 1 THEN [wait EXCEPT !.at = "over", !.said = Remedy(candidates), !.seen = seen]
                   ELSE [wait EXCEPT !.pass = @ + 1, !.seen = seen]
    BY <1>4 DEF Pass
  <2>2. port' \in [1..Len(Ports) -> [there : BOOLEAN, up : BOOLEAN, since : 0..Negotiation]]
    BY <1>4, <2>1, PassGetsOn DEF Negotiating
  <2>3. \A i \in 1..Len(Ports) : seen[i] \in 0..(wait.pass + 1)
    BY <2>1
  <2>4. \A i \in 1..Len(Ports) :
          /\ port'[i].since > 0 => port'[i].up = TRUE
          /\ port'[i].there = FALSE => seen[i] = 0
          /\ Raisable => seen[i] <= port'[i].since
    BY <1>4, <2>1, PassGetsOn
  <2> HIDE DEF seen
  <2>5. CASE wait.pass = Passes - 1
    <3>1. wait' = [at |-> "over", pass |-> wait.pass, found |-> wait.found, said |-> Remedy(candidates), seen |-> seen]
      BY <1>0, <2>1, <2>5
    <3>2. /\ Remedy(candidates) \in {"no-ip", "no-adapter", "no-carrier", "not-up"}
          /\ Happens("no-ip") => Remedy(candidates) = "no-ip"
      BY DEF Remedy
    <3>3. seen \in [1..Len(Ports) -> 0..Passes]
      BY <2>3, <2>5 DEF seen
    <3>4. LinkTypeOK'
      BY <2>1, <2>2, <3>1, <3>2, <3>3
    <3>5. \A i \in 1..Len(Ports) : PortInv(i)'
      BY <2>4, <3>1
    <3>6. wait'.at = "over" /\ wait'.said = Remedy(candidates)
      BY <3>1
    <3> QED
      BY <3>2, <3>4, <3>5, <3>6
  <2>6. CASE wait.pass # Passes - 1
    <3>1. wait' = [at |-> "link", pass |-> wait.pass + 1, found |-> wait.found, said |-> wait.said, seen |-> seen]
      BY <1>0, <2>1, <2>6
    <3>2. wait.pass + 1 < Passes /\ wait.pass + 1 \in 0..Passes + LeasePolls
      BY <2>1, <2>6
    <3>3. seen \in [1..Len(Ports) -> 0..Passes]
      BY <2>3, <3>2 DEF seen
    <3> QED
      BY <2>1, <2>2, <2>3, <2>4, <3>1, <3>2, <3>3
  <2> QED
    BY <2>5, <2>6
<1>5. CASE LeasePoll
  <2>1. wait.at = "lease" /\ UNCHANGED <<port, cable>> /\ wait.pass <= LeasePolls
    BY <1>5 DEF LeasePoll
  <2>2. \/ \E said \in {"leased", "no-lease"} :
             wait' = [at |-> "over", pass |-> wait.pass, found |-> wait.found, said |-> said, seen |-> wait.seen]
        \/ /\ wait.pass # LeasePolls
           /\ wait' = [at |-> "lease", pass |-> wait.pass + 1, found |-> wait.found, said |-> wait.said, seen |-> wait.seen]
    BY <1>0, <1>5, ZenonT(60) DEF LeasePoll
  <2> QED
    BY <1>0, <2>1, <2>2
<1>6. CASE UNCHANGED link
  BY <1>6 DEF link
<1> QED
  BY <1>1, <1>2, <1>3, <1>4, <1>5, <1>6, <1>7 DEF LinkNext, Pass

LEMMA CableIsFound == LinkInv => CableIsEnough
BY LinkAssumption, SMTT(40) DEF LinkInv, LinkTypeOK, PortInv, Raisable, CableIsEnough

-----------------------------------------------------------------------------
(* The radio. *)

(* A run has the radio alone, and the radio knows that it is there. *)
RunsAlone ==
  /\ \A t \in Threads : thread[t].at # "idle" =>
       power = "up" /\ radio.phase \in Running /\ \A u \in Threads : thread[u].at # "idle" => u = t
  /\ power = "down" => radio.phase = "idle"
  /\ radio.phase \in Running \cup {"idle"} => radio.landed = Nowhere

(* Whoever has the socket is at work or stopping. *)
SupplicantInv(s) ==
  /\ socket = s <=> proc[s].state \in {"trying", "associated", "stopping"}
  /\ proc[s].state # "none" => proc[s].network \in Networks

IsOn(n) == \E s \in Supplicants : proc[s].state = "associated" /\ proc[s].network = n

(* What a run has in hand: a child, which joins what it was started for, or will find the socket taken. *)
TaskInv(t) ==
  /\ thread[t].at \notin {"idle", "scan"} => thread[t].wanted \in Networks
  /\ thread[t].at = "associate" =>
       /\ thread[t].child \in Supplicants /\ proc[thread[t].child].network = thread[t].wanted
       /\ proc[thread[t].child].state \in {"starting", "trying", "associated", "exited"}
  /\ thread[t].at = "save" \/ (thread[t].at = "lease" /\ thread[t].going = "join") => thread[t].wanted \in joined
  /\ thread[t].at \in {"lease", "save"} /\ ~Happens("die") => IsOn(thread[t].wanted)

(* The list is what some scan made of what it heard, or there has been none. *)
HeardOnce == radio.networks = {} \/ \E out \in Prints : radio.networks = BestPerSsid(out.beacons)

WifiInv ==
  /\ WifiTypeOK /\ RunsAlone /\ HeardOnce
  /\ \A s \in Supplicants : SupplicantInv(s)
  /\ \A t \in Threads : TaskInv(t)
  /\ RememberedWorked /\ LandedWhereItSays

LEMMA WifiBegins == WifiInit => WifiInv
<1> SUFFICES ASSUME WifiInit PROVE WifiInv
  OBVIOUS
<1>1. saved \in Networks \cup {Nowhere} /\ power = "down" /\ socket = Nowhere /\ joined = {saved} \ {Nowhere}
      /\ proc = [s \in Supplicants |-> Gone] /\ radio = Unasked /\ thread = [t \in Threads |-> Resting]
  BY DEF WifiInit
<1>2. WifiTypeOK
  BY <1>1 DEF WifiTypeOK, Gone, Unasked, Resting, Processes, Jobs, Tasks, Running, Landed, Listing
<1>3. RunsAlone /\ HeardOnce
  BY <1>1 DEF RunsAlone, HeardOnce, Unasked, Resting, Running
<1>4. \A s \in Supplicants : SupplicantInv(s)
  BY <1>1, NetworksAssumption DEF SupplicantInv, Gone
<1>5. \A t \in Threads : TaskInv(t)
  BY <1>1 DEF TaskInv, Resting
<1>6. RememberedWorked /\ LandedWhereItSays
  BY <1>1 DEF RememberedWorked, LandedWhereItSays, Unasked, Nowhere
<1> QED
  BY <1>2, <1>3, <1>4, <1>5, <1>6 DEF WifiInv

(* What a thread has in hand, field by field. *)
Task(at, going, wanted, prior, child, security) ==
  [at |-> at, going |-> going, wanted |-> wanted, prior |-> prior, child |-> child, security |-> security]

LEMMA TaskOf ==
  ASSUME NEW q \in Tasks
  PROVE  q = Task(q.at, q.going, q.wanted, q.prior, q.child, q.security)
BY DEF Tasks, Task

LEMMA Going ==
  ASSUME WifiTypeOK, NEW t \in Threads, NEW to, Goes(t, to)
  PROVE  /\ thread'[t] = to /\ \A u \in Threads : u # t => thread'[u] = thread[u]
         /\ to \in Tasks => thread' \in [Threads -> Tasks]
BY DEF Goes, WifiTypeOK

LEMMA RestingIsATask == Resting \in Tasks
BY DEF Resting, Tasks

(* A run that goes on, and one that ends. *)
TurnOf(t)    == thread' \in [Threads -> Tasks] /\ \A u \in Threads : u # t => thread'[u] = thread[u]
RunGoesOn(t) == TurnOf(t) /\ thread'[t].at # "idle" /\ radio' \in Jobs /\ radio'.phase \in Running
                /\ radio'.landed = radio.landed /\ radio'.networks = radio.networks
RunEnds(t)   == TurnOf(t) /\ thread'[t] = Resting /\ radio' \in Jobs /\ radio'.phase \notin Running

LEMMA RadioIs ==
  ASSUME WifiTypeOK
  PROVE  /\ radio = [phase |-> radio.phase, landed |-> radio.landed, on |-> radio.on, networks |-> radio.networks]
         /\ radio.on \in Networks \cup {Nowhere} /\ radio.networks \in SUBSET Listing
         /\ radio.landed \in {Nowhere, "untouched", "unsaved"} \cup Landed
<1>1. radio \in Jobs
  BY DEF WifiTypeOK
<1> HIDE DEF Listing, Landed
<1>2. radio = [phase |-> radio.phase, landed |-> radio.landed, on |-> radio.on, networks |-> radio.networks]
  BY <1>1 DEF Jobs
<1>3. radio.on \in Networks \cup {Nowhere} /\ radio.networks \in SUBSET Listing
  BY <1>1 DEF Jobs
<1>4. radio.landed \in {Nowhere, "untouched", "unsaved"} \cup Landed
  BY <1>1 DEF Jobs
<1> QED
  BY <1>2, <1>3, <1>4

LEMMA RadioOf ==
  ASSUME NEW phase \in Running \cup {"idle", "connected", "failed"}, NEW landed \in {Nowhere, "untouched", "unsaved"} \cup Landed,
         NEW on \in Networks \cup {Nowhere}, NEW networks \in SUBSET Listing
  PROVE  [phase |-> phase, landed |-> landed, on |-> on, networks |-> networks] \in Jobs
BY DEF Jobs

LEMMA StepsOn ==
  ASSUME WifiTypeOK, NEW phase \in Running, Step(phase)
  PROVE  radio' \in Jobs /\ radio'.phase = phase /\ radio'.landed = radio.landed /\ radio'.networks = radio.networks
<1>1. radio' = [phase |-> phase, landed |-> radio.landed, on |-> radio.on, networks |-> radio.networks]
  <2>1. radio' = [radio EXCEPT !.phase = phase]
    BY DEF Step
  <2>2. radio = [phase |-> radio.phase, landed |-> radio.landed, on |-> radio.on, networks |-> radio.networks]
    BY RadioIs
  <2> QED
    BY <2>1, <2>2
<1>2. radio.landed \in {Nowhere, "untouched", "unsaved"} \cup Landed /\ radio.on \in Networks \cup {Nowhere} /\ radio.networks \in SUBSET Listing
  BY RadioIs
<1>3. radio' \in Jobs
  BY <1>1, <1>2, RadioOf
<1> QED
  BY <1>1, <1>3

LEMMA FailsOn ==
  ASSUME WifiTypeOK, NEW landed \in {Nowhere, "untouched", "unsaved"} \cup Landed, NEW on \in Networks \cup {Nowhere}, Fail(landed, on)
  PROVE  /\ radio' \in Jobs /\ radio'.phase = "failed" /\ radio'.phase \notin Running
         /\ radio'.landed = landed /\ radio'.on = on /\ radio'.networks = radio.networks
<1>1. radio' = [phase |-> "failed", landed |-> landed, on |-> on, networks |-> radio.networks]
  BY RadioIs DEF Fail
<1> QED
  BY <1>1, RadioIs, RadioOf DEF Running

LEMMA ConnectsOn ==
  ASSUME WifiTypeOK, NEW n \in Networks \cup {Nowhere}, Connected(n)
  PROVE  /\ radio' \in Jobs /\ radio'.phase = "connected" /\ radio'.phase \notin Running
         /\ radio'.landed = Nowhere /\ radio'.on = n /\ radio'.networks = radio.networks
<1>1. radio' = [phase |-> "connected", landed |-> Nowhere, on |-> n, networks |-> radio.networks]
  BY RadioIs DEF Connected
<1> QED
  BY <1>1, RadioIs, RadioOf DEF Running

LEMMA BeginsOn ==
  ASSUME WifiTypeOK, NEW phase \in Running, Begin(phase)
  PROVE  /\ radio' \in Jobs /\ radio'.phase = phase /\ radio.phase \notin Running
         /\ radio'.landed = Nowhere /\ radio'.networks = radio.networks
<1>1. radio' = [phase |-> phase, landed |-> Nowhere, on |-> Nowhere, networks |-> radio.networks]
  BY DEF Begin, Unasked
<1>2. radio.phase \notin Running
  BY DEF Begin
<1> QED
  BY <1>1, <1>2, RadioIs, RadioOf

(* An error: back to where the machine was, once, or the end. *)
LEMMA ErredGoes ==
  ASSUME WifiInv, NEW t \in Threads, Erred(t)
  PROVE  \/ RunGoesOn(t) /\ thread'[t].at = "release" /\ thread'[t].wanted \in Networks
         \/ RunEnds(t) /\ radio'.phase = "failed" /\ radio'.landed \in {Nowhere, "nothing-before", "adrift"} /\ radio'.networks = radio.networks
<1> DEFINE q == thread[t]
<1>0. WifiTypeOK /\ q \in Tasks
  BY DEF WifiInv, WifiTypeOK
<1>1. CASE q.going = "join" /\ q.prior # Nowhere
  <2>1. Goes(t, [q EXCEPT !.at = "release", !.going = "back", !.wanted = q.prior, !.child = Nowhere]) /\ Step("addressing")
    BY <1>1, Zenon DEF Erred
  <2>2. thread'[t] = [q EXCEPT !.at = "release", !.going = "back", !.wanted = q.prior, !.child = Nowhere]
    BY <1>0, <2>1, Going
  <2>3. thread'[t] = Task("release", "back", q.prior, q.prior, Nowhere, q.security)
    BY <1>0, <2>2, TaskOf, ZenonT(60) DEF Task
  <2>4. thread'[t] \in Tasks
    BY <1>0, <2>3 DEF Task, Tasks
  <2>5. q.prior \in Networks
    BY <1>0, <1>1 DEF Tasks
  <2>6. TurnOf(t)
    BY <1>0, <2>1, <2>2, <2>4, Going DEF TurnOf
  <2>7. radio' \in Jobs /\ radio'.phase \in Running /\ radio'.landed = radio.landed /\ radio'.networks = radio.networks
    <3>1. "addressing" \in Running
      BY DEF Running
    <3> QED
      BY <1>0, <2>1, <3>1, StepsOn
  <2> QED
    BY <2>3, <2>5, <2>6, <2>7 DEF Task, RunGoesOn
<1>2. ASSUME NEW landed \in {Nowhere, "nothing-before", "adrift"}, Fail(landed, Nowhere), Goes(t, Resting)
      PROVE  RunEnds(t) /\ radio'.phase = "failed" /\ radio'.landed \in {Nowhere, "nothing-before", "adrift"} /\ radio'.networks = radio.networks
  BY <1>0, <1>2, FailsOn, Going, RestingIsATask DEF RunEnds, TurnOf, Landed
<1>3. q.going \in {"join", "back", "rejoin"}
  BY <1>0 DEF Tasks
<1>4. CASE q.going = "join" /\ q.prior = Nowhere
  BY <1>2, <1>4, Zenon DEF Erred, FailedJoin
<1>5. CASE q.going = "back"
  <2>1. Fail("adrift", Nowhere) /\ Goes(t, Resting)
    BY <1>5 DEF Erred, FailedJoin
  <2> QED
    BY <1>2, <2>1
<1>6. CASE q.going = "rejoin"
  <2>1. Fail(Nowhere, Nowhere) /\ Goes(t, Resting)
    BY <1>6 DEF Erred
  <2> QED
    BY <1>2, <2>1
<1> QED
  BY <1>1, <1>3, <1>4, <1>5, <1>6

LEMMA Alone ==
  ASSUME WifiInv, NEW t \in Threads, thread[t].at # "idle"
  PROVE  /\ \A u \in Threads : u # t => thread[u].at = "idle"
         /\ power = "up" /\ radio.phase \in Running /\ radio.landed = Nowhere
BY DEF WifiInv, RunsAlone

(* What is left to show of a turn of the run. *)
LEMMA RunTurns ==
  ASSUME WifiInv, NEW t \in Threads, thread[t].at # "idle", UNCHANGED <<faults, power>>,
         \/ RunGoesOn(t)
         \/ RunEnds(t) /\ (radio'.phase = "idle" => radio'.landed = Nowhere) /\ LandedWhereItSays'
            /\ (radio'.networks = radio.networks \/ HeardOnce'),
         saved' \in Networks \cup {Nowhere}, proc' \in [Supplicants -> Processes], socket' \in Supplicants \cup {Nowhere, Corpse},
         joined' \subseteq Networks, saved' \in joined' \cup {Nowhere},
         TaskInv(t)', \A s \in Supplicants : SupplicantInv(s)'
  PROVE  WifiInv'
<1>1. \A u \in Threads : u # t => thread[u].at = "idle" /\ thread'[u].at = "idle"
  BY Alone DEF RunGoesOn, RunEnds, TurnOf
<1>2. power = "up" /\ radio.landed = Nowhere
  BY Alone
<1>3. \A u \in Threads : TaskInv(u)'
  BY <1>1 DEF TaskInv
<1>4. WifiTypeOK'
  BY DEF WifiInv, WifiTypeOK, RunGoesOn, RunEnds, TurnOf
<1>5. RunsAlone' /\ HeardOnce' /\ LandedWhereItSays'
  <2>1. CASE RunGoesOn(t)
    <3>1. RunsAlone'
      BY <1>1, <1>2, <2>1 DEF RunGoesOn, RunsAlone
    <3>2. HeardOnce'
      BY <2>1 DEF RunGoesOn, WifiInv, HeardOnce
    <3>3. LandedWhereItSays'
      BY <1>2, <2>1 DEF RunGoesOn, LandedWhereItSays, Running, Nowhere
    <3> QED
      BY <3>1, <3>2, <3>3
  <2>2. CASE /\ RunEnds(t) /\ LandedWhereItSays' /\ (radio'.phase = "idle" => radio'.landed = Nowhere)
             /\ radio'.networks = radio.networks \/ HeardOnce'
    <3>1. RunsAlone'
      BY <1>1, <1>2, <2>2 DEF RunEnds, RunsAlone, Resting
    <3>2. HeardOnce'
      BY <2>2 DEF RunEnds, WifiInv, HeardOnce
    <3> QED
      BY <2>2, <3>1, <3>2
  <2> QED
    BY <2>1, <2>2
<1> QED
  BY <1>3, <1>4, <1>5 DEF WifiInv, RememberedWorked

(* A failed run that claims nothing. *)
LEMMA EndsQuietly ==
  ASSUME NEW t \in Threads, RunEnds(t), radio'.phase = "failed" \/ (radio'.phase = "idle" /\ radio'.landed = Nowhere),
         radio'.landed \in {Nowhere, "untouched", "nothing-before", "adrift"}
  PROVE  (radio'.phase = "idle" => radio'.landed = Nowhere) /\ LandedWhereItSays' /\ TaskInv(t)'
<1>1. LandedWhereItSays'
  BY DEF LandedWhereItSays, Nowhere
<1>2. TaskInv(t)'
  BY DEF RunEnds, TaskInv, Resting
<1> QED
  BY <1>1, <1>2

(* The supplicants, where a run changes none of them. *)
LEMMA SupplicantsStay ==
  ASSUME WifiInv, NEW t \in Threads, thread[t].at \notin {"idle", "associate"}, UNCHANGED <<proc, socket>>
  PROVE  /\ \A s \in Supplicants : SupplicantInv(s)'
         /\ proc' \in [Supplicants -> Processes] /\ socket' \in Supplicants \cup {Nowhere, Corpse}
BY DEF WifiInv, WifiTypeOK, SupplicantInv

(* An error in a turn: what the thread has in hand afterwards is in order. *)
LEMMA ErredKeeps ==
  ASSUME WifiInv, NEW t \in Threads, thread[t].at # "idle", Erred(t), UNCHANGED <<faults, power, saved, joined>>,
         proc' \in [Supplicants -> Processes], socket' \in Supplicants \cup {Nowhere, Corpse}, \A s \in Supplicants : SupplicantInv(s)'
  PROVE  WifiInv'
<1>1. saved' \in Networks \cup {Nowhere} /\ joined' \subseteq Networks /\ saved' \in joined' \cup {Nowhere}
  BY DEF WifiInv, WifiTypeOK, RememberedWorked
<1>2. CASE RunGoesOn(t) /\ thread'[t].at = "release" /\ thread'[t].wanted \in Networks
  <2>1. TaskInv(t)'
    BY <1>2 DEF TaskInv
  <2> QED
    BY <1>1, <1>2, <2>1, RunTurns
<1>3. CASE RunEnds(t) /\ radio'.phase = "failed" /\ radio'.landed \in {Nowhere, "nothing-before", "adrift"} /\ radio'.networks = radio.networks
  BY <1>1, <1>3, EndsQuietly, RunTurns
<1> QED
  BY <1>2, <1>3, ErredGoes

LEMMA VetKeeps == ASSUME WifiInv, NEW t \in Threads, Vet(t) PROVE WifiInv'
<1>1. thread[t].at = "vet" /\ UNCHANGED <<power, saved, proc, socket, joined, faults>>
  BY DEF Vet, Thinks
<1>2. /\ saved' \in Networks \cup {Nowhere} /\ joined' \subseteq Networks /\ saved' \in joined' \cup {Nowhere}
      /\ WifiTypeOK /\ thread[t] \in Tasks
  BY <1>1 DEF WifiInv, WifiTypeOK, RememberedWorked
<1>3. CASE Fail("untouched", Nowhere) /\ Goes(t, Resting)
  <2>1. RunEnds(t) /\ radio'.phase = "failed" /\ radio'.landed = "untouched" /\ radio'.networks = radio.networks
    BY <1>2, <1>3, FailsOn, Going, RestingIsATask DEF RunEnds, TurnOf
  <2> QED
    BY <1>1, <1>2, <2>1, EndsQuietly, RunTurns, SupplicantsStay
<1>4. CASE Goes(t, [thread[t] EXCEPT !.at = "release", !.prior = saved, !.security = Nowhere]) /\ UNCHANGED radio
  <2>1. thread'[t] = [thread[t] EXCEPT !.at = "release", !.prior = saved, !.security = Nowhere]
    BY <1>2, <1>4, Going
  <2>2. thread'[t] = Task("release", thread[t].going, thread[t].wanted, saved, thread[t].child, Nowhere)
    <3>1. thread[t] = Task(thread[t].at, thread[t].going, thread[t].wanted, thread[t].prior, thread[t].child, thread[t].security)
      BY <1>2, TaskOf
    <3> QED
      BY <2>1, <3>1 DEF Task
  <2>3. thread'[t] \in Tasks /\ thread'[t].at = "release" /\ thread'[t].wanted \in Networks
    BY <1>1, <1>2, <2>2 DEF Task, Tasks, WifiInv, TaskInv
  <2>4. RunGoesOn(t)
    BY <1>1, <1>2, <1>4, <2>1, <2>3, Going, Alone DEF RunGoesOn, TurnOf, WifiTypeOK
  <2>5. TaskInv(t)'
    BY <2>3 DEF TaskInv
  <2> QED
    BY <1>1, <1>2, <2>4, <2>5, RunTurns, SupplicantsStay
<1> QED
  BY <1>3, <1>4 DEF Vet

LEMMA MovesOn ==
  ASSUME WifiTypeOK, NEW t \in Threads, NEW at \in {"release", "releasing", "start", "associate", "lease", "save"},
         Goes(t, [thread[t] EXCEPT !.at = at])
  PROVE  /\ TurnOf(t) /\ thread'[t].at = at /\ thread'[t].at # "idle" /\ thread'[t].going = thread[t].going
         /\ thread'[t].wanted = thread[t].wanted /\ thread'[t].child = thread[t].child
<1> DEFINE q == thread[t]
<1>1. q \in Tasks
  BY DEF WifiTypeOK
<1>2. thread'[t] = [q EXCEPT !.at = at]
  BY Going
<1>3. thread'[t] = Task(at, q.going, q.wanted, q.prior, q.child, q.security)
  BY <1>1, <1>2, TaskOf DEF Task
<1>4. thread'[t] \in Tasks
  BY <1>1, <1>3 DEF Task, Tasks
<1>5. TurnOf(t)
  BY <1>2, <1>4, Going DEF TurnOf
<1> QED
  BY <1>3, <1>5 DEF Task

(* A turn that leaves the radio as it is. *)
LEMMA RadioStays ==
  ASSUME WifiInv, NEW t \in Threads, thread[t].at # "idle", TurnOf(t), thread'[t].at # "idle", UNCHANGED radio
  PROVE  RunGoesOn(t)
BY Alone DEF RunGoesOn, WifiInv, WifiTypeOK

LEMMA ReleaseKeeps == ASSUME WifiInv, NEW t \in Threads, ReleaseSupplicant(t) PROVE WifiInv'
<1>1. thread[t].at = "release" /\ UNCHANGED <<power, saved, socket, radio, joined, faults>>
  BY DEF ReleaseSupplicant, Thinks
<1>2. /\ saved' \in Networks \cup {Nowhere} /\ joined' \subseteq Networks /\ saved' \in joined' \cup {Nowhere}
      /\ WifiTypeOK /\ socket' \in Supplicants \cup {Nowhere, Corpse} /\ proc \in [Supplicants -> Processes]
  BY <1>1 DEF WifiInv, WifiTypeOK, RememberedWorked
<1>3. thread[t].wanted \in Networks
  BY <1>1 DEF WifiInv, TaskInv
<1>4. CASE socket = Nowhere
  <2>1. Goes(t, [thread[t] EXCEPT !.at = "start"]) /\ UNCHANGED proc
    BY <1>4 DEF ReleaseSupplicant
  <2>2. TurnOf(t) /\ thread'[t].at = "start" /\ thread'[t].wanted = thread[t].wanted
    BY <1>2, <2>1, MovesOn
  <2>3. TaskInv(t)'
    BY <1>1, <1>3, <1>4, <2>2 DEF TaskInv
  <2> QED
    BY <1>1, <1>2, <2>1, <2>2, <2>3, RadioStays, RunTurns, SupplicantsStay
<1>5. CASE socket # Nowhere
  <2>1. Goes(t, [thread[t] EXCEPT !.at = "releasing"])
    BY <1>5 DEF ReleaseSupplicant
  <2>2. TurnOf(t) /\ thread'[t].at = "releasing" /\ thread'[t].wanted = thread[t].wanted
    BY <1>2, <2>1, MovesOn
  <2>3. TaskInv(t)'
    BY <1>3, <2>2 DEF TaskInv
  <2>4. proc' = [s \in Supplicants |-> IF s = socket THEN Terminated(s)[s] ELSE proc[s]]
    BY <1>5 DEF ReleaseSupplicant
  <2>5. ASSUME NEW s \in Supplicants
        PROVE  /\ proc'[s] \in Processes /\ proc'[s].network = proc[s].network
               /\ proc'[s].state = proc[s].state \/ (s = socket /\ proc'[s].state = "stopping")
    <3>1. proc[s] = [state |-> proc[s].state, network |-> proc[s].network] /\ proc[s] \in Processes
      BY <1>2 DEF Processes
    <3>2. CASE s # socket
      BY <2>4, <3>1, <3>2
    <3>3. CASE s = socket
      <4>1. proc'[s] = proc[s] \/ proc'[s] = [proc[s] EXCEPT !.state = "stopping"]
        BY <1>2, <2>4, <3>1, <3>3 DEF Terminated
      <4>2. CASE proc'[s] = [proc[s] EXCEPT !.state = "stopping"]
        <5>1. proc'[s] = [state |-> "stopping", network |-> proc[s].network]
          BY <3>1, <4>2
        <5> QED
          BY <3>1, <3>3, <5>1 DEF Processes
      <4> QED
        BY <3>1, <4>1, <4>2
    <3> QED
      BY <3>2, <3>3
  <2>6. proc' \in [Supplicants -> Processes]
    BY <2>4, <2>5
  <2>7. \A s \in Supplicants : SupplicantInv(s)'
    <3>1. \A s \in Supplicants : SupplicantInv(s)
      BY DEF WifiInv
    <3> QED
      BY <1>1, <2>5, <3>1 DEF SupplicantInv
  <2> QED
    BY <1>1, <1>2, <2>2, <2>3, <2>6, <2>7, RadioStays, RunTurns
<1> QED
  BY <1>4, <1>5

LEMMA ReleasedKeeps == ASSUME WifiInv, NEW t \in Threads, Released(t) PROVE WifiInv'
<1>1. thread[t].at = "releasing" /\ UNCHANGED <<power, saved, proc, joined, faults>>
  BY DEF Released, Thinks
<1>2. /\ saved' \in Networks \cup {Nowhere} /\ joined' \subseteq Networks /\ saved' \in joined' \cup {Nowhere}
      /\ WifiTypeOK /\ proc' \in [Supplicants -> Processes] /\ thread[t].wanted \in Networks
  BY <1>1 DEF WifiInv, WifiTypeOK, RememberedWorked, TaskInv
<1>3. CASE Erred(t) /\ UNCHANGED socket
  BY <1>1, <1>3, SupplicantsStay, ErredKeeps
<1>4. CASE /\ socket = Nowhere \/ ~Answers
           /\ socket' = Nowhere
           /\ Goes(t, [thread[t] EXCEPT !.at = "start"]) /\ UNCHANGED radio
  <2>1. TurnOf(t) /\ thread'[t].at = "start" /\ thread'[t].wanted = thread[t].wanted
    BY <1>2, <1>4, MovesOn
  <2>2. TaskInv(t)'
    BY <1>2, <1>4, <2>1 DEF TaskInv
  <2>3. \A s \in Supplicants : SupplicantInv(s)'
    <3>1. \A s \in Supplicants : SupplicantInv(s)
      BY DEF WifiInv
    <3> QED
      BY <1>1, <1>4, <3>1, NetworksAssumption DEF SupplicantInv, Answers
  <2>4. RunGoesOn(t)
    BY <1>1, <1>4, <2>1, RadioStays
  <2> QED
    BY <1>1, <1>2, <1>4, <2>2, <2>3, <2>4, RunTurns
<1> QED
  BY <1>3, <1>4 DEF Released

LEMMA ConnectFailsKeeps == ASSUME WifiInv, NEW t \in Threads, ConnectFails(t) PROVE WifiInv'
<1>1. thread[t].at \in {"release", "start"} /\ Erred(t) /\ UNCHANGED <<power, saved, proc, socket, joined, faults>>
  BY DEF ConnectFails, Thinks
<1> QED
  BY <1>1, SupplicantsStay, ErredKeeps

LEMMA SupplicantStartKeeps == ASSUME WifiInv, NEW t \in Threads, Start(t) PROVE WifiInv'
<1>1. thread[t].at = "start" /\ UNCHANGED <<power, saved, socket, joined, faults>>
  BY DEF Start, Thinks
<1>2. /\ saved' \in Networks \cup {Nowhere} /\ joined' \subseteq Networks /\ saved' \in joined' \cup {Nowhere}
      /\ WifiTypeOK /\ thread[t].wanted \in Networks /\ thread[t] \in Tasks /\ socket' \in Supplicants \cup {Nowhere, Corpse}
  BY <1>1 DEF WifiInv, WifiTypeOK, RememberedWorked, TaskInv
<1>3. PICK s \in Supplicants :
        /\ proc[s].state = "none"
        /\ proc' = [proc EXCEPT ![s] = [state |-> "starting", network |-> thread[t].wanted]]
        /\ Goes(t, [thread[t] EXCEPT !.at = "associate", !.child = s])
        /\ Step("addressing")
  BY DEF Start
<1>4. TurnOf(t) /\ thread'[t].at = "associate" /\ thread'[t].child = s /\ thread'[t].wanted = thread[t].wanted
  <2> DEFINE q == thread[t]
  <2>1. thread'[t] = [q EXCEPT !.at = "associate", !.child = s]
    BY <1>2, <1>3, Going
  <2>2. q = Task(q.at, q.going, q.wanted, q.prior, q.child, q.security)
    BY <1>2, TaskOf
  <2>3. thread'[t] = Task("associate", q.going, q.wanted, q.prior, s, q.security)
    BY <2>1, <2>2 DEF Task
  <2>4. thread'[t] \in Tasks
    BY <1>2, <2>3 DEF Task, Tasks
  <2>5. TurnOf(t)
    BY <1>2, <1>3, <2>1, <2>4, Going DEF TurnOf
  <2> QED
    BY <2>3, <2>5 DEF Task
<1>5. RunGoesOn(t)
  <2>1. "addressing" \in Running
    BY DEF Running
  <2> QED
    BY <1>2, <1>3, <1>4, <2>1, StepsOn DEF RunGoesOn
<1>6. proc' \in [Supplicants -> Processes] /\ proc'[s] = [state |-> "starting", network |-> thread[t].wanted]
      /\ \A v \in Supplicants : v # s => proc'[v] = proc[v]
  BY <1>2, <1>3 DEF WifiTypeOK, Processes
<1>7. TaskInv(t)'
  BY <1>1, <1>2, <1>4, <1>6 DEF TaskInv
<1>8. \A v \in Supplicants : SupplicantInv(v)'
  <2>1. \A v \in Supplicants : SupplicantInv(v)
    BY DEF WifiInv
  <2> QED
    BY <1>1, <1>2, <1>3, <1>4, <1>6, <2>1, NetworksAssumption DEF SupplicantInv
<1> QED
  BY <1>1, <1>2, <1>5, <1>6, <1>7, <1>8, RunTurns

(* The child of a run that waits for it, which has the socket if it is at work. *)
LEMMA Child ==
  ASSUME WifiInv, NEW t \in Threads, thread[t].at = "associate"
  PROVE  /\ thread[t].child \in Supplicants /\ thread[t].wanted \in Networks /\ proc[thread[t].child].network = thread[t].wanted
         /\ proc[thread[t].child].state \in {"starting", "trying", "associated", "exited"}
         /\ proc[thread[t].child].state \in {"trying", "associated"} => socket = thread[t].child
BY DEF WifiInv, TaskInv, SupplicantInv

LEMMA ExitedKeeps == ASSUME WifiInv, NEW t \in Threads, Exited(t) PROVE WifiInv'
<1> DEFINE s == thread[t].child
<1>1. /\ thread[t].at = "associate" /\ proc[s].state = "exited" /\ proc' = [proc EXCEPT ![s] = Gone] /\ Erred(t)
      /\ UNCHANGED <<power, saved, socket, joined, faults>>
  BY DEF Exited, Thinks
<1>2. s \in Supplicants
  BY <1>1, Child
<1> HIDE DEF s
<1>3. proc \in [Supplicants -> Processes] /\ socket' \in Supplicants \cup {Nowhere, Corpse} /\ Gone \in Processes
  BY <1>1 DEF WifiInv, WifiTypeOK, Gone, Processes
<1>4. proc' \in [Supplicants -> Processes] /\ proc'[s] = Gone /\ \A v \in Supplicants : v # s => proc'[v] = proc[v]
  BY <1>1, <1>2, <1>3
<1>5. \A v \in Supplicants : SupplicantInv(v)'
  <2>1. \A v \in Supplicants : SupplicantInv(v)
    BY DEF WifiInv
  <2> QED
    BY <1>1, <1>2, <1>4, <2>1 DEF SupplicantInv, Gone
<1> QED
  BY <1>1, <1>3, <1>4, <1>5, ErredKeeps

LEMMA TimesOutKeeps == ASSUME WifiInv, NEW t \in Threads, AssociationTimesOut(t) PROVE WifiInv'
<1> DEFINE s == thread[t].child
<1>1. /\ thread[t].at = "associate" /\ proc[s].state = "trying" /\ proc' = [proc EXCEPT ![s] = Gone] /\ Erred(t)
      /\ socket' = (IF socket # s THEN socket ELSE IF Happens("stubborn") THEN Corpse ELSE Nowhere)
      /\ UNCHANGED <<power, saved, joined, faults>>
  BY DEF AssociationTimesOut, Thinks
<1>2. s \in Supplicants
  BY <1>1, Child
<1> HIDE DEF s
<1>3. proc \in [Supplicants -> Processes] /\ socket' \in Supplicants \cup {Nowhere, Corpse} /\ Gone \in Processes
  BY <1>1 DEF WifiInv, WifiTypeOK, Gone, Processes
<1>4. proc' \in [Supplicants -> Processes] /\ proc'[s] = Gone /\ \A v \in Supplicants : v # s => proc'[v] = proc[v]
  BY <1>1, <1>2, <1>3
<1>5. \A v \in Supplicants : SupplicantInv(v)'
  <2>1. \A v \in Supplicants : SupplicantInv(v)
    BY DEF WifiInv
  <2>2. socket = s /\ socket' \in {Corpse, Nowhere}
    BY <1>1, <1>2, <2>1 DEF SupplicantInv
  <2> QED
    BY <1>1, <1>2, <1>4, <2>1, <2>2, NetworksAssumption DEF SupplicantInv, Gone
<1> QED
  BY <1>1, <1>3, <1>4, <1>5, ErredKeeps

LEMMA AssociatedKeeps == ASSUME WifiInv, NEW t \in Threads, Associated(t) PROVE WifiInv'
<1>1. /\ thread[t].at = "associate" /\ Settled /\ proc[thread[t].child].state # "exited" /\ socket \in Supplicants /\ proc[socket].state = "associated"
      /\ joined' = joined \cup {proc[socket].network} /\ Goes(t, [thread[t] EXCEPT !.at = "lease"]) /\ Step("addressing")
      /\ UNCHANGED <<power, saved, proc, socket, faults>>
  BY DEF Associated, Thinks
<1>2. /\ socket = thread[t].child /\ proc[socket].network = thread[t].wanted /\ thread[t].wanted \in Networks
  BY <1>1, Child DEF Settled
<1>3. /\ saved' \in Networks \cup {Nowhere} /\ joined' \subseteq Networks /\ saved' \in joined' \cup {Nowhere}
      /\ WifiTypeOK /\ proc' \in [Supplicants -> Processes] /\ socket' \in Supplicants \cup {Nowhere, Corpse}
  BY <1>1, <1>2 DEF WifiInv, WifiTypeOK, RememberedWorked
<1>4. /\ TurnOf(t) /\ thread'[t].at = "lease" /\ thread'[t].wanted = thread[t].wanted
  BY <1>1, <1>3, MovesOn
<1>5. RunGoesOn(t)
  <2>1. "addressing" \in Running
    BY DEF Running
  <2> QED
    BY <1>1, <1>3, <1>4, <2>1, StepsOn DEF RunGoesOn
<1>6. TaskInv(t)'
  BY <1>1, <1>2, <1>4 DEF TaskInv, IsOn
<1>7. \A v \in Supplicants : SupplicantInv(v)'
  BY <1>1, <1>2 DEF WifiInv, SupplicantInv
<1> QED
  BY <1>1, <1>3, <1>5, <1>6, <1>7, RunTurns

LEMMA LeaseKeeps == ASSUME WifiInv, NEW t \in Threads, Lease(t) PROVE WifiInv'
<1> DEFINE q == thread[t]
<1>1. thread[t].at = "lease" /\ UNCHANGED <<power, saved, proc, socket, joined, faults>>
  BY DEF Lease, Thinks
<1>2. /\ saved' \in Networks \cup {Nowhere} /\ joined' \subseteq Networks /\ saved' \in joined' \cup {Nowhere}
      /\ WifiTypeOK /\ q \in Tasks /\ q.wanted \in Networks
      /\ ~Happens("die") => IsOn(q.wanted)
      /\ q.going = "join" => q.wanted \in joined
  BY <1>1 DEF WifiInv, WifiTypeOK, RememberedWorked, TaskInv
<1>3. CASE Erred(t)
  BY <1>1, <1>3, SupplicantsStay, ErredKeeps
<1>4. CASE q.going = "join" /\ Goes(t, [q EXCEPT !.at = "save"]) /\ Step("addressing")
  <2>1. TurnOf(t) /\ thread'[t].at = "save" /\ thread'[t].wanted = q.wanted
    BY <1>2, <1>4, MovesOn
  <2>2. RunGoesOn(t)
    <3>1. "addressing" \in Running
      BY DEF Running
    <3> QED
      BY <1>2, <1>4, <2>1, <3>1, StepsOn DEF RunGoesOn
  <2>3. TaskInv(t)'
    BY <1>1, <1>2, <1>4, <2>1 DEF TaskInv, IsOn, Happens
  <2> QED
    BY <1>1, <1>2, <2>2, <2>3, SupplicantsStay, RunTurns
<1>5. CASE (Fail("back", q.wanted) \/ Connected(q.wanted)) /\ Goes(t, Resting)
  <2>1. RunEnds(t) /\ radio'.phase # "idle" /\ radio'.on = q.wanted /\ radio'.networks = radio.networks
    BY <1>2, <1>5, FailsOn, ConnectsOn, Going, RestingIsATask DEF RunEnds, TurnOf, Landed
  <2>2. TaskInv(t)'
    BY <2>1 DEF RunEnds, TaskInv, Resting
  <2>3. LandedWhereItSays'
    BY <1>1, <1>2, <2>1 DEF LandedWhereItSays, IsOn, Happens
  <2> QED
    BY <1>1, <1>2, <2>1, <2>2, <2>3, SupplicantsStay, RunTurns
<1>6. q.going \in {"join", "back", "rejoin"}
  BY <1>2 DEF Tasks
<1> QED
  <2>1. CASE q.going = "join"
    BY <1>3, <1>4, <2>1 DEF Lease
  <2>2. CASE q.going = "back"
    <3>1. Erred(t) \/ (Fail("back", q.wanted) /\ Goes(t, Resting))
      BY <2>2 DEF Lease, FailedJoin
    <3> QED
      BY <1>3, <1>5, <3>1
  <2>3. CASE q.going = "rejoin"
    <3>1. Erred(t) \/ (Connected(q.wanted) /\ Goes(t, Resting))
      BY <2>3 DEF Lease
    <3> QED
      BY <1>3, <1>5, <3>1
  <2> QED
    BY <1>6, <2>1, <2>2, <2>3

LEMMA WhatIsCutOff == ASSUME WifiInv, NEW left \in CutOff PROVE left \in joined \cup {Nowhere}
<1>1. ASSUME NEW t \in Threads, thread[t].at = "save"
      PROVE  thread[t].wanted \in joined
  BY <1>1 DEF WifiInv, TaskInv
<1> QED
  BY <1>1 DEF CutOff, WifiInv, RememberedWorked

LEMMA SaveKeeps == ASSUME WifiInv, NEW t \in Threads, Save(t) PROVE WifiInv'
<1> DEFINE n == thread[t].wanted
<1>1. thread[t].at = "save" /\ Goes(t, Resting) /\ UNCHANGED <<power, proc, socket, joined, faults>>
  BY DEF Save, Thinks
<1>2. /\ joined' \subseteq Networks /\ WifiTypeOK /\ n \in Networks /\ n \in joined
      /\ ~Happens("die") => IsOn(n)
  BY <1>1 DEF WifiInv, WifiTypeOK, TaskInv
<1> HIDE DEF n
<1>3. saved' \in Networks \cup {Nowhere} /\ saved' \in joined' \cup {Nowhere}
  <2>1. saved' = n \/ saved' \in CutOff
    BY DEF Save, Stored, n
  <2> QED
    BY <1>1, <1>2, <2>1, WhatIsCutOff DEF WifiInv, WifiTypeOK
<1>4. Connected(n) \/ Fail("unsaved", n)
  BY DEF Save, n
<1>5. RunEnds(t) /\ radio'.phase # "idle" /\ radio'.on = n /\ radio'.networks = radio.networks
  BY <1>1, <1>2, <1>4, FailsOn, ConnectsOn, Going, RestingIsATask DEF RunEnds, TurnOf, Landed
<1>6. TaskInv(t)'
  BY <1>5 DEF RunEnds, TaskInv, Resting
<1>7. LandedWhereItSays'
  BY <1>1, <1>2, <1>5 DEF LandedWhereItSays, IsOn, Happens
<1> QED
  BY <1>1, <1>2, <1>3, <1>5, <1>6, <1>7, SupplicantsStay, RunTurns

(* What a list is made of: each of what was heard has a name, and a security that is known. *)
LEMMA HeardIsListed ==
  ASSUME NEW out \in Prints
  PROVE  BestPerSsid(out.beacons) \subseteq Listing
<1>1. out.beacons \in Seq(Beacon)
  BY PrintsAssumption
<1> SUFFICES ASSUME NEW i \in DOMAIN out.beacons, out.beacons[i].ssid # "hidden"
             PROVE  Network(out.beacons[i]) \in Listing
  BY DEF BestPerSsid, Heard
<1>2. out.beacons[i] \in Beacon
  BY <1>1
<1>3. out.beacons[i].ssid \in Ssids /\ out.beacons[i].signal \in Int
  BY <1>2 DEF Beacon
<1>4. SecurityOf(out.beacons[i].marks) \in Securities
  BY DEF SecurityOf, Securities
<1> QED
  BY <1>3, <1>4 DEF Network, Listing

LEMMA ScanEndsKeeps == ASSUME WifiInv, NEW t \in Threads, ScanEnds(t) PROVE WifiInv'
<1>1. thread[t].at = "scan" /\ Goes(t, Resting) /\ UNCHANGED <<power, saved, proc, socket, joined, faults>>
  BY DEF ScanEnds, Thinks
<1>2. /\ saved' \in Networks \cup {Nowhere} /\ joined' \subseteq Networks /\ saved' \in joined' \cup {Nowhere} /\ WifiTypeOK
  BY <1>1 DEF WifiInv, WifiTypeOK, RememberedWorked
<1>3. CASE Fail("untouched", Nowhere)
  <2>1. RunEnds(t) /\ radio'.phase = "failed" /\ radio'.landed = "untouched" /\ radio'.networks = radio.networks
    BY <1>1, <1>2, <1>3, FailsOn, Going, RestingIsATask DEF RunEnds, TurnOf
  <2> QED
    BY <1>1, <1>2, <2>1, EndsQuietly, RunTurns, SupplicantsStay
<1>4. ASSUME NEW out \in Prints, radio' = [radio EXCEPT !.phase = "idle", !.networks = BestPerSsid(out.beacons)]
      PROVE  WifiInv'
  <2> DEFINE heard == BestPerSsid(out.beacons)
  <2>1. heard \in SUBSET Listing
    BY HeardIsListed
  <2>2. radio.landed = Nowhere
    BY <1>1, Alone
  <2>3. (radio'.networks = heard) => HeardOnce'
    BY DEF HeardOnce
  <2> HIDE DEF heard
  <2>4. radio' = [phase |-> "idle", landed |-> Nowhere, on |-> radio.on, networks |-> heard]
    <3>1. radio = [phase |-> radio.phase, landed |-> radio.landed, on |-> radio.on, networks |-> radio.networks]
      BY <1>2, RadioIs
    <3>2. radio' = [radio EXCEPT !.phase = "idle", !.networks = heard]
      BY <1>4 DEF heard
    <3> QED
      BY <2>2, <3>1, <3>2
  <2>5. RunEnds(t) /\ radio'.phase = "idle" /\ radio'.landed = Nowhere /\ HeardOnce'
    BY <1>1, <1>2, <2>1, <2>3, <2>4, RadioIs, RadioOf, Going, RestingIsATask DEF RunEnds, TurnOf, Running
  <2> QED
    BY <1>1, <1>2, <2>5, EndsQuietly, RunTurns, SupplicantsStay
<1>5. Usual \in Prints
  BY PrintsAssumption
<1> QED
  BY <1>3, <1>4, <1>5 DEF ScanEnds, Scanned

(* A run begins: there was none. *)
LEMMA NoRun ==
  ASSUME WifiInv, radio.phase \notin Running
  PROVE  \A t \in Threads : thread[t].at = "idle"
BY DEF WifiInv, RunsAlone

LEMMA RunBegins ==
  ASSUME WifiInv, NEW t \in Threads, NEW phase \in Running, Begin(phase), NEW to \in Tasks, Goes(t, to),
         to.at \in {"scan", "vet", "release"}, to.at # "scan" => to.wanted \in Networks,
         power' = "up", UNCHANGED <<saved, proc, socket, joined, faults>>
  PROVE  WifiInv'
<1>1. WifiTypeOK /\ radio' \in Jobs /\ radio'.phase = phase /\ radio.phase \notin Running /\ radio'.landed = Nowhere /\ radio'.networks = radio.networks
  BY BeginsOn DEF WifiInv
<1>2. thread' \in [Threads -> Tasks] /\ thread'[t] = to /\ \A u \in Threads : u # t => thread'[u] = thread[u]
  BY <1>1, Going
<1>3. \A u \in Threads : thread[u].at = "idle"
  BY <1>1, NoRun
<1>4. WifiTypeOK' /\ HeardOnce' /\ RememberedWorked'
  BY <1>1, <1>2 DEF WifiTypeOK, WifiInv, HeardOnce, RememberedWorked
<1>5. RunsAlone'
  BY <1>1, <1>2, <1>3 DEF RunsAlone
<1>6. LandedWhereItSays'
  BY <1>1 DEF LandedWhereItSays, Running, Nowhere
<1>7. \A u \in Threads : TaskInv(u)'
  BY <1>2, <1>3 DEF TaskInv
<1>8. \A s \in Supplicants : SupplicantInv(s)'
  BY DEF WifiInv, SupplicantInv
<1> QED
  BY <1>4, <1>5, <1>6, <1>7, <1>8 DEF WifiInv

LEMMA RestingIs == Resting = Task("idle", "join", Nowhere, Nowhere, Nowhere, Nowhere)
BY DEF Resting, Task

LEMMA BeginningKeeps == ASSUME WifiInv, NEW t \in Threads, Scan(t) \/ Join(t) \/ Rejoin(t) PROVE WifiInv'
<1>1. CASE Scan(t)
  <2>1. /\ Begin("scanning") /\ Goes(t, [Resting EXCEPT !.at = "scan"]) /\ power = "up"
        /\ UNCHANGED <<power, saved, proc, socket, joined, faults>>
    BY <1>1 DEF Scan, Thinks
  <2>2. radio.phase \notin Running
    BY <2>1 DEF Begin
  <2>3. [Resting EXCEPT !.at = "scan"] \in Tasks /\ [Resting EXCEPT !.at = "scan"].at = "scan"
    BY DEF Resting, Tasks
  <2> QED
    BY <2>1, <2>2, <2>3, NoRun, RunBegins DEF Running
<1>2. CASE Join(t)
  <2>1. PICK n \in Networks : \E security \in SaidOf(Kept[n].ssid) :
          /\ power = "up" /\ Begin("associating")
          /\ Goes(t, [Resting EXCEPT !.at = "vet", !.wanted = n, !.security = security])
          /\ UNCHANGED <<power, saved, proc, socket, joined, faults>>
    BY <1>2 DEF Join, Thinks
  <2>s. PICK security \in SaidOf(Kept[n].ssid) : Goes(t, [Resting EXCEPT !.at = "vet", !.wanted = n, !.security = security])
    BY <2>1
  <2>2. radio.phase \notin Running
    BY <2>1 DEF Begin
  <2>4. security \in Securities \cup {Nowhere}
    <3>1. radio.networks \subseteq Listing
      BY RadioIs DEF WifiInv
    <3> QED
      BY <3>1 DEF SaidOf, Listing
  <2> DEFINE to == [Resting EXCEPT !.at = "vet", !.wanted = n, !.security = security]
  <2>5. to = Task("vet", "join", n, Nowhere, Nowhere, security)
    <3>1. ASSUME NEW x, x = [Resting EXCEPT !.at = "vet", !.wanted = n, !.security = security]
          PROVE  x = Task("vet", "join", n, Nowhere, Nowhere, security)
      BY <3>1, RestingIs DEF Task
    <3> QED
      BY <3>1
  <2>6. to \in Tasks /\ to.at = "vet" /\ to.wanted = n
    BY <2>4, <2>5 DEF Task, Tasks
  <2> QED
    BY <2>1, <2>s, <2>2, <2>6, NoRun, RunBegins DEF Running
<1>3. CASE Rejoin(t)
  <2>1. /\ power = "down" /\ power' = "up"
        /\ UNCHANGED <<saved, proc, socket, joined, faults>>
    BY <1>3 DEF Rejoin
  <2>2. CASE saved = Nowhere
    <3>1. UNCHANGED <<radio, thread>>
      BY <1>3, <2>2 DEF Rejoin
    <3>2. \A u \in Threads : thread[u].at = "idle"
      BY <2>1 DEF WifiInv, RunsAlone
    <3>3. WifiTypeOK' /\ HeardOnce' /\ RememberedWorked' /\ LandedWhereItSays'
      BY <2>1, <3>1 DEF WifiInv, WifiTypeOK, HeardOnce, RememberedWorked, LandedWhereItSays, Happens
    <3>4. RunsAlone'
      BY <2>1, <3>1, <3>2 DEF WifiInv, RunsAlone
    <3>5. (\A u \in Threads : TaskInv(u)') /\ \A s \in Supplicants : SupplicantInv(s)'
      BY <2>1, <3>1, <3>2 DEF WifiInv, TaskInv, SupplicantInv
    <3> QED
      BY <3>3, <3>4, <3>5 DEF WifiInv
  <2>3. CASE saved # Nowhere
    <3>1. Begin("associating") /\ Goes(t, [Resting EXCEPT !.at = "release", !.going = "rejoin", !.wanted = saved])
      BY <1>3, <2>3 DEF Rejoin
    <3>2. saved \in Networks
      BY <2>3 DEF WifiInv, WifiTypeOK
    <3> DEFINE to == [Resting EXCEPT !.at = "release", !.going = "rejoin", !.wanted = saved]
    <3>3. to = Task("release", "rejoin", saved, Nowhere, Nowhere, Nowhere)
      <4>1. ASSUME NEW x, x = [Resting EXCEPT !.at = "release", !.going = "rejoin", !.wanted = saved]
            PROVE  x = Task("release", "rejoin", saved, Nowhere, Nowhere, Nowhere)
        BY <4>1, RestingIs DEF Task
      <4> QED
        BY <4>1
    <3>4. to \in Tasks /\ to.at = "release" /\ to.wanted = saved
      BY <3>2, <3>3 DEF Task, Tasks
    <3> QED
      BY <2>1, <3>1, <3>2, <3>4, RunBegins DEF Running
  <2> QED
    BY <2>2, <2>3
<1> QED
  BY <1>1, <1>2, <1>3

LEMMA ForgetKeeps == ASSUME WifiInv, Forget PROVE WifiInv'
<1>1. saved' = Nowhere /\ UNCHANGED <<power, proc, socket, radio, thread, joined, faults>>
  BY DEF Forget
<1>2. WifiTypeOK' /\ RunsAlone' /\ HeardOnce' /\ RememberedWorked'
  BY <1>1 DEF WifiInv, WifiTypeOK, RunsAlone, HeardOnce, RememberedWorked
<1>3. (\A s \in Supplicants : SupplicantInv(s)') /\ LandedWhereItSays'
  BY <1>1 DEF WifiInv, SupplicantInv, LandedWhereItSays, Happens
<1>4. \A t \in Threads : TaskInv(t)'
  BY <1>1 DEF WifiInv, TaskInv, IsOn, Happens
<1> QED
  BY <1>2, <1>3, <1>4 DEF WifiInv

(* plexosd dies, or the machine restarts. *)
LEMMA CrashKeeps == ASSUME WifiInv, DaemonCrashes \/ MachineRestarts PROVE WifiInv'
<1>1. /\ power' = "down" /\ radio' = Unasked /\ thread' = [t \in Threads |-> Resting] /\ saved' \in CutOff
      /\ UNCHANGED <<joined, faults>>
  BY DEF DaemonCrashes, MachineRestarts
<1>2. saved' \in joined' \cup {Nowhere} /\ saved' \in Networks \cup {Nowhere}
  BY <1>1, WhatIsCutOff DEF WifiInv, WifiTypeOK
<1>3. /\ proc' \in [Supplicants -> Processes] /\ socket' \in Supplicants \cup {Nowhere, Corpse}
      /\ \A s \in Supplicants : SupplicantInv(s)'
  <2>1. proc \in [Supplicants -> Processes] /\ socket \in Supplicants \cup {Nowhere, Corpse} /\ \A s \in Supplicants : SupplicantInv(s)
    BY DEF WifiInv, WifiTypeOK
  <2>2. CASE DaemonCrashes
    <3>1. proc' = [s \in Supplicants |-> IF proc[s].state = "exited" THEN Gone ELSE proc[s]] /\ socket' = socket
      BY <2>2 DEF DaemonCrashes
    <3> QED
      BY <1>1, <2>1, <3>1 DEF SupplicantInv, Processes, Gone
  <2>3. CASE MachineRestarts
    <3>1. proc' = [s \in Supplicants |-> Gone] /\ socket' = Nowhere
      BY <2>3 DEF MachineRestarts
    <3> QED
      BY <1>1, <2>1, <3>1, NetworksAssumption DEF SupplicantInv, Processes, Gone
  <2> QED
    BY <2>2, <2>3
<1>4. radio' \in Jobs /\ thread' \in [Threads -> Tasks]
  BY <1>1, RestingIsATask, RadioOf DEF Unasked
<1>5. WifiTypeOK'
  BY <1>1, <1>2, <1>3, <1>4 DEF WifiTypeOK, WifiInv
<1>6. RunsAlone' /\ HeardOnce'
  BY <1>1 DEF RunsAlone, HeardOnce, Unasked, Resting, Running
<1>7. \A t \in Threads : TaskInv(t)'
  BY <1>1 DEF TaskInv, Resting
<1>8. RememberedWorked' /\ LandedWhereItSays'
  BY <1>1, <1>2 DEF RememberedWorked, LandedWhereItSays, Unasked, Nowhere
<1> QED
  BY <1>3, <1>5, <1>6, <1>7, <1>8 DEF WifiInv

(* A supplicant moves, and the job does not: what is left to show. *)
LEMMA SupplicantMoves ==
  ASSUME WifiInv, NEW s \in Supplicants, NEW to \in Processes, UNCHANGED <<power, saved, radio, thread, joined, faults>>,
         proc' = [proc EXCEPT ![s] = to], socket' \in Supplicants \cup {Nowhere, Corpse},
         to.state = "associated" => to.network = proc[s].network,
         Happens("die") \/ (proc[s].state = "associated" => to.state = "associated"),
         \A v \in Supplicants : SupplicantInv(v)', \A t \in Threads : thread[t].at = "associate" => TaskInv(t)'
  PROVE  WifiInv'
<1>1. proc \in [Supplicants -> Processes]
  BY DEF WifiInv, WifiTypeOK
<1>2. proc' \in [Supplicants -> Processes] /\ proc'[s] = to /\ \A v \in Supplicants : v # s => proc'[v] = proc[v]
  BY <1>1
<1>3. WifiTypeOK' /\ RunsAlone' /\ HeardOnce' /\ RememberedWorked'
  BY <1>2 DEF WifiInv, WifiTypeOK, RunsAlone, HeardOnce, RememberedWorked
<1>4. ASSUME ~Happens("die"), NEW n, IsOn(n) PROVE IsOn(n)'
  <2>1. PICK v \in Supplicants : proc[v].state = "associated" /\ proc[v].network = n
    BY <1>4 DEF IsOn
  <2>2. proc'[v].state = "associated" /\ proc'[v].network = n
    BY <1>2, <1>4, <2>1
  <2> QED
    BY <2>2 DEF IsOn
<1>5. LandedWhereItSays'
  BY <1>4 DEF WifiInv, LandedWhereItSays, IsOn, Happens
<1>6. \A t \in Threads : TaskInv(t)'
  <2> SUFFICES ASSUME NEW t \in Threads, thread[t].at # "associate" PROVE TaskInv(t)'
    OBVIOUS
  <2>1. TaskInv(t) /\ thread' = thread /\ joined' = joined /\ (Happens("die")' <=> Happens("die"))
    BY DEF WifiInv, Happens
  <2>2. thread[t].at \in {"lease", "save"} /\ ~Happens("die") => IsOn(thread[t].wanted)'
    BY <1>4, <2>1 DEF TaskInv
  <2> QED
    BY <2>1, <2>2 DEF TaskInv, IsOn
<1> QED
  BY <1>3, <1>5, <1>6 DEF WifiInv

LEMMA OneProcess ==
  ASSUME NEW p \in Processes
  PROVE  p = [state |-> p.state, network |-> p.network] /\ p.network \in Networks \cup {Nowhere}
BY DEF Processes

LEMMA Became ==
  ASSUME NEW p \in Processes, NEW x, NEW y, y = [p EXCEPT !.state = x]
  PROVE  y = [state |-> x, network |-> p.network]
<1>1. p = [state |-> p.state, network |-> p.network]
  BY OneProcess
<1> QED
  BY <1>1

LEMMA TurnsInto ==
  ASSUME WifiTypeOK, NEW s \in Supplicants, NEW x, proc' = [proc EXCEPT ![s].state = x]
  PROVE  proc' = [proc EXCEPT ![s] = [state |-> x, network |-> proc[s].network]]
<1>1. proc \in [Supplicants -> Processes] /\ proc[s] \in Processes
  BY DEF WifiTypeOK
<1>2. [proc[s] EXCEPT !.state = x] = [state |-> x, network |-> proc[s].network]
  BY <1>1, Became
<1> QED
  BY <1>2, Zenon

(* One that ends is gone, or its exit status waits for the run it is the child of. *)
Ending(s, to) ==
  /\ proc' = [proc EXCEPT ![s] = to] /\ to.state \in {"none", "exited"} /\ (to.state = "exited" => to.network = proc[s].network)
  /\ (\E t \in Threads : thread[t].at = "associate" /\ thread[t].child = s) => to.state = "exited"

LEMMA HowItEnds == ASSUME WifiInv, NEW s \in Supplicants, proc' = Ended(s) PROVE \E to \in Processes : Ending(s, to)
<1> USE DEF Ending
<1>0. proc[s] \in Processes
  BY DEF WifiInv, WifiTypeOK
<1>1. CASE \E t \in Threads : thread[t].at = "associate" /\ thread[t].child = s
  <2> DEFINE out == [state |-> "exited", network |-> proc[s].network]
  <2>1. proc[s] = [state |-> proc[s].state, network |-> proc[s].network] /\ out \in Processes
    BY <1>0, OneProcess DEF Processes
  <2>2. proc' = [proc EXCEPT ![s] = out]
    <3>1. proc' = [proc EXCEPT ![s] = [proc[s] EXCEPT !.state = "exited"]]
      BY <1>1, Zenon DEF Ended
    <3>2. [proc[s] EXCEPT !.state = "exited"] = out
      BY <1>0, Became
    <3> QED
      BY <3>1, <3>2, Zenon
  <2> QED
    BY <2>1, <2>2
<1>2. CASE ~\E t \in Threads : thread[t].at = "associate" /\ thread[t].child = s
  BY <1>2 DEF Ended, Gone, Processes
<1> QED
  BY <1>1, <1>2

LEMMA BindsKeeps == ASSUME WifiInv, NEW s \in Supplicants, Binds(s) PROVE WifiInv'
<1>1. proc[s].state = "starting" /\ UNCHANGED <<power, saved, radio, thread, joined, faults>>
  BY DEF Binds
<1>2. proc \in [Supplicants -> Processes] /\ proc[s] \in Processes /\ socket \in Supplicants \cup {Nowhere, Corpse}
  BY DEF WifiInv, WifiTypeOK
<1>3. \A v \in Supplicants : SupplicantInv(v)
  BY DEF WifiInv
<1>4. CASE socket = Nowhere
  <2>1. socket' = s /\ proc' = [proc EXCEPT ![s].state = "trying"]
    BY <1>4 DEF Binds
  <2> DEFINE to == [state |-> "trying", network |-> proc[s].network]
  <2>2. proc[s] = [state |-> proc[s].state, network |-> proc[s].network] /\ to \in Processes
    BY <1>2, OneProcess DEF Processes
  <2>3. proc' = [proc EXCEPT ![s] = to]
    BY <2>1, TurnsInto DEF WifiInv
  <2>4. to.state = "trying" /\ to.network = proc[s].network
    OBVIOUS
  <2> HIDE DEF to
  <2>5. proc'[s] = to /\ \A v \in Supplicants : v # s => proc'[v] = proc[v]
    BY <1>2, <2>3
  <2>6. \A v \in Supplicants : SupplicantInv(v)'
    BY <1>1, <1>3, <1>4, <2>1, <2>4, <2>5, NetworksAssumption DEF SupplicantInv
  <2>7. \A t \in Threads : thread[t].at = "associate" => TaskInv(t)'
    <3> SUFFICES ASSUME NEW t \in Threads, thread[t].at = "associate" PROVE TaskInv(t)'
      OBVIOUS
    <3>1. TaskInv(t)
      BY DEF WifiInv
    <3> QED
      BY <1>1, <2>1, <2>4, <2>5, <3>1 DEF TaskInv
  <2> QED
    BY <1>1, <2>1, <2>2, <2>3, <2>4, <2>6, <2>7, SupplicantMoves
<1>5. CASE socket # Nowhere
  <2>1. socket' = socket /\ proc' = Ended(s)
    BY <1>5 DEF Binds
  <2>2. PICK to \in Processes : Ending(s, to)
    BY <2>1, HowItEnds
  <2>3. proc'[s] = to /\ (\A v \in Supplicants : v # s => proc'[v] = proc[v]) /\ proc' = [proc EXCEPT ![s] = to]
    BY <1>2, <2>2 DEF Ending
  <2>4. \A v \in Supplicants : SupplicantInv(v)'
    BY <1>1, <1>3, <2>1, <2>2, <2>3 DEF SupplicantInv, Ending
  <2>5. \A t \in Threads : thread[t].at = "associate" => TaskInv(t)'
    <3> SUFFICES ASSUME NEW t \in Threads, thread[t].at = "associate" PROVE TaskInv(t)'
      OBVIOUS
    <3>1. TaskInv(t)
      BY DEF WifiInv
    <3> QED
      BY <1>1, <2>2, <2>3, <3>1 DEF TaskInv, Ending
  <2>6. to.state # "associated"
    BY <2>2 DEF Ending
  <2> QED
    BY <1>1, <1>2, <2>1, <2>3, <2>4, <2>5, <2>6, SupplicantMoves
<1> QED
  BY <1>4, <1>5

LEMMA AssociatesKeeps == ASSUME WifiInv, NEW s \in Supplicants, Associates(s) PROVE WifiInv'
<1>1. proc[s].state = "trying" /\ proc' = [proc EXCEPT ![s].state = "associated"] /\ UNCHANGED <<power, saved, socket, radio, thread, joined, faults>>
  BY DEF Associates
<1>2. proc \in [Supplicants -> Processes] /\ proc[s] \in Processes /\ socket' \in Supplicants \cup {Nowhere, Corpse}
  BY <1>1 DEF WifiInv, WifiTypeOK
<1> DEFINE to == [state |-> "associated", network |-> proc[s].network]
<1>3. proc[s] = [state |-> proc[s].state, network |-> proc[s].network] /\ to \in Processes
  BY <1>2, OneProcess DEF Processes
<1>4. proc' = [proc EXCEPT ![s] = to]
  BY <1>1, TurnsInto DEF WifiInv
<1>5. to.state = "associated" /\ to.network = proc[s].network
  OBVIOUS
<1> HIDE DEF to
<1>6. proc'[s] = to /\ \A v \in Supplicants : v # s => proc'[v] = proc[v]
  BY <1>2, <1>4
<1>7. \A v \in Supplicants : SupplicantInv(v)'
  BY <1>1, <1>5, <1>6 DEF WifiInv, SupplicantInv
<1>8. \A t \in Threads : thread[t].at = "associate" => TaskInv(t)'
  <2> SUFFICES ASSUME NEW t \in Threads, thread[t].at = "associate" PROVE TaskInv(t)'
    OBVIOUS
  <2>1. TaskInv(t)
    BY DEF WifiInv
  <2> QED
    BY <1>1, <1>5, <1>6, <2>1 DEF TaskInv
<1> QED
  BY <1>1, <1>2, <1>3, <1>4, <1>5, <1>7, <1>8, SupplicantMoves

LEMMA StopsKeeps == ASSUME WifiInv, NEW s \in Supplicants, Stops(s) PROVE WifiInv'
<1>1. /\ proc[s].state = "stopping" /\ proc' = [proc EXCEPT ![s] = Gone] /\ UNCHANGED <<power, saved, radio, thread, joined, faults>>
      /\ socket' = IF socket = s THEN Nowhere ELSE socket
  BY DEF Stops
<1>2. proc \in [Supplicants -> Processes] /\ socket' \in Supplicants \cup {Nowhere, Corpse}
  BY <1>1 DEF WifiInv, WifiTypeOK
<1>3. Gone \in Processes /\ Gone.state = "none"
  BY DEF Gone, Processes
<1>4. proc'[s] = Gone /\ \A v \in Supplicants : v # s => proc'[v] = proc[v]
  BY <1>1, <1>2
<1>5. socket = s /\ socket' = Nowhere
  BY <1>1 DEF WifiInv, SupplicantInv
<1>6. \A v \in Supplicants : SupplicantInv(v)'
  BY <1>1, <1>3, <1>4, <1>5, NetworksAssumption DEF WifiInv, SupplicantInv
<1>7. \A t \in Threads : thread[t].at = "associate" => TaskInv(t)'
  <2> SUFFICES ASSUME NEW t \in Threads, thread[t].at = "associate" PROVE TaskInv(t)'
    OBVIOUS
  <2>1. TaskInv(t)
    BY DEF WifiInv
  <2> QED
    BY <1>1, <1>4, <1>5, <2>1, NetworksAssumption DEF TaskInv
<1> QED
  BY <1>1, <1>2, <1>3, <1>6, <1>7, SupplicantMoves

LEMMA DiesKeeps == ASSUME WifiInv, NEW s \in Supplicants, Dies(s) PROVE WifiInv'
<1>1. /\ Happens("die") /\ proc[s].state \in {"trying", "associated"} /\ proc' = Ended(s) /\ UNCHANGED <<power, saved, radio, thread, joined, faults>>
      /\ socket' = IF socket = s THEN Corpse ELSE socket
  BY DEF Dies, OnAir
<1>2. proc \in [Supplicants -> Processes] /\ proc[s] \in Processes /\ socket' \in Supplicants \cup {Nowhere, Corpse}
  BY <1>1 DEF WifiInv, WifiTypeOK
<1>3. PICK to \in Processes : Ending(s, to)
  BY <1>1, HowItEnds
<1>4. proc'[s] = to /\ \A v \in Supplicants : v # s => proc'[v] = proc[v]
  BY <1>2, <1>3 DEF Ending
<1>5. socket = s /\ socket' = Corpse
  BY <1>1 DEF WifiInv, SupplicantInv
<1>6. \A v \in Supplicants : SupplicantInv(v)'
  BY <1>1, <1>3, <1>4, <1>5, NetworksAssumption DEF WifiInv, SupplicantInv, Ending
<1>7. \A t \in Threads : thread[t].at = "associate" => TaskInv(t)'
  <2> SUFFICES ASSUME NEW t \in Threads, thread[t].at = "associate" PROVE TaskInv(t)'
    OBVIOUS
  <2>1. TaskInv(t)
    BY DEF WifiInv
  <2> QED
    BY <1>1, <1>3, <1>4, <1>5, <2>1 DEF TaskInv, Happens, Ending
<1>8. proc' = [proc EXCEPT ![s] = to] /\ to.state # "associated"
  BY <1>3 DEF Ending
<1> QED
  BY <1>1, <1>2, <1>6, <1>7, <1>8, SupplicantMoves

(* Every step of the radio keeps it. *)
LEMMA WifiGoesOn == ASSUME WifiInv, WifiNext PROVE WifiInv'
<1>1. ASSUME NEW t \in Threads, Thread(t) PROVE WifiInv'
  BY <1>1, VetKeeps, ScanEndsKeeps, ReleaseKeeps, ReleasedKeeps, SupplicantStartKeeps, ConnectFailsKeeps, ExitedKeeps, AssociatedKeeps,
     TimesOutKeeps, LeaseKeeps, SaveKeeps DEF Thread
<1>2. ASSUME NEW s \in Supplicants, Supplicant(s) \/ Dies(s) PROVE WifiInv'
  BY <1>2, BindsKeeps, AssociatesKeeps, StopsKeeps, DiesKeeps DEF Supplicant
<1> QED
  BY <1>1, <1>2, BeginningKeeps, ForgetKeeps, CrashKeeps DEF WifiNext

(* What follows from it. *)
LEMMA RadioIsOnes == WifiInv => OneAtTheRadio /\ NoSupplicantOutOfReach /\ LandedWhereItSays /\ RememberedWorked
BY DEF WifiInv, RunsAlone, OneAtTheRadio, NoSupplicantOutOfReach, OnAir, SupplicantInv

(* The page agrees with the radio: one that is associated is the one that is asked. *)
LEMMA PageAgrees == WifiInv => ReportAgrees
<1> SUFFICES ASSUME WifiInv PROVE ReportAgrees
  OBVIOUS
<1>1. \A s \in Supplicants : proc[s].state = "associated" => socket = s /\ proc[s].network \in Networks
  BY DEF WifiInv, SupplicantInv
<1>2. CASE socket \in Supplicants /\ proc[socket].state = "associated"
  <2>1. Status = proc[socket]
    BY <1>2 DEF Status
  <2>2. (CHOOSE s \in Supplicants : proc[s].state = "associated") = socket
    BY <1>1, <1>2
  <2>3. On = proc[socket].network /\ On # Nowhere
    BY <1>1, <1>2, <2>2, NetworksAssumption DEF On
  <2> QED
    BY <1>2, <2>1, <2>3 DEF ReportAgrees, Report
<1>3. CASE ~(socket \in Supplicants /\ proc[socket].state = "associated")
  <2>1. Status.state # "associated"
    BY <1>3 DEF Status, Gone
  <2>2. On = Nowhere
    BY <1>1, <1>3 DEF On
  <2> QED
    BY <2>1, <2>2 DEF ReportAgrees, Report
<1> QED
  BY <1>2, <1>3

(* Of the beacons of one name one is the best, and it is as strong as any of them. *)
LEMMA BestIsOne ==
  ASSUME NEW out \in Prints
  PROVE  /\ \A d, e \in BestPerSsid(out.beacons) : d.ssid = e.ssid => d = e
         /\ \A e \in BestPerSsid(out.beacons) : \E i \in Heard(out.beacons) :
              /\ Network(out.beacons[i]) = e
              /\ \A j \in Heard(out.beacons) : out.beacons[j].ssid = e.ssid => out.beacons[j].signal <= e.signal
<1> DEFINE B == out.beacons
<1>1. B \in Seq(Beacon)
  BY PrintsAssumption
<1> HIDE DEF B
<1>2. \A i \in Heard(B) : i \in Int /\ B[i].signal \in Int
  <2> SUFFICES ASSUME NEW i \in DOMAIN B PROVE i \in Int /\ B[i].signal \in Int
    BY DEF Heard
  <2>1. i \in Int /\ B[i] \in Beacon
    BY <1>1
  <2> QED
    BY <2>1 DEF Beacon
<1> DEFINE Best(i) == i \in Heard(B) /\ \A j \in Heard(B) : B[j].ssid = B[i].ssid => Outdoes(B, i, j)
<1>3. \A e \in BestPerSsid(B) : \E i \in Heard(B) : Best(i) /\ e = Network(B[i])
  BY DEF BestPerSsid
<1>4. \A i \in Heard(B) : Network(B[i]).ssid = B[i].ssid /\ Network(B[i]).signal = B[i].signal
  BY DEF Network
<1>5. ASSUME NEW i \in Heard(B), NEW j \in Heard(B), Best(i), Best(j), B[i].ssid = B[j].ssid
      PROVE  i = j
  BY <1>2, <1>5 DEF Outdoes
<1>6. ASSUME NEW i \in Heard(B), Best(i), NEW j \in Heard(B), B[j].ssid = B[i].ssid
      PROVE  B[j].signal <= B[i].signal
  BY <1>2, <1>6 DEF Outdoes
<1> HIDE DEF Best
<1>7. \A d, e \in BestPerSsid(B) : d.ssid = e.ssid => d = e
  BY <1>3, <1>4, <1>5
<1>8. \A e \in BestPerSsid(B) : \E i \in Heard(B) :
        Network(B[i]) = e /\ \A j \in Heard(B) : B[j].ssid = e.ssid => B[j].signal <= e.signal
  BY <1>3, <1>4, <1>6
<1> QED
  BY <1>7, <1>8 DEF B

LEMMA ListIsOfAScan == WifiInv => ListedOnce
<1> SUFFICES ASSUME WifiInv PROVE ListedOnce
  OBVIOUS
<1>1. CASE radio.networks = {}
  BY <1>1 DEF ListedOnce
<1>2. CASE \E out \in Prints : radio.networks = BestPerSsid(out.beacons)
  <2>1. PICK out \in Prints : radio.networks = BestPerSsid(out.beacons)
    BY <1>2
  <2>2. \A d, e \in radio.networks : d.ssid = e.ssid => d = e
    BY <2>1, BestIsOne
  <2>3. \A e \in radio.networks : \E i \in Heard(out.beacons) :
          /\ Network(out.beacons[i]) = e
          /\ \A j \in Heard(out.beacons) : out.beacons[j].ssid = e.ssid => out.beacons[j].signal <= e.signal
    BY <2>1, BestIsOne
  <2> QED
    BY <2>2, <2>3 DEF ListedOnce
<1> QED
  BY <1>1, <1>2 DEF WifiInv, HeardOnce

LEMMA WifiKept ==
  ASSUME WifiInv, [WifiNext]_wifi, UNCHANGED faults
  PROVE  WifiInv'
<1>1. CASE WifiNext
  BY <1>1, WifiGoesOn
<1>2. CASE UNCHANGED wifi
  <2>1. WifiTypeOK' /\ RunsAlone' /\ HeardOnce' /\ RememberedWorked' /\ LandedWhereItSays'
    BY <1>2 DEF wifi, WifiInv, WifiTypeOK, RunsAlone, HeardOnce, RememberedWorked, LandedWhereItSays, Happens
  <2>2. (\A s \in Supplicants : SupplicantInv(s)') /\ \A t \in Threads : TaskInv(t)'
    BY <1>2 DEF wifi, WifiInv, SupplicantInv, TaskInv, IsOn, Happens
  <2> QED
    BY <2>1, <2>2 DEF WifiInv
<1> QED
  BY <1>1, <1>2

-----------------------------------------------------------------------------
(* The partition table.  For a disk of any size the plan is arithmetic on mebibytes; what is written is then five regions
   at places of their own, and whichever of them are there, a header that is believed speaks for one table. *)

(* What the plan comes to: the mebibyte each partition starts at, the first being free for the table. *)
Starts == <<1, 513, 1537, 1569, 2593, 2625>>
OfASize(disk) == disk.size \in {512, 4096} /\ disk.sectors \in Nat
Slot(disk, i, last) == [spec |-> Layout[i], first |-> Starts[i] * PerMib(disk), last |-> last]

LEMMA SectorsPer ==
  ASSUME NEW disk, OfASize(disk)
  PROVE  /\ PerMib(disk) \in {256, 2048} /\ ArraySectors(disk) \in {4, 32}
         /\ Up(FirstUsable(disk), PerMib(disk)) = PerMib(disk)
         /\ FirstUsable(disk) = 2 + ArraySectors(disk) /\ FirstUsable(disk) < PerMib(disk)
         /\ LastUsable(disk) = disk.sectors - ArraySectors(disk) - 2 /\ LastUsable(disk) \in Int
<1>1. CASE disk.size = 512
  <2>1. PerMib(disk) = 2048 /\ ArraySectors(disk) = 32
    BY <1>1 DEF PerMib, ArraySectors
  <2>2. Up(34, 2048) = 2048
    BY DEF Up
  <2> QED
    BY <2>1, <2>2 DEF OfASize, FirstUsable, LastUsable
<1>2. CASE disk.size = 4096
  <2>1. PerMib(disk) = 256 /\ ArraySectors(disk) = 4
    BY <1>2 DEF PerMib, ArraySectors
  <2>2. Up(6, 256) = 256
    BY DEF Up
  <2> QED
    BY <2>1, <2>2 DEF OfASize, FirstUsable, LastUsable
<1> QED
  BY <1>1, <1>2 DEF OfASize

(* What is aligned stays where it is. *)
LEMMA UpOfAligned ==
  ASSUME NEW by \in {256, 2048}, NEW k \in Nat
  PROVE  Up(k * by, by) = k * by
<1>1. CASE by = 256
  BY <1>1 DEF Up
<1>2. CASE by = 2048
  BY <1>2 DEF Up
<1> QED
  BY <1>1, <1>2

LEMMA LayoutIs ==
  /\ Len(Layout) = 6 /\ DOMAIN Layout = 1..6
  /\ Layout[1].mib = 512 /\ Layout[2].mib = 1024 /\ Layout[3].mib = 32 /\ Layout[4].mib = 1024 /\ Layout[5].mib = 32 /\ Layout[6].mib = 0
BY DEF Layout, Part, Rest

(* What appending gives, when a longer sequence agrees with it. *)
LEMMA AppendIs ==
  ASSUME NEW S, NEW s \in Seq(S), NEW e \in S, NEW t \in Seq(S), Len(t) = Len(s) + 1,
         \A i \in 1..Len(s) : t[i] = s[i], t[Len(s) + 1] = e
  PROVE  Append(s, e) = t
<1>1. /\ Append(s, e) \in Seq(S) /\ Len(Append(s, e)) = Len(s) + 1 /\ Append(s, e)[Len(s) + 1] = e
      /\ \A i \in 1..Len(s) : Append(s, e)[i] = s[i]
  BY AppendProperties
<1>2. Len(s) \in Nat
  OBVIOUS
<1>3. \A i \in 1..Len(Append(s, e)) : Append(s, e)[i] = t[i]
  BY <1>1, <1>2
<1> QED
  BY <1>1, <1>3, SeqEqual

LEMMA SecondAppended ==
  ASSUME NEW a, NEW b
  PROVE  Append(<<a>>, b) = <<a, b>>
<1>1. <<a>> \in Seq({a, b}) /\ <<a, b>> \in Seq({a, b}) /\ b \in {a, b}
  OBVIOUS
<1>2. Len(<<a, b>>) = Len(<<a>>) + 1 /\ <<a, b>>[Len(<<a>>) + 1] = b
      /\ \A i \in 1..Len(<<a>>) : <<a, b>>[i] = <<a>>[i]
  OBVIOUS
<1> QED
  BY <1>1, <1>2, AppendIs, Zenon

LEMMA ThirdAppended ==
  ASSUME NEW a, NEW b, NEW c
  PROVE  Append(<<a, b>>, c) = <<a, b, c>>
<1>1. <<a, b>> \in Seq({a, b, c}) /\ <<a, b, c>> \in Seq({a, b, c}) /\ c \in {a, b, c}
  OBVIOUS
<1>2. Len(<<a, b, c>>) = Len(<<a, b>>) + 1 /\ <<a, b, c>>[Len(<<a, b>>) + 1] = c
      /\ \A i \in 1..Len(<<a, b>>) : <<a, b, c>>[i] = <<a, b>>[i]
  OBVIOUS
<1> QED
  BY <1>1, <1>2, AppendIs, Zenon

LEMMA FourthAppended ==
  ASSUME NEW a, NEW b, NEW c, NEW d
  PROVE  Append(<<a, b, c>>, d) = <<a, b, c, d>>
<1>1. <<a, b, c>> \in Seq({a, b, c, d}) /\ <<a, b, c, d>> \in Seq({a, b, c, d}) /\ d \in {a, b, c, d}
  OBVIOUS
<1>2. Len(<<a, b, c, d>>) = Len(<<a, b, c>>) + 1 /\ <<a, b, c, d>>[Len(<<a, b, c>>) + 1] = d
      /\ \A i \in 1..Len(<<a, b, c>>) : <<a, b, c, d>>[i] = <<a, b, c>>[i]
  OBVIOUS
<1> QED
  BY <1>1, <1>2, AppendIs, Zenon

LEMMA FifthAppended ==
  ASSUME NEW a, NEW b, NEW c, NEW d, NEW e
  PROVE  Append(<<a, b, c, d>>, e) = <<a, b, c, d, e>>
<1>1. <<a, b, c, d>> \in Seq({a, b, c, d, e}) /\ <<a, b, c, d, e>> \in Seq({a, b, c, d, e}) /\ e \in {a, b, c, d, e}
  OBVIOUS
<1>2. Len(<<a, b, c, d, e>>) = Len(<<a, b, c, d>>) + 1 /\ <<a, b, c, d, e>>[Len(<<a, b, c, d>>) + 1] = e
      /\ \A i \in 1..Len(<<a, b, c, d>>) : <<a, b, c, d, e>>[i] = <<a, b, c, d>>[i]
  OBVIOUS
<1> QED
  BY <1>1, <1>2, AppendIs, Zenon

LEMMA SixthAppended ==
  ASSUME NEW a, NEW b, NEW c, NEW d, NEW e, NEW f
  PROVE  Append(<<a, b, c, d, e>>, f) = <<a, b, c, d, e, f>>
<1>1. <<a, b, c, d, e>> \in Seq({a, b, c, d, e, f}) /\ <<a, b, c, d, e, f>> \in Seq({a, b, c, d, e, f}) /\ f \in {a, b, c, d, e, f}
  OBVIOUS
<1>2. Len(<<a, b, c, d, e, f>>) = Len(<<a, b, c, d, e>>) + 1 /\ <<a, b, c, d, e, f>>[Len(<<a, b, c, d, e>>) + 1] = f
      /\ \A i \in 1..Len(<<a, b, c, d, e>>) : <<a, b, c, d, e, f>>[i] = <<a, b, c, d, e>>[i]
  OBVIOUS
<1> QED
  BY <1>1, <1>2, AppendIs, Zenon

LEMMA PlanIs ==
  ASSUME NEW disk, OfASize(disk)
  PROVE  LET M == PerMib(disk) IN
         Plan(disk) = <<Slot(disk, 1, 513 * M - 1), Slot(disk, 2, 1537 * M - 1), Slot(disk, 3, 1569 * M - 1),
                        Slot(disk, 4, 2593 * M - 1), Slot(disk, 5, 2625 * M - 1), Slot(disk, 6, LastUsable(disk))>>
<1> DEFINE M == PerMib(disk)
           slot1 == Slot(disk, 1, 513 * M - 1)
           slot2 == Slot(disk, 2, 1537 * M - 1)
           slot3 == Slot(disk, 3, 1569 * M - 1)
           slot4 == Slot(disk, 4, 2593 * M - 1)
           slot5 == Slot(disk, 5, 2625 * M - 1)
           slot6 == Slot(disk, 6, LastUsable(disk))
<1>1. M \in {256, 2048} /\ Up(FirstUsable(disk), M) = M
  BY SectorsPer
<1>2. ASSUME NEW i \in 1..6, NEW k \in Nat, NEW end, Up(end, M) = k * M, Starts[i] = k
      PROVE  /\ Layout[i].mib # 0 => Following(disk, Layout[i], end) = Slot(disk, i, (k + Layout[i].mib) * M - 1)
             /\ Layout[i].mib = 0 => Following(disk, Layout[i], end) = Slot(disk, i, LastUsable(disk))
  <2>1. Layout[i].mib \in Nat
    BY LayoutIs
  <2>2. k * M + Layout[i].mib * M - 1 = (k + Layout[i].mib) * M - 1
    BY <1>1, <2>1
  <2> HIDE DEF M
  <2> QED
    BY <1>1, <1>2, <2>1, <2>2 DEF Following, Placed, Slot, Rest, M
<1>3. \A k \in Nat : Up((k * M - 1) + 1, M) = k * M
  BY <1>1, UpOfAligned
<1>4. /\ slot1.last = 513 * M - 1 /\ slot2.last = 1537 * M - 1 /\ slot3.last = 1569 * M - 1 /\ slot4.last = 2593 * M - 1
      /\ slot5.last = 2625 * M - 1
  BY DEF Slot
<1> HIDE DEF M, slot1, slot2, slot3, slot4, slot5, slot6
<1>5. Following(disk, Layout[1], FirstUsable(disk)) = slot1
  BY <1>1, <1>2, LayoutIs DEF Starts, slot1
<1>6. Following(disk, Layout[2], slot1.last + 1) = slot2
  BY <1>2, <1>3, <1>4, LayoutIs DEF Starts, slot2
<1>7. Following(disk, Layout[3], slot2.last + 1) = slot3
  BY <1>2, <1>3, <1>4, LayoutIs DEF Starts, slot3
<1>8. Following(disk, Layout[4], slot3.last + 1) = slot4
  BY <1>2, <1>3, <1>4, LayoutIs DEF Starts, slot4
<1>9. Following(disk, Layout[5], slot4.last + 1) = slot5
  BY <1>2, <1>3, <1>4, LayoutIs DEF Starts, slot5
<1>10. Following(disk, Layout[6], slot5.last + 1) = slot6
  BY <1>2, <1>3, <1>4, LayoutIs DEF Starts, slot6
<1>11. Joined(disk, <<slot1>>, Layout[2]) = <<slot1, slot2>>
  <2>1. Append(<<slot1>>, slot2) = <<slot1, slot2>>
    BY SecondAppended, ZenonT(30)
  <2>2. Last(<<slot1>>) = slot1
    BY DEF Last
  <2> QED
    BY <1>6, <2>1, <2>2, Zenon DEF Joined
<1>12. Joined(disk, <<slot1, slot2>>, Layout[3]) = <<slot1, slot2, slot3>>
  <2>1. Append(<<slot1, slot2>>, slot3) = <<slot1, slot2, slot3>>
    BY ThirdAppended, ZenonT(30)
  <2>2. Last(<<slot1, slot2>>) = slot2
    BY DEF Last
  <2> QED
    BY <1>7, <2>1, <2>2, Zenon DEF Joined
<1>13. Joined(disk, <<slot1, slot2, slot3>>, Layout[4]) = <<slot1, slot2, slot3, slot4>>
  <2>1. Append(<<slot1, slot2, slot3>>, slot4) = <<slot1, slot2, slot3, slot4>>
    BY FourthAppended, ZenonT(30)
  <2>2. Last(<<slot1, slot2, slot3>>) = slot3
    BY DEF Last
  <2> QED
    BY <1>8, <2>1, <2>2, Zenon DEF Joined
<1>14. Joined(disk, <<slot1, slot2, slot3, slot4>>, Layout[5]) = <<slot1, slot2, slot3, slot4, slot5>>
  <2>1. Append(<<slot1, slot2, slot3, slot4>>, slot5) = <<slot1, slot2, slot3, slot4, slot5>>
    BY FifthAppended, ZenonT(30)
  <2>2. Last(<<slot1, slot2, slot3, slot4>>) = slot4
    BY DEF Last
  <2> QED
    BY <1>9, <2>1, <2>2, Zenon DEF Joined
<1>15. Joined(disk, <<slot1, slot2, slot3, slot4, slot5>>, Layout[6]) = <<slot1, slot2, slot3, slot4, slot5, slot6>>
  <2>1. Append(<<slot1, slot2, slot3, slot4, slot5>>, slot6) = <<slot1, slot2, slot3, slot4, slot5, slot6>>
    BY SixthAppended, ZenonT(30)
  <2>2. Last(<<slot1, slot2, slot3, slot4, slot5>>) = slot5
    BY DEF Last
  <2> QED
    BY <1>10, <2>1, <2>2, Zenon DEF Joined
<1>16. Plan(disk) = <<slot1, slot2, slot3, slot4, slot5, slot6>>
  BY <1>5, <1>11, <1>12, <1>13, <1>14, <1>15 DEF Plan
<1> QED
  BY <1>16 DEF M, slot1, slot2, slot3, slot4, slot5, slot6

LEMMA PlanFields ==
  ASSUME NEW disk, OfASize(disk)
  PROVE  /\ DOMAIN Plan(disk) = 1..6 /\ Len(Plan(disk)) = 6
         /\ \A i \in 1..6 : Plan(disk)[i].spec = Layout[i] /\ Plan(disk)[i].first = Starts[i] * PerMib(disk)
         /\ \A i \in 1..5 : Plan(disk)[i].last = Starts[i + 1] * PerMib(disk) - 1
         /\ Plan(disk)[6].last = LastUsable(disk)
<1>1. \A i, last : Slot(disk, i, last).spec = Layout[i] /\ Slot(disk, i, last).first = Starts[i] * PerMib(disk)
                            /\ Slot(disk, i, last).last = last
  BY DEF Slot
<1> HIDE DEF Slot
<1>2. /\ Plan(disk)[1] = Slot(disk, 1, 513 * PerMib(disk) - 1) /\ Plan(disk)[2] = Slot(disk, 2, 1537 * PerMib(disk) - 1)
      /\ Plan(disk)[3] = Slot(disk, 3, 1569 * PerMib(disk) - 1) /\ Plan(disk)[4] = Slot(disk, 4, 2593 * PerMib(disk) - 1)
      /\ Plan(disk)[5] = Slot(disk, 5, 2625 * PerMib(disk) - 1) /\ Plan(disk)[6] = Slot(disk, 6, LastUsable(disk))
      /\ DOMAIN Plan(disk) = 1..6 /\ Len(Plan(disk)) = 6
  BY PlanIs
<1>3. /\ Starts[2] = 513 /\ Starts[3] = 1537 /\ Starts[4] = 1569 /\ Starts[5] = 2593 /\ Starts[6] = 2625
  BY DEF Starts
<1>4. \A i \in 1..6 : Plan(disk)[i].spec = Layout[i] /\ Plan(disk)[i].first = Starts[i] * PerMib(disk)
  <2>1. \A i \in 1..6 : i = 1 \/ i = 2 \/ i = 3 \/ i = 4 \/ i = 5 \/ i = 6
    OBVIOUS
  <2> QED
    BY <1>1, <1>2, <2>1
<1>5. \A i \in 1..5 : Plan(disk)[i].last = Starts[i + 1] * PerMib(disk) - 1
  <2>1. \A i \in 1..5 : i = 1 \/ i = 2 \/ i = 3 \/ i = 4 \/ i = 5
    OBVIOUS
  <2>2. Plan(disk)[1].last = Starts[1 + 1] * PerMib(disk) - 1 /\ Plan(disk)[2].last = Starts[2 + 1] * PerMib(disk) - 1
        /\ Plan(disk)[3].last = Starts[3 + 1] * PerMib(disk) - 1 /\ Plan(disk)[4].last = Starts[4 + 1] * PerMib(disk) - 1
        /\ Plan(disk)[5].last = Starts[5 + 1] * PerMib(disk) - 1
    BY <1>1, <1>2, <1>3
  <2> QED
    BY <2>1, <2>2
<1> QED
  BY <1>1, <1>2, <1>4, <1>5

(* A disk fits exactly when it has room for the fixed partitions and the least of /var. *)
Roomy(disk) == disk.size \in {512, 4096} /\ disk.sectors - 2 - ArraySectors(disk) + 1 >= (2625 + MinimumVar) * PerMib(disk)

LEMMA FitsWhenRoomy ==
  ASSUME NEW disk \in Tried
  PROVE  ~Unfit(disk) <=> Roomy(disk)
<1>1. CASE disk.size \notin {512, 4096}
  BY <1>1 DEF Unfit, Roomy
<1>2. CASE disk.size \in {512, 4096}
  <2>1. OfASize(disk)
    BY <1>2, TriedAssumption DEF OfASize
  <2> DEFINE M == PerMib(disk)
             U == LastUsable(disk)
  <2>2. M \in {256, 2048} /\ U \in Int /\ U = disk.sectors - ArraySectors(disk) - 2 /\ ArraySectors(disk) \in Int /\ disk.sectors \in Int
    BY <2>1, SectorsPer DEF OfASize
  <2>3. Last(Plan(disk)) = Plan(disk)[6]
    BY <2>1, PlanFields DEF Last
  <2>4. \A i \in 1..6 : Starts[i] \in 1..2625
    BY DEF Starts
  <2>5. Starts[6] = 2625
    BY DEF Starts
  <2>6. Unfit(disk) <=> \/ \E i \in 1..6 : Starts[i] * M > U
                        \/ \E i \in 1..5 : Starts[i + 1] * M - 1 > U
                        \/ U > U
                        \/ U - 2625 * M + 1 < MinimumVar * M
    <3>1. \A i \in 1..6 : i \in 1..5 \/ i = 6
      OBVIOUS
    <3>2. (\E i \in DOMAIN Plan(disk) : Plan(disk)[i].first > U \/ Plan(disk)[i].last > U)
            <=> \/ \E i \in 1..6 : Starts[i] * M > U
                \/ \E i \in 1..5 : Starts[i + 1] * M - 1 > U
                \/ U > U
      BY <2>1, <3>1, PlanFields
    <3>3. Last(Plan(disk)).first = 2625 * M /\ Last(Plan(disk)).last = U
      BY <2>1, <2>3, <2>5, PlanFields
    <3> QED
      BY <1>2, <3>2, <3>3 DEF Unfit
  <2>7. ASSUME NEW i \in 1..6
        PROVE  Starts[i] * M <= 2625 * M /\ Starts[i] * M \in Int
    <3>1. PICK k \in 1..2625 : k = Starts[i]
      BY <2>4
    <3> HIDE DEF M
    <3>2. k * M <= 2625 * M /\ k * M \in Int
      <4>1. CASE M = 256
        BY <4>1
      <4>2. CASE M = 2048
        BY <4>2
      <4> QED
        BY <2>2, <4>1, <4>2
    <3> QED
      BY <3>1, <3>2, SMTT(40)
  <2>8. \A i \in 1..5 : Starts[i + 1] * M <= 2625 * M /\ Starts[i + 1] * M \in Int
    <3>1. \A i \in 1..5 : i + 1 \in 1..6
      OBVIOUS
    <3> QED
      BY <2>7, <3>1
  <2>9. Roomy(disk) <=> U + 1 >= (2625 + MinimumVar) * M
    BY <1>2, <2>2 DEF Roomy
  <2> HIDE DEF U, M
  <2>10. Unfit(disk) <=> U + 1 < (2625 + MinimumVar) * M
    <3>1. (2625 + MinimumVar) * M = 2625 * M + MinimumVar * M /\ MinimumVar * M > 0 /\ MinimumVar * M \in Int
      BY <2>2 DEF MinimumVar
    <3>2. ASSUME U + 1 >= 2625 * M + MinimumVar * M PROVE ~Unfit(disk)
      <4>1. \A i \in 1..6 : ~(Starts[i] * M > U)
        BY <2>2, <2>4, <2>7, <3>1, <3>2
      <4>2. \A i \in 1..5 : ~(Starts[i + 1] * M - 1 > U)
        BY <2>2, <2>8, <3>1, <3>2
      <4> QED
        BY <2>2, <2>6, <3>1, <3>2, <4>1, <4>2, SMTT(40)
    <3> QED
      BY <2>2, <2>6, <3>1, <3>2
  <2>11. (2625 + MinimumVar) * M \in Int
    BY <2>2 DEF MinimumVar
  <2> QED
    BY <2>2, <2>9, <2>10, <2>11
<1> QED
  BY <1>1, <1>2

(* The five places of a table are five. *)
LEMMA PlacesDiffer ==
  ASSUME NEW disk \in Tried, ~Unfit(disk)
  PROVE  /\ BackupArray(disk) \in Nat /\ BackupHeader(disk) \in Nat
         /\ 2 < BackupArray(disk) /\ BackupArray(disk) < BackupHeader(disk)
         /\ BackupArray(disk) = LastUsable(disk) + 1
<1>1. Roomy(disk) /\ OfASize(disk)
  BY FitsWhenRoomy, TriedAssumption DEF Roomy, OfASize
<1> QED
  BY <1>1, SectorsPer DEF Roomy, BackupArray, BackupHeader, MinimumVar, OfASize

-----------------------------------------------------------------------------
(* One sequence after another. *)
Joins(b, s, t, n, k) == Len(b) = n + k /\ (\A i \in 1..n : b[i] = s[i]) /\ \A i \in 1..k : b[n + i] = t[i]

LEMMA JoinAt ==
  ASSUME NEW S, NEW s \in Seq(S), NEW t \in Seq(S)
  PROVE  Joins(s \o t, s, t, Len(s), Len(t))
<1>1. s \o t \in Seq(S) /\ Len(s \o t) = Len(s) + Len(t) /\ Len(s) \in Nat /\ Len(t) \in Nat
  BY ConcatProperties, LenProperties
<1>2. ASSUME NEW i \in 1..Len(s) PROVE (s \o t)[i] = s[i]
  BY <1>1, ConcatProperties
<1>3. ASSUME NEW i \in 1..Len(t) PROVE (s \o t)[Len(s) + i] = t[i]
  <2>1. Len(s) + i \in 1..(Len(s) + Len(t)) /\ ~(Len(s) + i <= Len(s)) /\ (Len(s) + i) - Len(s) = i
    BY <1>1
  <2> QED
    BY <2>1, ConcatProperties
<1> QED
  BY <1>1, <1>2, <1>3 DEF Joins

(* The other way round. *)
LEMMA TurnedAt ==
  ASSUME NEW S, NEW s \in Seq(S)
  PROVE  Reverse(s) \in Seq(S) /\ Len(Reverse(s)) = Len(s) /\ \A i \in 1..Len(s) : Reverse(s)[i] = s[(Len(s) - i) + 1]
<1>1. Reverse(s) = [i \in 1..Len(s) |-> s[(Len(s) - i) + 1]]
  BY DEF Reverse
<1>2. \A i \in 1..Len(s) : s[(Len(s) - i) + 1] \in S
  BY ElementOfSeq
<1>3. Reverse(s) \in [1..Len(s) -> S]
  BY <1>1, <1>2
<1> QED
  BY <1>1, <1>3

(* A GUID is read back as it was written: each group has its own place among the sixteen bytes. *)
LEMMA GroupsReadBack ==
  ASSUME NEW S, NEW g1 \in Seq(S), NEW g2 \in Seq(S), NEW g3 \in Seq(S), NEW g4 \in Seq(S), NEW g5 \in Seq(S),
         Len(g1) = 4, Len(g2) = 2, Len(g3) = 2, Len(g4) = 2, Len(g5) = 6,
         NEW groups, groups = <<g1, g2, g3, g4, g5>>
  PROVE  ReadGuid(GuidBytes(groups)) = groups
<1>1. PICK u1, u2, u3 : u1 = Reverse(g1) /\ u2 = Reverse(g2) /\ u3 = Reverse(g3)
  OBVIOUS
<1>2. PICK b2, b3, b4, b : b2 = u1 \o u2 /\ b3 = b2 \o u3 /\ b4 = b3 \o g4 /\ b = b4 \o g5
  OBVIOUS
<1>3. b = GuidBytes(groups)
  BY <1>1, <1>2 DEF GuidBytes
<1>4. u1 \in Seq(S) /\ Len(u1) = 4 /\ \A i \in 1..4 : u1[i] = g1[(4 - i) + 1]
  <2>1. Reverse(g1) \in Seq(S) /\ Len(Reverse(g1)) = Len(g1) /\ \A i \in 1..Len(g1) : Reverse(g1)[i] = g1[(Len(g1) - i) + 1]
    BY TurnedAt, Zenon
  <2> QED
    BY <1>1, <2>1
<1>5. u2 \in Seq(S) /\ Len(u2) = 2 /\ \A i \in 1..2 : u2[i] = g2[(2 - i) + 1]
  <2>1. Reverse(g2) \in Seq(S) /\ Len(Reverse(g2)) = Len(g2) /\ \A i \in 1..Len(g2) : Reverse(g2)[i] = g2[(Len(g2) - i) + 1]
    BY TurnedAt, Zenon
  <2> QED
    BY <1>1, <2>1
<1>6. u3 \in Seq(S) /\ Len(u3) = 2 /\ \A i \in 1..2 : u3[i] = g3[(2 - i) + 1]
  <2>1. Reverse(g3) \in Seq(S) /\ Len(Reverse(g3)) = Len(g3) /\ \A i \in 1..Len(g3) : Reverse(g3)[i] = g3[(Len(g3) - i) + 1]
    BY TurnedAt, Zenon
  <2> QED
    BY <1>1, <2>1
<1>7. b2 \in Seq(S) /\ Len(b2) = 6 /\ (\A i \in 1..4 : b2[i] = u1[i]) /\ (\A i \in 1..2 : b2[4 + i] = u2[i])
  <2>1. u1 \in Seq(S) /\ u2 \in Seq(S)
    BY <1>4, <1>5
  <2>0. b2 = u1 \o u2
    BY <1>2
  <2>2. b2 \in Seq(S)
    BY <2>0, <2>1
  <2>3. Joins(u1 \o u2, u1, u2, Len(u1), Len(u2))
    BY <2>1, JoinAt, Zenon
  <2>4. Joins(b2, u1, u2, Len(u1), Len(u2))
    BY <2>0, <2>3, Zenon
  <2> QED
    BY <1>4, <1>5, <2>2, <2>4 DEF Joins
<1>8. b3 \in Seq(S) /\ Len(b3) = 8 /\ (\A i \in 1..6 : b3[i] = b2[i]) /\ (\A i \in 1..2 : b3[6 + i] = u3[i])
  <2>1. b2 \in Seq(S) /\ u3 \in Seq(S)
    BY <1>6, <1>7
  <2>0. b3 = b2 \o u3
    BY <1>2
  <2>2. b3 \in Seq(S)
    BY <2>0, <2>1
  <2>3. Joins(b2 \o u3, b2, u3, Len(b2), Len(u3))
    BY <2>1, JoinAt, Zenon
  <2>4. Joins(b3, b2, u3, Len(b2), Len(u3))
    BY <2>0, <2>3, Zenon
  <2> QED
    BY <1>6, <1>7, <2>2, <2>4 DEF Joins
<1>14. b4 \in Seq(S) /\ Len(b4) = 10 /\ (\A i \in 1..8 : b4[i] = b3[i]) /\ (\A i \in 1..2 : b4[8 + i] = g4[i])
  <2>1. b3 \in Seq(S) /\ g4 \in Seq(S)
    BY <1>8
  <2>0. b4 = b3 \o g4
    BY <1>2
  <2>2. b4 \in Seq(S)
    BY <2>0, <2>1
  <2>3. Joins(b3 \o g4, b3, g4, Len(b3), Len(g4))
    BY <2>1, JoinAt, Zenon
  <2>4. Joins(b4, b3, g4, Len(b3), Len(g4))
    BY <2>0, <2>3, Zenon
  <2> QED
    BY <1>8, <2>2, <2>4 DEF Joins
<1>15. Len(b) = 16 /\ (\A i \in 1..10 : b[i] = b4[i]) /\ (\A i \in 1..6 : b[10 + i] = g5[i])
  <2>1. b4 \in Seq(S) /\ g5 \in Seq(S)
    BY <1>14
  <2>0. b = b4 \o g5
    BY <1>2
  <2>2. b \in Seq(S)
    BY <2>0, <2>1
  <2>3. Joins(b4 \o g5, b4, g5, Len(b4), Len(g5))
    BY <2>1, JoinAt, Zenon
  <2>4. Joins(b, b4, g5, Len(b4), Len(g5))
    BY <2>0, <2>3, Zenon
  <2> QED
    BY <1>14, <2>2, <2>4 DEF Joins
<1>17. \A i \in 1..8 : b[i] = b3[i]
  BY <1>14, <1>15, SMTT(40)
<1>18. \A i \in 1..6 : b[i] = b2[i]
  BY <1>8, <1>17
<1>19. /\ \A i \in 1..4 : b[i] = g1[(4 - i) + 1]
       /\ \A i \in 1..2 : b[4 + i] = g2[(2 - i) + 1]
       /\ \A i \in 1..2 : b[6 + i] = g3[(2 - i) + 1]
  <2>1. \A i \in 1..4 : b[i] = g1[(4 - i) + 1]
    BY <1>4, <1>7, <1>18
  <2>2. \A i \in 1..2 : b[4 + i] = g2[(2 - i) + 1]
    BY <1>5, <1>7, <1>18
  <2>3. \A i \in 1..2 : b[6 + i] = g3[(2 - i) + 1]
    BY <1>6, <1>8, <1>17
  <2> QED
    BY <2>1, <2>2, <2>3
<1>9. PICK p1, p2, p3, p4, p5 :
        /\ p1 = [i \in 1..(4 - 1 + 1) |-> b[1 + i - 1]] /\ p2 = [i \in 1..(6 - 5 + 1) |-> b[5 + i - 1]]
        /\ p3 = [i \in 1..(8 - 7 + 1) |-> b[7 + i - 1]] /\ p4 = [i \in 1..(10 - 9 + 1) |-> b[9 + i - 1]]
        /\ p5 = [i \in 1..(16 - 11 + 1) |-> b[11 + i - 1]]
  OBVIOUS
<1>10. ReadGuid(b) = <<Reverse(p1), Reverse(p2), Reverse(p3), p4, p5>>
  BY <1>9 DEF ReadGuid
<1>11. Reverse(p1) = g1
  <2>1. \A i \in 1..4 : p1[i] = g1[(4 - i) + 1]
    BY <1>9, <1>19
  <2>2. \A i \in 1..4 : p1[(4 - i) + 1] = g1[i]
    BY <2>1
  <2> QED
    BY <1>9, <2>2 DEF Reverse
<1>12. Reverse(p2) = g2
  <2>1. \A i \in 1..2 : p2[i] = g2[(2 - i) + 1]
    BY <1>9, <1>19
  <2>2. \A i \in 1..2 : p2[(2 - i) + 1] = g2[i]
    BY <2>1
  <2> QED
    BY <1>9, <2>2 DEF Reverse
<1>13. Reverse(p3) = g3
  <2>1. \A i \in 1..2 : p3[i] = g3[(2 - i) + 1]
    BY <1>9, <1>19
  <2>2. \A i \in 1..2 : p3[(2 - i) + 1] = g3[i]
    BY <2>1
  <2> QED
    BY <1>9, <2>2 DEF Reverse
<1>16. p4 = g4 /\ p5 = g5
  <2>1. g4 = [i \in 1..2 |-> g4[i]] /\ g5 = [i \in 1..6 |-> g5[i]]
    OBVIOUS
  <2>2. (\A i \in 1..2 : p4[i] = g4[i]) /\ (\A i \in 1..6 : p5[i] = g5[i])
    BY <1>9, <1>14, <1>15
  <2> QED
    BY <1>9, <2>1, <2>2
<1> QED
  BY <1>3, <1>10, <1>11, <1>12, <1>13, <1>16

LEMMA GuidReadsBack ==
  ASSUME NEW type
  PROVE  ReadGuid(GuidBytes(Written(type))) = Written(type)
<1> DEFINE S == {<<type, i>> : i \in 1..16}
<1>1. /\ Bytes(type, 1, 4) \in [1..4 -> S] /\ Bytes(type, 5, 6) \in [1..2 -> S] /\ Bytes(type, 7, 8) \in [1..2 -> S]
      /\ Bytes(type, 9, 10) \in [1..2 -> S] /\ Bytes(type, 11, 16) \in [1..6 -> S]
  BY DEF Bytes
<1> HIDE DEF S
<1>2. ASSUME NEW n \in Nat, NEW g \in [1..n -> S] PROVE g \in Seq(S) /\ Len(g) = n
  OBVIOUS
<1>3. 4 \in Nat /\ 2 \in Nat /\ 6 \in Nat
  OBVIOUS
<1>4. /\ Bytes(type, 1, 4) \in Seq(S) /\ Len(Bytes(type, 1, 4)) = 4 /\ Bytes(type, 5, 6) \in Seq(S) /\ Len(Bytes(type, 5, 6)) = 2
      /\ Bytes(type, 7, 8) \in Seq(S) /\ Len(Bytes(type, 7, 8)) = 2 /\ Bytes(type, 9, 10) \in Seq(S) /\ Len(Bytes(type, 9, 10)) = 2
      /\ Bytes(type, 11, 16) \in Seq(S) /\ Len(Bytes(type, 11, 16)) = 6
  BY <1>1, <1>2, <1>3, Zenon
<1> QED
  BY <1>4, GroupsReadBack, Zenon DEF Written

-----------------------------------------------------------------------------
(* The five regions, and what is read from them. *)

Places(disk) == {0, 1, 2, BackupArray(disk), BackupHeader(disk)}
New(disk) == Entries(disk, Identity(Now))

LEMMA RegionsAre ==
  ASSUME NEW disk, NEW id, NEW all, all = Regions(disk, id)
  PROVE  /\ DOMAIN all = 1..5 /\ Len(all) = 5
         /\ all[1].at = 0 /\ all[2].at = 1 /\ all[3].at = 2 /\ all[4].at = BackupArray(disk) /\ all[5].at = BackupHeader(disk)
         /\ all[1].is = Mbr /\ all[2].is = Header(disk, id, 1, BackupHeader(disk), 2)
         /\ all[3].is = Array(disk, id) /\ all[4].is = Array(disk, id)
         /\ all[5].is = Header(disk, id, BackupHeader(disk), 1, BackupArray(disk))
BY DEF Regions, Region

LEMMA WhatIsWritten ==
  ASSUME NEW disk, NEW id, NEW at, NEW alternate, NEW array
  PROVE  LET h == Header(disk, id, at, alternate, array) IN
         /\ h.is = "header" /\ h.at = at /\ h.array = array /\ h.sum = Entries(disk, id)
         /\ Array(disk, id).is = "array" /\ Array(disk, id).entries = Entries(disk, id)
         /\ Mbr.is = "mbr" /\ Torn.is = "torn" /\ Blank.is = "nothing"
BY DEF Header, Array, Mbr, Torn, Blank

(* With one of the two copies whole, and nothing false in the other, what is read is what was written. *)
LEMMA ReadsWhatIsWhole ==
  ASSUME NEW disk \in Tried, ~Unfit(disk), NEW c,
         c[0] = Mbr, c[BackupArray(disk)] = Array(disk, Identity(Now)),
         c[1] = Header(disk, Identity(Now), 1, BackupHeader(disk), 2) \/ c[1] = Torn,
         c[2] = Array(disk, Identity(Now)) \/ c[2] = Torn,
         c[BackupHeader(disk)] = Header(disk, Identity(Now), BackupHeader(disk), 1, BackupArray(disk))
           \/ (c[1] # Torn /\ c[2] # Torn)
  PROVE  Table(c, disk) = New(disk)
<1> DEFINE B == BackupHeader(disk)
           headers == {at \in {1, B} : c[0].is = "mbr" /\ Believes(c, at)}
<1>1. c[0].is = "mbr" /\ B # 1
  BY WhatIsWritten, PlacesDiffer
<1>2. Torn # Array(disk, Identity(Now)) /\ Torn # Header(disk, Identity(Now), 1, B, 2)
  <2>1. Array(disk, Identity(Now)).is # Torn.is /\ Header(disk, Identity(Now), 1, B, 2).is # Torn.is
    BY WhatIsWritten
  <2> QED
    BY <2>1
<1>3. CASE c[1] # Torn /\ c[2] # Torn
  <2>1. c[1].is = "header" /\ c[1].at = 1 /\ c[1].array = 2 /\ c[1].sum = New(disk) /\ c[2].is = "array" /\ c[2].entries = New(disk)
    BY <1>3, WhatIsWritten DEF New
  <2>2. Believes(c, 1)
    BY <2>1 DEF Believes
  <2>3. 1 \in headers
    BY <1>1, <2>2
  <2> QED
    BY <2>1, <2>3 DEF Table
<1>4. CASE c[1] = Torn \/ c[2] = Torn
  <2>1. ~Believes(c, 1)
    <3>1. CASE c[1] = Torn
      BY <3>1, WhatIsWritten DEF Believes
    <3>2. CASE c[1] # Torn
      <4>1. c[2] = Torn /\ c[1].array = 2
        BY <1>4, <3>2, WhatIsWritten
      <4> QED
        BY <4>1, WhatIsWritten DEF Believes
    <3> QED
      BY <3>1, <3>2
  <2>2. c[B].is = "header" /\ c[B].at = B /\ c[B].array = BackupArray(disk) /\ c[B].sum = New(disk)
        /\ c[BackupArray(disk)].is = "array" /\ c[BackupArray(disk)].entries = New(disk)
    BY <1>4, WhatIsWritten DEF New
  <2>3. Believes(c, B)
    BY <2>2 DEF Believes
  <2>4. 1 \notin headers /\ headers # {}
    BY <1>1, <2>1, <2>3
  <2> QED
    BY <2>2, <2>4 DEF Table
<1> QED
  BY <1>3, <1>4

Whole(c, disk) == LET all == Regions(disk, Identity(Now)) IN \A i \in 1..5 : c[all[i].at] = all[i].is

LEMMA WholeIsRead ==
  ASSUME NEW disk \in Tried, ~Unfit(disk), NEW c, DOMAIN c = Places(disk), Whole(c, disk)
  PROVE  /\ Table(c, disk) = New(disk)
         /\ \A lost \in {1, 2, BackupHeader(disk)} : Table([c EXCEPT ![lost] = Torn], disk) = New(disk)
<1>1. /\ c[0] = Mbr /\ c[1] = Header(disk, Identity(Now), 1, BackupHeader(disk), 2)
      /\ c[2] = Array(disk, Identity(Now)) /\ c[BackupArray(disk)] = Array(disk, Identity(Now))
      /\ c[BackupHeader(disk)] = Header(disk, Identity(Now), BackupHeader(disk), 1, BackupArray(disk))
  <2>1. PICK all : all = Regions(disk, Identity(Now))
    OBVIOUS
  <2>2. \A i \in 1..5 : c[all[i].at] = all[i].is
    BY <2>1 DEF Whole
  <2>3. 1 \in 1..5 /\ 2 \in 1..5 /\ 3 \in 1..5 /\ 4 \in 1..5 /\ 5 \in 1..5
    OBVIOUS
  <2> QED
    BY <2>1, <2>2, <2>3, RegionsAre
<1>2. Table(c, disk) = New(disk)
  BY <1>1, ReadsWhatIsWhole
<1>3. ASSUME NEW lost \in {1, 2, BackupHeader(disk)}, NEW d, d = [c EXCEPT ![lost] = Torn]
      PROVE  Table(d, disk) = New(disk)
  <2>1. d[lost] = Torn /\ \A at \in Places(disk) : at # lost => d[at] = c[at]
    BY <1>3 DEF Places
  <2>2. 0 # lost /\ BackupArray(disk) # lost /\ BackupHeader(disk) \notin {1, 2}
    BY PlacesDiffer
  <2>3. d[0] = c[0] /\ d[BackupArray(disk)] = c[BackupArray(disk)]
    BY <2>1, <2>2 DEF Places
  <2>4. CASE lost = BackupHeader(disk)
    <3>1. d[1] = c[1] /\ d[2] = c[2]
      BY <2>1, <2>2, <2>4 DEF Places
    <3>2. c[1] # Torn /\ c[2] # Torn
      <4>1. c[1].is # Torn.is /\ c[2].is # Torn.is
        BY <1>1, WhatIsWritten
      <4> QED
        BY <4>1
    <3> QED
      BY <1>1, <2>3, <3>1, <3>2, ReadsWhatIsWhole
  <2>5. CASE lost \in {1, 2}
    <3>1. d[BackupHeader(disk)] = c[BackupHeader(disk)] /\ (d[1] = c[1] \/ d[1] = Torn) /\ (d[2] = c[2] \/ d[2] = Torn)
      BY <2>1, <2>2, <2>5 DEF Places
    <3> QED
      BY <1>1, <2>3, <3>1, ReadsWhatIsWhole
  <2> QED
    BY <2>4, <2>5
<1> QED
  BY <1>2, <1>3

(* What is read of a whole table is the layout, where there is room for it. *)
LEMMA ReadAsLaidOut ==
  ASSUME NEW disk \in Tried, ~Unfit(disk), NEW read, read = New(disk), NEW i \in 1..6
  PROVE  /\ ReadGuid(read[i].type) = Layout[i].type /\ read[i].name = Layout[i].label
         /\ read[i].first % PerMib(disk) = 0
         /\ Layout[i].mib # Rest => read[i].last - read[i].first + 1 = Layout[i].mib * PerMib(disk)
         /\ read[i].first > 1 + ArraySectors(disk) /\ read[i].last < BackupArray(disk)
         /\ \A j \in 1..(i - 1) : read[j].last < read[i].first /\ read[j].unique # read[i].unique
<1> DEFINE M == PerMib(disk)
           entry(k) == [type |-> GuidBytes(Plan(disk)[k].spec.type), unique |-> Identity(Now).partitions[k],
                        first |-> Plan(disk)[k].first, last |-> Plan(disk)[k].last, name |-> Plan(disk)[k].spec.label]
<1>1. Roomy(disk) /\ OfASize(disk)
  BY FitsWhenRoomy, TriedAssumption DEF Roomy, OfASize
<1>2. M \in {256, 2048} /\ ArraySectors(disk) \in {4, 32} /\ 2 + ArraySectors(disk) < M
      /\ LastUsable(disk) \in Int /\ LastUsable(disk) + 1 >= (2625 + MinimumVar) * M /\ BackupArray(disk) = LastUsable(disk) + 1
  BY <1>1, SectorsPer, PlacesDiffer DEF Roomy, OfASize
<1>3. \A k \in 1..6 : read[k] = entry(k)
  BY <1>1, PlanFields DEF New, Entries
<1>4. ASSUME NEW k \in 1..6
      PROVE  /\ read[k].type = GuidBytes(Layout[k].type) /\ read[k].name = Layout[k].label /\ read[k].unique = <<Now, k>>
             /\ read[k].first = Starts[k] * M /\ (k = 6 => read[k].last = LastUsable(disk)) /\ (k \in 1..5 => read[k].last = Starts[k + 1] * M - 1)
  <2>1. Identity(Now).partitions[k] = <<Now, k>>
    BY LayoutIs DEF Identity
  <2>2. PICK p : p = Plan(disk)[k]
    OBVIOUS
  <2>3. p.spec = Layout[k] /\ p.first = Starts[k] * M /\ (k = 6 => p.last = LastUsable(disk)) /\ (k \in 1..5 => p.last = Starts[k + 1] * M - 1)
    BY <1>1, <2>2, PlanFields
  <2>4. read[k] = [type |-> GuidBytes(p.spec.type), unique |-> Identity(Now).partitions[k], first |-> p.first, last |-> p.last, name |-> p.spec.label]
    BY <1>3, <2>2
  <2> HIDE DEF M
  <2> QED
    BY <2>1, <2>3, <2>4
<1> HIDE DEF entry
<1>5. ReadGuid(read[i].type) = Layout[i].type /\ read[i].name = Layout[i].label
  <2>1. \E type : Layout[i].type = Written(type)
    BY DEF Layout, Part
  <2> QED
    BY <1>4, <2>1, GuidReadsBack
<1> HIDE DEF M
<1>6. Starts[1] = 1 /\ Starts[2] = 513 /\ Starts[3] = 1537 /\ Starts[4] = 1569 /\ Starts[5] = 2593 /\ Starts[6] = 2625
  BY DEF Starts
<1>7. /\ read[1].first = 1 * M /\ read[2].first = 513 * M /\ read[3].first = 1537 * M
      /\ read[4].first = 1569 * M /\ read[5].first = 2593 * M /\ read[6].first = 2625 * M
      /\ read[1].last = 513 * M - 1 /\ read[2].last = 1537 * M - 1 /\ read[3].last = 1569 * M - 1
      /\ read[4].last = 2593 * M - 1 /\ read[5].last = 2625 * M - 1 /\ read[6].last = LastUsable(disk)
  <2>1. \A k \in 1..6 : read[k].first = Starts[k] * M
    BY <1>4
  <2>2. \A k \in 1..5 : read[k].last = Starts[k + 1] * M - 1
    BY <1>4
  <2>3. read[6].last = LastUsable(disk)
    BY <1>4
  <2> QED
    BY <1>6, <2>1, <2>2, <2>3
<1>8. /\ read[i].first % M = 0 /\ read[i].first > 1 + ArraySectors(disk) /\ read[i].last < BackupArray(disk)
      /\ \A j \in 1..(i - 1) : read[j].last < read[i].first
      /\ Layout[i].mib # Rest => read[i].last - read[i].first + 1 = Layout[i].mib * M
  <2>1. i = 1 \/ i = 2 \/ i = 3 \/ i = 4 \/ i = 5 \/ i = 6
    OBVIOUS
  <2>2. CASE M = 256
    BY <1>2, <1>7, <2>1, <2>2, LayoutIs DEF Rest, MinimumVar
  <2>3. CASE M = 2048
    BY <1>2, <1>7, <2>1, <2>3, LayoutIs DEF Rest, MinimumVar
  <2> QED
    BY <1>2, <2>2, <2>3
<1>9. \A j \in 1..(i - 1) : read[j].unique # read[i].unique
  BY <1>4
<1> QED
  BY <1>5, <1>8, <1>9 DEF M

-----------------------------------------------------------------------------
(* The thread that writes: a disk without room is refused, and on any other each region it has written is in the cache. *)

(* A header that is anywhere speaks for one table or the other. *)
HeaderIsTrue(x, disk) == x.is = "header" => x.sum \in {Entries(disk, Identity(Before)), New(disk)}
Speaks(c, disk) == DOMAIN c = Places(disk) /\ \A at \in Places(disk) : HeaderIsTrue(c[at], disk)

(* The regions from some one on are left, and those before it are written. *)
Remaining(left, disk, k) == Len(left) = 5 - k /\ \A i \in 1..(5 - k) : left[i] = Regions(disk, Identity(Now))[k + i]
WrittenSoFar(c, disk, k) == LET all == Regions(disk, Identity(Now)) IN \A i \in 1..k : c[all[i].at] = all[i].is

RegionsOf(disk) == {Regions(disk, Identity(Now))[i] : i \in 1..5}
MakingIs(at, disk, left) == making = [at |-> at, disk |-> disk, left |-> left]

TableInv ==
  /\ making.disk \in Tried /\ making.left \in Seq(RegionsOf(making.disk))
  /\ MakingIs(making.at, making.disk, making.left)
  /\ IF Unfit(making.disk) THEN making.at \in {"rest", "refused"} /\ cached = <<>> /\ stored = <<>>
     ELSE /\ making.at \in {"rest", "write", "done", "failed", "off"}
          /\ Speaks(cached, making.disk) /\ Speaks(stored, making.disk)
          /\ making.at = "write" => \E k \in 0..5 : Remaining(making.left, making.disk, k) /\ WrittenSoFar(cached, making.disk, k)
          /\ making.at = "done" => Whole(cached, making.disk) /\ stored = cached

LEMMA LaidOutIs ==
  ASSUME NEW disk, NEW n \in {Before, Now}
  PROVE  /\ DOMAIN LaidOut(disk, n) = Places(disk)
         /\ \A at \in Places(disk) : HeaderIsTrue(LaidOut(disk, n)[at], disk)
<1>1. PICK all : all = Regions(disk, Identity(n))
  OBVIOUS
<1>2. \A i \in 1..5 : HeaderIsTrue(all[i].is, disk)
  <2>1. \A i \in 1..5 : i = 1 \/ i = 2 \/ i = 3 \/ i = 4 \/ i = 5
    OBVIOUS
  <2>2. Entries(disk, Identity(n)) \in {Entries(disk, Identity(Before)), New(disk)}
    BY DEF New
  <2>3. /\ HeaderIsTrue(all[1].is, disk) /\ HeaderIsTrue(all[2].is, disk) /\ HeaderIsTrue(all[3].is, disk)
        /\ HeaderIsTrue(all[4].is, disk) /\ HeaderIsTrue(all[5].is, disk)
    BY <1>1, <2>2, RegionsAre, WhatIsWritten DEF HeaderIsTrue
  <2> QED
    BY <2>1, <2>3
<1>3. {all[i].at : i \in DOMAIN all} = Places(disk) /\ DOMAIN all = 1..5
  <2>1. DOMAIN all = 1..5 /\ all[1].at = 0 /\ all[2].at = 1 /\ all[3].at = 2 /\ all[4].at = BackupArray(disk) /\ all[5].at = BackupHeader(disk)
    BY <1>1, RegionsAre
  <2>2. 1..5 = {1, 2, 3, 4, 5}
    OBVIOUS
  <2> QED
    BY <2>1, <2>2 DEF Places
<1>4. LaidOut(disk, n) = [at \in Places(disk) |-> all[CHOOSE i \in 1..5 : all[i].at = at].is]
  BY <1>1, <1>3 DEF LaidOut
<1>5. ASSUME NEW at \in Places(disk) PROVE HeaderIsTrue(LaidOut(disk, n)[at], disk)
  <2>1. \E i \in 1..5 : all[i].at = at
    BY <1>3
  <2>2. (CHOOSE i \in 1..5 : all[i].at = at) \in 1..5
    BY <2>1
  <2> QED
    BY <1>2, <1>4, <2>2
<1> QED
  BY <1>4, <1>5

LEMMA RegionIsOne ==
  ASSUME NEW disk, NEW region \in RegionsOf(disk)
  PROVE  region.at \in Places(disk) /\ HeaderIsTrue(region.is, disk)
<1>1. PICK all : all = Regions(disk, Identity(Now))
  OBVIOUS
<1>2. PICK i \in 1..5 : region = all[i]
  BY <1>1 DEF RegionsOf
<1>3. i = 1 \/ i = 2 \/ i = 3 \/ i = 4 \/ i = 5
  OBVIOUS
<1> QED
  BY <1>1, <1>2, <1>3, RegionsAre, WhatIsWritten DEF HeaderIsTrue, New, Places

LEMMA TableBegins == TableInit => TableInv
<1> SUFFICES ASSUME TableInit PROVE TableInv
  OBVIOUS
<1>1. PICK disk \in Tried :
        /\ making = [at |-> "rest", disk |-> disk, left |-> <<>>]
        /\ IF Unfit(disk) THEN cached = <<>> ELSE cached \in {[at \in DOMAIN LaidOut(disk, Before) |-> Blank], LaidOut(disk, Before)}
        /\ stored = cached
  BY DEF TableInit
<1>2. ~Unfit(disk) => Speaks(cached, disk)
  <2>1. /\ DOMAIN LaidOut(disk, Before) = Places(disk)
        /\ \A at \in Places(disk) : HeaderIsTrue(LaidOut(disk, Before)[at], disk)
    BY LaidOutIs
  <2>2. HeaderIsTrue(Blank, disk)
    BY WhatIsWritten DEF HeaderIsTrue
  <2> QED
    BY <1>1, <2>1, <2>2 DEF Speaks
<1>3. making.disk = disk /\ making.at = "rest" /\ making.left = <<>> /\ <<>> \in Seq(RegionsOf(disk))
  BY <1>1
<1> QED
  BY <1>1, <1>2, <1>3 DEF TableInv, MakingIs

(* What is put at one place. *)
LEMMA StillSpeaks ==
  ASSUME NEW disk, NEW c, Speaks(c, disk), NEW at \in Places(disk), NEW x, HeaderIsTrue(x, disk)
  PROVE  Speaks([c EXCEPT ![at] = x], disk)
BY DEF Speaks

(* Six facts of the writing thread and the two copies are the invariant of a thread at work. *)
LEMMA NowWriting ==
  ASSUME NEW disk \in Tried, ~Unfit(disk), NEW left \in Seq(RegionsOf(disk)), NEW k \in 0..5,
         making' = [at |-> "write", disk |-> disk, left |-> left], Speaks(cached', disk), Speaks(stored', disk),
         Remaining(left, disk, k), WrittenSoFar(cached', disk, k)
  PROVE  TableInv'
<1>1. making'.at = "write" /\ making'.disk = disk /\ making'.left = left
  OBVIOUS
<1>2. MakingIs(making.at, making.disk, making.left)'
  BY <1>1 DEF MakingIs
<1> QED
  BY <1>1, <1>2 DEF TableInv

(* One of five is written. *)
LEMMA OneMoreIsWritten ==
  ASSUME TableInv, WriteRegion
  PROVE  TableInv'
<1> DEFINE disk == making.disk
           left == making.left
           all == Regions(disk, Identity(Now))
<1>1. /\ making.at = "write" /\ left # <<>> /\ cached' = [cached EXCEPT ![Head(left).at] = Head(left).is]
      /\ making' = [making EXCEPT !.left = Tail(@)] /\ stored' = stored
  BY DEF WriteRegion
<1>2. /\ disk \in Tried /\ left \in Seq(RegionsOf(disk)) /\ MakingIs("write", disk, left) /\ ~Unfit(disk)
      /\ Speaks(cached, disk) /\ Speaks(stored, disk)
  BY <1>1 DEF TableInv
<1>3. PICK k \in 0..5 : Remaining(left, disk, k) /\ WrittenSoFar(cached, disk, k)
  BY <1>1, <1>2 DEF TableInv
<1>4. making' = [at |-> "write", disk |-> disk, left |-> Tail(left)]
  BY <1>1, <1>2 DEF MakingIs
<1>5. Head(left) \in RegionsOf(disk) /\ Tail(left) \in Seq(RegionsOf(disk)) /\ Len(Tail(left)) = Len(left) - 1
      /\ (\A i \in 1..(Len(left) - 1) : Tail(left)[i] = left[i + 1]) /\ Head(left) = left[1] /\ Len(left) \in Nat /\ Len(left) > 0
  <2> HIDE DEF left, disk
  <2> QED
    BY <1>1, <1>2, HeadTailProperties, EmptySeq, LenProperties
<1>6. k \in 0..4 /\ Head(left) = all[k + 1]
  BY <1>3, <1>5 DEF Remaining
<1>7. Remaining(Tail(left), disk, k + 1)
  <2>1. Len(left) = 5 - k /\ \A i \in 1..(5 - k) : left[i] = all[k + i]
    BY <1>3 DEF Remaining
  <2>2. Len(Tail(left)) = 5 - (k + 1)
    BY <1>5, <2>1
  <2>3. ASSUME NEW i \in 1..(5 - (k + 1)) PROVE Tail(left)[i] = all[(k + 1) + i]
    <3>1. i + 1 \in 1..(5 - k) /\ i \in 1..(Len(left) - 1) /\ k + (i + 1) = (k + 1) + i
      BY <2>1
    <3> HIDE DEF left, all
    <3> QED
      BY <1>5, <2>1, <3>1
  <2> QED
    BY <2>2, <2>3 DEF Remaining
<1>8. Head(left).at \in Places(disk) /\ HeaderIsTrue(Head(left).is, disk)
  BY <1>5, RegionIsOne
<1>9. Speaks(cached', disk)
  BY <1>1, <1>2, <1>8, StillSpeaks
<1>10. WrittenSoFar(cached', disk, k + 1)
  <2>1. \A i \in 1..5, j \in 1..5 : all[i].at = all[j].at => i = j
    <3>1. all[1].at = 0 /\ all[2].at = 1 /\ all[3].at = 2 /\ all[4].at = BackupArray(disk) /\ all[5].at = BackupHeader(disk)
      BY RegionsAre
    <3>2. BackupArray(disk) \in Nat /\ BackupHeader(disk) \in Nat /\ 2 < BackupArray(disk) /\ BackupArray(disk) < BackupHeader(disk)
      BY <1>2, PlacesDiffer
    <3>3. \A i \in 1..5 : i = 1 \/ i = 2 \/ i = 3 \/ i = 4 \/ i = 5
      OBVIOUS
    <3> HIDE DEF all, disk
    <3> QED
      BY <3>1, <3>2, <3>3
  <2>2. DOMAIN cached = Places(disk)
    BY <1>2 DEF Speaks
  <2>3. cached'[all[k + 1].at] = all[k + 1].is /\ \A at \in Places(disk) : at # all[k + 1].at => cached'[at] = cached[at]
    <3> HIDE DEF all, left, disk
    <3> QED
      BY <1>1, <1>6, <1>8, <2>2
  <2>4. ASSUME NEW i \in 1..k PROVE cached'[all[i].at] = all[i].is
    <3>1. i \in 1..5 /\ k + 1 \in 1..5 /\ i # k + 1
      BY <1>6
    <3>2. all[i].at \in Places(disk)
      <4>1. all[i] \in RegionsOf(disk)
        BY <3>1 DEF RegionsOf
      <4> QED
        BY <4>1, RegionIsOne
    <3>3. cached[all[i].at] = all[i].is
      BY <1>3 DEF WrittenSoFar
    <3> HIDE DEF all, disk
    <3> QED
      BY <2>1, <2>3, <3>1, <3>2, <3>3
  <2>5. \A i \in 1..(k + 1) : i \in 1..k \/ i = k + 1
    OBVIOUS
  <2> HIDE DEF all, disk
  <2>6. \A i \in 1..(k + 1) : cached'[all[i].at] = all[i].is
    BY <2>3, <2>4, <2>5
  <2> QED
    BY <2>6 DEF WrittenSoFar, all
<1>11. k + 1 \in 0..5
  BY <1>6
<1> HIDE DEF disk, left
<1> QED
  BY <1>1, <1>2, <1>4, <1>5, <1>7, <1>9, <1>10, <1>11, NowWriting

LEMMA WritingBegins ==
  ASSUME TableInv, BeginTable
  PROVE  TableInv'
<1>1. PICK disk \in Tried : disk = making.disk /\ making.left \in Seq(RegionsOf(disk)) /\ making = [at |-> "rest", disk |-> disk, left |-> making.left]
  BY DEF BeginTable, TableInv, MakingIs
<1>2. cached' = cached /\ stored' = stored
  BY DEF BeginTable
<1>3. CASE Unfit(disk)
  <2>1. making' = [at |-> "refused", disk |-> disk, left |-> making.left]
    BY <1>1, <1>3 DEF BeginTable
  <2>2. making'.at = "refused" /\ making'.disk = disk /\ making'.left = making.left
    BY <2>1
  <2>3. MakingIs(making.at, making.disk, making.left)'
    BY <2>1, <2>2 DEF MakingIs
  <2>4. cached = <<>> /\ stored = <<>>
    BY <1>1, <1>3 DEF TableInv
  <2> QED
    BY <1>1, <1>2, <1>3, <2>2, <2>3, <2>4 DEF TableInv
<1>4. CASE ~Unfit(disk)
  <2>1. PICK all : all = Regions(disk, Identity(Now))
    OBVIOUS
  <2>2. making' = [at |-> "write", disk |-> disk, left |-> all]
    BY <1>1, <1>4, <2>1 DEF BeginTable
  <2>3. Speaks(cached, disk) /\ Speaks(stored, disk)
    BY <1>1, <1>4 DEF TableInv
  <2>4. Len(all) = 5 /\ all \in Seq(RegionsOf(disk))
    <3>1. \E r1, r2, r3, r4, r5 : all = <<r1, r2, r3, r4, r5>>
      BY <2>1 DEF Regions
    <3>2. PICK r1, r2, r3, r4, r5 : all = <<r1, r2, r3, r4, r5>>
      BY <3>1
    <3>3. all[1] \in RegionsOf(disk) /\ all[2] \in RegionsOf(disk) /\ all[3] \in RegionsOf(disk) /\ all[4] \in RegionsOf(disk)
          /\ all[5] \in RegionsOf(disk)
      BY <2>1 DEF RegionsOf
    <3> QED
      BY <3>2, <3>3
  <2>5. Remaining(all, disk, 0)
    <3>1. \A i \in 1..(5 - 0) : all[i] = Regions(disk, Identity(Now))[0 + i]
      BY <2>1
    <3> QED
      BY <2>4, <3>1 DEF Remaining
  <2>6. WrittenSoFar(cached, disk, 0)
    BY DEF WrittenSoFar
  <2>7. Speaks(cached', disk) /\ Speaks(stored', disk) /\ WrittenSoFar(cached', disk, 0) /\ 0 \in 0..5
    BY <1>2, <2>3, <2>6
  <2> QED
    BY <1>4, <2>2, <2>4, <2>5, <2>7, NowWriting
<1> QED
  BY <1>3, <1>4

(* With none left, all five are in the cache, and synced they are on the disk. *)
LEMMA AllIsSynced ==
  ASSUME TableInv, SyncTable
  PROVE  TableInv'
<1>1. making.at = "write" /\ making.left = <<>> /\ stored' = cached /\ cached' = cached
  BY DEF SyncTable
<1>2. PICK disk \in Tried : disk = making.disk /\ making = [at |-> "write", disk |-> disk, left |-> <<>>]
  BY <1>1 DEF TableInv, MakingIs
<1>3. making' = [at |-> "done", disk |-> disk, left |-> <<>>]
  BY <1>2 DEF SyncTable
<1>4. making'.at = "done" /\ making'.disk = disk /\ making'.left = <<>> /\ <<>> \in Seq(RegionsOf(disk))
  BY <1>3
<1>5. MakingIs(making.at, making.disk, making.left)'
  BY <1>3, <1>4 DEF MakingIs
<1>6. ~Unfit(disk) /\ Speaks(cached, disk)
  BY <1>1, <1>2 DEF TableInv
<1>7. PICK k \in 0..5 : Remaining(<<>>, disk, k) /\ WrittenSoFar(cached, disk, k)
  BY <1>1, <1>2, <1>6 DEF TableInv
<1>8. k = 5
  <2>1. Len(<<>>) = 5 - k
    BY <1>7 DEF Remaining
  <2> QED
    BY <2>1
<1>9. Whole(cached, disk)
  BY <1>7, <1>8 DEF Whole, WrittenSoFar
<1>10. Whole(cached', disk) /\ stored' = cached' /\ Speaks(cached', disk) /\ Speaks(stored', disk)
  BY <1>1, <1>6, <1>9
<1> QED
  BY <1>4, <1>5, <1>6, <1>10 DEF TableInv

(* A thread that stops leaves two copies that speak for one table or the other. *)
LEMMA NowStopped ==
  ASSUME NEW disk \in Tried, ~Unfit(disk), NEW at \in {"failed", "off"},
         making' = [at |-> at, disk |-> disk, left |-> <<>>], Speaks(cached', disk), Speaks(stored', disk)
  PROVE  TableInv'
<1>1. making'.at = at /\ making'.disk = disk /\ making'.left = <<>> /\ <<>> \in Seq(RegionsOf(disk))
  OBVIOUS
<1>2. MakingIs(making.at, making.disk, making.left)'
  BY <1>1 DEF MakingIs
<1> QED
  BY <1>1, <1>2 DEF TableInv

LEMMA RegionFailing ==
  ASSUME TableInv, RegionFails
  PROVE  TableInv'
<1>1. making.at = "write" /\ cached' = cached /\ stored' = stored
  BY DEF RegionFails
<1>2. PICK disk \in Tried : disk = making.disk /\ making = [at |-> "write", disk |-> disk, left |-> making.left]
  BY <1>1 DEF TableInv, MakingIs
<1>3. making' = [at |-> "failed", disk |-> disk, left |-> <<>>]
  BY <1>2 DEF RegionFails
<1>4. ~Unfit(disk) /\ Speaks(cached', disk) /\ Speaks(stored', disk)
  BY <1>1, <1>2 DEF TableInv
<1> QED
  BY <1>3, <1>4, NowStopped

(* What is not yet written back is cut, and a cut array is no header. *)
LEMMA PowerGoing ==
  ASSUME TableInv, PowerGoes
  PROVE  TableInv'
<1>1. making.at \in {"write", "failed"}
  BY DEF PowerGoes
<1>2. PICK disk \in Tried : disk = making.disk /\ making = [at |-> making.at, disk |-> disk, left |-> making.left]
  BY <1>1 DEF TableInv, MakingIs
<1>3. making' = [at |-> "off", disk |-> disk, left |-> <<>>]
  BY <1>2 DEF PowerGoes
<1>4. ~Unfit(disk) /\ Speaks(stored, disk)
  BY <1>1, <1>2 DEF TableInv
<1>5. PICK cut : stored' = [at \in DOMAIN stored |-> IF at \in cut THEN Torn ELSE stored[at]] /\ cached' = stored'
  BY DEF PowerGoes
<1>6. HeaderIsTrue(Torn, disk)
  BY WhatIsWritten DEF HeaderIsTrue
<1>7. Speaks(stored', disk)
  BY <1>4, <1>5, <1>6 DEF Speaks
<1> QED
  BY <1>3, <1>4, <1>5, <1>7, NowStopped

(* What the kernel writes back is what the cache has. *)
LEMMA WritingBack ==
  ASSUME TableInv, NEW at \in DOMAIN stored, WriteBack(at)
  PROVE  TableInv'
<1>1. making.at \in {"write", "failed"} /\ stored' = [stored EXCEPT ![at] = cached[at]] /\ making' = making /\ cached' = cached
  BY DEF WriteBack
<1>2. ~Unfit(making.disk) /\ Speaks(cached, making.disk) /\ Speaks(stored, making.disk)
  BY <1>1 DEF TableInv
<1>3. at \in Places(making.disk) /\ HeaderIsTrue(cached[at], making.disk)
  BY <1>2 DEF Speaks
<1>4. Speaks(stored', making.disk)
  <2>1. Speaks([stored EXCEPT ![at] = cached[at]], making.disk)
    BY <1>2, <1>3, StillSpeaks
  <2> QED
    BY <1>1, <2>1
<1> QED
  BY <1>1, <1>2, <1>4 DEF TableInv, MakingIs

LEMMA TableGoesOn ==
  ASSUME TableInv, [TableNext]_table
  PROVE  TableInv'
<1>1. CASE UNCHANGED table
  BY <1>1 DEF table, TableInv, MakingIs
<1>2. CASE TableNext
  BY <1>2, WritingBegins, OneMoreIsWritten, AllIsSynced, RegionFailing, PowerGoing, WritingBack DEF TableNext
<1> QED
  BY <1>1, <1>2

(* A header that is believed speaks for the entries it is believed with. *)
LEMMA ReadsOneOrTheOther ==
  ASSUME NEW disk, NEW c, Speaks(c, disk)
  PROVE  Table(c, disk) \in {<<>>, Entries(disk, Identity(Before)), Entries(disk, Identity(Now))}
<1> DEFINE B == BackupHeader(disk)
           headers == {at \in {1, B} : c[0].is = "mbr" /\ Believes(c, at)}
<1>1. Table(c, disk) = IF headers = {} THEN <<>> ELSE c[c[IF 1 \in headers THEN 1 ELSE B].array].entries
  BY DEF Table
<1>2. ASSUME NEW at \in {1, B}, Believes(c, at)
      PROVE  c[c[at].array].entries \in {Entries(disk, Identity(Before)), Entries(disk, Identity(Now))}
  <2>1. at \in Places(disk)
    BY DEF Places
  <2>2. c[at].is = "header" /\ c[c[at].array].entries = c[at].sum
    BY <1>2 DEF Believes
  <2> QED
    BY <2>1, <2>2 DEF Speaks, HeaderIsTrue, New
<1>3. CASE headers = {}
  BY <1>1, <1>3
<1>4. CASE headers # {}
  <2>1. PICK at : at \in headers /\ at = IF 1 \in headers THEN 1 ELSE B
    BY <1>4
  <2>2. Table(c, disk) = c[c[at].array].entries
    BY <1>1, <1>4, <2>1
  <2> QED
    BY <1>2, <2>1, <2>2
<1> QED
  BY <1>3, <1>4

(* What holds of the table in every state. *)
LEMMA TableIsTrue == TableInv => TableTypeOK /\ TableIsOneOrTheOther /\ WrittenIsWhole /\ LayoutHasItsRoom
<1> SUFFICES ASSUME TableInv PROVE TableTypeOK /\ TableIsOneOrTheOther /\ WrittenIsWhole /\ LayoutHasItsRoom
  OBVIOUS
<1>1. PICK disk \in Tried : disk = making.disk
  BY DEF TableInv
<1>2. Unfit(disk) => making.at \in {"rest", "refused"} /\ cached = <<>> /\ stored = <<>>
  BY <1>1 DEF TableInv
<1>3. ~Unfit(disk) => /\ making.at \in {"rest", "write", "done", "failed", "off"} /\ Speaks(cached, disk) /\ Speaks(stored, disk)
                      /\ making.at = "done" => Whole(cached, disk) /\ stored = cached
  BY <1>1 DEF TableInv
<1>4. TableTypeOK
  <2>1. DOMAIN cached = DOMAIN stored
    BY <1>2, <1>3 DEF Speaks
  <2>2. making.at \in {"rest", "write", "done", "refused", "failed", "off"}
    BY <1>2, <1>3
  <2> QED
    BY <1>1, <2>1, <2>2 DEF TableTypeOK
<1>5. TableIsOneOrTheOther
  <2>1. ASSUME NEW contents \in {cached, stored}, contents # <<>>
        PROVE  Table(contents, disk) \in {<<>>, Entries(disk, Identity(Before)), Entries(disk, Identity(Now))}
    <3>1. Speaks(contents, disk)
      BY <1>2, <1>3, <2>1
    <3> QED
      BY <3>1, ReadsOneOrTheOther
  <2> QED
    BY <1>1, <2>1 DEF TableIsOneOrTheOther
<1>6. ASSUME making.at = "done" PROVE ~Unfit(disk) /\ stored = cached /\ DOMAIN cached = Places(disk) /\ Whole(cached, disk)
  BY <1>2, <1>3, <1>6 DEF Speaks
<1>7. WrittenIsWhole
  <2>1. ASSUME NEW contents \in {cached, stored}, making.at = "done"
        PROVE  /\ Table(contents, disk) = New(disk)
               /\ \A lost \in {1, 2, BackupHeader(disk)} : Table([contents EXCEPT ![lost] = Torn], disk) = New(disk)
    <3>1. ~Unfit(disk) /\ DOMAIN contents = Places(disk) /\ Whole(contents, disk)
      BY <1>6, <2>1
    <3> QED
      BY <3>1, WholeIsRead
  <2> QED
    BY <1>1, <2>1 DEF WrittenIsWhole, New
<1>8. LayoutHasItsRoom
  <2>1. ~Unfit(disk) <=> Roomy(disk)
    BY FitsWhenRoomy
  <2>2. 1 + Layout[1].mib + Layout[2].mib + Layout[3].mib + Layout[4].mib + Layout[5].mib = 2625
    BY LayoutIs
  <2>3. making.at = "refused" => ~Roomy(disk)
    BY <1>2, <1>3, <2>1
  <2>4. making.at \notin {"rest", "refused"} => Roomy(disk)
    BY <1>2, <2>1
  <2>5. ASSUME making.at = "done", NEW read, read = Table(stored, disk), NEW i \in DOMAIN Layout
        PROVE  /\ ReadGuid(read[i].type) = Layout[i].type /\ read[i].name = Layout[i].label
               /\ read[i].first % PerMib(disk) = 0
               /\ Layout[i].mib # Rest => read[i].last - read[i].first + 1 = Layout[i].mib * PerMib(disk)
               /\ read[i].first > 1 + ArraySectors(disk) /\ read[i].last < BackupArray(disk)
               /\ \A j \in 1..(i - 1) : read[j].last < read[i].first /\ read[j].unique # read[i].unique
    <3>1. read = New(disk)
      BY <1>6, <2>5, WholeIsRead
    <3>2. i \in 1..6
      BY DEF Layout
    <3>3. ~Unfit(disk)
      BY <1>6, <2>5
    <3> QED
      BY <3>1, <3>2, <3>3, ReadAsLaidOut
  <2> QED
    BY <1>1, <2>2, <2>3, <2>4, <2>5 DEF LayoutHasItsRoom, Roomy
<1> QED
  BY <1>4, <1>5, <1>7, <1>8

-----------------------------------------------------------------------------
(* The sum: a step is of one part, and leaves the others as they are. *)

GroundInv == StorageInv /\ TableInv /\ WifiInv /\ LinkInv /\ CertificateInv /\ TrialInv

LEMMA GroundBegins == GroundInit => GroundInv
BY StorageBegins, TableBegins, WifiBegins, LinkBegins, CertificateBegins, TrialBegins DEF GroundInit, GroundInv

Stands == UNCHANGED faults /\ [StorageNext]_disks /\ [TableNext]_table /\ [WifiNext]_wifi /\ [LinkNext]_link /\ [CertificateNext]_certificate /\ [AddressNext]_address

LEMMA GroundSteps == [GroundNext]_everything => Stands
<1> SUFFICES ASSUME [GroundNext]_everything PROVE Stands
  OBVIOUS
<1>1. CASE UNCHANGED everything
  BY <1>1 DEF everything, network, Stands
<1>2. CASE OfDisks(StorageNext) \/ OfTable(TableNext)
  BY <1>2 DEF OfDisks, OfTable, Of, network, Stands
<1>3. CASE OfRadio(WifiNext) \/ OfWire(LinkNext)
  BY <1>3 DEF OfRadio, OfWire, Of, network, Stands
<1>4. CASE OfIssue(CertificateNext) \/ OfAddress(AddressNext)
  BY <1>4 DEF OfIssue, OfAddress, Of, network, Stands
<1> QED
  BY <1>1, <1>2, <1>3, <1>4 DEF GroundNext

LEMMA GroundGoesOn == GroundInv /\ [GroundNext]_everything => GroundInv'
BY GroundSteps, StorageGoesOn, TableGoesOn, WifiKept, LinkGoesOn, CertificateGoesOn, TrialGoesOn DEF Stands, GroundInv

(* The strengthening of what the ground promises: what every thread, process and timer has in hand. *)
THEOREM GroundInvariance == GroundSpec => []GroundInv
BY GroundBegins, GroundGoesOn, PTL DEF GroundSpec

(* A trial has a thread that ends it in time, the stored address is the one in force, and a confirmed one stands. *)
LEMMA TrialIsWatched == TrialInv => TrialsEnd
<1> SUFFICES ASSUME TrialInv PROVE TrialsEnd
  OBVIOUS
<1>1. Orderly => Sole /\ ~Happens("crash")
  BY DEF Orderly, Sole, Happens
<1> QED
  BY <1>1 DEF TrialInv, TrialsEnd, OrderlyStoredIsInForce, StoredIsInForce, ConfirmedStands, Sole, OneChange, Agrees

LEMMA NetworkIsTrue == GroundInv => NetworkIsAsSaid
BY RadioIsOnes, PageAgrees, ListIsOfAScan, CableIsFound, CertificateIsAsShown DEF GroundInv, NetworkIsAsSaid

(* For any networks, access points, cards, cables and addresses, whichever supplicant is stubborn, dies or is killed, and
   wherever a crash falls: what the machine says of its network is so (wifi.rs, net.rs, console::tls). *)
THEOREM NetworkIsTold == GroundSpec => []NetworkIsAsSaid
BY GroundInvariance, NetworkIsTrue, PTL

(* For any number of savers and revert threads: a change that is provisional has a thread that ends it in time; where saves
   come one after another and nothing fails, the address in force is the stored one, and one that was confirmed stands
   until another is asked for, also where plexosd dies (addressing.rs). *)
THEOREM TrialsAreWatched == GroundSpec => []TrialsEnd
<1>1. GroundInv => TrialsEnd
  BY TrialIsWatched DEF GroundInv
<1> QED
  BY <1>1, GroundInvariance, PTL

(* Every variable of the ground has its type, for any constants (Storage, PartitionTable, Wifi, Link, Certificate,
   AddressTrial). *)
THEOREM GroundIsTyped == GroundSpec => []TypeOK
<1>1. GroundInv => TypeOK
  BY StorageIsTyped, TableIsTrue DEF GroundInv, TypeOK, WifiInv, LinkInv, CertificateInv, TrialInv
<1> QED
  BY <1>1, GroundInvariance, PTL

(* For any disks, names, folders and servers, any requests and jobs that are about, and wherever a disk is pulled out or the
   daemon falls: no installation writes the running disk and no library or share shows it, a library shows the disk that
   was chosen, a disk that is called done has the whole system, and no medium goes from under its reader
   (disks.rs, netshares.rs, media.rs, install.rs). *)
THEOREM DisksAreKept == GroundSpec => []DisksAreAsSaid
<1>1. GroundInv => DisksAreAsSaid
  BY StorageIsAsSaid DEF GroundInv, DisksAreAsSaid
<1> QED
  BY <1>1, GroundInvariance, PTL

(* For disks of any number of sectors: what is read, whichever regions have reached the disk, is the table it had, the new
   one or none; the new one whole once it is called written, with either copy torn; and a disk is refused exactly when the
   layout has no room (gpt.rs, install.rs). *)
THEOREM TablesAreWhole == GroundSpec => []TableIsAsSaid
<1>1. GroundInv => TableIsAsSaid
  BY TableIsTrue DEF GroundInv, TableIsAsSaid
<1> QED
  BY <1>1, GroundInvariance, PTL

(* For any folders and disks: a folder somebody chose is shown once the machine serves again, if its disk is there and no
   mount fails (disks.rs, mount_all). *)
THEOREM WhatWasSetUpIsKept == GroundSpec => WhatWasSetUpStands
<1>1. ASSUME GroundInv, [GroundNext]_everything PROVE ConfiguredIsShown
  <2>1. [StorageNext]_disks /\ UNCHANGED faults
    BY <1>1, GroundSteps DEF Stands
  <2> QED
    BY <1>1, <2>1, ConfiguredGetsShown DEF GroundInv
<1>2. GroundInv /\ [GroundNext]_everything => [ConfiguredIsShown]_everything
  BY <1>1
<1> QED
  BY <1>2, GroundInvariance, PTL DEF GroundSpec, WhatWasSetUpStands
=============================================================================
