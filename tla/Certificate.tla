------------------------------ MODULE Certificate ------------------------------
(***************************************************************************)
(* The console's TLS identity (tls.rs, console::identity_for and            *)
(* watch_addresses): a key that is kept, a certificate that is reissued when *)
(* the machine's addresses change, and what is remembered of both.          *)
(***************************************************************************)
EXTENDS Integers, FiniteSets, Faults

CONSTANTS
  Addresses,   \* the addresses the machine may have
  Moves        \* bound: how often they change

ASSUME AddressesAssumption == Moves \in Nat /\ "unknown" \notin Addresses

VARIABLES
  has,         \* the machine's addresses now
  moved,       \* how often they have changed
  tls,         \* TLS_DIR: the key, the certificate, and issued-for
  issuer,      \* the thread that issues: the start of the console, then watch_addresses
  shown,       \* FINGERPRINT, COVERS
  served       \* SERVING

certificate == <<has, moved, tls, issuer, shown, served>>

NoKey     == 0
Unknown   == {"unknown"}      \* a file that is not there, or that was cut off
Truncated == -1
NoCert    == [key |-> NoKey, names |-> Unknown]
Garbled   == [key |-> Truncated, names |-> Unknown]
NotServed == [key |-> NoKey, cert |-> NoCert]
Unshown   == [fingerprint |-> NoKey, covers |-> Unknown]
Off       == [at |-> "off", names |-> {}, key |-> NoKey, cert |-> NoCert]

Stages   == {"off", "key", "write-key", "reuse", "write-cert", "write-names", "remember", "install", "watch", "failed"}
KeyPairs == {1, 2}
Coverage == SUBSET Addresses
Certs == [key : KeyPairs, names : Coverage] \cup {NoCert, Garbled}

CertificateTypeOK ==
  /\ has \in Coverage /\ moved \in 0..Moves
  /\ tls \in [key : KeyPairs \cup {NoKey, Truncated}, cert : Certs, names : Coverage \cup {Unknown}, spent : KeyPairs \cup {NoKey}]
  /\ issuer \in [at : Stages, names : Coverage, key : KeyPairs \cup {NoKey}, cert : Certs]
  /\ shown \in [fingerprint : KeyPairs \cup {NoKey}, covers : Coverage \cup {Unknown}]
  /\ served \in [key : KeyPairs \cup {NoKey}, cert : Certs]

CertificateInit ==
  /\ has = {} /\ moved = 0
  /\ tls = [key |-> NoKey, cert |-> NoCert, names |-> Unknown, spent |-> NoKey]
  /\ issuer = Off /\ served = NotServed /\ shown = Unshown

Issuer(at) == issuer.at = at
Then(next) == issuer' = next
(* In run, before anything is served, it ends the console; in watch_addresses it is tried again. *)
Fails == Then([issuer EXCEPT !.at = IF served = NotServed THEN "failed" ELSE "watch"])

-----------------------------------------------------------------------------
(* A lease moves, a cable is unplugged, a wireless network is joined. *)
Readdressed == \E a \in Coverage :
  /\ Happens("addresses") /\ moved < Moves /\ a # has
  /\ has' = a /\ moved' = moved + 1
  /\ UNCHANGED <<tls, issuer, shown, served, faults>>

(* names_for: sorted and deduplicated, so the same addresses are the same names. *)
names_for(addresses) == addresses

(* console::run, once it has waited for an address; after a failure PID 1 starts plexosd again. *)
ConsoleStarts ==
  /\ Happens("addresses") /\ issuer.at \in {"off", "failed"}
  /\ Then([Off EXCEPT !.at = "key", !.names = names_for(has)]) /\ shown' = Unshown
  /\ UNCHANGED <<has, moved, tls, served, faults>>

(* watch_addresses, every minute: what is in force is compared with what the machine has. *)
Look ==
  /\ Issuer("watch") /\ shown.covers # names_for(has)
  /\ Then([issuer EXCEPT !.at = "key", !.names = names_for(has)])
  /\ UNCHANGED <<has, moved, tls, shown, served, faults>>

NewKey == IF tls.spent = 1 THEN 2 ELSE 1

(* load_or_create: the stored key, or a new one. *)
LoadKey ==
  /\ Issuer("key")
  /\ CASE tls.key \in KeyPairs    -> Then([issuer EXCEPT !.at = "reuse", !.key = tls.key])
       [] tls.key = NoKey     -> Then([issuer EXCEPT !.at = "write-key", !.key = NewKey])
       [] tls.key = Truncated -> Fails
  /\ UNCHANGED <<has, moved, tls, shown, served, faults>>

(* write_private empties the file before it writes and syncs: on a full disk it fails at any of the three. *)
Wrote(key) == [tls EXCEPT !.key = key, !.spent = key]
WriteKey ==
  /\ Issuer("write-key")
  /\ \/ tls' = Wrote(issuer.key) /\ Then([issuer EXCEPT !.at = "reuse"])
     \/ Happens("full") /\ Fails /\ tls' \in {tls, [tls EXCEPT !.key = Truncated], Wrote(issuer.key)}
  /\ UNCHANGED <<has, moved, shown, served, faults>>

(* reusable_certificate: the stored one, if issued-for names exactly these; else one is signed. *)
Reusable == tls.names = issuer.names /\ tls.cert # NoCert

Reuse ==
  /\ Issuer("reuse")
  /\ IF Reusable
     THEN Then([issuer EXCEPT !.at = "remember", !.cert = tls.cert])
     ELSE Then([issuer EXCEPT !.at = "write-cert", !.cert = [key |-> issuer.key, names |-> issuer.names]])
  /\ UNCHANGED <<has, moved, tls, shown, served, faults>>

(* fs::write empties each in place, and nothing syncs it. *)
WriteCert ==
  /\ Issuer("write-cert")
  /\ \/ tls' = [tls EXCEPT !.cert = issuer.cert] /\ Then([issuer EXCEPT !.at = "write-names"])
     \/ Happens("full") /\ Fails /\ tls' \in {tls, [tls EXCEPT !.cert = Garbled]}
  /\ UNCHANGED <<has, moved, shown, served, faults>>
WriteNames ==
  /\ Issuer("write-names")
  /\ \/ tls' = [tls EXCEPT !.names = issuer.names] /\ Then([issuer EXCEPT !.at = "remember"])
     \/ Happens("full") /\ Fails /\ tls' \in {tls, [tls EXCEPT !.names = Unknown]}
  /\ UNCHANGED <<has, moved, shown, served, faults>>

(* identity_for: the fingerprint is set once; the names each time; then the configuration is put in force,
   unless the certificate is not this key's. *)
Remember ==
  /\ Issuer("remember")
  /\ shown' = [fingerprint |-> IF shown.fingerprint = NoKey THEN issuer.key ELSE shown.fingerprint, covers |-> issuer.names]
  /\ Then([issuer EXCEPT !.at = "install"])
  /\ UNCHANGED <<has, moved, tls, served, faults>>

Install ==
  /\ Issuer("install")
  /\ IF issuer.cert.key = issuer.key
     THEN served' = [key |-> issuer.key, cert |-> issuer.cert] /\ Then([issuer EXCEPT !.at = "watch"])
     ELSE UNCHANGED served /\ Fails
  /\ UNCHANGED <<has, moved, tls, shown, faults>>

-----------------------------------------------------------------------------
(* plexosd dies; with the power, so does a key that is not synced yet, and a certificate or its names, which never are. *)
Stopped ==
  /\ issuer' = Off /\ served' = NotServed /\ shown' = Unshown
  /\ UNCHANGED <<has, moved, faults>>
Unsynced ==
  IF issuer.at = "write-key" THEN {[tls EXCEPT !.key = Truncated]}
  ELSE {t \in {[tls EXCEPT !.cert = Garbled], [tls EXCEPT !.names = Unknown]} : tls.cert # NoCert}
ConsoleDies == Happens("dies") /\ issuer.at # "off" /\ Stopped /\ UNCHANGED tls
PowerFails  == Happens("power") /\ issuer.at # "off" /\ Stopped /\ tls' \in {tls} \cup Unsynced

Issuing == Look \/ LoadKey \/ WriteKey \/ Reuse \/ WriteCert \/ WriteNames \/ Remember \/ Install
CertificateNext == Readdressed \/ ConsoleStarts \/ Issuing \/ ConsoleDies \/ PowerFails

-----------------------------------------------------------------------------
(* What /api/status shows is what a browser is shown: the key that is served is the one whose fingerprint
   was remembered and the one its certificate is for, however often it was reissued (tls.rs, remember). *)
ShownIsServed == served # NotServed => served.key = shown.fingerprint /\ served.cert.key = served.key

(* Where plexosd and the power last through a reissue, covers() answers for the certificate in force, "so the pairing
   QR points at an address this certificate vouches for". *)
CoversWhenWhole ==
  issuer.at = "watch" /\ served # NotServed /\ ~Happens("dies") /\ ~Happens("power") => shown.covers = served.cert.names

(* The machine is whole, and the console serves a certificate that does not name its addresses (watch_addresses,
   "a reissue that failed is retried rather than remembered as done"). *)
Outdated == Happens("addresses") /\ ~Happens("full") /\ ~Happens("power") /\ ~Happens("dies") /\ served.cert.names # has
=============================================================================
