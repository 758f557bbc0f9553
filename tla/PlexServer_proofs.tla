--------------------------- MODULE PlexServer_proofs ---------------------------
(***************************************************************************)
(* What the Handle's mutex and the order of a swap guarantee, for any       *)
(* number of process identifiers, installs, failures and crashes.           *)
(*                                                                          *)
(* OnlyOnePlex is not inductive: it needs that every live process is the    *)
(* Handle's child and that a thread about to fork holds the mutex over no   *)
(* live process.  ServesWhatIsMounted needs that nothing is mounted when a  *)
(* swap is about to mount.                                                  *)
(***************************************************************************)
EXTENDS PlexServer, FiniteSetTheorems, TLAPS

(* As long as plexosd has not died, no Plex lives that its Handle does not hold. *)
OneChild ==
  /\ \A t \in Threads : pc[t] \in {"stopping", "start"} => lock = t
  /\ crashes = 0 => /\ Alive \subseteq {child}
                    /\ (\E t \in Threads : pc[t] = "start") => Alive = {}

(* A process that has been exec'd runs the mounted image, and a swap mounts over nothing. *)
Mounting ==
  /\ \A p \in Procs : plex[p] \in {"starting", "serving"} => image[p] = mounted /\ mounted # 0
  /\ pc["provision"] = "mount" => mounted = 0

(* A machine that is off runs nothing. *)
OffIsQuiet == ~up => ~daemon /\ pc = AllIdle /\ Alive = {}

IInv == TypeOK /\ OneChild /\ Mounting /\ OffIsQuiet

(* Where a thread can be. *)
Steps == {"idle", "stop", "stopping", "probe", "start", "unmount", "mount", "sync"}

(* No thread is called as the mutex is when nobody holds it. *)
LEMMA ThreadNames == /\ "free" \notin Threads
                     /\ {"console", "supervisor", "restart", "provision", "power"} \subseteq Threads
  BY DEF Threads

(* A machine with no Plex satisfies the invariant. *)
LEMMA InitInv == Init => IInv
<1> USE ProcsAssumption, BoundAssumption, NoProcAssumption
<1> SUFFICES ASSUME Init PROVE IInv
  OBVIOUS
<1>1. TypeOK
  <2>1. pc \in [Threads -> Steps]
    BY DEF Init, AllIdle, Steps
  <2>2. 0 \in 0..MaxVersion /\ 0 \in 0..MaxFaults /\ 0 \in 0..MaxCrashes
    OBVIOUS
  <2>3. plex \in [Procs -> {"none", "forked", "starting", "serving", "stuck"}]
    BY DEF Init
  <2>4. image \in [Procs -> 0..MaxVersion]
    BY <2>2 DEF Init
  <2> QED
    BY <2>1, <2>2, <2>3, <2>4 DEF Init, TypeOK, Steps
<1>2. OneChild
  BY DEF Init, OneChild, AllIdle, Threads, Alive
<1>3. Mounting /\ OffIsQuiet
  BY DEF Init, Mounting, OffIsQuiet, AllIdle, Threads
<1> QED
  BY <1>1, <1>2, <1>3 DEF IInv

(* The steps of one thread inside the Handle. *)
LEMMA ThreadKeeps == ASSUME IInv, NEW t \in Threads, ThreadStep(t) PROVE IInv'
<1> USE ProcsAssumption, BoundAssumption, NoProcAssumption, ThreadNames DEF IInv
<1>0. AfterStop(t) \in {"probe", "unmount", "sync"}
  BY DEF AfterStop
<1>0a. up
  BY DEF OffIsQuiet, ThreadStep, StopBegin, StopEnd, Probe, Start, AllIdle
<1>1. CASE StopBegin(t)
  <2>1. TypeOK'
    BY <1>0, <1>1 DEF StopBegin, Goto, server, TypeOK
  <2>2. OneChild'
    BY <1>0, <1>1 DEF StopBegin, Goto, server, TypeOK, OneChild, Alive
  <2>3. Mounting' /\ OffIsQuiet'
    BY <1>0, <1>0a, <1>1 DEF StopBegin, Goto, server, TypeOK, Mounting, OffIsQuiet
  <2> QED
    BY <2>1, <2>2, <2>3
<1>2. CASE StopEnd(t)
  <2>1. TypeOK'
    BY <1>0, <1>2 DEF StopEnd, Goto, Fault, TypeOK
  <2>a. Alive' \subseteq Alive
    BY <1>2 DEF StopEnd, Alive, TypeOK, HoldsLiveChild
  <2>2. OneChild'
    <3>1. CASE plex' = [plex EXCEPT ![child] = "none"] /\ child' = NoProc
      <4>1. crashes = 0 => Alive' = {}
        BY <3>1, <2>a DEF OneChild, Alive, TypeOK
      <4> QED
        BY <1>0, <1>2, <4>1 DEF StopEnd, Goto, OneChild, TypeOK
    <3>2. CASE child' = child
      BY <1>0, <1>2, <2>a, <3>2 DEF StopEnd, Goto, OneChild, TypeOK
    <3> QED
      BY <1>2, <3>1, <3>2 DEF StopEnd
  <2>3. Mounting' /\ OffIsQuiet'
    BY <1>0, <1>0a, <1>2 DEF StopEnd, Goto, TypeOK, Mounting, OffIsQuiet
  <2> QED
    BY <2>1, <2>2, <2>3
<1>3. CASE Probe(t)
  <2>1. TypeOK'
    BY <1>3 DEF Probe, Goto, server, TypeOK
  <2>2. OneChild'
    BY <1>3 DEF Probe, Goto, server, TypeOK, OneChild, Alive, HoldsLiveChild
  <2>3. Mounting' /\ OffIsQuiet'
    BY <1>0a, <1>3 DEF Probe, Goto, server, TypeOK, Mounting, OffIsQuiet
  <2> QED
    BY <2>1, <2>2, <2>3
<1>4. CASE Start(t)
  <2>1. TypeOK'
    <3>1. plex' \in [Procs -> {"none", "forked", "starting", "serving", "stuck"}]
      BY <1>4 DEF Start, TypeOK
    <3>2. child' \in Procs \cup {NoProc} /\ wanted' \in BOOLEAN
      BY <1>4 DEF Start, TypeOK, Alive
    <3>3. faults' \in 0..MaxFaults
      BY <1>4 DEF Start, Fault, TypeOK
    <3>4. lock' \in Threads \cup {"free"} /\ pc' \in [Threads -> Steps]
      BY <1>4 DEF Start, Goto, TypeOK, Steps
    <3> QED
      BY <1>4, <3>1, <3>2, <3>3, <3>4 DEF Start, TypeOK, Steps
  <2>2. OneChild'
    <3>1. ASSUME NEW p \in Procs, plex' = [plex EXCEPT ![p] = "forked"], child' = p, crashes = 0
          PROVE  Alive' \subseteq {child'}
      BY <1>4, <3>1 DEF Start, OneChild, Alive, TypeOK
    <3>2. \A u \in Threads : pc'[u] \notin {"stopping", "start"}
      BY <1>4 DEF Start, Goto, OneChild, TypeOK
    <3> QED
      BY <1>4, <3>1, <3>2 DEF Start, OneChild, Alive
  <2>3. Mounting' /\ OffIsQuiet'
    BY <1>0a, <1>4 DEF Start, Goto, TypeOK, Mounting, OffIsQuiet, Alive
  <2> QED
    BY <2>1, <2>2, <2>3
<1> QED
  BY <1>1, <1>2, <1>3, <1>4 DEF ThreadStep

(* Every other step. *)
LEMMA NextInv == IInv /\ [Next]_vars => IInv'
<1> USE ProcsAssumption, BoundAssumption, NoProcAssumption DEF IInv
<1> SUFFICES ASSUME IInv, [Next]_vars PROVE IInv'
  OBVIOUS
<1>1. ASSUME NEW t \in Threads, ThreadStep(t) PROVE IInv'
  BY <1>1, ThreadKeeps
<1>2. CASE Watch \/ RequestRestart \/ RequestPower
  <2>1. TypeOK'
    BY <1>2 DEF Watch, RequestRestart, RequestPower, Goto, server, handle, TypeOK, Threads
  <2>2. OneChild'
    BY <1>2 DEF Watch, RequestRestart, RequestPower, Goto, server, handle, TypeOK, OneChild, Alive, Threads
  <2>3. Mounting' /\ OffIsQuiet'
    BY <1>2 DEF Watch, RequestRestart, RequestPower, Up, Goto, server, handle, TypeOK, Mounting, OffIsQuiet, Threads
  <2> QED
    BY <2>1, <2>2, <2>3
<1>3. CASE Provision
  <2>1. TypeOK'
    BY <1>3 DEF Provision, Goto, server, handle, TypeOK, Threads
  <2>2. OneChild'
    BY <1>3 DEF Provision, Goto, server, handle, TypeOK, OneChild, Alive, Threads
  <2>3. Mounting' /\ OffIsQuiet'
    BY <1>3 DEF Provision, Up, Goto, server, handle, TypeOK, Mounting, OffIsQuiet, Threads
  <2> QED
    BY <2>1, <2>2, <2>3
<1>4. CASE Unmount
  <2>1. TypeOK'
    BY <1>4 DEF Unmount, Goto, Fault, server, handle, TypeOK, Threads
  <2>2. OneChild'
    BY <1>4 DEF Unmount, Goto, Fault, server, handle, TypeOK, OneChild, Alive, Threads
  <2>3. Mounting'
    BY <1>4 DEF Unmount, Goto, server, handle, TypeOK, Mounting, Alive, Threads
  <2>4. OffIsQuiet'
    BY <1>4 DEF Unmount, server, handle, OffIsQuiet, AllIdle, Threads
  <2> QED
    BY <2>1, <2>2, <2>3, <2>4
<1>5. CASE Mount
  <2>1. TypeOK'
    BY <1>5 DEF Mount, Goto, Fault, server, handle, TypeOK, Threads
  <2>2. OneChild'
    BY <1>5 DEF Mount, Goto, Fault, server, handle, TypeOK, OneChild, Alive, Threads
  <2>3. Mounting'
    BY <1>5 DEF Mount, Goto, server, handle, TypeOK, Mounting, Threads
  <2>4. OffIsQuiet'
    BY <1>5 DEF Mount, server, handle, OffIsQuiet, AllIdle, Threads
  <2> QED
    BY <2>1, <2>2, <2>3, <2>4
<1>6. CASE PowerDown
  <2>0. up
    BY <1>6 DEF PowerDown, OffIsQuiet, AllIdle, Threads
  <2>1. TypeOK'
    <3>1. CASE up' = FALSE
      <4>1. AllIdle \in [Threads -> Steps]
        BY DEF AllIdle, Steps
      <4>2. [p \in Procs |-> "none"] \in [Procs -> {"none", "forked", "starting", "serving", "stuck"}]
        OBVIOUS
      <4>3. [p \in Procs |-> 0] \in [Procs -> 0..MaxVersion]
        OBVIOUS
      <4>4. faults' = faults /\ crashes' = crashes /\ current' = current
        BY <1>6, <3>1, <2>0 DEF PowerDown
      <4>5. /\ daemon' = FALSE /\ plex' = [p \in Procs |-> "none"] /\ image' = [p \in Procs |-> 0]
            /\ child' = NoProc /\ wanted' = FALSE /\ lock' = "free" /\ pc' = AllIdle /\ mounted' = 0
        BY <1>6, <3>1, <2>0 DEF PowerDown
      <4> QED
        BY <3>1, <4>1, <4>2, <4>3, <4>4, <4>5 DEF TypeOK, Steps
    <3>2. CASE up' # FALSE
      <4>1. faults' \in 0..MaxFaults
        BY <1>6, <3>2 DEF PowerDown, Fault, TypeOK
      <4>2. pc' \in [Threads -> Steps]
        BY <1>6, <3>2, ThreadNames DEF PowerDown, Goto, TypeOK, Steps
      <4> QED
        BY <1>6, <3>2, <4>1, <4>2 DEF PowerDown, server, handle, TypeOK, Steps
    <3> QED
      BY <3>1, <3>2
  <2>2. OneChild'
    BY <1>6 DEF PowerDown, Goto, Fault, server, handle, AllIdle, TypeOK, OneChild, Alive, Threads
  <2>3. Mounting' /\ OffIsQuiet'
    BY <1>6 DEF PowerDown, Goto, server, handle, AllIdle, TypeOK, Mounting, OffIsQuiet, Alive, Threads
  <2> QED
    BY <2>1, <2>2, <2>3
<1>7. CASE BootUp
  <2>1. TypeOK'
    BY <1>7 DEF BootUp, Fault, server, handle, AllIdle, TypeOK, Threads
  <2>2. OneChild'
    BY <1>7 DEF BootUp, Fault, server, handle, AllIdle, TypeOK, OneChild, Alive, Threads
  <2>3. Mounting' /\ OffIsQuiet'
    BY <1>7 DEF BootUp, server, handle, AllIdle, TypeOK, Mounting, OffIsQuiet, Alive, Threads
  <2> QED
    BY <2>1, <2>2, <2>3
<1>8. ASSUME NEW p \in Procs, Exec(p) \/ Serve(p) \/ Die(p) PROVE IInv'
  <2>0. Alive' \subseteq Alive /\ up
    BY <1>8 DEF Exec, Serve, Die, Alive, TypeOK, OffIsQuiet
  <2>1. TypeOK'
    BY <1>8 DEF Exec, Serve, Die, Fault, handle, TypeOK
  <2>2. OneChild'
    BY <1>8, <2>0 DEF Exec, Serve, Die, handle, OneChild
  <2>3. Mounting' /\ OffIsQuiet'
    BY <1>8, <2>0 DEF Exec, Serve, Die, handle, TypeOK, Mounting, OffIsQuiet
  <2> QED
    BY <2>1, <2>2, <2>3
<1>9. CASE DaemonCrash
  <2>1. TypeOK'
    <3>1. AllIdle \in [Threads -> Steps]
      BY DEF AllIdle, Steps
    <3>2. crashes' \in 0..MaxCrashes
      BY <1>9 DEF DaemonCrash, TypeOK
    <3>3. up' \in BOOLEAN /\ daemon' \in BOOLEAN /\ wanted' \in BOOLEAN
      BY <1>9 DEF DaemonCrash, TypeOK
    <3>4. pc' \in [Threads -> Steps] /\ lock' \in Threads \cup {"free"} /\ child' \in Procs \cup {NoProc}
      BY <1>9, <3>1 DEF DaemonCrash
    <3> QED
      BY <1>9, <3>2, <3>3, <3>4 DEF DaemonCrash, server, TypeOK, Steps
  <2>2. crashes' # 0
    BY <1>9 DEF DaemonCrash, TypeOK
  <2>3. OneChild'
    BY <1>9, <2>2 DEF DaemonCrash, AllIdle, OneChild, Threads
  <2>4. Mounting' /\ OffIsQuiet'
    BY <1>9 DEF DaemonCrash, server, AllIdle, Mounting, OffIsQuiet, Threads
  <2> QED
    BY <2>1, <2>3, <2>4
<1>10. CASE DaemonRestart
  <2>1. TypeOK'
    BY <1>10 DEF DaemonRestart, Goto, server, handle, TypeOK, Threads
  <2>2. OneChild'
    BY <1>10 DEF DaemonRestart, Goto, server, handle, TypeOK, OneChild, Alive, Threads
  <2>3. Mounting' /\ OffIsQuiet'
    BY <1>10 DEF DaemonRestart, Goto, server, handle, TypeOK, Mounting, OffIsQuiet, Threads
  <2> QED
    BY <2>1, <2>2, <2>3
<1>11. CASE UNCHANGED vars
  <2>1. TypeOK'
    BY <1>11 DEF vars, TypeOK
  <2>2. OneChild'
    BY <1>11 DEF vars, OneChild, Alive
  <2>3. Mounting' /\ OffIsQuiet'
    BY <1>11 DEF vars, Mounting, OffIsQuiet, Alive
  <2> QED
    BY <2>1, <2>2, <2>3
<1> QED
  BY <1>1, <1>2, <1>3, <1>4, <1>5, <1>6, <1>7, <1>8, <1>9, <1>10, <1>11 DEF Next

(* The inductive invariant holds in every reachable state. *)
THEOREM Invariance == Spec => []IInv
<1> QED
  BY InitInv, NextInv, PTL DEF Spec

(* Every variable of the Plex machinery keeps its type. *)
THEOREM TypeCorrect == Spec => []TypeOK
<1>1. IInv => TypeOK
  BY DEF IInv
<1> QED
  BY <1>1, Invariance, PTL

(* No interleaving of the threads of one plexosd starts a second Plex. *)
THEOREM OnePlex == Spec => []OnePlexPerDaemon
<1>1. IInv => OnePlexPerDaemon
  <2> SUFFICES ASSUME IInv, crashes = 0 PROVE Cardinality(Alive) <= 1
    BY DEF OnePlexPerDaemon, OnlyOnePlex
  <2>1. Alive = {} \/ Alive = {child}
    BY DEF IInv, OneChild
  <2>2. Cardinality({}) = 0 /\ Cardinality({child}) = 1
    BY FS_EmptySet, FS_Singleton
  <2> QED
    BY <2>1, <2>2
<1> QED
  BY <1>1, Invariance, PTL

(* No swap, restart or crash changes the image under a Plex that serves. *)
THEOREM ServesMounted == Spec => []ServesWhatIsMounted
<1>1. IInv => ServesWhatIsMounted
  BY DEF IInv, Mounting, ServesWhatIsMounted, Serving
<1> QED
  BY <1>1, Invariance, PTL
-----------------------------------------------------------------------------
(* A plexosd that is not there does nothing and holds nothing; and a Plex that is held, can be
   stopped and is not wanted is being stopped by somebody. *)
InHand ==
  /\ ~daemon => pc = AllIdle /\ child = NoProc
  /\ HoldsLiveChild /\ plex[child] # "stuck" /\ ~wanted => \E t \in Threads : pc[t] = "stopping"

LEMMA InHandInit == Init => InHand
BY NoProcAssumption DEF Init, InHand, HoldsLiveChild, Alive

(* Inside the Handle, `wanted` is taken back only by who goes on to stop what is held. *)
LEMMA ThreadKeepsHand == ASSUME IInv, InHand, NEW t \in Threads, ThreadStep(t) PROVE InHand'
<1> USE NoProcAssumption DEF IInv
<1>1. daemon /\ daemon' = daemon
  BY DEF ThreadStep, StopBegin, StopEnd, Probe, Start, InHand, AllIdle
<1>2. CASE StopBegin(t)
  BY <1>1, <1>2 DEF StopBegin, Goto, server, InHand, HoldsLiveChild, Alive, TypeOK
<1>3. CASE StopEnd(t)
  <2>1. ~HoldsLiveChild' \/ plex'[child'] = "stuck"
    BY <1>3 DEF StopEnd, HoldsLiveChild, Alive, TypeOK
  <2> QED
    BY <1>1, <2>1 DEF InHand
<1>4. CASE Probe(t)
  BY <1>1, <1>4 DEF Probe, Goto, server, InHand, HoldsLiveChild, Alive, TypeOK
<1>5. CASE Start(t)
  BY <1>1, <1>5 DEF Start, Goto, InHand, HoldsLiveChild, Alive, TypeOK
<1> QED
  BY <1>2, <1>3, <1>4, <1>5 DEF ThreadStep

LEMMA InHandNext == IInv /\ InHand /\ [Next]_vars => InHand'
<1> USE NoProcAssumption, ThreadNames
<1> SUFFICES ASSUME IInv, InHand, [Next]_vars PROVE InHand'
  OBVIOUS
<1>0. TypeOK /\ OffIsQuiet
  BY DEF IInv
<1>1. ASSUME NEW t \in Threads, ThreadStep(t) PROVE InHand'
  BY <1>1, ThreadKeepsHand
<1>2. CASE Watch \/ RequestRestart \/ RequestPower \/ Provision
  BY <1>0, <1>2 DEF Watch, RequestRestart, RequestPower, Provision, Up, Goto, server, handle,
                    InHand, HoldsLiveChild, Alive, TypeOK
<1>3. CASE Unmount \/ Mount
  <2>1. daemon /\ daemon' = daemon
    BY <1>3 DEF Unmount, Mount, InHand, AllIdle
  <2> QED
    BY <1>0, <1>3, <2>1 DEF Unmount, Mount, Goto, server, handle, InHand, HoldsLiveChild, Alive, TypeOK
<1>4. CASE PowerDown
  <2>1. daemon
    BY <1>4 DEF PowerDown, InHand, AllIdle
  <2>2. CASE child' = NoProc /\ pc' = AllIdle /\ plex' = [p \in Procs |-> "none"]
    BY <2>2 DEF InHand, HoldsLiveChild, Alive
  <2>3. CASE Goto("power", "idle") /\ UNCHANGED <<daemon, server, handle>>
    BY <1>0, <1>4, <2>1, <2>3 DEF PowerDown, Goto, server, handle, InHand, HoldsLiveChild, Alive, TypeOK
  <2> QED
    BY <1>4, <2>2, <2>3 DEF PowerDown
<1>5. CASE BootUp \/ DaemonRestart
  <2>1. child = NoProc /\ child' = child /\ daemon'
    BY <1>0, <1>5 DEF BootUp, DaemonRestart, handle, InHand, OffIsQuiet
  <2> QED
    BY <2>1 DEF InHand, HoldsLiveChild, Alive
<1>6. ASSUME NEW p \in Procs, Exec(p) \/ Serve(p) \/ Die(p) PROVE InHand'
  BY <1>0, <1>6 DEF Exec, Serve, Die, handle, InHand, HoldsLiveChild, Alive, TypeOK
<1>7. CASE DaemonCrash
  BY <1>7 DEF DaemonCrash, InHand, HoldsLiveChild, Alive
<1>8. CASE UNCHANGED vars
  BY <1>8 DEF vars, InHand, HoldsLiveChild, Alive
<1> QED
  BY <1>1, <1>2, <1>3, <1>4, <1>5, <1>6, <1>7, <1>8 DEF Next

(* A Plex of this plexosd is watched or being replaced, and none runs once the power sequence has
   stopped it, whichever threads stop and start it meanwhile (plex.rs, supervise; power.rs, stop_now). *)
THEOREM StaysInHand == Spec => []PlexIsInHand
<1>1. IInv /\ InHand => PlexIsInHand
  <2> SUFFICES ASSUME IInv, InHand PROVE PlexIsInHand
    OBVIOUS
  <2>1. NoUnwatchedPlex
    BY DEF InHand, NoUnwatchedPlex, Stopping
  <2>2. ASSUME crashes = 0, ~wanted, lock = "free", NEW p \in Alive, plex[p] # "stuck" PROVE FALSE
    <3>1. p = child
      BY <2>2 DEF IInv, OneChild
    <3>2. PICK t \in Threads : pc[t] = "stopping"
      BY <2>2, <3>1 DEF InHand, HoldsLiveChild
    <3> QED
      BY <2>2, <3>2, ThreadNames DEF IInv, OneChild
  <2> QED
    BY <2>1, <2>2 DEF PlexIsInHand, OwnPlexStoppedBeforeSync, StoppedBeforeSync
<1>2. InHand /\ IInv /\ [Next]_vars => InHand'
  BY InHandNext
<1> QED
  BY <1>1, <1>2, InHandInit, Invariance, PTL DEF Spec
=============================================================================
