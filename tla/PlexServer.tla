----------------------------- MODULE PlexServer -----------------------------
(***************************************************************************)
(* plexosd's hold on the Plex Media Server: plex::Handle, the threads that  *)
(* call it (console start-up, the supervisor, a console restart, the swap   *)
(* after an install, the power sequence), and the app image under it.       *)
(*                                                                          *)
(* A Plex process outlives the plexosd that started it: `child` is what the *)
(* Handle of the current plexosd holds, `plex` is what the machine runs.    *)
(***************************************************************************)
EXTENDS Integers, FiniteSets

CONSTANTS
  Procs,        \* process identifiers Plex can have
  MaxVersion,   \* bound on app images installed
  MaxFaults,    \* bound on failures: a start, an unmount, a mount, a death, a kill
  MaxCrashes    \* bound on deaths of plexosd

ASSUME ProcsAssumption == IsFiniteSet(Procs) /\ Procs # {}
ASSUME BoundAssumption == MaxVersion \in Nat \ {0} /\ MaxFaults \in Nat /\ MaxCrashes \in Nat

NoProc == "none"
ASSUME NoProcAssumption == NoProc \notin Procs

Threads == {"console", "supervisor", "restart", "provision", "power"}

VARIABLES
  up,        \* the machine runs
  daemon,    \* plexosd runs
  plex,      \* what each process is: "none", "forked", "starting", "serving" or "stuck"
  image,     \* the version each process was exec'd from; 0 before
  child,     \* Handle.child
  wanted,    \* Handle.wanted
  lock,      \* the thread that holds Handle.child's mutex across steps, or "free"
  pc,        \* where each thread is
  current,   \* the version the `current` link names; 0 before the first install
  mounted,   \* the version mounted at PLEX_MOUNT; 0 for none
  faults, crashes

handle == <<child, wanted, lock>>
server == <<plex, image>>
vars   == <<up, daemon, plex, image, child, wanted, lock, pc, current, mounted, faults, crashes>>

Alive   == {p \in Procs : plex[p] # "none"}
Serving == {p \in Procs : plex[p] = "serving"}
(* Mutant: a child counts once it answers. *)
ChildAnswers == child \in Serving

HoldsLiveChild == child \in Alive

TypeOK ==
  /\ up \in BOOLEAN /\ daemon \in BOOLEAN
  /\ plex \in [Procs -> {"none", "forked", "starting", "serving", "stuck"}]
  /\ image \in [Procs -> 0..MaxVersion]
  /\ child \in Procs \cup {NoProc}
  /\ wanted \in BOOLEAN
  /\ lock \in Threads \cup {"free"}
  /\ pc \in [Threads -> {"idle", "stop", "stopping", "probe", "start", "unmount", "mount", "sync"}]
  /\ current \in 0..MaxVersion /\ mounted \in 0..MaxVersion
  /\ faults \in 0..MaxFaults /\ crashes \in 0..MaxCrashes

AllIdle == [t \in Threads |-> "idle"]

Init ==
  /\ up = TRUE /\ daemon = TRUE
  /\ plex = [p \in Procs |-> "none"] /\ image = [p \in Procs |-> 0]
  /\ child = NoProc /\ wanted = FALSE /\ lock = "free"
  /\ pc = [AllIdle EXCEPT !["console"] = "probe"]
  /\ current = 0 /\ mounted = 0
  /\ faults = 0 /\ crashes = 0

Fault    == faults < MaxFaults /\ faults' = faults + 1
Goto(t, step) == pc' = [pc EXCEPT ![t] = step]

(* console::run calls ensure_started before it serves and before it spawns the supervisor. *)
Up == up /\ daemon /\ pc["console"] = "idle"

(* What a thread does once Handle::stop has returned. *)
AfterStop(t) == CASE t = "restart"   -> "probe"
                  [] t = "provision" -> "unmount"
                  [] OTHER           -> "sync"

-----------------------------------------------------------------------------
(* Handle::stop *)

(* The mutex, then `wanted`, then the child: with none held there is nothing to stop. *)
StopBegin(t) ==
  /\ pc[t] = "stop" /\ lock = "free"
  /\ wanted' = FALSE
  /\ IF child = NoProc
     THEN Goto(t, AfterStop(t)) /\ UNCHANGED lock
     ELSE Goto(t, "stopping") /\ lock' = t
  /\ UNCHANGED <<up, daemon, server, child, current, mounted, faults, crashes>>

(* SIGTERM, a grace, SIGKILL, a grace: the child is gone, or the kernel still holds it
   in an uninterruptible sleep and the Handle goes on holding it too.  One that was gone and
   reaped before cannot be signalled, and the Handle goes on holding its identifier. *)
StopEnd(t) ==
  /\ pc[t] = "stopping"
  /\ Goto(t, AfterStop(t)) /\ lock' = "free"
  /\ \/ plex' = [plex EXCEPT ![child] = "none"] /\ child' = NoProc /\ UNCHANGED faults
     \/ HoldsLiveChild /\ Fault /\ plex' = [plex EXCEPT ![child] = "stuck"] /\ UNCHANGED child
     \/ ~HoldsLiveChild /\ UNCHANGED <<plex, child, faults>>
  /\ UNCHANGED <<up, daemon, image, wanted, current, mounted, crashes>>

-----------------------------------------------------------------------------
(* Handle::ensure_started *)

(* A live child, or anything that answers, is the Plex that is meant to run. *)
Probe(t) ==
  /\ pc[t] = "probe" /\ lock = "free"
  /\ \/ /\ HoldsLiveChild \/ Serving # {}
        /\ wanted' = TRUE /\ Goto(t, "idle") /\ UNCHANGED lock
     \/ /\ ~HoldsLiveChild /\ Serving = {} /\ mounted = 0
        /\ Goto(t, "idle") /\ UNCHANGED <<wanted, lock>>
     \/ /\ ~HoldsLiveChild /\ Serving = {} /\ mounted # 0
        /\ Goto(t, "start") /\ lock' = t /\ UNCHANGED wanted
  /\ UNCHANGED <<up, daemon, server, child, current, mounted, faults, crashes>>

(* Mutant: `wanted` is not set. *)
StartUnwatched(t) ==
  /\ pc[t] = "start"
  /\ Goto(t, "idle") /\ lock' = "free"
  /\ \E p \in Procs \ Alive : plex' = [plex EXCEPT ![p] = "forked"] /\ child' = p
  /\ UNCHANGED <<up, daemon, image, wanted, current, mounted, faults, crashes>>

(* plex::start forks; when it cannot, `wanted` is left as it was.  With every identifier of
   Procs taken (by processes the kernel will not let go of) it cannot either. *)
Start(t) ==
  /\ pc[t] = "start"
  /\ Goto(t, "idle") /\ lock' = "free"
  /\ \/ /\ \E p \in Procs \ Alive : plex' = [plex EXCEPT ![p] = "forked"] /\ child' = p
        /\ wanted' = TRUE /\ UNCHANGED faults
     \/ /\ Fault \/ (Procs = Alive /\ UNCHANGED faults)
        /\ UNCHANGED <<plex, child, wanted>>
  /\ UNCHANGED <<up, daemon, image, current, mounted, crashes>>

-----------------------------------------------------------------------------
(* The threads. *)

(* Mutant: only a Handle that holds nothing is looked at, so a dead child is not seen. *)
WatchEmptyHandle ==
  /\ Up /\ pc["supervisor"] = "idle" /\ lock = "free"
  /\ wanted /\ child = NoProc /\ Serving = {} /\ mounted # 0
  /\ Goto("supervisor", "probe")
  /\ UNCHANGED <<up, daemon, server, handle, current, mounted, faults, crashes>>

(* supervise: restart_reason over one look; the decision is acted on without another. *)
Watch ==
  /\ Up /\ pc["supervisor"] = "idle" /\ lock = "free"
  /\ wanted /\ ~HoldsLiveChild /\ Serving = {} /\ mounted # 0
  /\ Goto("supervisor", "probe")
  /\ UNCHANGED <<up, daemon, server, handle, current, mounted, faults, crashes>>

(* POST /api/plex/restart: stop, then ensure_started. *)
RequestRestart ==
  /\ Up /\ pc["restart"] = "idle"
  /\ Goto("restart", "stop")
  /\ UNCHANGED <<up, daemon, server, handle, current, mounted, faults, crashes>>

(* POST /api/power, and a gate that restarts to spend a try: power::stop_now. *)
RequestPower ==
  /\ Up /\ pc["power"] = "idle"
  /\ Goto("power", "stop")
  /\ UNCHANGED <<up, daemon, server, handle, current, mounted, faults, crashes>>

(* provision::spawn, once `current` names the new image: swap what runs or is mounted,
   or mount and start. *)
Provision ==
  /\ Up /\ pc["provision"] = "idle" /\ current < MaxVersion
  /\ current' = current + 1
  /\ Goto("provision", IF Serving # {} \/ mounted # 0 THEN "stop" ELSE "mount")
  /\ UNCHANGED <<up, daemon, server, handle, mounted, faults, crashes>>

(* Mutant: a lazy unmount, which a running process does not refuse. *)
UnmountLazily ==
  /\ pc["provision"] = "unmount"
  /\ mounted' = 0 /\ Goto("provision", "mount")
  /\ UNCHANGED <<up, daemon, server, handle, current, faults, crashes>>

(* unmount_current: refused while a process runs from the image; then the old one is put back. *)
Unmount ==
  /\ pc["provision"] = "unmount"
  /\ LET busy == \E p \in Alive : plex[p] # "forked" IN
     \/ /\ ~busy \/ mounted = 0
        /\ mounted' = 0 /\ Goto("provision", "mount") /\ UNCHANGED faults
     \/ /\ busy /\ mounted # 0
        /\ Goto("provision", "probe") /\ UNCHANGED <<mounted, faults>>
     \/ Fault /\ Goto("provision", "probe") /\ UNCHANGED mounted
  /\ UNCHANGED <<up, daemon, server, handle, current, crashes>>

(* mount_current: verified against its record and mounted, or refused and left at that. *)
Mount ==
  /\ pc["provision"] = "mount"
  /\ \/ mounted' = current /\ Goto("provision", "probe") /\ UNCHANGED faults
     \/ Fault /\ Goto("provision", "idle") /\ UNCHANGED mounted
  /\ UNCHANGED <<up, daemon, server, handle, current, crashes>>

(* reboot(2): the machine goes down with whatever still runs; or the kernel refuses. *)
PowerDown ==
  /\ pc["power"] = "sync"
  /\ \/ /\ up' = FALSE /\ daemon' = FALSE
        /\ plex' = [p \in Procs |-> "none"] /\ image' = [p \in Procs |-> 0]
        /\ child' = NoProc /\ wanted' = FALSE /\ lock' = "free"
        /\ pc' = AllIdle /\ mounted' = 0 /\ UNCHANGED faults
     \/ Fault /\ Goto("power", "idle") /\ UNCHANGED <<up, daemon, server, handle, mounted>>
  /\ UNCHANGED <<current, crashes>>

(* PID 1 runs `plexosd --mount-plex` and then `plexosd --serve`. *)
BootUp ==
  /\ ~up
  /\ up' = TRUE /\ daemon' = TRUE
  /\ pc' = [AllIdle EXCEPT !["console"] = "probe"]
  /\ \/ mounted' = current /\ UNCHANGED faults
     \/ current # 0 /\ Fault /\ UNCHANGED mounted
  /\ UNCHANGED <<server, handle, current, crashes>>

-----------------------------------------------------------------------------
(* Plex, and plexosd's own death. *)

(* The confined child execs from whatever is mounted by then. *)
Exec(p) ==
  /\ plex[p] = "forked"
  /\ plex'  = [plex EXCEPT ![p] = IF mounted = 0 THEN "none" ELSE "starting"]
  /\ image' = [image EXCEPT ![p] = mounted]
  /\ UNCHANGED <<up, daemon, handle, pc, current, mounted, faults, crashes>>

Serve(p) ==
  /\ plex[p] = "starting"
  /\ plex' = [plex EXCEPT ![p] = "serving"]
  /\ UNCHANGED <<up, daemon, image, handle, pc, current, mounted, faults, crashes>>

Die(p) ==
  /\ p \in Alive
  /\ IF plex[p] = "stuck" THEN UNCHANGED faults ELSE Fault
  /\ plex' = [plex EXCEPT ![p] = "none"]
  /\ UNCHANGED <<up, daemon, image, handle, pc, current, mounted, crashes>>

DaemonCrash ==
  /\ daemon /\ crashes < MaxCrashes /\ crashes' = crashes + 1
  /\ daemon' = FALSE /\ pc' = AllIdle
  /\ child' = NoProc /\ wanted' = FALSE /\ lock' = "free"
  /\ UNCHANGED <<up, server, current, mounted, faults>>

DaemonRestart ==
  /\ up /\ ~daemon
  /\ daemon' = TRUE /\ Goto("console", "probe")
  /\ UNCHANGED <<up, server, handle, current, mounted, faults, crashes>>

-----------------------------------------------------------------------------
ThreadStep(t) == StopBegin(t) \/ StopEnd(t) \/ Probe(t) \/ Start(t)

Next ==
  \/ \E t \in Threads : ThreadStep(t)
  \/ Watch \/ RequestRestart \/ RequestPower \/ Provision \/ Unmount \/ Mount
  \/ PowerDown \/ BootUp
  \/ \E p \in Procs : Exec(p) \/ Serve(p) \/ Die(p)
  \/ DaemonCrash \/ DaemonRestart

Spec == Init /\ [][Next]_vars

(***************************************************************************)
(* Threads the kernel schedules and a mutex each holds for a bounded time,  *)
(* a supervisor that looks every five seconds, a Plex that is let run, a    *)
(* PID 1 that starts plexosd again.  No request is ever forced.             *)
(***************************************************************************)
Fairness ==
  /\ \A t \in Threads : SF_vars(ThreadStep(t))
  /\ SF_vars(Watch) /\ WF_vars(Unmount) /\ WF_vars(Mount) /\ WF_vars(PowerDown) /\ WF_vars(BootUp)
  /\ \A p \in Procs : WF_vars(Exec(p) \/ Serve(p))
  /\ WF_vars(DaemonRestart)

FairSpec == Spec /\ Fairness

-----------------------------------------------------------------------------
(* At most one Plex at a time: two would fight over one database, and the one that starts
   removes the pid file of the other (plex.rs, clear_wedged_state and ensure_started). *)
OnlyOnePlex == Cardinality(Alive) <= 1

(* What the Handle's mutex achieves: no interleaving of the threads of one plexosd starts a
   second Plex, so it takes a plexosd that died to have two. *)
OnePlexPerDaemon == crashes = 0 => OnlyOnePlex

(* Threads between a Handle::stop and what they do next. *)
Stopping == \E t \in Threads : pc[t] \in {"stopping", "sync", "unmount", "mount", "probe", "start"}

(* A Plex this plexosd runs is one the supervisor watches, unless a thread is in the
   middle of replacing it: no interleaving of stops and starts leaves one behind unwatched. *)
NoUnwatchedPlex ==
  daemon /\ HoldsLiveChild /\ plex[child] # "stuck" /\ ~Stopping => wanted

(* A serving Plex runs the image that is mounted: no swap changes it underneath. *)
ServesWhatIsMounted == \A p \in Serving : image[p] = mounted /\ mounted # 0

(* Once the power sequence has stopped Plex, none writes to /var until the machine is down,
   unless somebody asked for it since or is stopping it still: why power.rs stops it before
   the sync and the remount. *)
StoppedBeforeSync ==
  pc["power"] = "sync" /\ ~wanted /\ lock = "free" => \A p \in Alive : plex[p] = "stuck"

(* That much holds as long as the Plex that runs is this plexosd's own. *)
OwnPlexStoppedBeforeSync == crashes = 0 => StoppedBeforeSync

(* A Plex never gets out of the hands of whoever is to watch it or to stop it. *)
PlexIsInHand == NoUnwatchedPlex /\ OwnPlexStoppedBeforeSync

(* A Plex that is meant to run, on a machine that has one mounted, comes to serve, however
   its deaths, restarts and swaps interleave; one the kernel will not let go of cannot. *)
WantedIsServed ==
  (up /\ wanted /\ mounted # 0)
    ~> (Serving # {} \/ ~wanted \/ mounted = 0 \/ ~up \/ \E p \in Procs : plex[p] = "stuck")
=============================================================================
