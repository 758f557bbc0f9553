------------------------------- MODULE Launch -------------------------------
(***************************************************************************)
(* From "Plex should run" to a confined Plex: what plexosd prepares         *)
(* (plex.rs), what the child does to itself before it becomes Plex          *)
(* (plexos-plex/run.rs, cgroup.rs, plexos-sys/landlock.rs, privilege.rs),   *)
(* and the two files on /var that an unclean stop leaves behind.            *)
(***************************************************************************)
EXTENDS Graphics

CONSTANTS
  Kernels,  \* what kernels this may run on: see KernelShape
  MaxCuts   \* how often the power may go

Controllers == {"memory", "pids", "cpu"}
KernelShape == [controllers : SUBSET Controllers, abi : 0..5]
OwnKernel == [controllers |-> Controllers, abi |-> 5]   \* one that can do all of it
ASSUME LaunchAssumption == Kernels \subseteq KernelShape /\ OwnKernel \in Kernels /\ MaxCuts \in Nat

VARIABLES
  linux,    \* the one it runs on
  at,       \* how far the start of Plex has come
  server,   \* Plex's own files: prefs and the kept copy, by what they hold, and a pid file
  owed,     \* a copy of a signed-in server's preferences was made, and nobody has signed out since
  dirs,     \* the directories on /var that exist, and those that are Plex's
  group,    \* Plex's control group: whether it exists and which bounds it has
  child,    \* the process that becomes Plex
  cuts

launch == <<linux, at, server, owed, dirs, group, child, cuts>>

Places == <<"nodes", "preferences", "pidfile", "directories", "group", "fork",
            "join", "rules", "enforce", "drop", "exec", "plex">>
Rights == {"execute", "write", "read", "list", "create", "truncate", "ioctl"}
Nobody == [within |-> FALSE, rules |-> {}, enforced |-> FALSE, uid |-> "root", groups |-> "root's"]

LaunchTypeOK ==
  /\ linux \in Kernels /\ at \in 0..Len(Places) /\ owed \in BOOLEAN /\ cuts \in 0..MaxCuts
  /\ server \in [prefs : {"absent", "empty", "token", "anonymous"}, kept : {"none", "token"}, pid : BOOLEAN]
  /\ dirs \in [there : SUBSET {"media", "data", "transcode"}, given : SUBSET {"data", "transcode"}]
  /\ group \in [made : BOOLEAN, bounds : SUBSET Controllers]
  /\ child.within \in BOOLEAN /\ child.enforced \in BOOLEAN /\ child.uid \in {"root", "plex"}

LaunchInit ==
  /\ linux \in IF Happens("kernels") THEN Kernels ELSE {OwnKernel}
  /\ at = 0 /\ owed = FALSE /\ cuts = 0
  /\ server = [prefs |-> "absent", kept |-> "none", pid |-> FALSE]
  /\ dirs = [there |-> {}, given |-> {}]
  /\ group = [made |-> FALSE, bounds |-> {}]
  /\ child = Nobody

-----------------------------------------------------------------------------
(* plex::prepare, in plexosd. *)

(* Which place of Places the start has reached; 0 is nowhere, the last is a Plex that runs. *)
Reached(place) == at # 0 /\ Places[at] = place
Further        == at' = at + 1
(* An error ends the start, and with it the child if there is one. *)
Fails(why)     == Happens(why) /\ at' = 0 /\ child' = Nobody

(* Services come after PID 1 is done with the nodes. *)
Begin == /\ at = 0 /\ Over
         /\ Further /\ child' = Nobody
         /\ UNCHANGED <<linux, server, owed, dirs, group, cuts, graphics>>

RenderNodes == {RenderNode[v] : v \in Vendors}
(* open_render_nodes_to_plex, whose chmod may fail; before it, the media root, even when empty. *)
PrepareNodes ==
  /\ Reached("nodes")
  /\ \/ Further /\ dirs' = [dirs EXCEPT !.there = @ \cup {"media"}] /\ UNCHANGED child
     \/ Fails("disk") /\ UNCHANGED dirs
  /\ node' = [d \in Devices |-> IF d \in RenderNodes /\ node[d] # "none" /\ ~Happens("chmod") /\ at' # 0 THEN "open" ELSE node[d]]
  /\ UNCHANGED <<linux, server, owed, group, cuts, cards, stack, bringUp, loaded>>

(* Mutant: an empty file is only taken away. *)
Removed(s) == IF s.prefs = "empty" THEN "absent" ELSE s.prefs
(* clear_wedged_state and restore_preferences: a copy is put back over an empty file, or where there is none;
   without one the empty file goes. *)
Restored(s) ==
  CASE s.prefs \in {"absent", "empty"} /\ s.kept = "token" -> "token"
    [] s.prefs = "empty" /\ s.kept # "token"               -> "absent"
    [] OTHER                                               -> s.prefs

(* On a disk that cannot be written, what could not be put back is taken away, or stays. *)
ClearPreferences ==
  /\ Reached("preferences") /\ Further
  /\ \E prefs \in {Restored(server)} \cup (IF Happens("disk") THEN {Removed(server), server.prefs} ELSE {}) :
       server' = [server EXCEPT !.prefs = prefs]
  /\ UNCHANGED <<linux, owed, dirs, group, child, cuts, graphics>>

(* The second fault has nothing to do with the first. *)
PidLeft(s) == FALSE

ClearPidFile ==
  /\ Reached("pidfile") /\ Further
  /\ \E pid \in {PidLeft(server)} \cup (IF Happens("disk") THEN {server.pid} ELSE {}) : server' = [server EXCEPT !.pid = pid]
  /\ UNCHANGED <<linux, owed, dirs, group, child, cuts, graphics>>

(* The data and the scratch directory, each made and then given: the second may fail after the first. *)
PrepareDirs ==
  /\ Reached("directories")
  /\ \/ Further /\ dirs' = [dirs EXCEPT !.there = @ \cup {"data", "transcode"}, !.given = {"data", "transcode"}] /\ UNCHANGED child
     \/ Fails("disk") /\ \E n \in {"data", "transcode"} : dirs' = [dirs EXCEPT !.there = @ \cup {"data", n}]
  /\ UNCHANGED <<linux, server, owed, group, cuts, graphics>>

(* cgroup::delegate: one write that names every controller, and that the kernel refuses whole when it lacks one. *)
Delegated == IF linux.controllers = Controllers THEN Controllers ELSE group.bounds

(* cgroup::apply: a limit that cannot be written is skipped, a group that cannot be made ends the start. *)
ApplyBounds ==
  /\ Reached("group")
  /\ \/ Further /\ group' = [made |-> TRUE, bounds |-> Delegated] /\ UNCHANGED child
     \/ Fails("cgroup") /\ UNCHANGED group
  /\ UNCHANGED <<linux, server, owed, dirs, cuts, graphics>>

Fork ==
  /\ Reached("fork") /\ Further
  /\ child' = Nobody
  /\ UNCHANGED <<linux, server, owed, dirs, group, cuts, graphics>>

-----------------------------------------------------------------------------
(* run::confine_and_exec, in the child. *)

(* cgroup::join *)
Join ==
  /\ Reached("join")
  /\ \/ Further /\ child' = [child EXCEPT !.within = TRUE]
     \/ Fails("cgroup")
  /\ UNCHANGED <<linux, server, owed, dirs, group, cuts, graphics>>

(* landlock::rights_at_abi: what this kernel can take away. *)
Handled == CASE linux.abi = 5      -> Rights
             [] linux.abi \in 3..4 -> Rights \ {"ioctl"}
             [] linux.abi \in 1..2 -> Rights \ {"ioctl", "truncate"}
             [] OTHER               -> {}

Grant(path, rights, required) == [path |-> path, rights |-> rights, required |-> required]
ReadOnly    == {"read", "list"}
ReadExecute == {"read", "list", "execute"}
ReadWrite   == {"read", "list", "write", "create", "truncate"}
NvidiaNodes == {"nvidiactl", "nvidia0", "nvidia-uvm", "nvidia-uvm-tools"}

OnDevices    == {"read", "write", "ioctl"}

(* run::grants *)
Grants ==
  { Grant("/usr", ReadExecute, TRUE), Grant("/etc", ReadOnly, TRUE),
    Grant("/proc", ReadOnly \cup {"write", "truncate"}, TRUE), Grant("/dev", {"read", "write", "list"}, TRUE),
    Grant("/run", ReadOnly, TRUE), Grant("/sys", ReadOnly, FALSE), Grant("image", ReadExecute, TRUE),
    Grant("data", ReadWrite \cup {"execute"}, TRUE), Grant("transcode", ReadWrite, TRUE),
    Grant("dri", {"read", "write", "list", "ioctl"}, FALSE), Grant(Caps, {"read", "list", "ioctl"}, FALSE) }
  \cup {Grant(d, OnDevices, FALSE) : d \in NvidiaNodes}
  \cup {Grant(m, ReadOnly, FALSE) : m \in dirs.there \cap {"media"}}

(* A rule binds to what a path names when the rule is added. *)
Exists(path) == CASE path = "dri"                   -> \E d \in RenderNodes : node[d] # "none"
                  [] path \in DOMAIN node           -> node[path] # "none"
                  [] path \in {"data", "transcode"} -> path \in dirs.there
                  [] OTHER                          -> TRUE

(* Ruleset::allow; the kernel refuses the rights of a directory on a file. *)
Allowed(g) == Exists(g.path) /\ ~(g.path \in NvidiaNodes /\ g.rights \cap {"list", "create"} # {})

AllowAll ==
  /\ Reached("rules")
  /\ \/ /\ Handled # {} /\ \A g \in Grants : g.required => Allowed(g)
        /\ Further
        /\ child' = [child EXCEPT !.rules = {g \in Grants : Allowed(g)}]
     \/ Handled = {} /\ at' = 0 /\ child' = Nobody
  /\ UNCHANGED <<linux, server, owed, dirs, group, cuts, graphics>>

(* Ruleset::enforce: no way back. *)
Enforce ==
  /\ Reached("enforce")
  /\ \/ Further /\ child' = [child EXCEPT !.enforced = TRUE]
     \/ Fails("landlock")
  /\ UNCHANGED <<linux, server, owed, dirs, group, cuts, graphics>>

(* Mutant: a zero is taken for an answer. *)
Unread(uid) == TRUE
(* privilege::confirm *)
Confirmed(uid) == uid = "plex"

(* privilege::drop_to: groups, then gid, then uid; a setuid that says it worked and did nothing is found out. *)
Drop ==
  /\ Reached("drop")
  /\ \E uid \in IF Happens("no-op") THEN {"root", "plex"} ELSE {"plex"} :
       \/ Confirmed(uid) /\ Further /\ child' = [child EXCEPT !.uid = uid, !.groups = "none"]
       \/ ~Confirmed(uid) /\ at' = 0 /\ child' = Nobody
  /\ UNCHANGED <<linux, server, owed, dirs, group, cuts, graphics>>

Exec ==
  /\ Reached("exec") /\ Further
  /\ server' = [server EXCEPT !.pid = TRUE]
  /\ UNCHANGED <<linux, owed, dirs, group, child, cuts, graphics>>

-----------------------------------------------------------------------------
(* Plex, its owner, and what ends it. *)

PlexRuns == Reached("plex")

(* It rewrites its preferences by truncating them; a first start writes a whole new file. *)
PlexTruncates == /\ PlexRuns /\ Happens("account") /\ server.prefs # "empty"
                 /\ server' = [server EXCEPT !.prefs = "empty"]
                 /\ UNCHANGED <<linux, at, owed, dirs, group, child, cuts, graphics>>
PlexWrites ==
  /\ PlexRuns /\ Happens("account") /\ server.prefs \in {"absent", "empty"}
  /\ \E kind \in {"token", "anonymous"} : server' = [server EXCEPT !.prefs = kind] /\ owed' = (owed /\ kind = "token")
  /\ UNCHANGED <<linux, at, dirs, group, child, cuts, graphics>>

(* preserve_preferences: only a file with an account in it. *)
Kept(s) == IF s.prefs = "token" THEN "token" ELSE s.kept

(* An orderly stop: the copy first, then the signal, and Plex's own way out may leave both files as they are. *)
StopPlex ==
  /\ PlexRuns /\ at' = 0 /\ child' = Nobody
  /\ \E gone, cut \in BOOLEAN, kept \in {Kept(server)} \cup (IF Happens("disk") THEN {server.kept} ELSE {}) :
       server' = [prefs |-> IF cut THEN "empty" ELSE server.prefs, kept |-> kept, pid |-> ~gone]
  /\ owed' = (owed \/ server.prefs = "token")
  /\ UNCHANGED <<linux, dirs, group, cuts, graphics>>

(* It dies by itself, and nothing is kept. *)
PlexDies ==
  /\ PlexRuns /\ at' = 0 /\ child' = Nobody
  /\ UNCHANGED <<linux, server, owed, dirs, group, cuts, graphics>>

(* The power goes: what is on /var stays, devtmpfs, the control groups and the modules start again. *)
PowerCut ==
  /\ Happens("power") /\ cuts < MaxCuts /\ cuts' = cuts + 1
  /\ at' = 0 /\ child' = Nobody
  /\ group' = [made |-> FALSE, bounds |-> {}]
  /\ bringUp' = 1 /\ loaded' = {} /\ node' = [d \in Devices |-> "none"]
  /\ UNCHANGED <<linux, server, owed, dirs, cards, stack>>

GraphicsStep == (Bind \/ BringUpStep) /\ UNCHANGED launch

Prepare == Begin \/ PrepareNodes \/ ClearPreferences \/ ClearPidFile \/ PrepareDirs \/ ApplyBounds \/ Fork
BecomePlex == Join \/ AllowAll \/ Enforce \/ Drop \/ Exec
LaunchStep == GraphicsStep \/ Prepare \/ BecomePlex \/ PlexTruncates \/ PlexWrites \/ StopPlex \/ PlexDies \/ PowerCut

-----------------------------------------------------------------------------
(* What Plex can do. *)

Within == [d \in NvidiaNodes \cup {Caps, "dri"} |-> "/dev"]
Above(path) == {path} \cup (IF path \in RenderNodes THEN {"dri", "/dev"}
                            ELSE IF path \in DOMAIN Within THEN {Within[path]} ELSE {})
May(path, right) == right \notin Handled \/ \E g \in child.rules : g.path \in Above(path) /\ right \in g.rights

(* The nodes a card is driven through, and its driver's file under /proc. *)
Drives(v) == IF v = "nvidia" THEN Required \cup {c \in {Caps} : node[c] = "open"} ELSE {RenderNode[v]}
PlexDrives(v) == /\ \A d \in Drives(v) : node[d] = "open" /\ May(d, "ioctl") /\ May(d, "read")
                 /\ v = "nvidia" => May("/proc", "truncate") /\ May("/proc", "write")

(* A report that does not call transcoding unavailable is true of Plex, which is not root, is confined, and was
   confined before the report was made. *)
ReadyIsTrue == PlexRuns /\ Health # "unavailable" => PlexDrives(Reported)

(* Everything that lives outside its own directories. *)
Closed == {"/usr", "/etc", "/run", "/sys", "image", "media", "elsewhere"}

(* A process that became Plex is bounded as far as the kernel can bound, confined, and nobody's superuser,
   whichever steps failed on the way; and it can read its library and run what it ships. *)
ConfinedPlex ==
  PlexRuns =>
    /\ child.within /\ (linux.controllers = Controllers => group.bounds = Controllers)
    /\ child.enforced /\ child.uid = "plex" /\ child.groups = "none"
    /\ \A path \in Closed : ~May(path, "write")
    /\ ~May("elsewhere", "read")
    /\ May("media", "read") /\ May("image", "execute") /\ May("data", "execute") /\ May("transcode", "create")
    /\ dirs.given = {"data", "transcode"}

(* Plex never starts over what would keep it from starting, and an account that was kept is there again. *)
StartsWhole ==
  [][PlexRuns' /\ ~PlexRuns /\ ~Happens("disk") =>
       server.prefs # "empty" /\ ~server.pid /\ (owed => server.prefs = "token")]_launch
=============================================================================
