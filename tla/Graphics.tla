------------------------------- MODULE Graphics -------------------------------
(***************************************************************************)
(* A graphics card, from the bus to the report.  PID 1 loads NVIDIA's       *)
(* modules and makes the nodes that no udev makes (plexos-init/nvidia.rs);  *)
(* the kernel makes render nodes only root can open; and plexos-gpu says    *)
(* what Plex, which is not root, will be able to do with them.              *)
(***************************************************************************)
EXTENDS Integers, Sequences, SequencesExt, Faults

CONSTANT Stacks  \* what the VA-API stack of a machine may be: see StackShape

Codecs  == {"H.264", "HEVC", "HEVC10", "AV1", "VP9"}
Signals == {"unsupported", "not loaded", "loaded"}
StackShape == [tool : BOOLEAN, driver : BOOLEAN, decodes : SUBSET Codecs, encodes : SUBSET Codecs,
               guc : Seq(SUBSET Signals), huc : Seq(SUBSET Signals)]
ASSUME StacksAssumption == Stacks \subseteq StackShape /\ Stacks # {}

VARIABLES
  cards,    \* the display controllers on the PCI bus, by vendor
  stack,    \* what vainfo and debugfs have to say of the one VA-API is asked about
  bringUp,  \* which of Stages PID 1 is at, for an NVIDIA card
  loaded,   \* the drivers that are bound
  node      \* every device node: absent, root's alone, or open to every account

graphics == <<cards, stack, bringUp, loaded, node>>

Vendors    == {"intel", "amd", "nvidia"}
RenderNode == [intel |-> "renderD128", amd |-> "renderD129", nvidia |-> "renderD130"]
Modules    == <<"nvidia", "nvidia-uvm", "nvidia-modeset", "nvidia-drm">>
Stages     == Modules \o <<"nodes", "caps", "over">>
Required   == {"nvidiactl", "nvidia0", "nvidia-uvm"}
Caps       == "nvidia-caps"
Devices    == Required \cup {"nvidia-uvm-tools", Caps} \cup {RenderNode[v] : v \in Vendors}

GraphicsTypeOK ==
  /\ cards \subseteq Vendors /\ stack \in Stacks
  /\ bringUp \in DOMAIN Stages
  /\ loaded \subseteq {"i915"} \cup {Modules[i] : i \in DOMAIN Modules}
  /\ node \in [Devices -> {"none", "root", "open"}]

GraphicsInit ==
  /\ cards \in IF Happens("cards") THEN SUBSET Vendors ELSE {{}}
  /\ stack \in IF "intel" \notin cards \/ ~Happens("stacks") THEN {CHOOSE s \in Stacks : TRUE} ELSE Stacks
  /\ bringUp = 1 /\ loaded = {} /\ node = [d \in Devices |-> "none"]

-----------------------------------------------------------------------------
(* The kernel. *)

(* A driver binds, and its render node appears with the mode DRM gives it. *)
Rendering(driver, v) == /\ loaded' = loaded \cup {driver}
                        /\ node' = [node EXCEPT ![RenderNode[v]] = "root"]

(* i915 is built in; it binds before PID 1 runs, or when its device is found. *)
Bind ==
  /\ "intel" \in cards /\ "i915" \notin loaded
  /\ bringUp = 1 \/ Happens("late")
  /\ Rendering("i915", "intel")
  /\ UNCHANGED <<cards, stack, bringUp>>

Present(v) == v \in cards

-----------------------------------------------------------------------------
(* nvidia::bring_up. *)

Stage     == Stages[bringUp]
Over      == Stage = "over"
GoOn      == bringUp' = bringUp + 1
IsModule  == bringUp \in DOMAIN Modules /\ Present("nvidia")

(* No card, nothing to load. *)
NoCard ==
  /\ bringUp = 1 /\ ~Present("nvidia") /\ bringUp' = Len(Stages)
  /\ UNCHANGED <<cards, stack, loaded, node>>

(* nvidia-drm stands on nvidia-modeset. *)
HasWhatItNeeds == Stage = "nvidia-drm" => "nvidia-modeset" \in loaded

(* finit_module; nvidia-drm is what makes the card's render node. *)
LoadModule ==
  /\ IsModule /\ HasWhatItNeeds
  /\ IF Stage = "nvidia-drm" THEN Rendering(Stage, "nvidia") ELSE loaded' = loaded \cup {Stage} /\ UNCHANGED node
  /\ GoOn
  /\ UNCHANGED <<cards, stack>>

(* Everything depends on `nvidia`; the other three may be missing. *)
CannotLoad ==
  /\ IsModule /\ (HasWhatItNeeds => Happens("modules"))
  /\ IF Stage = "nvidia" THEN bringUp' = Len(Stages) ELSE GoOn
  /\ UNCHANGED <<cards, stack, loaded, node>>

(* make_char_node: mknod, whose mode the umask cuts, and then chmod; one that is there is left as it is. *)
MakeNode(d) == IF node[d] = "none" THEN "open" ELSE node[d]

(* Some of the nodes, and what becomes of one that mknod or chmod failed for. *)
Made(wanted) ==
  \E failed \in SUBSET wanted, left \in {"none", "root"} :
    /\ failed # {} => Happens("nodes")
    /\ node' = [d \in Devices |-> IF d \in failed THEN left ELSE IF d \in wanted THEN MakeNode(d) ELSE node[d]]

(* nodes: the majors are read after loading, and uvm's does not exist without its module. *)
Wanted == {"nvidiactl", "nvidia0"} \cup (IF "nvidia-uvm" \in loaded THEN {"nvidia-uvm", "nvidia-uvm-tools"} ELSE {})

MakeNodes ==
  /\ Stage = "nodes" /\ GoOn
  /\ Made(Wanted)
  /\ UNCHANGED <<cards, stack, loaded>>

(* capability_nodes: what the driver publishes under /proc, which may be nothing. *)
MakeCaps ==
  /\ Stage = "caps" /\ GoOn
  /\ IF Happens("no-caps") THEN UNCHANGED node ELSE Made({Caps})
  /\ UNCHANGED <<cards, stack, loaded>>

BringUpStep == NoCard \/ LoadModule \/ CannotLoad \/ MakeNodes \/ MakeCaps

-----------------------------------------------------------------------------
(* Report::generate. *)

(* discover and display_devices: a render node says a driver bound; PCI says what is there. *)
Gpus == {v \in Vendors : node[RenderNode[v]] # "none"}

(* firmware::interpret and ::probe: the first file that says anything; what it says against the firmware first. *)
Interpret(signals) ==
  CASE "unsupported" \in signals -> "not applicable"
    [] "not loaded" \in signals  -> "not running"
    [] "loaded" \in signals      -> "running"
    [] OTHER                     -> "unknown"
LoadState(files) ==
  LET telling == SelectSeq(files, LAMBDA signals : Interpret(signals) # "unknown")
  IN  IF telling = <<>> THEN "unknown" ELSE Interpret(Head(telling))

Found(severity, about) == [severity |-> severity, about |-> about]

FirmwareFindings(v) ==
  IF v # "intel" THEN {}
  ELSE {Found("warning", blob) : blob \in {b \in {"guc", "huc"} : LoadState(stack[b]) = "not running"}}
       \cup {Found("info", "firmware") : b \in {b \in {"guc"} : \A c \in {"guc", "huc"} : LoadState(stack[c]) = "unknown"}}

(* Mutant: whoever asks is root. *)
NodeIsThere(v) == {}
(* render_node_reachable_finding *)
NodeFindings(v) == {Found("critical", "node") : d \in {d \in {RenderNode[v]} : node[d] = "root"}}

(* vainfo::probe *)
Probed == stack.tool /\ stack.driver /\ stack.decodes \cup stack.encodes # {}

(* capability_findings *)
CapabilityFindings ==
  {Found("critical", "encoder") : c \in {"H.264"} \ stack.encodes}
    \cup {Found("warning", "decoder") : c \in {"H.264", "HEVC", "HEVC10"} \ stack.decodes}
    \cup {Found("info", "decoder") : c \in {"AV1", "VP9"} \ stack.decodes}

VaapiFindings(v) ==
  FirmwareFindings(v) \cup NodeFindings(v) \cup IF Probed THEN CapabilityFindings ELSE {Found("critical", "probe")}

(* nvidia::status and ::findings: the driver, its nodes, and whether the card comes up when it is opened. *)
Answers(d) == node[d] # "none"
NvidiaSmi  == "nvidia" \in loaded /\ Answers("nvidiactl") /\ Answers("nvidia0") /\ ~Happens("asleep")
NvidiaFindings ==
  IF "nvidia" \notin loaded THEN {Found("critical", "unloaded")}
  ELSE {Found("critical", d) : d \in {d \in Required : node[d] # "open"}}
       \cup {Found("critical", "asleep") : s \in {s \in {NvidiaSmi} : ~s}}

(* nothing_to_render_with: the first card on the bus, and who makes it. *)
NothingFindings == IF cards = {} THEN {Found("critical", "no-card")} ELSE {Found("critical", "no-driver")}

(* An NVIDIA card goes first, for VA-API knows nothing of it; then Intel, then AMD. *)
Reported == CASE "nvidia" \in Gpus -> "nvidia" [] "nvidia" \notin Gpus /\ "intel" \in Gpus -> "intel"
              [] Gpus = {"amd"} -> "amd" [] OTHER -> "none"
Findings == CASE Reported = "nvidia" -> NvidiaFindings
              [] Reported = "none"   -> NothingFindings
              [] OTHER               -> VaapiFindings(Reported)
Says(severity) == \E f \in Findings : f.severity = severity
Health == IF Says("critical") THEN "unavailable" ELSE IF Says("warning") THEN "degraded" ELSE "ready"
=============================================================================
