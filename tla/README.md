# Formal models of MediaLith

MediaLith (its crates are still called `plexos-*`) turns a PC into a Plex appliance. It boots a
signed, read-only `/usr` from one of two slots, keeps everything writable on `/var`, downloads
and builds Plex's own package into an integrity-checked image, and is run from a browser. The
people who own one cannot log in to repair it, so what matters is what no test
bench reaches easily: a power cut between two writes, two threads over one handle, a drive that gets another's
name, a document republished between two requests. This directory holds TLA+ models of those parts, the TLC
runs that check them, and proofs checked by TLAPS that most of what TLC finds on small instances holds for every
value of the constants.

Contents: 1 inventory, 2 modules and code, 3 runs, 4 fairness, 5 proofs, 6 where the code and
its documents disagree, 7 what is not covered, 8 plan, 9 how to run it.

## 1. Inventory

Paths are under `src/crates`. "Hard" is what makes a component worth a model; the file
`PROJECT.json` lists these hazards one by one with their lines.

| Component | State | Operations | Hard | Correct when |
|---|---|---|---|---|
| **A/B update** (`plexosd/update.rs gate.rs esp.rs bootcounter.rs rollback.rs`, `plexos-update/plan.rs sequence.rs write.rs`) | the two slots, boot entry file names on the ESP, accepted sequence, rollback note; in memory: the job, the gate's verdict | request, check, download, write both partitions, prune and install an entry, record; gate: make permanent or restart; bootloader: count tries | power cuts everywhere; gate, job and bootloader rename the same files; one mount point; a restarted plexosd runs the gate again | the running slot is never written, activation comes last, nothing older is installed, a good release is kept, a bad one is left |
| **Update trust and discovery** (`plexos-update/trust.rs clock.rs`, `plexos-types/manifest.rs`, `plexosd/update.rs discover.rs`) | revocation list, last answer, in-flight flag, schedule | check, install, automatic round | one manifest, one signature and one list are three requests to a service that is published to; keys stolen and revoked; a clock that was never set | nothing is acted on before it is believed, the list of revocations gives way only to a later one of a root, no check hangs and no failed one is the last |
| **Configuration** (`plexosd/settings.rs`, `plexos-types/config.rs`) | `config.toml`, what is in force | load, patch, judge, apply, save | a disk that is full, a crash in the middle | the file can be read, and what a request does not name stays |
| **PID 1, early boot** (`plexos-init/plan.rs execute.rs state.rs`, `plexos-sys/device.rs verity.rs dm.rs mount.rs`) | which disk booted, state action, mounts; `STATE_VERSION` on `/var` | decide, resolve labels, verity, mount, stamp, switch_root | disks that appear late, two installations in one machine, questions asked before the mounts that answer them | only signed `/usr` runs, on the booted disk; a boot ends |
| **PID 1, services** (`plexos-init/supervise.rs main.rs`, `plexos-sys/process.rs`) | pid, failures, started, next attempt per service | tick: reap, forgive, back off, start | pids reused, orphans among the children, exits between ticks | one process per service, always back, never hammered |
| **Graphics** (`plexos-init/nvidia.rs`, `plexos-gpu`) | modules, device nodes | load, make nodes, probe, report | a report put together from signals that disagree | "ready" is said only when Plex can use the card |
| **Starting and confining Plex** (`plexosd/plex.rs`, `plexos-plex/run.rs cgroup.rs`, `plexos-sys/landlock.rs privilege.rs`) | preferences and their kept copy, pid file, cgroup, rules | prepare, fork, confine, exec; preserve and restore | a dozen steps that can each fail; Plex truncates the file that holds its account | a Plex that runs is confined, and was started whole |
| **Plex supervision and power** (`plexosd/plex.rs power.rs`) | `Handle.child`, `wanted`; the processes; what is mounted | start, stop, restart, supervise, swap after an install, power sequence | five threads over one mutex; Plex outlives plexosd; a process that cannot be killed | one Plex, running what is mounted, watched, stopped before the sync, and back when it dies |
| **Plex packages** (`plexosd/provision.rs`, `plexos-plex/ar.rs verify.rs manifest.rs`) | the package file, its identity | locate, fetch, verify, open, build, supersede | cut short, altered or replaced at any part, each read by another program | what is installed is what Plex signed |
| **App image store and provisioning** (`plexos-plex/build.rs store.rs execute.rs mount.rs`, `plexosd/provision.rs appmount.rs`) | images, records, staging, `current`, package; job phase; mount and loop devices | receive, build, record, publish, activate, drop old ones, unmount, mount, prune | cut between any two steps; two retention passes that decide at different times; leaking loop devices | `current` names a whole image that verifies, the store is bounded and a way back stays |
| **Installer** (`plexosd/install.rs`, `plexos-types/gpt.rs partition.rs`) | the job, the target disk, its table | vet, write the table, reread, copy, format | the disk is chosen by a name; a table is five regions; the kernel holds the old one | the running disk is never written, "done" is a whole system |
| **Disks, shares, media** (`plexosd/disks.rs shares.rs media.rs`) | `disks.json`, `shares.json`, mounts, the last scan | scan, add, remove, release, mount at boot, read a medium | names that come to mean another drive, requests with no lock, readers of one mount point | a folder shows the disk that was chosen for it, nobody loses the medium he reads |
| **Network** (`plexosd/wifi.rs net.rs addressing.rs tls.rs`) | the radio and its supplicant, links, the stored and the pending address, key and certificate | scan, join, rejoin, wait for a cable, try an address, issue | a supplicant that hangs or is left behind, an adapter that appears late, a timer racing a confirmation, addresses that change | the machine is not left where nobody reaches it, and what it says of its network is so |
| **Access** (`plexosd/session.rs pairing.rs browserpair.rs auth.rs http.rs`, routes in `console.rs`) | the device code on file and in force; 16 sessions, one pairing offer, 16 waiting browsers, in memory; a thread per connection | claim, rotate; offer, pair; ask, decide, redeem, withdraw; admit, sign out; expire | two requests for one code, retries, eviction and expiry racing use, a rotation in four steps, restarts in between | one code or approval lets in one browser once, the code somebody was told is the one in force, a session ends however busy |
| **Screen, keyboard, terminal** (`plexosd/dashboard/mod.rs`, `terminal.rs`, `plexos-sys/pty.rs`) | which screen, what was typed; one shell and its buffer | keys, ticks, painting, acting; open, poll, type, expire | done one frame after it was confirmed; readers behind the buffer | acts once, forgets passphrases, skips no output untold |
| **What the console shows** (`status.rs health.rs setup.rs rollback.rs netdiag.rs metrics.rs plexactivity.rs dashboard/model.rs`) | baselines, caches | read, compare, say | several readings of a machine that changes meanwhile | what is shown was so while it was asked |
| **HTTP connections** (`http.rs`) | a thread per connection | head, gate, body, upload | limits, and who is trusted at which moment | nothing is taken in from a stranger |
| **Image build, host tools** (`src/buildroot`, `src/tools`) | - | - | - | not part of the running system |

How they interact. PID 1 assembles the root (early boot), makes the graphics nodes, mounts Plex by running `plexosd
--mount-plex` (app store), and then keeps `plexosd --serve` running (services). plexosd brings up the network, mounts
shares and libraries, issues its certificate, starts
Plex and its supervisor thread, waits for Plex, and runs the gate, which judges this boot and
makes its entry permanent or restarts through the power sequence. The console's handlers start
the update, provisioning and installation jobs, the radio's job and address changes, each on a thread of its own, and
call the Plex handle directly; every change first passes the gate of access, which trusts the device
code or a browser's session. They share the Handle's mutex, the jobs' phase locks, the ESP's one
mount point, and files on `/var` with no lock at all. Restarts of plexosd lose everything in
memory and nothing on disk; restarts of the machine lose every mount too.

## 2. Modules and code

`PROJECT.json` gives the source lines of every definition; each module's head says what its values stand for and
what it leaves out.

**Composition.** Components that act on each other's state are composed: ABUpdate holds gate, job, bootloader and ESP;
PlexServer all threads over the Handle; Storage puts Libraries, Media and Installer over one set of Drives;
Discovery stands on Trust and Configuration; Launch on Graphics. Parts that share no
state are summed for checking in `MCRelease`, `MCGround` and `MCConsole`: a behaviour is of one
part, named by a word in `faults`, while the others stay as they began. **Faults** holds that one variable: what may
happen in a behaviour is chosen at its start, from the sets in `Environments`, and never changes, so that a property can
say under which of them it holds, and so that faults need not be multiplied with each other where
that shows nothing. `MC*` modules give constants their values and bundle what the parts promise (Access and AppStore
need none: their constants are given in the `.cfg`); theorems are in the `*_proofs` modules and nowhere else.

*Update and boot*

- **BootEntries** — what a boot entry's file name says and what each reader makes of it:
  systemd-boot's order and counting (external), `decide_trial`, `clear_counter`, `mark_good`,
  `remove_superseded`. Operators only.
- **ABUpdate** — one appliance. `esp`, `slots`, `floor`, `note` are durable; `running`, `mounted`
  belong to the machine; `gate` and `job` to plexosd. One action per step of `update::write_slot`
  and of the gate thread, plus boot, power loss, a restart by the operator, and plexosd dying and
  coming back. Each release has a `Quality`: good, bad (comes up, fails the gate), flaky (either),
  dead (panics). The constant `Discipline` restricts the operator; with `{}` anything goes.
- **TrialBoot** — the abstract promise of ADR-0005: one known good release, at most one on trial,
  a bounded number of boots; `Safe` is its safety part. **ABUpdateTrial** is the refinement mapping.
- **Trust** — operators: whether a manifest is believed (the root, the certificate, its dates, the list, the
  signature) and what follows from it: which format, product, channel and slot it is for, and from which source an artifact
  is fetched. A document is a record of what it claims and who signed what.
- **Configuration** — load, patch and judge, apply the host name, then create, write and rename one temporary file, which
  nothing syncs; requests one at a time. On a full disk each of these can end where it is.
- **Discovery** — a check and an installation as two threads that fetch feed, manifest, signature and list one by one;
  the service changes in between. `written` remembers what was installed, the list it was judged by and the list the
  machine held then. A later list of a root may give a key back, as `trust.rs:248` has it, and one of those offered does.
- **EarlyBoot** — the boot plan's phases; disks that enumerate when they like and each carry an
  installation. dm-verity reports nothing until the first block is read, which is the mount. Before that: what the command
  line must say (the first of each token counts), what the processor must be able to do, and the clock that is raised to
  the date of the build.
- **Supervisor** — `tick` split into reaping one child, draining, and starting one service; the
  kernel's process table with identifiers that are reused. Times are relative to now.

*Plex*

- **Graphics** — modules and nodes as PID 1 makes them, then the report as a function of what can be probed.
- **Launch** — parent and child of one start, step by step; the child's rights, groups and cgroup as it gives them
  up; the preferences and the kept copy over crashes and power cuts.
- **PlexServer** — `plex` is what the machine runs, `child`/`wanted`/`lock` are the Handle, `pc`
  says where each of the five threads is. `Handle::stop` is two steps (begin under the lock, end
  after the graces), `ensure_started` two (probe, fork). A forked child execs what is mounted by then.
- **Package** — a package is what each of its parts says and who made it; the checks read the parts one after the other. Its
  members take up the same room: what matters is whether a package is cut in a header, before a payload, within it or after it.
- **AppStore** — files are known by the build whose bytes they hold, so "the record matches the
  image" is an equality of build numbers. The job's `pc` follows `provision::run`, then
  `install_plan`, then `swap`/`mount_and_start` and `prune_superseded`.

*The ground*

- **Drives**, **Libraries**, **Media**, **Installer**, **Storage** — a disk, its volume and its PARTUUID are one value, a
  device name another, given out on plugging in. Requests are threads that read a file, act, and write it back.
- **PartitionTable** — the plan of the layout, in sectors, the five regions, and a kernel that
  reads whatever reached the disk. GUIDs keep their bytes, since their order is the point.
- **Link**, **Wifi**, **Certificate** — the wait for a cable and what it does with each card; the radio with its supplicants,
  from what a scan prints to the list that is shown and the join that is remembered; the issuer, which gives up after a
  failure when nothing is served yet and goes on watching otherwise.
- **AddressTrial** — request threads (load, store, apply, arm), the pending change, one timer per
  arm, and a clock. Any number of timers sleep at once, also where saves follow one another (*orderly*); only *overlap* lets a save
  be begun while another, or a thread that is due or reverts (`Due`, `Reverting`), is under way. `agreed` remembers the change
  somebody confirmed.

*The console*

- **Access** — device codes, pairing codes, requests and sessions are numbers in the order they were
  generated; `file` and `inForce` are what is trusted, `known` remembers which codes anybody was told.
  `thread` is each browser's connection: *idle*, *connected* (what is trusted has been read),
  *admitted* (the gate has let it pass), *paired* (the code is spent, the session not yet issued), or one of
  the four places `rotate_token` can be in. A step under one lock is one
  action. The stores drop what has expired before every use; here it is dropped as it expires.
- **Screen**, **Keyboard**, **Terminal**, **Connections** — the loop that takes keys, paints and then acts; bytes into
  keys by ticks, one turn of `keys_from` an action; a buffer that counts every byte it saw; a head, who is asking, and only then a body.
- **Standing**, **Sampler**, **Activity** — readers that look at a machine in several steps; the properties
  compare what they say with what was so between the first and the last.

Abstractions to know about. In ABUpdate and AppStore bundles and packages are believed or not,
nondeterministically: the checks themselves are in Trust, Discovery and Package. A partition write is one step that begins
(the content is `Torn` from then on) and one that ends. Time exists only where a
property needs it. Text, wording and layout are left out.

## 3. Runs

| Run | Question | Size |
|---|---|---|
| ABUpdate_safety | Whatever the operator does and whatever fails twice: is the running slot safe, is activation last, is nothing older written? 3 releases (good, bad, flaky), 2 tries, failing removals. | 837 000 states |
| ABUpdate_careful | Under the discipline: is a healthy release always kept, is a bad one left, does the machine come back, does it all implement TrialBoot? 4 releases, one of them dead. | 153 000 states |
| PlexServer | Do the five threads, a failure and a crash of plexosd keep to one watched Plex that runs what is mounted and comes back? 2 processes, 2 installs. | 79 000 states |
| AppStore | Does the store stay mountable, bounded and able to go back, with two faults at any step, and does every run end? 3 versions, up to 4 builds, 2 loop devices. | 450 000 states |
| Access | Is each code and each approval good for one session, is a code somebody knows in force after any orderly restart or rotation, does every session end? 2 browsers, 3 device codes, 2 sessions in a store of 1. | 517 000 states, 2 min |
| Release | From a published release to a confined Plex: discovery with trust and configuration, PID 1 before and after switch_root, graphics, a start of Plex. | 257 000 states, 3 to 4 min |
| Ground | Disks and installing, the partition table, radio, cable, certificate, addresses on trial. | 337 000 states, 3 min |
| Console | Screen, keyboard, terminal, connections, metrics, activity, standing, packages. | 279 000 states, 3 min |

Four more runs end in a violation; section 6 explains them.

Why the bounds are enough. *Two faults* are what the interesting stories need (a failure, then a
cut during the recovery); every fault is a step that can come anywhere, so two cover every pair of
places. *Releases* 1..3 give the installed, a bad and a newer one, so that an update can replace
an update; the fourth is the one that never reaches plexosd. *Tries = 2* separates the first, the
last and the spent boot. *Two pids for Plex* are a Plex and the second one that must not be;
*three pids* for PID 1 let one be reused while two are taken. *Three app versions with Keep = 2*
are the fewest for which retention removes anything, and *four builds* let one version be built
twice. *Two loop devices* make the limit reachable. *Window = 2* is the shortest in which a
second change can be armed strictly between the first one's start and its deadline. *Three disks* at boot
are the booted one, one with the same release (indistinguishable to dm-verity) and one with
another; three for Storage are the running one and two that can trade names. *Offers* are what a service may
publish: nothing new, a whole release, one signed by a stolen key, one whose parts do not belong together; it changes
once, which is enough to fall between any two requests. *Disks for a table* are the smallest that is accepted and the
next smaller, for both sector sizes, and two that cannot be planned at all. *Two supplicants and two jobs* are the one
that runs and the one that takes over. *Kept = 2 of 3 bytes* lets a reader be behind the buffer. *Backoff 0, 2 and
Stable = 3* keep the shape of `BACKOFF_MS` (an immediate first retry, then a delay shorter than `STABLE_MS`). *Three
device codes* are the claimed one, a rotation, and a rotation after a restart or
at the same time; *two sessions in a store of one* make the second push the first out; *one pairing code and one request*
suffice because the property is about two sessions on the same one. *Lifetime 1, Idle 2, Absolute 3* keep their order,
and leave room for a use between two ticks.

What the properties say, beyond types.

- `RunningSlotIntact`, `ActivatedAfterWritten` and `NothingOlderWritten` are the order of `write_slot` seen from outside.
  `KnownGoodKept` (a healthy release always keeps a permanent entry, and every permanent release was found healthy) is the
  invariant under ADR-0005. It needs the
  discipline, that is: update only once the gate has decided about this boot and the running
  release is settled, and no plexosd crash while an entry waits for its first boot. It may die at any other time, also with the ESP mounted,
  which then refuses gate and job until the next boot. Nothing in the
  code enforces the discipline; section 6 shows what happens without, and two hazards (`gate.rs:412` and `update.rs:288`) are
  therefore listed without a property. `KeepsPromise` is the refinement.
- `OnePlexPerDaemon` and `PlexIsInHand` (a live Plex is held by the Handle or watched, and stopped before the sync) hold
  while plexosd lives, which is the most the code achieves. A Plex left by an earlier plexosd is `ServesWhatIsMounted`'s.
- `FreshInstallMounts` says an interrupted install of a *new* version never harms the active one;
  `RetentionHolds`, that retention keeps its bound and the newest release that is not the active one.
- `AdmittedOnce` compares all sessions ever issued, ended ones too, across restarts. `OrderlyTokenIsKept` is restricted
  to behaviours with no crash, no failure and one rotation at a time; section 6 says what happens otherwise.
- Release: `KnownByItsOwn`; `NeverHammers` (between two attempts, as long as the table says after as many failures as there
  were attempts in the `STABLE_MS` before the later one; `GrowthAssumption` says that the table never goes down, as
  `BACKOFF_MS` does not); `RunsWhatWasSigned`;
  `ReadyIsTrue` compares the report with what Plex would be allowed to do; `KeptIsVouchedFor` bundles what is
  written, shown and revoked with the file it rests on; `StartsConfined` a Plex that runs with its confinement;
  `ComesUp` says that a service, a boot and the news of a release do not wait for ever, and, as `ClockIsKept`, that
  whatever the clock shows at a start, a certificate's expiry can be judged by what PID 1 makes of it.
- Ground: `DisksAreAsSaid` (the running disk is left alone, what a library shows, what "done" means, who may unmount a medium);
  `TableIsAsSaid` (a table is the old one, the new one or none, a written one survives the loss of either copy, and a disk is
  refused exactly when the layout has no room on it); `NetworkIsAsSaid` (one run at the radio, no supplicant out of reach,
  the page agrees with the radio, a cable is enough, the fingerprint shown is of what is served);
  `TrialsEnd` (a provisional address has a thread that ends it, however saves overlap; where they follow one another the stored address
  is the one in force, and one that was confirmed stands until another is asked for, though the threads of the trials before it still
  sleep); `WhatWasSetUpStands` (a folder somebody chose is shown once the machine serves again); `Settles`.
- Console: `NothingIsLost`, `ShownWasTrue`, `InstalledAsSigned`, `EveryoneIsAnswered`, each a conjunction with a line
  per module (what a new package pushes out is the action property `NewestIsKept`, under `NothingIsLost`); the conjuncts are stated and commented where they belong.
  Those about the screen's keys (`Undisturbed`) leave out a pairing and a radio that is unplugged, whose notices section 6 describes.

Each property was seen to fail on a plausible mutant of the code it is about: `PROJECT.json`
lists them under "mutants", the operators are next to what they mutate and marked "Mutant".

## 4. Fairness

- ABUpdate: the firmware boots a machine that is off, PID 1 restarts plexosd, the gate and job
  threads run (weak fairness of each). No request is ever forced, and no fault.
- PlexServer: strong fairness for each thread's step, because it waits for a mutex others take and
  release, and for the supervisor, which looks every five seconds at a condition that may flicker.
  Weak fairness for the rest, including Plex starting to serve once exec'd.
- AppStore: the job's thread runs (its transfers have timeouts, so `Receive` ends), PID 1 boots the
  machine. Failures and panics are outside fairness.
- Access: only that time passes. Nobody is forced to press a key, present a code or finish a request.
- Release: PID 1 is scheduled, before switch_root and after; days pass and the threads of a check and of a save go on,
  every fetch ending after `DOCUMENT_TIMEOUT_SECS`. No disk has to appear and no child has to exit. Whether there *is* news is
  a premise of `ComesUp`, not a fairness.
- Ground: the installer's thread, the radio's job and each supplicant, the wait for a cable, the issuer, savers and reverts
  run, and time passes. Nobody plugs anything in or confirms anything.
- Console: the screen's loop, the radio's job, the handlers of the terminal, the shell that reads its input, and a client
  that sends or falls silent (a read has a timeout). Strong fairness for the poll that learns of a lost session, since a
  session may be replaced meanwhile.

Deadlock is checked where the system never stops. It is off in the three sums because most parts are bounded by a counter, and
because some really stop: a machine nobody can reach with nothing armed has no next step.

## 5. Proofs

All theorems are about the specification's steps, for every value of the constants that
satisfies the named assumptions (`ReleasesAssumption`, `BoundAssumption`, ... in each module; each
only says what set a constant is drawn from, that two of them share nothing, that `Keep`, `Tries` and the like are positive,
that a table of delays goes up, or that the installed release is good). Where a specification carries fairness the proofs do
not use it. Each argument is an inductive invariant whose parts are named for what they say; they were checked by TLC, as
invariants of the runs, before they were proved.

- **ABUpdate_proofs** — `TypeCorrect`, `RunningSlotStaysIntact`, `JobStaysSound`, `NeverOlder`,
  `ActivationIsLast`. Inductive invariant: `TypeOK`, `RunningSlotIntact`, `JobIsSound` and
  `DaemonNeedsMachine`. `RunningSlotIntact` alone is not inductive: a run past evaluation must be on
  a machine that is up, or its target might change under it. The two action properties follow from the
  same invariant, one action at a time. No discipline is assumed. `KnownGoodStays` assumes it, as the property does. Its
  invariant says what stands on the ESP while the operator is careful: one permanent entry or, between the two renames of a
  promotion, the newer of two; at most one entry on trial, newer than it and found nowhere else; and which of them the machine runs and the gate
  judges. The same invariant gives `ImplementsTrialBoot`: every step of bootloader, gate and job is, through the mapping of
  ABUpdateTrial, a step of `TrialBoot!Safe` or a stutter. The fairness of TrialBoot's boot is the run's (`KeepsPromise`).
- **PlexServer_proofs** — `TypeCorrect`, `OnePlex`, `ServesMounted`, `StaysInHand`. `OnePlexPerDaemon` needs that a
  thread between its probe and its fork holds the mutex over no live process (`OneChild`);
  `ServesWhatIsMounted` needs that a swap about to mount has nothing mounted (`Mounting`);
  `PlexIsInHand` that a Plex which is held, could be stopped and is not wanted is being stopped by somebody (`InHand`).
- **AppStore_proofs** — `TypeCorrect`, `CurrentStays`, `MountedWhole`, `LoopsHold`, `FreshMounts`, `RetentionKeepsAWayBack`. The
  strengthening is what a run has in hand at each step (`JobInv`: a version that is not among those
  it will drop, a staging image that is whole before it is renamed, `current` moved before anything is
  removed), what is mounted on what (`MountInv`), and that a version installed for the first time
  is not there until it is published and verifies from then on (`FreshInv`).
  Retention has an invariant of its own (`RetentionInv`): every version a run is going to drop has a newer installed one that it
  will not drop and that is not its own, which holds when the run decides (`OneNewerStays`) and through each removal. The second
  pass adds a cardinality argument (`NewestAreFew`). It assumes that `Keep` is more than one; `store::KEEP` is 2.
- **Access_proofs** — `TypeCorrect`, `LetInOnce`, `TokenKept`. `AdmittedOnce` needs to know where every
  code is (`GrantInv`): on offer, in the hand of exactly one thread, or behind a session, never two of
  these; and that an approval behind a session is consumed or gone, and stays so. `OrderlyTokenIsKept`
  needs what a rotation has done at each of its steps and what the next start will find (`TokenInv`).
  Type correctness includes the capacities, which rest on the cardinality lemmas `OneMore` and
  `Exchange`. Actions that issue nothing and touch no device code share one lemma (`Calm`).
- **Release_proofs** — every safety property of the run Release, of the sum itself. *Services*: `ServiceInv` (`Owned`: the only
  process of a service not yet collected is the one in the table; with `KnownIsTrue` the table and the kernel name each other,
  which makes reuse of identifiers harmless) gives `EachByItsOwn`; `PaceInv` gives `FailuresAreSlowed`: what is left of a wait
  covers every earlier attempt still remembered, counted against the failures (`Paced`), a cardinality argument over attempts
  that age and drop out. *Trust*: `KeptInv` says, for each of the places a check and an installation can be at, what each has
  read (`Thread`), and, when a check and an installation do not overlap (`OneAtATime`), that what a thread goes by is the list on
  file, or a later one of a root (`NoEarlier`); it gives `WhatIsKeptWasVouchedFor`, with the configuration's `StoredInv` underneath.
  *Boot*: `BootInv` gives `SignedUsrOnly`: the mount is the only way past verity. *Plex*: `LaunchInv` follows the child through
  each confinement it takes on (`Along`) and gives `PlexStartsConfined`, for any kernel that lacks a right or a controller, and
  `ReportsAreTrue`, for any cards and nodes. `PartsAreTyped`: every variable keeps its type, which for the initrd needs that
  any finite set of disks has an order and that one of those present comes first (`ThereIsAnOrder`, `OneIsFirst`). `ServicesAreKept` states the part's theorem of the sum, through `ServicesOfTheSum`.
- **Storage_proofs** — `RunningDiskUntouched` has two halves, and each needs the other. The
  name that was vetted for an installation is not the running disk's (`OwnName`: no other drive is given it, `JobInv`: the
  job keeps what was vetted), so none of the steps that open the name again reaches that disk; and what is mounted was
  mountable or is a server's (`ShownInv`), while the running disk is an appliance and stays one. `ShownInv` has to follow what each
  thread read from a file and writes back later. Assumed: the running disk is a disk and has a name, servers are not disks, disks are not names.
  Beside it: `MediaInv` (each reader's own mount, among any number of readers), `InstallInv` (the parts copied so far are on
  the disk that was vetted, unless drives trade names), `LibrariesInv` (in a calm behaviour the file, the mounts and what the one
  request has in hand agree at each of its steps).
- **Ground_proofs** — every safety property of the run Ground. `GroundInv` joins `StorageInv` with five more. `TableInv`: the
  regions still to be written, those in the cache and those on the disk are each the old one or the new, whatever order they
  arrive in; that a table can be read from either copy rests on the layout worked out for a disk of any number of sectors
  (`PlanIs`, `FitsWhenRoomy`, `PlacesDiffer`) and on bytes that are turned round twice (`GuidReadsBack`). `WifiInv`: who is at the
  radio, which supplicant is whose and what each knows, through a crash of plexosd with its child left behind. `LinkInv`: a pass
  over the cards finds the first that has a cable. `CertificateInv`: which key the names and the certificate on disk belong to.
  `TrialInv`: each pending change has a timer that wakes no later than it ends; and where saves follow one another the one saver, or the
  one thread that undoes a change, is alone with what is stored and in force while any number of others sleep (`OneChange`).

- **Console_proofs** — every safety property of the run Console, of the sum itself; `ConsoleInv` joins an invariant of each part.
  *Packages*: `PackageInv` says that an installation under way is alone and what it holds at each of its steps: what was located is
  the front of the file (`Located`), what is listed is what Plex signed for the file's release (`Listed`), and what is unpacked is as
  listed (`Tied`), for each kind of package that may be offered. What is said of the first one when it fails (`Blamed`, `Traced`)
  needs that a genuine package can only come short. `StoreTyped` is the store's part; `NewestIsKept` is a cardinality argument over
  versions ordered by their first difference. *Terminal*: a buffer has no gap, and what a browser has follows it (`Follow`); a
  hangup leaves a shell only where shells ignore it. *Screen*: the last screen is the last, was painted, and was asked for once
  (`LastOfAll`). *Keyboard*: of somebody in no hurry one key is under way, in parts of the wire and of what is held (`OneUnderWay`);
  and each Escape that is made was owed (`EscapesOwed`): one is owed while the bytes under way end in a bare one, which counts the
  cancellations without following the keys. *Activity*: whatever a request holds was so since it began, or what it answers with
  instead was (`InStep`), and what is remembered of a file is no older than what has been settled, or is marked old
  (`CacheFits`). *Standing*: a note names a release that was undone or one the machine has not fallen below (`Noted`), and
  half a request was said of the machine (`Half`). *Sampler* and *Connections* need little more than their types.

What proving changed in the models. `LibraryIsWhatWasChosen` was false as it stood: with two library disks, a mount left
behind by an unmount that failed, or by a plexosd that died, comes to light again under a later library of that name. The small instance of
the run had one library disk and could not show it; the property now says when it holds, and section 6 lists the rest. The plan of the layout is one
append after another and no longer a recursion, and a GUID a concatenation, so that both can be reasoned about.
`NeverHammers` compares each pair of attempts by what came before it, which is what the table gives, where it had counted
attempts in a window. `NewestIsKept` had compared an image with every version ever made, which four installations can break without
anything being wrong (2, 3, 1, 3); it is now about what one installation removes.

Proving the Console changed four of its modules, none of them in what it says of the code. `keys_from` is a loop and is now
one, a turn of it being an action, where a recursive operator had stood for it; this also lets keys arrive between two turns.
The members of a package are of one length. Addresses are known by their place in the list, so that the first
one the certificate covers is a minimum; `StandingAssumption` says what it uses of the ports. What is old in the cache of sources
is cut off its front, which is where it is.

Only model-checked: everything temporal under fairness (`ComesBack`, `BadReleaseIsLeft`,
`WantedIsServed`, `JobEnds`, `SessionsEnd`, `ComesUp`, `Settles`, `EveryoneIsAnswered`, and the fairness in `KeepsPromise`),
which TLAPS does not do. `ClockIsKept`, within `ComesUp`, is arithmetic over 132 years and is evaluated. Every invariant and every
action property of a passing run is stated by a theorem.

## 6. Where the code and its documents disagree

Shown by a run that ends in a violation:

1. **A release that is healthy only on its last try can strand the machine** (`ABUpdate_f_unbootable`).
   Its entry already reads `+0`, so `clear_counter` leaves it out and it sorts last for good. The
   next update overwrites the other slot; cut during that write, the bootloader goes on preferring
   the torn slot's permanent entry. `esp.rs` calls an unbootable machine "the one failure this whole mechanism
   exists to prevent".
2. **A plexosd that dies while Plex is starting ends in two servers** (`PlexServer_f_two`): the next one
   holds no child and asks only whether something answers.
3. **Installing the active version again is not atomic** (`AppStore_f_reinstall`): its record is
   overwritten before its image is renamed.
4. **Which disk was booted is asked before `/sys` is mounted** (`EarlyBoot_f_var`), so the answer is
   always unknown, and with two installations in the machine the `/var` of the other can be mounted.
Observed while modelling, with no run of their own:

- The state action is decided in the initrd, before `/var` is mounted (`plexos-init/main.rs:337`,
  against `plan.rs:362`, "Only now can the state layout be inspected"): it is always Initialise, and a
  newer stamp is overwritten after a rollback.
- A machine that loses power, or a plexosd that dies, between the write and the reply of a rotation
  comes back trusting a code nobody was shown; `auth.rs:305` says the person who asked has it. The same
  holds between the write and the banner of a claim, and for a write that fails at its last step
  (`auth.rs:349`), after which `rotate_token` says that the old code still works.
- Two rotations at once can leave one code on file and the other in force (`auth.rs:308`, against
  `console.rs:695`): the write and the install are not one step.
- The screen says "Paired" also when the offer was withdrawn by a rotation, or cleared by a code
  presented too late (`dashboard/mod.rs:871`): it tells the two apart by whether an offer is left.
- A rotation leaves the requests of other browsers that were approved before it (`console.rs:672`), and the
  request that was admitted before it goes on.
- The gate makes permanent the one entry still counted, whether or not it is the one that booted
  (`gate.rs:432`): an update that finishes while the gate still waits, or before a restarted plexosd
  runs the gate again, gives a never-booted release a permanent entry. This is why
  `KnownGoodKept` needs the discipline.
- An update requested while the running release is itself on trial removes the only healthy permanent
  entry (`esp.rs:178`, against `update.rs:25`).
- A removal that fails is swallowed (`esp.rs:186`), and a stale permanent entry then outranks the good one;
  `RemovalsFail` models it.
- A rolled-back release equals the floor and is accepted again (`sequence.rs:102`, against
  `sequence.rs:28`).
- `Verdict::Good` is reported for a boot on its last try although nothing was recorded (`gate.rs:117`).
- The supervisor looks at `wanted` once and then starts Plex (`plex.rs:1010`): a stop by the power
  sequence in between is overtaken, against `plex.rs:26`.
- A Plex left by an earlier plexosd is not stopped before the power sequence syncs (`plex.rs:627`).
- `wanted` is set only by a start that succeeds (`plex.rs:585`): when the first one fails nothing
  tries again, against `plex.rs:936`.
- The revert thread of a confirmed or superseded change undoes the next one, early (`addressing.rs:113`), against the comment at
  `addressing.rs:102`, "Confirmed, or superseded. Either way this thread has nothing to undo". Two saves one after the other within the
  minute are enough. The thread takes whatever change is pending, and what it goes back to is what that one
  replaced: when this is an address that was itself never confirmed, the unconfirmed one stays with nothing left to undo it.
  `TrialsEnd` therefore promises no change its full minute.
- `apply` flushes the interface before it can fail, so a refused address does not leave the machine
  where it was (`settings.rs:406`).
- A stored static address is not applied at boot (`net.rs:632`, against `settings.rs:384`); a revert goes
  to the previous static address, not to DHCP (`addressing.rs:123`); a plexosd that dies
  during a trial forgets it.
- What an abandoned install of another version left in staging is never cleared (`execute.rs:116`).
  A superseded image that cannot be removed makes a successful install report a failure
  (`build.rs:190`, against `appmount.rs:299`).
- *Storage.* Installing onto a disk whose volume is mounted as a library is not refused, and a drive swapped
  between the vetting and the write is written (`install.rs`). A cut between the ESP and the `/usr` copy leaves a disk
  that boots into nothing. The last scan is keyed by device name, so that an old refusal can be shown for another drive.
  A folder that is forgotten while its unmount fails, or across a crash, keeps its mount, which shows again when a later library of that
  name is taken off it. Overlapping requests lose updates of `disks.json` and `shares.json`. A plexosd that dies while it reads a medium leaves
  it mounted, and later scans pass it over. A share with a library's name wins at boot, and removing that share
  unmounts the library. The comment at `gpt.rs:264` says "Four regions"; there are five.
- *Network.* Each join starts another resident `udhcpc`, and none is stopped. A cable plugged in after the
  30 s wait is never configured. "adrift" is also said while the old association still runs. Power lost while `key.der` is
  written leaves a truncated key, with which the console never starts; a certificate that is cut, whose stored names still match, is reused
  and keeps the console from starting until the machine's names change (`tls.rs:106`); names are remembered before the certificate that
  covers them is in place.
- *Configuration and discovery.* Two overlapping saves share `config.toml.new` with no lock (`settings.rs:124`). A settings
  change during a check makes the answer be judged against the new channel and shown with the old one. A check and an
  installation that overlap can put an earlier revocation list back (`update.rs:921` against `:897`): that the counter rises, and that an
  installation is judged by no earlier list than is held, have as their
  premise that they do not. That a revoked key stays revoked is promised nowhere: whoever holds a
  root can give it back, with a later list that does not name it, which `trust.rs:248` gives as the remedy for a mistake. `config.rs:3` says that the file is never written back.
- *Screen and keyboard.* A notice that runs out brings the dashboard back whatever is shown by then: one of a pairing, or of a join
  whose radio was unplugged at once (`mod.rs:936` clears the screen and not the notice), can undo the last screen, and the machine
  can be asked to go twice (`mod.rs:827`, against `draw`: "a loop that asked twice would put two shutdown sequences on the same Plex"). Where it takes the key screen away, the passphrase typed so far stays in memory. A join asked while a scan runs is dropped and the screen stays on "joining". A pairing notice can be
  stale (`mod.rs:468`). An Escape followed at once by another key is read as Alt and both are lost;
  an unfinished `ESC [ digit` swallows keys up to the next letter.
- *Terminal and connections.* Idle shells are ended only by a request for the terminal, against `terminal.rs:326` ("the next
  request of any kind"). A credential read when a connection is accepted is used after a rotation (`http.rs:599`). A
  head cut short by the end of the stream is parsed all the same.
- *Graphics and start.* On a machine where Plex is not installed yet `prepare` never runs, and a healthy Intel GPU is reported as
  unavailable (`report.rs:294`). With `/proc/meminfo` unreadable the log says unbounded and `memory.max` is set to the
  floor (`plex.rs:94`). A kept token comes back after a sign-out if the preferences are emptied later.
- *What is shown.* The screen can say that everything works while the next step of setup is to sign Plex in. Two pollers of the
  process list replace each other's baseline. A poster is cut at its limit and served (`plexactivity.rs:1326`). A reset
  counter that has overtaken its old value shows a wrong rate.
- *Packages.* The package that failed its verification stays in `/var` (`provision.rs:733`).

## 7. What is not covered

Nothing of the image build and the host tools (not in the appliance), the DHCP client, `wpa_supplicant`, the
kernel, firmware, bootloader, dm-verity and Plex, which are modelled from how the code uses them and marked external. Left
out of the modelled components: in ABUpdate a recorded sequence that cannot be read, which counts as none and leaves the floor at the
running release (`sequence.rs:114`), and a release whose sequence is not its place among the versions; in PlexServer that the supervisor
looks at `wanted`, the child and the port one after the other, since what it then does asks again under the mutex; in Wifi that a
report is read in three steps, so that what is said of it is said of a radio that is left alone meanwhile; in early boot single links and overlays; in
Configuration two saves at once (an observation above) and sections the console cannot change; in Access what is refused and
the listing of waiting browsers; how `/proc`, XML, JSON and HTTP are read, the pages, their layout, the QR code, the routes that
only read, the place a machine is in. Hazards listed without a property on a passing run: `addressing.rs:335`
and `:113`, `gate.rs:412` and `update.rs:288`, which are properties the code does not have, and `execute.rs:376`, which
`EarlyBoot_f_var` shows. Others are covered in part, and their notes in `PROJECT.json` say which part is not: two saves at once, a
check beside an installation, a change that is superseded, two rotations or a crash in one, a code that is replaced while a request
arrives, a pairing beside the keys of the screen.

The three sums check each part by itself, in the environments its faults name: what they compose is stated in section 2. A wrong order
between two parts that share only a file (a share saved while libraries mount at boot) is looked for inside
Storage, and not between, say, Storage and PlexServer.

## 8. Plan

Done, in this order: ABUpdate with its abstract trial, PlexServer, AddressTrial, AppStore, Supervisor, EarlyBoot, Access;
then Trust, Configuration, Discovery, Graphics, Launch; Drives, Libraries, Media, Installer, PartitionTable; Link, Wifi, Certificate;
Screen, Keyboard, Terminal, Connections, Standing, Sampler, Activity, Package. Then the proofs: of the update and its refinement, of Plex, of the
app store, of access, of everything Release, Ground and Console promise that is not liveness. Next:

1. **Composition** — gate and power sequence of ABUpdate with PlexServer: a gate that restarts while a
   swap is under way; AppStore's job with PlexServer's swap; the gate of Access with Connections.
2. **Configuration** — two saves at once over one temporary file.

## 9. How to run it

    tlc -config ABUpdate_safety.cfg MCABUpdate      # any run: its .cfg and its MC module
    tlapm ABUpdate_proofs.tla                       # any *_proofs module

Runs take from seconds to about four minutes, proofs from a few seconds to a quarter of an hour.
