----------------------------- MODULE Supervisor -----------------------------
(***************************************************************************)
(* PID 1 once the root is assembled: it collects every child that has       *)
(* exited, its own services and other people's orphans alike, and starts    *)
(* each service again after a delay that grows while it keeps failing.      *)
(*                                                                          *)
(* A unit of time is one POLL_MS.  Times are kept relative to now: how long *)
(* ago a service was started, how long until it may be.                     *)
(***************************************************************************)
EXTENDS Integers, Sequences, FiniteSets

CONSTANTS
  Services,     \* SERVICES
  Pids,         \* what the kernel numbers processes with, again and again
  NoPid,
  Backoff,      \* BACKOFF_MS
  Stable,       \* STABLE_MS
  MaxOrphans,   \* bound on processes reparented to PID 1
  MaxRefusals   \* bound on programs that cannot be executed

ASSUME PidsAssumption     == NoPid \notin Pids /\ NoPid \notin Services
ASSUME BackoffAssumption  == Backoff \in Seq(Nat) /\ Len(Backoff) > 0
ASSUME GrowthAssumption   == \A i, j \in DOMAIN Backoff : i <= j => Backoff[i] <= Backoff[j]
ASSUME StableAssumption   == Stable \in Nat \ {0} /\ \A i \in DOMAIN Backoff : Backoff[i] < Stable
ASSUME BoundsAssumption   == MaxOrphans \in Nat /\ MaxRefusals \in Nat

VARIABLES
  pid, failures,       \* State::pid and State::failures, the latter capped
  age, wait,           \* now - started_at, capped at Stable; next_attempt - now, at least 0
  proc,                \* what each pid is: free, or a child of PID 1 that runs or is a zombie
  of,                  \* whose process it is, NoPid for an orphan
  pc, todo,            \* where tick is, and the services it has still to start
  recent,              \* history: how long ago each service was attempted, within Stable
  orphans, refusals    \* counters

state == <<pid, failures, age, wait, recent>>
kernel == <<proc, of>>
vars == <<state, kernel, pc, todo, orphans, refusals>>

TypeOK ==
  /\ pid \in [Services -> Pids \cup {NoPid}] /\ failures \in [Services -> 0..Len(Backoff)]
  /\ age \in [Services -> 0..Stable] /\ wait \in [Services -> 0..Stable]
  /\ proc \in [Pids -> {"free", "runs", "zombie"}] /\ of \in [Pids -> Services \cup {NoPid}]
  /\ pc \in {"sleep", "reap", "start"} /\ todo \subseteq Services
  /\ recent \in [Services -> SUBSET (0..(Stable - 1))]
  /\ orphans \in 0..MaxOrphans /\ refusals \in 0..MaxRefusals

Init ==
  /\ pid = [s \in Services |-> NoPid] /\ failures = [s \in Services |-> 0]
  /\ age = [s \in Services |-> 0] /\ wait = age
  /\ proc = [p \in Pids |-> "free"] /\ of = [p \in Pids |-> NoPid]
  /\ pc = "reap" /\ todo = {}
  /\ recent = [s \in Services |-> {}]
  /\ orphans = 0 /\ refusals = 0

-----------------------------------------------------------------------------
(* backoff *)
BackoffAfter(n) == Backoff[IF n < Len(Backoff) THEN n + 1 ELSE Len(Backoff)]

OneMore(n) == IF n < Len(Backoff) THEN n + 1 ELSE n

-----------------------------------------------------------------------------
(* The processes. *)

Exit(p) ==
  /\ proc[p] = "runs" /\ proc' = [proc EXCEPT ![p] = "zombie"]
  /\ UNCHANGED <<state, of, pc, todo, orphans, refusals>>

(* A process whose parent has died becomes PID 1's. *)
Orphaned(p) ==
  /\ orphans < MaxOrphans /\ orphans' = orphans + 1
  /\ proc[p] = "free" /\ proc' = [proc EXCEPT ![p] = "runs"]
  /\ UNCHANGED <<state, of, pc, todo, refusals>>

-----------------------------------------------------------------------------
(* run and Supervisor::tick. *)

(* The sleep is over: every clock has moved by one. *)
Wake ==
  /\ pc = "sleep" /\ pc' = "reap"
  /\ age'  = [s \in Services |-> IF age[s] < Stable THEN age[s] + 1 ELSE Stable]
  /\ wait' = [s \in Services |-> IF wait[s] > 0 THEN wait[s] - 1 ELSE 0]
  /\ recent' = [s \in Services |-> {t + 1 : t \in recent[s]} \cap 0..(Stable - 1)]
  /\ UNCHANGED <<pid, failures, kernel, todo, orphans, refusals>>

(* A service has failed for the n-th time running: it waits, and the count goes up. *)
Failed(s, n) ==
  /\ wait' = [wait EXCEPT ![s] = BackoffAfter(n)]
  /\ failures' = [failures EXCEPT ![s] = OneMore(n)]

(* Mutant: every exit is forgiven. *)
AlwaysForgiven(s) == 0
(* What is remembered against a service: nothing, if it stayed up. *)
Forgiven(s) == IF age[s] >= Stable THEN 0 ELSE failures[s]

(* Mutant: the exit of any child is taken for a service's. *)
ReapForgetsAll(p) ==
  /\ pc = "reap" /\ proc[p] = "zombie"
  /\ proc' = [proc EXCEPT ![p] = "free"] /\ of' = [of EXCEPT ![p] = NoPid]
  /\ pid' = [s \in Services |-> NoPid]
  /\ UNCHANGED <<age, failures, wait, recent, pc, todo, orphans, refusals>>

(* One child is collected.  If no service has its pid it was an orphan. *)
Reap(p) ==
  /\ pc = "reap" /\ proc[p] = "zombie"
  /\ proc' = [proc EXCEPT ![p] = "free"] /\ of' = [of EXCEPT ![p] = NoPid]
  /\ LET owner == {s \in Services : pid[s] = p} IN
     IF owner = {}
     THEN UNCHANGED <<pid, failures, wait>>
     ELSE \E s \in owner :
            /\ pid' = [pid EXCEPT ![s] = NoPid]
            /\ Failed(s, Forgiven(s))
  /\ UNCHANGED <<age, recent, pc, todo, orphans, refusals>>

Due(s) == pid[s] = NoPid /\ wait[s] = 0

(* Nothing is left to collect; the services that are due are gone through. *)
Drained ==
  /\ pc = "reap" /\ \A p \in Pids : proc[p] # "zombie"
  /\ pc' = "start" /\ todo' = {s \in Services : Due(s)}
  /\ UNCHANGED <<state, kernel, orphans, refusals>>

Attempt(s) ==
  /\ pc = "start" /\ s \in todo
  /\ todo' = todo \ {s}
  /\ recent' = [recent EXCEPT ![s] = @ \cup {0}]

Start(s, p) ==
  /\ Attempt(s) /\ proc[p] = "free"
  /\ proc' = [proc EXCEPT ![p] = "runs"] /\ of' = [of EXCEPT ![p] = s]
  /\ pid' = [pid EXCEPT ![s] = p] /\ age' = [age EXCEPT ![s] = 0]
  /\ UNCHANGED <<failures, wait, pc, orphans, refusals>>

CannotStart(s) ==
  /\ Attempt(s) /\ refusals < MaxRefusals /\ refusals' = refusals + 1
  /\ Failed(s, failures[s])
  /\ UNCHANGED <<pid, age, kernel, pc, orphans>>

TickEnds ==
  /\ pc = "start" /\ todo = {} /\ pc' = "sleep"
  /\ UNCHANGED <<state, kernel, todo, orphans, refusals>>

Tick ==
  \/ Wake \/ Drained \/ TickEnds
  \/ \E p \in Pids : Reap(p)
  \/ \E s \in Services : CannotStart(s) \/ \E p \in Pids : Start(s, p)

Next == Tick \/ \E p \in Pids : Exit(p) \/ Orphaned(p)

Spec == Init /\ [][Next]_vars

-----------------------------------------------------------------------------
(* No service ever has two processes, whatever the kernel numbers them and whoever else's
   child has just exited. *)
OneProcessPerService ==
  \A s \in Services : Cardinality({p \in Pids : of[p] = s}) <= 1

(* The pid a service is known by is a process of that service, not yet collected: it is never
   one that has been given to another process since. *)
KnownIsTrue ==
  \A s \in Services : pid[s] # NoPid => of[pid[s]] = s /\ proc[pid[s]] # "free"

(* So each service is the one process it is known by, or none. *)
KnownByItsOwn == OneProcessPerService /\ KnownIsTrue

(* A service that cannot stay up is slowed down: an attempt comes at least as long after any earlier one as the table says
   after as many failures as there were attempts in the Stable before it (supervise.rs, STABLE_MS: "would reset its own
   backoff every time and retry as fast as it could"). *)
Earlier(s, t) == {v \in recent[s] : v > t}
NeverHammers ==
  \A s \in Services : \A t \in recent[s] : \A u \in Earlier(s, t) : u - t >= BackoffAfter(Cardinality(Earlier(s, t)) - 1)

(* A service that is down runs again, however often it failed before; what has exited is collected, orphans too, or
   there would be no process left to run it as. *)
Running(s) == \E p \in Pids : of[p] = s /\ proc[p] = "runs"
=============================================================================
