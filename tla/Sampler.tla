-------------------------------- MODULE Sampler --------------------------------
(***************************************************************************)
(* What the machine is doing now (metrics.rs): counters are read and then   *)
(* compared, under a lock, with those of an earlier request, so that what   *)
(* one browser is told depends on when the others asked.                    *)
(*                                                                          *)
(* A reading is its time, and a rate the two times it lies between: what    *)
(* the counters said is left out.  So is the time between the stamp and the *)
(* files, which no answer depends on.                                       *)
(***************************************************************************)
EXTENDS Integers, Faults

CONSTANTS
  Viewers,    \* browsers with the page open
  MinWindow,  \* MIN_WINDOW, in ticks
  LastTick    \* bound: the clock stops here

ASSUME SamplerAssumption == MinWindow \in Nat \ {0} /\ LastTick \in Nat

Never   == -1
NoRates == [from |-> Never, to |-> Never]

VARIABLES
  clock,
  previous,   \* Sampler::previous
  last_rates, \* Sampler::last_rates
  listed,     \* Sampler::previous_processes
  viewer      \* a request: where it is, its reading, and what it was told

sampler == <<clock, previous, last_rates, listed, viewer>>

Times   == Never..LastTick
Answers == [from : Times, to : Times]

SamplerTypeOK ==
  /\ clock \in 0..LastTick
  /\ previous \in Times /\ listed \in Times /\ last_rates \in Answers
  /\ viewer \in [Viewers -> [at : {"idle", "read", "answered"}, reading : Times, told : Answers]]

SamplerInit ==
  /\ clock = 0
  /\ previous = Never /\ last_rates = NoRates /\ listed = Never
  /\ viewer = [v \in Viewers |-> [at |-> "idle", reading |-> Never, told |-> NoRates]]

-----------------------------------------------------------------------------
(* Two readings, and what they say. *)

(* saturating_duration_since: a reading from before the other is no time after it. *)
Elapsed(before, reading) == IF reading > before THEN reading - before ELSE 0

(* Of what was there both times, by name, and has not been reset in between (paired_rates, per_second). *)
Compared(before, reading) == [from |-> before, to |-> reading]

Wide(before, reading) == before # Never /\ Elapsed(before, reading) >= MinWindow

(* "Deliberately leaves previous alone": the next window would be short as well. *)
Baseline(before, reading) == IF before = Never \/ Wide(before, reading) THEN reading ELSE before

-----------------------------------------------------------------------------
(* A request reads the machine before it has the lock, so they may be compared in another order.  The rates and the
   list of processes have nothing in common but the clock. *)

Read(v) ==
  /\ viewer[v].at # "read"
  /\ viewer' = [viewer EXCEPT ![v] = [at |-> "read", reading |-> clock, told |-> NoRates]]
  /\ UNCHANGED <<clock, previous, last_rates, listed>>

Tell(v, answer) == viewer' = [viewer EXCEPT ![v].at = "answered", ![v].told = answer]

(* sample and rates: this reading against the baseline, or the last answer again. *)
Sample(v) ==
  LET r == viewer[v].reading
      rates == IF Wide(previous, r) THEN Compared(previous, r) ELSE last_rates IN
  /\ viewer[v].at = "read" /\ Happens("rates")
  /\ Tell(v, rates)
  /\ previous' = Baseline(previous, r) /\ last_rates' = rates
  /\ UNCHANGED <<clock, listed>>

(* processes: its own baseline, which every request replaces, and never the last answer again. *)
List(v) ==
  LET r == viewer[v].reading IN
  /\ viewer[v].at = "read" /\ Happens("lists")
  /\ Tell(v, IF Wide(listed, r) THEN Compared(listed, r) ELSE NoRates)
  /\ listed' = r
  /\ UNCHANGED <<clock, previous, last_rates>>

ClockTicks ==
  /\ clock < LastTick /\ clock' = clock + 1
  /\ UNCHANGED <<previous, last_rates, listed, viewer>>

SamplerNext == ClockTicks \/ \E v \in Viewers : Read(v) \/ Sample(v) \/ List(v)

-----------------------------------------------------------------------------
(* MIN_WINDOW, whoever else is asking: no figure is over a window too short to mean anything, and one that is
   given again is not old: it ends less than a window before the request it answers, or after it. *)
FreshAndWide ==
  \A v \in Viewers : LET told == viewer[v].told IN told # NoRates =>
    told.to - told.from >= MinWindow /\ viewer[v].reading - told.to < MinWindow
=============================================================================
