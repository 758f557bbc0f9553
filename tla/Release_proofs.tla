---------------------------- MODULE Release_proofs ----------------------------
(***************************************************************************)
(* What is proved of the parts of a release, and so of the sum MCRelease     *)
(* makes of them: for every set of services, of pids and of disks, every     *)
(* table of delays that goes up, every configuration and every publisher.    *)
(***************************************************************************)
EXTENDS MCRelease, FiniteSetTheorems, WellFoundedInduction, TLAPS

-----------------------------------------------------------------------------
(* PID 1 over its services. *)

(* The only process of a service that has not been collected is the one it is known by. *)
Owned == \A p \in Pids : of[p] # NoPid => pid[of[p]] = p

(* The services still to be started in this tick are down. *)
ToStart == (pc # "start" => todo = {}) /\ \A s \in todo : pid[s] = NoPid

(* The inductive invariant: a pid in the supervisor's table and the process the kernel has
   under it name each other. *)
ServiceInv == TypeOK /\ KnownIsTrue /\ Owned /\ ToStart

-----------------------------------------------------------------------------
(* A delay from the table is shorter than Stable, whichever failure it follows. *)
LEMMA Delays == \A n \in 0..Len(Backoff) : BackoffAfter(n) \in 0..Stable /\ OneMore(n) \in 0..Len(Backoff)
<1> SUFFICES ASSUME NEW n \in 0..Len(Backoff)
             PROVE  BackoffAfter(n) \in 0..Stable /\ OneMore(n) \in 0..Len(Backoff)
  OBVIOUS
<1> DEFINE i == IF n < Len(Backoff) THEN n + 1 ELSE Len(Backoff)
<1>1. i \in 1..Len(Backoff)
  BY BackoffAssumption
<1>2. Backoff[i] \in Nat /\ Backoff[i] < Stable
  BY <1>1, BackoffAssumption, StableAssumption
<1>3. BackoffAfter(n) = Backoff[i]
  BY DEF BackoffAfter
<1>4. OneMore(n) \in 0..Len(Backoff)
  BY BackoffAssumption DEF OneMore
<1> QED
  BY <1>2, <1>3, <1>4, StableAssumption

(* Nothing has been started yet. *)
LEMMA ServicesBegin == Init => ServiceInv
  BY PidsAssumption, BackoffAssumption, StableAssumption, BoundsAssumption
  DEF Init, ServiceInv, TypeOK, KnownIsTrue, Owned, ToStart

(* What a process does on its own. *)
LEMMA ProcessKeeps ==
  ASSUME ServiceInv, NEW p \in Pids, Exit(p) \/ Orphaned(p) PROVE ServiceInv'
<1>1. CASE Exit(p)
  BY <1>1 DEF ServiceInv, TypeOK, KnownIsTrue, Owned, ToStart, Exit, state
<1>2. CASE Orphaned(p)
  BY <1>2, BoundsAssumption DEF ServiceInv, TypeOK, KnownIsTrue, Owned, ToStart, Orphaned, state
<1> QED
  BY <1>1, <1>2

(* Time passes. *)
LEMMA WakeKeeps == ASSUME ServiceInv, Wake PROVE ServiceInv'
<1>1. age' \in [Services -> 0..Stable] /\ wait' \in [Services -> 0..Stable]
  BY StableAssumption DEF ServiceInv, TypeOK, Wake
<1>2. recent' \in [Services -> SUBSET (0..(Stable - 1))]
  BY DEF Wake
<1>3. UNCHANGED <<pid, failures, proc, of, todo, orphans, refusals>> /\ pc' = "reap" /\ pc = "sleep"
  BY DEF Wake, kernel
<1> QED
  BY <1>1, <1>2, <1>3 DEF ServiceInv, TypeOK, KnownIsTrue, Owned, ToStart

(* A child is collected: the service it was, if any, is down. *)
LEMMA ReapKeeps == ASSUME ServiceInv, NEW p \in Pids, Reap(p) PROVE ServiceInv'
<1>1. CASE \A s \in Services : pid[s] # p
  <2>1. UNCHANGED <<pid, failures, wait, age, recent, pc, todo, orphans, refusals>>
    BY <1>1 DEF Reap
  <2>2. of[p] = NoPid
    BY <1>1 DEF ServiceInv, TypeOK, Owned
  <2>3. TypeOK'
    BY <2>1 DEF ServiceInv, TypeOK, Reap
  <2>4. KnownIsTrue' /\ Owned' /\ ToStart'
    BY <2>1, <2>2, <1>1 DEF ServiceInv, TypeOK, KnownIsTrue, Owned, ToStart, Reap
  <2> QED
    BY <2>3, <2>4 DEF ServiceInv
<1>2. CASE \E s \in Services : pid[s] = p
  <2>1. PICK s \in Services : /\ pid[s] = p /\ pid' = [pid EXCEPT ![s] = NoPid]
                              /\ Failed(s, Forgiven(s))
    BY <1>2 DEF Reap
  <2>2. Forgiven(s) \in 0..Len(Backoff)
    BY BackoffAssumption DEF ServiceInv, TypeOK, Forgiven
  <2>3. TypeOK'
    BY <2>1, <2>2, Delays DEF ServiceInv, TypeOK, Reap, Failed
  <2>4. \A t \in Services \ {s} : pid[t] # p
    BY <2>1, PidsAssumption DEF ServiceInv, KnownIsTrue
  <2>5. KnownIsTrue' /\ Owned' /\ ToStart'
    BY <2>1, <2>4, PidsAssumption DEF ServiceInv, TypeOK, KnownIsTrue, Owned, ToStart, Reap
  <2> QED
    BY <2>3, <2>5 DEF ServiceInv
<1> QED
  BY <1>1, <1>2

(* A service is started under a pid nothing else has, or refuses to start. *)
LEMMA StartKeeps ==
  ASSUME ServiceInv, NEW s \in Services, CannotStart(s) \/ \E p \in Pids : Start(s, p)
  PROVE  ServiceInv'
<1>1. recent' \in [Services -> SUBSET (0..(Stable - 1))]
  <2>1. recent' = [recent EXCEPT ![s] = @ \cup {0}]
    BY DEF CannotStart, Start, Attempt
  <2>2. 0 \in 0..(Stable - 1)
    BY StableAssumption
  <2> QED
    BY <2>1, <2>2 DEF ServiceInv, TypeOK
<1>2. pc = "start" /\ pc' = pc /\ s \in todo /\ todo' = todo \ {s} /\ pid[s] = NoPid
  BY DEF ServiceInv, ToStart, CannotStart, Start, Attempt
<1>3. CASE CannotStart(s)
  <2>1. wait' \in [Services -> 0..Stable] /\ failures' \in [Services -> 0..Len(Backoff)]
    BY <1>3, Delays DEF ServiceInv, TypeOK, CannotStart, Failed
  <2> QED
    BY <1>1, <1>2, <1>3, <2>1, BoundsAssumption
    DEF ServiceInv, TypeOK, KnownIsTrue, Owned, ToStart, CannotStart, kernel
<1>4. ASSUME NEW p \in Pids, Start(s, p) PROVE ServiceInv'
  <2>1. TypeOK'
    BY <1>1, <1>2, <1>4, StableAssumption DEF ServiceInv, TypeOK, Start
  <2>2. \A t \in Services : pid[t] # p
    BY <1>4, PidsAssumption DEF ServiceInv, KnownIsTrue, Start
  <2>3. \A q \in Pids : of[q] # s
    BY <1>2, PidsAssumption DEF ServiceInv, TypeOK, Owned
  <2>4. KnownIsTrue' /\ Owned'
    BY <1>2, <1>4, <2>2, <2>3, PidsAssumption DEF ServiceInv, TypeOK, KnownIsTrue, Owned, Start
  <2>5. ToStart'
    BY <1>2, <1>4 DEF ServiceInv, TypeOK, ToStart, Start
  <2> QED
    BY <2>1, <2>4, <2>5 DEF ServiceInv
<1> QED
  BY <1>3, <1>4

(* Every step keeps the invariant. *)
LEMMA ServicesGoOn == ServiceInv /\ [Next]_vars => ServiceInv'
<1> SUFFICES ASSUME ServiceInv, [Next]_vars PROVE ServiceInv'
  OBVIOUS
<1>1. CASE Wake
  BY <1>1, WakeKeeps
<1>2. CASE Drained
  BY <1>2 DEF ServiceInv, TypeOK, KnownIsTrue, Owned, ToStart, Drained, Due, state, kernel
<1>3. CASE TickEnds
  BY <1>3 DEF ServiceInv, TypeOK, KnownIsTrue, Owned, ToStart, TickEnds, state, kernel
<1>4. CASE UNCHANGED vars
  BY <1>4 DEF ServiceInv, TypeOK, KnownIsTrue, Owned, ToStart, vars, state, kernel
<1> QED
  BY <1>1, <1>2, <1>3, <1>4, ReapKeeps, StartKeeps, ProcessKeeps DEF Next, Tick

(* The invariant holds in every state PID 1 and its children can reach. *)
THEOREM ServicesInvariance == Spec => []ServiceInv
<1> QED
  BY ServicesBegin, ServicesGoOn, PTL DEF Spec

-----------------------------------------------------------------------------
(* The supervisor's table, the kernel's and the clocks keep their types. *)
THEOREM ServicesTyped == Spec => []TypeOK
<1>1. ServiceInv => TypeOK
  BY DEF ServiceInv
<1> QED
  BY <1>1, ServicesInvariance, PTL

(* A pid the supervisor holds for a service is that service's process, however the kernel
   reuses its numbers (Supervisor::tick). *)
THEOREM PidsAreTrue == Spec => []KnownIsTrue
<1>1. ServiceInv => KnownIsTrue
  BY DEF ServiceInv
<1> QED
  BY <1>1, ServicesInvariance, PTL

(* No service is ever started while a process of it is left (Supervisor::tick). *)
THEOREM OneEach == Spec => []OneProcessPerService
<1>1. ServiceInv => OneProcessPerService
  <2> SUFFICES ASSUME ServiceInv, NEW s \in Services
               PROVE  Cardinality({p \in Pids : of[p] = s}) <= 1
    BY DEF OneProcessPerService
  <2>1. {p \in Pids : of[p] = s} \subseteq {pid[s]}
    BY PidsAssumption DEF ServiceInv, Owned
  <2>2. IsFiniteSet({pid[s]}) /\ Cardinality({pid[s]}) = 1
    BY FS_Singleton
  <2>3. Cardinality({p \in Pids : of[p] = s}) <= Cardinality({pid[s]})
    BY <2>1, <2>2, FS_Subset
  <2> QED
    BY <2>2, <2>3
<1> QED
  BY <1>1, ServicesInvariance, PTL

(* Each service is the one process it is known by, or none (Supervisor::tick). *)
THEOREM EachByItsOwn == Spec => []KnownByItsOwn
<1>1. OneProcessPerService /\ KnownIsTrue => KnownByItsOwn
  BY DEF KnownByItsOwn
<1> QED
  BY <1>1, OneEach, PidsAreTrue, PTL
-----------------------------------------------------------------------------
(* What keeps a failing service slow: what is remembered against it is never less than its attempts within Stable, one of
   them not counted while it runs; and while it is down, it waits until the table's delay for that many has passed since
   each of them. *)
AtMost(c) == IF c < Len(Backoff) THEN c ELSE Len(Backoff)
Attempts(s) == Cardinality(recent[s])
PacedDown(s) == /\ failures[s] >= AtMost(Attempts(s))
                /\ \A t \in recent[s] : t + wait[s] >= BackoffAfter(Attempts(s) - 1)
PacedUp(s) == /\ failures[s] >= AtMost(Attempts(s) - 1)
              /\ \A t \in recent[s] : t >= age[s]
              /\ age[s] >= Stable => recent[s] = {}
Paced ==
  /\ \A s \in todo : wait[s] = 0
  /\ \A s \in Services : (pid[s] = NoPid => PacedDown(s)) /\ (pid[s] # NoPid => PacedUp(s))

PaceInv == NeverHammers /\ Paced

(* The table is gone up, and its last delay stays. *)
LEMMA Slower ==
  ASSUME NEW m \in Nat, NEW n \in Nat, m <= n
  PROVE  BackoffAfter(m) \in Nat /\ BackoffAfter(n) \in Nat /\ BackoffAfter(m) <= BackoffAfter(n)
<1> DEFINE Row(k) == IF k < Len(Backoff) THEN k + 1 ELSE Len(Backoff)
<1>1. Len(Backoff) \in Nat /\ Len(Backoff) > 0 /\ DOMAIN Backoff = 1..Len(Backoff) /\ \A i \in 1..Len(Backoff) : Backoff[i] \in Nat
  BY BackoffAssumption
<1>2. Row(m) \in 1..Len(Backoff) /\ Row(n) \in 1..Len(Backoff) /\ Row(m) <= Row(n)
  BY <1>1
<1>3. Backoff[Row(m)] <= Backoff[Row(n)]
  BY <1>1, <1>2, GrowthAssumption
<1>4. BackoffAfter(m) = Backoff[Row(m)] /\ BackoffAfter(n) = Backoff[Row(n)]
  BY DEF BackoffAfter
<1> QED
  BY <1>1, <1>2, <1>3, <1>4

LEMMA DelayIsNat == \A n \in Nat : BackoffAfter(n) \in Nat
<1> SUFFICES ASSUME NEW n \in Nat PROVE BackoffAfter(n) \in Nat
  OBVIOUS
<1>1. n <= n
  OBVIOUS
<1> QED
  BY <1>1, Slower

(* A count of failures that is enough for c attempts waits as long as c attempts should, and one more is enough for one
   more. *)
LEMMA EnoughFailures ==
  ASSUME NEW n \in 0..Len(Backoff), NEW c \in Nat, n >= AtMost(c)
  PROVE  BackoffAfter(n) >= BackoffAfter(c) /\ OneMore(n) >= AtMost(c + 1)
<1>1. Len(Backoff) \in Nat /\ Len(Backoff) > 0
  BY BackoffAssumption
<1>2. OneMore(n) >= AtMost(c + 1)
  BY <1>1 DEF OneMore, AtMost
<1>3. CASE c <= n
  BY <1>2, <1>3, Slower
<1>4. CASE c > n
  <2>1. n = Len(Backoff)
    BY <1>1, <1>4 DEF AtMost
  <2>2. BackoffAfter(n) = BackoffAfter(c)
    BY <1>1, <1>4, <2>1 DEF BackoffAfter
  <2>3. BackoffAfter(n) \in Nat
    BY <1>1, Slower
  <2> QED
    BY <1>2, <2>2, <2>3
<1> QED
  BY <1>1, <1>3, <1>4

(* Fewer attempts ask for no more. *)
LEMMA FewerAsk == ASSUME NEW c \in Nat, NEW d \in Nat, c <= d PROVE AtMost(c) <= AtMost(d)
BY BackoffAssumption DEF AtMost

LEMMA AttemptsCount ==
  ASSUME TypeOK, NEW s \in Services
  PROVE  /\ IsFiniteSet(recent[s]) /\ Attempts(s) \in Nat /\ \A t \in recent[s] : t \in 0..(Stable - 1) /\ Attempts(s) > 0
         /\ \A t \in Nat : IsFiniteSet(Earlier(s, t)) /\ Cardinality(Earlier(s, t)) \in Nat /\ Cardinality(Earlier(s, t)) <= Attempts(s)
<1>1. recent[s] \subseteq 0..(Stable - 1) /\ Stable \in Int
  BY StableAssumption DEF TypeOK
<1>2. IsFiniteSet(recent[s])
  <2>1. IsFiniteSet(0..(Stable - 1))
    BY <1>1, FS_Interval
  <2> QED
    BY <1>1, <2>1, FS_Subset
<1>3. Cardinality(recent[s]) \in Nat /\ (Cardinality(recent[s]) = 0 <=> recent[s] = {})
  BY <1>2, FS_CardinalityType, FS_EmptySet
<1>4. ASSUME NEW t \in Nat
      PROVE  IsFiniteSet(Earlier(s, t)) /\ Cardinality(Earlier(s, t)) \in Nat /\ Cardinality(Earlier(s, t)) <= Cardinality(recent[s])
  <2>1. Earlier(s, t) \in SUBSET recent[s]
    BY DEF Earlier
  <2> QED
    BY <1>2, <2>1, FS_Subset, FS_CardinalityType
<1> QED
  BY <1>1, <1>2, <1>3, <1>4 DEF Attempts

(* The clocks move and an attempt may be forgotten: no set of attempts grows. *)
LEMMA OlderNotMore ==
  ASSUME NEW A, IsFiniteSet(A), A \subseteq Nat, NEW B, B \subseteq {a + 1 : a \in A}
  PROVE  IsFiniteSet(B) /\ Cardinality(B) \in Nat /\ Cardinality(B) <= Cardinality(A)
<1> DEFINE back == [b \in B |-> b - 1]
<1>1. back \in [B -> A]
  OBVIOUS
<1>2. \A x, y \in B : back[x] = back[y] => x = y
  OBVIOUS
<1>3. back \in Injection(B, A)
  BY <1>1, <1>2 DEF Injection, IsInjective
<1> HIDE DEF back
<1> QED
  BY <1>3, FS_Injection, FS_CardinalityType

(* What no step of the kernel touches, and no step of a tick that looks at nothing. *)
LEMMA PaceAlone == ASSUME PaceInv, UNCHANGED <<pid, failures, age, wait, recent>>, todo' \subseteq todo PROVE PaceInv'
BY DEF PaceInv, NeverHammers, Earlier, Paced, PacedDown, PacedUp, Attempts

LEMMA WakeIsPaced == ASSUME ServiceInv, PaceInv, Wake PROVE PaceInv'
<1>1. TypeOK /\ TypeOK' /\ todo = {} /\ todo' = {} /\ UNCHANGED <<pid, failures>>
  BY WakeKeeps DEF ServiceInv, ToStart, Wake
<1>2. ASSUME NEW s \in Services
      PROVE  /\ recent'[s] \subseteq {a + 1 : a \in recent[s]} /\ recent'[s] \subseteq 0..(Stable - 1)
             /\ age'[s] = (IF age[s] < Stable THEN age[s] + 1 ELSE Stable)
             /\ wait'[s] = (IF wait[s] > 0 THEN wait[s] - 1 ELSE 0)
             /\ age[s] \in Nat /\ wait[s] \in Nat /\ failures[s] \in Nat /\ Stable \in Nat
             /\ recent[s] \subseteq Nat
  BY <1>1, StableAssumption, BackoffAssumption DEF Wake, TypeOK
<1>3. ASSUME NEW s \in Services
      PROVE  Attempts(s)' \in Nat /\ Attempts(s)' <= Attempts(s) /\ Attempts(s) \in Nat
  BY <1>1, <1>2, <1>3, AttemptsCount, OlderNotMore DEF Attempts
<1>4. NeverHammers'
  <2> SUFFICES ASSUME NEW s \in Services, NEW t \in recent'[s], NEW u \in Earlier(s, t)'
               PROVE  u - t >= BackoffAfter(Cardinality(Earlier(s, t)') - 1)
    BY DEF NeverHammers
  <2>1. PICK a \in recent[s] : t = a + 1 /\ a \in Nat
    BY <1>2
  <2>2. PICK b \in recent[s] : u = b + 1 /\ b \in Nat /\ b > a
    BY <1>2, <2>1 DEF Earlier
  <2>3. b \in Earlier(s, a) /\ b - a >= BackoffAfter(Cardinality(Earlier(s, a)) - 1)
    BY <2>1, <2>2 DEF Earlier, PaceInv, NeverHammers
  <2>4. Earlier(s, t)' \subseteq {v + 1 : v \in Earlier(s, a)}
    <3> SUFFICES ASSUME NEW x \in Earlier(s, t)' PROVE \E v \in Earlier(s, a) : x = v + 1
      OBVIOUS
    <3>1. x \in recent'[s] /\ x > t
      BY DEF Earlier
    <3>2. PICK v \in recent[s] : x = v + 1 /\ v \in Nat
      BY <1>2, <3>1
    <3> QED
      BY <2>1, <3>1, <3>2 DEF Earlier
  <2>5. IsFiniteSet(Earlier(s, a)) /\ Cardinality(Earlier(s, a)) \in Nat /\ Earlier(s, a) \subseteq Nat
    BY <1>1, <1>2, <2>1, AttemptsCount DEF Earlier
  <2>6. /\ IsFiniteSet(Earlier(s, t)') /\ Cardinality(Earlier(s, t)') \in Nat
        /\ Cardinality(Earlier(s, t)') <= Cardinality(Earlier(s, a))
    BY <2>4, <2>5, OlderNotMore
  <2>7. Cardinality(Earlier(s, t)') > 0
    BY <2>6, FS_EmptySet
  <2>8. BackoffAfter(Cardinality(Earlier(s, t)') - 1) <= BackoffAfter(Cardinality(Earlier(s, a)) - 1)
        /\ BackoffAfter(Cardinality(Earlier(s, t)') - 1) \in Nat /\ BackoffAfter(Cardinality(Earlier(s, a)) - 1) \in Nat
    <3> DEFINE m == Cardinality(Earlier(s, t)') - 1
    <3> DEFINE n == Cardinality(Earlier(s, a)) - 1
    <3>1. m \in Nat /\ n \in Nat /\ m <= n
      BY <2>5, <2>6, <2>7
    <3> HIDE DEF m, n
    <3>2. BackoffAfter(m) <= BackoffAfter(n) /\ BackoffAfter(m) \in Nat /\ BackoffAfter(n) \in Nat
      BY <3>1, Slower
    <3> QED
      BY <3>2 DEF m, n
  <2> QED
    BY <2>1, <2>2, <2>3, <2>8
<1>5. ASSUME NEW s \in Services, pid[s] = NoPid PROVE PacedDown(s)'
  <2>1. failures'[s] >= AtMost(Attempts(s)')
    <3>1. AtMost(Attempts(s)') <= AtMost(Attempts(s)) /\ failures[s] >= AtMost(Attempts(s))
      BY <1>3, <1>5, FewerAsk DEF PaceInv, Paced, PacedDown
    <3>2. \A c \in Nat : AtMost(c) \in Int
      BY BackoffAssumption DEF AtMost
    <3> QED
      BY <1>1, <1>2, <1>3, <3>1, <3>2
  <2>2. ASSUME NEW t \in recent'[s] PROVE t + wait'[s] >= BackoffAfter(Attempts(s)' - 1)
    <3>1. PICK a \in recent[s] : t = a + 1 /\ a \in Nat
      BY <1>2
    <3>2. a + wait[s] >= BackoffAfter(Attempts(s) - 1)
      BY <1>5 DEF PaceInv, Paced, PacedDown
    <3>3. Attempts(s)' > 0
      BY <1>1, AttemptsCount, <2>2, OlderNotMore, FS_EmptySet, <1>2 DEF Attempts
    <3> DEFINE m == Attempts(s)' - 1
    <3> DEFINE n == Attempts(s) - 1
    <3>4. m \in Nat /\ n \in Nat /\ m <= n
      BY <1>3, <3>3
    <3> HIDE DEF m, n
    <3>5. BackoffAfter(m) <= BackoffAfter(n) /\ BackoffAfter(m) \in Nat /\ BackoffAfter(n) \in Nat
      BY <3>4, Slower
    <3>6. a + wait[s] >= BackoffAfter(n)
      BY <3>2 DEF n
    <3>7. t + wait'[s] >= BackoffAfter(m)
      BY <1>2, <3>1, <3>5, <3>6
    <3> QED
      BY <3>7 DEF m
  <2> QED
    BY <2>1, <2>2 DEF PacedDown
<1>6. ASSUME NEW s \in Services, pid[s] # NoPid PROVE PacedUp(s)'
  <2>1. failures'[s] >= AtMost(Attempts(s)' - 1)
    <3>1. AtMost(Attempts(s)' - 1) <= AtMost(Attempts(s) - 1)
      BY <1>3, BackoffAssumption DEF AtMost
    <3>2. \A c \in Int : AtMost(c) \in Int
      BY BackoffAssumption DEF AtMost
    <3> QED
      BY <1>1, <1>2, <1>3, <1>6, <3>1, <3>2 DEF PaceInv, Paced, PacedUp
  <2>2. \A t \in recent'[s] : t >= age'[s]
    <3> SUFFICES ASSUME NEW t \in recent'[s] PROVE t >= age'[s]
      OBVIOUS
    <3>1. PICK a \in recent[s] : t = a + 1 /\ a \in Nat
      BY <1>2
    <3>2. a >= age[s] /\ age[s] < Stable
      BY <1>2, <1>6, <3>1 DEF PaceInv, Paced, PacedUp
    <3> QED
      BY <1>2, <3>1, <3>2
  <2>3. age'[s] >= Stable => recent'[s] = {}
    <3> SUFFICES ASSUME age'[s] >= Stable, NEW t \in recent'[s] PROVE FALSE
      OBVIOUS
    <3>1. t >= age'[s]
      BY <2>2
    <3> QED
      BY <1>2, <3>1
  <2> QED
    BY <2>1, <2>2, <2>3 DEF PacedUp
<1> QED
  BY <1>1, <1>4, <1>5, <1>6 DEF PaceInv, Paced

LEMMA ReapIsPaced == ASSUME ServiceInv, PaceInv, NEW p \in Pids, Reap(p) PROVE PaceInv'
<1>1. CASE \A s \in Services : pid[s] # p
  BY <1>1, PaceAlone DEF Reap
<1>2. CASE \E s \in Services : pid[s] = p
  <2>1. PICK s \in Services : /\ pid[s] = p /\ pid' = [pid EXCEPT ![s] = NoPid]
                              /\ Failed(s, Forgiven(s))
    BY <1>2 DEF Reap
  <2>2. TypeOK /\ p # NoPid /\ todo' = {} /\ UNCHANGED <<age, recent>>
    BY PidsAssumption DEF ServiceInv, ToStart, Reap
  <2>3. PacedUp(s)
    BY <2>1, <2>2 DEF PaceInv, Paced
  <2>4. /\ wait'[s] = BackoffAfter(Forgiven(s)) /\ failures'[s] = OneMore(Forgiven(s))
        /\ pid'[s] = NoPid
    BY <2>1, <2>2 DEF Failed, TypeOK
  <2>5. PacedDown(s)'
    <3>1. CASE age[s] >= Stable
      <4>1. recent'[s] = {} /\ Attempts(s)' = 0
        BY <2>2, <2>3, <3>1, FS_EmptySet DEF PacedUp, Attempts
      <4>2. OneMore(0) >= AtMost(0)
        BY BackoffAssumption DEF OneMore, AtMost
      <4> QED
        BY <2>4, <3>1, <4>1, <4>2 DEF PacedDown, Forgiven
    <3>2. CASE ~(age[s] >= Stable)
      <4>1. Forgiven(s) = failures[s] /\ failures[s] \in 0..Len(Backoff)
        BY <2>2, <3>2 DEF Forgiven, TypeOK
      <4>2. CASE recent[s] = {}
        <5>1. Attempts(s)' = 0 /\ recent'[s] = {}
          BY <2>2, <4>2, FS_EmptySet DEF Attempts
        <5>2. OneMore(failures[s]) >= AtMost(0)
          BY <4>1, BackoffAssumption DEF OneMore, AtMost
        <5> QED
          BY <2>4, <4>1, <5>1, <5>2 DEF PacedDown
      <4>3. CASE recent[s] # {}
        <5> DEFINE c == Attempts(s) - 1
        <5>1. c \in Nat /\ Attempts(s) = c + 1 /\ Attempts(s)' = c + 1
          BY <2>2, <4>3, AttemptsCount DEF Attempts
        <5>2. failures[s] >= AtMost(c)
          BY <2>3 DEF PacedUp
        <5> HIDE DEF c
        <5>3. BackoffAfter(failures[s]) >= BackoffAfter(c) /\ OneMore(failures[s]) >= AtMost(c + 1)
          BY <4>1, <5>1, <5>2, EnoughFailures
        <5>4. BackoffAfter(c) \in Nat /\ BackoffAfter(failures[s]) \in Nat
          <6>1. failures[s] \in Nat
            BY <4>1, BackoffAssumption
          <6> QED
            BY <5>1, <6>1, DelayIsNat
        <5>5. \A t \in recent'[s] : t \in Nat
          BY <2>2, AttemptsCount
        <5>6. Attempts(s)' - 1 = c
          BY <5>1
        <5> QED
          BY <2>4, <4>1, <5>1, <5>3, <5>4, <5>5, <5>6 DEF PacedDown
      <4> QED
        BY <4>2, <4>3
    <3> QED
      BY <3>1, <3>2
  <2>6. ASSUME NEW r \in Services, r # s
        PROVE  (pid'[r] = NoPid => PacedDown(r)') /\ (pid'[r] # NoPid => PacedUp(r)')
    <3>1. pid'[r] = pid[r] /\ wait'[r] = wait[r] /\ failures'[r] = failures[r] /\ age'[r] = age[r] /\ recent'[r] = recent[r]
      BY <2>1, <2>2, <2>6 DEF Failed, TypeOK
    <3> QED
      BY <3>1 DEF PaceInv, Paced, PacedDown, PacedUp, Attempts
  <2>7. NeverHammers'
    BY <2>2 DEF PaceInv, NeverHammers, Earlier
  <2> QED
    BY <2>2, <2>4, <2>5, <2>6, <2>7 DEF PaceInv, Paced
<1> QED
  BY <1>1, <1>2

(* An attempt, of a service that has waited as long as it should. *)
LEMMA AttemptIsPaced ==
  ASSUME ServiceInv, PaceInv, NEW s \in Services, CannotStart(s) \/ \E p \in Pids : Start(s, p)
  PROVE  PaceInv'
<1>1. /\ TypeOK /\ TypeOK' /\ pid[s] = NoPid /\ wait[s] = 0 /\ s \in todo /\ todo' = todo \ {s}
      /\ recent' = [recent EXCEPT ![s] = @ \cup {0}]
  BY StartKeeps DEF ServiceInv, ToStart, PaceInv, Paced, CannotStart, Start, Attempt
<1>2. PacedDown(s)
  BY <1>1 DEF PaceInv, Paced
<1>3. recent'[s] = recent[s] \cup {0} /\ \A r \in Services \ {s} : recent'[r] = recent[r]
  BY <1>1 DEF TypeOK
<1>4. NeverHammers'
  <2> SUFFICES ASSUME NEW r \in Services, NEW t \in recent'[r], NEW u \in Earlier(r, t)'
               PROVE  u - t >= BackoffAfter(Cardinality(Earlier(r, t)') - 1)
    BY DEF NeverHammers
  <2>1. t \in Nat /\ u \in recent'[r] /\ u > t /\ u \in Nat
    <3>1. recent'[r] \subseteq 0..(Stable - 1)
      BY <1>1 DEF TypeOK
    <3>2. u \in recent'[r] /\ u > t
      BY DEF Earlier
    <3> QED
      BY <3>1, <3>2, StableAssumption
  <2>2. Earlier(r, t)' = Earlier(r, t)
    <3>1. \A v : v > t => v # 0
      BY <2>1
    <3> QED
      BY <1>3, <2>1, <3>1 DEF Earlier
  <2>3. CASE t \in recent[r]
    BY <2>2, <2>3 DEF PaceInv, NeverHammers
  <2>4. CASE t \notin recent[r]
    <3>1. r = s /\ t = 0 /\ u \in recent[s]
      BY <1>3, <2>1, <2>4
    <3>2. u + 0 >= BackoffAfter(Attempts(s) - 1)
      BY <1>1, <1>2, <3>1 DEF PacedDown
    <3> DEFINE m == Cardinality(Earlier(s, 0)) - 1
    <3> DEFINE n == Attempts(s) - 1
    <3>3. m \in Nat /\ n \in Nat /\ m <= n
      <4>1. /\ IsFiniteSet(Earlier(s, 0)) /\ Cardinality(Earlier(s, 0)) \in Nat /\ Attempts(s) \in Nat
            /\ Cardinality(Earlier(s, 0)) <= Attempts(s)
        BY <1>1, AttemptsCount
      <4>2. Cardinality(Earlier(s, 0)) # 0
        BY <4>1, <2>2, <3>1, FS_EmptySet
      <4> QED
        BY <4>1, <4>2
    <3> HIDE DEF m, n
    <3>4. BackoffAfter(m) <= BackoffAfter(n) /\ BackoffAfter(m) \in Nat /\ BackoffAfter(n) \in Nat
      BY <3>3, Slower
    <3>5. u >= BackoffAfter(n)
      BY <2>1, <3>2 DEF n
    <3>6. u - t >= BackoffAfter(m)
      BY <2>1, <3>1, <3>4, <3>5
    <3> QED
      BY <2>2, <3>1, <3>6 DEF m
  <2> QED
    BY <2>3, <2>4
<1>5. Attempts(s) \in Nat /\ Attempts(s)' \in Nat /\ Attempts(s)' <= Attempts(s) + 1 /\ Attempts(s)' > 0
  <2>1. IsFiniteSet(recent[s]) /\ Attempts(s) \in Nat
    BY <1>1, AttemptsCount
  <2>2. Attempts(s)' = IF 0 \in recent[s] THEN Attempts(s) ELSE Attempts(s) + 1
    BY <1>3, <2>1, FS_AddElement DEF Attempts
  <2>3. 0 \in recent[s] => Attempts(s) > 0
    BY <1>1, AttemptsCount
  <2> QED
    BY <2>1, <2>2, <2>3
<1>6. failures[s] \in 0..Len(Backoff) /\ failures[s] >= AtMost(Attempts(s)) /\ failures[s] >= AtMost(Attempts(s)' - 1)
  <2>1. AtMost(Attempts(s)' - 1) <= AtMost(Attempts(s))
    BY <1>5, FewerAsk
  <2>2. failures[s] \in 0..Len(Backoff) /\ failures[s] >= AtMost(Attempts(s)) /\ Len(Backoff) \in Nat
    BY <1>1, <1>2, BackoffAssumption DEF PacedDown, TypeOK
  <2>3. \A c \in Nat : AtMost(c) \in Int
    BY <2>2 DEF AtMost
  <2>4. Attempts(s)' - 1 \in Nat
    BY <1>5
  <2>5. AtMost(Attempts(s)' - 1) \in Int /\ AtMost(Attempts(s)) \in Int
    BY <1>5, <2>3, <2>4
  <2> QED
    BY <2>1, <2>2, <2>5
<1>7. ASSUME NEW r \in Services, r # s, UNCHANGED <<pid[r], wait[r], failures[r], age[r]>>
      PROVE  (pid'[r] = NoPid => PacedDown(r)') /\ (pid'[r] # NoPid => PacedUp(r)')
  BY <1>3, <1>7 DEF PaceInv, Paced, PacedDown, PacedUp, Attempts
<1>8. CASE CannotStart(s)
  <2>1. /\ wait'[s] = BackoffAfter(failures[s]) /\ failures'[s] = OneMore(failures[s]) /\ UNCHANGED <<pid, age>>
        /\ \A r \in Services \ {s} : wait'[r] = wait[r] /\ failures'[r] = failures[r]
    BY <1>1, <1>8 DEF CannotStart, Failed, TypeOK
  <2>2. PacedDown(s)'
    <3> DEFINE c == Attempts(s)' - 1
    <3>1. c \in Nat /\ Attempts(s)' = c + 1 /\ failures[s] >= AtMost(c)
      BY <1>5, <1>6
    <3> HIDE DEF c
    <3>2. BackoffAfter(failures[s]) >= BackoffAfter(c) /\ OneMore(failures[s]) >= AtMost(c + 1)
      BY <1>6, <3>1, EnoughFailures
    <3>3. BackoffAfter(c) \in Nat /\ BackoffAfter(failures[s]) \in Nat
      <4>1. failures[s] \in Nat
        BY <1>6, BackoffAssumption
      <4> QED
        BY <3>1, <4>1, DelayIsNat
    <3>4. \A t \in recent'[s] : t \in Nat
      BY <1>1, AttemptsCount, <1>3
    <3>5. Attempts(s)' - 1 = c
      BY <3>1
    <3> QED
      BY <2>1, <3>1, <3>2, <3>3, <3>4, <3>5 DEF PacedDown
  <2>3. \A r \in todo' : wait'[r] = 0
    BY <1>1, <2>1 DEF PaceInv, Paced, TypeOK
  <2>4. \A r \in Services \ {s} : (pid'[r] = NoPid => PacedDown(r)') /\ (pid'[r] # NoPid => PacedUp(r)')
    BY <1>7, <2>1
  <2> QED
    BY <1>1, <1>4, <2>1, <2>2, <2>3, <2>4 DEF PaceInv, Paced
<1>9. ASSUME NEW p \in Pids, Start(s, p) PROVE PaceInv'
  <2>1. /\ pid'[s] = p /\ p # NoPid /\ age'[s] = 0 /\ UNCHANGED <<failures, wait>>
        /\ \A r \in Services \ {s} : pid'[r] = pid[r] /\ age'[r] = age[r]
    BY <1>1, <1>9, PidsAssumption DEF Start, TypeOK
  <2>2. PacedUp(s)'
    <3>1. \A t \in recent'[s] : t >= 0
      BY <1>1, <1>3, AttemptsCount
    <3> QED
      BY <1>6, <2>1, <3>1, StableAssumption DEF PacedUp
  <2>3. \A r \in Services \ {s} : (pid'[r] = NoPid => PacedDown(r)') /\ (pid'[r] # NoPid => PacedUp(r)')
    BY <1>7, <2>1
  <2> QED
    BY <1>1, <1>4, <2>1, <2>2, <2>3 DEF PaceInv, Paced, TypeOK
<1> QED
  BY <1>8, <1>9

LEMMA PaceBegins == Init => PaceInv
<1> SUFFICES ASSUME Init PROVE PaceInv
  OBVIOUS
<1>1. todo = {} /\ \A s \in Services : recent[s] = {} /\ pid[s] = NoPid /\ failures[s] = 0
  BY DEF Init
<1>2. Cardinality({}) = 0 /\ AtMost(0) = 0
  BY FS_EmptySet, BackoffAssumption DEF AtMost
<1>3. \A s \in Services : PacedDown(s)
  BY <1>1, <1>2 DEF PacedDown, Attempts
<1>4. NeverHammers
  BY <1>1 DEF NeverHammers
<1> QED
  BY <1>1, <1>3, <1>4 DEF PaceInv, Paced

LEMMA PaceGoesOn == ServiceInv /\ PaceInv /\ [Next]_vars => PaceInv'
<1> SUFFICES ASSUME ServiceInv, PaceInv, [Next]_vars PROVE PaceInv'
  OBVIOUS
<1>1. CASE Wake
  BY <1>1, WakeIsPaced
<1>2. CASE Drained
  <2>1. UNCHANGED <<pid, failures, age, wait, recent>> /\ \A s \in todo' : wait'[s] = 0
    BY <1>2 DEF Drained, Due, state
  <2> QED
    BY <2>1 DEF PaceInv, NeverHammers, Earlier, Paced, PacedDown, PacedUp, Attempts
<1>3. CASE TickEnds \/ UNCHANGED vars
  BY <1>3, PaceAlone DEF TickEnds, vars, state
<1>4. ASSUME NEW p \in Pids, Exit(p) \/ Orphaned(p) PROVE PaceInv'
  BY <1>4, PaceAlone DEF Exit, Orphaned, state
<1> QED
  BY <1>1, <1>2, <1>3, <1>4, ReapIsPaced, AttemptIsPaced DEF Next, Tick

(* However a service fails, whatever the kernel numbers it and whoever else dies, and whatever the table of delays, as long
   as it goes up: an attempt waits as long as the table says after the attempts of the last Stable (supervise.rs,
   Supervisor::tick and backoff). *)
THEOREM FailuresAreSlowed == Spec => []NeverHammers
<1>1. PaceInv => NeverHammers
  BY DEF PaceInv
<1> QED
  BY <1>1, ServicesInvariance, PaceBegins, PaceGoesOn, PTL DEF Spec

-----------------------------------------------------------------------------
(* The stored configuration. *)

(* What a save has in hand: the stored document with the request's fields over it, and, once it is written whole, the
   same in the temporary file. *)
SaveInHand ==
  /\ saver = [at |-> saver.at, config |-> saver.config, wish |-> saver.wish]
  /\ ~Saver("rest") => \A f \in Fields \ DOMAIN saver.wish : saver.config[f] = file.is[f]
  /\ Saver("rename") => temp.whole /\ temp.is = saver.config

StoredInv == FileIsWhole /\ SaveInHand

LEMMA StoredBegins == ConfigurationInit => StoredInv
<1> SUFFICES ASSUME ConfigurationInit
             PROVE  StoredInv
  OBVIOUS
<1>1. file.whole \in {TRUE}
  BY DEF ConfigurationInit
<1>2. FileIsWhole
  BY <1>1, Zenon DEF FileIsWhole
<1>3. SaveInHand
  BY SMT DEF ConfigurationInit, SaveInHand, Saver, AtRest
<1> QED
  BY <1>2, <1>3 DEF StoredInv

(* Every step of a save, and a console that dies in the middle of one and is started again, leaves it as it is. *)
LEMMA StoredGoesOn == StoredInv /\ [Serve \/ Restarted]_configuration => StoredInv'
<1> SUFFICES ASSUME StoredInv, [Serve \/ Restarted]_configuration
             PROVE  StoredInv'
  OBVIOUS
<1> USE DEF StoredInv, FileIsWhole, SaveInHand, Saver
<1>1. CASE Save
  BY <1>1 DEF Save, Load, Patched
<1>2. CASE Apply
  BY <1>2 DEF Apply, Saves
<1>3. CASE Create
  BY <1>3 DEF Create, Saves, AtRest
<1>4. CASE Write
  BY <1>4 DEF Write, Saves, AtRest
<1>5. CASE Rename
  BY <1>5 DEF Rename, AtRest
<1>6. CASE Restarted
  BY <1>6 DEF Restarted, AtRest
<1>7. CASE UNCHANGED configuration
  BY <1>7 DEF configuration
<1> QED
  BY <1>1, <1>2, <1>3, <1>4, <1>5, <1>6, <1>7 DEF Serve, Serving

(* A step that puts another document in force is the rename, and changes nothing the request did not name. *)
LEMMA OnlyWhatWasAsked == StoredInv /\ [Serve \/ Restarted]_configuration => NothingElseChanges
<1> SUFFICES ASSUME StoredInv, [Serve \/ Restarted]_configuration, file' # file,
                    NEW f \in Fields \ DOMAIN saver.wish
             PROVE  file'.is[f] = file.is[f]
  BY DEF NothingElseChanges
<1>1. Rename
  BY DEF Serve, Serving, Save, Apply, Create, Write, Restarted, configuration
<1>2. file'.is = saver.config /\ ~Saver("rest")
  BY <1>1 DEF Rename, StoredInv, SaveInHand, Saver
<1> QED
  BY <1>2 DEF StoredInv, SaveInHand

-----------------------------------------------------------------------------
(* What is found, believed and written.  A round or an installation goes through the service's documents one by one; these
   say what it knows at each of them. *)
Acting  == {"ask", "track", "manifest", "signature", "held", "list", "store", "judge", "write"}
Judging == Acting \ {"ask", "track"}
Vouched(m, list) ==
  /\ m.certificate.root \in Roots /\ m.certificate.by = m.certificate.root /\ m.certificate.key = m.key
  /\ m.key \notin list.keys /\ m.release > OurRelease

(* A thread, wherever it is: the channel and the lists it goes by are those in force, what it stores is later than what is
   held, and what it writes it has been told to believe. *)
Thread(r) ==
  /\ ~Happens("settings") => /\ r.at \in Acting => r.channel = Tracked(file.is)
                             /\ r.at \in Judging => r.tracked = Tracked(file.is)
  /\ r.at = "write" => Vouched(r.manifest, r.list)
  /\ r.at = "store" => RootSigned(r.list)
  /\ ~Happens("together") =>
       /\ r.at = "list" => r.seen = held
       /\ r.at = "store" => Supersedes(r.list, held)
       /\ r.at \in {"judge", "write"} => NoEarlier(r.list, held)

(* What is held was signed by a root, and there is one thread at a time. *)
ListIsHeld == held = NoList \/ RootSigned(held)
OneAtATime ==
  /\ availability.status = "checking" <=> ~At("check", "rest")
  /\ At("check", "rest") \/ At("install", "rest")

UpdatesInv ==
  /\ \A w \in Workers : Thread(work[w])
  /\ ~Happens("together") => OneAtATime /\ ListIsHeld
  /\ ~Happens("settings") => saver = AtRest
  /\ ~At("check", "write")
  /\ WrittenWasVouchedFor /\ AnswerRestsOnAManifest

(* The threads' records, and the last answer, have their fields. *)
Filled ==
  /\ work = [w \in Workers |-> [f \in DOMAIN Resting |-> work[w][f]]]
  /\ availability = [status |-> availability.status, channel |-> availability.channel, offer |-> availability.offer]
  /\ service = [offer |-> service.offer, changes |-> service.changes] /\ service.offer \in Offers

KeptInv == StoredInv /\ Filled /\ UpdatesInv

LEMMA FieldsOfWork ==
  DOMAIN Resting = {"at", "channel", "tracked", "path", "manifest", "signature", "seen", "list", "install"}
BY DEF Resting

(* What Goes changes of a thread's record, and that it leaves the other alone. *)
LEMMA Gone ==
  ASSUME Filled, NEW w \in Workers, NEW change, Goes(w, change)
  PROVE  /\ work' = [v \in Workers |-> [f \in DOMAIN Resting |-> work'[v][f]]]
         /\ \A v \in Workers : v # w => work'[v] = work[v]
         /\ \A f \in DOMAIN Resting : work'[w][f] = IF f \in DOMAIN change THEN change[f] ELSE work[w][f]
<1>1. work' = [work EXCEPT ![w] = [f \in DOMAIN Resting |-> IF f \in DOMAIN change THEN change[f] ELSE work[w][f]]]
  BY DEF Goes
<1>2. DOMAIN work = Workers
  BY DEF Filled
<1> QED
  BY <1>1, <1>2 DEF Filled

LEMMA Rested ==
  ASSUME Filled, NEW w \in Workers, Rests(w)
  PROVE  /\ work' = [v \in Workers |-> [f \in DOMAIN Resting |-> work'[v][f]]]
         /\ \A v \in Workers : v # w => work'[v] = work[v]
         /\ work'[w] = Resting /\ work'[w].at = "rest"
BY DEF Rests, Filled, Resting

(* A thread's turn: everybody else's record, the documents and the lists stay, and what it knows then is in order. *)
Turn(w) ==
  /\ UNCHANGED <<faults, configuration, service, held>>
  /\ work' = [v \in Workers |-> [f \in DOMAIN Resting |-> work'[v][f]]]
  /\ \A v \in Workers : v # w => work'[v] = work[v]
  /\ Thread(work[w])'

LEMMA OthersKeep == ASSUME KeptInv, NEW w \in Workers, Turn(w) PROVE \A v \in Workers : Thread(work[v])'
<1> SUFFICES ASSUME NEW v \in Workers, v # w PROVE Thread(work[v])'
  BY DEF Turn
<1>1. Thread(work[v])
  BY DEF KeptInv, UpdatesInv
<1>2. work'[v] = work[v] /\ UNCHANGED <<faults, file, held>>
  BY DEF Turn, configuration
<1> QED
  BY <1>1, <1>2 DEF Thread, Vouched, Happens

(* It goes on to the next document. *)
LEMMA GoingOnKeeps ==
  ASSUME KeptInv, NEW w \in Workers, Turn(w), work[w].at # "rest", work'[w].at # "rest",
         work'[w].at = "write" => w = "install", UNCHANGED <<availability, written>>
  PROVE  KeptInv'
<1>1. UNCHANGED <<faults, file, temp, name, saver, service, held>>
  BY DEF Turn, configuration
<1>2. StoredInv' /\ Filled'
  BY <1>1 DEF KeptInv, StoredInv, FileIsWhole, SaveInHand, Saver, Filled, Turn
<1>3. \A v \in Workers : At(v, "rest")' <=> At(v, "rest")
  BY DEF Turn, At
<1>4. OneAtATime => OneAtATime'
  BY <1>3 DEF OneAtATime, Workers
<1>5. WrittenWasVouchedFor' /\ AnswerRestsOnAManifest'
  BY <1>1 DEF KeptInv, UpdatesInv, WrittenWasVouchedFor, AnswerRestsOnAManifest, Happens
<1>6. ~At("check", "write")'
  BY DEF KeptInv, UpdatesInv, At, Turn, Workers
<1> QED
  BY <1>1, <1>2, <1>4, <1>5, <1>6, OthersKeep DEF KeptInv, UpdatesInv, ListIsHeld, Happens

(* An answer to show, and a manifest to have written. *)
Shows(a) ==
  a.status \in {"up to date", "available"} /\ ~Happens("settings")
    => /\ a.offer # NoOffer /\ a.offer.channel = a.channel
       /\ (a.offer.release = OurRelease <=> a.status = "up to date")
Sound(x) ==
  /\ Vouched(x.manifest, x.list) /\ Target \in x.manifest.uki[Target].says

(* It is over, and what it found is shown. *)
LEMMA EndingKeeps ==
  ASSUME KeptInv, NEW w \in Workers, Turn(w), work[w].at # "rest", work'[w].at = "rest", written' = written,
         NEW found, Finds(w, found), Shows(found), found.status # "checking",
         found = [status |-> found.status, channel |-> found.channel, offer |-> found.offer]
  PROVE  KeptInv'
<1>1. UNCHANGED <<faults, file, temp, name, saver, service, held>>
  BY DEF Turn, configuration
<1>2. availability' = IF w = "check" THEN found ELSE availability
  BY DEF Finds
<1>3. StoredInv' /\ Filled'
  BY <1>1, <1>2 DEF KeptInv, StoredInv, FileIsWhole, SaveInHand, Saver, Filled, Turn
<1>4. OneAtATime => OneAtATime'
  <2>1. CASE w = "check"
    BY <1>2, <2>1 DEF OneAtATime, At, Turn, Workers
  <2>2. CASE w = "install"
    BY <1>2, <2>2 DEF OneAtATime, At, Turn, Workers
  <2> QED
    BY <2>1, <2>2 DEF Workers
<1>5. WrittenWasVouchedFor'
  BY <1>1 DEF KeptInv, UpdatesInv, WrittenWasVouchedFor, Happens
<1>6. AnswerRestsOnAManifest'
  BY <1>1, <1>2 DEF KeptInv, UpdatesInv, AnswerRestsOnAManifest, Shows, Happens
<1>7. ~At("check", "write")'
  BY DEF KeptInv, UpdatesInv, At, Turn, Workers
<1> QED
  BY <1>1, <1>3, <1>4, <1>5, <1>6, <1>7, OthersKeep DEF KeptInv, UpdatesInv, ListIsHeld, Happens

(* A thread at rest is in order. *)
LEMMA RestingIsInOrder == Thread(Resting) /\ Thread(Resting)'
BY DEF Thread, Resting, Acting, Judging

LEMMA FailingKeeps ==
  ASSUME KeptInv, NEW w \in Workers, work[w].at # "rest", NEW status, NEW m, Ends(w, status, m),
         status \notin {"checking", "up to date", "available"},
         UNCHANGED <<faults, configuration, service, held, written>>
  PROVE  KeptInv'
<1>1. Rests(w) /\ Finds(w, Answered(status, w, m))
  BY DEF Ends
<1>2. Turn(w) /\ work'[w].at = "rest"
  BY <1>1, Rested, RestingIsInOrder DEF Turn, KeptInv
<1> DEFINE found == Answered(status, w, m)
<1>3. found.status = status /\ found = [status |-> found.status, channel |-> found.channel, offer |-> found.offer]
  BY DEF Answered
<1>4. Shows(found)
  BY <1>3 DEF Shows
<1> HIDE DEF found
<1> QED
  BY <1>1, <1>2, <1>3, <1>4, EndingKeeps DEF found

(* What a change of a thread's record leaves of it. *)
LEMMA Changed ==
  ASSUME KeptInv, NEW w \in Workers, NEW change, Goes(w, change), change.at \in Acting, "at" \in DOMAIN change,
         UNCHANGED <<faults, configuration, service, held>>
  PROVE  /\ work'[w].at = change.at /\ work'[w].at # "rest"
         /\ \A f \in DOMAIN Resting : f \in DOMAIN change => work'[w][f] = change[f]
         /\ \A f \in DOMAIN Resting : f \notin DOMAIN change => work'[w][f] = work[w][f]
         /\ Thread(work[w])' => Turn(w)
BY Gone, FieldsOfWork DEF KeptInv, Turn, Acting

LEMMA ConfigurationTurns ==
  ASSUME KeptInv, NEW w \in Workers, LoadConfig(w) \/ AskFeed(w) \/ Track(w), UNCHANGED faults
  PROVE  KeptInv'
<1> USE DEF Rest, At
<1>t. Thread(work[w]) /\ UNCHANGED file
  BY DEF KeptInv, UpdatesInv, LoadConfig, AskFeed, Track, configuration
<1>1. CASE LoadConfig(w)
  <2>1. CASE Goes(w, [at |-> "ask", channel |-> Tracked(Load.is)]) /\ UNCHANGED <<availability, round>>
    <3>0. UNCHANGED <<faults, configuration, service, held>>
      BY <1>1 DEF LoadConfig
    <3>1. ASSUME NEW channel, Goes(w, [at |-> "ask", channel |-> channel])
          PROVE  work'[w].at = "ask" /\ work'[w].channel = channel /\ (Thread(work[w])' => Turn(w))
      BY <3>0, <3>1, Changed, FieldsOfWork DEF Acting
    <3>2. work'[w].at = "ask" /\ work'[w].channel = Tracked(file.is) /\ (Thread(work[w])' => Turn(w))
      BY <2>1, <3>1 DEF Load
    <3>3. Thread(work[w])'
      BY <1>t, <3>2 DEF Thread, Judging, Acting
    <3> QED
      BY <1>1, <2>1, <3>2, <3>3, GoingOnKeeps DEF LoadConfig
  <2>2. ASSUME NEW status \in {"not configured", "failed"}, Ends(w, status, NoOffer) PROVE KeptInv'
    BY <1>1, <2>2, FailingKeeps DEF LoadConfig
  <2> QED
    BY <1>1, <2>1, <2>2 DEF LoadConfig
<1>2. CASE AskFeed(w)
  <2>1. ASSUME NEW path, Goes(w, [at |-> "track", path |-> path]), UNCHANGED <<availability, round>> PROVE KeptInv'
    <3>1. work'[w].at = "track" /\ work'[w].channel = work[w].channel /\ (Thread(work[w])' => Turn(w))
      BY <1>2, <2>1, Changed, FieldsOfWork DEF AskFeed, Acting
    <3>2. Thread(work[w])'
      BY <1>2, <1>t, <3>1 DEF AskFeed, Thread, Judging, Acting, Happens
    <3> QED
      BY <1>2, <2>1, <3>1, <3>2, GoingOnKeeps DEF AskFeed
  <2> QED
    BY <1>2, <2>1, FailingKeeps DEF AskFeed, ComesToNothing
<1>3. CASE Track(w)
  <2>1. CASE Goes(w, [at |-> "manifest", tracked |-> Tracked(Load.is)]) /\ UNCHANGED <<availability, round>>
    <3>1. /\ work'[w].at = "manifest" /\ work'[w].tracked = Tracked(file.is) /\ work'[w].channel = work[w].channel
          /\ (Thread(work[w])' => Turn(w))
      BY <1>3, <2>1, Changed, FieldsOfWork DEF Track, Acting, Load
    <3>2. Thread(work[w])'
      BY <1>3, <1>t, <3>1 DEF Track, Thread, Judging, Acting, Happens
    <3> QED
      BY <1>3, <2>1, <3>1, <3>2, GoingOnKeeps DEF Track
  <2> QED
    BY <1>3, <2>1, FailingKeeps DEF Track, ComesToNothing
<1> QED
  BY <1>1, <1>2, <1>3

LEMMA DocumentTurns ==
  ASSUME KeptInv, NEW w \in Workers, FetchManifest(w) \/ FetchSignature(w), UNCHANGED faults
  PROVE  KeptInv'
<1> USE DEF Rest, At
<1>t. Thread(work[w]) /\ UNCHANGED file /\ work[w].at \in {"manifest", "signature"}
  BY DEF KeptInv, UpdatesInv, FetchManifest, FetchSignature, configuration
<1>1. ASSUME NEW next \in {"signature", "held"}, NEW what, NEW change,
             change \in {[at |-> next, manifest |-> what], [at |-> next, signature |-> what]},
             Goes(w, change), UNCHANGED <<availability, round>>
      PROVE  KeptInv'
  <2>1. /\ work'[w].at = next /\ work'[w].channel = work[w].channel /\ work'[w].tracked = work[w].tracked
        /\ (Thread(work[w])' => Turn(w))
    BY <1>1, Changed, FieldsOfWork DEF FetchManifest, FetchSignature, Acting
  <2>2. Thread(work[w])'
    BY <1>t, <2>1 DEF Thread, Judging, Acting, Happens
  <2> QED
    BY <1>t, <1>1, <2>1, <2>2, GoingOnKeeps DEF FetchManifest, FetchSignature
<1>2. CASE ComesToNothing(w)
  BY <1>t, <1>2, FailingKeeps DEF FetchManifest, FetchSignature, ComesToNothing
<1> QED
  BY <1>1, <1>2 DEF FetchManifest, FetchSignature

(* The list that is held, and the later one that is offered. *)
LEMMA ListTurns ==
  ASSUME KeptInv, NEW w \in Workers, ReadHeld(w) \/ FetchList(w), UNCHANGED faults
  PROVE  KeptInv'
<1> USE DEF Rest, At
<1>t. /\ Thread(work[w]) /\ UNCHANGED <<file, held>> /\ work[w].at \in {"held", "list"}
      /\ ~Happens("together") => ListIsHeld
  BY DEF KeptInv, UpdatesInv, ReadHeld, FetchList, configuration
<1>1. CASE ReadHeld(w)
  <2> DEFINE seen == IF RootSigned(held) THEN held ELSE NoList
  <2>1. Goes(w, [at |-> "list", seen |-> seen])
    BY <1>1 DEF ReadHeld
  <2>2. ListIsHeld => seen = held
    BY DEF ListIsHeld
  <2> HIDE DEF seen
  <2>3. /\ work'[w].at = "list" /\ work'[w].seen = seen
        /\ work'[w].channel = work[w].channel /\ work'[w].tracked = work[w].tracked /\ (Thread(work[w])' => Turn(w))
    BY <1>1, <2>1, Changed, FieldsOfWork DEF ReadHeld, Acting
  <2>4. Thread(work[w])'
    BY <1>t, <2>2, <2>3 DEF Thread, Judging, Acting, Happens
  <2> QED
    BY <1>1, <1>t, <2>3, <2>4, GoingOnKeeps DEF ReadHeld
<1>2. CASE FetchList(w)
  <2>1. ASSUME Replaces(Offered.list, work[w].seen), Goes(w, [at |-> "store", list |-> Offered.list])
        PROVE  KeptInv'
    <3>1. /\ work'[w].at = "store" /\ work'[w].list = Offered.list
          /\ work'[w].channel = work[w].channel /\ work'[w].tracked = work[w].tracked /\ (Thread(work[w])' => Turn(w))
      BY <1>2, <2>1, Changed, FieldsOfWork DEF FetchList, Acting
    <3>2. RootSigned(Offered.list) /\ Supersedes(Offered.list, work[w].seen)
      BY <2>1 DEF Replaces
    <3>3. RootSigned(work'[w].list) /\ (~Happens("together") => Supersedes(work'[w].list, held))
      BY <1>2, <1>t, <3>1, <3>2 DEF FetchList, Thread
    <3>4. work[w].at \in Judging
      BY <1>t DEF Judging, Acting
    <3>5. Thread(work[w])'
      BY <1>t, <3>1, <3>3, <3>4 DEF Thread, Judging, Acting, Happens, RootSigned, Supersedes
    <3> QED
      BY <1>2, <1>t, <3>1, <3>5, GoingOnKeeps DEF FetchList
  <2>2. ASSUME Goes(w, [at |-> "judge", list |-> work[w].seen]) PROVE KeptInv'
    <3>1. /\ work'[w].at = "judge" /\ work'[w].list = work[w].seen
          /\ work'[w].channel = work[w].channel /\ work'[w].tracked = work[w].tracked /\ (Thread(work[w])' => Turn(w))
      BY <1>2, <2>2, Changed, FieldsOfWork DEF FetchList, Acting
    <3>2. ~Happens("together") => work'[w].list = held
      BY <1>2, <1>t, <3>1 DEF FetchList, Thread
    <3>3. Thread(work[w])'
      BY <1>t, <3>1, <3>2 DEF Thread, NoEarlier, Judging, Acting, Happens
    <3> QED
      BY <1>2, <1>t, <3>1, <3>3, GoingOnKeeps DEF FetchList
  <2> QED
    BY <1>2, <2>1, <2>2 DEF FetchList
<1> QED
  BY <1>1, <1>2

(* What is stored takes the place of an earlier list. *)
LEMMA StoreTurn ==
  ASSUME KeptInv, NEW w \in Workers, StoreList(w), UNCHANGED faults
  PROVE  KeptInv' /\ CounterRises
<1> USE DEF Rest, At
<1>1. Goes(w, [at |-> "judge"]) /\ UNCHANGED <<faults, file, temp, name, saver, service, availability, written>> /\ work[w].at = "store"
  BY DEF StoreList, configuration
<1>2. /\ work' = [v \in Workers |-> [f \in DOMAIN Resting |-> work'[v][f]]]
      /\ \A v \in Workers : v # w => work'[v] = work[v]
      /\ work'[w].at = "judge" /\ work'[w].list = work[w].list
      /\ work'[w].channel = work[w].channel /\ work'[w].tracked = work[w].tracked
  BY <1>1, Gone, FieldsOfWork DEF KeptInv
<1>3. StoredInv' /\ Filled'
  BY <1>1, <1>2 DEF KeptInv, StoredInv, FileIsWhole, SaveInHand, Saver, Filled
<1>4. WrittenWasVouchedFor' /\ AnswerRestsOnAManifest'
  BY <1>1 DEF KeptInv, UpdatesInv, WrittenWasVouchedFor, AnswerRestsOnAManifest, Happens
<1>5. OneAtATime => OneAtATime'
  BY <1>1, <1>2 DEF OneAtATime, Workers
<1>6. /\ RootSigned(work[w].list) /\ (held' = held \/ held' = work[w].list)
      /\ ~Happens("together") => /\ Supersedes(work[w].list, held) /\ ListIsHeld /\ OneAtATime
                                 /\ \A v \in Workers : v # w => work[v].at = "rest"
  <2>1. Thread(work[w]) /\ (held' = held \/ held' = work[w].list)
    BY DEF KeptInv, UpdatesInv, StoreList
  <2>2. ~Happens("together") => OneAtATime /\ ListIsHeld
    BY DEF KeptInv, UpdatesInv
  <2>3. OneAtATime => \A v \in Workers : v # w => work[v].at = "rest"
    BY <1>1 DEF OneAtATime, Workers
  <2> QED
    BY <1>1, <2>1, <2>2, <2>3 DEF Thread
<1>7. \A v \in Workers : Thread(work[v])'
  <2> SUFFICES ASSUME NEW v \in Workers PROVE Thread(work[v])'
    OBVIOUS
  <2>1. Thread(work[v])
    BY DEF KeptInv, UpdatesInv
  <2>2. CASE v = w
    <3>1. ~Happens("together") => NoEarlier(work[w].list, held)'
      BY <1>1, <1>2, <1>6 DEF NoEarlier, RootSigned, Supersedes, Happens
    <3> QED
      BY <1>1, <1>2, <2>1, <2>2, <3>1 DEF Thread, NoEarlier, RootSigned, Supersedes, Judging, Acting, Happens
  <2>3. CASE v # w
    BY <1>1, <1>2, <1>6, <2>1, <2>3 DEF Thread, Vouched, Judging, Acting, Happens
  <2> QED
    BY <2>2, <2>3
<1>8. CounterRises /\ ~At("check", "write")'
  BY <1>2, <1>6 DEF CounterRises, KeptInv, UpdatesInv, Workers
<1>9. ~Happens("together") => ListIsHeld'
  BY <1>6 DEF ListIsHeld, RootSigned
<1>10. ~Happens("settings") => saver' = AtRest
  BY <1>1 DEF KeptInv, UpdatesInv
<1>11. faults' = faults
  BY <1>1
<1>12. ~Happens("together") => OneAtATime'
  BY <1>5, <1>6
<1> QED
  BY <1>3, <1>4, <1>7, <1>8, <1>9, <1>10, <1>11, <1>12 DEF KeptInv, UpdatesInv, Happens

(* What is believed was vouched for, whatever list it was held against, as long as that names what was known. *)
LEMMA BelievedIsVouched ==
  ASSUME NEW w \in Workers, Thread(work[w]), Believed(w), work[w].at = "judge", Newer(work[w].manifest)
  PROVE  Vouched(work[w].manifest, work[w].list)
BY DEF Believed, Verify, RootSigned, Newer, Thread, Vouched

(* No release is what stands for none. *)
LEMMA NoneIsNeither == ASSUME NEW m, m.release = OurRelease \/ m.release > OurRelease PROVE m # NoOffer
<1> SUFFICES ASSUME m = NoOffer PROVE FALSE
  OBVIOUS
<1>1. m.release = 0
  BY DEF NoOffer
<1>2. 0 = OurRelease \/ 0 > OurRelease
  BY <1>1
<1> HIDE DEF NoOffer
<1> QED
  BY <1>2, ReleaseAssumption

(* What becomes of it. *)
LEMMA JudgeTurn ==
  ASSUME KeptInv, NEW w \in Workers, Judge(w), UNCHANGED faults
  PROVE  KeptInv'
<1> DEFINE m == work[w].manifest
<1>1. /\ work[w].at = "judge" /\ Thread(work[w])
      /\ UNCHANGED <<faults, configuration, file, service, clock, held, written>>
  BY DEF Judge, Rest, At, KeptInv, UpdatesInv, configuration
<1>2. ASSUME Believed(w), Fits(m, work[w].tracked), Newer(m), w = "install", Goes(w, [at |-> "write"]),
             UNCHANGED <<availability, round>>
      PROVE  KeptInv'
  <2>1. /\ work'[w].at = "write" /\ work'[w].manifest = m /\ work'[w].list = work[w].list
        /\ work'[w].channel = work[w].channel /\ work'[w].tracked = work[w].tracked
        /\ Thread(work[w])' => Turn(w)
    BY <1>1, <1>2, Changed, FieldsOfWork DEF Acting
  <2>2. Vouched(m, work[w].list)
    BY <1>1, <1>2, BelievedIsVouched
  <2>3. Thread(work[w])'
    BY <1>1, <2>1, <2>2 DEF Thread, Vouched, Judging, Acting, Happens
  <2> QED
    BY <1>1, <1>2, <2>1, <2>3, GoingOnKeeps
<1>3. ASSUME NEW status \in {"available", "up to date"}, Believed(w), Fits(m, work[w].tracked), Ends(w, status, m),
             status = "available" => Newer(m), status = "up to date" => Same(m)
      PROVE  KeptInv'
  <2> DEFINE found == Answered(status, w, m)
  <2>1. Rests(w) /\ Finds(w, found)
    BY <1>3 DEF Ends
  <2>2. Turn(w) /\ work'[w].at = "rest"
    BY <1>1, <2>1, Rested, RestingIsInOrder DEF Turn, KeptInv
  <2>3. /\ found.status = status /\ found.offer = m /\ found.channel = work[w].channel
        /\ found = [status |-> found.status, channel |-> found.channel, offer |-> found.offer]
    BY DEF Answered
  <2> HIDE DEF found
  <2>4. ~Happens("settings") => m.channel = found.channel
    BY <1>1, <1>3, <2>3 DEF Fits, Thread, Judging, Acting
  <2>5. m # NoOffer /\ (m.release = OurRelease <=> status = "up to date")
    <3>1. m.release = OurRelease \/ m.release > OurRelease
      BY <1>3 DEF Newer, Same
    <3>3. m # NoOffer
      BY <3>1, NoneIsNeither
    <3>4. status = "available" => m.release # OurRelease
      BY <1>3, ReleaseAssumption DEF Newer
    <3> QED
      BY <1>3, <3>3, <3>4 DEF Same
  <2>6. Shows(found)
    BY <2>3, <2>4, <2>5 DEF Shows
  <2> QED
    BY <1>1, <1>3, <2>1, <2>2, <2>3, <2>6, EndingKeeps
<1>4. ASSUME NEW offer, Ends(w, "failed", offer) PROVE KeptInv'
  BY <1>1, <1>4, FailingKeeps
<1> QED
  BY <1>2, <1>3, <1>4 DEF Judge

(* A slot is written. *)
LEMMA WriteTurn ==
  ASSUME KeptInv, NEW w \in Workers, WriteSlot(w), UNCHANGED faults
  PROVE  KeptInv'
<1> DEFINE m == work[w].manifest
<1>1. /\ work[w].at = "write" /\ Thread(work[w]) /\ Rests(w)
      /\ UNCHANGED <<faults, configuration, file, temp, name, saver, service, held, availability>>
  BY DEF WriteSlot, Rest, At, KeptInv, UpdatesInv, configuration
<1>2. Turn(w) /\ work'[w].at = "rest"
  BY <1>1, Rested, RestingIsInOrder DEF Turn, KeptInv
<1>3. WrittenWasVouchedFor'
  <2> DEFINE x == [manifest |-> m, list |-> work[w].list, held |-> held]
  <2>1. written' = written \/ (written' = written \cup {x} /\ Belongs(m.uki[Target]))
    BY DEF WriteSlot
  <2>2. x.manifest = m /\ x.list = work[w].list /\ x.held = held
    OBVIOUS
  <2>3. Vouched(m, work[w].list) /\ (~Happens("together") => NoEarlier(work[w].list, held))
    BY <1>1 DEF Thread
  <2>4. WrittenWasVouchedFor /\ faults' = faults
    BY <1>1 DEF KeptInv, UpdatesInv
  <2> HIDE DEF x, m
  <2>5. /\ x.manifest.certificate.root \in Roots /\ x.manifest.certificate.by = x.manifest.certificate.root
        /\ x.manifest.certificate.key = x.manifest.key
        /\ x.manifest.key \notin x.list.keys /\ (~Happens("together") => NoEarlier(x.list, x.held))
        /\ x.manifest.release > OurRelease
    BY <2>2, <2>3 DEF Vouched
  <2>6. Belongs(m.uki[Target]) => Target \in x.manifest.uki[Target].says
    BY <2>2 DEF Belongs
  <2>7. \A old \in written' : old \in written \/ (old = x /\ Belongs(m.uki[Target]))
    BY <2>1
  <2> QED
    BY <2>4, <2>5, <2>6, <2>7 DEF WrittenWasVouchedFor, Happens
<1>4. StoredInv' /\ Filled' /\ AnswerRestsOnAManifest'
  BY <1>1, <1>2
  DEF KeptInv, UpdatesInv, StoredInv, FileIsWhole, SaveInHand, Saver, Filled, Turn, AnswerRestsOnAManifest, Happens
<1>5. ~At("check", "write")' /\ (OneAtATime => OneAtATime')
  BY <1>1, <1>2 DEF OneAtATime, At, Turn, Workers, KeptInv, UpdatesInv
<1> QED
  BY <1>1, <1>2, <1>3, <1>4, <1>5, OthersKeep DEF KeptInv, UpdatesInv, ListIsHeld, Happens

(* A check that begins. *)
LEMMA BeginningKeeps ==
  ASSUME KeptInv, Begins, Goes("check", [at |-> "load"]), At("install", "rest"),
         UNCHANGED <<faults, configuration, service, held, written>>
  PROVE  KeptInv'
<1> DEFINE c == "check"
<1>1. /\ availability' = [status |-> "checking", channel |-> availability.channel, offer |-> availability.offer]
      /\ UNCHANGED <<file, temp, name, saver>>
  BY DEF Begins, KeptInv, Filled, configuration
<1>2. /\ work' = [v \in Workers |-> [f \in DOMAIN Resting |-> work'[v][f]]]
      /\ work'["install"] = work["install"] /\ work'["check"].at = "load"
  BY Gone, FieldsOfWork DEF KeptInv, Workers
<1>3. StoredInv' /\ Filled' /\ WrittenWasVouchedFor' /\ AnswerRestsOnAManifest'
  BY <1>1, <1>2
  DEF KeptInv, UpdatesInv, StoredInv, FileIsWhole, SaveInHand, Saver, Filled, WrittenWasVouchedFor, AnswerRestsOnAManifest, Happens
<1>4. Turn("check")
  BY <1>2 DEF Turn, Thread, Judging, Acting, Workers
<1>5. ~At("check", "write")' /\ (~Happens("together") => OneAtATime')
  BY <1>1, <1>2, <1>4, OthersKeep DEF OneAtATime, At, Workers, KeptInv, UpdatesInv
<1> QED
  BY <1>1, <1>3, <1>4, <1>5, OthersKeep DEF KeptInv, UpdatesInv, ListIsHeld, Happens, Workers
(* An installation that begins. *)
LEMMA RequestKeeps == ASSUME KeptInv, Request, UNCHANGED faults PROVE KeptInv'
<1>1. /\ UNCHANGED <<faults, file, temp, name, saver, service, held, availability, written>>
      /\ UNCHANGED configuration /\ (~Happens("together") => availability.status # "checking")
  BY DEF Request, Rest, configuration
<1>2. PICK install \in BOOLEAN : Goes("install", [at |-> "load", install |-> install])
  BY DEF Request
<1>3. /\ work' = [v \in Workers |-> [f \in DOMAIN Resting |-> work'[v][f]]]
      /\ work'["check"] = work["check"] /\ work'["install"].at = "load"
  BY <1>2, Gone, FieldsOfWork DEF KeptInv, Workers
<1>4. StoredInv' /\ Filled' /\ WrittenWasVouchedFor' /\ AnswerRestsOnAManifest'
  BY <1>1, <1>3
  DEF KeptInv, UpdatesInv, StoredInv, FileIsWhole, SaveInHand, Saver, Filled, WrittenWasVouchedFor, AnswerRestsOnAManifest, Happens
<1>5. Turn("install")
  BY <1>1, <1>3 DEF Turn, Thread, Judging, Acting, Workers
<1>6. ~At("check", "write")' /\ (~Happens("together") => OneAtATime')
  BY <1>1, <1>3, <1>5 DEF OneAtATime, At, Workers, KeptInv, UpdatesInv
<1> QED
  BY <1>1, <1>4, <1>5, <1>6, OthersKeep DEF KeptInv, UpdatesInv, ListIsHeld, Happens, Workers

(* What is no thread's and no save's. *)
LEMMA LeftAlone ==
  ASSUME KeptInv, UNCHANGED <<faults, configuration, held, availability, work, written>>,
         UNCHANGED service \/ \E o \in Offers : service' = [offer |-> o, changes |-> service.changes + 1]
  PROVE  KeptInv'
<1>1. UNCHANGED <<file, temp, name, saver>>
  BY DEF configuration
<1>2. StoredInv' /\ Filled'
  BY <1>1 DEF KeptInv, StoredInv, FileIsWhole, SaveInHand, Saver, Filled
<1>3. \A w \in Workers : Thread(work[w])'
  BY <1>1 DEF KeptInv, UpdatesInv, Thread, Vouched, Happens
<1>4. WrittenWasVouchedFor' /\ AnswerRestsOnAManifest' /\ ~At("check", "write")' /\ (OneAtATime => OneAtATime')
  BY DEF KeptInv, UpdatesInv, WrittenWasVouchedFor, AnswerRestsOnAManifest, Happens, OneAtATime, At
<1> QED
  BY <1>1, <1>2, <1>3, <1>4 DEF KeptInv, UpdatesInv, ListIsHeld, Happens

(* plexosd dies. *)
LEMMA RestartKeeps == ASSUME KeptInv, Restart, UNCHANGED faults PROVE KeptInv'
<1>1. /\ UNCHANGED <<faults, file, temp, service, held, written>>
      /\ Restarted /\ saver' = AtRest /\ availability' = Nothing /\ work' = [w \in Workers |-> Resting]
  BY DEF Restart, Restarted
<1>2. StoredInv'
  BY <1>1, StoredGoesOn DEF KeptInv
<1>3. \A w \in Workers : Thread(work[w])'
  BY <1>1, RestingIsInOrder
<1>4. Filled' /\ WrittenWasVouchedFor' /\ AnswerRestsOnAManifest' /\ ~At("check", "write")' /\ OneAtATime'
  BY <1>1
  DEF KeptInv, UpdatesInv, WrittenWasVouchedFor, AnswerRestsOnAManifest, Happens, OneAtATime, At, Nothing, Resting, Workers, Filled
<1> QED
  BY <1>1, <1>2, <1>3, <1>4 DEF KeptInv, UpdatesInv, ListIsHeld, Happens

(* A step of a save, which only happens where settings are saved. *)
LEMMA SaveKeeps == ASSUME KeptInv, Serve, UNCHANGED <<faults, discovery>> PROVE KeptInv'
<1>1. StoredInv' /\ UNCHANGED <<faults, service, held, availability, work, written>>
  BY StoredGoesOn DEF KeptInv, discovery
<1>2. Happens("settings")
  BY SMT DEF KeptInv, UpdatesInv, Serve, Serving, Save, Apply, Create, Write, Rename, Saver, AtRest
<1>3. \A w \in Workers : Thread(work[w])'
  BY <1>1, <1>2 DEF KeptInv, UpdatesInv, Thread, Vouched, Happens
<1>4. Filled' /\ WrittenWasVouchedFor' /\ AnswerRestsOnAManifest' /\ ~At("check", "write")' /\ (OneAtATime => OneAtATime')
  BY <1>1 DEF KeptInv, UpdatesInv, WrittenWasVouchedFor, AnswerRestsOnAManifest, Happens, OneAtATime, At, Filled
<1> QED
  BY <1>1, <1>2, <1>3, <1>4 DEF KeptInv, UpdatesInv, ListIsHeld, Happens

LEMMA KeptBegins == ConfigurationInit /\ DiscoveryInit => KeptInv
<1> SUFFICES ASSUME ConfigurationInit, DiscoveryInit PROVE KeptInv
  OBVIOUS
<1>1. StoredInv /\ saver = AtRest
  BY StoredBegins DEF ConfigurationInit
<1>2. \A w \in Workers : Thread(work[w])
  BY RestingIsInOrder DEF DiscoveryInit
<1>3. held = NoList /\ written = {} /\ availability = Nothing /\ work = [w \in Workers |-> Resting]
  BY DEF DiscoveryInit
<1>4. Filled
  <2>1. service = [offer |-> service.offer, changes |-> service.changes] /\ service.offer \in Offers
    BY DEF DiscoveryInit
  <2> QED
    BY <1>3, <2>1 DEF Filled, Nothing, Resting
<1>5. WrittenWasVouchedFor /\ AnswerRestsOnAManifest /\ OneAtATime /\ ListIsHeld /\ ~At("check", "write")
  BY <1>3 DEF WrittenWasVouchedFor, AnswerRestsOnAManifest, OneAtATime, ListIsHeld, Nothing, Resting, Workers, At
<1> QED
  BY <1>1, <1>2, <1>4, <1>5 DEF KeptInv, UpdatesInv
(* The whole of a step. *)
LEMMA KeptGoesOn ==
  ASSUME KeptInv, DiscoveryNext, UNCHANGED faults
  PROVE  KeptInv' /\ CounterRises /\ NothingElseChanges
<1>1. CASE DayPasses \/ TimePasses \/ Republish
  <2>1. UNCHANGED <<faults, configuration, held, availability, work, written>>
    BY <1>1 DEF DayPasses, TimePasses, Republish, Rest
  <2>2. UNCHANGED service \/ \E o \in Offers : service' = [offer |-> o, changes |-> service.changes + 1]
    BY <1>1 DEF DayPasses, TimePasses, Republish, Rest
  <2> QED
    BY <2>1, <2>2, LeftAlone DEF CounterRises, NothingElseChanges, configuration
<1>2. CASE Round \/ Button
  <2>1. UNCHANGED <<faults, configuration, service, held, written>>
    BY <1>2 DEF Round, Button, Rest
  <2>2. CASE UNCHANGED <<availability, work>>
    BY <2>1, <2>2, LeftAlone DEF CounterRises, NothingElseChanges, configuration
  <2>3. CASE Begins /\ Goes("check", [at |-> "load"]) /\ At("install", "rest")
    BY <2>1, <2>3, BeginningKeeps DEF CounterRises, NothingElseChanges, configuration
  <2> QED
    BY <1>2, <2>2, <2>3 DEF Round, Button, Skips
<1>3. CASE Request
  <2>1. UNCHANGED <<held, file>>
    BY <1>3 DEF Request, Rest, configuration
  <2> QED
    BY <1>3, <2>1, RequestKeeps DEF CounterRises, NothingElseChanges
<1>4. CASE Restart
  <2>1. UNCHANGED <<held, file>>
    BY <1>4 DEF Restart, Restarted
  <2> QED
    BY <1>4, <2>1, RestartKeeps DEF CounterRises, NothingElseChanges
<1>5. CASE Serve /\ UNCHANGED discovery
  <2>1. UNCHANGED held
    BY <1>5 DEF discovery
  <2>2. NothingElseChanges
    BY <1>5, OnlyWhatWasAsked DEF KeptInv
  <2> QED
    BY <1>5, <2>1, <2>2, SaveKeeps DEF CounterRises
<1>6. ASSUME NEW w \in Workers, Work(w) PROVE KeptInv' /\ CounterRises /\ NothingElseChanges
  <2>1. UNCHANGED file
    BY <1>6 DEF Work, LoadConfig, AskFeed, Track, FetchManifest, FetchSignature, ReadHeld, FetchList, StoreList, Judge,
                WriteSlot, Rest, configuration
  <2>2. KeptInv' /\ CounterRises
    <3>1. CASE StoreList(w)
      BY <3>1, StoreTurn
    <3>2. CASE ~StoreList(w)
      <4>1. UNCHANGED held
        BY <1>6, <3>2 DEF Work, LoadConfig, AskFeed, Track, FetchManifest, FetchSignature, ReadHeld, FetchList, Judge, WriteSlot
      <4> QED
        BY <1>6, <3>2, <4>1, ConfigurationTurns, DocumentTurns, ListTurns, JudgeTurn, WriteTurn DEF Work, CounterRises
    <3> QED
      BY <3>1, <3>2
  <2> QED
    BY <2>1, <2>2 DEF NothingElseChanges
<1> QED
  BY <1>1, <1>2, <1>3, <1>4, <1>5, <1>6 DEF DiscoveryNext

-----------------------------------------------------------------------------
(* PID 1 in the initrd. *)

(* From the command line on, PID 1 goes by arguments that say enough. *)
BootInv == (phase \notin {"off", "args", "panic"} => Told) /\ RunsWhatWasSigned

LEMMA BootBegins == BootInit => BootInv
BY DEF BootInit, BootInv, RunsWhatWasSigned

(* The mount is the only way past it, and nothing after it, until the next boot, chooses either half again. *)
LEMMA BootGoesOn == BootInv /\ [BootNext]_boot => BootInv'
<1> SUFFICES ASSUME BootInv, [BootNext]_boot PROVE BootInv'
  OBVIOUS
<1> USE DEF BootInv, RunsWhatWasSigned, taken, plan
<1>1. CASE ParseArgs
  <2>1. CASE phase' = "panic"
    BY <2>1
  <2>2. ASSUME NEW cmdline \in CommandLines, ParsesArgs(cmdline), phase' = "decide", args' = BootArgs(cmdline)
        PROVE  BootInv'
    BY <2>2 DEF ParsesArgs, BootArgs, Told
  <2> QED
    BY <1>1, <2>1, <2>2 DEF ParseArgs
<1>2. CASE PowerOn \/ GoDown \/ StepFails
  BY <1>2 DEF PowerOn, GoDown, StepFails
<1>3. CASE DecideState \/ Ask \/ MountPseudo
  BY <1>3 DEF DecideState, Ask, MountPseudo, Told
<1>4. CASE ResolveData \/ ResolveHash \/ Timeout
  BY <1>4 DEF ResolveData, ResolveHash, Timeout, Told
<1>5. CASE ReadSuperblock \/ CreateVerity
  BY <1>5 DEF ReadSuperblock, CreateVerity, Told
<1>6. CASE MountUsr
  BY <1>6 DEF MountUsr, Told
<1>7. CASE MountVar \/ ApplyState
  BY <1>7 DEF MountVar, ApplyState, Told
<1>8. CASE WriteStamp \/ SwitchRoot
  BY <1>8 DEF WriteStamp, SwitchRoot, Told
<1>9. ASSUME NEW d \in Disks, Enumerate(d) PROVE BootInv'
  BY <1>9 DEF Enumerate, Told
<1>10. CASE UNCHANGED boot
  BY <1>10 DEF boot, Told
<1> QED
  BY <1>1, <1>2, <1>3, <1>4, <1>5, <1>6, <1>7, <1>8, <1>9, <1>10 DEF BootNext, BootStep

-----------------------------------------------------------------------------
(* A start of Plex. *)

(* Wherever the rules were made: what they leave closed, what they open, and that every node somebody can open has its
   own. *)
Writable == {"/proc", "/dev", "data", "transcode", "dri"} \cup NvidiaNodes
Ruled(rules) ==
  /\ \A g \in rules : g.path # "elsewhere" /\ ("write" \in g.rights => g.path \in Writable)
  /\ Grant("media", ReadOnly, FALSE) \in rules /\ Grant("image", ReadExecute, TRUE) \in rules
  /\ Grant("data", ReadWrite \cup {"execute"}, TRUE) \in rules /\ Grant("transcode", ReadWrite, TRUE) \in rules
  /\ Grant("/proc", ReadOnly \cup {"write", "truncate"}, TRUE) \in rules
  /\ \A d \in NvidiaNodes : node[d] # "none" => Grant(d, OnDevices, FALSE) \in rules
  /\ node[Caps] # "none" => Grant(Caps, {"read", "list", "ioctl"}, FALSE) \in rules
  /\ (\E d \in RenderNodes : node[d] = "open") => Grant("dri", {"read", "write", "list", "ioctl"}, FALSE) \in rules

(* How far the child and what it stands on are, at each place of a start. *)
Along ==
  /\ at # 0 => Over
  /\ at >= 2 => "media" \in dirs.there
  /\ at >= 5 => dirs.given = {"data", "transcode"} /\ {"data", "transcode"} \subseteq dirs.there
  /\ at >= 6 => (linux.controllers = Controllers => group.bounds = Controllers)
  /\ at >= 8 => child.within
  /\ at >= 9 => Handled # {} /\ Ruled(child.rules)
  /\ at >= 10 => child.enforced
  /\ at >= 11 => child.uid = "plex" /\ child.groups = "none"

(* The files of an account, where the disk can be written. *)
FilesAreWhole ==
  /\ owed => server.kept = "token" /\ server.prefs # "anonymous"
  /\ at \in 3..11 => server.prefs # "empty" /\ (owed => server.prefs = "token")
  /\ at \in 4..11 => ~server.pid

ChildIsShaped ==
  child = [within |-> child.within, rules |-> child.rules, enforced |-> child.enforced, uid |-> child.uid, groups |-> child.groups]

LaunchInv == GraphicsTypeOK /\ LaunchTypeOK /\ ChildIsShaped /\ Along /\ (~Happens("disk") => FilesAreWhole)

LEMMA WhereItIs ==
  ASSUME LaunchTypeOK
  PROVE  /\ Len(Places) = 12 /\ at \in 0..12
         /\ (Reached("nodes") <=> at = 1) /\ (Reached("preferences") <=> at = 2) /\ (Reached("pidfile") <=> at = 3)
         /\ (Reached("directories") <=> at = 4) /\ (Reached("group") <=> at = 5) /\ (Reached("fork") <=> at = 6)
         /\ (Reached("join") <=> at = 7) /\ (Reached("rules") <=> at = 8) /\ (Reached("enforce") <=> at = 9)
         /\ (Reached("drop") <=> at = 10) /\ (Reached("exec") <=> at = 11) /\ (PlexRuns <=> at = 12)
<1>1. Len(Places) = 12 /\ at \in 0..12
  BY DEF Places, LaunchTypeOK
<1> QED
  BY <1>1 DEF Places, Reached, PlexRuns

LEMMA StagesAre ==
  /\ DOMAIN Stages = 1..7 /\ Len(Stages) = 7 /\ DOMAIN Modules = 1..4
  /\ \A i \in 1..7 : Stages[i] = "over" <=> i = 7
  /\ \A i \in 1..7 : Stages[i] = "nodes" <=> i = 5
  /\ \A i \in 1..7 : Stages[i] = "caps" <=> i = 6
  /\ \A i \in 1..4 : Stages[i] = Modules[i]
BY DEF Stages, Modules

(* While PID 1 is at it, no start of Plex has begun; what is bound later brings a node nobody but root can open. *)
LEMMA GraphicsKeeps == ASSUME LaunchInv, GraphicsStep, UNCHANGED faults PROVE LaunchInv'
<1>1. /\ UNCHANGED <<linux, at, server, owed, dirs, group, child, cuts, cards, stack>>
      /\ LaunchTypeOK /\ GraphicsTypeOK /\ LaunchTypeOK'
  BY DEF LaunchInv, GraphicsStep, launch, Bind, BringUpStep, NoCard, LoadModule, CannotLoad, MakeNodes, MakeCaps, LaunchTypeOK
<1>2. (~Happens("disk") => FilesAreWhole)'
  BY <1>1 DEF FilesAreWhole, LaunchInv, Happens
<1>3. ChildIsShaped'
  BY <1>1 DEF ChildIsShaped, LaunchInv
<1>4. CASE Bind
  <2>1. bringUp' = bringUp /\ node' = [node EXCEPT !["renderD128"] = "root"] /\ loaded' = loaded \cup {"i915"}
    BY <1>4 DEF Bind, Rendering, RenderNode
  <2>2. GraphicsTypeOK'
    BY <1>1, <2>1 DEF GraphicsTypeOK, Devices, RenderNode
  <2>3. Ruled(child.rules) => Ruled(child.rules)'
    <3>1. \A d \in Devices : node'[d] = IF d = "renderD128" THEN "root" ELSE node[d]
      BY <1>1, <2>1 DEF GraphicsTypeOK
    <3>2. NvidiaNodes \subseteq Devices /\ Caps \in Devices /\ RenderNodes \subseteq Devices
          /\ "renderD128" \notin NvidiaNodes \cup {Caps}
      BY DEF NvidiaNodes, Devices, Required, RenderNodes, Caps
    <3>3. \A d \in RenderNodes : node'[d] = "open" => node[d] = "open"
      BY <3>1, <3>2
    <3>4. \A d \in NvidiaNodes \cup {Caps} : node'[d] = node[d]
      BY <3>1, <3>2
    <3> QED
      BY <1>1, <3>3, <3>4 DEF Ruled
  <2>4. Along'
    BY <1>1, <2>1, <2>3 DEF LaunchInv, Along, Over, Stage, Handled
  <2> QED
    BY <1>2, <1>3, <2>2, <2>4, <1>1 DEF LaunchInv
<1>5. CASE BringUpStep
  <2>0. bringUp \in 1..7 /\ (at # 0 => bringUp = 7)
    BY <1>1, StagesAre DEF GraphicsTypeOK, LaunchInv, Along, Over, Stage
  <2>1. bringUp \in 1..6 /\ bringUp' \in 1..7 /\ at = 0
    <3>1. CASE NoCard
      BY <2>0, <3>1, StagesAre DEF NoCard
    <3>2. CASE LoadModule \/ CannotLoad
      BY <2>0, <3>2, StagesAre DEF LoadModule, CannotLoad, IsModule, GoOn
    <3>3. CASE MakeNodes \/ MakeCaps
      BY <2>0, <3>3, StagesAre DEF MakeNodes, MakeCaps, Stage, GoOn
    <3> QED
      BY <1>5, <3>1, <3>2, <3>3 DEF BringUpStep
  <2>2. loaded' \subseteq {"i915"} \cup {Modules[i] : i \in DOMAIN Modules}
    <3>1. CASE LoadModule
      <4>1. bringUp \in DOMAIN Modules /\ Stage = Modules[bringUp]
        BY <2>0, <3>1, StagesAre DEF LoadModule, IsModule, Stage
      <4>2. loaded' = loaded \cup {Stage}
        BY <3>1 DEF LoadModule, Rendering
      <4> QED
        BY <1>1, <4>1, <4>2 DEF GraphicsTypeOK
    <3> QED
      BY <1>1, <1>5, <3>1 DEF GraphicsTypeOK, BringUpStep, NoCard, CannotLoad, MakeNodes, MakeCaps
  <2>3. node' \in [Devices -> {"none", "root", "open"}]
    <3>1. CASE LoadModule
      BY <1>1, <3>1 DEF LoadModule, Rendering, GraphicsTypeOK, Devices, RenderNode
    <3>2. CASE NoCard \/ CannotLoad
      BY <1>1, <3>2 DEF NoCard, CannotLoad, GraphicsTypeOK
    <3>3. ASSUME NEW wanted, Made(wanted) PROVE node' \in [Devices -> {"none", "root", "open"}]
      BY <1>1, <3>3 DEF Made, MakeNode, GraphicsTypeOK
    <3> QED
      BY <1>1, <1>5, <3>1, <3>2, <3>3 DEF BringUpStep, MakeNodes, MakeCaps, GraphicsTypeOK
  <2>4. GraphicsTypeOK'
    BY <1>1, <2>1, <2>2, <2>3, StagesAre DEF GraphicsTypeOK
  <2>5. Along'
    BY <1>1, <2>1 DEF Along
  <2> QED
    BY <1>1, <1>2, <1>3, <2>4, <2>5 DEF LaunchInv
<1> QED
  BY <1>4, <1>5 DEF GraphicsStep

(* What the state must be of, apart from the place. *)
ServerTyped == server \in [prefs : {"absent", "empty", "token", "anonymous"}, kept : {"none", "token"}, pid : BOOLEAN]
DirsTyped == dirs \in [there : SUBSET {"media", "data", "transcode"}, given : SUBSET {"data", "transcode"}]
GroupTyped == group \in [made : BOOLEAN, bounds : SUBSET Controllers]

LEMMA NobodyIsTyped == Nobody.within = FALSE /\ Nobody.enforced = FALSE /\ Nobody.uid = "root" /\ Len(Places) = 12
BY DEF Nobody, Places

LEMMA TypedAtTheEnds ==
  ASSUME linux' \in Kernels, owed' \in BOOLEAN, cuts' \in 0..MaxCuts, ServerTyped', DirsTyped', GroupTyped',
         at' \in {0, 1}, child' = Nobody
  PROVE  LaunchTypeOK'
<1>1. at' \in 0..Len(Places)
  BY NobodyIsTyped
<1>2. child'.within \in BOOLEAN /\ child'.enforced \in BOOLEAN /\ child'.uid \in {"root", "plex"}
  BY NobodyIsTyped
<1> QED
  BY <1>1, <1>2, Zenon DEF LaunchTypeOK, ServerTyped, DirsTyped, GroupTyped

LEMMA LaunchBegins == GraphicsInit /\ LaunchInit => LaunchInv
<1> SUFFICES ASSUME GraphicsInit, LaunchInit PROVE LaunchInv
  OBVIOUS
<1>1. GraphicsTypeOK
  <2>1. stack \in Stacks
    BY StacksAssumption, Zenon DEF GraphicsInit
  <2>2. cards \subseteq Vendors
    BY Zenon DEF GraphicsInit
  <2>3. bringUp \in DOMAIN Stages /\ loaded = {} /\ node \in [Devices -> {"none", "root", "open"}]
    BY StagesAre DEF GraphicsInit
  <2> QED
    BY <2>1, <2>2, <2>3 DEF GraphicsTypeOK
<1>2. LaunchTypeOK
  <2>1. linux \in Kernels
    BY LaunchAssumption DEF LaunchInit
  <2>2. at = 0 /\ cuts = 0 /\ owed = FALSE /\ Len(Places) = 12 /\ MaxCuts \in Nat
    BY LaunchAssumption DEF LaunchInit, Places
  <2>3. ServerTyped /\ DirsTyped /\ GroupTyped /\ child = Nobody
    BY DEF LaunchInit, ServerTyped, DirsTyped, GroupTyped
  <2>4. child.within \in BOOLEAN /\ child.enforced \in BOOLEAN /\ child.uid \in {"root", "plex"}
    BY <2>3, NobodyIsTyped
  <2>5. at \in 0..Len(Places) /\ cuts \in 0..MaxCuts
    <3> HIDE DEF Places
    <3> QED
      BY <2>2
  <2>6. owed \in BOOLEAN
    BY <2>2, Zenon
  <2> QED
    BY <2>1, <2>3, <2>4, <2>5, <2>6, Zenon DEF LaunchTypeOK, ServerTyped, DirsTyped, GroupTyped
<1>3. at = 0 /\ owed = FALSE /\ ChildIsShaped
  BY DEF LaunchInit, ChildIsShaped, Nobody
<1> QED
  BY <1>1, <1>2, <1>3 DEF LaunchInv, Along, FilesAreWhole

(* An error, a stop or a death ends a start. *)
LEMMA EndOfStart ==
  ASSUME LaunchInv, at' = 0, child' = Nobody, UNCHANGED linux, cuts' \in 0..MaxCuts, owed' \in BOOLEAN,
         ServerTyped', DirsTyped', GroupTyped', GraphicsTypeOK', ~Happens("disk") => (owed' => server'.kept = "token" /\ server'.prefs # "anonymous"), UNCHANGED faults
  PROVE  LaunchInv'
<1>1. linux' \in Kernels
  BY DEF LaunchInv, LaunchTypeOK
<1>2. LaunchTypeOK'
  BY <1>1, TypedAtTheEnds
<1> QED
  BY <1>2 DEF LaunchInv, Along, ChildIsShaped, Nobody, FilesAreWhole, Happens

(* A step that goes further and changes no node. *)
LEMMA Onward ==
  ASSUME LaunchInv, Further, at # 0, at # 12, UNCHANGED <<linux, cuts, owed, graphics>>, UNCHANGED faults
  PROVE  /\ at' \in 0..12 /\ at \in 1..11 /\ at' = at + 1 /\ GraphicsTypeOK' /\ (Over /\ Over') /\ Handled' = Handled
         /\ \A rules : Ruled(rules) => Ruled(rules)'
         /\ server' \in [prefs : {"absent", "empty", "token", "anonymous"}, kept : {"none", "token"}, pid : BOOLEAN]
            /\ dirs' \in [there : SUBSET {"media", "data", "transcode"}, given : SUBSET {"data", "transcode"}]
            /\ group' \in [made : BOOLEAN, bounds : SUBSET Controllers]
            /\ child'.within \in BOOLEAN /\ child'.enforced \in BOOLEAN /\ child'.uid \in {"root", "plex"}
            => LaunchTypeOK'
<1>1. at \in 1..11 /\ at' = at + 1 /\ Len(Places) = 12
  BY WhereItIs DEF LaunchInv, Further
<1>2. UNCHANGED <<cards, stack, bringUp, loaded, node>>
  BY DEF graphics
<1>3. GraphicsTypeOK' /\ Over /\ Over'
  BY <1>1, <1>2 DEF LaunchInv, GraphicsTypeOK, Along, Over, Stage
<1>4. Handled' = Handled
  BY DEF Handled
<1>5. \A rules : Ruled(rules) => Ruled(rules)'
  BY <1>2 DEF Ruled
<1>6. LaunchTypeOK
  BY DEF LaunchInv
<1> QED
  BY <1>1, <1>3, <1>4, <1>5, <1>6 DEF LaunchTypeOK

(* plexosd's part of a start. *)
LEMMA PrepareKeeps == ASSUME LaunchInv, Prepare, UNCHANGED faults PROVE LaunchInv'
<1> USE WhereItIs DEF LaunchInv
<1>1. CASE Begin
  <2>1. at = 0 /\ at' = 1 /\ Over /\ child' = Nobody /\ UNCHANGED <<linux, server, owed, dirs, group, cuts, graphics>>
    BY <1>1 DEF Begin, Further
  <2>2. LaunchTypeOK'
    <3>1. linux' \in Kernels /\ owed' \in BOOLEAN /\ cuts' \in 0..MaxCuts /\ (ServerTyped /\ DirsTyped /\ GroupTyped)'
      BY <2>1 DEF LaunchTypeOK, ServerTyped, DirsTyped, GroupTyped
    <3> QED
      BY <2>1, <3>1, TypedAtTheEnds
  <2>3. GraphicsTypeOK' /\ Over'
    BY <2>1 DEF graphics, GraphicsTypeOK, Over, Stage
  <2> QED
    BY <2>1, <2>2, <2>3 DEF Along, ChildIsShaped, Nobody, FilesAreWhole, Happens
<1>2. CASE PrepareNodes
  <2>1. at = 1 /\ UNCHANGED <<linux, server, owed, group, cuts, cards, stack, bringUp, loaded>>
    BY <1>2 DEF PrepareNodes
  <2>2. GraphicsTypeOK' /\ Over'
    <3>1. node' \in [Devices -> {"none", "root", "open"}]
      BY <1>2 DEF PrepareNodes, GraphicsTypeOK
    <3> QED
      BY <2>1, <3>1 DEF GraphicsTypeOK, Over, Stage, Along
  <2>3. CASE at' = 2 /\ dirs' = [dirs EXCEPT !.there = @ \cup {"media"}] /\ UNCHANGED child
    <3>0. dirs' \in [there : SUBSET {"media", "data", "transcode"}, given : SUBSET {"data", "transcode"}] /\ "media" \in dirs'.there
      BY <2>3 DEF LaunchTypeOK
    <3>1. LaunchTypeOK' /\ "media" \in dirs'.there
      BY <2>1, <2>3, <3>0 DEF LaunchTypeOK
    <3> QED
      BY <2>1, <2>2, <2>3, <3>1 DEF Along, ChildIsShaped, FilesAreWhole, Happens
  <2>4. CASE at' = 0 /\ child' = Nobody /\ UNCHANGED dirs
    <3>1. owed' \in BOOLEAN /\ cuts' \in 0..MaxCuts /\ (ServerTyped /\ DirsTyped /\ GroupTyped)'
      BY <2>1, <2>4 DEF LaunchTypeOK, ServerTyped, DirsTyped, GroupTyped
    <3> QED
      BY <2>1, <2>2, <2>4, <3>1, EndOfStart DEF FilesAreWhole
  <2> QED
    BY <1>2, <2>1, <2>3, <2>4 DEF PrepareNodes, Further, Fails
<1>3. CASE ClearPreferences
  <2>1. /\ at = 2 /\ Further /\ UNCHANGED <<linux, owed, dirs, group, child, cuts, graphics>>
    BY <1>3 DEF ClearPreferences
  <2>2. PICK prefs \in {Restored(server)} \cup (IF Happens("disk") THEN {Removed(server), server.prefs} ELSE {}) :
          server' = [server EXCEPT !.prefs = prefs]
    BY <1>3 DEF ClearPreferences
  <2>3. prefs \in {"absent", "empty", "token", "anonymous"}
    BY <2>2 DEF Restored, Removed, LaunchTypeOK
  <2>4. server' \in [prefs : {"absent", "empty", "token", "anonymous"}, kept : {"none", "token"}, pid : BOOLEAN]
        /\ server'.prefs = prefs /\ server'.kept = server.kept
    BY <2>2, <2>3 DEF LaunchTypeOK
  <2>5. LaunchTypeOK' /\ Along' /\ GraphicsTypeOK' /\ ChildIsShaped'
    BY <2>1, <2>4, Onward DEF LaunchTypeOK, Along, ChildIsShaped
  <2>6. ~Happens("disk") => prefs = Restored(server)
    BY <2>2
  <2>7. (~Happens("disk") => FilesAreWhole)'
    <3> SUFFICES ASSUME ~Happens("disk") PROVE FilesAreWhole'
      BY DEF Happens
    <3>1. FilesAreWhole /\ server.prefs \in {"absent", "empty", "token", "anonymous"} /\ server.kept \in {"none", "token"}
      BY DEF LaunchTypeOK
    <3>2. /\ prefs # "empty" /\ (owed => prefs = "token")
      BY <2>6, <3>1 DEF Restored, FilesAreWhole
    <3> QED
      BY <2>1, <2>4, <3>1, <3>2 DEF FilesAreWhole, Further
  <2> QED
    BY <2>5, <2>7
<1>4. CASE ClearPidFile
  <2>1. /\ at = 3 /\ Further /\ UNCHANGED <<linux, owed, dirs, group, child, cuts, graphics>>
    BY <1>4 DEF ClearPidFile
  <2>2. PICK left \in {PidLeft(server)} \cup (IF Happens("disk") THEN {server.pid} ELSE {}) : server' = [server EXCEPT !.pid = left]
    BY <1>4 DEF ClearPidFile
  <2>3. left \in BOOLEAN /\ (~Happens("disk") => ~left)
    BY <2>2 DEF PidLeft, LaunchTypeOK
  <2>4. server' \in [prefs : {"absent", "empty", "token", "anonymous"}, kept : {"none", "token"}, pid : BOOLEAN]
        /\ server'.prefs = server.prefs /\ server'.kept = server.kept /\ server'.pid = left
    BY <2>2, <2>3 DEF LaunchTypeOK
  <2>5. LaunchTypeOK' /\ Along' /\ GraphicsTypeOK' /\ ChildIsShaped'
    BY <2>1, <2>4, Onward DEF LaunchTypeOK, Along, ChildIsShaped
  <2>6. (~Happens("disk") => FilesAreWhole)'
    BY <2>1, <2>3, <2>4 DEF FilesAreWhole, Happens, Further
  <2> QED
    BY <2>5, <2>6
<1>5. CASE PrepareDirs
  <2>1. at = 4 /\ UNCHANGED <<linux, server, owed, group, cuts, graphics>>
    BY <1>5 DEF PrepareDirs
  <2>2. CASE Further /\ dirs' = [dirs EXCEPT !.there = @ \cup {"data", "transcode"}, !.given = {"data", "transcode"}] /\ UNCHANGED child
    <3>1. dirs' \in [there : SUBSET {"media", "data", "transcode"}, given : SUBSET {"data", "transcode"}]
          /\ dirs'.there = dirs.there \cup {"data", "transcode"} /\ dirs'.given = {"data", "transcode"}
      BY <2>2 DEF LaunchTypeOK
    <3>2. LaunchTypeOK' /\ Along' /\ GraphicsTypeOK' /\ ChildIsShaped'
      BY <2>1, <2>2, <3>1, Onward DEF LaunchTypeOK, Along, ChildIsShaped
    <3> QED
      BY <2>1, <2>2, <3>2 DEF FilesAreWhole, Happens, Further
  <2>3. ASSUME NEW n \in {"data", "transcode"}, dirs' = [dirs EXCEPT !.there = @ \cup {"data", n}], at' = 0, child' = Nobody
        PROVE  LaunchInv'
    <3>1. owed' \in BOOLEAN /\ cuts' \in 0..MaxCuts /\ (ServerTyped /\ DirsTyped /\ GroupTyped)' /\ GraphicsTypeOK'
      BY <2>1, <2>3 DEF LaunchTypeOK, ServerTyped, DirsTyped, GroupTyped, graphics, GraphicsTypeOK
    <3> QED
      BY <2>1, <2>3, <3>1, EndOfStart DEF FilesAreWhole
  <2> QED
    BY <1>5, <2>2, <2>3 DEF PrepareDirs, Fails
<1>6. CASE ApplyBounds
  <2>1. at = 5 /\ UNCHANGED <<linux, server, owed, dirs, cuts, graphics>>
    BY <1>6 DEF ApplyBounds
  <2>2. CASE Further /\ group' = [made |-> TRUE, bounds |-> Delegated] /\ UNCHANGED child
    <3>1. group' \in [made : BOOLEAN, bounds : SUBSET Controllers] /\ (linux.controllers = Controllers => group'.bounds = Controllers)
      BY <2>2 DEF LaunchTypeOK, Delegated
    <3>2. LaunchTypeOK' /\ Along' /\ GraphicsTypeOK' /\ ChildIsShaped'
      BY <2>1, <2>2, <3>1, Onward DEF LaunchTypeOK, Along, ChildIsShaped
    <3> QED
      BY <2>1, <2>2, <3>2 DEF FilesAreWhole, Happens, Further
  <2>3. CASE at' = 0 /\ child' = Nobody /\ UNCHANGED group
    <3>1. owed' \in BOOLEAN /\ cuts' \in 0..MaxCuts /\ (ServerTyped /\ DirsTyped /\ GroupTyped)' /\ GraphicsTypeOK'
      BY <2>1, <2>3 DEF LaunchTypeOK, ServerTyped, DirsTyped, GroupTyped, graphics, GraphicsTypeOK
    <3> QED
      BY <2>1, <2>3, <3>1, EndOfStart DEF FilesAreWhole
  <2> QED
    BY <1>6, <2>2, <2>3 DEF ApplyBounds, Fails
<1>7. CASE Fork
  <2>1. at = 6 /\ Further /\ child' = Nobody /\ UNCHANGED <<linux, server, owed, dirs, group, cuts, graphics>>
    BY <1>7 DEF Fork
  <2>2. LaunchTypeOK' /\ Along' /\ GraphicsTypeOK' /\ ChildIsShaped'
    BY <2>1, Onward DEF LaunchTypeOK, Along, ChildIsShaped, Nobody
  <2> QED
    BY <2>1, <2>2 DEF FilesAreWhole, Happens, Further
<1> QED
  BY <1>1, <1>2, <1>3, <1>4, <1>5, <1>6, <1>7 DEF Prepare

(* The rules that are made when every grant that is required can be: what each of them is for. *)
LEMMA RulesAreRight ==
  ASSUME LaunchInv, "media" \in dirs.there, \A g \in Grants : g.required => Allowed(g)
  PROVE  Ruled({g \in Grants : Allowed(g)})
<1> DEFINE rules == {g \in Grants : Allowed(g)}
<1>1. DOMAIN node = Devices
  BY DEF LaunchInv, GraphicsTypeOK
<1>2. \A path, rights, required :
        /\ Grant(path, rights, required).path = path /\ Grant(path, rights, required).rights = rights
        /\ Grant(path, rights, required).required = required
  BY DEF Grant
<1>3. \A g \in Grants : g.path # "elsewhere" /\ ("write" \in g.rights => g.path \in Writable)
  <2> SUFFICES ASSUME NEW g \in Grants PROVE g.path # "elsewhere" /\ ("write" \in g.rights => g.path \in Writable)
    OBVIOUS
  <2>1. CASE g \in {Grant(d, OnDevices, FALSE) : d \in NvidiaNodes}
    BY <2>1 DEF Grant, Writable, NvidiaNodes
  <2>2. CASE g \in {Grant(m, ReadOnly, FALSE) : m \in dirs.there \cap {"media"}}
    BY <2>2 DEF Grant, ReadOnly
  <2>3. CASE g \in {Grant("/usr", ReadExecute, TRUE), Grant("/etc", ReadOnly, TRUE), Grant("/run", ReadOnly, TRUE),
                     Grant("/sys", ReadOnly, FALSE), Grant("image", ReadExecute, TRUE),
                     Grant(Caps, {"read", "list", "ioctl"}, FALSE)}
    BY <2>3 DEF Grant, ReadOnly, ReadExecute, Caps
  <2>4. CASE g \in {Grant("/proc", ReadOnly \cup {"write", "truncate"}, TRUE), Grant("/dev", {"read", "write", "list"}, TRUE),
                     Grant("data", ReadWrite \cup {"execute"}, TRUE), Grant("transcode", ReadWrite, TRUE),
                     Grant("dri", {"read", "write", "list", "ioctl"}, FALSE)}
    BY <2>4 DEF Grant, Writable
  <2> QED
    BY <2>1, <2>2, <2>3, <2>4 DEF Grants
<1>4. Grant("media", ReadOnly, FALSE) \in rules
  <2>1. Grant("media", ReadOnly, FALSE) \in Grants
    BY DEF Grants
  <2>2. "media" \notin Devices /\ "media" \notin NvidiaNodes
    BY DEF Devices, Required, Caps, RenderNode, Vendors, NvidiaNodes
  <2>3. Exists("media")
    BY <1>1, <2>2 DEF Exists
  <2> QED
    BY <2>1, <2>2, <2>3 DEF Allowed, Grant
<1>5. /\ Grant("image", ReadExecute, TRUE) \in rules /\ Grant("data", ReadWrite \cup {"execute"}, TRUE) \in rules
      /\ Grant("transcode", ReadWrite, TRUE) \in rules /\ Grant("/proc", ReadOnly \cup {"write", "truncate"}, TRUE) \in rules
  <2>1. {Grant("image", ReadExecute, TRUE), Grant("data", ReadWrite \cup {"execute"}, TRUE), Grant("transcode", ReadWrite, TRUE),
         Grant("/proc", ReadOnly \cup {"write", "truncate"}, TRUE)} \subseteq Grants
    BY DEF Grants
  <2> QED
    BY <1>2, <2>1, ZenonT(60)
<1>6. ASSUME NEW d \in NvidiaNodes, node[d] # "none" PROVE Grant(d, OnDevices, FALSE) \in rules
  <2>1. Grant(d, OnDevices, FALSE) \in Grants
    BY DEF Grants
  <2>2. d \notin {"dri", "data", "transcode"} /\ d \in Devices
    BY DEF NvidiaNodes, Devices, Required
  <2>3. Exists(d)
    BY <1>1, <1>6, <2>2 DEF Exists
  <2>4. OnDevices \cap {"list", "create"} = {}
    BY DEF OnDevices
  <2> QED
    BY <2>1, <2>3, <2>4 DEF Allowed, Grant
<1>7. ASSUME node[Caps] # "none" PROVE Grant(Caps, {"read", "list", "ioctl"}, FALSE) \in rules
  <2>1. Grant(Caps, {"read", "list", "ioctl"}, FALSE) \in Grants
    BY DEF Grants
  <2>2. Caps \notin {"dri", "data", "transcode"} /\ Caps \in Devices /\ Caps \notin NvidiaNodes
    BY DEF NvidiaNodes, Devices, Caps
  <2>3. Exists(Caps)
    BY <1>1, <1>7, <2>2 DEF Exists
  <2> QED
    BY <2>1, <2>2, <2>3 DEF Allowed, Grant
<1>8. ASSUME NEW d \in RenderNodes, node[d] = "open" PROVE Grant("dri", {"read", "write", "list", "ioctl"}, FALSE) \in rules
  <2>1. Grant("dri", {"read", "write", "list", "ioctl"}, FALSE) \in Grants
    BY DEF Grants
  <2>2. "dri" \notin NvidiaNodes /\ "dri" \notin Devices /\ node[d] # "none"
    BY <1>8 DEF NvidiaNodes, Devices, Required, Caps, RenderNode, Vendors
  <2>3. Exists("dri")
    BY <1>1, <2>2 DEF Exists
  <2> QED
    BY <2>1, <2>2, <2>3 DEF Allowed, Grant
<1>9. \A g \in rules : g \in Grants
  OBVIOUS
<1> HIDE DEF rules
<1>10. Ruled(rules)
  BY <1>3, <1>4, <1>5, <1>6, <1>7, <1>8, <1>9 DEF Ruled
<1> QED
  BY <1>10 DEF rules

(* The child's part of it. *)
LEMMA BecomePlexKeeps == ASSUME LaunchInv, BecomePlex, UNCHANGED faults PROVE LaunchInv'
<1> USE WhereItIs DEF LaunchInv
<1>0. ASSUME at' = 0, child' = Nobody, UNCHANGED <<linux, server, owed, dirs, group, cuts, graphics>> PROVE LaunchInv'
  <2>1. owed' \in BOOLEAN /\ cuts' \in 0..MaxCuts /\ (ServerTyped /\ DirsTyped /\ GroupTyped)' /\ GraphicsTypeOK'
    BY <1>0 DEF LaunchTypeOK, ServerTyped, DirsTyped, GroupTyped, graphics, GraphicsTypeOK
  <2> QED
    BY <1>0, <2>1, EndOfStart DEF FilesAreWhole
<1>1. ASSUME at \in 7..10, Further, UNCHANGED <<linux, server, owed, dirs, group, cuts, graphics>>,
             child'.within \in BOOLEAN, child'.enforced \in BOOLEAN, child'.uid \in {"root", "plex"}, ChildIsShaped',
             child'.within, at >= 8 => Handled # {} /\ Ruled(child'.rules), at >= 9 => child'.enforced,
             at >= 10 => child'.uid = "plex" /\ child'.groups = "none"
      PROVE  LaunchInv'
  <2>1. LaunchTypeOK' /\ GraphicsTypeOK' /\ Over' /\ Handled' = Handled /\ at' = at + 1
        /\ \A rules : Ruled(rules) => Ruled(rules)'
    BY <1>1, Onward DEF LaunchTypeOK
  <2>2. Along'
    BY <1>1, <2>1 DEF Along
  <2>3. (~Happens("disk") => FilesAreWhole)'
    BY <1>1, <2>1 DEF FilesAreWhole, Happens
  <2> QED
    BY <1>1, <2>1, <2>2, <2>3
<1>2. CASE Join
  <2>1. CASE at = 7 /\ Further /\ child' = [child EXCEPT !.within = TRUE]
    <3>1. child' = [within |-> TRUE, rules |-> child.rules, enforced |-> child.enforced, uid |-> child.uid, groups |-> child.groups]
      BY <2>1 DEF ChildIsShaped
    <3>2. child'.within /\ child'.within \in BOOLEAN /\ child'.enforced \in BOOLEAN /\ child'.uid \in {"root", "plex"} /\ ChildIsShaped'
      BY <3>1 DEF LaunchTypeOK, ChildIsShaped
    <3>3. UNCHANGED <<linux, server, owed, dirs, group, cuts, graphics>>
      BY <1>2 DEF Join
    <3> QED
      BY <1>1, <2>1, <3>2, <3>3
  <2> QED
    BY <1>0, <1>2, <2>1 DEF Join, Fails
<1>3. CASE AllowAll
  <2>1. CASE /\ at = 8 /\ Further /\ Handled # {} /\ \A g \in Grants : g.required => Allowed(g)
             /\ child' = [child EXCEPT !.rules = {g \in Grants : Allowed(g)}]
    <3>1. /\ child' = [within |-> child.within, rules |-> {g \in Grants : Allowed(g)}, enforced |-> child.enforced,
                        uid |-> child.uid, groups |-> child.groups]
      BY <2>1 DEF ChildIsShaped
    <3>2. Ruled(child'.rules) /\ child.within
      BY <2>1, <3>1, RulesAreRight DEF Along
    <3>3. child'.within /\ child'.within \in BOOLEAN /\ child'.enforced \in BOOLEAN /\ child'.uid \in {"root", "plex"} /\ ChildIsShaped'
      BY <3>1, <3>2 DEF LaunchTypeOK, ChildIsShaped
    <3>4. UNCHANGED <<linux, server, owed, dirs, group, cuts, graphics>>
      BY <1>3 DEF AllowAll
    <3> QED
      BY <1>1, <2>1, <3>2, <3>3, <3>4
  <2> QED
    BY <1>0, <1>3, <2>1 DEF AllowAll
<1>4. CASE Enforce
  <2>1. CASE at = 9 /\ Further /\ child' = [child EXCEPT !.enforced = TRUE]
    <3>1. child' = [within |-> child.within, rules |-> child.rules, enforced |-> TRUE, uid |-> child.uid, groups |-> child.groups]
      BY <2>1 DEF ChildIsShaped
    <3>2. child.within /\ Handled # {} /\ Ruled(child'.rules)
      BY <2>1, <3>1 DEF Along
    <3>3. child'.within /\ child'.within \in BOOLEAN /\ child'.enforced /\ child'.enforced \in BOOLEAN
          /\ child'.uid \in {"root", "plex"} /\ ChildIsShaped'
      BY <3>1, <3>2 DEF LaunchTypeOK, ChildIsShaped
    <3>4. UNCHANGED <<linux, server, owed, dirs, group, cuts, graphics>>
      BY <1>4 DEF Enforce
    <3> QED
      BY <1>1, <2>1, <3>2, <3>3, <3>4
  <2> QED
    BY <1>0, <1>4, <2>1 DEF Enforce, Fails
<1>5. CASE Drop
  <2>1. ASSUME NEW uid, at = 10, Confirmed(uid), Further, child' = [child EXCEPT !.uid = uid, !.groups = "none"]
        PROVE  LaunchInv'
    <3>1. child' = [within |-> child.within, rules |-> child.rules, enforced |-> child.enforced, uid |-> "plex", groups |-> "none"]
      BY <2>1 DEF ChildIsShaped, Confirmed
    <3>2. child.within /\ Handled # {} /\ Ruled(child'.rules) /\ child.enforced
      BY <2>1, <3>1 DEF Along
    <3>3. /\ child'.within /\ child'.within \in BOOLEAN /\ child'.enforced /\ child'.enforced \in BOOLEAN
          /\ child'.uid = "plex" /\ child'.groups = "none" /\ ChildIsShaped'
      BY <3>1, <3>2 DEF LaunchTypeOK, ChildIsShaped
    <3>4. UNCHANGED <<linux, server, owed, dirs, group, cuts, graphics>>
      BY <1>5 DEF Drop
    <3> QED
      BY <1>1, <2>1, <3>2, <3>3, <3>4
  <2> QED
    BY <1>0, <1>5, <2>1 DEF Drop
<1>6. CASE Exec
  <2>1. at = 11 /\ Further /\ server' = [server EXCEPT !.pid = TRUE] /\ UNCHANGED <<linux, owed, dirs, group, child, cuts, graphics>>
    BY <1>6 DEF Exec
  <2>2. /\ server' \in [prefs : {"absent", "empty", "token", "anonymous"}, kept : {"none", "token"}, pid : BOOLEAN]
        /\ server'.prefs = server.prefs /\ server'.kept = server.kept
    BY <2>1 DEF LaunchTypeOK
  <2>3. LaunchTypeOK' /\ Along' /\ GraphicsTypeOK' /\ ChildIsShaped' /\ at' = 12
    BY <2>1, <2>2, Onward DEF LaunchTypeOK, Along, ChildIsShaped
  <2> QED
    BY <2>1, <2>2, <2>3 DEF FilesAreWhole, Happens
<1> QED
  BY <1>2, <1>3, <1>4, <1>5, <1>6 DEF BecomePlex

(* Where nothing moves, and no node, the start is where it was. *)
LEMMA StandingStill ==
  ASSUME Along, UNCHANGED <<linux, at, dirs, group, child, bringUp, node>>
  PROVE  Along'
<1>1. Handled' = Handled
  BY DEF Handled
<1>2. Ruled(child.rules) => Ruled(child.rules)'
  BY DEF Ruled
<1>3. Over' = Over
  BY DEF Over, Stage
<1> QED
  BY <1>1, <1>2, <1>3 DEF Along

(* Plex, its owner, and what ends it. *)
LEMMA RunningKeeps ==
  ASSUME LaunchInv, PlexTruncates \/ PlexWrites \/ StopPlex \/ PlexDies \/ PowerCut, UNCHANGED faults PROVE LaunchInv'
<1> USE WhereItIs DEF LaunchInv
<1>1. CASE PlexTruncates \/ PlexWrites
  <2>1. at = 12 /\ UNCHANGED <<linux, at, dirs, group, child, cuts, graphics>>
    BY <1>1 DEF PlexTruncates, PlexWrites
  <2>2. PICK prefs \in {"empty", "token", "anonymous"} :
          server' = [server EXCEPT !.prefs = prefs] /\ owed' = (owed /\ (prefs # "anonymous"))
    BY <1>1, Zenon DEF PlexTruncates, PlexWrites, LaunchTypeOK
  <2>3. ServerTyped' /\ server'.prefs = prefs /\ server'.kept = server.kept
    BY <2>2 DEF LaunchTypeOK, ServerTyped
  <2>4. owed' \in BOOLEAN /\ (owed' => owed /\ prefs # "anonymous")
    BY <2>2, Zenon
  <2>5. LaunchTypeOK'
    BY <2>1, <2>3, <2>4 DEF LaunchTypeOK, ServerTyped
  <2>6. GraphicsTypeOK' /\ Along' /\ ChildIsShaped'
    BY <2>1, StandingStill DEF graphics, GraphicsTypeOK, ChildIsShaped
  <2>7. (~Happens("disk") => FilesAreWhole)'
    BY <2>1, <2>3, <2>4 DEF FilesAreWhole, Happens
  <2> QED
    BY <2>5, <2>6, <2>7
<1>2. CASE StopPlex
  <2>1. at = 12 /\ at' = 0 /\ child' = Nobody /\ UNCHANGED <<linux, dirs, group, cuts, graphics>>
        /\ owed' = (owed \/ server.prefs = "token")
    BY <1>2 DEF StopPlex
  <2>2. PICK gone \in BOOLEAN, cut \in BOOLEAN, kept \in {Kept(server)} \cup (IF Happens("disk") THEN {server.kept} ELSE {}) :
          server' = [prefs |-> IF cut THEN "empty" ELSE server.prefs, kept |-> kept, pid |-> ~gone]
    BY <1>2 DEF StopPlex
  <2>3. kept \in {"none", "token"} /\ (~Happens("disk") => kept = Kept(server))
    BY <2>2 DEF Kept, LaunchTypeOK
  <2>4. ServerTyped' /\ server'.kept = kept /\ server'.prefs \in {"empty", server.prefs}
    BY <2>2, <2>3 DEF ServerTyped, LaunchTypeOK
  <2>5. owed' \in BOOLEAN /\ (owed' => owed \/ server.prefs = "token")
    BY <2>1, Zenon DEF LaunchTypeOK
  <2>6. DirsTyped' /\ GroupTyped' /\ GraphicsTypeOK' /\ cuts' \in 0..MaxCuts
    BY <2>1 DEF LaunchTypeOK, DirsTyped, GroupTyped, graphics, GraphicsTypeOK
  <2>7. ~Happens("disk") => (owed' => server'.kept = "token" /\ server'.prefs # "anonymous")
    <3> SUFFICES ASSUME ~Happens("disk"), owed' PROVE server'.kept = "token" /\ server'.prefs # "anonymous"
      OBVIOUS
    <3>1. owed => server.kept = "token" /\ server.prefs # "anonymous"
      BY DEF FilesAreWhole
    <3> QED
      BY <2>3, <2>4, <2>5, <3>1 DEF Kept
  <2> QED
    BY <2>1, <2>4, <2>5, <2>6, <2>7, EndOfStart
<1>3. CASE PlexDies \/ PowerCut
  <2>1. at' = 0 /\ child' = Nobody /\ UNCHANGED <<linux, server, owed, dirs>>
    BY <1>3 DEF PlexDies, PowerCut
  <2>2. cuts' \in 0..MaxCuts /\ GroupTyped'
    <3>1. CASE PlexDies
      BY <3>1 DEF PlexDies, LaunchTypeOK, GroupTyped
    <3>2. CASE PowerCut
      <4>1. cuts' = cuts + 1 /\ cuts < MaxCuts /\ MaxCuts \in Nat /\ cuts \in 0..MaxCuts /\ group' = [made |-> FALSE, bounds |-> {}]
        BY <3>2, LaunchAssumption DEF PowerCut, LaunchTypeOK
      <4> QED
        BY <4>1 DEF GroupTyped
    <3> QED
      BY <1>3, <3>1, <3>2
  <2>3. GraphicsTypeOK'
    <3>1. CASE PlexDies
      BY <3>1 DEF PlexDies, graphics, GraphicsTypeOK
    <3>2. CASE PowerCut
      BY <3>2, StagesAre DEF PowerCut, GraphicsTypeOK
    <3> QED
      BY <1>3, <3>1, <3>2
  <2>4. owed' \in BOOLEAN /\ ServerTyped' /\ DirsTyped'
    BY <2>1 DEF LaunchTypeOK, ServerTyped, DirsTyped
  <2> QED
    BY <2>1, <2>2, <2>3, <2>4, EndOfStart DEF FilesAreWhole
<1> QED
  BY <1>1, <1>2, <1>3

LEMMA LaunchGoesOn == ASSUME LaunchInv, [LaunchStep]_<<graphics, launch>>, UNCHANGED faults PROVE LaunchInv'
<1>1. CASE UNCHANGED <<graphics, launch>>
  BY <1>1, StandingStill DEF graphics, launch, LaunchInv, GraphicsTypeOK, LaunchTypeOK, ChildIsShaped, FilesAreWhole, Happens
<1> QED
  BY <1>1, GraphicsKeeps, PrepareKeeps, BecomePlexKeeps, RunningKeeps DEF LaunchStep

(* What the rules leave a Plex that runs. *)
LEMMA RunningIsConfined == ASSUME LaunchInv PROVE ConfinedPlex
<1> SUFFICES ASSUME PlexRuns
             PROVE  /\ child.within /\ (linux.controllers = Controllers => group.bounds = Controllers)
                    /\ child.enforced /\ child.uid = "plex" /\ child.groups = "none"
                    /\ \A path \in Closed : ~May(path, "write")
                    /\ ~May("elsewhere", "read")
                    /\ May("media", "read") /\ May("image", "execute") /\ May("data", "execute") /\ May("transcode", "create")
                    /\ dirs.given = {"data", "transcode"}
  BY DEF ConfinedPlex
<1>1. /\ child.within /\ (linux.controllers = Controllers => group.bounds = Controllers)
      /\ child.enforced /\ child.uid = "plex" /\ child.groups = "none" /\ dirs.given = {"data", "transcode"}
      /\ Handled # {} /\ Ruled(child.rules)
  BY WhereItIs DEF LaunchInv, Along
<1>2. "write" \in Handled /\ "read" \in Handled
  <2>1. linux.abi \in 0..5
    BY LaunchAssumption DEF LaunchInv, LaunchTypeOK, KernelShape
  <2>2. linux.abi \in 1..5
    BY <1>1, <2>1 DEF Handled
  <2> QED
    BY <2>2 DEF Handled, Rights
<1>3. ASSUME NEW path \in Closed PROVE Above(path) = {path} /\ path \notin Writable
  BY DEF Closed, Above, RenderNodes, RenderNode, Vendors, Within, NvidiaNodes, Caps, Writable
<1>4. \A path \in Closed : ~May(path, "write")
  BY <1>1, <1>2, <1>3 DEF May, Ruled
<1>5. ~May("elsewhere", "read")
  BY <1>1, <1>2, <1>3 DEF May, Ruled, Closed
<1>6. \A path, right : (\E rights, required : Grant(path, rights, required) \in child.rules /\ right \in rights) => May(path, right)
  <2> SUFFICES ASSUME NEW path, NEW right, NEW rights, NEW required, Grant(path, rights, required) \in child.rules, right \in rights
               PROVE  May(path, right)
    OBVIOUS
  <2>1. path \in Above(path)
    BY DEF Above
  <2> QED
    BY <2>1 DEF May, Grant
<1>7. May("media", "read") /\ May("image", "execute") /\ May("data", "execute") /\ May("transcode", "create")
  <2>1. "read" \in ReadOnly /\ "execute" \in ReadExecute /\ "create" \in ReadWrite
    BY DEF ReadOnly, ReadExecute, ReadWrite
  <2>2. /\ Grant("media", ReadOnly, FALSE) \in child.rules /\ Grant("image", ReadExecute, TRUE) \in child.rules
        /\ Grant("data", ReadWrite \cup {"execute"}, TRUE) \in child.rules /\ Grant("transcode", ReadWrite, TRUE) \in child.rules
    BY <1>1 DEF Ruled
  <2> HIDE DEF Grant, May
  <2> QED
    BY <1>6, <2>1, <2>2
<1> QED
  BY <1>1, <1>4, <1>5, <1>7

(* A finding that is made keeps a report from calling transcoding anything but unavailable. *)
LEMMA CriticalSays == ASSUME NEW f \in Findings, f.severity = "critical" PROVE Health = "unavailable"
BY DEF Health, Says

(* The report, and what the rules let a Plex that runs do to the nodes it names. *)
LEMMA ReportIsTrue == ASSUME LaunchInv PROVE ReadyIsTrue
<1> SUFFICES ASSUME PlexRuns, Health # "unavailable" PROVE PlexDrives(Reported)
  BY DEF ReadyIsTrue
<1>1. Ruled(child.rules) /\ GraphicsTypeOK
  BY WhereItIs DEF LaunchInv, Along
<1>2. \A f \in Findings : f.severity # "critical"
  BY CriticalSays
<1>3. \A about : Found("critical", about).severity = "critical"
  BY DEF Found
<1>4. ASSUME NEW path, NEW above \in Above(path), NEW rights, NEW right \in rights, NEW required,
             Grant(above, rights, required) \in child.rules
      PROVE  May(path, right)
  BY <1>4 DEF May, Grant
<1>5. CASE Reported = "nvidia"
  <2>1. Findings = NvidiaFindings
    BY <1>5 DEF Findings
  <2>2. "nvidia" \in loaded /\ \A d \in Required : node[d] = "open"
    <3>1. "nvidia" \in loaded
      BY <1>2, <1>3, <2>1 DEF NvidiaFindings
    <3>2. ASSUME NEW d \in Required, node[d] # "open" PROVE FALSE
      <4>1. Found("critical", d) \in Findings
        BY <2>1, <3>1, <3>2 DEF NvidiaFindings
      <4> QED
        BY <1>2, <1>3, <4>1
    <3> QED
      BY <3>1, <3>2
  <2>3. \A d \in Drives("nvidia") : node[d] = "open" /\ (d \in Required \/ d = Caps)
    BY <2>2 DEF Drives
  <2>4. ASSUME NEW d \in Drives("nvidia") PROVE May(d, "ioctl") /\ May(d, "read")
    <3>0. d \in Above(d) /\ node[d] = "open"
      BY <2>3 DEF Above
    <3>1. CASE d \in Required
      <4>1. Grant(d, OnDevices, FALSE) \in child.rules
        BY <1>1, <3>0, <3>1 DEF Ruled, Required, NvidiaNodes
      <4>2. "ioctl" \in OnDevices /\ "read" \in OnDevices
        BY DEF OnDevices
      <4> QED
        BY <1>4, <3>0, <4>1, <4>2
    <3>2. CASE d = Caps
      <4>1. Grant(d, {"read", "list", "ioctl"}, FALSE) \in child.rules
        BY <1>1, <3>0, <3>2 DEF Ruled
      <4>2. "ioctl" \in {"read", "list", "ioctl"} /\ "read" \in {"read", "list", "ioctl"}
        OBVIOUS
      <4> QED
        BY <1>4, <3>0, <4>1, <4>2
    <3> QED
      BY <2>3, <3>1, <3>2
  <2>5. May("/proc", "truncate") /\ May("/proc", "write")
    <3>1. "/proc" \in Above("/proc") /\ Grant("/proc", ReadOnly \cup {"write", "truncate"}, TRUE) \in child.rules
      BY <1>1 DEF Above, Ruled
    <3>2. "truncate" \in ReadOnly \cup {"write", "truncate"} /\ "write" \in ReadOnly \cup {"write", "truncate"}
      OBVIOUS
    <3> QED
      BY <1>4, <3>1, <3>2
  <2> QED
    BY <1>5, <2>3, <2>4, <2>5 DEF PlexDrives
<1>6. CASE Reported \in {"intel", "amd"}
  <2> DEFINE v == Reported
  <2>1. v \in Gpus /\ v # "nvidia" /\ v \in Vendors /\ Findings = VaapiFindings(v)
    <3>1. v \in Gpus
      BY <1>6 DEF Reported
    <3>2. v # "nvidia" /\ v # "none" /\ v \in Vendors
      BY <1>6 DEF Vendors
    <3> QED
      BY <3>1, <3>2 DEF Findings
  <2>2. node[RenderNode[v]] # "none" /\ RenderNode[v] \in RenderNodes /\ RenderNode[v] \in Devices
    BY <2>1 DEF Gpus, RenderNodes, Devices
  <2> HIDE DEF v
  <2>3. node[RenderNode[v]] # "root"
    <3> SUFFICES ASSUME node[RenderNode[v]] = "root" PROVE FALSE
      OBVIOUS
    <3>1. Found("critical", "node") \in NodeFindings(v)
      BY DEF NodeFindings
    <3>2. Found("critical", "node") \in Findings
      BY <2>1, <3>1 DEF VaapiFindings
    <3> QED
      BY <1>2, <1>3, <3>2
  <2>4. node[RenderNode[v]] = "open"
    BY <1>1, <2>2, <2>3 DEF GraphicsTypeOK
  <2>5. May(RenderNode[v], "ioctl") /\ May(RenderNode[v], "read")
    <3>1. "dri" \in Above(RenderNode[v]) /\ Grant("dri", {"read", "write", "list", "ioctl"}, FALSE) \in child.rules
      BY <1>1, <2>2, <2>4 DEF Above, Ruled
    <3>2. "ioctl" \in {"read", "write", "list", "ioctl"} /\ "read" \in {"read", "write", "list", "ioctl"}
      OBVIOUS
    <3> QED
      BY <1>4, <3>1, <3>2
  <2>6. PlexDrives(v)
    BY <2>1, <2>4, <2>5 DEF PlexDrives, Drives
  <2> QED
    BY <2>6 DEF v
<1>7. CASE Reported = "none"
  <2>1. Findings = NothingFindings
    BY <1>7 DEF Findings
  <2>2. \E f \in Findings : f.severity = "critical"
    BY <1>3, <2>1 DEF NothingFindings
  <2> QED
    BY <1>2, <2>2
<1> QED
  BY <1>5, <1>6, <1>7 DEF Reported

(* Only the last step of a start makes a Plex that runs. *)
LEMMA StartingIsWhole ==
  ASSUME LaunchInv, [LaunchStep]_<<graphics, launch>>, UNCHANGED faults, PlexRuns', ~PlexRuns, ~Happens("disk")
  PROVE  server.prefs # "empty" /\ ~server.pid /\ (owed => server.prefs = "token")
<1>1. at = 11
  <2>0. Places' = Places /\ at \in 0..12 /\ at # 12
    BY WhereItIs DEF LaunchInv, Places
  <2>1. at' = 12
    <3>1. LaunchTypeOK'
      BY LaunchGoesOn DEF LaunchInv
    <3>2. at' \in 0..12
      BY <3>1, WhereItIs DEF LaunchTypeOK, LaunchInv
    <3> QED
      BY <3>2 DEF PlexRuns, Reached, Places
  <2>2. at' = at + 1
    <3>1. at' # at /\ at' # 0
      BY <2>0, <2>1
    <3>2. CASE Prepare
      BY <3>1, <3>2 DEF Prepare, Begin, PrepareNodes, ClearPreferences, ClearPidFile, PrepareDirs, ApplyBounds, Fork, Further, Fails
    <3>3. CASE BecomePlex
      BY <3>1, <3>3 DEF BecomePlex, Join, AllowAll, Enforce, Drop, Exec, Further, Fails
    <3>4. ~(PlexTruncates \/ PlexWrites \/ StopPlex \/ PlexDies \/ PowerCut)
      BY <3>1 DEF PlexTruncates, PlexWrites, StopPlex, PlexDies, PowerCut
    <3>5. ~GraphicsStep /\ ~UNCHANGED <<graphics, launch>>
      BY <3>1 DEF GraphicsStep, launch
    <3> QED
      BY <3>2, <3>3, <3>4, <3>5 DEF LaunchStep
  <2> QED
    BY <2>0, <2>1, <2>2
<1> QED
  BY <1>1 DEF LaunchInv, FilesAreWhole

-----------------------------------------------------------------------------
(* The sum: a step is one part's, and leaves the others as they are. *)

LEMMA StepIsOfAPart ==
  ASSUME [SumNext]_everything
  PROVE  /\ UNCHANGED faults
         /\ DiscoveryNext \/ UNCHANGED <<configuration, discovery>>
         /\ [Next]_vars /\ [BootNext]_boot /\ [LaunchStep]_<<graphics, launch>>
<1>1. CASE SumNext
  <2>1. CASE OfUpdates(DiscoveryNext)
    BY <2>1 DEF OfUpdates, Of
  <2>2. CASE OfServices(Next)
    BY <2>2 DEF OfServices, Of
  <2>3. CASE OfBoot(BootNext)
    BY <2>3 DEF OfBoot, Of
  <2>4. CASE OfPlex(LaunchStep)
    BY <2>4 DEF OfPlex, Of
  <2> QED
    BY <1>1, <2>1, <2>2, <2>3, <2>4 DEF SumNext
<1>2. CASE UNCHANGED everything
  BY <1>2 DEF everything
<1> QED
  BY <1>1, <1>2

LEMMA KeptStays == ASSUME KeptInv, UNCHANGED <<faults, configuration, discovery>> PROVE KeptInv' /\ CounterRises /\ NothingElseChanges
<1>1. UNCHANGED <<faults, configuration, held, availability, work, written, service>>
  BY DEF discovery
<1> QED
  BY <1>1, LeftAlone DEF CounterRises, NothingElseChanges, configuration

(* Whatever service answers, whatever it publishes between two of its documents, whoever saves, asks, checks or dies, and
   for any number of releases, channels' files and lists: what is kept can be read and was vouched for
   (update.rs, believe and revocations_in_force; settings.rs, save; discover.rs, Status).  A list of
   revocations gives way only to one that a root signed, and a later one while no check and installation overlap. *)
THEOREM WhatIsKeptWasVouchedFor == SumSpec => KeptIsVouchedFor
<1> DEFINE Inv == FileIsWhole /\ WrittenWasVouchedFor /\ AnswerRestsOnAManifest
<1> DEFINE Step == CounterRises /\ NothingElseChanges
<1>1. SumInit => KeptInv
  BY KeptBegins DEF SumInit
<1>2. KeptInv /\ [SumNext]_everything => KeptInv' /\ Step
  BY StepIsOfAPart, KeptGoesOn, KeptStays
<1>3. KeptInv => Inv
  BY DEF KeptInv, StoredInv, UpdatesInv
<1> HIDE DEF Inv, Step
<1>4. SumSpec => []Inv /\ [][Step]_everything
  BY <1>1, <1>2, <1>3, PTL DEF SumSpec
<1> QED
  BY <1>4 DEF KeptIsVouchedFor, Inv, Step

(* Whatever number of disks there is, whichever of them carry the signed release and in whichever order they appear, and
   whatever the command line says: a /usr that is run is one the kernel's root hash covers, and that hash is a whole digest
   (cmdline.rs, BootArgs::parse; execute.rs, MountUsr). *)
THEOREM SignedUsrOnly == SumSpec => []RunsWhatWasSigned
<1>1. SumInit => BootInv
  BY BootBegins DEF SumInit
<1>2. BootInv /\ [SumNext]_everything => BootInv'
  BY StepIsOfAPart, BootGoesOn
<1>3. BootInv => RunsWhatWasSigned
  BY DEF BootInv
<1> QED
  BY <1>1, <1>2, <1>3, PTL DEF SumSpec

(* PID 1 over its services is the Supervisor's specification. *)
LEMMA ServicesOfTheSum == SumSpec => Spec
<1>1. SumInit => Init
  BY DEF SumInit
<1>2. [SumNext]_everything => [Next]_vars
  BY StepIsOfAPart
<1> QED
  BY <1>1, <1>2, PTL DEF SumSpec, Spec

(* What holds of PID 1 over its services holds of the sum. *)
THEOREM ServicesAreKept == SumSpec => [](TypeOK /\ KnownByItsOwn /\ NeverHammers)
BY ServicesOfTheSum, ServicesTyped, EachByItsOwn, FailuresAreSlowed, PTL

(* Whatever kernel and whatever cards, whichever steps fail and whenever the power goes: what became Plex is bounded, confined
   and nobody's superuser, and is never started over a file that would keep it from starting (run.rs, confine_and_exec;
   plex.rs, clear_wedged_state and restore_preferences). *)
THEOREM PlexStartsConfined == SumSpec => StartsConfined
<1> DEFINE Whole == PlexRuns' /\ ~PlexRuns /\ ~Happens("disk") =>
                      server.prefs # "empty" /\ ~server.pid /\ (owed => server.prefs = "token")
<1>1. SumInit => LaunchInv
  BY LaunchBegins DEF SumInit
<1>2. LaunchInv /\ [SumNext]_everything => LaunchInv' /\ Whole
  BY StepIsOfAPart, LaunchGoesOn, StartingIsWhole
<1>3. LaunchInv => ConfinedPlex
  BY RunningIsConfined
<1>4. UNCHANGED everything => UNCHANGED launch
  BY DEF everything
<1> HIDE DEF Whole
<1>5. SumSpec => []ConfinedPlex /\ [][Whole]_launch
  BY <1>1, <1>2, <1>3, <1>4, PTL DEF SumSpec
<1>6. SumSpec => [][ConfinedPlex']_everything
  BY <1>5, PTL
<1> QED
  BY <1>5, <1>6 DEF StartsConfined, StartsWhole, Whole

(* A report that does not call transcoding unavailable is true of the Plex that runs, whatever was made, given or withheld
   of the nodes (plexos-gpu, Report::generate; run.rs, grants; nvidia.rs, bring_up). *)
THEOREM ReportsAreTrue == SumSpec => []ReadyIsTrue
<1>1. SumInit => LaunchInv
  BY LaunchBegins DEF SumInit
<1>2. LaunchInv /\ [SumNext]_everything => LaunchInv'
  BY StepIsOfAPart, LaunchGoesOn
<1>3. LaunchInv => ReadyIsTrue
  BY ReportIsTrue
<1> QED
  BY <1>1, <1>2, <1>3, PTL DEF SumSpec
-----------------------------------------------------------------------------
(* What the variables of the sum are. *)

LEMMA NamedHasBoth ==
  ASSUME DOMAIN name = {"kernel", "stored"}, NEW wanted, NEW n \in Named(wanted)
  PROVE  DOMAIN n = {"kernel", "stored"}
<1>1. CASE wanted \notin Valid \/ wanted = name.kernel
  BY <1>1 DEF Named
<1>2. CASE ~(wanted \notin Valid \/ wanted = name.kernel)
  <2> DEFINE kept == {wanted} \cup {old \in {name.stored, Nameless} : Happens("full")}
  <2>1. n \in [kernel : {wanted}, stored : kept]
    BY <1>2 DEF Named
  <2> HIDE DEF kept
  <2> QED
    BY <2>1
<1> QED
  BY <1>1, <1>2

LEMMA ConfigurationIsTyped ==
  /\ ConfigurationInit => ConfigurationTypeOK
  /\ ConfigurationTypeOK /\ StoredInv /\ [Serve \/ Restarted]_configuration => ConfigurationTypeOK'
<1>1. ASSUME ConfigurationInit PROVE ConfigurationTypeOK
  <2>1. /\ file.whole \in BOOLEAN /\ DOMAIN file.is = Fields /\ temp = NoTemp /\ saver = AtRest
        /\ name = [kernel |-> file.is.hostname, stored |-> file.is.hostname]
    BY <1>1, ConfigsAssumption DEF ConfigurationInit
  <2> QED
    BY <2>1 DEF ConfigurationTypeOK, NoTemp, AtRest, Default, Fields
<1>2. ASSUME ConfigurationTypeOK, StoredInv, [Serve \/ Restarted]_configuration PROVE ConfigurationTypeOK'
  <2> USE <1>2 DEF ConfigurationTypeOK
  <2>0. DOMAIN Default = Fields
    BY DEF Default, Fields
  <2>1. CASE Save
    BY <2>1 DEF Save, Patched
  <2>2. ASSUME NEW to \in {"create", "write", "rename"}, Saves(to)
        PROVE  saver'.at = to /\ saver'.config = saver.config
    BY <2>2 DEF Saves, StoredInv, SaveInHand
  <2>3. CASE Apply
    <3>1. saver'.at = "create" /\ saver'.config = saver.config /\ UNCHANGED <<file, temp>>
      BY <2>2, <2>3 DEF Apply
    <3>2. DOMAIN name' = {"kernel", "stored"}
      BY <2>0, <2>3, NamedHasBoth DEF Apply
    <3> QED
      BY <3>1, <3>2
  <2>7. CASE Create \/ Write
    <3>1. UNCHANGED <<file, name>> /\ (temp' = temp \/ \E whole \in BOOLEAN : temp' = [whole |-> whole, is |-> saver.config])
      BY <2>7 DEF Create, Write
    <3>2. temp'.whole \in BOOLEAN /\ DOMAIN temp'.is = Fields
      BY <3>1
    <3>3. saver'.at \in {"rest", "write", "rename"} /\ DOMAIN saver'.config = Fields
      <4>1. saver' = AtRest \/ Saves("write") \/ Saves("rename")
        BY <2>7 DEF Create, Write
      <4> QED
        BY <2>0, <2>2, <4>1 DEF AtRest
    <3> QED
      BY <3>1, <3>2, <3>3
  <2>4. CASE Rename
    BY <2>0, <2>4 DEF Rename, AtRest, NoTemp
  <2>5. CASE Restarted
    BY <2>0, <2>5, NamedHasBoth DEF Restarted, AtRest
  <2>6. CASE UNCHANGED configuration
    BY <2>6 DEF configuration
  <2> QED
    BY <2>1, <2>3, <2>4, <2>5, <2>6, <2>7 DEF Serve, Serving
<1> QED
  BY <1>1, <1>2

(* A thread goes on to some station. *)
Going(w) == \E change : "at" \in DOMAIN change /\ change.at \in Stations /\ Goes(w, change)

LEMMA WhatGoesOn ==
  ASSUME NEW w \in Workers, NEW to \in Stations, NEW x
  PROVE  /\ Goes(w, [at |-> to]) => Going(w)
         /\ Goes(w, [at |-> to, channel |-> x]) => Going(w)
         /\ Goes(w, [at |-> to, path |-> x]) => Going(w)
         /\ Goes(w, [at |-> to, tracked |-> x]) => Going(w)
         /\ Goes(w, [at |-> to, manifest |-> x]) => Going(w)
         /\ Goes(w, [at |-> to, signature |-> x]) => Going(w)
         /\ Goes(w, [at |-> to, seen |-> x]) => Going(w)
         /\ Goes(w, [at |-> to, list |-> x]) => Going(w)
         /\ Goes(w, [at |-> to, install |-> x]) => Going(w)
<1>1. ASSUME NEW change, "at" \in DOMAIN change, change.at = to PROVE Goes(w, change) => Going(w)
  BY <1>1 DEF Going
<1>2. \A change : "at" \in DOMAIN change /\ change.at = to => (Goes(w, change) => Going(w))
  BY <1>1
<1>3. Goes(w, [at |-> to]) => Going(w)
  BY <1>2
<1>4. Goes(w, [at |-> to, channel |-> x]) => Going(w)
  BY <1>2
<1>5. Goes(w, [at |-> to, path |-> x]) => Going(w)
  BY <1>2
<1>6. Goes(w, [at |-> to, tracked |-> x]) => Going(w)
  BY <1>2
<1>7. Goes(w, [at |-> to, manifest |-> x]) => Going(w)
  BY <1>2
<1>8. Goes(w, [at |-> to, signature |-> x]) => Going(w)
  BY <1>2
<1>9. Goes(w, [at |-> to, seen |-> x]) => Going(w)
  BY <1>2
<1>10. Goes(w, [at |-> to, list |-> x]) => Going(w)
  BY <1>2
<1>11. Goes(w, [at |-> to, install |-> x]) => Going(w)
  BY <1>2
<1> QED
  BY <1>3, <1>4, <1>5, <1>6, <1>7, <1>8, <1>9, <1>10, <1>11, Zenon

(* A turn ends in going on, in an answer, or at rest with nothing said. *)
LEMMA HowATurnEnds ==
  ASSUME KeptInv, DiscoveryTypeOK, NEW w \in Workers, UNCHANGED <<service, clock>>,
         \/ Going(w) /\ UNCHANGED <<availability, round>>
         \/ \E status \in Statuses : \E offer : Ends(w, status, offer)
         \/ Rests(w) /\ UNCHANGED <<availability, round>>
  PROVE  DiscoveryTypeOK'
<1>1. \A v \in Workers : work'[v].at \in Stations
  <2>1. CASE Going(w)
    <3>1. PICK change : "at" \in DOMAIN change /\ change.at \in Stations /\ Goes(w, change)
      BY <2>1 DEF Going
    <3> QED
      BY <3>1, Gone, FieldsOfWork DEF KeptInv, DiscoveryTypeOK
  <2>2. CASE Rests(w)
    BY <2>2, Rested DEF KeptInv, DiscoveryTypeOK, Stations
  <2> QED
    BY <2>1, <2>2 DEF Ends
<1>2. availability'.status \in Statuses /\ round' \in {"waits", "due", "checks"}
  <2>1. ASSUME NEW status \in Statuses, NEW offer, Finds(w, Answered(status, w, offer))
        PROVE  availability'.status \in Statuses /\ round' \in {"waits", "due", "checks"}
    <3>1. Answered(status, w, offer).status = status
      BY DEF Answered
    <3> HIDE DEF Statuses
    <3> QED
      BY <2>1, <3>1 DEF Finds, DiscoveryTypeOK
  <2> HIDE DEF Statuses
  <2> QED
    BY <2>1 DEF Ends, DiscoveryTypeOK
<1> QED
  BY <1>1, <1>2 DEF DiscoveryTypeOK

LEMMA ThreadsAreTyped ==
  ASSUME KeptInv, DiscoveryTypeOK, NEW w \in Workers, Work(w) PROVE DiscoveryTypeOK' /\ UNCHANGED configuration
<1>1. UNCHANGED <<configuration, service, clock>>
  BY DEF Work, LoadConfig, AskFeed, Track, FetchManifest, FetchSignature, ReadHeld, FetchList, StoreList, Judge, WriteSlot, Rest
<1>2. {"ask", "track", "manifest", "signature", "held", "list", "store", "judge", "write"} \subseteq Stations
  BY DEF Stations
<1>3. {"not configured", "failed", "available", "up to date"} \subseteq Statuses
  BY DEF Statuses
<1> DEFINE Still == UNCHANGED <<availability, round>>
           EndsSomehow == \E status \in Statuses : \E offer : Ends(w, status, offer)
<1>4. CASE LoadConfig(w)
  <2>1. (Goes(w, [at |-> "ask", channel |-> Tracked(Load.is)]) /\ Still) \/ \E status \in {"not configured", "failed"} : Ends(w, status, NoOffer)
    BY <1>4, Zenon DEF LoadConfig
  <2>2. (Going(w) /\ Still) \/ EndsSomehow
    BY <1>2, <1>3, <2>1, WhatGoesOn, Zenon
  <2> QED
    BY <1>1, <2>2, HowATurnEnds
<1>5. CASE AskFeed(w) \/ Track(w) \/ FetchManifest(w) \/ FetchSignature(w)
  <2>1. (Going(w) /\ Still) \/ EndsSomehow
    BY <1>2, <1>3, <1>5, WhatGoesOn, Zenon DEF AskFeed, Track, FetchManifest, FetchSignature, ComesToNothing
  <2> QED
    BY <1>1, <2>1, HowATurnEnds
<1>6. CASE ReadHeld(w) \/ FetchList(w) \/ StoreList(w)
  <2>1. Going(w) /\ Still
    BY <1>2, <1>6, WhatGoesOn, Zenon DEF ReadHeld, FetchList, StoreList
  <2> QED
    BY <1>1, <2>1, HowATurnEnds
<1>7. CASE Judge(w)
  <2>1. (Goes(w, [at |-> "write"]) /\ Still) \/ \E status \in {"available", "up to date", "failed"}, offer \in {work[w].manifest, NoOffer} : Ends(w, status, offer)
    BY <1>7, Zenon DEF Judge
  <2>2. (Going(w) /\ Still) \/ EndsSomehow
    BY <1>2, <1>3, <2>1, WhatGoesOn, Zenon
  <2> QED
    BY <1>1, <2>2, HowATurnEnds
<1>8. CASE WriteSlot(w)
  BY <1>1, <1>8, HowATurnEnds DEF WriteSlot
<1> QED
  BY <1>1, <1>4, <1>5, <1>6, <1>7, <1>8 DEF Work

(* The rest of what happens to updates. *)
LEMMA UpdatesAreTyped ==
  ASSUME KeptInv, ConfigurationTypeOK, DiscoveryTypeOK, DiscoveryNext
  PROVE  DiscoveryTypeOK' /\ ConfigurationTypeOK'
<1>0. KeptInv => StoredInv
  BY DEF KeptInv
<1>1. UNCHANGED configuration => ConfigurationTypeOK'
  BY DEF configuration, ConfigurationTypeOK
<1>2. CASE DayPasses \/ TimePasses \/ Republish
  <2>1. UNCHANGED <<configuration, availability, work>> /\ round' \in {round, "due"}
    BY <1>2 DEF DayPasses, TimePasses, Republish, Rest
  <2>2. clock' \in 0..Latest
    BY <1>2, DiscoveryAssumption DEF DayPasses, TimePasses, Republish, Rest, DiscoveryTypeOK
  <2>3. service'.offer \in Offers /\ service'.changes \in 0..Republished
    BY <1>2, DiscoveryAssumption DEF DayPasses, TimePasses, Republish, Rest, DiscoveryTypeOK
  <2> QED
    BY <1>1, <2>1, <2>2, <2>3 DEF DiscoveryTypeOK
<1>3. ASSUME NEW w \in Workers, Going(w) PROVE \A v \in Workers : work'[v].at \in Stations
  <2>1. PICK change : "at" \in DOMAIN change /\ change.at \in Stations /\ Goes(w, change)
    BY <1>3 DEF Going
  <2> QED
    BY <2>1, Gone, FieldsOfWork DEF KeptInv, DiscoveryTypeOK
<1>4. CASE Round \/ Button
  <2>1. UNCHANGED <<configuration, service, clock>> /\ round' \in {round, "waits", "checks"}
    BY <1>4 DEF Round, Button, Rest
  <2>2. UNCHANGED <<availability, work>> \/ (Begins /\ Goes("check", [at |-> "load"]))
    <3>1. CASE Round
      <4>1. CASE ~Skips /\ availability.status # "checking"
        BY <3>1, <4>1 DEF Round
      <4>2. CASE ~(~Skips /\ availability.status # "checking")
        <5>1. UNCHANGED availability /\ UNCHANGED work
          BY <3>1, <4>2 DEF Round
        <5> QED
          BY <5>1
      <4> QED
        BY <4>1, <4>2
    <3>2. CASE Button
      BY <3>2, Zenon DEF Button
    <3> QED
      BY <1>4, <3>1, <3>2
  <2>3. Begins => availability'.status = "checking"
    BY DEF Begins, KeptInv, Filled
  <2>4. Goes("check", [at |-> "load"]) => Going("check")
    BY WhatGoesOn DEF Workers, Stations
  <2> QED
    BY <1>1, <1>3, <2>1, <2>2, <2>3, <2>4 DEF DiscoveryTypeOK, Workers, Statuses
<1>5. CASE Request
  <2>1. UNCHANGED <<configuration, service, clock, availability, round>>
    BY <1>5 DEF Request, Rest
  <2>2. PICK install \in BOOLEAN : Goes("install", [at |-> "load", install |-> install])
    BY <1>5 DEF Request
  <2>3. Going("install")
    BY <2>2, WhatGoesOn DEF Workers, Stations
  <2> QED
    BY <1>1, <1>3, <2>1, <2>3 DEF DiscoveryTypeOK, Workers
<1>6. CASE Restart
  <2>1. ConfigurationTypeOK'
    BY <1>0, <1>6, ConfigurationIsTyped DEF Restart
  <2> QED
    BY <1>6, <2>1 DEF Restart, DiscoveryTypeOK, Nothing, Resting, Stations, Statuses
<1>7. CASE Serve /\ UNCHANGED discovery
  <2>1. ConfigurationTypeOK'
    BY <1>0, <1>7, ConfigurationIsTyped
  <2> QED
    BY <1>7, <2>1 DEF discovery, DiscoveryTypeOK
<1> QED
  BY <1>1, <1>2, <1>4, <1>5, <1>6, <1>7, ThreadsAreTyped DEF DiscoveryNext

LEMMA DiscoveryBegins == DiscoveryInit => DiscoveryTypeOK
<1> SUFFICES ASSUME DiscoveryInit PROVE DiscoveryTypeOK
  OBVIOUS
<1>1. service.offer \in Offers /\ service.changes = 0 /\ clock \in 0..Latest
  BY DEF DiscoveryInit
<1>2. availability.status = "never checked" /\ round = "waits" /\ \A w \in Workers : work[w].at = "rest"
  BY DEF DiscoveryInit, Nothing, Resting
<1>3. 0 \in 0..Republished
  BY DiscoveryAssumption
<1>4. "never checked" \in Statuses /\ "rest" \in Stations /\ "waits" \in {"waits", "due", "checks"}
  BY DEF Stations, Statuses
<1> QED
  BY <1>1, <1>2, <1>3, <1>4, Zenon DEF DiscoveryTypeOK

(* Of the disks there are, one sorts first. *)
LEMMA OneIsFirst == ASSUME BootTypeOK, Candidates # {} PROVE First \in Disks
<1> DEFINE places == {order[d] : d \in Candidates}
<1>1. Candidates \subseteq Disks /\ order \in [Disks -> 1..Cardinality(Disks)]
  BY DEF BootTypeOK, Candidates, Orders
<1>2. places \in SUBSET Nat /\ places # {}
  BY <1>1
<1>3. PICK n \in places : \A i \in places : ~(<<i, n>> \in OpToRel(<, Nat))
  <2> HIDE DEF places
  <2> QED
    BY <1>2, NatLessThanWellFounded, WFMin
<1>4. PICK d \in Candidates : n = order[d]
  OBVIOUS
<1>5. ASSUME NEW e \in Candidates PROVE order[d] <= order[e]
  <2>1. order[e] \in places /\ order[e] \in Nat /\ order[d] \in Nat
    BY <1>1, <1>2
  <2>2. ~(<<order[e], order[d]>> \in OpToRel(<, Nat))
    BY <1>3, <1>4, <2>1
  <2>3. ~(order[e] < order[d])
    BY <2>1, <2>2 DEF OpToRel
  <2> QED
    BY <2>1, <2>3
<1>6. First \in Candidates
  BY <1>5 DEF First
<1> QED
  BY <1>1, <1>6

(* Disks can be put in an order. *)
LEMMA ThereIsAnOrder == Orders # {}
<1>1. PICK f \in Bijection(1..Cardinality(Disks), Disks) : TRUE
  BY DisksAssumption, FS_CardinalityType DEF ExistsBijection
<1>2. f \in [1..Cardinality(Disks) -> Disks] /\ \A d \in Disks : \E i \in 1..Cardinality(Disks) : f[i] = d
  BY <1>1 DEF Bijection, Surjection
<1> DEFINE g == [d \in Disks |-> CHOOSE i \in 1..Cardinality(Disks) : f[i] = d]
<1>3. \A d \in Disks : g[d] \in 1..Cardinality(Disks) /\ f[g[d]] = d
  BY <1>2
<1>4. g \in [Disks -> 1..Cardinality(Disks)] /\ \A d, e \in Disks : g[d] = g[e] => d = e
  BY <1>3
<1> HIDE DEF g
<1> QED
  BY <1>4 DEF Orders

LEMMA BootIsTyped ==
  /\ BootInit => BootTypeOK
  /\ BootTypeOK /\ [BootNext]_boot => BootTypeOK'
<1>1. ASSUME BootInit PROVE BootTypeOK
  <2>1. order \in Orders /\ expects \in Layouts
    BY <1>1, ThereIsAnOrder, LayoutsAssumption DEF BootInit
  <2>2. stamp \in [Disks -> Layouts \cup {Unstamped}] /\ boots \in 0..MaxBoots
    BY <1>1, LayoutsAssumption DEF BootInit
  <2> QED
    BY <1>1, <2>1, <2>2 DEF BootInit, BootTypeOK, Actions
<1>2. ASSUME BootTypeOK, [BootNext]_boot PROVE BootTypeOK'
  <2> USE <1>2 DEF BootTypeOK, plan, taken, Steps
  <2>1. CASE PowerOn \/ GoDown
    <3>1. phase' \in {"off", "args"} /\ expects' \in Layouts /\ order' \in Orders /\ UNCHANGED stamp /\ Forgets
      BY <2>1 DEF PowerOn, GoDown
    <3>2. boots' \in 0..MaxBoots
      BY <2>1, LayoutsAssumption DEF PowerOn, GoDown
    <3> QED
      BY <3>1, <3>2 DEF Forgets, Actions
  <2>2. CASE ParseArgs \/ StepFails
    BY <2>2 DEF ParseArgs, StepFails
  <2>3. CASE DecideState
    <3>1. FoundDisk \in Layouts \cup {Unstamped}
      BY DEF FoundDisk
    <3>2. action' \in Actions
      BY <2>3 DEF DecideState, Decide, Actions
    <3> QED
      BY <2>3, <3>2 DEF DecideState
  <2>4. CASE Ask \/ MountPseudo \/ ReadSuperblock \/ CreateVerity \/ MountUsr \/ SwitchRoot \/ Timeout
    BY <2>4, DisksAssumption DEF Ask, MountPseudo, ReadSuperblock, CreateVerity, MountUsr, SwitchRoot, Timeout
  <2>5. CASE ResolveData \/ ResolveHash \/ MountVar
    <3>1. First \in Disks
      BY <2>5, OneIsFirst DEF ResolveData, ResolveHash, MountVar
    <3> QED
      BY <2>5, <3>1 DEF ResolveData, ResolveHash, MountVar
  <2>6. CASE ApplyState
    <3>1. action.kind \in {"proceed", "initialise", "migrate", "restore"}
      BY DEF Actions, Proceed, Initialise, Migrate, Restore
    <3>2. phase' \in {"root", "stamp", "panic"}
      BY <2>6, <3>1 DEF ApplyState, AfterState
    <3>3. stamp' \in [Disks -> Layouts \cup {Unstamped}]
      BY <2>6 DEF ApplyState
    <3> QED
      BY <2>6, <3>2, <3>3 DEF ApplyState
  <2>7. CASE WriteStamp
    <3>1. action.to \in Layouts \cup {Unstamped}
      BY DEF Actions, Proceed, Initialise, Migrate, Restore
    <3> QED
      BY <2>7, <3>1 DEF WriteStamp
  <2>8. ASSUME NEW d \in Disks, Enumerate(d) PROVE BootTypeOK'
    BY <2>8 DEF Enumerate
  <2>9. CASE UNCHANGED boot
    BY <2>9 DEF boot
  <2> QED
    BY <2>1, <2>2, <2>3, <2>4, <2>5, <2>6, <2>7, <2>8, <2>9 DEF BootNext, BootStep
<1> QED
  BY <1>1, <1>2


(* Every variable of the sum keeps its type. *)
THEOREM PartsAreTyped == SumSpec => []Types
<1> DEFINE I == KeptInv /\ LaunchInv /\ Types
<1>1. SumInit => I
  BY KeptBegins, LaunchBegins, ConfigurationIsTyped, DiscoveryBegins, BootIsTyped, ServicesBegin
  DEF SumInit, Types, LaunchInv, ServiceInv
<1>2. ASSUME KeptInv, LaunchInv, ConfigurationTypeOK, DiscoveryTypeOK, BootTypeOK, [SumNext]_everything
      PROVE  KeptInv' /\ LaunchInv' /\ ConfigurationTypeOK' /\ DiscoveryTypeOK' /\ BootTypeOK'
  <2>1. LaunchInv' /\ BootTypeOK' /\ KeptInv'
    BY <1>2, StepIsOfAPart, LaunchGoesOn, BootIsTyped, KeptGoesOn, KeptStays
  <2>2. CASE DiscoveryNext
    BY <1>2, <2>1, <2>2, UpdatesAreTyped
  <2>3. CASE UNCHANGED <<configuration, discovery>>
    BY <1>2, <2>1, <2>3 DEF configuration, discovery, ConfigurationTypeOK, DiscoveryTypeOK
  <2> QED
    BY <1>2, <2>2, <2>3, <2>1, StepIsOfAPart
<1> DEFINE J == KeptInv /\ LaunchInv /\ ConfigurationTypeOK /\ DiscoveryTypeOK /\ BootTypeOK
<1>3. SumInit => J
  BY <1>1 DEF Types
<1>4. J /\ [SumNext]_everything => J'
  BY <1>2
<1>5. J /\ TypeOK => Types
  BY DEF Types, LaunchInv
<1> HIDE DEF J
<1> QED
  BY <1>3, <1>4, <1>5, ServicesAreKept, PTL DEF SumSpec
=============================================================================
