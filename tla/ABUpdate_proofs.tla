--------------------------- MODULE ABUpdate_proofs ---------------------------
(***************************************************************************)
(* What ABUpdate guarantees for every set of releases, every quality of     *)
(* them, every number of tries and of faults, with or without discipline.   *)
(***************************************************************************)
EXTENDS ABUpdateTrial, TLAPS

USE DEF Slots, NoRelease, Permanent, Torn

(* plexosd runs only on a machine that is up. *)
DaemonNeedsMachine == DaemonUp => IsUp

IInv == TypeOK /\ DaemonNeedsMachine /\ RunningSlotIntact /\ JobIsSound

-----------------------------------------------------------------------------
(* What the operators on entries keep: no new (release, slot) pair and no new type. *)

(* The other of two slots is a slot, and not the same one. *)
LEMMA OtherSlot == \A s \in Slots : Other(s) \in Slots /\ Other(s) # s
BY DEF Other

(* The bootloader's rename only lowers a counter that was positive. *)
LEMMA BootedKeeps ==
  ASSUME esp \subseteq Entry, NEW e \in esp
  PROVE  /\ Booted(esp, e) \subseteq Entry
         /\ \A f \in Booted(esp, e) : \E g \in esp : g.rel = f.rel /\ g.slot = f.slot
<1>1. CASE e.left > 0 /\ ~(\E f \in esp : f.rel = e.rel /\ f.left = e.left - 1)
  <2> DEFINE lower == [e EXCEPT !.left = @ - 1]
  <2>1. e \in Entry
    OBVIOUS
  <2>2. e.left \in 1..Tries
    BY <1>1, <2>1, BoundAssumption DEF Entry
  <2>3. lower \in Entry /\ lower.rel = e.rel /\ lower.slot = e.slot
    BY <2>1, <2>2, BoundAssumption DEF Entry
  <2>4. Booted(esp, e) = (esp \ {e}) \cup {lower}
    BY <1>1 DEF Booted
  <2> QED
    BY <2>3, <2>4
<1>2. CASE ~(e.left > 0 /\ ~(\E f \in esp : f.rel = e.rel /\ f.left = e.left - 1))
  BY <1>2 DEF Booted
<1> QED
  BY <1>1, <1>2

(* mark_good changes a counter and nothing else. *)
LEMMA MarkedGoodKeeps ==
  ASSUME esp \subseteq Entry, NEW e \in esp
  PROVE  /\ MarkedGood(esp, e) \subseteq Entry
         /\ \A f \in MarkedGood(esp, e) : \E g \in esp : g.rel = f.rel /\ g.slot = f.slot
<1> DEFINE good == [e EXCEPT !.left = Permanent]
<1>1. good \in Entry /\ good.rel = e.rel /\ good.slot = e.slot
  BY DEF Entry
<1> QED
  BY <1>1 DEF MarkedGood

(* A slot that verifies for an entry holds exactly that entry's release. *)
LEMMA VerifiesMeansWhole ==
  ASSUME slots \in [Slots -> [usr : Content, verity : Content]],
         NEW e \in Entry, Verifies(e, slots)
  PROVE  slots[e.slot] = [usr |-> e.rel, verity |-> e.rel]
BY DEF Verifies, Entry

(* The entry a run installs is an entry, before and after the copy has completed. *)
LEMMA NewEntryTyped ==
  ASSUME job.rel \in Releases, Target \in Slots
  PROVE  \A whole \in BOOLEAN : NewEntry(whole) \in Entry
<1>1. Tries \in (0..Tries) \cup {Permanent}
  BY BoundAssumption
<1> QED
  BY <1>1 DEF NewEntry, Entry

-----------------------------------------------------------------------------
(* The installed machine satisfies the invariant. *)
LEMMA InitInv == Init => IInv
<1> SUFFICES ASSUME Init PROVE IInv
  OBVIOUS
<1>1. TypeOK
  BY ReleasesAssumption, BoundAssumption
  DEF Init, TypeOK, Entry, Content, Gate, NoJob
<1>2. RunningSlotIntact
  BY ReleasesAssumption DEF Init, RunningSlotIntact, IsUp
<1>3. JobIsSound
  BY DEF Init, JobIsSound, NoJob, IsRunning
<1>4. DaemonNeedsMachine
  BY ReleasesAssumption DEF Init, DaemonNeedsMachine, IsUp
<1> QED
  BY <1>1, <1>2, <1>3, <1>4 DEF IInv

-----------------------------------------------------------------------------
(* One step.  A boot runs only what verified; every write goes to the other slot; the
   release and the target of a run do not change while the machine runs. *)

(* Every step of the specification keeps it, one by one. *)
LEMMA StepInv == IInv /\ [Next]_vars => IInv'
<1> SUFFICES ASSUME IInv, [Next]_vars PROVE IInv'
  OBVIOUS
<1> USE ReleasesAssumption, BoundAssumption
<1>a. TypeOK /\ DaemonNeedsMachine /\ RunningSlotIntact /\ JobIsSound
  BY DEF IInv
<1> USE <1>a
<1>b. Target \in Slots /\ (IsUp => Target # running.slot)
  BY OtherSlot DEF Target, TypeOK
<1>1. ASSUME NEW e \in esp, Boot(e) PROVE IInv'
  <2>0. esp' \subseteq Entry /\ e \in Entry
    BY <1>1, BootedKeeps DEF Boot, TypeOK
  <2>1. TypeOK'
    BY <1>1, <2>0 DEF Boot, TypeOK, Entry, Gate
  <2>2. RunningSlotIntact'
    BY <1>1, <2>0, VerifiesMeansWhole DEF Boot, TypeOK, RunningSlotIntact, IsUp
  <2>3. JobIsSound'
    BY <1>1 DEF Boot, JobIsSound, IsUp, IsRunning
  <2>4. DaemonNeedsMachine'
    BY <1>1, <2>0 DEF Boot, Gate, Entry, DaemonNeedsMachine, DaemonUp, IsUp
  <2> QED
    BY <2>1, <2>2, <2>3, <2>4 DEF IInv
<1>2. CASE PowerLoss
  <2>1. TypeOK'
    BY <1>2 DEF PowerLoss, GoDown, durable, Gate, NoJob, Off, Fault, TypeOK, Content
  <2>2. RunningSlotIntact'
    BY <1>2 DEF PowerLoss, GoDown, durable, Gate, NoJob, Off, Fault, RunningSlotIntact, IsUp, TypeOK
  <2>3. JobIsSound'
    BY <1>2 DEF PowerLoss, GoDown, durable, Gate, NoJob, Off, Fault, JobIsSound, IsRunning, IsUp, Target, TypeOK
  <2>4. DaemonNeedsMachine'
    BY <1>2 DEF PowerLoss, GoDown, Gate, DaemonNeedsMachine, DaemonUp, IsUp
  <2> QED
    BY <2>1, <2>2, <2>3, <2>4 DEF IInv
<1>3. CASE OperatorRestart
  <2>1. TypeOK'
    BY <1>3 DEF OperatorRestart, GoDown, durable, Gate, NoJob, Off, Fault, TypeOK, Content
  <2>2. RunningSlotIntact'
    BY <1>3 DEF OperatorRestart, GoDown, durable, Gate, NoJob, Off, Fault, RunningSlotIntact, IsUp, TypeOK
  <2>3. JobIsSound'
    BY <1>3 DEF OperatorRestart, GoDown, durable, Gate, NoJob, Off, Fault, JobIsSound, IsRunning, IsUp, Target, TypeOK
  <2>4. DaemonNeedsMachine'
    BY <1>3 DEF OperatorRestart, GoDown, Gate, DaemonNeedsMachine, DaemonUp, IsUp
  <2> QED
    BY <2>1, <2>2, <2>3, <2>4 DEF IInv
<1>4. CASE DaemonCrash
  <2>1. TypeOK'
    BY <1>4 DEF DaemonCrash, GoDown, durable, Gate, NoJob, Off, Fault, TypeOK, Content
  <2>2. RunningSlotIntact'
    BY <1>4 DEF DaemonCrash, GoDown, durable, Gate, NoJob, Off, Fault, RunningSlotIntact, IsUp, TypeOK
  <2>3. JobIsSound'
    BY <1>4 DEF DaemonCrash, GoDown, durable, Gate, NoJob, Off, Fault, JobIsSound, IsRunning, IsUp, Target, TypeOK
  <2>4. DaemonNeedsMachine'
    BY <1>4 DEF DaemonCrash, Gate, DaemonNeedsMachine, DaemonUp, IsUp
  <2> QED
    BY <2>1, <2>2, <2>3, <2>4 DEF IInv
<1>5. CASE DaemonRestart
  <2>1. TypeOK'
    BY <1>5 DEF DaemonRestart, durable, Gate, TypeOK, Content
  <2>2. RunningSlotIntact'
    BY <1>5 DEF DaemonRestart, durable, Gate, RunningSlotIntact, IsUp, TypeOK
  <2>3. JobIsSound'
    BY <1>5 DEF DaemonRestart, durable, Gate, JobIsSound, IsRunning, IsUp, Target, TypeOK
  <2>4. DaemonNeedsMachine'
    BY <1>5 DEF DaemonRestart, Gate, DaemonNeedsMachine, DaemonUp, IsUp
  <2> QED
    BY <2>1, <2>2, <2>3, <2>4 DEF IInv
<1>6. CASE GateFindsHealthy
  <2>a. running.rel \in Releases
    BY <1>6 DEF GateFindsHealthy, TypeOK, DaemonNeedsMachine, DaemonUp, IsUp
  <2>b. faults' \in 0..MaxFaults
    BY <1>6 DEF GateFindsHealthy, CannotMount, Fault, TypeOK
  <2>1. TypeOK'
    <3>1. proven' \subseteq Releases
      BY <1>6, <2>a DEF GateFindsHealthy, TypeOK
    <3>2. mounted' \in {"free", "gate", "job", "nobody"}
      BY <1>6 DEF GateFindsHealthy, Mount, CannotMount, TypeOK
    <3>3. gate' \in {Gate("healthy"), Decided("unrecorded")}
      BY <1>6 DEF GateFindsHealthy
    <3> QED
      BY <1>6, <2>b, <3>1, <3>2, <3>3 DEF GateFindsHealthy, durable, Gate, Decided, TypeOK
  <2>2. RunningSlotIntact'
    BY <1>6 DEF GateFindsHealthy, durable, Gate, Decided, Mount, Unmount, StaysMounted, CannotMount, Fault, RunningSlotIntact, IsUp, TypeOK
  <2>3. JobIsSound'
    BY <1>6 DEF GateFindsHealthy, durable, Gate, Decided, Mount, Unmount, StaysMounted, CannotMount, Fault, JobIsSound, IsRunning, IsUp, Target, TypeOK
  <2>4. DaemonNeedsMachine'
    BY <1>6 DEF GateFindsHealthy, Gate, Decided, DaemonNeedsMachine, DaemonUp, IsUp
  <2> QED
    BY <2>1, <2>2, <2>3, <2>4 DEF IInv
<1>7. CASE GateClear
  <2>0. esp' \subseteq Entry
    <3>1. CASE esp' = esp
      BY <3>1 DEF TypeOK
    <3>2. ASSUME NEW e \in StillCounted(esp), esp' = MarkedGood(esp, e) PROVE esp' \subseteq Entry
      BY <3>2, MarkedGoodKeeps DEF TypeOK, StillCounted
    <3> QED
      BY <1>7, <3>1, <3>2 DEF GateClear
  <2>1. TypeOK'
    BY <1>7, <2>0 DEF GateClear, TypeOK, Decided, Unmount, StaysMounted, Fault
  <2>2. RunningSlotIntact'
    BY <1>7 DEF GateClear, RunningSlotIntact, IsUp
  <2>3. JobIsSound'
    BY <1>7 DEF GateClear, JobIsSound, IsRunning, IsUp, Target
  <2>4. DaemonNeedsMachine'
    BY <1>7 DEF GateClear, Gate, Decided, DaemonNeedsMachine, DaemonUp, IsUp
  <2> QED
    BY <2>1, <2>2, <2>3, <2>4 DEF IInv
<1>8. CASE GateFindsUnhealthy
  <2>1. TypeOK'
    BY <1>8 DEF GateFindsUnhealthy, durable, Gate, Decided, Mount, Unmount, StaysMounted, CannotMount, Fault, TypeOK, Content
  <2>2. RunningSlotIntact'
    BY <1>8 DEF GateFindsUnhealthy, durable, Gate, Decided, Mount, Unmount, StaysMounted, CannotMount, Fault, RunningSlotIntact, IsUp, TypeOK
  <2>3. JobIsSound'
    BY <1>8 DEF GateFindsUnhealthy, durable, Gate, Decided, Mount, Unmount, StaysMounted, CannotMount, Fault, JobIsSound, IsRunning, IsUp, Target, TypeOK
  <2>4. DaemonNeedsMachine'
    BY <1>8 DEF GateFindsUnhealthy, Gate, Decided, DaemonNeedsMachine, DaemonUp, IsUp
  <2> QED
    BY <2>1, <2>2, <2>3, <2>4 DEF IInv
<1>9. CASE GateWeighsRestart
  <2>1. TypeOK'
    BY <1>9 DEF GateWeighsRestart, durable, Gate, Decided, Mount, Unmount, StaysMounted, CannotMount, Fault, TypeOK, Content
  <2>2. RunningSlotIntact'
    BY <1>9 DEF GateWeighsRestart, durable, Gate, Decided, Mount, Unmount, StaysMounted, CannotMount, Fault, RunningSlotIntact, IsUp, TypeOK
  <2>3. JobIsSound'
    BY <1>9 DEF GateWeighsRestart, durable, Gate, Decided, Mount, Unmount, StaysMounted, CannotMount, Fault, JobIsSound, IsRunning, IsUp, Target, TypeOK
  <2>4. DaemonNeedsMachine'
    BY <1>9 DEF GateWeighsRestart, Gate, Decided, DaemonNeedsMachine, DaemonUp, IsUp
  <2> QED
    BY <2>1, <2>2, <2>3, <2>4 DEF IInv
<1>10. CASE GateRestart
  <2>1. TypeOK'
    BY <1>10 DEF GateRestart, GoDown, durable, Gate, NoJob, Off, Fault, TypeOK, Content
  <2>2. RunningSlotIntact'
    BY <1>10 DEF GateRestart, GoDown, durable, Gate, NoJob, Off, Fault, RunningSlotIntact, IsUp, TypeOK
  <2>3. JobIsSound'
    BY <1>10 DEF GateRestart, GoDown, durable, Gate, NoJob, Off, Fault, JobIsSound, IsRunning, IsUp, Target, TypeOK
  <2>4. DaemonNeedsMachine'
    BY <1>10 DEF GateRestart, GoDown, Gate, DaemonNeedsMachine, DaemonUp, IsUp
  <2> QED
    BY <2>1, <2>2, <2>3, <2>4 DEF IInv
<1>11. ASSUME NEW r \in Releases, Request(r) PROVE IInv'
  <2>1. TypeOK'
    BY <1>11 DEF Request, SameMachine, SameEsp, JobStep, JobFails, NoJob, Fault, TypeOK
  <2>2. RunningSlotIntact'
    BY <1>11 DEF Request, SameMachine, SameEsp, JobStep, JobFails, NoJob, Fault, RunningSlotIntact, IsUp
  <2>3. JobIsSound'
    BY <1>11 DEF Request, SameMachine, SameEsp, JobStep, JobFails, NoJob, Fault, JobIsSound, IsRunning, IsUp, DaemonUp, DaemonNeedsMachine, Target
  <2>4. DaemonNeedsMachine'
    BY <1>11 DEF Request, SameMachine, DaemonNeedsMachine, DaemonUp, IsUp
  <2> QED
    BY <2>1, <2>2, <2>3, <2>4 DEF IInv
<1>12. CASE Evaluate
  <2>1. TypeOK'
    BY <1>12 DEF Evaluate, SameMachine, SameEsp, JobStep, JobFails, NoJob, Fault, TypeOK, Content
  <2>2. RunningSlotIntact'
    BY <1>12 DEF Evaluate, SameMachine, SameEsp, JobStep, JobFails, NoJob, Fault, RunningSlotIntact, IsUp, TypeOK
  <2>a. ASSUME JobFails \/ job' = NoJob PROVE JobIsSound'
    <3>1. job'.pc \in {"idle", "failed"}
      BY <2>a DEF JobFails, NoJob
    <3> QED
      BY <3>1 DEF JobIsSound, IsRunning
  <2>b. ASSUME SequenceAllows(job.rel), PlanInstalls(job.rel), job' = JobStep("stage")
        PROVE  JobIsSound'
    <3>1. job.rel \in Releases /\ job.rel > running.rel /\ job.rel >= floor
      <4>0. Releases \cup {0} \subseteq Nat
        OBVIOUS
      <4>1. job.rel \in Releases \cup {0} /\ running.rel \in Releases \cup {0} /\ floor \in Releases \cup {0}
        BY DEF TypeOK
      <4>2. job.rel >= Max2(floor, running.rel) /\ job.rel > running.rel
        BY <2>b DEF SequenceAllows, SequenceFloor, PlanInstalls
      <4> QED
        <5>1. job.rel \in Nat /\ running.rel \in Nat /\ floor \in Nat
          BY <4>0, <4>1
        <5>2. job.rel >= floor /\ job.rel > running.rel
          BY <4>2, <5>1 DEF Max2
        <5>3. job.rel # 0
          BY <5>1, <5>2
        <5> QED
          BY <4>1, <5>2, <5>3
    <3>2. job' = [pc |-> "stage", rel |-> job.rel, prune |-> job.prune]
      BY <2>b DEF JobStep, TypeOK
    <3>3. IsUp
      BY <1>12 DEF Evaluate, JobIsSound, IsRunning
    <3> QED
      <4>1. job'.pc = "stage" /\ job'.rel = job.rel
        BY <3>2
      <4>2. IsUp' /\ running' = running /\ floor' = floor
        BY <1>12, <3>3 DEF Evaluate, SameMachine, IsUp
      <4> QED
        BY <3>1, <4>1, <4>2 DEF JobIsSound, IsRunning
  <2>3. JobIsSound'
    BY <1>12, <2>a, <2>b DEF Evaluate
  <2>4. DaemonNeedsMachine'
    BY <1>12 DEF Evaluate, SameMachine, DaemonNeedsMachine, DaemonUp, IsUp
  <2> QED
    BY <2>1, <2>2, <2>3, <2>4 DEF IInv
<1>13. CASE GiveUp
  <2>1. TypeOK'
    BY <1>13 DEF GiveUp, SameMachine, SameEsp, JobStep, JobFails, NoJob, Fault, TypeOK, Content
  <2>2. RunningSlotIntact'
    BY <1>13 DEF GiveUp, SameMachine, SameEsp, JobStep, JobFails, NoJob, Fault, RunningSlotIntact, IsUp, TypeOK
  <2>3. JobIsSound'
    BY <1>13 DEF GiveUp, SameMachine, SameEsp, JobStep, JobFails, NoJob, Fault, JobIsSound, IsRunning, IsUp, Target, TypeOK
  <2>4. DaemonNeedsMachine'
    BY <1>13 DEF GiveUp, SameMachine, DaemonNeedsMachine, DaemonUp, IsUp
  <2> QED
    BY <2>1, <2>2, <2>3, <2>4 DEF IInv
<1>14. CASE Stage
  <2>0. /\ slots' \in [Slots -> [usr : Content, verity : Content]]
        /\ slots'[Target] = [usr |-> Torn, verity |-> slots[Target].verity]
        /\ IsUp => slots'[running.slot] = slots[running.slot]
    BY <1>14, <1>b DEF Stage, TypeOK, Content, JobIsSound
  <2>1. TypeOK'
    BY <1>14, <2>0 DEF Stage, SameMachine, SameEsp, JobStep, TypeOK
  <2>2. RunningSlotIntact'
    BY <1>14, <2>0 DEF Stage, SameMachine, RunningSlotIntact, IsUp
  <2>3. JobIsSound'
    BY <1>14, <2>0 DEF Stage, SameMachine, JobStep, JobIsSound, IsRunning, IsUp, Target, TypeOK
  <2>4. DaemonNeedsMachine'
    BY <1>14 DEF Stage, SameMachine, DaemonNeedsMachine, DaemonUp, IsUp
  <2> QED
    BY <2>1, <2>2, <2>3, <2>4 DEF IInv
<1>15. CASE WriteUsr
  <2>0. /\ slots' \in [Slots -> [usr : Content, verity : Content]]
        /\ slots'[Target] = [usr |-> job.rel, verity |-> Torn]
        /\ IsUp => slots'[running.slot] = slots[running.slot]
    BY <1>15, <1>b DEF WriteUsr, TypeOK, Content, JobIsSound
  <2>1. TypeOK'
    BY <1>15, <2>0 DEF WriteUsr, SameMachine, SameEsp, JobStep, TypeOK
  <2>2. RunningSlotIntact'
    BY <1>15, <2>0 DEF WriteUsr, SameMachine, RunningSlotIntact, IsUp
  <2>3. JobIsSound'
    BY <1>15, <2>0 DEF WriteUsr, SameMachine, JobStep, JobIsSound, IsRunning, IsUp, Target, TypeOK
  <2>4. DaemonNeedsMachine'
    BY <1>15 DEF WriteUsr, SameMachine, DaemonNeedsMachine, DaemonUp, IsUp
  <2> QED
    BY <2>1, <2>2, <2>3, <2>4 DEF IInv
<1>16. CASE WriteVerity
  <2>0. /\ slots' \in [Slots -> [usr : Content, verity : Content]]
        /\ slots'[Target] = [usr |-> slots[Target].usr, verity |-> job.rel]
        /\ IsUp => slots'[running.slot] = slots[running.slot]
    BY <1>16, <1>b DEF WriteVerity, TypeOK, Content, JobIsSound
  <2>1. TypeOK'
    BY <1>16, <2>0 DEF WriteVerity, SameMachine, SameEsp, JobStep, TypeOK
  <2>2. RunningSlotIntact'
    BY <1>16, <2>0 DEF WriteVerity, SameMachine, RunningSlotIntact, IsUp
  <2>3. JobIsSound'
    BY <1>16, <2>0 DEF WriteVerity, SameMachine, JobStep, JobIsSound, IsRunning, IsUp, Target, TypeOK
  <2>4. DaemonNeedsMachine'
    BY <1>16 DEF WriteVerity, SameMachine, DaemonNeedsMachine, DaemonUp, IsUp
  <2> QED
    BY <2>1, <2>2, <2>3, <2>4 DEF IInv
<1>17. CASE WriteFails
  <2>1. TypeOK'
    BY <1>17 DEF WriteFails, SameMachine, SameEsp, JobStep, JobFails, NoJob, Fault, TypeOK, Content
  <2>2. RunningSlotIntact'
    BY <1>17 DEF WriteFails, SameMachine, SameEsp, JobStep, JobFails, NoJob, Fault, RunningSlotIntact, IsUp, TypeOK
  <2>3. JobIsSound'
    BY <1>17 DEF WriteFails, SameMachine, SameEsp, JobStep, JobFails, NoJob, Fault, JobIsSound, IsRunning, IsUp, Target, TypeOK
  <2>4. DaemonNeedsMachine'
    BY <1>17 DEF WriteFails, SameMachine, DaemonNeedsMachine, DaemonUp, IsUp
  <2> QED
    BY <2>1, <2>2, <2>3, <2>4 DEF IInv
<1>18. CASE MountEsp
  <2>1. TypeOK'
    <3>1. job' \in [pc : {"prune", "failed"}, rel : Releases \cup {NoRelease}, prune : SUBSET Entry]
      <4>1. Superseded(esp, running.rel) \subseteq Entry
        BY DEF Superseded, TypeOK
      <4>2. CASE job' = [job EXCEPT !.pc = "prune", !.prune = Superseded(esp, running.rel)]
        BY <4>1, <4>2 DEF TypeOK
      <4>3. CASE job' = JobStep("prune")
        BY <4>3 DEF JobStep, TypeOK
      <4>4. CASE JobFails
        BY <4>4 DEF JobFails, NoJob
      <4> QED
        BY <1>18, <4>2, <4>3, <4>4 DEF MountEsp
    <3>2. faults' \in 0..MaxFaults /\ mounted' \in {"free", "gate", "job", "nobody"}
      BY <1>18 DEF MountEsp, Mount, CannotMount, Fault, TypeOK
    <3> QED
      BY <1>18, <3>1, <3>2 DEF MountEsp, SameMachine, TypeOK
  <2>2. RunningSlotIntact'
    BY <1>18 DEF MountEsp, SameMachine, SameEsp, JobStep, JobFails, NoJob, Fault, Mount, CannotMount, Superseded, RunningSlotIntact, IsUp, TypeOK
  <2>3. JobIsSound'
    BY <1>18 DEF MountEsp, SameMachine, SameEsp, JobStep, JobFails, NoJob, Fault, Mount, CannotMount, Superseded, JobIsSound, IsRunning, IsUp, Target, TypeOK
  <2>4. DaemonNeedsMachine'
    BY <1>18 DEF MountEsp, SameMachine, DaemonNeedsMachine, DaemonUp, IsUp
  <2> QED
    BY <2>1, <2>2, <2>3, <2>4 DEF IInv
<1>19. ASSUME NEW e \in job.prune, Prune(e) PROVE IInv'
  <2>1. TypeOK'
    BY <1>19 DEF Prune, SameMachine, SameEsp, JobStep, JobFails, NoJob, Fault, TypeOK
  <2>2. RunningSlotIntact'
    BY <1>19 DEF Prune, SameMachine, SameEsp, JobStep, JobFails, NoJob, Fault, RunningSlotIntact, IsUp
  <2>3. JobIsSound'
    BY <1>19 DEF Prune, SameMachine, SameEsp, JobStep, JobFails, NoJob, Fault, JobIsSound, IsRunning, IsUp, Target
  <2>4. DaemonNeedsMachine'
    BY <1>19 DEF Prune, SameMachine, DaemonNeedsMachine, DaemonUp, IsUp
  <2> QED
    BY <2>1, <2>2, <2>3, <2>4 DEF IInv
<1>20. CASE InstallEntry
  <2>1. TypeOK'
    <3>1. job.rel \in Releases
      BY <1>20 DEF InstallEntry, JobIsSound
    <3>2. NewEntry(FALSE) \in Entry /\ NewEntry(TRUE) \in Entry
      BY <3>1, NewEntryTyped, <1>b
    <3>3. esp' \subseteq Entry
      BY <1>20, <3>2 DEF InstallEntry, TypeOK
    <3>4. faults' \in 0..MaxFaults
      BY <1>20 DEF InstallEntry, Fault, TypeOK
    <3> QED
      BY <1>20, <3>3, <3>4, ZenonT(60) DEF InstallEntry, SameMachine, JobStep, JobFails, NoJob, Unmount, StaysMounted, TypeOK
  <2>2. RunningSlotIntact'
    BY <1>20 DEF InstallEntry, SameMachine, SameEsp, JobStep, JobFails, NoJob, Fault, Unmount, StaysMounted, NewEntry, Entry, RunningSlotIntact, IsUp, TypeOK
  <2>3. JobIsSound'
    BY <1>20 DEF InstallEntry, SameMachine, SameEsp, JobStep, JobFails, NoJob, Fault, Unmount, StaysMounted, NewEntry, Entry, JobIsSound, IsRunning, IsUp, Target, TypeOK
  <2>4. DaemonNeedsMachine'
    BY <1>20 DEF InstallEntry, SameMachine, DaemonNeedsMachine, DaemonUp, IsUp
  <2> QED
    BY <2>1, <2>2, <2>3, <2>4 DEF IInv
<1>21. CASE CopyDone
  <2>1. TypeOK'
    <3>1. job.rel \in Releases
      BY <1>21 DEF CopyDone, JobIsSound
    <3>2. NewEntry(FALSE) \in Entry /\ NewEntry(TRUE) \in Entry
      BY <3>1, NewEntryTyped, <1>b
    <3>3. esp' \subseteq Entry
      BY <1>21, <3>2 DEF CopyDone, TypeOK
    <3>4. faults' \in 0..MaxFaults
      BY <1>21 DEF CopyDone, StaysMounted, Fault, TypeOK
    <3> QED
      <4>1. job' \in [pc : {"record", "failed"}, rel : Releases \cup {NoRelease}, prune : SUBSET Entry]
        BY <1>21 DEF CopyDone, JobStep, JobFails, NoJob, TypeOK
      <4>2. mounted' \in {"free", "gate", "job", "nobody"}
        BY <1>21 DEF CopyDone, StaysMounted, Unmount
      <4> QED
        BY <1>21, <3>3, <3>4, <4>1, <4>2, ZenonT(60) DEF CopyDone, SameMachine, TypeOK
  <2>2. RunningSlotIntact'
    BY <1>21 DEF CopyDone, SameMachine, SameEsp, JobStep, JobFails, NoJob, Fault, Unmount, StaysMounted, NewEntry, Entry, RunningSlotIntact, IsUp, TypeOK
  <2>3. JobIsSound'
    BY <1>21 DEF CopyDone, SameMachine, SameEsp, JobStep, JobFails, NoJob, Fault, Unmount, StaysMounted, NewEntry, Entry, JobIsSound, IsRunning, IsUp, Target, TypeOK
  <2>4. DaemonNeedsMachine'
    BY <1>21 DEF CopyDone, SameMachine, DaemonNeedsMachine, DaemonUp, IsUp
  <2> QED
    BY <2>1, <2>2, <2>3, <2>4 DEF IInv
<1>22. CASE ActivationFails
  <2>1. TypeOK'
    BY <1>22 DEF ActivationFails, SameMachine, SameEsp, JobStep, JobFails, NoJob, Fault, Unmount, StaysMounted, TypeOK, Content
  <2>2. RunningSlotIntact'
    BY <1>22 DEF ActivationFails, SameMachine, SameEsp, JobStep, JobFails, NoJob, Fault, Unmount, StaysMounted, RunningSlotIntact, IsUp, TypeOK
  <2>3. JobIsSound'
    BY <1>22 DEF ActivationFails, SameMachine, SameEsp, JobStep, JobFails, NoJob, Fault, Unmount, StaysMounted, JobIsSound, IsRunning, IsUp, Target, TypeOK
  <2>4. DaemonNeedsMachine'
    BY <1>22 DEF ActivationFails, SameMachine, DaemonNeedsMachine, DaemonUp, IsUp
  <2> QED
    BY <2>1, <2>2, <2>3, <2>4 DEF IInv
<1>23. CASE Record
  <2>1. TypeOK'
    <3>1. job' \in [pc : {"ready"}, rel : Releases \cup {NoRelease}, prune : SUBSET Entry]
      BY <1>23 DEF Record, NoJob, TypeOK
    <3>2. faults' \in 0..MaxFaults /\ floor' \in Releases \cup {0}
      BY <1>23 DEF Record, Fault, Max2, TypeOK, JobIsSound
    <3> QED
      BY <1>23, <3>1, <3>2 DEF Record, SameMachine, SameEsp, TypeOK
  <2>2. RunningSlotIntact'
    BY <1>23 DEF Record, SameMachine, SameEsp, JobStep, JobFails, NoJob, Fault, Unmount, StaysMounted, Max2, RunningSlotIntact, IsUp, TypeOK
  <2>3. JobIsSound'
    BY <1>23 DEF Record, SameMachine, SameEsp, JobStep, JobFails, NoJob, Fault, Unmount, StaysMounted, Max2, JobIsSound, IsRunning, IsUp, Target, TypeOK
  <2>4. DaemonNeedsMachine'
    BY <1>23 DEF Record, SameMachine, DaemonNeedsMachine, DaemonUp, IsUp
  <2> QED
    BY <2>1, <2>2, <2>3, <2>4 DEF IInv
<1>24. CASE UNCHANGED vars
  BY <1>24 DEF vars, IInv, TypeOK, RunningSlotIntact, JobIsSound, DaemonNeedsMachine,
             DaemonUp, IsRunning, IsUp, Target
<1> QED
  BY <1>1, <1>2, <1>3, <1>4, <1>5, <1>6, <1>7, <1>8, <1>9, <1>10, <1>11, <1>12, <1>13, <1>14, <1>15, <1>16, <1>17, <1>18, <1>19, <1>20, <1>21, <1>22, <1>23, <1>24
  DEF Next, GateNext, JobNext
-----------------------------------------------------------------------------
(* What a step may do, given the invariant. *)

(* Only the end of the /usr write puts a release into a slot, and only Record moves the floor. *)
LEMMA WritesNewer == IInv /\ [Next]_vars => [WritesAreNewer]_vars
<1> SUFFICES ASSUME IInv, Next PROVE WritesAreNewer
  OBVIOUS
<1> USE ReleasesAssumption
<1>a. TypeOK /\ JobIsSound /\ floor \in Nat
  BY DEF IInv, TypeOK
<1> USE <1>a
<1>0. ASSUME UNCHANGED <<slots, floor>> PROVE WritesAreNewer
  BY <1>0 DEF WritesAreNewer
<1>1. ASSUME NEW e \in esp, Boot(e) PROVE WritesAreNewer
  BY <1>0, <1>1 DEF Boot
<1>2. CASE PowerLoss \/ OperatorRestart \/ DaemonCrash \/ DaemonRestart
  BY <1>0, <1>2 DEF PowerLoss, OperatorRestart, DaemonCrash, DaemonRestart, durable
<1>3. CASE GateNext
  BY <1>0, <1>3 DEF GateNext, GateFindsHealthy, GateClear, GateFindsUnhealthy, GateWeighsRestart,
                    GateRestart, durable
<1>4. ASSUME NEW r \in Releases, Request(r) PROVE WritesAreNewer
  BY <1>0, <1>4 DEF Request
<1>5. CASE Stage
  BY <1>5 DEF Stage, WritesAreNewer, TypeOK
<1>6. CASE WriteUsr
  BY <1>6 DEF WriteUsr, WritesAreNewer, JobIsSound, TypeOK
<1>7. CASE WriteVerity
  BY <1>7 DEF WriteVerity, WritesAreNewer, TypeOK
<1>8. CASE Record
  <2>1. floor' >= floor
    BY <1>8 DEF Record, Max2, JobIsSound
  <2> QED
    BY <1>8, <2>1 DEF Record, WritesAreNewer
<1>9. CASE Evaluate \/ GiveUp \/ WriteFails \/ MountEsp \/ InstallEntry \/ CopyDone \/ ActivationFails
  BY <1>0, <1>9 DEF Evaluate, GiveUp, WriteFails, MountEsp, InstallEntry, CopyDone, ActivationFails
<1>10. ASSUME NEW e \in job.prune, Prune(e) PROVE WritesAreNewer
  BY <1>0, <1>10 DEF Prune
<1> QED
  BY <1>1, <1>2, <1>3, <1>4, <1>5, <1>6, <1>7, <1>8, <1>9, <1>10 DEF Next, JobNext

(* Of everything that changes the ESP, only InstallEntry brings a new name, and then the
   slot it names has been written whole. *)
LEMMA ActivatesWritten == IInv /\ [Next]_vars => [NewNamesAreWritten]_vars
<1> SUFFICES ASSUME IInv, Next PROVE NewNamesAreWritten
  OBVIOUS
<1>a. TypeOK /\ JobIsSound
  BY DEF IInv
<1> USE <1>a
<1>0. ASSUME \A f \in esp' : \E g \in esp : g.rel = f.rel /\ g.slot = f.slot
      PROVE  NewNamesAreWritten
  BY <1>0 DEF NewNamesAreWritten
<1>1. ASSUME esp' \subseteq esp PROVE NewNamesAreWritten
  BY <1>0, <1>1
<1>2. ASSUME NEW e \in esp, Boot(e) PROVE NewNamesAreWritten
  BY <1>0, <1>2, BootedKeeps DEF Boot, TypeOK
<1>3. CASE PowerLoss \/ OperatorRestart \/ DaemonCrash \/ DaemonRestart
  BY <1>1, <1>3 DEF PowerLoss, OperatorRestart, DaemonCrash, DaemonRestart, durable
<1>4. CASE GateClear
  <2>1. ASSUME NEW e \in StillCounted(esp), esp' = MarkedGood(esp, e) PROVE NewNamesAreWritten
    BY <1>0, <2>1, MarkedGoodKeeps DEF StillCounted, TypeOK
  <2> QED
    BY <1>1, <1>4, <2>1 DEF GateClear
<1>5. CASE GateFindsHealthy \/ GateFindsUnhealthy \/ GateWeighsRestart \/ GateRestart
  BY <1>1, <1>5 DEF GateFindsHealthy, GateFindsUnhealthy, GateWeighsRestart, GateRestart, durable
<1>6. ASSUME NEW r \in Releases, Request(r) PROVE NewNamesAreWritten
  BY <1>1, <1>6 DEF Request, SameEsp
<1>7. CASE InstallEntry \/ CopyDone
  <2>1. \A e \in esp' : e \in esp \/ (e.rel = job.rel /\ e.slot = Target)
    BY <1>7 DEF InstallEntry, CopyDone, NewEntry
  <2>2. slots[Target] = [usr |-> job.rel, verity |-> job.rel]
    BY <1>7 DEF InstallEntry, CopyDone, JobIsSound
  <2> QED
    BY <2>1, <2>2 DEF NewNamesAreWritten
<1>8. CASE Evaluate \/ GiveUp \/ Stage \/ WriteUsr \/ WriteVerity \/ WriteFails \/ MountEsp
           \/ ActivationFails \/ Record
  BY <1>1, <1>8 DEF Evaluate, GiveUp, Stage, WriteUsr, WriteVerity, WriteFails, MountEsp,
                    ActivationFails, Record, SameEsp
<1>9. ASSUME NEW e \in job.prune, Prune(e) PROVE NewNamesAreWritten
  BY <1>1, <1>9 DEF Prune
<1> QED
  BY <1>2, <1>3, <1>4, <1>5, <1>6, <1>7, <1>8, <1>9 DEF Next, GateNext, JobNext

-----------------------------------------------------------------------------
(* The inductive invariant holds in every state of every behaviour. *)
THEOREM Invariance == Spec => []IInv
BY InitInv, StepInv, PTL DEF Spec

(* Every variable keeps its type. *)
THEOREM TypeCorrect == Spec => []TypeOK
BY Invariance, PTL DEF IInv

(* update.rs: the slot the machine runs from is never written, and keeps the release
   it booted, wherever an update is interrupted. *)
THEOREM RunningSlotStaysIntact == Spec => []RunningSlotIntact
BY Invariance, PTL DEF IInv

(* write_slot activates only what it has written whole, and only a newer release. *)
THEOREM JobStaysSound == Spec => []JobIsSound
BY Invariance, PTL DEF IInv

(* sequence.rs and plan.rs: the floor never goes down, and no step writes a release older
   than it or than the running one. *)
THEOREM NeverOlder == Spec => NothingOlderWritten
BY Invariance, WritesNewer, PTL DEF Spec, NothingOlderWritten

(* update.rs: activation comes after both partitions were written and read back. *)
THEOREM ActivationIsLast == Spec => ActivatedAfterWritten
BY Invariance, ActivatesWritten, PTL DEF Spec, ActivatedAfterWritten
-----------------------------------------------------------------------------
(* The careful operator of ADR-0005: every rule of the discipline is kept, and what is to be removed from the ESP goes. *)
Careful == Discipline = {"decided", "settled", "daemon"} /\ RemovalsFail = FALSE

(* One entry for a release, at most one of them on trial, and that one newer than what is permanent. *)
EntriesInOrder ==
  /\ \A e, f \in esp : e.rel = f.rel => e = f
  /\ \A e, f \in esp : OnTrial(e) /\ OnTrial(f) => e = f
  /\ \A e, f \in esp : OnTrial(e) /\ ~OnTrial(f) => e.rel > f.rel

(* What is permanent was proven, and the newest of it verifies. *)
Known(k) == k \in esp /\ ~OnTrial(k) /\ \A f \in esp : ~OnTrial(f) => f.rel <= k.rel
KnownVerifies ==
  /\ \A e \in esp : ~OnTrial(e) => e.rel \in proven
  /\ \E k \in esp : Known(k) /\ Verifies(k, slots)

(* What runs has its entry, and nothing permanent is newer. *)
RunningIsListed == IsUp =>
  /\ \E e \in esp : RunningEntry(e) /\ e.whole
  /\ \A f \in esp : ~OnTrial(f) => f.rel <= running.rel

(* As long as the gate has not decided, the one entry it may find counted is the running release's; and what it found
   healthy is proven. *)
GateSeesItsOwn ==
  /\ IsUp /\ gate.pc # "done" => NothingWaits
  /\ gate.pc = "healthy" => running.rel \in proven

(* A run is on the known good release, which it leaves on the ESP with at most the new one. *)
OnKnown == \E e \in esp : RunningEntry(e) /\ ~OnTrial(e) /\ e.whole
JobIsSettled ==
  /\ IsRunning => gate.pc = "done" /\ running.rel \in proven /\ OnKnown
  /\ job.pc = "prune" => /\ \A e \in esp : e.rel = running.rel \/ e \in job.prune
                         /\ \A e \in job.prune : e.rel # running.rel
  /\ job.pc = "copy" => NewEntry(FALSE) \in esp /\ \A e \in esp : e.rel = running.rel \/ e = NewEntry(FALSE)

CInv == EntriesInOrder /\ KnownVerifies /\ RunningIsListed /\ GateSeesItsOwn /\ JobIsSettled

(* Entries, as numbers the provers can compare. *)
LEMMA EntryNumbers ==
  ASSUME TypeOK
  PROVE  /\ \A e \in esp : e \in Entry /\ e.rel \in Nat /\ e.rel # 0 /\ e.left \in Int /\ e.slot \in Slots
         /\ running.rel \in Nat
<1>1. ASSUME NEW e \in Entry
      PROVE  e.rel \in Nat /\ e.rel # 0 /\ e.left \in Int /\ e.slot \in Slots
  <2>1. e.rel \in Releases /\ e.slot \in Slots /\ e.left \in (0..Tries) \cup {Permanent}
    BY DEF Entry
  <2>2. e.rel \in Nat /\ e.rel # 0
    BY <2>1, ReleasesAssumption
  <2>3. e.left \in Int
    BY <2>1, BoundAssumption
  <2> QED
    BY <2>1, <2>2, <2>3
<1>2. esp \subseteq Entry
  BY DEF TypeOK
<1>3. running.rel \in Releases \cup {0}
  BY DEF TypeOK
<1>4. running.rel \in Nat
  <2>1. Releases \subseteq Nat /\ 0 \in Nat
    BY ReleasesAssumption
  <2> QED
    BY <1>3, <2>1
<1>5. \A e \in esp : e \in Entry
  BY <1>2
<1> QED
  BY <1>1, <1>4, <1>5

LEMMA CarefulInit == Careful /\ Init => CInv
<1> SUFFICES ASSUME Careful, Init PROVE CInv
  OBVIOUS
<1> USE ReleasesAssumption
<1>1. EntriesInOrder
  BY DEF Init, EntriesInOrder, OnTrial
<1>2. KnownVerifies
  BY DEF Init, KnownVerifies, Known, Verifies, OnTrial
<1>3. RunningIsListed
  BY DEF Init, RunningIsListed, RunningEntry, OnTrial
<1>4. GateSeesItsOwn
  BY DEF Init, GateSeesItsOwn, NothingWaits, OnTrial, Gate
<1>5. JobIsSettled
  BY DEF Init, JobIsSettled, NoJob, IsRunning
<1> QED
  BY <1>1, <1>2, <1>3, <1>4, <1>5 DEF CInv

(* Steps that leave the disk alone: what is known stays known, and the rest follows if the machine stays up on the same
   release, or goes down. *)
LEMMA DiskAlone ==
  ASSUME CInv, UNCHANGED <<esp, slots>>, proven \subseteq proven'
  PROVE  EntriesInOrder' /\ KnownVerifies'
BY DEF CInv, EntriesInOrder, KnownVerifies, Known

LEMMA MachineDown ==
  ASSUME CInv, GoDown, UNCHANGED <<esp, slots, proven>>
  PROVE  CInv'
<1>1. EntriesInOrder' /\ KnownVerifies'
  BY DiskAlone
<1>2. ~IsUp' /\ job'.pc = "idle" /\ gate'.pc = "down"
  BY DEF GoDown, Off, IsUp, NoJob, Gate
<1> QED
  BY <1>1, <1>2 DEF CInv, RunningIsListed, GateSeesItsOwn, JobIsSettled, IsRunning

(* A step of the run that changes nothing on the ESP and leaves it before the removals, or after the copy. *)
LEMMA RunGoesOn ==
  ASSUME IInv, CInv, SameMachine, esp' = esp, EntriesInOrder', KnownVerifies',
         job'.pc \notin {"prune", "copy"}, IsRunning' => IsRunning
  PROVE  CInv'
<1>1. RunningIsListed'
  BY DEF CInv, RunningIsListed, SameMachine, IsUp, RunningEntry
<1>2. GateSeesItsOwn'
  BY DEF CInv, GateSeesItsOwn, SameMachine, IsUp, NothingWaits
<1>3. JobIsSettled'
  BY DEF CInv, JobIsSettled, SameMachine, OnKnown, RunningEntry
<1> QED
  BY <1>1, <1>2, <1>3 DEF CInv

(* During a run the known good release is the running one, in the slot that is not written. *)
LEMMA RunningIsKnown ==
  ASSUME IInv, CInv, IsRunning
  PROVE  \E k \in esp : Known(k) /\ RunningEntry(k) /\ k.whole /\ Verifies(k, slots)
<1>1. PICK e \in esp : RunningEntry(e) /\ ~OnTrial(e) /\ e.whole
  BY DEF CInv, JobIsSettled, OnKnown
<1>2. IsUp
  BY DEF IInv, JobIsSound
<1>3. Known(e)
  BY <1>1, <1>2 DEF CInv, RunningIsListed, Known, RunningEntry
<1>4. Verifies(e, slots)
  BY <1>1, <1>2 DEF IInv, RunningSlotIntact, Verifies, RunningEntry
<1> QED
  BY <1>1, <1>3, <1>4

(* What is written to the slot that does not run leaves the known good release alone. *)
LEMMA TargetWritten ==
  ASSUME IInv, CInv, IsRunning, UNCHANGED <<esp, proven>>, slots'[running.slot] = slots[running.slot]
  PROVE  EntriesInOrder' /\ KnownVerifies'
<1>1. PICK k \in esp : Known(k) /\ RunningEntry(k) /\ k.whole /\ Verifies(k, slots)
  BY RunningIsKnown
<1>2. Known(k)' /\ Verifies(k, slots')
  BY <1>1 DEF Known, Verifies, RunningEntry
<1> QED
  BY <1>1, <1>2 DEF CInv, EntriesInOrder, KnownVerifies, Known

LEMMA CarefulBoot ==
  ASSUME Careful, IInv, IInv', CInv, NEW e \in esp, Boot(e)
  PROVE  CInv'
<1> USE DEF CInv
<1>0. TypeOK /\ TypeOK' /\ ~IsUp /\ e \in BootChoices(esp)
  BY DEF IInv, Boot
<1>n. \A f \in esp : f.rel \in Nat /\ f.rel # 0 /\ f.left \in Int /\ f \in Entry
  BY <1>0, EntryNumbers
<1>1. PICK k \in esp : Known(k) /\ Verifies(k, slots)
  BY DEF KnownVerifies
<1>2. \A f \in esp : OnTrial(f) /\ ~Exhausted(f) => f = e
  <2> SUFFICES ASSUME NEW f \in esp, OnTrial(f), ~Exhausted(f), f # e PROVE FALSE
    OBVIOUS
  <2>1. ~OnTrial(e) \/ Exhausted(e)
    BY DEF EntriesInOrder
  <2>2. SortsBefore(f, e)
    BY <2>1, <1>n DEF EntriesInOrder, SortsBefore, OnTrial, Exhausted
  <2> QED
    BY <1>0, <2>2 DEF BootChoices
<1>3. ~Exhausted(e)
  BY <1>0, <1>1 DEF BootChoices, SortsBefore, Known, OnTrial, Exhausted
<1>4. \A f \in esp : ~OnTrial(f) => f.rel <= e.rel
  <2> SUFFICES ASSUME NEW f \in esp, ~OnTrial(f) PROVE f.rel <= e.rel
    OBVIOUS
  <2>1. ~SortsBefore(f, e)
    BY <1>0 DEF BootChoices
  <2>2. ~Exhausted(f)
    BY DEF OnTrial, Exhausted
  <2> QED
    BY <1>3, <2>1, <2>2, <1>n DEF SortsBefore
<1>5. CASE ~OnTrial(e)
  <2>1. esp' = esp
    BY <1>5 DEF Boot, Booted, OnTrial
  <2>2. EntriesInOrder' /\ KnownVerifies'
    BY <2>1, DiskAlone DEF Boot
  <2>3. RunningIsListed'
    BY <2>1, <1>0, <1>4 DEF Boot, RunningIsListed, IsUp, RunningEntry, Verifies
  <2>4. GateSeesItsOwn'
    <3>1. NothingWaits'
      BY <2>1, <1>2, <1>5 DEF NothingWaits
    <3>2. gate'.pc = "wait" \/ gate' = gate
      BY DEF Boot, Gate
    <3>3. gate.pc # "healthy"
      BY <1>0 DEF IInv, DaemonNeedsMachine, DaemonUp
    <3> QED
      BY <3>1, <3>2, <3>3 DEF GateSeesItsOwn
  <2>5. JobIsSettled'
    BY <1>0 DEF Boot, JobIsSettled, IsRunning, IInv, JobIsSound
  <2> QED
    BY <2>2, <2>3, <2>4, <2>5
<1>6. CASE OnTrial(e)
  <2> DEFINE lower == [e EXCEPT !.left = @ - 1]
  <2>0. e \in Entry /\ e.left \in 1..Tries
    BY <1>n, <1>3, <1>6, BoundAssumption DEF Entry, OnTrial, Exhausted
  <2>1. /\ lower.rel = e.rel /\ lower.slot = e.slot /\ lower.whole = e.whole /\ lower.left = e.left - 1
        /\ OnTrial(lower)
    BY <2>0, BoundAssumption DEF Entry, OnTrial
  <2>2. esp' = (esp \ {e}) \cup {lower}
    <3>1. ~ \E f \in esp : f.rel = e.rel /\ f.left = e.left - 1
      BY <2>0 DEF EntriesInOrder
    <3> QED
      BY <2>0, <3>1 DEF Boot, Booted
  <2>3. EntriesInOrder'
    <3>1. \A f \in esp' : f = lower \/ (f \in esp /\ f # e)
      BY <2>2
    <3>2. \A f \in esp : f # e => f.rel # e.rel /\ ~OnTrial(f) /\ e.rel > f.rel
      BY <1>6 DEF EntriesInOrder
    <3> HIDE DEF lower
    <3> QED
      BY <2>1, <3>1, <3>2 DEF EntriesInOrder
  <2>4. KnownVerifies'
    <3>1. k \in esp' /\ proven' = proven /\ slots' = slots
      BY <1>1, <1>6, <2>2 DEF Known, Boot
    <3>2. Known(k)'
      BY <1>1, <2>1, <2>2, <3>1 DEF Known
    <3> QED
      BY <1>1, <2>1, <2>2, <3>1, <3>2 DEF KnownVerifies
  <2>5. RunningIsListed'
    <3> SUFFICES ASSUME IsUp' PROVE RunningIsListed'
      BY DEF RunningIsListed
    <3>1. running' = [rel |-> e.rel, slot |-> e.slot] /\ e.whole
      BY <1>0 DEF Boot, IsUp, Verifies
    <3>2. lower \in esp' /\ RunningEntry(lower)' /\ lower.whole
      BY <3>1, <2>1, <2>2 DEF RunningEntry
    <3>3. \A f \in esp' : ~OnTrial(f) => f.rel <= running'.rel
      BY <3>1, <2>1, <2>2, <1>4
    <3> QED
      BY <3>2, <3>3 DEF RunningIsListed
  <2>6. GateSeesItsOwn'
    <3>1. IsUp' => NothingWaits'
      <4> SUFFICES ASSUME IsUp', NEW f \in esp', OnTrial(f), ~Exhausted(f) PROVE f.rel = running'.rel
        BY DEF NothingWaits
      <4>1. f = lower
        BY <2>2, <1>2
      <4> QED
        BY <4>1, <2>1, <1>0 DEF Boot, IsUp
    <3>2. gate'.pc = "wait" \/ gate' = gate
      BY DEF Boot, Gate
    <3>3. gate.pc # "healthy"
      BY <1>0 DEF IInv, DaemonNeedsMachine, DaemonUp
    <3> QED
      BY <3>1, <3>2, <3>3 DEF GateSeesItsOwn
  <2>7. JobIsSettled'
    BY <1>0 DEF Boot, JobIsSettled, IsRunning, IInv, JobIsSound
  <2> QED
    BY <2>3, <2>4, <2>5, <2>6, <2>7
<1> QED
  BY <1>5, <1>6

(* The gate finds counted the entry of the release it found healthy, and no other. *)
LEMMA CarefulPromotes ==
  ASSUME Careful, IInv, CInv, gate.pc = "healthy", NEW e \in StillCounted(esp), esp' = MarkedGood(esp, e),
         UNCHANGED <<slots, proven, running, job>>, gate'.pc = "done"
  PROVE  CInv' /\ e.rel = running.rel
<1> USE DEF CInv
<1> DEFINE good == [e EXCEPT !.left = Permanent]
<1>0. TypeOK /\ IsUp /\ ~IsRunning
  BY DEF IInv, DaemonNeedsMachine, DaemonUp, JobIsSettled
<1>n. \A f \in esp : f.rel \in Nat /\ f.rel # 0 /\ f.left \in Int /\ f \in Entry
  BY <1>0, EntryNumbers
<1>1. e \in esp /\ OnTrial(e) /\ ~Exhausted(e) /\ e \in Entry
  BY <1>n DEF StillCounted
<1>2. e.rel = running.rel /\ running.rel \in proven
  BY <1>0, <1>1 DEF GateSeesItsOwn, NothingWaits
<1>3. e.slot = running.slot /\ e.whole
  <2>1. PICK f \in esp : RunningEntry(f) /\ f.whole
    BY <1>0 DEF RunningIsListed
  <2>2. f = e
    BY <2>1, <1>1, <1>2 DEF EntriesInOrder, RunningEntry
  <2> QED
    BY <2>1, <2>2 DEF RunningEntry
<1>4. /\ good.rel = e.rel /\ good.slot = e.slot /\ good.whole /\ ~OnTrial(good)
      /\ esp' = {f \in esp : f # e /\ ~(f.rel = e.rel /\ f.left = Permanent)} \cup {good}
  BY <1>1, <1>3 DEF Entry, OnTrial, MarkedGood
<1>5. \A f \in esp' : f = good \/ (f \in esp /\ f # e /\ ~OnTrial(f) /\ f.rel < e.rel)
  BY <1>1, <1>4, <1>n DEF EntriesInOrder
<1>6. EntriesInOrder'
  BY <1>4, <1>5, <1>n, <1>1 DEF EntriesInOrder
<1>7a. Known(good)'
  <2>1. good \in esp' /\ e.rel \in Nat
    BY <1>1, <1>4, <1>n
  <2>2. \A f \in esp' : f.rel <= good.rel
    <3> SUFFICES ASSUME NEW f \in esp' PROVE f.rel <= good.rel
      OBVIOUS
    <3>1. good.rel = e.rel
      BY <1>4
    <3>2. CASE f = good
      BY <2>1, <3>1, <3>2
    <3>3. CASE f \in esp /\ f.rel < e.rel
      BY <2>1, <3>1, <3>3, <1>n
    <3> QED
      BY <1>5, <3>2, <3>3
  <2> HIDE DEF good
  <2> QED
    BY <1>4, <2>1, <2>2 DEF Known
<1>7. KnownVerifies'
  <2>2. Verifies(good, slots')
    BY <1>0, <1>2, <1>3, <1>4 DEF Verifies, IInv, RunningSlotIntact
  <2> QED
    BY <2>2, <1>7a, <1>2, <1>4, <1>5 DEF KnownVerifies, Known
<1>8. RunningIsListed'
  <2>1. good \in esp' /\ RunningEntry(good)' /\ good.whole
    BY <1>2, <1>3, <1>4 DEF RunningEntry
  <2>2. Known(good)' /\ good.rel = running'.rel
    BY <1>2, <1>4, <1>7a
  <2> QED
    BY <2>1, <2>2 DEF RunningIsListed, Known
<1>9. GateSeesItsOwn' /\ JobIsSettled'
  BY <1>0 DEF GateSeesItsOwn, JobIsSettled, IsRunning
<1> QED
  BY <1>2, <1>6, <1>7, <1>8, <1>9

(* What is removed is not the running release's. *)
LEMMA CarefulPrune ==
  ASSUME Careful, IInv, CInv, NEW e \in job.prune, Prune(e)
  PROVE  CInv'
<1> USE DEF CInv
<1>0. IsRunning /\ IsUp /\ esp' = {f \in esp : ~SameName(f, e)} /\ job' = [job EXCEPT !.prune = @ \ {e}]
      /\ UNCHANGED <<slots, running, gate, proven>>
  BY DEF Prune, IsRunning, IInv, JobIsSound, Careful, SameMachine
<1>1. e.rel # running.rel
  BY DEF Prune, JobIsSettled
<1>2. PICK k \in esp : Known(k) /\ RunningEntry(k) /\ k.whole /\ Verifies(k, slots)
  BY <1>0, RunningIsKnown
<1>3. k \in esp'
  BY <1>0, <1>1, <1>2 DEF SameName, RunningEntry
<1>4. EntriesInOrder'
  BY <1>0 DEF EntriesInOrder
<1>5. KnownVerifies'
  <2>1. Known(k)'
    BY <1>0, <1>2, <1>3 DEF Known
  <2> QED
    BY <1>0, <1>2, <1>3, <2>1 DEF KnownVerifies
<1>6. RunningIsListed'
  BY <1>0, <1>2, <1>3 DEF RunningIsListed, RunningEntry, IsUp
<1>7. GateSeesItsOwn'
  BY <1>0 DEF GateSeesItsOwn, JobIsSettled, IsUp
<1>8. JobIsSettled'
  <2>1. job'.pc = "prune" /\ job'.prune = job.prune \ {e}
    BY <1>0 DEF Prune, IInv, TypeOK
  <2>2. \A f \in esp' : f.rel = running.rel \/ f \in job'.prune
    BY <1>0, <2>1 DEF JobIsSettled, SameName, Prune
  <2>3. OnKnown'
    BY <1>0, <1>2, <1>3 DEF OnKnown, RunningEntry, Known
  <2> QED
    BY <1>0, <2>1, <2>2, <2>3 DEF JobIsSettled, Prune
<1> QED
  BY <1>4, <1>5, <1>6, <1>7, <1>8

(* When nothing is left to remove the ESP holds the running release's entry alone, and the new one comes to it; that its
   copy completes changes what it holds and not its name. *)
LEMMA CarefulInstall ==
  ASSUME Careful, IInv, CInv, InstallEntry \/ CopyDone
  PROVE  CInv'
<1> USE DEF CInv
<1>0. IsRunning /\ IsUp /\ TypeOK /\ job.rel \in Nat /\ running.rel \in Nat /\ job.rel > running.rel
      /\ UNCHANGED <<slots, running, gate, proven>>
  <2>1. TypeOK /\ job.pc \in {"prune", "copy"} /\ UNCHANGED <<slots, running, gate, proven>>
    BY DEF InstallEntry, CopyDone, IInv, SameMachine
  <2>2. IsRunning /\ IsUp /\ job.rel \in Releases /\ job.rel > running.rel
    BY <2>1 DEF IsRunning, IInv, JobIsSound
  <2> QED
    BY <2>1, <2>2, EntryNumbers, ReleasesAssumption
<1>1. PICK k \in esp : Known(k) /\ RunningEntry(k) /\ k.whole /\ Verifies(k, slots)
  BY <1>0, RunningIsKnown
<1>2. PICK new : new \in {NewEntry(TRUE), NewEntry(FALSE)} /\ esp' = {k, new} /\ new # k
  <2>1. \A whole \in BOOLEAN : NewEntry(whole).rel = job.rel /\ NewEntry(whole).rel # running.rel
    BY <1>0 DEF NewEntry
  <2>2. CASE InstallEntry
    <3>1. \A f \in esp : f = k
      BY <1>1, <2>2 DEF InstallEntry, JobIsSettled, EntriesInOrder, RunningEntry
    <3>2. esp' = {k, NewEntry(FALSE)}
      BY <1>1, <2>1, <2>2, <3>1 DEF InstallEntry, SameName, RunningEntry
    <3> QED
      BY <3>2, <2>1, <1>1 DEF RunningEntry
  <2>3. CASE CopyDone
    <3>1. \A f \in esp : f = k \/ f = NewEntry(FALSE)
      BY <1>1, <2>3 DEF CopyDone, JobIsSettled, EntriesInOrder, RunningEntry
    <3>2. esp' = {k, NewEntry(TRUE)}
      BY <1>1, <2>1, <2>3, <3>1 DEF CopyDone, RunningEntry
    <3> QED
      BY <3>2, <2>1, <1>1 DEF RunningEntry
  <2> QED
    BY <2>2, <2>3
<1>3. OnTrial(new) /\ new.rel = job.rel /\ k.rel = running.rel /\ ~OnTrial(k)
  BY <1>1, <1>2, BoundAssumption DEF NewEntry, OnTrial, RunningEntry, Known
<1>4. EntriesInOrder'
  BY <1>0, <1>2, <1>3 DEF EntriesInOrder
<1>5. KnownVerifies'
  BY <1>0, <1>1, <1>2, <1>3 DEF KnownVerifies, Known
<1>6. RunningIsListed'
  BY <1>0, <1>1, <1>2, <1>3 DEF RunningIsListed, RunningEntry, IsUp
<1>7. GateSeesItsOwn'
  BY <1>0 DEF GateSeesItsOwn, JobIsSettled, IsUp
<1>8. JobIsSettled'
  <2>1. OnKnown' /\ gate'.pc = "done" /\ running'.rel \in proven'
    BY <1>0, <1>1, <1>2, <1>3 DEF OnKnown, RunningEntry, JobIsSettled
  <2>2. job'.pc # "prune"
    BY DEF InstallEntry, CopyDone, JobStep, JobFails, NoJob, IInv, TypeOK
  <2>3. job'.pc = "copy" => new = NewEntry(FALSE) /\ NewEntry(FALSE)' = NewEntry(FALSE)
    <3>1. job'.pc = "copy" => InstallEntry
      BY <1>0 DEF CopyDone, JobStep, JobFails, NoJob, TypeOK
    <3>2. InstallEntry => new = NewEntry(FALSE)
      <4>1. InstallEntry => NewEntry(FALSE) \in esp'
        BY DEF InstallEntry
      <4>2. NewEntry(FALSE).rel # k.rel
        BY <1>0, <1>3 DEF NewEntry
      <4> QED
        BY <4>1, <4>2, <1>2
    <3>3. InstallEntry => job'.rel = job.rel /\ running' = running
      BY <1>0 DEF InstallEntry, JobStep, TypeOK
    <3> QED
      BY <3>1, <3>2, <3>3 DEF NewEntry, Target
  <2> QED
    BY <2>1, <2>2, <2>3, <1>0, <1>2, <1>3 DEF JobIsSettled
<1> QED
  BY <1>4, <1>5, <1>6, <1>7, <1>8

LEMMA CarefulStep == Careful /\ IInv /\ IInv' /\ CInv /\ [Next]_vars => CInv'
<1> SUFFICES ASSUME Careful, IInv, IInv', CInv, [Next]_vars PROVE CInv'
  OBVIOUS
<1>0. TypeOK /\ Target \in Slots /\ Target # running.slot
  BY OtherSlot DEF IInv, TypeOK, Target
<1>1. ASSUME NEW e \in esp, Boot(e) PROVE CInv'
  BY <1>1, CarefulBoot
<1>2. CASE PowerLoss \/ OperatorRestart \/ GateRestart
  BY <1>2, MachineDown DEF PowerLoss, OperatorRestart, GateRestart, durable
<1>3. CASE DaemonCrash
  <2>1. EntriesInOrder' /\ KnownVerifies'
    BY <1>3, DiskAlone DEF DaemonCrash, durable
  <2>2. NothingWaits /\ gate'.pc = "down" /\ job'.pc = "idle" /\ UNCHANGED <<esp, running, proven>>
    BY <1>3 DEF DaemonCrash, Careful, Gate, NoJob, durable
  <2>3. RunningIsListed' /\ GateSeesItsOwn' /\ JobIsSettled'
    BY <2>2 DEF CInv, RunningIsListed, GateSeesItsOwn, JobIsSettled, NothingWaits, RunningEntry, IsUp, IsRunning
  <2> QED
    BY <2>1, <2>3 DEF CInv
<1>4. CASE DaemonRestart \/ GateFindsHealthy \/ GateFindsUnhealthy \/ GateWeighsRestart
  <2>1. UNCHANGED <<esp, slots, running, job>> /\ proven \subseteq proven' /\ gate.pc # "done"
    BY <1>4 DEF DaemonRestart, GateFindsHealthy, GateFindsUnhealthy, GateWeighsRestart, durable, DaemonUp
  <2>2. EntriesInOrder' /\ KnownVerifies'
    BY <2>1, DiskAlone
  <2>3. RunningIsListed'
    BY <2>1 DEF CInv, RunningIsListed, RunningEntry, IsUp
  <2>4. GateSeesItsOwn'
    <3>1. gate'.pc = "healthy" => running'.rel \in proven'
      BY <1>4 DEF DaemonRestart, GateFindsHealthy, GateFindsUnhealthy, GateWeighsRestart, Gate, Decided
    <3>2. IsUp' => NothingWaits'
      BY <2>1 DEF CInv, GateSeesItsOwn, NothingWaits, IsUp
    <3> QED
      BY <3>1, <3>2 DEF GateSeesItsOwn
  <2>5. JobIsSettled'
    <3>1. ~IsRunning
      BY <2>1 DEF CInv, JobIsSettled
    <3> QED
      BY <2>1, <3>1 DEF JobIsSettled, IsRunning
  <2> QED
    BY <2>2, <2>3, <2>4, <2>5 DEF CInv
<1>5. CASE GateClear
  <2>1. gate'.pc = "done" /\ UNCHANGED <<slots, running, job, proven>> /\ ~IsRunning
    BY <1>5 DEF GateClear, Decided, CInv, JobIsSettled
  <2>2. CASE esp' = esp
    <3>1. EntriesInOrder' /\ KnownVerifies'
      BY <2>1, <2>2, DiskAlone
    <3> QED
      BY <2>1, <2>2, <3>1 DEF CInv, RunningIsListed, GateSeesItsOwn, JobIsSettled, RunningEntry, IsUp, IsRunning
  <2>3. ASSUME NEW e \in StillCounted(esp), esp' = MarkedGood(esp, e) PROVE CInv'
    BY <1>5, <2>1, <2>3, CarefulPromotes DEF GateClear
  <2> QED
    BY <1>5, <2>2, <2>3 DEF GateClear
<1>6. ASSUME NEW r \in Releases, Request(r) PROVE CInv'
  <2>1. gate.pc = "done" /\ Settled /\ job'.pc = "check" /\ UNCHANGED <<esp, slots, running, gate, proven>>
    BY <1>6 DEF Request, Careful, SameMachine, SameEsp
  <2>2. EntriesInOrder' /\ KnownVerifies'
    BY <2>1, DiskAlone
  <2>3. JobIsSettled'
    BY <2>1 DEF JobIsSettled, Settled, OnKnown, RunningEntry
  <2>4. RunningIsListed' /\ GateSeesItsOwn'
    BY <2>1 DEF CInv, RunningIsListed, GateSeesItsOwn, NothingWaits, RunningEntry, IsUp
  <2> QED
    BY <2>2, <2>3, <2>4 DEF CInv
<1>7. CASE Evaluate \/ GiveUp \/ WriteFails \/ ActivationFails \/ Record
  <2>0. job'.pc \in {"stage", "failed", "idle", "ready"}
    <3>1. CASE JobFails
      BY <3>1 DEF JobFails, NoJob
    <3>2. CASE job' = NoJob
      BY <3>2 DEF NoJob
    <3>3. CASE job' = JobStep("stage")
      BY <3>3, <1>0 DEF JobStep, TypeOK
    <3>4. CASE Record
      BY <3>4 DEF Record, NoJob
    <3> QED
      BY <1>7, <3>1, <3>2, <3>3, <3>4 DEF Evaluate, GiveUp, WriteFails, ActivationFails
  <2>1. SameMachine /\ esp' = esp /\ slots' = slots /\ IsRunning
    BY <1>7 DEF Evaluate, GiveUp, WriteFails, ActivationFails, Record, SameEsp, IsRunning
  <2>2. EntriesInOrder' /\ KnownVerifies'
    BY <2>1, DiskAlone DEF SameMachine
  <2> QED
    BY <2>0, <2>1, <2>2, RunGoesOn
<1>8. CASE Stage \/ WriteUsr \/ WriteVerity
  <2>1. SameMachine /\ esp' = esp /\ IsRunning /\ job'.pc \notin {"prune", "copy"}
    BY <1>8, <1>0 DEF Stage, WriteUsr, WriteVerity, SameEsp, JobStep, IsRunning, TypeOK
  <2>2. slots'[running.slot] = slots[running.slot]
    BY <1>8, <1>0 DEF Stage, WriteUsr, WriteVerity, TypeOK
  <2>3. EntriesInOrder' /\ KnownVerifies'
    BY <2>1, <2>2, TargetWritten DEF SameMachine
  <2> QED
    BY <2>1, <2>3, RunGoesOn
<1>9. CASE MountEsp
  <2>1. SameMachine /\ esp' = esp /\ slots' = slots /\ IsRunning
    BY <1>9 DEF MountEsp, IsRunning
  <2>2. EntriesInOrder' /\ KnownVerifies'
    BY <2>1, DiskAlone DEF SameMachine
  <2>3. CASE JobFails
    BY <2>1, <2>2, <2>3, RunGoesOn DEF JobFails, NoJob
  <2>4. CASE job' = [job EXCEPT !.pc = "prune", !.prune = Superseded(esp, running.rel)]
    <3>1. job'.pc = "prune" /\ job'.prune = {e \in esp : e.rel # running.rel}
      BY <2>4, <1>0 DEF Superseded, TypeOK
    <3>2. JobIsSettled'
      BY <2>1, <3>1 DEF CInv, JobIsSettled, SameMachine, OnKnown, RunningEntry
    <3>3. RunningIsListed' /\ GateSeesItsOwn'
      BY <2>1 DEF CInv, RunningIsListed, GateSeesItsOwn, NothingWaits, RunningEntry, IsUp, SameMachine
    <3> QED
      BY <2>2, <3>2, <3>3 DEF CInv
  <2> QED
    BY <1>9, <2>3, <2>4 DEF MountEsp, Careful
<1>10. ASSUME NEW e \in job.prune, Prune(e) PROVE CInv'
  BY <1>10, CarefulPrune
<1>11. CASE InstallEntry \/ CopyDone
  BY <1>11, CarefulInstall
<1>12. CASE UNCHANGED vars
  <2>1. EntriesInOrder' /\ KnownVerifies'
    BY <1>12, DiskAlone DEF vars
  <2>2. RunningIsListed' /\ GateSeesItsOwn'
    BY <1>12 DEF vars, CInv, RunningIsListed, GateSeesItsOwn, NothingWaits, RunningEntry, IsUp
  <2>3. JobIsSettled'
    BY <1>12 DEF vars, CInv, JobIsSettled, OnKnown, RunningEntry, IsRunning, NewEntry, Target
  <2> QED
    BY <2>1, <2>2, <2>3 DEF CInv
<1> QED
  BY <1>1, <1>2, <1>3, <1>4, <1>5, <1>6, <1>7, <1>8, <1>9, <1>10, <1>11, <1>12 DEF Next, GateNext, JobNext

(* ADR-0005, for a careful operator: whatever fails and whenever the power goes, an entry is permanent only for a release
   the gate found healthy, and one whose slot verifies is always there. *)
THEOREM KnownGoodStays == Careful /\ Spec => []KnownGoodKept
<1> SUFFICES ASSUME Careful PROVE Spec => []KnownGoodKept
  OBVIOUS
<1>1. CInv => KnownGoodKept
  BY DEF CInv, KnownVerifies, Known, KnownGoodKept
<1>2. Init => CInv
  BY CarefulInit
<1>3. IInv /\ IInv' /\ CInv /\ [Next]_vars => CInv'
  BY CarefulStep
<1> QED
  BY <1>1, <1>2, <1>3, Invariance, PTL DEF Spec
-----------------------------------------------------------------------------
(* The refinement: what the entries on the ESP say, as TrialBoot's known release and its trial. *)
LEMMA NewestIs ==
  ASSUME NEW S, NEW e \in S, \A f \in S : f.rel \in Nat /\ f.rel <= e.rel, \A f \in S : f.rel = e.rel => f = e
  PROVE  NewestOf(S) = e
<1> DEFINE Top(x) == \A f \in S : f.rel <= x.rel
<1>1. Top(e)
  OBVIOUS
<1>2. \A x \in S : Top(x) => x = e
  <2> SUFFICES ASSUME NEW x \in S, Top(x) PROVE x = e
    OBVIOUS
  <2>1. e.rel <= x.rel /\ x.rel <= e.rel /\ e.rel \in Nat /\ x.rel \in Nat
    OBVIOUS
  <2>2. x.rel = e.rel
    BY <2>1
  <2> QED
    BY <2>2
<1>3. NewestOf(S) = CHOOSE x \in S : Top(x)
  BY DEF NewestOf
<1> HIDE DEF Top
<1> QED
  BY <1>1, <1>2, <1>3

OneEach(E) == E \subseteq Entry /\ \A e, f \in E : e.rel = f.rel => e = f

LEMMA EntryIsNumbered == \A e \in Entry : e.rel \in Nat /\ e.rel # 0 /\ e.left \in Int
<1> SUFFICES ASSUME NEW e \in Entry PROVE e.rel \in Nat /\ e.rel # 0 /\ e.left \in Int
  OBVIOUS
<1>1. e.rel \in Releases /\ e.left \in (0..Tries) \cup {Permanent}
  BY DEF Entry
<1>2. e.left \in Int
  BY <1>1, BoundAssumption
<1> QED
  BY <1>1, <1>2, ReleasesAssumption

LEMMA KnownIs ==
  ASSUME NEW E, OneEach(E), NEW k \in E, ~OnTrial(k), \A f \in E : ~OnTrial(f) => f.rel <= k.rel
  PROVE  KnownOf(E) = k.rel
<1> DEFINE S == PermanentIn(E)
<1>1. k \in S /\ \A f \in S : f \in E /\ ~OnTrial(f)
  BY DEF PermanentIn
<1>2. \A f \in S : f.rel \in Nat /\ f.rel <= k.rel
  BY <1>1, EntryIsNumbered DEF OneEach
<1>3. \A f \in S : f.rel = k.rel => f = k
  BY <1>1 DEF OneEach
<1>4. NewestOf(S) = k
  <2> HIDE DEF S
  <2> QED
    BY <1>1, <1>2, <1>3, NewestIs
<1> QED
  BY <1>4 DEF KnownOf

LEMMA TrialIs ==
  ASSUME NEW E, OneEach(E), NEW t \in E, OnTrial(t), \A f \in E : OnTrial(f) => f = t
  PROVE  TrialOf(E) = t.rel /\ LeftOf(E) = t.left
<1>1. TrialsIn(E) = {t}
  BY DEF TrialsIn
<1>2. t.rel \in Nat
  BY EntryIsNumbered DEF OneEach
<1>3. NewestOf({t}) = t
  <2> DEFINE S == {t}
  <2>1. t \in S /\ \A f \in S : f.rel \in Nat /\ f.rel <= t.rel /\ f = t
    BY <1>2
  <2> HIDE DEF S
  <2>2. NewestOf(S) = t
    BY <2>1, NewestIs
  <2> QED
    BY <2>2 DEF S
<1> QED
  BY <1>1, <1>3 DEF TrialOf, LeftOf

LEMMA NoTrialIs ==
  ASSUME NEW E, \A f \in E : ~OnTrial(f)
  PROVE  TrialOf(E) = NoRelease /\ LeftOf(E) = 0
BY DEF TrialOf, LeftOf, TrialsIn

-----------------------------------------------------------------------------
LEMMA PromiseInit == Init => Promise!Init
<1> SUFFICES ASSUME Init PROVE Promise!Init
  OBVIOUS
<1> DEFINE e == [rel |-> First, slot |-> "A", left |-> Permanent, whole |-> TRUE]
<1>1. esp = {e} /\ ~OnTrial(e) /\ e.rel = First /\ running.rel = First
  BY DEF Init, OnTrial
<1>2. OneEach({e}) /\ First \in Nat
  BY ReleasesAssumption DEF OneEach, Entry
<1> HIDE DEF e
<1>3. KnownOf(esp) = First
  BY <1>1, <1>2, KnownIs
<1>4. TrialOf(esp) = NoRelease /\ LeftOf(esp) = 0
  BY <1>1, NoTrialIs
<1> QED
  BY <1>1, <1>3, <1>4 DEF Promise!Init

(* The bootloader's choice is TrialBoot's: the trial as long as it has tries, else the known release. *)
LEMMA BootKeepsPromise ==
  ASSUME Careful, IInv, IInv', CInv, CInv', NEW e \in esp, Boot(e)
  PROVE  [Promise!Next]_(Promise!vars)
<1>0. /\ TypeOK /\ OneEach(esp) /\ OneEach(esp') /\ e \in BootChoices(esp) /\ e \in Entry
      /\ running.rel = NoRelease /\ running'.rel \in {NoRelease, e.rel}
  BY DEF IInv, TypeOK, CInv, EntriesInOrder, OneEach, Boot, IsUp
<1>1. PICK k \in esp : Known(k) /\ Verifies(k, slots)
  BY DEF CInv, KnownVerifies
<1>2. KnownOf(esp) = k.rel
  BY <1>0, <1>1, KnownIs DEF Known
<1>3. ~Exhausted(e) /\ e.left \in Int
  BY <1>0, <1>1, EntryIsNumbered DEF BootChoices, SortsBefore, Known, OnTrial, Exhausted
<1>4. CASE OnTrial(e)
  <2> DEFINE lower == [e EXCEPT !.left = @ - 1]
  <2>1. \A f \in esp : OnTrial(f) => f = e
    BY <1>4 DEF CInv, EntriesInOrder
  <2>2. TrialOf(esp) = e.rel /\ LeftOf(esp) = e.left
    BY <1>0, <1>4, <2>1, TrialIs
  <2>3. e.left \in 1..Tries
    BY <1>0, <1>3, <1>4, BoundAssumption DEF Entry, OnTrial, Exhausted
  <2>4. lower.rel = e.rel /\ lower.left = e.left - 1 /\ OnTrial(lower)
    BY <1>0, <2>3, BoundAssumption DEF Entry, OnTrial
  <2>5. esp' = (esp \ {e}) \cup {lower}
    <3>1. ~ \E f \in esp : f.rel = e.rel /\ f.left = e.left - 1
      BY <2>3 DEF CInv, EntriesInOrder
    <3> QED
      BY <2>3, <3>1 DEF Boot, Booted
  <2> HIDE DEF lower
  <2>6. TrialOf(esp') = e.rel /\ LeftOf(esp') = e.left - 1
    BY <1>0, <2>1, <2>4, <2>5, TrialIs
  <2>7. k \in esp' /\ ~OnTrial(k) /\ \A f \in esp' : ~OnTrial(f) => f.rel <= k.rel
    BY <1>1, <1>4, <2>4, <2>5 DEF Known
  <2>8. KnownOf(esp') = KnownOf(esp)
    BY <1>0, <1>2, <2>7, KnownIs
  <2> QED
    BY <1>0, <2>2, <2>3, <2>6, <2>8 DEF Promise!Next, Promise!Boot
<1>5. CASE ~OnTrial(e)
  <2>1. esp' = esp
    BY <1>5 DEF Boot, Booted, OnTrial
  <2>2. LeftOf(esp) = 0
    <3>1. CASE \E t \in esp : OnTrial(t)
      <4>1. PICK t \in esp : OnTrial(t)
        BY <3>1
      <4>2. \A f \in esp : OnTrial(f) => f = t
        BY <4>1 DEF CInv, EntriesInOrder
      <4>3. Exhausted(t)
        <5>1. t.rel > e.rel
          BY <1>5, <4>1 DEF CInv, EntriesInOrder
        <5>2. ~SortsBefore(t, e)
          BY <1>0 DEF BootChoices
        <5> QED
          BY <1>3, <5>1, <5>2 DEF SortsBefore
      <4>4. LeftOf(esp) = t.left
        BY <1>0, <4>1, <4>2, TrialIs
      <4> QED
        BY <4>3, <4>4 DEF Exhausted
    <3>2. CASE \A f \in esp : ~OnTrial(f)
      BY <3>2, NoTrialIs
    <3> QED
      BY <3>1, <3>2
  <2>3. e.rel = k.rel
    <3>1. e.rel <= k.rel
      BY <1>1, <1>5 DEF Known
    <3>2. ~SortsBefore(k, e) /\ ~Exhausted(k)
      BY <1>0, <1>1 DEF BootChoices, Known, OnTrial, Exhausted
    <3>3. ~(k.rel > e.rel)
      BY <1>3, <3>2 DEF SortsBefore
    <3>4. k.rel \in Nat /\ e.rel \in Nat
      BY <1>0, EntryIsNumbered DEF OneEach
    <3> QED
      BY <3>1, <3>3, <3>4
  <2>4. CASE running' = running
    BY <2>1, <2>4 DEF Promise!vars
  <2>5. CASE running'.rel = e.rel
    BY <1>0, <1>2, <2>1, <2>2, <2>3, <2>5 DEF Promise!Next, Promise!Boot
  <2> QED
    BY <2>4, <2>5 DEF Boot
<1> QED
  BY <1>4, <1>5

(* The gate makes the trial the known release, while it runs. *)
LEMMA PromotionKeepsPromise ==
  ASSUME Careful, IInv, IInv', CInv, CInv', GateClear
  PROVE  [Promise!Next]_(Promise!vars)
<1>0. gate.pc = "healthy" /\ UNCHANGED <<slots, running, job, proven>> /\ gate'.pc = "done"
  BY DEF GateClear, Decided
<1>1. CASE esp' = esp
  BY <1>0, <1>1 DEF Promise!vars
<1>2. ASSUME NEW e \in StillCounted(esp), esp' = MarkedGood(esp, e) PROVE Promise!Next
  <2>1. e.rel = running.rel /\ e \in esp /\ OnTrial(e) /\ e \in Entry
    BY <1>0, <1>2, CarefulPromotes DEF StillCounted, IInv, TypeOK
  <2>2. \A f \in esp : OnTrial(f) => f = e
    BY <2>1 DEF CInv, EntriesInOrder
  <2>3. OneEach(esp) /\ OneEach(esp') /\ e.rel \in Nat /\ e.rel # 0
    BY <2>1, EntryIsNumbered DEF IInv, TypeOK, CInv, EntriesInOrder, OneEach
  <2>4. TrialOf(esp) = e.rel
    BY <2>1, <2>2, <2>3, TrialIs
  <2> DEFINE good == [e EXCEPT !.left = Permanent]
  <2>5. good.rel = e.rel /\ ~OnTrial(good)
    BY <2>1 DEF Entry, OnTrial
  <2>6. good \in esp' /\ \A f \in esp' : f = good \/ (f \in esp /\ f # e)
    BY <1>2 DEF MarkedGood
  <2> HIDE DEF good
  <2>7. \A f \in esp' : ~OnTrial(f) /\ f.rel <= good.rel
    <3> SUFFICES ASSUME NEW f \in esp' PROVE ~OnTrial(f) /\ f.rel <= good.rel
      OBVIOUS
    <3>1. CASE f = good
      BY <3>1, <2>3, <2>5
    <3>2. CASE f \in esp /\ f # e
      <4>1. ~OnTrial(f) /\ e.rel > f.rel
        BY <2>1, <2>2, <3>2 DEF CInv, EntriesInOrder
      <4>2. f.rel \in Nat
        BY <3>2, EntryIsNumbered, <2>3 DEF OneEach
      <4> QED
        BY <2>3, <2>5, <4>1, <4>2
    <3> QED
      BY <2>6, <3>1, <3>2
  <2>8. KnownOf(esp') = e.rel
    BY <2>3, <2>5, <2>6, <2>7, KnownIs
  <2>9. TrialOf(esp') = NoRelease /\ LeftOf(esp') = 0
    BY <2>7, NoTrialIs
  <2> QED
    BY <1>0, <2>1, <2>3, <2>4, <2>8, <2>9 DEF Promise!Next, Promise!Promote
<1> QED
  BY <1>1, <1>2 DEF GateClear

(* During a run the machine is on the known release. *)
LEMMA OnTheKnown ==
  ASSUME IInv, CInv, IsRunning
  PROVE  \E k \in esp : Known(k) /\ RunningEntry(k) /\ KnownOf(esp) = running.rel
<1>1. PICK k \in esp : Known(k) /\ RunningEntry(k)
  BY RunningIsKnown
<1>2. OneEach(esp)
  BY DEF IInv, TypeOK, CInv, EntriesInOrder, OneEach
<1>3. KnownOf(esp) = k.rel
  BY <1>1, <1>2, KnownIs DEF Known
<1> QED
  BY <1>1, <1>3 DEF RunningEntry

(* A removal takes the trial or an older permanent entry, never the known one. *)
LEMMA PruneKeepsPromise ==
  ASSUME Careful, IInv, IInv', CInv, CInv', NEW e \in job.prune, Prune(e)
  PROVE  [Promise!Next]_(Promise!vars)
<1>0. IsRunning /\ esp' = {f \in esp : ~SameName(f, e)} /\ running' = running /\ e.rel # running.rel
  BY DEF Prune, IsRunning, Careful, SameMachine, CInv, JobIsSettled
<1>1. PICK k \in esp : Known(k) /\ RunningEntry(k) /\ KnownOf(esp) = running.rel
  BY <1>0, OnTheKnown
<1>2. OneEach(esp) /\ OneEach(esp')
  BY DEF IInv, TypeOK, CInv, EntriesInOrder, OneEach
<1>3. k \in esp' /\ ~OnTrial(k) /\ \A f \in esp' : ~OnTrial(f) => f.rel <= k.rel
  BY <1>0, <1>1 DEF SameName, RunningEntry, Known
<1>4. KnownOf(esp') = running.rel
  BY <1>1, <1>2, <1>3, KnownIs DEF RunningEntry
<1>5. ASSUME NEW t \in esp, OnTrial(t) PROVE [Promise!Next]_(Promise!vars)
  <2>1. \A f \in esp : OnTrial(f) => f = t
    BY <1>5 DEF CInv, EntriesInOrder
  <2>2. TrialOf(esp) = t.rel /\ LeftOf(esp) = t.left
    BY <1>2, <1>5, <2>1, TrialIs
  <2>3. CASE t \in esp'
    <3>1. TrialOf(esp') = t.rel /\ LeftOf(esp') = t.left
      BY <1>0, <1>2, <1>5, <2>1, <2>3, TrialIs
    <3> QED
      BY <1>0, <1>1, <1>4, <2>2, <3>1 DEF Promise!vars
  <2>4. CASE t \notin esp'
    <3>1. TrialOf(esp') = NoRelease /\ LeftOf(esp') = 0
      BY <1>0, <2>1, <2>4, NoTrialIs
    <3>2. t.rel # NoRelease
      BY <1>2, EntryIsNumbered DEF OneEach
    <3> QED
      BY <1>0, <1>1, <1>4, <2>2, <3>1, <3>2 DEF Promise!Next, Promise!Discard
  <2> QED
    BY <2>3, <2>4
<1>6. CASE \A f \in esp : ~OnTrial(f)
  <2>1. TrialOf(esp') = TrialOf(esp) /\ LeftOf(esp') = LeftOf(esp)
    BY <1>0, <1>6, NoTrialIs
  <2> QED
    BY <1>0, <1>1, <1>4, <2>1 DEF Promise!vars
<1> QED
  BY <1>5, <1>6

(* The entry is staged when its file appears, truncated as it is; that the copy completes changes nothing. *)
LEMMA InstallKeepsPromise ==
  ASSUME Careful, IInv, IInv', CInv, CInv', InstallEntry \/ CopyDone
  PROVE  [Promise!Next]_(Promise!vars)
<1>0. IsRunning /\ running' = running /\ OneEach(esp) /\ OneEach(esp') /\ running.rel \in Nat
      /\ job.rel \in Releases /\ job.rel > running.rel /\ job.rel \in Nat
  <2>1. job.pc \in {"prune", "copy"} /\ running' = running
    BY DEF InstallEntry, CopyDone, SameMachine
  <2>2. IsRunning /\ job.rel \in Releases /\ job.rel > running.rel
    BY <2>1 DEF IsRunning, IInv, JobIsSound
  <2>3. OneEach(esp) /\ OneEach(esp')
    BY DEF IInv, TypeOK, CInv, EntriesInOrder, OneEach
  <2>4. running.rel \in Nat
    BY EntryNumbers DEF IInv
  <2> QED
    BY <2>1, <2>2, <2>3, <2>4, ReleasesAssumption
<1>1. PICK k \in esp : Known(k) /\ RunningEntry(k) /\ KnownOf(esp) = running.rel
  BY <1>0, OnTheKnown
<1>2. \A whole \in BOOLEAN : /\ NewEntry(whole).rel = job.rel /\ NewEntry(whole).left = Tries
                             /\ OnTrial(NewEntry(whole)) /\ NewEntry(whole) # k
  BY <1>0, <1>1, BoundAssumption DEF NewEntry, OnTrial, RunningEntry
<1>3. ASSUME NEW E, OneEach(E), NEW whole \in BOOLEAN, E = {k, NewEntry(whole)}
      PROVE  KnownOf(E) = running.rel /\ TrialOf(E) = job.rel /\ LeftOf(E) = Tries
  <2>1. k.rel = running.rel /\ ~OnTrial(k) /\ k.rel <= k.rel
    BY <1>0, <1>1 DEF RunningEntry, Known
  <2>2. KnownOf(E) = k.rel
    BY <1>2, <1>3, <2>1, KnownIs
  <2>3. TrialOf(E) = job.rel /\ LeftOf(E) = Tries
    BY <1>2, <1>3, <2>1, TrialIs
  <2> QED
    BY <2>1, <2>2, <2>3
<1>4. CASE InstallEntry
  <2>1. esp = {k}
    BY <1>1, <1>4 DEF InstallEntry, CInv, JobIsSettled, EntriesInOrder, RunningEntry
  <2>2. esp' = {k, NewEntry(FALSE)}
    <3>1. ~SameName(k, NewEntry(FALSE))
      <4> DEFINE new == NewEntry(FALSE)
      <4>1. new.rel = job.rel /\ k.rel = running.rel
        BY <1>1, <1>2 DEF RunningEntry
      <4>2. job.rel # running.rel
        BY <1>0
      <4> HIDE DEF new
      <4>3. ~SameName(k, new)
        BY <4>1, <4>2, Zenon DEF SameName
      <4> QED
        BY <4>3 DEF new
    <3> QED
      BY <1>4, <2>1, <3>1 DEF InstallEntry
  <2>3. TrialOf(esp) = NoRelease
    BY <1>1, <2>1, NoTrialIs DEF Known
  <2>4. KnownOf(esp') = running.rel /\ TrialOf(esp') = job.rel /\ LeftOf(esp') = Tries
    BY <1>0, <1>3, <2>2
  <2>5. Promise!Stage(job.rel)
    BY <1>0, <1>1, <2>3, <2>4 DEF Promise!Stage
  <2> QED
    BY <1>0, <2>5 DEF Promise!Next
<1>5. CASE CopyDone
  <2>1. esp = {k, NewEntry(FALSE)} /\ esp' = {k, NewEntry(TRUE)}
    <3>0. \A f \in esp : f.rel = running.rel \/ f = NewEntry(FALSE)
      BY <1>5 DEF CopyDone, CInv, JobIsSettled
    <3>1. \A f \in esp : f = k \/ f = NewEntry(FALSE)
      BY <1>0, <1>1, <3>0 DEF OneEach, RunningEntry
    <3>2. NewEntry(FALSE) \in esp
      BY <1>5 DEF CopyDone, CInv, JobIsSettled
    <3> QED
      BY <1>1, <1>2, <1>5, <3>1, <3>2 DEF CopyDone
  <2>2. /\ KnownOf(esp) = running.rel /\ TrialOf(esp) = job.rel /\ LeftOf(esp) = Tries
        /\ KnownOf(esp') = running.rel /\ TrialOf(esp') = job.rel /\ LeftOf(esp') = Tries
    BY <1>0, <1>3, <2>1
  <2> QED
    BY <1>0, <2>2 DEF Promise!vars
<1> QED
  BY <1>4, <1>5

LEMMA PromiseStep == Careful /\ IInv /\ IInv' /\ CInv /\ CInv' /\ [Next]_vars => [Promise!Next]_(Promise!vars)
<1> SUFFICES ASSUME Careful, IInv, IInv', CInv, CInv', [Next]_vars PROVE [Promise!Next]_(Promise!vars)
  OBVIOUS
<1>1. ASSUME NEW e \in esp, Boot(e) PROVE [Promise!Next]_(Promise!vars)
  BY <1>1, BootKeepsPromise
<1>2. CASE PowerLoss \/ OperatorRestart \/ GateRestart
  <2>1. running'.rel = NoRelease /\ esp' = esp
    BY <1>2 DEF PowerLoss, OperatorRestart, GateRestart, GoDown, Off, durable
  <2> QED
    BY <2>1 DEF Promise!Next, Promise!Stop, Promise!vars
<1>3. CASE GateClear
  BY <1>3, PromotionKeepsPromise
<1>4. ASSUME NEW e \in job.prune, Prune(e) PROVE [Promise!Next]_(Promise!vars)
  BY <1>4, PruneKeepsPromise
<1>5. CASE InstallEntry \/ CopyDone
  BY <1>5, InstallKeepsPromise
<1>6. CASE UNCHANGED <<esp, running>>
  BY <1>6 DEF Promise!vars
<1>7. CASE \/ DaemonCrash \/ DaemonRestart \/ GateFindsHealthy \/ GateFindsUnhealthy \/ GateWeighsRestart
           \/ UNCHANGED vars
  BY <1>6, <1>7 DEF DaemonCrash, DaemonRestart, GateFindsHealthy, GateFindsUnhealthy, GateWeighsRestart, durable, vars
<1>8. CASE \/ \E r \in Releases : Request(r)
           \/ Evaluate \/ GiveUp \/ Stage \/ WriteUsr \/ WriteVerity \/ WriteFails \/ MountEsp
           \/ ActivationFails \/ Record
  BY <1>6, <1>8 DEF Request, Evaluate, GiveUp, Stage, WriteUsr, WriteVerity, WriteFails, MountEsp, ActivationFails,
                    Record, SameMachine, SameEsp
<1> QED
  BY <1>1, <1>2, <1>3, <1>4, <1>5, <1>7, <1>8 DEF Next, GateNext, JobNext

(* ADR-0005, for a careful operator: the boot entries, the bootloader, the gate and the update job together do only what
   TrialBoot allows, whatever fails: one known good release and one bounded trial.  (That a machine that is off does boot,
   the rest of KeepsPromise, is fairness and is left to TLC.) *)
THEOREM ImplementsTrialBoot == Careful /\ Spec => Promise!Safe
<1> SUFFICES ASSUME Careful PROVE Spec => Promise!Safe
  OBVIOUS
<1>1. Init => CInv /\ Promise!Init
  BY CarefulInit, PromiseInit
<1>2. IInv /\ IInv' /\ CInv /\ [Next]_vars => CInv'
  BY CarefulStep
<1>3. IInv /\ IInv' /\ CInv /\ CInv' /\ [Next]_vars => [Promise!Next]_(Promise!vars)
  BY PromiseStep
<1> QED
  BY <1>1, <1>2, <1>3, Invariance, PTL DEF Spec, Promise!Safe
=============================================================================
