---------------------------- MODULE ServingProofs ----------------------------
(***************************************************************************)
(* Proofs about Serving, for any number of ports, retries and probes, and  *)
(* any faults: that it is the launcher of Instances, and that it is given  *)
(* up as dead only when its instance is down.                              *)
(***************************************************************************)
EXTENDS Serving, TLAPS

USE BoundsAssumption, InstancesAssumption

-----------------------------------------------------------------------------
(* The types of Instances, for its one launcher here: the prover does not *)
(* take the theorems of an instantiated module.                            *)

LEMMA FaultType ==
  ASSUME Life!TypeOK, NEW kind, Life!Fault(kind)
  PROVE  faults' \in 0..MaxFaults
BY DEF Life!TypeOK, Life!Fault

LEMMA StopType ==
  ASSUME Life!TypeOK, NEW n \in Names, Life!Exists(n), Life!StopRequest(n)
  PROVE  inst' \in [Names -> Life!InstType] /\ faults' \in 0..MaxFaults
<1>1. CASE inst' = [inst EXCEPT ![n].status = "Stopped"] /\ UNCHANGED faults
  <2>1. inst[n] \in [status : {"Stopped", "Running"}, idle : BOOLEAN]
    BY DEF Life!TypeOK, Life!InstType, Life!Absent, Life!Exists
  <2>2. [inst[n] EXCEPT !.status = "Stopped"] \in Life!InstType
    BY <2>1 DEF Life!InstType
  <2> QED
    BY <1>1, <2>2 DEF Life!TypeOK
<1>2. CASE Life!Fault("lxd") /\ UNCHANGED inst
  BY <1>2, FaultType DEF Life!TypeOK
<1> QED
  BY <1>1, <1>2 DEF Life!StopRequest

LEMMA DeleteType ==
  ASSUME Life!TypeOK, NEW n \in Names, Life!DeleteRequest(n) \/ Life!DeleteRefused(n)
  PROVE  inst' \in [Names -> Life!InstType] /\ faults' \in 0..MaxFaults
<1>1. CASE Life!DeleteRequest(n)
  BY <1>1 DEF Life!DeleteRequest, Life!Put, Life!TypeOK, Life!InstType
<1>2. CASE Life!DeleteRefused(n)
  BY <1>2, FaultType DEF Life!DeleteRefused, Life!TypeOK
<1> QED
  BY <1>1, <1>2

LEMMA PutType ==
  ASSUME Life!TypeOK, NEW n \in Names, NEW status \in {"Stopped", "Running"}, NEW idle \in BOOLEAN,
         Life!Put(n, [status |-> status, idle |-> idle])
  PROVE  inst' \in [Names -> Life!InstType]
BY DEF Life!TypeOK, Life!Put, Life!InstType

(* The steps of the launcher. *)
LEMMA LauncherTypeStep ==
  ASSUME Life!TypeOK, NEW n \in Names,
         Life!Boot(n) \/ Life!Main(n) \/ Life!Cleaner(n) \/ Life!Signal(n) \/ Life!Kill(n)
  PROVE  Life!TypeOK'
<1> USE DEF Life!LauncherPC, Life!CleanerPC, Life!GcSane, Life!Go, Life!Exit
<1>1. CASE Life!Boot(n) \/ Life!CheckExists(n) \/ Life!Launch(n) \/ Life!NetworkReady(n)
  BY <1>1 DEF Life!Boot, Life!CheckExists, Life!Launch, Life!NetworkReady, Life!TypeOK
<1>2. CASE Life!Command(n) \/ Life!ProcessEnds(n)
  BY <1>2 DEF Life!Command, Life!Started, Life!ProcessEnds, Life!TypeOK
<1>3. CASE \/ Life!GiveUp(n) \/ Life!NetworkFails(n) \/ Life!QuitNothing(n)
           \/ Life!CleanNothing(n) \/ Life!Signal(n) \/ Life!Kill(n)
  <2>1. inst' = inst /\ faults' \in 0..MaxFaults
    BY <1>3, FaultType
       DEF Life!GiveUp, Life!NetworkFails, Life!QuitNothing, Life!CleanNothing, Life!Signal,
           Life!Kill, Life!TypeOK
  <2> QED
    BY <1>3, <2>1
       DEF Life!GiveUp, Life!NetworkFails, Life!QuitNothing, Life!CleanNothing, Life!Signal,
           Life!Kill, Life!TypeOK
<1>4. CASE Life!RemoveStop(n) \/ Life!QuitStop(n) \/ Life!CleanStop(n)
  BY <1>4, StopType DEF Life!RemoveStop, Life!QuitStop, Life!CleanStop, Life!TypeOK
<1>5. CASE Life!RemoveDelete(n) \/ Life!QuitDelete(n) \/ Life!CleanDelete(n)
  BY <1>5, DeleteType DEF Life!RemoveDelete, Life!QuitDelete, Life!CleanDelete, Life!TypeOK
<1>6. CASE Life!Create(n) \/ Life!Restart(n) \/ Life!StartInstance(n)
  <2>1. inst' \in [Names -> Life!InstType] /\ faults' = faults
    <3>1. CASE Life!Restart(n)
      <4>1. [inst[n] EXCEPT !.status = "Stopped"] \in Life!InstType
        BY <3>1 DEF Life!Restart, Life!Running, Life!TypeOK, Life!InstType, Life!Absent
      <4> QED
        BY <3>1, <4>1 DEF Life!Restart, Life!TypeOK
    <3>2. CASE Life!Create(n) \/ Life!StartInstance(n)
      BY <3>2, PutType DEF Life!Create, Life!StartInstance, Life!TypeOK
    <3> QED
      BY <1>6, <3>1, <3>2
  <2> QED
    BY <1>6, <2>1
       DEF Life!Create, Life!Restart, Life!StartInstance, Life!Started, Life!TypeOK
<1> QED
  BY <1>1, <1>2, <1>3, <1>4, <1>5, <1>6 DEF Life!Main, Life!Cleaner

(* The steps of the collector. *)
LEMMA GcTypeStep == ASSUME Life!TypeOK, Life!Gc PROVE Life!TypeOK'
<1> USE DEF Life!GcPC, Life!GcType, Life!GcSane
<1>1. CASE Life!ListInstances
  BY <1>1 DEF Life!ListInstances, Life!Idle, Life!TypeOK
<1>2. CASE Life!Swept
  BY <1>2 DEF Life!Swept, Life!GcGo, Life!TypeOK
<1>3. CASE Life!ListPods
  <2>1. faults' \in 0..MaxFaults
    BY <1>3, FaultType DEF Life!ListPods, Life!TypeOK
  <2>2. {n \in gc.kept : Life!Podless(n)} \in SUBSET (Names \union {NoName})
    BY DEF Life!TypeOK
  <2>3. gc' \in Life!GcType /\ Life!GcSane'
    <3>1. CASE gc' = [gc EXCEPT !.pc = "collect", !.kept = {n \in gc.kept : Life!Podless(n)}]
      BY <1>3, <2>2, <3>1 DEF Life!ListPods, Life!TypeOK
    <3>2. CASE gc' = [gc EXCEPT !.pc = "collect"]
      BY <1>3, <3>2 DEF Life!ListPods, Life!TypeOK
    <3>3. CASE gc' = Life!Idle
      BY <3>3 DEF Life!Idle
    <3> QED
      BY <1>3, <3>1, <3>2, <3>3 DEF Life!ListPods
  <2> QED
    BY <1>3, <2>1, <2>3 DEF Life!ListPods, Life!TypeOK
<1>4. CASE Life!CollectZero \/ Life!Collected
  BY <1>4 DEF Life!CollectZero, Life!GcGo, Life!Collected, Life!Idle, Life!TypeOK
<1>5. ASSUME NEW n \in Names,
             \/ Life!Sweep(n) \/ Life!SweepStop(n) \/ Life!SweepDelete(n) \/ Life!SweepFails(n)
             \/ Life!CollectStop(n) \/ Life!CollectEnds(n)
      PROVE  Life!TypeOK'
  <2>0. n # NoName
    BY DEF Names
  <2>1. CASE Life!Sweep(n)
    BY <2>0, <2>1 DEF Life!Sweep, Life!TypeOK
  <2>2. CASE Life!SweepStop(n)
    BY <2>2, StopType DEF Life!SweepStop, Life!GcGo, Life!TypeOK
  <2>3. CASE Life!SweepDelete(n)
    BY <2>3, DeleteType DEF Life!SweepDelete, Life!TypeOK
  <2>4. CASE Life!SweepFails(n)
    <3>1. inst' \in [Names -> Life!InstType] /\ faults' \in 0..MaxFaults
      BY <2>4, FaultType, DeleteType DEF Life!SweepFails, Life!TypeOK
    <3> QED
      BY <2>4, <3>1 DEF Life!SweepFails, Life!GcKeep, Life!TypeOK
  <2>6. CASE Life!CollectStop(n)
    BY <2>0, <2>6, StopType DEF Life!CollectStop, Life!GcGo, Life!TypeOK
  <2>7. CASE Life!CollectEnds(n)
    <3>1. inst' \in [Names -> Life!InstType] /\ faults' \in 0..MaxFaults
      BY <2>7, FaultType, DeleteType DEF Life!CollectEnds, Life!TypeOK
    <3> QED
      BY <2>7, <3>1 DEF Life!CollectEnds, Life!TypeOK
  <2> QED
    BY <1>5, <2>1, <2>2, <2>3, <2>4, <2>6, <2>7
<1>6. ASSUME NEW n \in Names \union {NoName}, Life!Collect(n) PROVE Life!TypeOK'
  BY <1>6 DEF Life!Collect, Life!TypeOK
<1> QED
  BY <1>1, <1>2, <1>3, <1>4, <1>5, <1>6 DEF Life!Gc

LEMMA TypeStep == Life!TypeOK /\ [Life!Next]_Life!vars => Life!TypeOK'
<1> SUFFICES ASSUME Life!TypeOK, [Life!Next]_Life!vars PROVE Life!TypeOK'
  OBVIOUS
<1> USE DEF Life!GcSane
<1>1. ASSUME NEW n \in Names, Life!Kubernetes(n) PROVE Life!TypeOK'
  <2>1. faults' \in 0..MaxFaults
    BY <1>1, FaultType DEF Life!Kubernetes, Life!PodCreated, Life!PodDeleted, Life!PodGone, Life!TypeOK
  <2> QED
    BY <1>1, <2>1 DEF Life!Kubernetes, Life!PodCreated, Life!PodDeleted, Life!PodGone, Life!TypeOK, Life!PodType
<1>2. ASSUME NEW n \in Names, Life!Age(n) PROVE Life!TypeOK'
  <2>1. inst[n] \in [status : {"Stopped", "Running"}, idle : BOOLEAN]
    BY <1>2 DEF Life!Age, Life!Exists, Life!TypeOK, Life!InstType, Life!Absent
  <2>2. [inst[n] EXCEPT !.idle = TRUE] \in Life!InstType
    BY <2>1 DEF Life!InstType
  <2> QED
    BY <1>2, <2>2 DEF Life!Age, Life!TypeOK
<1>3. CASE UNCHANGED Life!vars
  BY <1>3 DEF Life!vars, Life!TypeOK
<1> QED
  BY <1>1, <1>2, <1>3, LauncherTypeStep, GcTypeStep DEF Life!Next

LEMMA TypeInit == Life!Init => Life!TypeOK
<1> SUFFICES ASSUME Life!Init PROVE Life!TypeOK
  OBVIOUS
<1>1. inst \in [Names -> Life!InstType]
  BY DEF Life!Init, Life!InstType
<1>2. pod \in [Names -> Life!PodType]
  BY DEF Life!Init, Life!PodType
<1>3. launcher \in [Names -> Life!LauncherPC] /\ cleaner \in [Names -> Life!CleanerPC]
  BY DEF Life!Init, Life!LauncherPC, Life!CleanerPC
<1>4. gc \in Life!GcType /\ Life!GcSane /\ faults \in 0..MaxFaults
  BY DEF Life!Init, Life!GcType, Life!GcPC, Life!GcSane, Life!Idle
<1> QED
  BY <1>1, <1>2, <1>3, <1>4 DEF Life!TypeOK

-----------------------------------------------------------------------------
(* What the goroutines know of each other.                                 *)

(* There are goroutines as long as the launcher serves. *)
OnlyWhileServing == IF Serving THEN proc.handler # "none" ELSE proc = Off

(* StartLoop ends by the hand of the handler alone. *)
Closing == {"prober", "stop", "delete", "sleep"}
ClosedByHandler ==
  /\ proc.channel => proc.handler \in Closing
  /\ proc.loop = "canceled" => proc.channel

(* A port gives up when its retries are used up; that takes socats that    *)
(* end by themselves, or have been canceled.                               *)
RetriesUsedUp ==
  \A k \in Ports :
    /\ PortAt(k, "run") => HasRetry(k)
    /\ PortAt(k, "kill") => ~HasRetry(k)
    /\ proc.port[k].retry > 1 => "proxy" \in Faults \/ proc.loop = "canceled"

(* More failures than LXD may leave unanswered are failures of the         *)
(* instance, which does not come back under its launcher.                  *)
Blips == IF "lxd" \in Faults THEN MaxBlips ELSE 0
FailuresTold == proc.failures > Blips => ~Life!Running(Self)

Inv == OnlyWhileServing /\ ClosedByHandler /\ RetriesUsedUp /\ FailuresTold

IInv == TypeOK /\ Inv

LEMMA OffType == Off \in ProcType
BY DEF Off, ProcType, HandlerPC, PortPC

(* The steps that belong to Instances keep the process while it serves,    *)
(* and leave none otherwise.                                               *)
LEMMA PaceKept ==
  ASSUME IInv, Before \/ Around \/ Collector
  PROVE  /\ proc' \in {proc, Off}
         /\ proc' = IF Serving' THEN proc ELSE Off
BY DEF Before, Around, Collector, KeepsPace, Serving

(* The collector stops and deletes, and starts nothing. *)
LEMMA GcStarts ==
  ASSUME Life!TypeOK, Life!Gc
  PROVE  launcher' = launcher /\ (Life!Running(Self)' => Life!Running(Self))
<1>1. ASSUME NEW n \in Names, Life!StopRequest(n)
      PROVE  Life!Running(Self)' => Life!Running(Self)
  BY <1>1 DEF Life!StopRequest, Life!Running, Life!TypeOK, Life!InstType, Life!Absent, Names
<1>2. ASSUME NEW n \in Names, Life!DeleteRequest(n) \/ Life!DeleteRefused(n)
      PROVE  Life!Running(Self)' => Life!Running(Self)
  BY <1>2
     DEF Life!DeleteRequest, Life!DeleteRefused, Life!Put, Life!Absent, Life!Running,
         Life!TypeOK, Names
<1>3. CASE Life!ListInstances \/ Life!Swept \/ Life!ListPods
               \/ Life!CollectZero \/ Life!Collected
  BY <1>3
     DEF Life!ListInstances, Life!Swept, Life!ListPods, Life!CollectZero, Life!Collected,
         Life!Running
<1>4. ASSUME NEW n, Life!Sweep(n) \/ Life!Collect(n)
      PROVE  launcher' = launcher /\ (Life!Running(Self)' => Life!Running(Self))
  BY <1>4 DEF Life!Sweep, Life!Collect, Life!Running
<1>5. ASSUME NEW n \in Names, Life!SweepStop(n) \/ Life!CollectStop(n)
      PROVE  launcher' = launcher /\ (Life!Running(Self)' => Life!Running(Self))
  BY <1>1, <1>5 DEF Life!SweepStop, Life!CollectStop
<1>6. ASSUME NEW n \in Names, Life!SweepDelete(n) \/ Life!SweepFails(n) \/ Life!CollectEnds(n)
      PROVE  launcher' = launcher /\ (Life!Running(Self)' => Life!Running(Self))
  <2>1. inst' = inst \/ Life!DeleteRequest(n) \/ Life!DeleteRefused(n)
    BY <1>6 DEF Life!SweepDelete, Life!SweepFails, Life!CollectEnds
  <2>2. launcher' = launcher
    BY <1>6 DEF Life!SweepDelete, Life!SweepFails, Life!CollectEnds
  <2> QED
    BY <1>2, <2>1, <2>2 DEF Life!Running
<1> QED
  BY <1>3, <1>4, <1>5, <1>6 DEF Life!Gc

(* None of them makes a launcher serve, or starts the instance of one that *)
(* serves.                                                                 *)
LEMMA PaceServes ==
  ASSUME IInv, Before \/ Around \/ Collector, Serving'
  PROVE  Serving /\ (Life!Running(Self)' => Life!Running(Self))
<1>0. Self \in Names /\ Names = {Self}
  BY DEF Names
<1>1. CASE Before
  BY <1>0, <1>1
     DEF Before, KeepsPace, StartUp, Serving, IInv, TypeOK, Life!TypeOK, Life!Go, Life!Exit,
         Life!GiveUp, Life!CheckExists, Life!RemoveStop, Life!RemoveDelete, Life!Create,
         Life!Launch, Life!Restart, Life!StartInstance, Life!Started, Life!Command,
         Life!NetworkFails, Life!QuitStop, Life!QuitDelete, Life!QuitNothing
<1>2. CASE Around
  BY <1>0, <1>2
     DEF Around, KeepsPace, EarlySignal, Serving, IInv, TypeOK, Life!TypeOK, Life!Go, Life!Exit,
         Life!Boot, Life!Signal, Life!Kill, Life!Kubernetes, Life!PodCreated, Life!PodDeleted,
         Life!PodGone, Life!Age, Life!Running, Life!InstType, Life!Absent
<1>3. CASE Collector
  BY <1>3, GcStarts DEF Collector, KeepsPace, Serving, IInv, TypeOK
<1> QED
  BY <1>1, <1>2, <1>3

LEMMA PaceStep ==
  ASSUME IInv, Before \/ Around \/ Collector
  PROVE  proc' \in ProcType /\ Inv'
<1>1. CASE Serving'
  <2>1. proc' = proc /\ Serving /\ (Life!Running(Self)' => Life!Running(Self))
    BY <1>1, PaceKept, PaceServes
  <2> QED
    BY <1>1, <2>1
       DEF IInv, TypeOK, Inv, OnlyWhileServing, ClosedByHandler, RetriesUsedUp, FailuresTold,
           PortAt, HasRetry, Serving
<1>2. CASE ~Serving'
  <2>1. proc' = Off
    BY <1>2, PaceKept
  <2> QED
    BY <1>2, <2>1, OffType
       DEF Inv, OnlyWhileServing, ClosedByHandler, RetriesUsedUp, FailuresTold, Blips, PortAt, Off,
           Serving
<1> QED
  BY <1>1, <1>2

LEMMA SetPortType ==
  ASSUME proc \in ProcType, NEW k \in Ports, NEW pc \in PortPC
  PROVE  /\ SetPort(k, pc) \in ProcType
         /\ SetPort(k, pc) = [proc EXCEPT !.port = SetPort(k, pc).port]
         /\ SetPort(k, pc).port = [proc.port EXCEPT ![k].pc = pc]
BY DEF ProcType, SetPort

LEMMA SignaledType ==
  ASSUME NEW p \in ProcType
  PROVE  /\ Signaled(p) \in ProcType
         /\ Signaled(p).handler = p.handler /\ Signaled(p).failures = p.failures
         /\ Signaled(p).loop = p.loop /\ Signaled(p).channel = p.channel
         /\ Signaled(p).port = p.port
<1>1. /\ Signaled(p).handler = p.handler /\ Signaled(p).failures = p.failures
      /\ Signaled(p).loop = p.loop /\ Signaled(p).channel = p.channel
      /\ Signaled(p).port = p.port
  BY DEF Signaled, ProcType
<1>2. Signaled(p) \in ProcType
  BY DEF Signaled, ProcType
<1> QED
  BY <1>1, <1>2

(* A step of the goroutines: it leaves LXD and the launcher alone.         *)
LEMMA GoroutineStep ==
  ASSUME IInv, Serving,
         UNCHANGED <<inst, pod, launcher, gc, faults>>,
         proc' \in ProcType, proc'.handler # "none",
         ClosedByHandler', RetriesUsedUp',
         proc'.failures > Blips => proc.failures > Blips \/ ~Life!Running(Self)
  PROVE  proc' \in ProcType /\ Inv'
BY DEF IInv, Inv, OnlyWhileServing, FailuresTold, Serving, Life!Running, Blips

LEMMA PortStep ==
  ASSUME IInv, NEW k \in Ports, Port(k)
  PROVE  proc' \in ProcType /\ Inv'
<1>0. /\ proc \in ProcType /\ proc.port[k].retry \in 1..(MaxRetry + 1)
      /\ OnlyWhileServing /\ ClosedByHandler /\ RetriesUsedUp
  BY DEF IInv, TypeOK, Inv, ProcType
<1>1. CASE PortLoops(k)
  <2>1. PICK pc \in {"gone", "run", "kill"} :
          /\ Step(SetPort(k, pc))
          /\ pc = "run" => HasRetry(k)
          /\ pc = "kill" => ~HasRetry(k)
    BY <1>1 DEF PortLoops, Exhausted
  <2>2. pc \in PortPC
    BY DEF PortPC
  <2>3. /\ proc' \in ProcType
        /\ proc'.handler = proc.handler /\ proc'.failures = proc.failures
        /\ proc'.loop = proc.loop /\ proc'.channel = proc.channel
        /\ proc'.port = [proc.port EXCEPT ![k].pc = pc]
    BY <1>0, <2>1, <2>2, SetPortType DEF Step, ProcType
  <2>4. \A l \in Ports : /\ proc'.port[l].retry = proc.port[l].retry
                         /\ proc'.port[l].pc = IF l = k THEN pc ELSE proc.port[l].pc
    BY <1>0, <2>3 DEF ProcType
  <2>5. ClosedByHandler' /\ RetriesUsedUp'
    BY <1>0, <2>1, <2>3, <2>4 DEF ClosedByHandler, RetriesUsedUp, PortAt, HasRetry
  <2> QED
    BY <1>0, <2>1, <2>3, <2>5, GoroutineStep DEF Step, OnlyWhileServing
<1>2. CASE SocatEnds(k)
  <2>1. HasRetry(k) /\ Serving /\ ("proxy" \in Faults \/ proc.loop = "canceled")
    BY <1>0, <1>2 DEF SocatEnds, RetriesUsedUp, Step
  <2>2. [pc |-> "check", retry |-> proc.port[k].retry + 1]
          \in [pc : PortPC, retry : 1..(MaxRetry + 1)]
    BY <1>0, <2>1 DEF HasRetry, PortPC
  <2>3. /\ proc' \in ProcType
        /\ proc'.handler = proc.handler /\ proc'.failures = proc.failures
        /\ proc'.loop = proc.loop /\ proc'.channel = proc.channel
        /\ proc'.port = [proc.port EXCEPT ![k] = [pc |-> "check",
                                                  retry |-> proc.port[k].retry + 1]]
    BY <1>0, <1>2, <2>2 DEF SocatEnds, Step, ProcType
  <2>4. \A l \in Ports : l # k => proc'.port[l] = proc.port[l]
    BY <1>0, <2>3 DEF ProcType
  <2>5. proc'.port[k].pc = "check"
    BY <1>0, <2>3 DEF ProcType
  <2>6. ClosedByHandler' /\ RetriesUsedUp'
    BY <1>0, <2>1, <2>3, <2>4, <2>5 DEF ClosedByHandler, RetriesUsedUp, PortAt, HasRetry
  <2> QED
    BY <1>0, <1>2, <2>1, <2>3, <2>6, GoroutineStep DEF SocatEnds, Step, OnlyWhileServing
<1>3. CASE PortKills(k)
  <2>1. "quit" \in PortPC
    BY DEF PortPC
  <2>2. /\ proc' \in ProcType
        /\ proc'.handler = proc.handler /\ proc'.failures = proc.failures
        /\ proc'.loop = proc.loop /\ proc'.channel = proc.channel
        /\ proc'.port = [proc.port EXCEPT ![k].pc = "quit"]
    <3>1. SetPort(k, "quit") \in ProcType /\ proc' = Signaled(SetPort(k, "quit"))
      BY <1>0, <1>3, <2>1, SetPortType DEF PortKills, Step
    <3>2. /\ SetPort(k, "quit") = [proc EXCEPT !.port = SetPort(k, "quit").port]
          /\ SetPort(k, "quit").port = [proc.port EXCEPT ![k].pc = "quit"]
      BY <1>0, <2>1, SetPortType
    <3>3. /\ SetPort(k, "quit").handler = proc.handler
          /\ SetPort(k, "quit").failures = proc.failures
          /\ SetPort(k, "quit").loop = proc.loop /\ SetPort(k, "quit").channel = proc.channel
      BY <1>0, <3>2 DEF ProcType
    <3> QED
      BY <3>1, <3>2, <3>3, SignaledType
  <2>3. \A l \in Ports : /\ proc'.port[l].retry = proc.port[l].retry
                         /\ proc'.port[l].pc = IF l = k THEN "quit" ELSE proc.port[l].pc
    BY <1>0, <2>2 DEF ProcType
  <2>4. ClosedByHandler' /\ RetriesUsedUp'
    BY <1>0, <2>2, <2>3 DEF ClosedByHandler, RetriesUsedUp, PortAt, HasRetry
  <2> QED
    BY <1>0, <1>3, <2>2, <2>4, GoroutineStep DEF PortKills, Step, OnlyWhileServing
<1> QED
  BY <1>1, <1>2, <1>3 DEF Port

LEMMA ProberStep ==
  ASSUME IInv, Probe \/ ProbeFails
  PROVE  proc' \in ProcType /\ Inv'
<1>0. /\ proc \in ProcType /\ proc.failures \in 0..(MaxFailure + 1)
      /\ OnlyWhileServing /\ ClosedByHandler /\ RetriesUsedUp
  BY DEF IInv, TypeOK, Inv, ProcType
<1>1. Failed \in 0..(MaxFailure + 1) /\ Failed <= proc.failures + 1
  BY <1>0 DEF Failed, Alive
<1>2. PICK n \in 0..(MaxFailure + 1) :
        /\ Step([proc EXCEPT !.failures = n])
        /\ n > Blips => ~Life!Running(Self)
  <2>1. CASE Probe
    BY <1>1, <2>1 DEF Probe, Blips
  <2>2. CASE ProbeFails
    BY <1>0, <1>1, <2>2 DEF ProbeFails, Blips
  <2> QED
    BY <2>1, <2>2
<1>3. /\ proc' \in ProcType
      /\ proc'.handler = proc.handler /\ proc'.failures = n
      /\ proc'.loop = proc.loop /\ proc'.channel = proc.channel /\ proc'.port = proc.port
  BY <1>0, <1>2 DEF Step, ProcType
<1>4. ClosedByHandler' /\ RetriesUsedUp'
  BY <1>0, <1>3 DEF ClosedByHandler, RetriesUsedUp, PortAt, HasRetry
<1> QED
  BY <1>0, <1>2, <1>3, <1>4, GoroutineStep DEF Step, OnlyWhileServing

(* The steps of main that Instances does not know, and of the handler, one *)
(* after the other.                                                        *)
LEMMA MainStep ==
  ASSUME IInv, Serve \/ StartLoop \/ CancelProxies \/ MainReturns \/ OsExit
  PROVE  proc' \in ProcType /\ Inv'
<1>0. /\ proc \in ProcType
      /\ OnlyWhileServing /\ ClosedByHandler /\ RetriesUsedUp
  BY DEF IInv, TypeOK, Inv
<1>1. CASE Serve
  <2> DEFINE p == [Off EXCEPT !.handler = "wait", !.probing = TRUE]
  <2>1. proc' = p /\ Serving'
    <3>1. launcher \in [Names -> Life!LauncherPC] /\ Self \in Names
      BY DEF IInv, TypeOK, Life!TypeOK, Names
    <3> QED
      BY <1>1, <3>1 DEF Serve, Life!NetworkReady, Life!Go, Serving
  <2>2. [Off EXCEPT !.handler = "wait"] \in ProcType
    BY OffType DEF ProcType, HandlerPC
  <2>3. p = [[Off EXCEPT !.handler = "wait"] EXCEPT !.probing = TRUE]
    BY DEF Off
  <2>4. p \in ProcType
    BY <2>2, <2>3 DEF ProcType
  <2>5. /\ p.handler = "wait" /\ p.failures = 0 /\ p.loop = "off" /\ p.channel = FALSE
        /\ p.port = [k \in Ports |-> [pc |-> "off", retry |-> 1]]
    BY DEF Off
  <2> QED
    BY <2>1, <2>4, <2>5
       DEF Inv, OnlyWhileServing, ClosedByHandler, RetriesUsedUp, FailuresTold, Blips, PortAt
<1>2. CASE StartLoop
  <2> DEFINE ports == [k \in Ports |-> [pc |-> "check", retry |-> 1]]
  <2>1. ports \in [Ports -> [pc : PortPC, retry : 1..(MaxRetry + 1)]]
    BY DEF PortPC
  <2>2. /\ proc' = [proc EXCEPT !.loop = "select", !.port = ports]
        /\ Serving /\ UNCHANGED <<inst, pod, launcher, gc, faults>>
    BY <1>2 DEF StartLoop, Step
  <2>3. [proc EXCEPT !.loop = "select"] \in ProcType
    BY <1>0 DEF ProcType
  <2>4. proc' = [[proc EXCEPT !.loop = "select"] EXCEPT !.port = ports]
    BY <1>0, <2>2 DEF ProcType
  <2>5. proc' \in ProcType
    BY <2>1, <2>3, <2>4 DEF ProcType
  <2>6. /\ proc'.handler = proc.handler /\ proc'.failures = proc.failures
        /\ proc'.loop = "select" /\ proc'.channel = proc.channel /\ proc'.port = ports
    BY <1>0, <2>2 DEF ProcType
  <2>7. ClosedByHandler' /\ RetriesUsedUp'
    BY <1>0, <2>6 DEF ClosedByHandler, RetriesUsedUp, PortAt, HasRetry
  <2> QED
    BY <1>0, <2>2, <2>5, <2>6, <2>7, GoroutineStep DEF OnlyWhileServing
<1>3. CASE CancelProxies
  <2>1. /\ proc' = [proc EXCEPT !.loop = "canceled"] /\ proc.channel
        /\ Serving /\ UNCHANGED <<inst, pod, launcher, gc, faults>>
    BY <1>3 DEF CancelProxies, CloseSeen, Step
  <2>2. proc' \in ProcType
    BY <1>0, <2>1 DEF ProcType
  <2>3. /\ proc'.handler = proc.handler /\ proc'.failures = proc.failures
        /\ proc'.loop = "canceled" /\ proc'.channel = proc.channel /\ proc'.port = proc.port
    BY <1>0, <2>1 DEF ProcType
  <2>4. ClosedByHandler' /\ RetriesUsedUp'
    BY <1>0, <2>1, <2>3 DEF ClosedByHandler, RetriesUsedUp, PortAt, HasRetry
  <2> QED
    BY <1>0, <2>1, <2>2, <2>3, <2>4, GoroutineStep DEF OnlyWhileServing
<1>4. CASE MainReturns \/ OsExit
  <2>1. proc' = Off /\ ~Serving'
    BY <1>4 DEF MainReturns, OsExit, ProcessGone, Serving, IInv, TypeOK, Life!TypeOK, Names
  <2> QED
    BY <2>1, OffType
       DEF Inv, OnlyWhileServing, ClosedByHandler, RetriesUsedUp, FailuresTold, Blips, PortAt, Off
<1> QED
  BY <1>1, <1>2, <1>3, <1>4

LEMMA HandlerStep ==
  ASSUME IInv, Receive \/ SetClosed \/ CloseChannel \/ CloseProber \/ KubeletSignals
  PROVE  proc' \in ProcType /\ Inv'
<1>0. /\ proc \in ProcType /\ Serving /\ UNCHANGED <<inst, pod, launcher, gc, faults>>
      /\ OnlyWhileServing /\ ClosedByHandler /\ RetriesUsedUp
  BY DEF IInv, TypeOK, Inv, Receive, SetClosed, CloseChannel, CloseProber, KubeletSignals, Step
<1>1. /\ proc' \in ProcType /\ proc'.handler # "none"
      /\ proc'.failures = proc.failures /\ proc'.loop = proc.loop /\ proc'.port = proc.port
      /\ proc'.channel => proc'.handler \in Closing
      /\ proc.channel => proc'.channel
  <2>1. CASE Receive
    <3>1. proc' = [proc EXCEPT !.handler = "proxy", !.signaled = FALSE] /\ proc.handler = "wait"
      BY <2>1 DEF Receive, Step
    <3> QED
      BY <1>0, <3>1 DEF ProcType, HandlerPC, ClosedByHandler, Closing
  <2>2. CASE SetClosed
    <3>1. proc' = [proc EXCEPT !.handler = "channel", !.closed = TRUE] /\ proc.handler = "proxy"
      BY <2>2 DEF SetClosed, Step
    <3> QED
      BY <1>0, <3>1 DEF ProcType, HandlerPC, ClosedByHandler, Closing
  <2>3. CASE CloseChannel
    <3>1. proc' = [proc EXCEPT !.handler = "prober", !.channel = TRUE] /\ proc.handler = "channel"
      BY <2>3 DEF CloseChannel, Step
    <3> QED
      BY <1>0, <3>1 DEF ProcType, HandlerPC, ClosedByHandler, Closing
  <2>4. CASE CloseProber
    <3>1. proc' = [proc EXCEPT !.handler = "stop", !.probing = FALSE] /\ proc.handler = "prober"
      BY <2>4 DEF CloseProber, Step
    <3> QED
      BY <1>0, <3>1 DEF ProcType, HandlerPC, ClosedByHandler, Closing
  <2>5. CASE KubeletSignals
    <3>1. proc' = Signaled(proc) /\ proc.handler = "wait"
      BY <2>5 DEF KubeletSignals, Step
    <3> QED
      BY <1>0, <3>1, SignaledType DEF ClosedByHandler, Closing
  <2> QED
    BY <2>1, <2>2, <2>3, <2>4, <2>5
<1>2. ClosedByHandler' /\ RetriesUsedUp'
  BY <1>0, <1>1 DEF ClosedByHandler, RetriesUsedUp, PortAt, HasRetry
<1> QED
  BY <1>0, <1>1, <1>2, GoroutineStep

LEMMA StopStep ==
  ASSUME IInv, StopInstance
  PROVE  proc' \in ProcType /\ Inv'
<1>0. /\ proc \in ProcType /\ Life!TypeOK /\ Self \in Names
      /\ OnlyWhileServing /\ ClosedByHandler /\ RetriesUsedUp /\ FailuresTold
  BY DEF IInv, TypeOK, Inv, Names
<1>1. PICK pc \in {"delete", "sleep"} :
        proc' = [proc EXCEPT !.handler = pc] /\ proc.handler \in {"stop", "delete"}
  BY DEF StopInstance
<1>2. Serving
  BY <1>0, <1>1 DEF OnlyWhileServing, Off
<1>3. launcher' = launcher /\ (Life!Running(Self)' => Life!Running(Self))
  <2>1. CASE Life!CleanStop(Self)
    BY <1>0, <2>1
       DEF Life!CleanStop, Life!StopRequest, Life!Running, Life!TypeOK, Life!InstType, Life!Absent
  <2>2. CASE Life!CleanDelete(Self)
    BY <1>0, <2>2
       DEF Life!CleanDelete, Life!DeleteRequest, Life!DeleteRefused, Life!Put, Life!Absent,
           Life!Running, Life!TypeOK
  <2>3. CASE Life!CleanNothing(Self)
    BY <2>3 DEF Life!CleanNothing, Life!Running
  <2> QED
    BY <2>1, <2>2, <2>3 DEF StopInstance
<1>4. /\ proc' \in ProcType /\ proc'.handler = pc
      /\ proc'.failures = proc.failures /\ proc'.loop = proc.loop
      /\ proc'.channel = proc.channel /\ proc'.port = proc.port
  BY <1>0, <1>1 DEF ProcType, HandlerPC
<1> QED
  BY <1>0, <1>2, <1>3, <1>4
     DEF Inv, OnlyWhileServing, ClosedByHandler, Closing, RetriesUsedUp, FailuresTold, PortAt,
         HasRetry, Serving, Blips

LEMMA InvStep == IInv /\ [Next]_vars => proc' \in ProcType /\ Inv'
<1> SUFFICES ASSUME IInv, [Next]_vars PROVE proc' \in ProcType /\ Inv'
  OBVIOUS
<1>1. CASE UNCHANGED vars
  BY <1>1
     DEF vars, IInv, TypeOK, Inv, OnlyWhileServing, ClosedByHandler, RetriesUsedUp, FailuresTold,
         Serving, PortAt, HasRetry, Life!Running
<1> QED
  BY <1>1, PaceStep, PortStep, ProberStep, MainStep, HandlerStep, StopStep DEF Next, Main, Handler

-----------------------------------------------------------------------------
(* Every step is one of Instances, or none there.                          *)

(* The cleaner of Instances, of one process. *)
Cleaning(q) ==
  IF q.handler = "none" \/ (q.handler = "wait" /\ ~q.signaled) THEN "none"
  ELSE IF q.handler \in {"delete", "sleep"} THEN q.handler ELSE "stop"

LEMMA CleanerOf ==
  /\ proc \in ProcType => cleaner = [n \in Names |-> Cleaning(proc)]
  /\ proc' \in ProcType => cleaner' = [n \in Names |-> Cleaning(proc')]
<1>1. proc \in ProcType => cleaner = [n \in Names |-> Cleaning(proc)]
  BY DEF cleaner, Cleaning, ProcType, HandlerPC
<1>2. proc' \in ProcType => cleaner' = [n \in Names |-> Cleaning(proc')]
  BY DEF cleaner, Cleaning, ProcType, HandlerPC
<1> QED
  BY <1>1, <1>2

(* A step of the goroutines that does not touch the cleaner. *)
LEMMA Stutters ==
  ASSUME IInv, proc' \in ProcType, UNCHANGED <<inst, pod, launcher, gc, faults>>,
         Cleaning(proc') = Cleaning(proc)
  PROVE  UNCHANGED Life!vars
BY CleanerOf DEF Life!vars, IInv, TypeOK

(* A step that leaves a signal for the handler: a signal of Instances if   *)
(* it is the first, and of no effect if it is not.                         *)
LEMMA SignalStep ==
  ASSUME IInv, Serving, proc' \in ProcType, UNCHANGED <<inst, pod, launcher, gc, faults>>,
         proc'.handler = proc.handler, proc'.signaled,
         proc.handler = "wait" => Life!SignalReason(Self)
  PROVE  [Life!Next]_Life!vars
<1>0. proc \in ProcType /\ Self \in Names /\ Names = {Self} /\ proc.handler # "none"
  BY DEF IInv, TypeOK, Names, Inv, OnlyWhileServing
<1>1. CASE proc.handler = "wait" /\ ~proc.signaled
  <2>1. cleaner[Self] = "none" /\ cleaner' = [cleaner EXCEPT ![Self] = "stop"]
    BY <1>0, <1>1, CleanerOf DEF Cleaning
  <2>2. Life!Signal(Self)
    BY <1>1, <2>1 DEF Life!Signal, Serving
  <2> QED
    BY <1>0, <2>2 DEF Life!Next
<1>2. CASE ~(proc.handler = "wait" /\ ~proc.signaled)
  <2>1. Cleaning(proc') = Cleaning(proc)
    BY <1>0, <1>2 DEF Cleaning
  <2> QED
    BY <2>1, Stutters
<1> QED
  BY <1>1, <1>2

LEMMA LifeStep == IInv /\ [Next]_vars => [Life!Next]_Life!vars
<1> SUFFICES ASSUME IInv, [Next]_vars PROVE [Life!Next]_Life!vars
  OBVIOUS
<1>0. /\ proc \in ProcType /\ proc' \in ProcType /\ Self \in Names
      /\ OnlyWhileServing /\ ClosedByHandler /\ RetriesUsedUp /\ FailuresTold
  BY InvStep DEF IInv, TypeOK, Inv, Names
<1>1. CASE Before \/ Around \/ Collector
  BY <1>0, <1>1
     DEF Before, Around, Collector, KeepsPace, StartUp, EarlySignal, Life!Next, Life!Main
<1>2. CASE Serve \/ StopInstance
  BY <1>0, <1>2 DEF Serve, StopInstance, Life!Next, Life!Main, Life!Cleaner
<1>3. CASE MainReturns \/ OsExit
  <2>1. Serving /\ Cleaning(proc) # "none"
    BY <1>0, <1>3
       DEF MainReturns, OsExit, OnlyWhileServing, ClosedByHandler, Closing, Cleaning, Off
  <2>2. proc' = Off /\ Cleaning(Off) = "none"
    BY <1>3 DEF MainReturns, OsExit, ProcessGone, Cleaning, Off
  <2>3. cleaner[Self] # "none" /\ cleaner' = [cleaner EXCEPT ![Self] = "none"]
    BY <1>0, <2>1, <2>2, CleanerOf DEF Names
  <2>4. Life!ProcessEnds(Self)
    BY <1>3, <2>1, <2>3 DEF MainReturns, OsExit, ProcessGone, Life!ProcessEnds, Life!Exit, Serving
  <2> QED
    BY <1>0, <2>4 DEF Life!Next, Life!Main
<1>4. CASE StartLoop \/ CancelProxies \/ Probe \/ ProbeFails
  <2>1. proc'.handler = proc.handler /\ proc'.signaled = proc.signaled
    BY <1>0, <1>4 DEF StartLoop, CancelProxies, Probe, ProbeFails, Step, ProcType
  <2>2. Cleaning(proc') = Cleaning(proc)
    BY <2>1 DEF Cleaning
  <2> QED
    BY <1>0, <1>4, <2>2, Stutters DEF StartLoop, CancelProxies, Probe, ProbeFails, Step
<1>5. CASE Receive \/ SetClosed \/ CloseChannel \/ CloseProber
  <2>1. Cleaning(proc) = "stop" /\ Cleaning(proc') = "stop"
    BY <1>0, <1>5 DEF Receive, SetClosed, CloseChannel, CloseProber, Step, Cleaning, ProcType
  <2> QED
    BY <1>0, <1>5, <2>1, Stutters DEF Receive, SetClosed, CloseChannel, CloseProber, Step
<1>6. ASSUME NEW k \in Ports, PortLoops(k) \/ SocatEnds(k)
      PROVE  [Life!Next]_Life!vars
  <2>1. proc'.handler = proc.handler /\ proc'.signaled = proc.signaled
    BY <1>0, <1>6 DEF PortLoops, SocatEnds, Step, SetPort, ProcType
  <2>2. Cleaning(proc') = Cleaning(proc)
    BY <2>1 DEF Cleaning
  <2> QED
    BY <1>0, <1>6, <2>2, Stutters DEF PortLoops, SocatEnds, Step
<1>7. ASSUME NEW k \in Ports, PortKills(k)
      PROVE  [Life!Next]_Life!vars
  <2>1. (Serving /\ "proxy" \in Faults) \/ proc.loop = "canceled"
    <3>1. ~HasRetry(k) /\ proc.port[k].retry \in 1..(MaxRetry + 1)
      BY <1>0, <1>7 DEF PortKills, RetriesUsedUp, ProcType
    <3>2. proc.port[k].retry > 1
      BY <3>1 DEF HasRetry
    <3> QED
      BY <1>0, <1>7, <3>2 DEF PortKills, Step, RetriesUsedUp
  <2>2. proc.handler = "wait" => Life!SignalReason(Self)
    BY <1>0, <1>7, <2>1
       DEF ClosedByHandler, Closing, PortKills, Step, Serving, Life!SignalReason
  <2>3. proc'.handler = proc.handler /\ proc'.signaled
    BY <1>0, <1>7 DEF PortKills, Step, Signaled, SetPort, ProcType
  <2> QED
    BY <1>0, <1>7, <2>2, <2>3, SignalStep DEF PortKills, Step
<1>8. CASE KubeletSignals
  <2>1. Alive \/ "lxd" \in Faults \/ ~Life!Running(Self)
    BY <1>0 DEF FailuresTold, Alive, Blips, ProcType
  <2>2. Life!SignalReason(Self)
    BY <1>8, <2>1
       DEF KubeletSignals, Step, Serving, Life!SignalReason, Life!SignalDue
  <2>3. proc'.handler = proc.handler /\ proc'.signaled
    BY <1>0, <1>8 DEF KubeletSignals, Step, Signaled, ProcType
  <2> QED
    BY <1>0, <1>8, <2>2, <2>3, SignalStep DEF KubeletSignals, Step
<1>9. CASE UNCHANGED vars
  BY <1>9, <1>0, Stutters DEF vars
<1> QED
  BY <1>1, <1>2, <1>3, <1>4, <1>5, <1>6, <1>7, <1>8, <1>9 DEF Next, Main, Handler, Port

-----------------------------------------------------------------------------
(* The theorems.                                                           *)

LEMMA IInvInit == Init => IInv
<1> SUFFICES ASSUME Init PROVE IInv
  OBVIOUS
<1>1. proc = Off /\ ~Serving /\ Life!TypeOK
  BY TypeInit DEF Init, Life!Init, Names, Serving
<1> QED
  BY <1>1, OffType
     DEF IInv, TypeOK, Inv, OnlyWhileServing, ClosedByHandler, RetriesUsedUp, FailuresTold, Blips,
         PortAt, Off

LEMMA IInvStep == IInv /\ [Next]_vars => IInv'
BY InvStep, LifeStep, TypeStep DEF IInv, TypeOK

(* The goroutines keep to their types in every state of the program: the   *)
(* counters of the ports and of the prober stay within one step of their   *)
(* limits (proxy.go, PerformProxy; prober.go, probeInstance).              *)
THEOREM TypeCorrect == Spec => []TypeOK
<1>1. Init => IInv
  BY IInvInit
<1>2. IInv /\ [Next]_vars => IInv'
  BY IInvStep
<1>3. IInv => TypeOK
  BY DEF IInv
<1> QED
  BY <1>1, <1>2, <1>3, PTL DEF Spec

(* Health is given up only for an instance that does not run: the prober   *)
(* tolerates as many failures as LXD may cause, and an instance does not   *)
(* come back under its launcher (prober.go, Alive and probeInstance).      *)
THEOREM DeadMeansDownHolds ==
  ASSUME MaxBlips <= MaxFailure
  PROVE  Spec => []DeadMeansDown
<1>1. Init => IInv
  BY IInvInit
<1>2. IInv /\ [Next]_vars => IInv'
  BY IInvStep
<1>3. IInv => DeadMeansDown
  BY DEF IInv, TypeOK, ProcType, Inv, FailuresTold, Blips, DeadMeansDown, Alive
<1> QED
  BY <1>1, <1>2, <1>3, PTL DEF Spec

(* The launcher with its goroutines is the launcher of Instances: each of  *)
(* its steps is one there, or changes nothing there (launch.go,            *)
(* handleLaunch and CleanupLaunch; proxy.go; util.go, handleSignals).      *)
THEOREM ImplementsLifeHolds == Spec => ImplementsLife
<1>1. Init => IInv
  BY IInvInit
<1>2. IInv /\ [Next]_vars => IInv'
  BY IInvStep
<1>3. Init => Life!Init
  BY DEF Init
<1>4. IInv /\ [Next]_vars => [Life!Next]_Life!vars
  BY LifeStep
<1> QED
  BY <1>1, <1>2, <1>3, <1>4, PTL DEF Spec, ImplementsLife, Life!Spec

=============================================================================
