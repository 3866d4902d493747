-------------------------- MODULE InstancesProofs --------------------------
(***************************************************************************)
(* Proofs about Instances, for every set of instances and pods, every way  *)
(* in which their names contain each other and any number of faults.       *)
(***************************************************************************)
EXTENDS Instances, TLAPS

USE NamesAssumption, FaultsAssumption

-----------------------------------------------------------------------------
(* Types. *)

LEMMA FaultType ==
  ASSUME TypeOK, NEW kind, Fault(kind)
  PROVE  faults' \in 0..MaxFaults
BY DEF TypeOK, Fault

LEMMA StopType ==
  ASSUME TypeOK, NEW n \in Names, Exists(n), StopRequest(n)
  PROVE  inst' \in [Names -> InstType] /\ faults' \in 0..MaxFaults
<1>1. CASE inst' = [inst EXCEPT ![n].status = "Stopped"] /\ UNCHANGED faults
  <2>1. inst[n] \in [status : {"Stopped", "Running"}, idle : BOOLEAN]
    BY DEF TypeOK, InstType, Absent, Exists
  <2>2. [inst[n] EXCEPT !.status = "Stopped"] \in InstType
    BY <2>1 DEF InstType
  <2> QED
    BY <1>1, <2>2 DEF TypeOK
<1>2. CASE Fault("lxd") /\ UNCHANGED inst
  BY <1>2, FaultType DEF TypeOK
<1> QED
  BY <1>1, <1>2 DEF StopRequest

LEMMA DeleteType ==
  ASSUME TypeOK, NEW n \in Names, DeleteRequest(n) \/ DeleteRefused(n)
  PROVE  inst' \in [Names -> InstType] /\ faults' \in 0..MaxFaults
<1>1. CASE DeleteRequest(n)
  BY <1>1 DEF DeleteRequest, Put, TypeOK, InstType
<1>2. CASE DeleteRefused(n)
  BY <1>2, FaultType DEF DeleteRefused, TypeOK
<1> QED
  BY <1>1, <1>2

LEMMA PutType ==
  ASSUME TypeOK, NEW n \in Names, NEW status \in {"Stopped", "Running"}, NEW idle \in BOOLEAN,
         Put(n, [status |-> status, idle |-> idle])
  PROVE  inst' \in [Names -> InstType]
BY DEF TypeOK, Put, InstType

(* The steps of the goroutines of one launcher. *)
LEMMA LauncherTypeStep ==
  ASSUME TypeOK, NEW n \in Names,
         Boot(n) \/ Main(n) \/ Cleaner(n) \/ Signal(n) \/ Kill(n)
  PROVE  TypeOK'
<1> USE DEF LauncherPC, CleanerPC, GcSane, Go, Exit
<1>1. CASE Boot(n)
  BY <1>1 DEF Boot, TypeOK
<1>2. CASE GiveUp(n)
  <2>1. faults' \in 0..MaxFaults
    BY <1>2, FaultType DEF GiveUp, TypeOK
  <2> QED
    BY <1>2, <2>1 DEF GiveUp, TypeOK
<1>3. CASE CheckExists(n)
  BY <1>3 DEF CheckExists, TypeOK
<1>4. CASE RemoveStop(n)
  BY <1>4, StopType DEF RemoveStop, TypeOK
<1>5. CASE RemoveDelete(n)
  BY <1>5, DeleteType DEF RemoveDelete, TypeOK
<1>6. CASE Create(n)
  <2>1. inst' \in [Names -> InstType]
    BY <1>6, PutType DEF Create, TypeOK
  <2> QED
    BY <1>6, <2>1 DEF Create, TypeOK
<1>7. CASE Launch(n)
  BY <1>7 DEF Launch, TypeOK
<1>8. CASE Restart(n)
  <2>1. [inst[n] EXCEPT !.status = "Stopped"] \in InstType
    BY <1>8 DEF Restart, Running, TypeOK, InstType, Absent
  <2> QED
    BY <1>8, <2>1 DEF Restart, TypeOK
<1>9. CASE StartInstance(n)
  <2>1. inst' \in [Names -> InstType]
    BY <1>9, PutType DEF StartInstance
  <2> QED
    BY <1>9, <2>1 DEF StartInstance, Started, TypeOK
<1>10. CASE NetworkReady(n)
  BY <1>10 DEF NetworkReady, TypeOK
<1>11. CASE NetworkFails(n)
  <2>1. faults' \in 0..MaxFaults
    BY <1>11, FaultType DEF NetworkFails, TypeOK
  <2> QED
    BY <1>11, <2>1 DEF NetworkFails, TypeOK
<1>12. CASE QuitStop(n)
  BY <1>12, StopType DEF QuitStop, TypeOK
<1>13. CASE QuitDelete(n)
  BY <1>13, DeleteType DEF QuitDelete, TypeOK
<1>14. CASE QuitNothing(n)
  <2>1. faults' \in 0..MaxFaults
    BY <1>14, FaultType DEF QuitNothing, TypeOK
  <2> QED
    BY <1>14, <2>1 DEF QuitNothing, TypeOK
<1>15. CASE ProcessEnds(n)
  BY <1>15 DEF ProcessEnds, TypeOK
<1>16. CASE CleanStop(n)
  BY <1>16, StopType DEF CleanStop, TypeOK
<1>17. CASE CleanDelete(n)
  BY <1>17, DeleteType DEF CleanDelete, TypeOK
<1>18. CASE CleanNothing(n)
  <2>1. faults' \in 0..MaxFaults
    BY <1>18, FaultType DEF CleanNothing, TypeOK
  <2> QED
    BY <1>18, <2>1 DEF CleanNothing, TypeOK
<1>19. CASE Signal(n)
  <2>1. faults' \in 0..MaxFaults
    BY <1>19, FaultType DEF Signal, SignalReason, TypeOK
  <2> QED
    BY <1>19, <2>1 DEF Signal, TypeOK
<1>20. CASE Command(n)
  BY <1>20 DEF Command, Started, TypeOK
<1>21. CASE Kill(n)
  BY <1>21, FaultType DEF Kill, TypeOK
<1> QED
  BY <1>1, <1>2, <1>3, <1>4, <1>5, <1>6, <1>7, <1>8, <1>9, <1>10, <1>11, <1>12,
     <1>13, <1>14, <1>15, <1>16, <1>17, <1>18, <1>19, <1>20, <1>21 DEF Main, Cleaner

(* The steps of the collector. *)
LEMMA GcTypeStep == ASSUME TypeOK, Gc PROVE TypeOK'
<1> USE DEF GcPC, GcType, GcSane
<1>1. CASE ListInstances
  BY <1>1 DEF ListInstances, Idle, TypeOK
<1>2. CASE Swept
  BY <1>2 DEF Swept, GcGo, TypeOK
<1>3. CASE ListPods
  <2>1. faults' \in 0..MaxFaults
    BY <1>3, FaultType DEF ListPods, TypeOK
  <2>2. {n \in gc.kept : Podless(n)} \in SUBSET (Names \union {NoName})
    BY DEF TypeOK
  <2>3. gc' \in GcType /\ GcSane'
    <3>1. CASE gc' = [gc EXCEPT !.pc = "collect", !.kept = {n \in gc.kept : Podless(n)}]
      BY <1>3, <2>2, <3>1 DEF ListPods, TypeOK
    <3>2. CASE gc' = [gc EXCEPT !.pc = "collect"]
      BY <1>3, <3>2 DEF ListPods, TypeOK
    <3>3. CASE gc' = Idle
      BY <3>3 DEF Idle
    <3> QED
      BY <1>3, <3>1, <3>2, <3>3 DEF ListPods
  <2> QED
    BY <1>3, <2>1, <2>3 DEF ListPods, TypeOK
<1>4. CASE CollectZero \/ Collected
  BY <1>4 DEF CollectZero, GcGo, Collected, Idle, TypeOK
<1>5. ASSUME NEW n \in Names,
             \/ Sweep(n) \/ SweepStop(n) \/ SweepDelete(n) \/ SweepFails(n)
             \/ CollectStop(n) \/ CollectEnds(n)
      PROVE  TypeOK'
  <2>1. CASE Sweep(n)
    BY <2>1 DEF Sweep, TypeOK
  <2>2. CASE SweepStop(n)
    BY <2>2, StopType DEF SweepStop, GcGo, TypeOK
  <2>3. CASE SweepDelete(n)
    BY <2>3, DeleteType DEF SweepDelete, TypeOK
  <2>4. CASE SweepFails(n)
    <3>1. inst' \in [Names -> InstType] /\ faults' \in 0..MaxFaults
      BY <2>4, FaultType, DeleteType DEF SweepFails, TypeOK
    <3> QED
      BY <2>4, <3>1 DEF SweepFails, GcKeep, TypeOK
  <2>6. CASE CollectStop(n)
    BY <2>6, StopType DEF CollectStop, GcGo, TypeOK
  <2>7. CASE CollectEnds(n)
    <3>1. inst' \in [Names -> InstType] /\ faults' \in 0..MaxFaults
      BY <2>7, FaultType, DeleteType DEF CollectEnds, TypeOK
    <3> QED
      BY <2>7, <3>1 DEF CollectEnds, TypeOK
  <2> QED
    BY <1>5, <2>1, <2>2, <2>3, <2>4, <2>6, <2>7
<1>6. ASSUME NEW n \in Names \union {NoName}, Collect(n) PROVE TypeOK'
  BY <1>6 DEF Collect, TypeOK
<1> QED
  BY <1>1, <1>2, <1>3, <1>4, <1>5, <1>6 DEF Gc

LEMMA TypeStep == TypeOK /\ [Next]_vars => TypeOK'
<1> SUFFICES ASSUME TypeOK, [Next]_vars PROVE TypeOK'
  OBVIOUS
<1> USE DEF GcSane
<1>1. ASSUME NEW n \in Names, Kubernetes(n) PROVE TypeOK'
  <2>1. faults' \in 0..MaxFaults
    BY <1>1, FaultType DEF Kubernetes, PodCreated, PodDeleted, PodGone, TypeOK
  <2> QED
    BY <1>1, <2>1 DEF Kubernetes, PodCreated, PodDeleted, PodGone, TypeOK, PodType
<1>2. ASSUME NEW n \in Names, Age(n) PROVE TypeOK'
  <2>1. inst[n] \in [status : {"Stopped", "Running"}, idle : BOOLEAN]
    BY <1>2 DEF Age, Exists, TypeOK, InstType, Absent
  <2>2. [inst[n] EXCEPT !.idle = TRUE] \in InstType
    BY <2>1 DEF InstType
  <2> QED
    BY <1>2, <2>2 DEF Age, TypeOK
<1>3. CASE UNCHANGED vars
  BY <1>3 DEF vars, TypeOK
<1> QED
  BY <1>1, <1>2, <1>3, LauncherTypeStep, GcTypeStep DEF Next

LEMMA TypeInit == Init => TypeOK
<1> SUFFICES ASSUME Init PROVE TypeOK
  OBVIOUS
<1>1. inst \in [Names -> InstType]
  BY DEF Init, InstType
<1>2. pod \in [Names -> PodType]
  BY DEF Init, PodType
<1>3. launcher \in [Names -> LauncherPC] /\ cleaner \in [Names -> CleanerPC]
  BY DEF Init, LauncherPC, CleanerPC
<1>4. gc \in GcType /\ GcSane /\ faults \in 0..MaxFaults
  BY DEF Init, GcType, GcPC, GcSane, Idle
<1> QED
  BY <1>1, <1>2, <1>3, <1>4 DEF TypeOK

(* Every reachable state of LXD, the pods, the launchers and the collector *)
(* is well typed.                                                          *)
THEOREM TypeCorrect == Spec => []TypeOK
  BY TypeInit, TypeStep, PTL DEF Spec

-----------------------------------------------------------------------------
(* The inductive invariant under CollectsOnlyUnmanaged.  That property is  *)
(* about the moments at which the collector changes an instance; what      *)
(* carries it there is that everything LXD, a launcher or the collector    *)
(* holds once had a pod (so that a pod without one cannot be its first and *)
(* come late), and that after the list of the pods all that is left for    *)
(* the collector has lost its own.                                         *)

LauncherInPod ==
  \A n \in Names : launcher[n] # "off" => pod[n] \in {"up", "terminating"}

OncePodded ==
  \A n \in Names :
    Exists(n) \/ n \in gc.todo \/ n \in gc.kept \/ gc.cur = n => pod[n] # "none"

CollectedPodless ==
  \A n \in Names :
    \/ gc.pc \in {"collect", "collectStop", "collectDelete"} /\ n \in gc.kept
    \/ gc.pc \in {"collectStop", "collectDelete"} /\ gc.cur = n
    => pod[n] = "gone"

IInv == TypeOK /\ LauncherInPod /\ OncePodded /\ CollectedPodless

(* A request changes one instance, and none into being. *)
LEMMA StopKeeps ==
  ASSUME TypeOK, NEW n \in Names, Exists(n), StopRequest(n), NEW m \in Names, Exists(m)'
  PROVE  Exists(m)
BY DEF TypeOK, StopRequest, Exists

LEMMA DeleteKeeps ==
  ASSUME TypeOK, NEW n \in Names, DeleteRequest(n) \/ DeleteRefused(n),
         NEW m \in Names, Exists(m)'
  PROVE  Exists(m)
BY DEF TypeOK, DeleteRequest, DeleteRefused, Put, Absent, Exists

(* Only a launcher in a pod makes an instance. *)
LEMMA LauncherMakes ==
  ASSUME TypeOK, NEW n \in Names, Main(n) \/ Cleaner(n), NEW m \in Names, Exists(m)'
  PROVE  Exists(m) \/ (m = n /\ launcher[n] # "off")
<1>1. CASE RemoveStop(n) \/ QuitStop(n) \/ CleanStop(n)
  BY <1>1, StopKeeps DEF RemoveStop, QuitStop, CleanStop
<1>2. CASE RemoveDelete(n) \/ QuitDelete(n) \/ CleanDelete(n)
  BY <1>2, DeleteKeeps DEF RemoveDelete, QuitDelete, CleanDelete
<1>3. CASE Create(n)
  BY <1>3 DEF Create, Put, Exists, TypeOK
<1>4. CASE StartInstance(n)
  BY <1>4 DEF StartInstance, Put, Exists, TypeOK
<1>5. CASE Restart(n)
  BY <1>5 DEF Restart, Running, Exists, TypeOK
<1>6. CASE UNCHANGED inst
  BY <1>6 DEF Exists
<1> QED
  BY <1>1, <1>2, <1>3, <1>4, <1>5, <1>6
     DEF Main, Cleaner, GiveUp, CheckExists, Launch, Command, NetworkReady, NetworkFails,
         QuitNothing, ProcessEnds, CleanNothing

(* Nor does the goroutine of one launcher touch another, a pod or gc. *)
LEMMA LauncherFrame ==
  ASSUME TypeOK, NEW n \in Names, Main(n) \/ Cleaner(n) \/ Signal(n) \/ Kill(n)
  PROVE  /\ UNCHANGED <<pod, gc>>
         /\ \A m \in Names : launcher'[m] # "off" => launcher[m] # "off"
<1> USE DEF TypeOK, Go, Exit
<1>1. CASE Cleaner(n) \/ Signal(n) \/ Kill(n)
  BY <1>1 DEF Cleaner, CleanStop, CleanDelete, CleanNothing, Signal, Kill
<1>2. CASE GiveUp(n) \/ QuitNothing(n) \/ QuitDelete(n) \/ ProcessEnds(n)
  BY <1>2 DEF GiveUp, QuitNothing, QuitDelete, ProcessEnds
<1>3. CASE CheckExists(n) \/ RemoveStop(n) \/ RemoveDelete(n) \/ Create(n)
  BY <1>3 DEF CheckExists, RemoveStop, RemoveDelete, Create
<1>4. CASE Launch(n) \/ Restart(n) \/ StartInstance(n) \/ Command(n)
  BY <1>4 DEF Launch, Restart, StartInstance, Command, Started
<1>5. CASE NetworkReady(n) \/ NetworkFails(n) \/ QuitStop(n)
  BY <1>5 DEF NetworkReady, NetworkFails, QuitStop
<1> QED
  BY <1>1, <1>2, <1>3, <1>4, <1>5 DEF Main

LEMMA LauncherStep ==
  ASSUME IInv, NEW n \in Names, Main(n) \/ Cleaner(n) \/ Signal(n) \/ Kill(n)
  PROVE  (LauncherInPod /\ OncePodded /\ CollectedPodless)'
<1>1. UNCHANGED <<pod, gc>> /\ \A m \in Names : launcher'[m] # "off" => launcher[m] # "off"
  BY LauncherFrame DEF IInv
<1>2. ASSUME NEW m \in Names, Exists(m)' PROVE Exists(m) \/ (m = n /\ launcher[n] # "off")
  BY <1>2, LauncherMakes DEF IInv, Signal, Kill, Exists
<1>3. LauncherInPod'
  BY <1>1 DEF IInv, LauncherInPod
<1>4. OncePodded'
  BY <1>1, <1>2 DEF IInv, LauncherInPod, OncePodded
<1>5. CollectedPodless'
  BY <1>1 DEF IInv, CollectedPodless
<1> QED
  BY <1>3, <1>4, <1>5

LEMMA GcStep ==
  ASSUME IInv, "reborn" \notin Faults, "podlist" \notin Faults, Names \subseteq ResNames, Gc
  PROVE  (LauncherInPod /\ OncePodded /\ CollectedPodless)'
<1> USE DEF IInv
<1>1. UNCHANGED <<pod, launcher, cleaner>>
  BY DEF Gc, ListInstances, Swept, ListPods, CollectZero, Collected, Sweep, SweepStop, SweepDelete,
         SweepFails, Collect, CollectStop, CollectEnds
<1>2. LauncherInPod'
  BY <1>1 DEF LauncherInPod
<1>3. CASE ListInstances
  BY <1>1, <1>2, <1>3
     DEF ListInstances, Idle, Exists, OncePodded, CollectedPodless, TypeOK, GcType
<1>4. CASE Swept
  BY <1>1, <1>2, <1>4
     DEF Swept, GcGo, Exists, OncePodded, CollectedPodless, TypeOK, GcType
<1>5. CASE ListPods
  <2>1. UNCHANGED inst /\ gc.pc = "pods"
    BY <1>5 DEF ListPods
  <2>2. CASE gc' = [gc EXCEPT !.pc = "collect", !.kept = {n \in @ : Podless(n)}]
    <3>1. ASSUME NEW n \in Names, n \in gc'.kept PROVE n \in gc.kept /\ Podless(n)
      BY <2>2, <3>1 DEF TypeOK, GcType
    <3>2. gc'.pc = "collect" /\ gc'.todo = gc.todo /\ gc'.cur = gc.cur
      BY <2>2 DEF TypeOK, GcType
    <3>3. ASSUME NEW n \in Names, n \in gc'.kept PROVE pod[n] = "gone"
      <4>1. pod[n] \notin {"up", "terminating"}
        BY <3>1, <3>3 DEF Podless, Matches, Listed
      <4>2. pod[n] # "none"
        BY <3>1, <3>3 DEF OncePodded
      <4> QED
        BY <4>1, <4>2 DEF TypeOK, PodType
    <3>4. OncePodded'
      BY <1>1, <2>1, <3>1, <3>2 DEF OncePodded, Exists
    <3>5. CollectedPodless'
      BY <1>1, <3>2, <3>3 DEF CollectedPodless
    <3> QED
      BY <1>2, <3>4, <3>5
  <2>3. CASE gc' = Idle
    BY <1>1, <1>2, <2>1, <2>3 DEF Idle, Exists, OncePodded, CollectedPodless
  <2> QED
    BY <1>5, <2>2, <2>3 DEF ListPods, Fault
<1>6. CASE CollectZero \/ Collected
  BY <1>1, <1>2, <1>6
     DEF CollectZero, GcGo, Collected, Idle, Exists, OncePodded, CollectedPodless, TypeOK, GcType
<1>7. ASSUME NEW n \in Names,
             \/ Sweep(n) \/ SweepStop(n) \/ SweepDelete(n) \/ SweepFails(n)
             \/ CollectStop(n) \/ CollectEnds(n)
      PROVE  (LauncherInPod /\ OncePodded /\ CollectedPodless)'
  <2>1. ASSUME NEW m \in Names, Exists(m)' PROVE Exists(m)
    <3>1. CASE SweepStop(n) \/ CollectStop(n)
      BY <2>1, <3>1, StopKeeps DEF SweepStop, CollectStop
    <3>2. CASE DeleteRequest(n) \/ DeleteRefused(n)
      BY <2>1, <3>2, DeleteKeeps
    <3>3. CASE UNCHANGED inst
      BY <2>1, <3>3 DEF Exists
    <3> QED
      BY <1>7, <3>1, <3>2, <3>3 DEF Sweep, SweepDelete, SweepFails, CollectEnds
  <2>2. CASE Sweep(n)
    BY <1>1, <1>2, <2>1, <2>2 DEF Sweep, OncePodded, CollectedPodless, TypeOK, GcType
  <2>3. CASE SweepStop(n)
    BY <1>1, <1>2, <2>1, <2>3
       DEF SweepStop, GcGo, OncePodded, CollectedPodless, TypeOK, GcType
  <2>4. CASE SweepDelete(n)
    BY <1>1, <1>2, <2>1, <2>4 DEF SweepDelete, OncePodded, CollectedPodless, TypeOK, GcType
  <2>5. CASE SweepFails(n)
    BY <1>1, <1>2, <2>1, <2>5
       DEF SweepFails, GcKeep, OncePodded, CollectedPodless, TypeOK, GcType
  <2>7. CASE CollectStop(n)
    BY <1>1, <1>2, <2>1, <2>7
       DEF CollectStop, GcGo, OncePodded, CollectedPodless, TypeOK, GcType
  <2>8. CASE CollectEnds(n)
    BY <1>1, <1>2, <2>1, <2>8 DEF CollectEnds, OncePodded, CollectedPodless, TypeOK, GcType
  <2> QED
    BY <1>7, <2>2, <2>3, <2>4, <2>5, <2>7, <2>8
<1>8. ASSUME NEW n \in Names \union {NoName}, Collect(n)
      PROVE  (LauncherInPod /\ OncePodded /\ CollectedPodless)'
  <2>1. UNCHANGED inst /\ \A m \in Names : Exists(m)' => Exists(m)
    BY <1>8 DEF Collect, Exists
  <2> QED
    BY <1>1, <1>2, <1>8, <2>1 DEF Collect, OncePodded, CollectedPodless, TypeOK, GcType
<1> QED
  BY <1>3, <1>4, <1>5, <1>6, <1>7, <1>8 DEF Gc

LEMMA KubernetesStep ==
  ASSUME IInv, "reborn" \notin Faults, NEW n \in Names, Boot(n) \/ Kubernetes(n) \/ Age(n)
  PROVE  (LauncherInPod /\ OncePodded /\ CollectedPodless)'
<1> USE DEF IInv, TypeOK
<1>1. UNCHANGED gc
  BY DEF Boot, Kubernetes, PodCreated, PodDeleted, PodGone, Age
<1>2. \A m \in Names : Exists(m)' => Exists(m)
  BY DEF Boot, Kubernetes, PodCreated, PodDeleted, PodGone, Age, Exists
<1>3. CASE Boot(n)
  <2>1. LauncherInPod'
    BY <1>3 DEF Boot, Go, LauncherInPod
  <2> QED
    BY <1>1, <1>2, <1>3, <2>1 DEF Boot, OncePodded, CollectedPodless
<1>4. CASE Kubernetes(n)
  <2>1. /\ UNCHANGED launcher
        /\ \A m \in Names : /\ pod'[m] = "none" => pod[m] = "none"
                            /\ pod[m] = "gone" => pod'[m] = "gone"
                            /\ pod[m] \in {"up", "terminating"} /\ launcher[m] # "off"
                                 => pod'[m] \in {"up", "terminating"}
    BY <1>4 DEF Kubernetes, PodCreated, PodDeleted, PodGone, Fault
  <2> QED
    BY <1>1, <1>2, <2>1 DEF LauncherInPod, OncePodded, CollectedPodless
<1>5. CASE Age(n)
  BY <1>1, <1>2, <1>5 DEF Age, LauncherInPod, OncePodded, CollectedPodless
<1> QED
  BY <1>3, <1>4, <1>5

LEMMA IInvStep ==
  ASSUME IInv, "reborn" \notin Faults, "podlist" \notin Faults, Names \subseteq ResNames,
         [Next]_vars
  PROVE  IInv'
<1>1. TypeOK'
  BY TypeStep DEF IInv
<1>2. CASE UNCHANGED vars
  BY <1>1, <1>2 DEF vars, IInv, LauncherInPod, OncePodded, CollectedPodless, Exists
<1>3. CASE Next
  BY <1>1, <1>3, LauncherStep, GcStep, KubernetesStep DEF Next, IInv
<1> QED
  BY <1>2, <1>3

LEMMA IInvInit == Init => IInv
<1> SUFFICES ASSUME Init PROVE IInv
  OBVIOUS
<1>1. LauncherInPod /\ CollectedPodless
  BY DEF Init, LauncherInPod, CollectedPodless, Idle
<1>2. OncePodded
  BY DEF Init, OncePodded, Exists, Absent, Idle
<1> QED
  BY <1>1, <1>2, TypeInit DEF IInv

(* If Kubernetes answers the request for the pods and uses no name twice,  *)
(* and every pod of a launcher has a name that the collector looks at, the *)
(* second look stops and deletes only instances without a pod, whatever    *)
(* launchers, pods and LXD do between the lists and the requests           *)
(* (client.go, DeleteInstances).                                           *)
THEOREM CollectsOnlyUnmanagedHolds ==
  ASSUME "podlist" \notin Faults, "reborn" \notin Faults, Names \subseteq ResNames
  PROVE  Spec => CollectsOnlyUnmanaged
<1>1. Init => IInv
  BY IInvInit
<1>2. IInv /\ [Next]_vars => IInv'
  BY IInvStep
<1>3. IInv => [\A n \in Names :
                gc.cur = n /\ gc.pc \in {"collectStop", "collectDelete"} /\ inst'[n] # inst[n]
                  /\ gc' # gc
                => pod[n] \in {"none", "gone"}]_vars
  BY DEF IInv, CollectedPodless
<1> QED
  BY <1>1, <1>2, <1>3, PTL DEF Spec, CollectsOnlyUnmanaged
=============================================================================
