------------------------------ MODULE Instances ------------------------------
(***************************************************************************)
(* The life of LXD instances between their two masters: the launcher of    *)
(* each instance (`lxc-launcher launch`, cmd/launch.go), which runs in a   *)
(* Kubernetes pod, and the garbage collection of the manager               *)
(* (Client.DeleteInstances, lxd/client.go), which ImageHandler runs after  *)
(* each tick.  They share LXD and know nothing of each other; the          *)
(* collector also asks Kubernetes for the pods.                            *)
(*                                                                         *)
(* LXD, Kubernetes and the passing of time are external.  Requests to LXD  *)
(* are steps: between two of them the other master may do anything.        *)
(* Instance n belongs to the launcher in pod n.  Faults names what may go  *)
(* wrong, at most MaxFaults times in a behaviour:                          *)
(*   "lxd"      a request to LXD fails; not counted are those of the       *)
(*              prober, which module Serving has                           *)
(*   "network"  an instance gets no address, or its proxy cannot be made   *)
(*   "proxy"    socat has been retried too often: the launcher signals     *)
(*              itself; not counted, as module Serving has the retries     *)
(*   "kill"     a launcher is killed                                       *)
(*   "podconf"  there is no usable client configuration for Kubernetes     *)
(*   "podlist"  Kubernetes does not answer the request for the pods        *)
(*   "reborn"   a pod that is gone comes back under its name               *)
(***************************************************************************)
EXTENDS Integers, FiniteSets

CONSTANTS
  Names,           \* instances, and the pods of their launchers
  Contains,        \* pairs <<m, n>>: the name of pod m contains that of n
  ResNames,        \* the pods whose name begins with "res"
  Proxied,         \* the instances whose launcher is given port pairs
  Removing,        \* the instances whose launcher is to remove an existing one
  Commanded,       \* the instances whose launcher is given a start command
  NoName,          \* the empty name, which no instance has
  Faults,          \* see above
  MaxFaults

FaultKinds == {"lxd", "network", "proxy", "kill", "podconf", "podlist", "reborn"}

ASSUME NamesAssumption ==
  /\ NoName \notin Names
  /\ ResNames \subseteq Names /\ Proxied \subseteq Names
  /\ Removing \subseteq Names /\ Commanded \subseteq Names
  /\ \A n \in Names : <<n, n>> \in Contains
ASSUME FaultsAssumption == Faults \subseteq FaultKinds /\ MaxFaults \in Nat

VARIABLES
  inst,      \* LXD: the state of each instance, and whether it was last used
             \* more than DEL_STOPPED_TIME ago, or never
  pod,       \* Kubernetes: the state of each pod
  launcher,  \* where the main goroutine of each launcher is
  cleaner,   \* where the signal goroutine of each launcher is
  gc,        \* what the collector knows and where it is
  faults     \* faults so far

vars == <<inst, pod, launcher, cleaner, gc, faults>>

Absent == [status |-> "Absent", idle |-> FALSE]
InstType == {Absent} \union [status : {"Stopped", "Running"}, idle : BOOLEAN]
PodType == {"none", "up", "terminating", "gone"}
LauncherPC == {"off", "check", "remove", "delete", "create", "launch", "restart",
               "start", "command", "network", "quit", "quitDelete", "serve"}
CleanerPC == {"none", "stop", "delete", "sleep"}
GcPC == {"idle", "sweep", "sweepStop", "sweepDelete", "pods", "collect",
         "collectStop", "collectDelete"}
GcType == [pc : GcPC, todo : SUBSET Names, kept : SUBSET (Names \union {NoName}),
           cur : Names \union {NoName}]

(* The first look has an instance in hand, the second one or a zero value; *)
(* nothing is left to look at when the first is over.                      *)
GcSane ==
  /\ gc.pc \in {"idle", "sweep", "pods", "collect"} => gc.cur = NoName
  /\ gc.pc \in {"sweepStop", "sweepDelete", "collectDelete"} => gc.cur # NoName
  /\ gc.todo # {} => gc.pc \in {"sweep", "sweepStop", "sweepDelete"}

Idle == [pc |-> "idle", todo |-> {}, kept |-> {}, cur |-> NoName]

TypeOK ==
  /\ inst \in [Names -> InstType]
  /\ pod \in [Names -> PodType]
  /\ launcher \in [Names -> LauncherPC]
  /\ cleaner \in [Names -> CleanerPC]
  /\ gc \in GcType /\ GcSane
  /\ faults \in 0..MaxFaults

(* An instance may be left over from a pod that is gone. *)
Init ==
  /\ pod \in [Names -> {"none", "gone"}]
  /\ inst \in [Names -> {Absent} \union [status : {"Stopped", "Running"}, idle : {TRUE}]]
  /\ \A n \in Names : pod[n] = "none" => inst[n] = Absent
  /\ launcher = [n \in Names |-> "off"]
  /\ cleaner = [n \in Names |-> "none"]
  /\ gc = Idle
  /\ faults = 0

-----------------------------------------------------------------------------
(* LXD's side of a request about one instance. *)

Fault(kind) ==
  /\ kind \in Faults
  /\ faults < MaxFaults
  /\ faults' = faults + 1

Exists(n) == inst[n].status # "Absent"
Stopped(n) == inst[n].status = "Stopped"
Running(n) == inst[n].status = "Running"
Put(n, value) == inst' = [inst EXCEPT ![n] = value]

(* The force stop in StopInstance(n, TRUE): whether it succeeds, fails or  *)
(* finds the instance stopped already, the deletion is tried next.         *)
StopRequest(n) ==
  \/ /\ inst' = [inst EXCEPT ![n].status = "Stopped"]
     /\ UNCHANGED faults
  \/ Fault("lxd") /\ UNCHANGED inst

(* LXD deletes an instance that is stopped, and refuses any other. *)
DeleteRequest(n) == Stopped(n) /\ Put(n, Absent) /\ UNCHANGED faults

DeleteRefused(n) ==
  /\ \/ ~Stopped(n) /\ UNCHANGED faults
     \/ Fault("lxd")
  /\ UNCHANGED inst

-----------------------------------------------------------------------------
(* A launcher. *)

Go(n, pc) == launcher' = [launcher EXCEPT ![n] = pc]

(* The process of n ends, and with it the goroutine that cleans up. *)
Exit(n) ==
  /\ launcher' = [launcher EXCEPT ![n] = "off"]
  /\ cleaner' = [cleaner EXCEPT ![n] = "none"]

(* The pod's container is started, or started again. *)
Boot(n) ==
  /\ pod[n] = "up"
  /\ launcher[n] = "off"
  /\ Go(n, "check")
  /\ UNCHANGED <<inst, pod, cleaner, gc, faults>>

(* A request to LXD fails on which the process ends, with an error. *)
GiveUp(n) ==
  /\ \/ /\ launcher[n] \in {"check", "remove", "delete", "create", "launch", "restart",
                            "start", "command"}
        /\ Fault("lxd")
     \/ launcher[n] \in {"remove", "launch", "start"} /\ ~Exists(n) /\ UNCHANGED faults
     \/ launcher[n] = "delete" /\ ~Stopped(n) /\ UNCHANGED faults
     \/ launcher[n] \in {"restart", "command"} /\ ~Running(n) /\ UNCHANGED faults
  /\ Exit(n)
  /\ UNCHANGED <<inst, pod, gc>>

(* validateLaunch: CheckInstanceExists, and what is done about it. *)
CheckExists(n) ==
  /\ launcher[n] = "check"
  /\ Go(n, IF Exists(n) /\ n \in Removing THEN "remove" ELSE "create")
  /\ UNCHANGED <<inst, pod, cleaner, gc, faults>>

RemoveStop(n) ==
  /\ launcher[n] = "remove"
  /\ Exists(n)
  /\ StopRequest(n)
  /\ Go(n, "delete")
  /\ UNCHANGED <<pod, cleaner, gc>>

RemoveDelete(n) ==
  /\ launcher[n] = "delete"
  /\ DeleteRequest(n)
  /\ Go(n, "create")
  /\ UNCHANGED <<pod, cleaner, gc>>

(* createInstance: a new instance is stopped and has never been used. *)
Create(n) ==
  /\ launcher[n] = "create"
  /\ IF Exists(n) THEN UNCHANGED inst ELSE Put(n, [status |-> "Stopped", idle |-> TRUE])
  /\ Go(n, "launch")
  /\ UNCHANGED <<pod, cleaner, gc, faults>>

(* LaunchInstance: GetInstance, and the stop of one that runs. *)
Launch(n) ==
  /\ launcher[n] = "launch"
  /\ Exists(n)
  /\ Go(n, IF Running(n) THEN "restart" ELSE "start")
  /\ UNCHANGED <<inst, pod, cleaner, gc, faults>>

Restart(n) ==
  /\ launcher[n] = "restart"
  /\ Running(n)
  /\ inst' = [inst EXCEPT ![n].status = "Stopped"]
  /\ Go(n, "start")
  /\ UNCHANGED <<pod, cleaner, gc, faults>>

(* Without port pairs a launcher ends when its instance runs. *)
Started(n) == IF n \in Proxied THEN Go(n, "network") /\ UNCHANGED cleaner ELSE Exit(n)

(* The instance is configured and started. *)
StartInstance(n) ==
  /\ launcher[n] = "start"
  /\ Exists(n)
  /\ Put(n, [status |-> "Running", idle |-> FALSE])
  /\ IF n \in Commanded THEN Go(n, "command") /\ UNCHANGED cleaner ELSE Started(n)
  /\ UNCHANGED <<pod, gc, faults>>

(* The start command, once the instance has an address or none came: what  *)
(* WaitInstanceNetworkReady returns is ignored.  Where it cannot be run    *)
(* the launcher gives up, and leaves the instance as it is.                *)
Command(n) ==
  /\ launcher[n] = "command"
  /\ Running(n)
  /\ Started(n)
  /\ UNCHANGED <<inst, pod, gc, faults>>

(* WaitInstanceNetworkReady and NewProxy; the signal handler is set up     *)
(* only here.                                                              *)
NetworkReady(n) ==
  /\ launcher[n] = "network"
  /\ Running(n)
  /\ Go(n, "serve")
  /\ UNCHANGED <<inst, pod, cleaner, gc, faults>>

NetworkFails(n) ==
  /\ launcher[n] = "network"
  /\ \/ ~Running(n) /\ UNCHANGED faults
     \/ Fault("network")
  /\ Go(n, "quit")
  /\ UNCHANGED <<inst, pod, cleaner, gc>>

(* CleanupLaunch in the main goroutine: StopInstance, a sleep, the end. *)
QuitStop(n) ==
  /\ launcher[n] = "quit"
  /\ Exists(n)
  /\ StopRequest(n)
  /\ Go(n, "quitDelete")
  /\ UNCHANGED <<pod, cleaner, gc>>

QuitDelete(n) ==
  /\ launcher[n] = "quitDelete"
  /\ DeleteRequest(n) \/ DeleteRefused(n)
  /\ Exit(n)
  /\ UNCHANGED <<pod, gc>>

QuitNothing(n) ==
  /\ launcher[n] = "quit"
  /\ \/ ~Exists(n) /\ UNCHANGED faults
     \/ Fault("lxd")
  /\ Exit(n)
  /\ UNCHANGED <<inst, pod, gc>>

(* A signal comes: from Kubernetes when the pod ends or when the probes    *)
(* find the instance not running or get no answer, or from the launcher    *)
(* itself.  Before the handler is set up, and while the main goroutine     *)
(* cleans up, it ends the process; afterwards the handler closes the proxy *)
(* and cleans up.                                                          *)
SignalDue(n) == pod[n] = "terminating" \/ (launcher[n] = "serve" /\ ~Running(n))

SignalReason(n) ==
  SignalDue(n) \/ (launcher[n] = "serve" /\ Faults \intersect {"proxy", "lxd"} # {})

Signal(n) ==
  /\ launcher[n] # "off"
  /\ cleaner[n] = "none"
  /\ SignalReason(n)
  /\ IF launcher[n] = "serve"
       THEN cleaner' = [cleaner EXCEPT ![n] = "stop"] /\ UNCHANGED launcher
       ELSE Exit(n)
  /\ UNCHANGED <<inst, pod, gc, faults>>

(* The handler's StopInstance. *)
CleanStop(n) ==
  /\ cleaner[n] = "stop"
  /\ Exists(n)
  /\ StopRequest(n)
  /\ cleaner' = [cleaner EXCEPT ![n] = "delete"]
  /\ UNCHANGED <<pod, launcher, gc>>

CleanDelete(n) ==
  /\ cleaner[n] = "delete"
  /\ DeleteRequest(n) \/ DeleteRefused(n)
  /\ cleaner' = [cleaner EXCEPT ![n] = "sleep"]
  /\ UNCHANGED <<pod, launcher, gc>>

CleanNothing(n) ==
  /\ cleaner[n] = "stop"
  /\ \/ ~Exists(n) /\ UNCHANGED faults
     \/ Fault("lxd")
  /\ cleaner' = [cleaner EXCEPT ![n] = "sleep"]
  /\ UNCHANGED <<inst, pod, launcher, gc>>

(* Mutant of ProcessEnds: the process waits for the instance to be gone. *)
ProcessEndsWhenDeleted(n) ==
  /\ launcher[n] = "serve"
  /\ cleaner[n] = "sleep" /\ ~Exists(n)
  /\ Exit(n)
  /\ UNCHANGED <<inst, pod, gc, faults>>

(* The process ends when the handler has slept, or when Proxy.StartLoop    *)
(* returns, two seconds after the proxy was closed: main does not wait for *)
(* the handler, which may still be stopping the instance.                  *)
ProcessEnds(n) ==
  /\ launcher[n] = "serve"
  /\ cleaner[n] # "none"
  /\ Exit(n)
  /\ UNCHANGED <<inst, pod, gc, faults>>

Kill(n) ==
  /\ launcher[n] # "off"
  /\ Fault("kill")
  /\ Exit(n)
  /\ UNCHANGED <<inst, pod, gc>>

-----------------------------------------------------------------------------
(* The collector: DeleteInstances.  It lists the instances, deletes those  *)
(* that the list calls stopped and unused for long, keeps the others, then *)
(* lists the pods and deletes what it has kept that no pod's name contains.*)

GcGo(pc) == gc' = [gc EXCEPT !.pc = pc]
GcKeep(pc, n) == gc' = [gc EXCEPT !.pc = pc, !.cur = NoName, !.kept = @ \union {n}]

Expired(n) == Stopped(n) /\ inst[n].idle

(* Mutant of ListInstances: what is not deleted at once is not kept. *)
ListInstancesKeepNone ==
  /\ gc.pc = "idle"
  /\ \E n \in Names : Exists(n)
  /\ gc' = [Idle EXCEPT !.pc = "sweep", !.kept = {NoName},
                        !.todo = {n \in Names : Exists(n) /\ Expired(n)}]
  /\ UNCHANGED <<inst, pod, launcher, cleaner, faults>>

(* The list of what is kept is made with as many zero values as there are  *)
(* instances, and appended to.                                             *)
ListInstances ==
  /\ gc.pc = "idle"
  /\ \E n \in Names : Exists(n)
  /\ gc' = [Idle EXCEPT !.pc = "sweep",
                        !.todo = {n \in Names : Exists(n) /\ Expired(n)},
                        !.kept = {n \in Names : Exists(n) /\ ~Expired(n)} \union {NoName}]
  /\ UNCHANGED <<inst, pod, launcher, cleaner, faults>>

Sweep(n) ==
  /\ gc.pc = "sweep"
  /\ n \in gc.todo
  /\ gc' = [gc EXCEPT !.pc = "sweepStop", !.cur = n, !.todo = @ \ {n}]
  /\ UNCHANGED <<inst, pod, launcher, cleaner, faults>>

SweepStop(n) ==
  /\ gc.pc = "sweepStop" /\ gc.cur = n
  /\ Exists(n)
  /\ StopRequest(n)
  /\ GcGo("sweepDelete")
  /\ UNCHANGED <<pod, launcher, cleaner>>

SweepDelete(n) ==
  /\ gc.pc = "sweepDelete" /\ gc.cur = n
  /\ DeleteRequest(n)
  /\ gc' = [gc EXCEPT !.pc = "sweep", !.cur = NoName]
  /\ UNCHANGED <<pod, launcher, cleaner>>

(* Mutant of SweepFails: a failure breaks off the first look. *)
SweepFailsForAll(n) ==
  /\ gc.cur = n
  /\ \/ gc.pc = "sweepStop" /\ ~Exists(n) /\ UNCHANGED <<inst, faults>>
     \/ gc.pc = "sweepStop" /\ Fault("lxd") /\ UNCHANGED inst
     \/ gc.pc = "sweepDelete" /\ DeleteRefused(n)
  /\ GcKeep("pods", n)
  /\ UNCHANGED <<pod, launcher, cleaner>>

(* What could not be deleted is kept for the second look. *)
SweepFails(n) ==
  /\ gc.cur = n
  /\ \/ gc.pc = "sweepStop" /\ ~Exists(n) /\ UNCHANGED <<inst, faults>>
     \/ gc.pc = "sweepStop" /\ Fault("lxd") /\ UNCHANGED inst
     \/ gc.pc = "sweepDelete" /\ DeleteRefused(n)
  /\ GcKeep("sweep", n)
  /\ UNCHANGED <<pod, launcher, cleaner>>

Swept ==
  /\ gc.pc = "sweep" /\ gc.todo = {}
  /\ GcGo("pods")
  /\ UNCHANGED <<inst, pod, launcher, cleaner, faults>>

(* Mutant of Listed: a pod that is going is as good as gone. *)
ListedUp == {n \in ResNames : pod[n] = "up"}

(* Kubernetes lists a pod until its containers have ended; the collector   *)
(* looks at those alone that are named for a launcher.                     *)
Listed == {n \in ResNames : pod[n] \in {"up", "terminating"}}

(* strings.Contains: every name contains the empty one. *)
Matches(m, n) == n = NoName \/ <<m, n>> \in Contains

Podless(n) == \A m \in Listed : ~Matches(m, n)

(* The pods are asked for; an answer that does not come is an empty list.  *)
ListPods ==
  /\ gc.pc = "pods"
  /\ \/ /\ gc' = [gc EXCEPT !.pc = "collect", !.kept = {n \in @ : Podless(n)}]
        /\ UNCHANGED faults
     \/ gc' = [gc EXCEPT !.pc = "collect"] /\ Fault("podlist")
     \/ gc' = Idle /\ Fault("podconf")
  /\ UNCHANGED <<inst, pod, launcher, cleaner>>

Collect(n) ==
  /\ gc.pc = "collect"
  /\ n \in gc.kept
  /\ gc' = [gc EXCEPT !.pc = "collectStop", !.cur = n, !.kept = @ \ {n}]
  /\ UNCHANGED <<inst, pod, launcher, cleaner, faults>>

(* LXD has no instance without a name: its state cannot be read, and that  *)
(* is all that is asked.                                                   *)
CollectZero ==
  /\ gc.pc = "collectStop" /\ gc.cur = NoName
  /\ GcGo("collect")
  /\ UNCHANGED <<inst, pod, launcher, cleaner, faults>>

CollectStop(n) ==
  /\ gc.pc = "collectStop" /\ gc.cur = n
  /\ Exists(n)
  /\ StopRequest(n)
  /\ GcGo("collectDelete")
  /\ UNCHANGED <<pod, launcher, cleaner>>

CollectEnds(n) ==
  /\ gc.cur = n
  /\ \/ gc.pc = "collectStop" /\ ~Exists(n) /\ UNCHANGED <<inst, faults>>
     \/ gc.pc = "collectStop" /\ Fault("lxd") /\ UNCHANGED inst
     \/ gc.pc = "collectDelete" /\ (DeleteRequest(n) \/ DeleteRefused(n))
  /\ gc' = [gc EXCEPT !.pc = "collect", !.cur = NoName]
  /\ UNCHANGED <<pod, launcher, cleaner>>

Collected ==
  /\ gc.pc = "collect" /\ gc.kept = {}
  /\ gc' = Idle
  /\ UNCHANGED <<inst, pod, launcher, cleaner, faults>>

-----------------------------------------------------------------------------
(* Kubernetes and time. *)

PodCreated(n) ==
  /\ \/ pod[n] = "none" /\ UNCHANGED faults
     \/ pod[n] = "gone" /\ Fault("reborn")
  /\ pod' = [pod EXCEPT ![n] = "up"]
  /\ UNCHANGED <<inst, launcher, cleaner, gc>>

PodDeleted(n) ==
  /\ pod[n] = "up"
  /\ pod' = [pod EXCEPT ![n] = "terminating"]
  /\ UNCHANGED <<inst, launcher, cleaner, gc, faults>>

PodGone(n) ==
  /\ pod[n] = "terminating"
  /\ launcher[n] = "off"
  /\ pod' = [pod EXCEPT ![n] = "gone"]
  /\ UNCHANGED <<inst, launcher, cleaner, gc, faults>>

(* The last use of n is longer ago than DEL_STOPPED_TIME. *)
Age(n) ==
  /\ Exists(n) /\ ~inst[n].idle
  /\ inst' = [inst EXCEPT ![n].idle = TRUE]
  /\ UNCHANGED <<pod, launcher, cleaner, gc, faults>>

-----------------------------------------------------------------------------
(* What the goroutines of launcher n do by themselves. *)
Main(n) ==
  \/ GiveUp(n) \/ CheckExists(n) \/ RemoveStop(n) \/ RemoveDelete(n) \/ Create(n)
  \/ Launch(n) \/ Restart(n) \/ StartInstance(n) \/ Command(n) \/ NetworkReady(n)
  \/ NetworkFails(n) \/ QuitStop(n) \/ QuitDelete(n) \/ QuitNothing(n) \/ ProcessEnds(n)

Cleaner(n) == CleanStop(n) \/ CleanDelete(n) \/ CleanNothing(n)

Gc ==
  \/ ListInstances \/ Swept \/ ListPods \/ CollectZero \/ Collected
  \/ \E n \in Names :
       \/ Sweep(n) \/ SweepStop(n) \/ SweepDelete(n) \/ SweepFails(n)
       \/ CollectStop(n) \/ CollectEnds(n)
  \/ \E n \in Names \union {NoName} : Collect(n)

Kubernetes(n) == PodCreated(n) \/ PodDeleted(n) \/ PodGone(n)

Next ==
  \/ \E n \in Names :
       Boot(n) \/ Main(n) \/ Cleaner(n) \/ Signal(n) \/ Kill(n) \/ Kubernetes(n) \/ Age(n)
  \/ Gc

Spec == Init /\ [][Next]_vars

(* Fairness: goroutines that can run do, and LXD and Kubernetes answer; a  *)
(* pod that ends is signalled and then goes; the manager collects again    *)
(* and again (ImageHandler, its ticker).  Nothing makes pods come or go,   *)
(* or launchers start.                                                     *)
FairSpec ==
  /\ Spec
  /\ WF_vars(Gc)
  /\ \A n \in Names : WF_vars(Main(n)) /\ WF_vars(Cleaner(n)) /\ WF_vars(PodGone(n))
  /\ \A n \in Names : WF_vars(SignalDue(n) /\ Signal(n))

-----------------------------------------------------------------------------
(* Safety. *)

(* Asking for the pods after the instances keeps the second look safe: an  *)
(* instance in the list whose pod still exists is found in the list of the *)
(* pods, which is younger.  So what is stopped or deleted for want of a    *)
(* pod has none, however old the lists are by then (client.go,             *)
(* DeleteInstances; README, `the unmanaged lxc instance will be GCed`).    *)
CollectsOnlyUnmanaged ==
  [][\A n \in Names :
       gc.cur = n /\ gc.pc \in {"collectStop", "collectDelete"} /\ inst'[n] # inst[n]
         /\ gc' # gc
       => pod[n] \in {"none", "gone"}]_vars

(* The first look stops nothing: it deletes instances that are stopped     *)
(* (client.go, DeleteInstances: `Perform a delete operation on a stopped   *)
(* instance`).                                                             *)
SweepsOnlyStopped ==
  [][\A n \in Names : gc.pc = "sweepStop" /\ gc'.pc = "sweepDelete" => inst'[n] = inst[n]]_vars

-----------------------------------------------------------------------------
(* Liveness. *)

(* A pod that is told to end does: the launcher ends on every path, also   *)
(* from inside its start-up, its own clean-up and the handler's            *)
(* (launch.go, handleLaunch and CleanupLaunch; util.go, handleSignals).    *)
PodEnds == \A n \in Names : pod[n] = "terminating" ~> pod[n] = "gone"

Managed(n) == \E m \in Names : pod[m] \in {"up", "terminating"} /\ <<m, n>> \in Contains

(* However its launcher ended, an instance that no pod manages any more is *)
(* deleted in the end (client.go, DeleteInstances; launch.go,              *)
(* CleanupLaunch).                                                         *)
OrphansCollected ==
  \A n \in Names : <>[](~Managed(n)) => <>[](~Exists(n))
=============================================================================
