------------------------------- MODULE Serving -------------------------------
(***************************************************************************)
(* One launcher while it serves its instance (cmd/launch.go, network/      *)
(* proxy.go, task/prober.go, util/util.go): the goroutines behind the step *)
(* from "a signal comes" to "the process ends" of module Instances, which  *)
(* has the rest of the launcher, LXD, the collector and Kubernetes, and    *)
(* which this module implements (Life).                                    *)
(*                                                                         *)
(*   main      Proxy.StartLoop, waiting for CloseChannel to be closed      *)
(*   a port    PerformProxy: runs socat again and again, counts the runs   *)
(*             and at the end of its patience signals its own process      *)
(*   prober    Prober.StartLoop, counting the probes that fail in a row    *)
(*   health    the answer to Kubernetes, which ends a container that is    *)
(*             not alive                                                   *)
(*   handler   handleSignals: waits for a signal, then CleanupLaunch       *)
(*                                                                         *)
(* Proxy.closed is read and written without a lock: a port may read the    *)
(* value it had before.  LXD may leave up to MaxBlips probes in a row      *)
(* without an answer (if "lxd" is among the Faults of Instances), and      *)
(* socat ends by itself any time (if "proxy" is).                          *)
(***************************************************************************)
EXTENDS Integers

CONSTANTS
  Self,            \* the instance, and the pod of its launcher
  Ports,           \* the port pairs given to the launcher
  MaxRetry,        \* runs of socat for a port
  MaxFailure,      \* probes that may fail in a row
  MaxBlips,        \* probes in a row that LXD may leave unanswered
  Removing,        \* {Self} if the launcher is to remove an existing instance
  Commanded,       \* {Self} if the launcher is given a start command
  NoName, Faults, MaxFaults   \* see Instances

ASSUME BoundsAssumption ==
  MaxRetry \in Nat \ {0} /\ MaxFailure \in Nat /\ MaxBlips \in Nat
ASSUME InstancesAssumption == NoName # Self /\ MaxFaults \in Nat

Names == {Self}
Contains == {<<Self, Self>>}
ResNames == {Self}
Proxied == {Self}

VARIABLES
  inst, pod, launcher, gc, faults,   \* see Instances
  proc                               \* what the process has beside its main goroutine

vars == <<inst, pod, launcher, gc, faults, proc>>

HandlerPC == {"none", "wait", "proxy", "channel", "prober", "stop", "delete", "sleep"}
PortPC == {"off", "check", "run", "kill", "quit", "gone"}

(* retry is the number of the run to come, capped by the first that is too *)
(* many; so is failures.                                                   *)
ProcType == [
  handler  : HandlerPC,
  signaled : BOOLEAN,                 \* a signal is in sigChan
  loop     : {"off", "select", "canceled"},
  closed   : BOOLEAN,                 \* Proxy.closed
  channel  : BOOLEAN,                 \* CloseChannel is closed
  probing  : BOOLEAN,
  failures : 0..(MaxFailure + 1),
  port     : [Ports -> [pc : PortPC, retry : 1..(MaxRetry + 1)]]]

Off == [handler |-> "none", signaled |-> FALSE, loop |-> "off", closed |-> FALSE,
        channel |-> FALSE, probing |-> FALSE, failures |-> 0,
        port |-> [k \in Ports |-> [pc |-> "off", retry |-> 1]]]

(* What Instances calls the cleaner: the handler, from the moment at which *)
(* a signal waits for it.                                                  *)
cleaner ==
  [n \in Names |->
     CASE proc.handler = "none" -> "none"
       [] proc.handler = "wait" -> IF proc.signaled THEN "stop" ELSE "none"
       [] proc.handler \in {"proxy", "channel", "prober", "stop"} -> "stop"
       [] OTHER -> proc.handler]

Life == INSTANCE Instances

TypeOK == proc \in ProcType /\ Life!TypeOK

Init == proc = Off /\ Life!Init

-----------------------------------------------------------------------------
(* Before and after: what Instances has already.  With the end of its      *)
(* process the goroutines are gone.                                        *)

Serving == launcher[Self] = "serve"

KeepsPace(A) ==
  \E q \in {proc, Off} :
    /\ proc' = q
    /\ A
    /\ q = IF launcher'[Self] = "serve" THEN proc ELSE Off

StartUp ==
  \/ Life!GiveUp(Self) \/ Life!CheckExists(Self) \/ Life!RemoveStop(Self)
  \/ Life!RemoveDelete(Self) \/ Life!Create(Self) \/ Life!Launch(Self) \/ Life!Restart(Self)
  \/ Life!StartInstance(Self) \/ Life!Command(Self) \/ Life!NetworkFails(Self) \/ Life!QuitStop(Self)
  \/ Life!QuitDelete(Self) \/ Life!QuitNothing(Self)

(* A signal before ListenSignals, and while main cleans up. *)
EarlySignal == ~Serving /\ Life!Signal(Self)

Before == KeepsPace(StartUp)
Around ==
  KeepsPace(Life!Boot(Self) \/ EarlySignal \/ Life!Kill(Self) \/ Life!Kubernetes(Self)
            \/ Life!Age(Self))
Collector == KeepsPace(Life!Gc)

-----------------------------------------------------------------------------
(* The goroutines. *)

Step(p) == Serving /\ proc' = p /\ UNCHANGED <<inst, pod, launcher, gc, faults>>

(* The prober and the health server are started and signals are listened   *)
(* for; StartLoop comes next.                                              *)
Serve ==
  /\ proc' = [Off EXCEPT !.handler = "wait", !.probing = TRUE]
  /\ Life!NetworkReady(Self)

StartLoop ==
  /\ proc.loop = "off"
  /\ Step([proc EXCEPT !.loop = "select",
                       !.port = [k \in Ports |-> [pc |-> "check", retry |-> 1]]])

(* Mutant of CloseSeen: the loop does not wait for the channel's end. *)
CloseSeenOrOpen == proc.loop = "select"

CloseSeen == proc.loop = "select" /\ proc.channel

(* StartLoop cancels the socats, sleeps two seconds and returns. *)
CancelProxies == CloseSeen /\ Step([proc EXCEPT !.loop = "canceled"])

(* Mutant of ProcessGone: the process waits for its instance to stop. *)
ProcessGoneOnceStopped ==
  /\ ~Life!Running(Self)
  /\ proc' = Off
  /\ launcher' = [launcher EXCEPT ![Self] = "off"]
  /\ UNCHANGED <<inst, pod, gc, faults>>

ProcessGone ==
  /\ proc' = Off
  /\ launcher' = [launcher EXCEPT ![Self] = "off"]
  /\ UNCHANGED <<inst, pod, gc, faults>>

MainReturns == proc.loop = "canceled" /\ ProcessGone
OsExit == proc.handler = "sleep" /\ ProcessGone

(* sigChan holds one signal; what does not fit is dropped. *)
Signaled(p) == [p EXCEPT !.signaled = TRUE]

-----------------------------------------------------------------------------
(* PerformProxy for port k. *)

PortAt(k, pc) == proc.port[k].pc = pc
SetPort(k, pc) == [proc EXCEPT !.port[k].pc = pc]

(* Mutant of Exhausted: the goroutine of a port ends, and that is all. *)
ExhaustedQuietly == "quit"

Exhausted == "kill"

(* Mutant of HasRetry: one run too many. *)
HasRetryOrOne(k) == proc.port[k].retry <= MaxRetry + 1

HasRetry(k) == proc.port[k].retry <= MaxRetry

(* The flag is read, as it is or was, then the retries. *)
PortLoops(k) ==
  /\ PortAt(k, "check")
  /\ \E closed \in {FALSE, proc.closed} :
       Step(SetPort(k, CASE closed -> "gone"
                         [] ~closed /\ HasRetry(k) -> "run"
                         [] OTHER -> Exhausted))

(* A run of socat ends, well or badly, or cannot begin as the context is   *)
(* canceled: it counts.                                                    *)
SocatEnds(k) ==
  /\ PortAt(k, "run")
  /\ "proxy" \in Faults \/ proc.loop = "canceled"
  /\ Step([proc EXCEPT !.port[k] = [pc |-> "check", retry |-> @.retry + 1]])

PortKills(k) ==
  /\ PortAt(k, "kill")
  /\ Step(Signaled(SetPort(k, "quit")))

-----------------------------------------------------------------------------
(* Prober and health. *)

(* Mutants: one probe too few; the failures are not added up. *)
AliveBelow == ~(proc.failures >= MaxFailure)
FailedOnce == 1

Alive == ~(proc.failures > MaxFailure)

Failed == IF Alive THEN proc.failures + 1 ELSE proc.failures

Probe ==
  /\ proc.probing
  /\ Step([proc EXCEPT !.failures = IF Life!Running(Self) THEN 0 ELSE Failed])

(* No answer from LXD is no running instance either. *)
ProbeFails ==
  /\ proc.probing
  /\ "lxd" \in Faults /\ proc.failures < MaxBlips
  /\ Step([proc EXCEPT !.failures = Failed])

(* Kubernetes asks /healthz and signals a container that is not alive, or  *)
(* that is to end with its pod.                                            *)
KubeletSignals ==
  /\ ~Alive \/ pod[Self] = "terminating"
  /\ proc.handler = "wait"
  /\ Step(Signaled(proc))

-----------------------------------------------------------------------------
(* handleSignals and CleanupLaunch; the variable of the health server is   *)
(* never set, and it is not closed.                                        *)

Receive ==
  /\ proc.handler = "wait" /\ proc.signaled
  /\ Step([proc EXCEPT !.handler = "proxy", !.signaled = FALSE])

(* Proxy.Close: the flag, then the channel. *)
SetClosed ==
  /\ proc.handler = "proxy"
  /\ Step([proc EXCEPT !.handler = "channel", !.closed = TRUE])

CloseChannel ==
  /\ proc.handler = "channel"
  /\ Step([proc EXCEPT !.handler = "prober", !.channel = TRUE])

CloseProber ==
  /\ proc.handler = "prober"
  /\ Step([proc EXCEPT !.handler = "stop", !.probing = FALSE])

(* StopInstance, and the sleep of fifteen seconds. *)
StopInstance ==
  \/ /\ proc.handler = "stop"
     /\ \/ proc' = [proc EXCEPT !.handler = "delete"] /\ Life!CleanStop(Self)
        \/ proc' = [proc EXCEPT !.handler = "sleep"] /\ Life!CleanNothing(Self)
  \/ /\ proc.handler = "delete"
     /\ proc' = [proc EXCEPT !.handler = "sleep"] /\ Life!CleanDelete(Self)

-----------------------------------------------------------------------------
Port(k) == PortLoops(k) \/ SocatEnds(k) \/ PortKills(k)
Main == Before \/ Serve \/ StartLoop \/ CancelProxies \/ MainReturns
Handler == Receive \/ SetClosed \/ CloseChannel \/ CloseProber \/ StopInstance \/ OsExit

Next ==
  \/ Around \/ Collector \/ Main \/ Handler
  \/ \E k \in Ports : Port(k)
  \/ Probe \/ ProbeFails \/ KubeletSignals

Spec == Init /\ [][Next]_vars

(* Fairness: goroutines run, the prober ticks and LXD answers it in the    *)
(* end, Kubernetes acts on a container that is not alive or not wanted.    *)
(* Nothing makes socat end but its cancellation.                           *)
FairSpec ==
  /\ Spec
  /\ WF_vars(Main) /\ WF_vars(Handler) /\ WF_vars(Probe) /\ WF_vars(KubeletSignals)
  /\ WF_vars(KeepsPace(EarlySignal)) /\ WF_vars(KeepsPace(Life!PodGone(Self)))
  /\ \A k \in Ports : WF_vars(PortLoops(k) \/ PortKills(k))

-----------------------------------------------------------------------------
(* The launcher is the one of Instances: its process ends only with a      *)
(* reason, through the handler or after it has begun, and the instance is  *)
(* stopped by the handler alone (launch.go, handleLaunch, CleanupLaunch;   *)
(* proxy.go; util.go, handleSignals).                                      *)
ImplementsLife == Life!Spec

(* Health is given up only for an instance that does not run, as long as   *)
(* LXD misses no more probes in a row than the prober tolerates (prober.go,*)
(* Alive and probeInstance).  Needs MaxBlips <= MaxFailure.                *)
DeadMeansDown == Serving /\ ~Alive => ~Life!Running(Self)

(* An instance that goes down under its launcher, by whatever hand, takes  *)
(* the launcher with it, so that Kubernetes can start it anew (prober.go;  *)
(* launch.go, launchStatusHandler).                                        *)
DownEnds == (Serving /\ ~Life!Running(Self)) ~> ~Serving

(* No launcher goes on serving with a port whose goroutine has given up    *)
(* (proxy.go, PerformProxy: `app will exit`).                              *)
NoPortLeftDead ==
  \A k \in Ports : (Serving /\ PortAt(k, "quit")) ~> ~Serving

(* A pod that is told to end does, as Instances promises: the one slot of  *)
(* sigChan is enough for signals from Kubernetes and from every port, and  *)
(* main and the handler do not wait for each other, for the ports or for   *)
(* LXD's success (util.go, handleSignals; launch.go, CleanupLaunch).       *)
PodEnds == Life!PodEnds
=============================================================================
