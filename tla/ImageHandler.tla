---------------------------- MODULE ImageHandler ----------------------------
(***************************************************************************)
(* The process of `launcher manage` (cmd/manage.go, image/handler.go).     *)
(*                                                                         *)
(* The main goroutine runs Handler.StartLoop: it lists the images to keep  *)
(* in step with the registry, queues them on the buffered channel imageCh, *)
(* starts the workers, and then serves a ticker and the close channel.     *)
(* Each worker runs pullingImage: it waits for its own readyCh token or    *)
(* for the close channel, then for an image, and pulls it.  A third        *)
(* goroutine waits for a signal, closes closeCh and ends the process.      *)
(*                                                                         *)
(* The pull itself is module ImagePull, the garbage collection of          *)
(* instances that follows each tick is not modelled here: both are single  *)
(* steps of a program counter.  Sleeps are steps that may take any time.   *)
(***************************************************************************)
EXTENDS Integers, Sequences, FiniteSets

CONSTANTS
  Workers,         \* the pullingImage goroutines, one for each of h.worker
  SlotsPerWorker,  \* channel slots made for each worker: 32 in the code
  Images,          \* the images the metadata endpoint may name
  Lists,           \* the answers that endpoint may give: sequences of images
  NoImage          \* marks a worker that pulls nothing

ASSUME WorkersAssumption == IsFiniteSet(Workers)
ASSUME SlotsAssumption == SlotsPerWorker \in Nat
ASSUME ListsAssumption == Lists \subseteq Seq(Images)
ASSUME NoImageAssumption == NoImage \notin Images

Cap == Cardinality(Workers) * SlotsPerWorker

VARIABLES
  loop,      \* where the main goroutine is
  started,   \* the workers and the ticker of StartLoop exist
  pending,   \* images of the current arrangement still to be sent
  imageCh,   \* buffered channel of images
  tick,      \* the ticker's channel holds a tick (it has one slot)
  closed,    \* closeCh is closed
  signal,    \* where the signal goroutine is
  worker,    \* where each worker is
  readyCh,   \* tokens in each worker's readyCh (it has one slot)
  job,       \* the image each worker has received and not finished
  canceled,  \* each worker has cancelled its context
  alive      \* the process runs

mainVars == <<loop, started, pending>>
workerVars == <<worker, readyCh, job, canceled>>
vars == <<loop, started, pending, imageCh, tick, closed, signal,
          worker, readyCh, job, canceled, alive>>

LoopPC == {"start", "send", "select", "tick", "gc", "closing", "fake", "returned"}
WorkerPC == {"unborn", "select", "receive", "puller", "pull", "drain", "done"}

TypeOK ==
  /\ loop \in LoopPC
  /\ started \in BOOLEAN
  /\ pending \in Seq(Images)
  /\ imageCh \in Seq(Images)
  /\ tick \in BOOLEAN
  /\ closed \in BOOLEAN
  /\ signal \in {"waiting", "cleanup"}
  /\ worker \in [Workers -> WorkerPC]
  /\ readyCh \in [Workers -> 0..1]
  /\ job \in [Workers -> Images \union {NoImage}]
  /\ canceled \in [Workers -> BOOLEAN]
  /\ alive \in BOOLEAN

-----------------------------------------------------------------------------
(* startManage: without an LXD client the process only waits for a signal. *)
Init ==
  /\ loop \in {"start", "fake"}
  /\ started = FALSE
  /\ pending = <<>>
  /\ imageCh = <<>>
  /\ tick = FALSE
  /\ closed = FALSE
  /\ signal = "waiting"
  /\ worker = [w \in Workers |-> "unborn"]
  /\ readyCh = [w \in Workers |-> 0]
  /\ job = [w \in Workers |-> NoImage]
  /\ canceled = [w \in Workers |-> FALSE]
  /\ alive = TRUE

-----------------------------------------------------------------------------
(* The main goroutine. *)

(* retrieveImages fails in pushImageLoadTask: at start-up StartLoop gives  *)
(* up, on a tick it goes on to the garbage collection.                     *)
RetrieveFails ==
  /\ alive
  /\ \/ loop = "start" /\ loop' = "returned"
     \/ loop = "tick"  /\ loop' = "gc"
  /\ UNCHANGED <<started, pending, imageCh, tick, closed, signal, workerVars, alive>>

(* Mutant of HasRoom: what is queued is forgotten. *)
HasRoomIfEmpty(list) == Len(list) <= Cap

HasRoom(list) == Len(imageCh) + Len(list) <= Cap

(* Mutant of Arranged: a list without room is cut to the room there is. *)
ArrangedInPart(list) ==
  IF HasRoom(list) THEN list ELSE SubSeq(list, 1, Cap - Len(imageCh))

(* A list is arranged as a whole, or dropped until the next tick. *)
Arranged(list) == IF HasRoom(list) THEN list ELSE <<>>

(* retrieveImages answers, and pushImageLoadTask looks at the room. *)
Arrange(list) ==
  /\ alive
  /\ loop \in {"start", "tick"}
  /\ pending' = Arranged(list)
  /\ loop' = "send"
  /\ UNCHANGED <<started, imageCh, tick, closed, signal, workerVars, alive>>

(* One `h.imageCh <- image`; it blocks while the channel is full. *)
Send ==
  /\ alive
  /\ loop = "send"
  /\ pending # <<>>
  /\ Len(imageCh) < Cap
  /\ imageCh' = Append(imageCh, Head(pending))
  /\ pending' = Tail(pending)
  /\ UNCHANGED <<loop, started, tick, closed, signal, workerVars, alive>>

(* Mutant of StartWorkers: each worker is given two tokens. *)
StartWorkersTwoTokens ==
  /\ alive
  /\ loop = "send" /\ pending = <<>> /\ ~started
  /\ loop' = "select"
  /\ started' = TRUE
  /\ worker' = [w \in Workers |-> "select"]
  /\ readyCh' = [w \in Workers |-> 2]
  /\ UNCHANGED <<pending, imageCh, tick, closed, signal, job, canceled, alive>>

(* The first pushImageLoadTask returns: StartLoop starts the workers, each *)
(* with a token in its readyCh, and the ticker.                            *)
StartWorkers ==
  /\ alive
  /\ loop = "send" /\ pending = <<>> /\ ~started
  /\ loop' = "select"
  /\ started' = TRUE
  /\ worker' = [w \in Workers |-> "select"]
  /\ readyCh' = [w \in Workers |-> 1]
  /\ UNCHANGED <<pending, imageCh, tick, closed, signal, job, canceled, alive>>

(* pushImageLoadTask returns on a tick; DeleteInstances comes next. *)
PushReturns ==
  /\ alive
  /\ loop = "send" /\ pending = <<>> /\ started
  /\ loop' = "gc"
  /\ UNCHANGED <<started, pending, imageCh, tick, closed, signal, workerVars, alive>>

DeleteInstances ==
  /\ alive
  /\ loop = "gc"
  /\ loop' = "select"
  /\ UNCHANGED <<started, pending, imageCh, tick, closed, signal, workerVars, alive>>

(* The ticker fires; a tick that finds the slot taken is dropped. *)
TickerFires ==
  /\ alive
  /\ started /\ ~tick
  /\ tick' = TRUE
  /\ UNCHANGED <<mainVars, imageCh, closed, signal, workerVars, alive>>

(* The two cases of StartLoop's select. *)
ServeTick ==
  /\ alive
  /\ loop = "select" /\ tick
  /\ loop' = "tick"
  /\ tick' = FALSE
  /\ UNCHANGED <<started, pending, imageCh, closed, signal, workerVars, alive>>

ServeClose ==
  /\ alive
  /\ loop = "select" /\ closed
  /\ loop' = "closing"
  /\ UNCHANGED <<started, pending, imageCh, tick, closed, signal, workerVars, alive>>

(* StartLoop has slept and returns; FakeLoop returns at once. *)
LoopReturns ==
  /\ alive
  /\ \/ loop = "closing"
     \/ loop = "fake" /\ closed
  /\ loop' = "returned"
  /\ UNCHANGED <<started, pending, imageCh, tick, closed, signal, workerVars, alive>>

(* startManage returns, so does main, and the process ends. *)
MainReturns ==
  /\ alive
  /\ loop = "returned"
  /\ alive' = FALSE
  /\ UNCHANGED <<mainVars, imageCh, tick, closed, signal, workerVars>>

-----------------------------------------------------------------------------
(* The signal goroutine: CleanupManage closes closeCh, sleeps, and         *)
(* handleSignals exits.                                                    *)

CleanupManage ==
  /\ alive
  /\ signal = "waiting"
  /\ signal' = "cleanup"
  /\ closed' = TRUE
  /\ UNCHANGED <<mainVars, imageCh, tick, workerVars, alive>>

(* Mutant of OsExit: it waits until every worker has quit. *)
OsExitAfterWorkers ==
  /\ alive
  /\ signal = "cleanup"
  /\ \A w \in Workers : worker[w] \in {"unborn", "done"}
  /\ alive' = FALSE
  /\ UNCHANGED <<mainVars, imageCh, tick, closed, signal, workerVars>>

OsExit ==
  /\ alive
  /\ signal = "cleanup"
  /\ alive' = FALSE
  /\ UNCHANGED <<mainVars, imageCh, tick, closed, signal, workerVars>>

-----------------------------------------------------------------------------
(* A worker. *)

(* Mutant of AtSelect: the pull runs beside the select, not in its place. *)
AtSelectOrPulling(w) == worker[w] \in {"select", "pull"}

AtSelect(w) == worker[w] = "select"

(* Case `<-readyCh`: from here on the worker waits for an image and no     *)
(* longer looks at closeCh.                                                *)
TakeReady(w) ==
  /\ alive
  /\ AtSelect(w)
  /\ readyCh[w] = 1
  /\ readyCh' = [readyCh EXCEPT ![w] = 0]
  /\ worker' = [worker EXCEPT ![w] = "receive"]
  /\ UNCHANGED <<mainVars, imageCh, tick, closed, signal, job, canceled, alive>>

(* Case `<-closeCh`: the worker cancels its context and sleeps. *)
TakeClose(w) ==
  /\ alive
  /\ AtSelect(w)
  /\ closed
  /\ canceled' = [canceled EXCEPT ![w] = TRUE]
  /\ worker' = [worker EXCEPT ![w] = "drain"]
  /\ UNCHANGED <<mainVars, imageCh, tick, closed, signal, readyCh, job, alive>>

WorkerReturns(w) ==
  /\ alive
  /\ worker[w] = "drain"
  /\ worker' = [worker EXCEPT ![w] = "done"]
  /\ UNCHANGED <<mainVars, imageCh, tick, closed, signal, readyCh, job, canceled, alive>>

(* `i := <-h.imageCh`. *)
Receive(w) ==
  /\ alive
  /\ worker[w] = "receive"
  /\ imageCh # <<>>
  /\ job' = [job EXCEPT ![w] = Head(imageCh)]
  /\ imageCh' = Tail(imageCh)
  /\ worker' = [worker EXCEPT ![w] = "puller"]
  /\ UNCHANGED <<mainVars, tick, closed, signal, readyCh, canceled, alive>>

(* `readyCh <- true`, after which the worker is back at its select; the    *)
(* send would block on a full readyCh.                                     *)
PutToken(w) ==
  /\ readyCh[w] < 1
  /\ readyCh' = [readyCh EXCEPT ![w] = @ + 1]
  /\ worker' = [worker EXCEPT ![w] = "select"]
  /\ job' = [job EXCEPT ![w] = NoImage]

(* Mutant of PullerRefused: the `continue` after the send is missing. *)
PullerRefusedPullsOn(w) ==
  /\ alive
  /\ worker[w] = "puller"
  /\ readyCh[w] < 1
  /\ readyCh' = [readyCh EXCEPT ![w] = @ + 1]
  /\ worker' = [worker EXCEPT ![w] = "pull"]
  /\ UNCHANGED <<mainVars, imageCh, tick, closed, signal, job, canceled, alive>>

(* GetImagePuller fails (unknown type, bad name, no registry token): the   *)
(* worker itself puts its token back.                                      *)
PullerRefused(w) ==
  /\ alive
  /\ worker[w] = "puller"
  /\ PutToken(w)
  /\ UNCHANGED <<mainVars, imageCh, tick, closed, signal, canceled, alive>>

PullerBuilt(w) ==
  /\ alive
  /\ worker[w] = "puller"
  /\ worker' = [worker EXCEPT ![w] = "pull"]
  /\ UNCHANGED <<mainVars, imageCh, tick, closed, signal, readyCh, job, canceled, alive>>

(* Mutant of DownloadReturns: the token is sent at the end of the function *)
(* only, which a pull that fails does not reach.                           *)
DownloadReturnsOrFails(w) ==
  /\ alive
  /\ worker[w] = "pull"
  /\ \/ PutToken(w)
     \/ /\ worker' = [worker EXCEPT ![w] = "select"]
        /\ job' = [job EXCEPT ![w] = NoImage]
        /\ UNCHANGED readyCh
  /\ UNCHANGED <<mainVars, imageCh, tick, closed, signal, canceled, alive>>

(* DownloadImage runs in the worker's own goroutine and returns, on every  *)
(* path, through the deferred `finishedCh <- true`: finishedCh is readyCh. *)
DownloadReturns(w) ==
  /\ alive
  /\ worker[w] = "pull"
  /\ PutToken(w)
  /\ UNCHANGED <<mainVars, imageCh, tick, closed, signal, canceled, alive>>

-----------------------------------------------------------------------------
(* The process is gone. *)
Gone == ~alive /\ UNCHANGED vars

Main ==
  \/ RetrieveFails
  \/ \E list \in Lists : Arrange(list)
  \/ Send
  \/ StartWorkers
  \/ PushReturns
  \/ DeleteInstances
  \/ ServeTick
  \/ ServeClose
  \/ LoopReturns
  \/ MainReturns

Worker(w) ==
  \/ TakeReady(w)
  \/ TakeClose(w)
  \/ WorkerReturns(w)
  \/ Receive(w)
  \/ PullerRefused(w)
  \/ PullerBuilt(w)
  \/ DownloadReturns(w)

Next ==
  \/ Main
  \/ TickerFires
  \/ CleanupManage
  \/ OsExit
  \/ \E w \in Workers : Worker(w)
  \/ Gone

Spec == Init /\ [][Next]_vars

(***************************************************************************)
(* Fairness.  The Go scheduler runs every goroutine that can run, the      *)
(* ticker keeps firing and the sleeps end.  For a worker this includes     *)
(* that a pull ends (ImagePull!PullEnds, given that HTTP calls do).  Of    *)
(* the outside world FairSpec assumes that the metadata endpoint, asked    *)
(* again and again, gives each of its answers again and again.             *)
(***************************************************************************)
GoroutineFairness ==
  /\ WF_vars(Main)
  /\ WF_vars(TickerFires)
  /\ WF_vars(OsExit)
  /\ \A w \in Workers : WF_vars(Worker(w))

EndpointFairness == \A list \in Lists : SF_vars(Arrange(list))

FairSpec == Spec /\ GoroutineFairness /\ EndpointFairness

-----------------------------------------------------------------------------
(* Safety. *)

(* The room pushImageLoadTask has checked is still there when it sends:    *)
(* workers only take from imageCh and nobody else adds to it, so the main  *)
(* goroutine never blocks on a send and keeps serving ticks and the close  *)
(* channel (handler.go, pushImageLoadTask).                                *)
RoomReserved ==
  loop = "send" => Len(imageCh) + Len(pending) <= Cap

(* A running worker and its readyCh hold one token between them: it is in  *)
(* the channel exactly when the worker has no image to wait for or pull.   *)
(* So neither way of putting the token back can block the worker, and a    *)
(* worker is never without a token to go on with (handler.go,              *)
(* pullingImage; puller.go, DownloadImage's deferred send).                *)
ReadyTokenOnce ==
  \A w \in Workers :
    worker[w] # "unborn" =>
      (readyCh[w] = 1 <=> worker[w] \notin {"receive", "puller", "pull"})

(* A worker's context is cancelled only while the worker has no image: a   *)
(* pull in progress never sees ctx.Done(), because the goroutine that      *)
(* would cancel it is the one that pulls (handler.go, pullingImage).  The  *)
(* end of the process, not the context, is what stops a pull.              *)
CancelOnlyWhenIdle ==
  \A w \in Workers : canceled[w] => job[w] = NoImage

(* The loop, its channel and its workers implement JobQueue: what is still *)
(* to be sent counts as queued, so an arrangement is one step although its *)
(* sends interleave with the workers.                                      *)
Queue == INSTANCE JobQueue
           WITH Batches <- Lists, NoJob <- NoImage,
                queue <- imageCh \o pending, running <- job, up <- alive

JobQueueContract == Queue!Spec

-----------------------------------------------------------------------------
(* Liveness. *)

(* Closing closeCh ends the process although workers that wait for an      *)
(* image, or pull one, never notice it (manage.go, CleanupManage;          *)
(* util.go, handleSignals).                                                *)
ShutdownCompletes == closed ~> ~alive

(* An image in all answers of the endpoint that name any is handed to a    *)
(* worker again and again while the manager serves: an arrangement that is *)
(* dropped for lack of room is made up for by a later one, a refused image *)
(* costs the worker nothing (handler.go, pushImageLoadTask, pullingImage). *)
ListedImageAttempted ==
  \A i \in Images :
    (\A list \in Lists : list = <<>> \/ \E n \in DOMAIN list : list[n] = i) =>
      \/ []<>(\E w \in Workers : job[w] = i)
      \/ <>(closed \/ loop \in {"fake", "returned"})
=============================================================================
