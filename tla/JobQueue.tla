------------------------------ MODULE JobQueue ------------------------------
(***************************************************************************)
(* What the image synchronisation loop promises, without its channels and  *)
(* goroutines: a bounded FIFO of jobs that is filled by whole batches and  *)
(* emptied by workers that run one job at a time, until the process goes.  *)
(*                                                                         *)
(* ImageHandler implements it (ImageHandler!JobQueueContract).  The        *)
(* contract has four parts that the code spreads over several steps:       *)
(*   - a batch is taken entirely or not at all, and never beyond Cap;      *)
(*   - jobs start in the order they were arranged;                         *)
(*   - a job that is taken is taken by one worker, once;                   *)
(*   - once the process is gone nothing starts or ends.                    *)
(***************************************************************************)
EXTENDS Integers, Sequences

CONSTANTS
  Workers,   \* who runs jobs
  Batches,   \* the sequences of jobs that may be handed in together
  NoJob,     \* marks an idle worker
  Cap        \* how many jobs may wait

VARIABLES
  queue,     \* the jobs that wait, first to run first
  running,   \* the job of each worker, or NoJob
  up         \* FALSE once the process is gone

vars == <<queue, running, up>>

Init ==
  /\ queue = <<>>
  /\ running = [w \in Workers |-> NoJob]
  /\ up = TRUE

(* A batch is queued as a whole, when it fits. *)
Arrange(batch) ==
  /\ up
  /\ Len(queue) + Len(batch) <= Cap
  /\ queue' = queue \o batch
  /\ UNCHANGED <<running, up>>

(* An idle worker starts the job that has waited longest. *)
Take(w) ==
  /\ up
  /\ running[w] = NoJob
  /\ queue # <<>>
  /\ running' = [running EXCEPT ![w] = Head(queue)]
  /\ queue' = Tail(queue)
  /\ UNCHANGED up

(* The job of a worker ends, well or badly. *)
Finish(w) ==
  /\ up
  /\ running[w] # NoJob
  /\ running' = [running EXCEPT ![w] = NoJob]
  /\ UNCHANGED <<queue, up>>

(* The process goes, whatever waits or runs. *)
Stop ==
  /\ up
  /\ up' = FALSE
  /\ UNCHANGED <<queue, running>>

Next ==
  \/ \E batch \in Batches : Arrange(batch)
  \/ \E w \in Workers : Take(w) \/ Finish(w)
  \/ Stop

Spec == Init /\ [][Next]_vars

=============================================================================
