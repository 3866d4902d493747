------------------------- MODULE ImageHandlerProofs -------------------------
(***************************************************************************)
(* Proofs about ImageHandler, for every number of workers, every channel   *)
(* size and every answer of the metadata endpoint.                         *)
(***************************************************************************)
EXTENDS ImageHandler, FiniteSetTheorems, SequenceTheorems, TLAPS

USE WorkersAssumption, SlotsAssumption, ListsAssumption, NoImageAssumption

LEMMA CapIsNat == Cap \in Nat
<1>1. Cardinality(Workers) \in Nat
  BY FS_CardinalityType
<1> QED
  BY <1>1 DEF Cap

(* Type correctness of the manager process: every step of its goroutines   *)
(* leaves each channel, token and program counter a value of its type.     *)
LEMMA TypeStep == TypeOK /\ [Next]_vars => TypeOK'
<1> SUFFICES ASSUME TypeOK, [Next]_vars PROVE TypeOK'
  OBVIOUS
<1> USE DEF TypeOK, LoopPC, WorkerPC, mainVars, workerVars
<1>1. CASE RetrieveFails
  BY <1>1 DEF RetrieveFails
<1>2. ASSUME NEW list \in Lists, Arrange(list)
      PROVE  TypeOK'
  <2>1. pending' \in Seq(Images)
    BY <1>2 DEF Arrange, Arranged
  <2> QED
    BY <1>2, <2>1 DEF Arrange
<1>3. CASE Send
  <2>1. Head(pending) \in Images /\ Tail(pending) \in Seq(Images)
    BY <1>3 DEF Send
  <2> QED
    BY <1>3, <2>1 DEF Send
<1>4. CASE StartWorkers
  BY <1>4 DEF StartWorkers
<1>5. CASE PushReturns
  BY <1>5 DEF PushReturns
<1>6. CASE DeleteInstances
  BY <1>6 DEF DeleteInstances
<1>7. CASE ServeTick
  BY <1>7 DEF ServeTick
<1>8. CASE ServeClose
  BY <1>8 DEF ServeClose
<1>9. CASE LoopReturns
  BY <1>9 DEF LoopReturns
<1>10. CASE MainReturns
  BY <1>10 DEF MainReturns
<1>11. CASE TickerFires
  BY <1>11 DEF TickerFires
<1>12. CASE CleanupManage
  BY <1>12 DEF CleanupManage
<1>13. CASE OsExit
  BY <1>13 DEF OsExit
<1>14. ASSUME NEW w \in Workers, Worker(w)
       PROVE  TypeOK'
  <2>1. CASE TakeReady(w)
    BY <2>1 DEF TakeReady
  <2>2. CASE TakeClose(w)
    BY <2>2 DEF TakeClose
  <2>3. CASE WorkerReturns(w)
    BY <2>3 DEF WorkerReturns
  <2>4. CASE Receive(w)
    <3>1. Head(imageCh) \in Images /\ Tail(imageCh) \in Seq(Images)
      BY <2>4 DEF Receive
    <3> QED
      BY <2>4, <3>1 DEF Receive
  <2>5. CASE PullerRefused(w)
    BY <2>5 DEF PullerRefused, PutToken
  <2>6. CASE PullerBuilt(w)
    BY <2>6 DEF PullerBuilt
  <2>7. CASE DownloadReturns(w)
    BY <2>7 DEF DownloadReturns, PutToken
  <2> QED
    BY <1>14, <2>1, <2>2, <2>3, <2>4, <2>5, <2>6, <2>7 DEF Worker
<1>15. CASE Gone \/ UNCHANGED vars
  BY <1>15 DEF Gone, vars
<1> QED
  BY <1>1, <1>2, <1>3, <1>4, <1>5, <1>6, <1>7, <1>8, <1>9, <1>10, <1>11,
     <1>12, <1>13, <1>14, <1>15 DEF Next, Main

LEMMA TypeInit == Init => TypeOK
<1>1. ASSUME Init PROVE TypeOK
  <2>1. <<>> \in Seq(Images)
    OBVIOUS
  <2>2. pending \in Seq(Images) /\ imageCh \in Seq(Images)
    BY <1>1, <2>1 DEF Init
  <2>3. canceled \in [Workers -> BOOLEAN] /\ worker \in [Workers -> WorkerPC]
    BY <1>1 DEF Init, WorkerPC
  <2>4. readyCh \in [Workers -> 0..1]
    BY <1>1 DEF Init
  <2>5. job \in [Workers -> Images \union {NoImage}]
    BY <1>1 DEF Init
  <2>6. /\ loop \in LoopPC /\ signal \in {"waiting", "cleanup"}
        /\ started \in BOOLEAN /\ tick \in BOOLEAN
        /\ closed \in BOOLEAN /\ alive \in BOOLEAN
    BY <1>1 DEF Init, LoopPC
  <2> QED
    BY <2>2, <2>3, <2>4, <2>5, <2>6 DEF TypeOK
<1> QED
  BY <1>1

(* Every reachable state of the manager process is well typed. *)
THEOREM TypeCorrect == Spec => []TypeOK
  BY TypeInit, TypeStep, PTL DEF Spec

-----------------------------------------------------------------------------
(* The inductive invariant.  RoomReserved speaks of one line only; what    *)
(* carries it there is that the images in the channel and those still to   *)
(* be sent never exceed the channel's capacity, and that nothing is left   *)
(* to send elsewhere.  The facts about a worker tie its context, its job   *)
(* and its token to its program counter.                                   *)

RoomInv ==
  /\ Len(imageCh) + Len(pending) <= Cap
  /\ loop # "send" => pending = <<>>

WorkerInv ==
  \A w \in Workers :
    /\ ~started => worker[w] = "unborn"
    /\ canceled[w] => worker[w] \in {"drain", "done"}
    /\ job[w] = NoImage <=> worker[w] \notin {"puller", "pull"}

IInv ==
  /\ TypeOK
  /\ RoomInv
  /\ WorkerInv
  /\ ReadyTokenOnce

LEMMA InitIInv == Init => IInv
<1> SUFFICES ASSUME Init PROVE IInv
  OBVIOUS
<1>1. TypeOK
  BY TypeInit
<1>2. RoomInv
  <2>1. Len(imageCh) = 0 /\ Len(pending) = 0
    BY DEF Init
  <2> QED
    BY <2>1, CapIsNat DEF Init, RoomInv
<1>3. \A w \in Workers : worker[w] = "unborn" /\ job[w] = NoImage /\ ~canceled[w]
  BY DEF Init
<1> QED
  BY <1>1, <1>2, <1>3 DEF IInv, WorkerInv, ReadyTokenOnce

LEMMA RoomStep == TypeOK /\ RoomInv /\ [Next]_vars => RoomInv'
<1> SUFFICES ASSUME TypeOK, RoomInv, [Next]_vars PROVE RoomInv'
  OBVIOUS
<1> USE DEF RoomInv, mainVars, workerVars
<1>0. Len(imageCh) \in Nat /\ Len(pending) \in Nat /\ Cap \in Nat
  BY CapIsNat DEF TypeOK
<1>1. CASE RetrieveFails
  BY <1>1 DEF RetrieveFails
<1>2. ASSUME NEW list \in Lists, Arrange(list)
      PROVE  RoomInv'
  <2>1. pending = <<>> /\ imageCh' = imageCh /\ loop' = "send"
    BY <1>2 DEF Arrange
  <2>2. Len(pending) = 0
    BY <2>1
  <2>3. CASE HasRoom(list)
    BY <1>2, <2>1, <2>3 DEF Arrange, Arranged, HasRoom
  <2>4. CASE ~HasRoom(list)
    BY <1>2, <2>1, <2>4 DEF Arrange, Arranged
  <2> QED
    BY <2>3, <2>4
<1>3. CASE Send
  <2>1. Len(imageCh') = Len(imageCh) + 1
    BY <1>3 DEF Send, TypeOK
  <2>2. Len(pending') = Len(pending) - 1
    BY <1>3, HeadTailProperties DEF Send, TypeOK
  <2> QED
    BY <1>0, <1>3, <2>1, <2>2 DEF Send
<1>4. CASE StartWorkers
  BY <1>4 DEF StartWorkers
<1>5. CASE PushReturns
  BY <1>5 DEF PushReturns
<1>6. CASE DeleteInstances
  BY <1>6 DEF DeleteInstances
<1>7. CASE ServeTick
  BY <1>7 DEF ServeTick
<1>8. CASE ServeClose
  BY <1>8 DEF ServeClose
<1>9. CASE LoopReturns
  BY <1>9 DEF LoopReturns
<1>10. CASE MainReturns \/ TickerFires \/ CleanupManage \/ OsExit
  BY <1>10 DEF MainReturns, TickerFires, CleanupManage, OsExit
<1>11. ASSUME NEW w \in Workers, Worker(w)
       PROVE  RoomInv'
  <2>1. pending' = pending /\ loop' = loop
    BY <1>11 DEF Worker, TakeReady, TakeClose, WorkerReturns, Receive,
                 PullerRefused, PullerBuilt, DownloadReturns
  <2>2. Len(imageCh') <= Len(imageCh) /\ Len(imageCh') \in Nat
    <3>1. CASE Receive(w)
      BY <1>0, <3>1, HeadTailProperties DEF Receive, TypeOK
    <3>2. CASE ~Receive(w)
      <4>1. imageCh' = imageCh
        BY <1>11, <3>2 DEF Worker, TakeReady, TakeClose, WorkerReturns,
                           PullerRefused, PullerBuilt, DownloadReturns
      <4> QED
        BY <1>0, <4>1
    <3> QED
      BY <3>1, <3>2
  <2> QED
    BY <1>0, <2>1, <2>2
<1>12. CASE Gone \/ UNCHANGED vars
  BY <1>12 DEF Gone, vars
<1> QED
  BY <1>1, <1>2, <1>3, <1>4, <1>5, <1>6, <1>7, <1>8, <1>9, <1>10, <1>11,
     <1>12 DEF Next, Main

(* Only the workers, and StartWorkers, change what WorkerInv and           *)
(* ReadyTokenOnce speak of; a worker changes its own entries alone.        *)
LEMMA WorkerStep == IInv /\ [Next]_vars => WorkerInv' /\ ReadyTokenOnce'
<1> SUFFICES ASSUME IInv, [Next]_vars PROVE WorkerInv' /\ ReadyTokenOnce'
  OBVIOUS
<1> USE DEF IInv, WorkerInv, ReadyTokenOnce, mainVars, workerVars
<1>1. CASE UNCHANGED <<started, workerVars>>
  BY <1>1
<1>2. CASE StartWorkers
  <2> SUFFICES ASSUME NEW w \in Workers
               PROVE  /\ started' /\ worker'[w] = "select" /\ readyCh'[w] = 1
                      /\ job'[w] = NoImage /\ ~canceled'[w]
    OBVIOUS
  <2>1. worker[w] = "unborn"
    BY <1>2 DEF StartWorkers
  <2>2. job[w] = NoImage /\ ~canceled[w]
    BY <2>1
  <2> QED
    BY <1>2, <2>2 DEF StartWorkers
<1>3. ASSUME NEW w \in Workers, Worker(w)
      PROVE  WorkerInv' /\ ReadyTokenOnce'
  <2>1. started' = started /\ started
    <3>1. started' = started
      BY <1>3 DEF Worker, TakeReady, TakeClose, WorkerReturns, Receive,
                  PullerRefused, PullerBuilt, DownloadReturns
    <3>2. worker[w] # "unborn"
      BY <1>3 DEF Worker, TakeReady, TakeClose, AtSelect, WorkerReturns,
                  Receive, PullerRefused, PullerBuilt, DownloadReturns
    <3> QED
      BY <3>1, <3>2
  <2>2. \A v \in Workers \ {w} :
          /\ worker'[v] = worker[v] /\ readyCh'[v] = readyCh[v]
          /\ job'[v] = job[v] /\ canceled'[v] = canceled[v]
    BY <1>3 DEF Worker, TakeReady, TakeClose, WorkerReturns, Receive, PutToken,
                PullerRefused, PullerBuilt, DownloadReturns, TypeOK
  <2>3. /\ canceled'[w] => worker'[w] \in {"drain", "done"}
        /\ job'[w] = NoImage <=> worker'[w] \notin {"puller", "pull"}
        /\ worker'[w] # "unborn"
        /\ readyCh'[w] = 1 <=> worker'[w] \notin {"receive", "puller", "pull"}
    <3> USE DEF TypeOK
    <3>1. CASE TakeReady(w)
      BY <3>1 DEF TakeReady, AtSelect
    <3>2. CASE TakeClose(w)
      BY <3>2 DEF TakeClose, AtSelect
    <3>3. CASE WorkerReturns(w)
      BY <3>3 DEF WorkerReturns
    <3>4. CASE Receive(w)
      <4>1. job'[w] \in Images
        BY <3>4 DEF Receive
      <4>2. job'[w] # NoImage
        BY <4>1
      <4> QED
        BY <3>4, <4>2 DEF Receive
    <3>5. CASE PullerRefused(w)
      BY <3>5 DEF PullerRefused, PutToken
    <3>6. CASE PullerBuilt(w)
      BY <3>6 DEF PullerBuilt
    <3>7. CASE DownloadReturns(w)
      BY <3>7 DEF DownloadReturns, PutToken
    <3> QED
      BY <1>3, <3>1, <3>2, <3>3, <3>4, <3>5, <3>6, <3>7 DEF Worker
  <2> QED
    BY <2>1, <2>2, <2>3
<1>4. UNCHANGED <<started, workerVars>> \/ StartWorkers
        \/ \E w \in Workers : Worker(w)
  BY DEF Next, Main, RetrieveFails, Arrange, Send, PushReturns, DeleteInstances,
         ServeTick, ServeClose, LoopReturns, MainReturns, TickerFires,
         CleanupManage, OsExit, Gone, vars
<1> QED
  BY <1>1, <1>2, <1>3, <1>4

LEMMA IInvHolds == Spec => []IInv
<1>1. IInv /\ [Next]_vars => IInv'
  BY TypeStep, RoomStep, WorkerStep DEF IInv
<1> QED
  BY <1>1, InitIInv, PTL DEF Spec

(* The room a list was checked against is there until its last image is    *)
(* sent, whatever the workers take meanwhile (pushImageLoadTask).          *)
THEOREM RoomStaysReserved == Spec => []RoomReserved
<1>1. IInv => RoomReserved
  BY DEF IInv, RoomInv, RoomReserved
<1> QED
  BY <1>1, IInvHolds, PTL

(* No path of pullingImage or DownloadImage loses or doubles a worker's    *)
(* token.                                                                  *)
THEOREM TokenConserved == Spec => []ReadyTokenOnce
<1>1. IInv => ReadyTokenOnce
  BY DEF IInv
<1> QED
  BY <1>1, IInvHolds, PTL

(* No pull is ever cancelled through its context. *)
THEOREM NoPullIsCanceled == Spec => []CancelOnlyWhenIdle
<1>1. IInv => CancelOnlyWhenIdle
  BY DEF IInv, WorkerInv, CancelOnlyWhenIdle
<1> QED
  BY <1>1, IInvHolds, PTL

-----------------------------------------------------------------------------
(* The manager process implements JobQueue. *)

LEMMA SendKeepsOrder ==
  ASSUME NEW S, NEW q \in Seq(S), NEW p \in Seq(S), p # <<>>
  PROVE  Append(q, Head(p)) \o Tail(p) = q \o p
<1>1. Head(p) \in S /\ Tail(p) \in Seq(S) /\ Len(Tail(p)) = Len(p) - 1
      /\ \A i \in 1..Len(Tail(p)) : Tail(p)[i] = p[i + 1]
  BY HeadTailProperties
<1>2. Append(q, Head(p)) \in Seq(S)
      /\ Len(Append(q, Head(p))) = Len(q) + 1
      /\ \A i \in 1..Len(q) : Append(q, Head(p))[i] = q[i]
      /\ Append(q, Head(p))[Len(q) + 1] = Head(p)
  BY <1>1, AppendProperties
<1> DEFINE l == Append(q, Head(p)) \o Tail(p)
           r == q \o p
<1>3. l \in Seq(S) /\ r \in Seq(S) /\ Len(l) = Len(r)
  BY <1>1, <1>2, ConcatProperties
<1>4. \A i \in 1..Len(l) : l[i] = r[i]
  BY <1>1, <1>2, <1>3, ConcatProperties
<1> QED
  BY <1>3, <1>4, SeqEqual

LEMMA TakeFromFront ==
  ASSUME NEW S, NEW q \in Seq(S), NEW p \in Seq(S), q # <<>>
  PROVE  /\ q \o p # <<>>
         /\ Head(q \o p) = Head(q)
         /\ Tail(q \o p) = Tail(q) \o p
<1>1. q \o p \in Seq(S) /\ Len(q \o p) = Len(q) + Len(p)
      /\ q \o p # <<>>
  BY ConcatProperties, ConcatEqualIffEmpty
<1>2. Tail(q) \in Seq(S) /\ Len(Tail(q)) = Len(q) - 1
      /\ \A i \in 1..Len(Tail(q)) : Tail(q)[i] = q[i + 1]
  BY HeadTailProperties
<1>3. Tail(q \o p) \in Seq(S) /\ Len(Tail(q \o p)) = Len(q \o p) - 1
      /\ \A i \in 1..Len(Tail(q \o p)) : Tail(q \o p)[i] = (q \o p)[i + 1]
  BY <1>1, HeadTailProperties
<1>4. Head(q \o p) = Head(q)
  BY <1>1, ConcatProperties, EmptySeq
<1> DEFINE l == Tail(q \o p)
           r == Tail(q) \o p
<1>5. r \in Seq(S) /\ Len(l) = Len(r)
  BY <1>1, <1>2, <1>3, ConcatProperties
<1>6. \A i \in 1..Len(l) : l[i] = r[i]
  BY <1>1, <1>2, <1>3, ConcatProperties
<1> QED
  BY <1>1, <1>3, <1>4, <1>5, <1>6, SeqEqual

(* The steps that hand nothing over leave the queue, the jobs and the      *)
(* process as they were.                                                   *)
LEMMA QueueStep == IInv /\ [Next]_vars => [Queue!Next]_(Queue!vars)
<1> SUFFICES ASSUME IInv, [Next]_vars PROVE [Queue!Next]_(Queue!vars)
  OBVIOUS
<1> USE DEF IInv, mainVars, workerVars
<1>1. ASSUME UNCHANGED <<pending, imageCh, job, alive>>
      PROVE  [Queue!Next]_(Queue!vars)
  BY <1>1 DEF Queue!vars
<1>2. ASSUME NEW list \in Lists, Arrange(list)
      PROVE  [Queue!Next]_(Queue!vars)
  <2>1. pending = <<>>
    BY <1>2 DEF Arrange, RoomInv
  <2>2. imageCh \o pending = imageCh
    BY <2>1, ConcatEmptySeq DEF TypeOK
  <2>3. CASE HasRoom(list)
    <3>1. Queue!Arrange(list)
      BY <1>2, <2>2, <2>3 DEF Arrange, Arranged, HasRoom, Queue!Arrange
    <3> QED
      BY <3>1 DEF Queue!Next
  <2>4. CASE ~HasRoom(list)
    BY <1>2, <2>1, <2>4 DEF Arrange, Arranged, Queue!vars
  <2> QED
    BY <2>3, <2>4
<1>3. ASSUME Send
      PROVE  [Queue!Next]_(Queue!vars)
  <2>1. imageCh' \o pending' = imageCh \o pending
    BY <1>3, SendKeepsOrder DEF Send, TypeOK
  <2> QED
    BY <1>3, <2>1 DEF Send, Queue!vars
<1>4. ASSUME alive, alive' = FALSE, UNCHANGED <<pending, imageCh, job>>
      PROVE  [Queue!Next]_(Queue!vars)
  BY <1>4 DEF Queue!Next, Queue!Stop
<1>5. ASSUME NEW w \in Workers, Worker(w)
      PROVE  [Queue!Next]_(Queue!vars)
  <2>1. CASE Receive(w)
    <3>1. /\ imageCh \o pending # <<>>
          /\ Head(imageCh \o pending) = Head(imageCh)
          /\ Tail(imageCh \o pending) = Tail(imageCh) \o pending
      BY <2>1, TakeFromFront DEF Receive, TypeOK
    <3>2. job[w] = NoImage
      BY <2>1 DEF Receive, WorkerInv
    <3>3. Queue!Take(w)
      BY <2>1, <3>1, <3>2 DEF Receive, Queue!Take
    <3> QED
      BY <3>3 DEF Queue!Next
  <2>2. CASE PullerRefused(w) \/ DownloadReturns(w)
    <3>1. job[w] # NoImage
      BY <2>2 DEF PullerRefused, DownloadReturns, WorkerInv
    <3>2. Queue!Finish(w)
      BY <2>2, <3>1 DEF PullerRefused, DownloadReturns, PutToken, Queue!Finish
    <3> QED
      BY <3>2 DEF Queue!Next
  <2>3. CASE TakeReady(w) \/ TakeClose(w) \/ WorkerReturns(w) \/ PullerBuilt(w)
    BY <1>1, <2>3 DEF TakeReady, TakeClose, WorkerReturns, PullerBuilt
  <2> QED
    BY <1>5, <2>1, <2>2, <2>3 DEF Worker
<1>6. CASE \/ RetrieveFails \/ StartWorkers \/ PushReturns \/ DeleteInstances
           \/ ServeTick \/ ServeClose \/ LoopReturns \/ TickerFires
           \/ CleanupManage \/ Gone \/ UNCHANGED vars
  BY <1>1, <1>6 DEF RetrieveFails, StartWorkers, PushReturns, DeleteInstances,
     ServeTick, ServeClose, LoopReturns, TickerFires, CleanupManage, Gone, vars
<1>7. CASE MainReturns \/ OsExit
  BY <1>4, <1>7 DEF MainReturns, OsExit
<1> QED
  BY <1>2, <1>3, <1>5, <1>6, <1>7 DEF Next, Main

(* The main loop, the channel and the workers together are a bounded FIFO  *)
(* filled by whole batches (StartLoop, pushImageLoadTask, pullingImage).   *)
THEOREM ImplementsJobQueue == Spec => JobQueueContract
<1>1. Init => Queue!Init
  <2> SUFFICES ASSUME Init PROVE Queue!Init
    OBVIOUS
  <2>1. <<>> \o <<>> = <<>>
    BY ConcatEmptySeq, EmptySeq
  <2> QED
    BY <2>1 DEF Init, Queue!Init
<1> QED
  BY <1>1, IInvHolds, QueueStep, PTL DEF Spec, Queue!Spec, JobQueueContract

=============================================================================
