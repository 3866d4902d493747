------------------------- MODULE RegistryClientProofs -------------------------
(***************************************************************************)
(* Proofs about RegistryClient, for every set of workers and processes,    *)
(* every set of images and any number of faults.                           *)
(***************************************************************************)
EXTENDS RegistryClient, TLAPS

USE HomeAssumption, NoneAssumption, ImagesAssumption, FaultsAssumption

-----------------------------------------------------------------------------
(* Types. *)

LEMMA FaultType ==
  ASSUME TypeOK, NEW kind, Fault(kind)
  PROVE  faults' \in 0..MaxFaults
BY DEF TypeOK, Fault

(* The steps that change nothing but where a worker is. *)
LEMMA GotoType ==
  ASSUME TypeOK, NEW w \in Workers, NEW pc \in PC, Goto(w, pc)
  PROVE  pull' \in [Workers -> PullType]
BY DEF TypeOK, Goto, PullType

LEMMA ReturnType ==
  ASSUME TypeOK, NEW w \in Workers, Return(w)
  PROVE  pull' \in [Workers -> PullType]
BY DEF TypeOK, Return, Idle, PullType, PC, Contents

(* Those that set another field with it. *)
LEMMA GotoWithType ==
  ASSUME TypeOK, NEW w \in Workers, NEW pc \in PC,
         \/ \E d \in {"none", "tag", "old"} :
              pull' = [pull EXCEPT ![w].pc = pc, ![w].digest = d]
         \/ \E c \in Contents : pull' = [pull EXCEPT ![w].pc = pc, ![w].got = c]
         \/ \E i \in Images : pull' = [pull EXCEPT ![w].pc = pc, ![w].image = i]
  PROVE  pull' \in [Workers -> PullType]
<1> DEFINE at == [pull[w] EXCEPT !.pc = pc]
<1>1. ASSUME NEW r \in PullType, pull' = [pull EXCEPT ![w] = r]
      PROVE  pull' \in [Workers -> PullType]
  BY <1>1 DEF TypeOK
<1>2. at \in PullType
  BY DEF TypeOK, PullType
<1> HIDE DEF at
<1>3. ASSUME NEW d \in {"none", "tag", "old"} PROVE [at EXCEPT !.digest = d] \in PullType
  BY <1>2 DEF PullType
<1>4. ASSUME NEW c \in Contents PROVE [at EXCEPT !.got = c] \in PullType
  BY <1>2 DEF PullType
<1>5. ASSUME NEW i \in Images PROVE [at EXCEPT !.image = i] \in PullType
  BY <1>2 DEF PullType
<1> QED
  BY <1>1, <1>3, <1>4, <1>5 DEF at, TypeOK

LEMMA DownloadedType ==
  ASSUME TypeOK, NEW w \in Workers, NEW what \in Contents, Downloaded(w, what)
  PROVE  pull' \in [Workers -> PullType]
<1>1. AfterBlobs(w) \in PC
  BY DEF AfterBlobs, PC
<1> QED
  BY <1>1, GotoWithType DEF Downloaded

(* A request goes out under some worker's puller, which it may refresh. *)
LEMMA RefreshedType ==
  ASSUME TypeOK, NEW w \in Workers
  PROVE  Refreshed(Owner(w)) \in [Workers -> PullerType]
<1>1. CASE Owner(w) \in Workers
  BY <1>1 DEF TypeOK, Refreshed, PullerType
<1>2. CASE Owner(w) = NoWorker
  BY <1>2 DEF TypeOK, Refreshed
<1> QED
  BY <1>1, <1>2 DEF Owner, TypeOK

LEMMA AskedType ==
  ASSUME TypeOK, NEW w \in Workers, Asked(w)
  PROVE  puller' \in [Workers -> PullerType] /\ faults' \in 0..MaxFaults
BY RefreshedType DEF Asked, TypeOK

LEMMA RefusedType ==
  ASSUME TypeOK, NEW w \in Workers, Refused(w) \/ Unanswered(w)
  PROVE  puller' \in [Workers -> PullerType] /\ faults' \in 0..MaxFaults
BY AskedType, FaultType DEF Refused, Unanswered, TypeOK

LEMMA PullTypeStep ==
  ASSUME TypeOK, NEW w \in Workers, Pull(w)
  PROVE  TypeOK'
<1> USE DEF PC
<1>0. pull[w] \in PullType /\ puller[w] \in PullerType
  BY DEF TypeOK
<1>1. CASE BuildRefused(w)
  BY <1>1, ReturnType DEF BuildRefused, TypeOK
<1>2. CASE NewPuller(w)
  <2>1. Built(w) \in PullerType
    BY <1>0 DEF Built, PullerType, PullType
  <2>2. pull' \in [Workers -> PullType]
    BY <1>2, GotoType DEF NewPuller
  <2>3. client' \in [Processes -> Workers \union {NoWorker}]
    BY <1>2 DEF NewPuller, TypeOK
  <2> QED
    BY <1>2, <2>1, <2>2, <2>3 DEF NewPuller, TypeOK
<1>3. CASE SetEndpoint(w)
  <2>1. pull' \in [Workers -> PullType]
    BY <1>3, GotoType DEF SetEndpoint
  <2>2. [puller[w] EXCEPT !.endpoint = TRUE] \in PullerType
    BY <1>0 DEF PullerType
  <2>3. puller' \in [Workers -> PullerType]
    BY <1>3, <2>2 DEF SetEndpoint, TypeOK
  <2> QED
    BY <1>3, <2>1, <2>3 DEF SetEndpoint, TypeOK
<1>4. CASE FirstToken(w)
  <2>1. pull' \in [Workers -> PullType]
    BY <1>4, GotoType, ReturnType DEF FirstToken
  <2>2. puller' \in [Workers -> PullerType]
    BY <1>4 DEF FirstToken, TypeOK, PullerType
  <2>3. faults' \in 0..MaxFaults
    BY <1>4, FaultType DEF FirstToken, TypeOK
  <2> QED
    BY <1>4, <2>1, <2>2, <2>3 DEF FirstToken, TypeOK
<1>5. CASE NoDigest(w)
  BY <1>5, GotoType DEF NoDigest, TypeOK
<1>6. CASE Check(w)
  <2>1. pull' \in [Workers -> PullType]
    <3>1. CASE Return(w)
      BY <3>1, ReturnType
    <3>2. CASE pull' = [pull EXCEPT ![w].pc = "manifest", ![w].digest = "tag"]
      BY <3>2, GotoWithType
    <3> QED
      BY <1>6, <3>1, <3>2 DEF Check
  <2>2. folder' \in [Images -> Contents]
    BY <1>6 DEF Check, TypeOK, Contents
  <2> QED
    BY <1>6, <2>1, <2>2, AskedType DEF Check, Granted, TypeOK
<1>7. CASE CheckFails(w)
  BY <1>7, ReturnType, RefusedType DEF CheckFails, TypeOK
<1>8. CASE Manifest(w)
  <2>1. pull' \in [Workers -> PullType]
    BY <1>8, GotoType, DownloadedType DEF Manifest, Contents
  <2> QED
    BY <1>8, <2>1, AskedType DEF Manifest, TypeOK
<1>9. CASE ManifestError(w)
  <2>1. puller' \in [Workers -> PullerType]
    BY <1>9, RefreshedType DEF ManifestError
  <2> QED
    BY <1>9, <2>1, DownloadedType, FaultType DEF ManifestError, Downloaded, Contents, TypeOK
<1>10. CASE Blobs(w)
  BY <1>10, DownloadedType, AskedType DEF Blobs, Granted, Downloaded, Contents, TypeOK
<1>11. CASE PullFails(w)
  BY <1>11, ReturnType, RefusedType DEF PullFails, TypeOK
<1>12. CASE Digest(w)
  <2>1. pull' \in [Workers -> PullType]
    BY <1>12, GotoWithType DEF Digest
  <2> QED
    BY <1>12, <2>1, AskedType DEF Digest, Granted, TypeOK
<1>13. CASE DigestFails(w)
  BY <1>13, ReturnType, RefusedType DEF DigestFails, TypeOK
<1>14. CASE WriteDigest(w)
  <2>1. pull' \in [Workers -> PullType]
    BY <1>14, ReturnType DEF WriteDigest
  <2>2. folder' \in [Images -> Contents] /\ current' \in [Images -> BOOLEAN]
    BY <1>0, <1>14 DEF WriteDigest, TypeOK, PullType
  <2> QED
    BY <1>14, <2>1, <2>2 DEF WriteDigest, TypeOK
<1> QED
  BY <1>1, <1>2, <1>3, <1>4, <1>5, <1>6, <1>7, <1>8, <1>9, <1>10, <1>11, <1>12, <1>13,
     <1>14 DEF Pull

LEMMA TypeStep == TypeOK /\ [Next]_vars => TypeOK'
<1> SUFFICES ASSUME TypeOK, [Next]_vars PROVE TypeOK'
  OBVIOUS
<1>1. ASSUME NEW w \in Workers, Expire(w) PROVE TypeOK'
  BY <1>1 DEF Expire, TypeOK, PullerType
<1>2. ASSUME NEW w \in Workers, NEW i \in Images, Begin(w, i) PROVE TypeOK'
  BY <1>2, GotoWithType DEF Begin, TypeOK, PC
<1>3. ASSUME NEW i \in Images, Retag(i) PROVE TypeOK'
  <2>1. faults' \in 0..MaxFaults
    BY <1>3, FaultType DEF Retag
  <2>2. pull' \in [Workers -> PullType]
    BY <1>3 DEF Retag, TypeOK, PullType
  <2> QED
    BY <1>3, <2>1, <2>2 DEF Retag, TypeOK
<1>4. CASE UNCHANGED vars
  BY <1>4 DEF vars, TypeOK
<1> QED
  BY <1>1, <1>2, <1>3, <1>4, PullTypeStep DEF Next

LEMMA TypeInit == Init => TypeOK
BY DEF Init, TypeOK, PullerType, PullType, PC, Idle, Contents

(* Every reachable state of the pullers is well typed: in particular a     *)
(* worker always has a place to go on from (puller.go, DownloadImage).     *)
THEOREM TypeCorrect == Spec => []TypeOK
  BY TypeInit, TypeStep, PTL DEF Spec

-----------------------------------------------------------------------------
(* One worker in each process, as the manager is started by default and as *)
(* `load` is.  Then the client a worker asks with is its own, from the     *)
(* moment it has built a puller to the end of its pull, and its requests   *)
(* are never refused for want of authority: what it decodes as a manifest  *)
(* is one, or an error that has nothing to do with its token.              *)

Alone == \A v, w \in Workers : Home[v] = Home[w] => v = w

Pulling == {"check", "manifest", "blobs", "digest", "write"}

OwnClient(w) ==
  pull[w].pc \in {"endpoint", "token"} \union Pulling =>
    client[Home[w]] = w /\ puller[w].image = pull[w].image

(* No error document comes with the right token. *)
Honest == "errorbody" \notin Faults

(* No refusal has been decoded, and an error only where there are some. *)
Taken(what) == what # "refusal" /\ (Honest => what # "error")

HasLayers(w) ==
  /\ Taken(pull[w].got)
  /\ pull[w].pc \in {"digest", "write"} => pull[w].got # "none"

IInv ==
  /\ TypeOK
  /\ \A w \in Workers : OwnClient(w) /\ HasLayers(w)
  /\ \A i \in Images : Taken(folder[i])

(* A request leaves every puller its image. *)
LEMMA AskKeepsImages ==
  ASSUME TypeOK, NEW w \in Workers,
         Asked(w) \/ Refused(w) \/ Unanswered(w) \/ puller' = Refreshed(Owner(w)),
         NEW v \in Workers
  PROVE  puller'[v].image = puller[v].image
<1>1. CASE puller' = Refreshed(Owner(w))
  BY <1>1 DEF Refreshed, TypeOK, PullerType
<1> QED
  BY <1>1 DEF Refused, Unanswered, Asked

(* Between building its puller and the end of its pull, a worker that is   *)
(* alone in its process asks with its own token.                           *)
LEMMA AskedAuthorised ==
  ASSUME IInv, NEW w \in Workers, pull[w].pc \in Pulling
  PROVE  Authorised(w)
<1>1. Owner(w) = w /\ puller[w].image = pull[w].image
  BY DEF IInv, OwnClient, Pulling, Owner
<1>2. Refreshed(w)[w].token = "valid"
  BY DEF Refreshed, IInv, TypeOK, PullerType
<1> QED
  BY <1>1, <1>2 DEF Authorised

(* What a step of w does to the other workers, which are in other          *)
(* processes: nothing they could notice.                                   *)
LEMMA OthersKept ==
  ASSUME Alone, IInv, NEW w \in Workers, Pull(w), NEW v \in Workers, v # w
  PROVE  pull'[v] = pull[v] /\ client'[Home[v]] = client[Home[v]]
           /\ puller'[v].image = puller[v].image
<1>1. pull'[v] = pull[v]
  BY DEF IInv, TypeOK, Pull, BuildRefused, NewPuller, SetEndpoint, FirstToken, NoDigest, Check,
         CheckFails, Manifest, ManifestError, Blobs, PullFails, Digest, DigestFails, WriteDigest, Goto, Return, Downloaded
<1>2. client'[Home[v]] = client[Home[v]]
  <2>1. CASE NewPuller(w)
    BY <2>1 DEF NewPuller, Alone, IInv, TypeOK
  <2> QED
    BY <2>1 DEF Pull, BuildRefused, SetEndpoint, FirstToken, NoDigest, Check,
         CheckFails, Manifest, ManifestError, Blobs, PullFails, Digest, DigestFails, WriteDigest, Downloaded
<1>3. puller'[v].image = puller[v].image
  <2>1. CASE NewPuller(w) \/ SetEndpoint(w) \/ FirstToken(w)
    BY <2>1 DEF NewPuller, SetEndpoint, FirstToken, IInv, TypeOK
  <2>2. CASE puller' = puller
    BY <2>2
  <2> QED
    BY <2>1, <2>2, AskKeepsImages
       DEF Pull, BuildRefused, NoDigest, Check, CheckFails, Manifest, ManifestError, Blobs, PullFails,
           Digest, DigestFails, WriteDigest, Granted, Downloaded, IInv
<1> QED
  BY <1>1, <1>2, <1>3

LEMMA PullStep ==
  ASSUME Alone, IInv, NEW w \in Workers, Pull(w)
  PROVE  IInv'
<1>1. TypeOK'
  BY PullTypeStep DEF IInv
<1>2. ASSUME NEW v \in Workers, v # w PROVE OwnClient(v)' /\ HasLayers(v)'
  BY <1>2, OthersKept DEF IInv, OwnClient, HasLayers
<1>3. OwnClient(w)' /\ HasLayers(w)'
  <2>0. pull[w] \in PullType /\ OwnClient(w) /\ HasLayers(w)
    BY DEF IInv, TypeOK
  <2>1. CASE Return(w)
    BY <2>1 DEF Return, Idle, IInv, TypeOK, OwnClient, HasLayers, Taken, Pulling
  <2>2. CASE NewPuller(w)
    BY <2>2 DEF NewPuller, Goto, Built, IInv, TypeOK, OwnClient, HasLayers, Pulling
  <2>3. CASE SetEndpoint(w)
    <3>1. puller'[w].image = puller[w].image
      BY <2>3 DEF SetEndpoint, IInv, TypeOK, PullerType
    <3> QED
      BY <2>3, <3>1 DEF SetEndpoint, At, Goto, IInv, TypeOK, OwnClient, HasLayers, Pulling
  <2>4. CASE FirstToken(w)
    <3>1. puller'[w].image = puller[w].image
      BY <2>4 DEF FirstToken, IInv, TypeOK, PullerType
    <3>2. CASE Goto(w, "check")
      <4>1. pull'[w].pc = "check" /\ pull'[w].image = pull[w].image /\ pull'[w].got = pull[w].got
        BY <3>2 DEF Goto, IInv, TypeOK, PullType
      <4> QED
        BY <2>0, <2>4, <3>1, <4>1 DEF FirstToken, At, OwnClient, HasLayers, Pulling
    <3> QED
      BY <2>1, <2>4, <3>2 DEF FirstToken
  <2>5. CASE NoDigest(w)
    BY <2>5 DEF NoDigest, At, Goto, IInv, TypeOK, OwnClient, HasLayers, Pulling
  <2>6. CASE Check(w)
    <3>1. puller'[w].image = puller[w].image
      BY <2>6, AskKeepsImages DEF Check, Granted, IInv
    <3>2. CASE pull' = [pull EXCEPT ![w].pc = "manifest", ![w].digest = "tag"]
      <4>1. pull'[w].pc = "manifest" /\ pull'[w].image = pull[w].image /\ pull'[w].got = pull[w].got
        BY <3>2, <2>0 DEF IInv, TypeOK, PullType
      <4> QED
        BY <2>0, <2>6, <3>1, <4>1 DEF Check, At, OwnClient, HasLayers, Pulling
    <3> QED
      BY <2>1, <2>6, <3>2 DEF Check
  <2>7. CASE Manifest(w)
    <3>1. puller'[w].image = puller[w].image
      BY <2>7, AskKeepsImages DEF Manifest, IInv
    <3>2. Authorised(w)
      BY <2>7, AskedAuthorised DEF Manifest, At, Pulling
    <3>3. pull'[w].pc = "blobs" /\ pull'[w].image = pull[w].image /\ pull'[w].got = pull[w].got
      BY <2>7, <3>2 DEF Manifest, Goto, IInv, TypeOK, PullType
    <3> QED
      BY <2>0, <2>7, <3>1, <3>3 DEF Manifest, At, OwnClient, HasLayers, Pulling
  <2>8. ASSUME NEW what \in {"layers", "error"}, Taken(what), Downloaded(w, what),
                pull[w].pc \in {"manifest", "blobs"}, puller'[w].image = puller[w].image,
                UNCHANGED client
         PROVE  OwnClient(w)' /\ HasLayers(w)'
    <3>1. pull'[w] = [pull[w] EXCEPT !.pc = AfterBlobs(w), !.got = what]
      BY <2>8 DEF Downloaded, IInv, TypeOK
    <3>2. pull'[w].pc \in {"digest", "write"} /\ pull'[w].image = pull[w].image /\ pull'[w].got = what
      BY <2>0, <3>1 DEF PullType, AfterBlobs
    <3> QED
      BY <2>0, <2>8, <3>2 DEF Downloaded, OwnClient, HasLayers, Pulling
  <2>9. CASE ManifestError(w)
    <3>1. Taken("error")
      BY <2>9 DEF ManifestError, Fault, Taken, Honest
    <3> QED
      BY <2>8, <2>9, <3>1, AskKeepsImages DEF ManifestError, At, IInv
  <2>10. CASE Blobs(w)
    <3>1. Taken("layers")
      BY DEF Taken
    <3> QED
      BY <2>8, <2>10, <3>1, AskKeepsImages DEF Blobs, Granted, At, IInv
  <2>11. CASE Digest(w)
    BY <2>11, AskKeepsImages
       DEF Digest, Granted, At, IInv, TypeOK, OwnClient, HasLayers, Pulling
  <2> QED
    BY <2>1, <2>2, <2>3, <2>4, <2>5, <2>6, <2>7, <2>9, <2>10, <2>11
       DEF Pull, BuildRefused, CheckFails, PullFails, DigestFails, WriteDigest
<1>4. \A i \in Images : Taken(folder'[i])
  <2>1. CASE WriteDigest(w)
    BY <2>1 DEF WriteDigest, IInv, HasLayers, TypeOK
  <2>2. CASE Check(w)
    BY <2>2 DEF Check, IInv, Taken, TypeOK
  <2>3. CASE UNCHANGED folder
    BY <2>3 DEF IInv
  <2> QED
    BY <2>1, <2>2, <2>3
       DEF Pull, BuildRefused, NewPuller, SetEndpoint, FirstToken, NoDigest, CheckFails, Manifest,
           ManifestError, Blobs, PullFails, Digest, DigestFails, Downloaded
<1> QED
  BY <1>1, <1>2, <1>3, <1>4 DEF IInv

LEMMA IInvStep ==
  ASSUME Alone
  PROVE  IInv /\ [Next]_vars => IInv'
<1> SUFFICES ASSUME IInv, [Next]_vars PROVE IInv'
  OBVIOUS
<1>0. TypeOK'
  BY TypeStep DEF IInv
<1>1. ASSUME NEW w \in Workers, Expire(w) PROVE IInv'
  <2>1. ASSUME NEW v \in Workers PROVE puller'[v].image = puller[v].image
    BY <1>1 DEF Expire, IInv, TypeOK, PullerType
  <2> QED
    BY <1>0, <1>1, <2>1 DEF Expire, IInv, OwnClient, HasLayers, Taken
<1>2. ASSUME NEW w \in Workers, NEW i \in Images, Begin(w, i) PROVE IInv'
  <2>1. ASSUME NEW v \in Workers 
        PROVE  \/ pull'[v] = pull[v]
               \/ pull'[v].pc = "new" /\ pull'[v].got = pull[v].got
    BY <1>2 DEF Begin, IInv, TypeOK, PullType
  <2> QED
    <3>1. ASSUME NEW v \in Workers PROVE OwnClient(v)' /\ HasLayers(v)'
      <4>1. OwnClient(v) /\ HasLayers(v)
        BY DEF IInv
      <4>2. CASE pull'[v] = pull[v]
        BY <1>2, <4>1, <4>2 DEF Begin, OwnClient, HasLayers
      <4>3. CASE pull'[v].pc = "new" /\ pull'[v].got = pull[v].got
        BY <4>1, <4>3 DEF OwnClient, HasLayers, Pulling
      <4> QED
        BY <2>1, <4>2, <4>3
    <3> QED
      BY <1>0, <1>2, <3>1 DEF Begin, IInv, Taken
<1>3. ASSUME NEW i \in Images, Retag(i) PROVE IInv'
  <2>1. ASSUME NEW v \in Workers
        PROVE  pull'[v].pc = pull[v].pc /\ pull'[v].image = pull[v].image
                 /\ pull'[v].got = pull[v].got
    BY <1>3 DEF Retag, IInv, TypeOK, PullType
  <2> QED
    BY <1>0, <1>3, <2>1 DEF Retag, IInv, OwnClient, HasLayers, Taken
<1>4. CASE UNCHANGED vars
  BY <1>0, <1>4 DEF vars, IInv, OwnClient, HasLayers, Taken
<1> QED
  BY <1>1, <1>2, <1>3, <1>4, PullStep DEF Next

LEMMA IInvInit == Init => IInv
<1> SUFFICES ASSUME Init PROVE IInv
  OBVIOUS
<1>1. \A w \in Workers : pull[w].pc = "idle" /\ pull[w].got = "none"
  BY DEF Init, Idle
<1> QED
  BY <1>1, TypeInit DEF Init, IInv, OwnClient, HasLayers, Taken, Pulling

LEMMA IInvHolds == ASSUME Alone PROVE Spec => []IInv
  BY IInvInit, IInvStep, PTL DEF Spec

(* With one worker in each process every request goes out with the token   *)
(* of the pull that makes it (puller.go, httpClient and newImagePuller),   *)
(* whatever expires, fails or moves meanwhile.                             *)
THEOREM AsksWithOwnTokenHolds ==
  ASSUME Alone
  PROVE  Spec => []AsksWithOwnToken
<1>1. IInv => AsksWithOwnToken
  BY DEF IInv, OwnClient, AsksWithOwnToken, Owner, Pulling
<1> QED
  BY <1>1, IInvHolds, PTL

(* With one worker in each process no refusal for want of authority is     *)
(* ever decoded as a manifest and ends under a digest file (puller.go,     *)
(* getImageBlobs, DownloadImage), whatever expires, fails or moves.        *)
THEOREM NoRefusalTakenHolds ==
  ASSUME Alone
  PROVE  Spec => []NoRefusalTaken
<1>1. IInv => NoRefusalTaken
  BY DEF IInv, NoRefusalTaken, Taken
<1> QED
  BY <1>1, IInvHolds, PTL

(* If the registry moreover answers no authorised request for a manifest   *)
(* with an error document, every digest file stands over a folder that has *)
(* got its layers (puller.go, DownloadImage, getImageBlobs).               *)
THEOREM NoHollowImageHolds ==
  ASSUME Alone, Honest
  PROVE  Spec => []NoHollowImage
<1>1. IInv => NoHollowImage
  BY DEF IInv, NoHollowImage, Taken, TypeOK, Contents
<1> QED
  BY <1>1, IInvHolds, PTL
=============================================================================
