--------------------------- MODULE ImagePullProofs ---------------------------
(***************************************************************************)
(* Proofs about ImagePull, for every set of versions and any number of     *)
(* faults.                                                                 *)
(***************************************************************************)
EXTENDS ImagePull, TLAPS

USE FaultsAssumption

-----------------------------------------------------------------------------
(* Types. *)

LEMMA FaultType ==
  ASSUME TypeOK, NEW kind, Fault(kind)
  PROVE  faults' \in 0..MaxFaults
BY DEF TypeOK, Fault

LEMMA RefusedType ==
  ASSUME TypeOK, NEW cond, NEW kind, Refused(cond, kind)
  PROVE  faults' \in 0..MaxFaults
BY FaultType DEF TypeOK, Refused

LEMMA FreshType == Fresh \in PullerType
BY DEF Fresh, PullerType, PC, BlobState, OpState, Nothing, Whole, Image, Content, Entries

(* A puller steps: it becomes another record of the type. *)
LEMMA PullerStep ==
  ASSUME TypeOK, NEW w \in Pullers, NEW r \in PullerType, p' = [p EXCEPT ![w] = r]
  PROVE  p' \in [Pullers -> PullerType]
BY DEF TypeOK

LEMMA GotoType ==
  ASSUME TypeOK, NEW w \in Pullers, NEW pc \in PC, Goto(w, pc)
  PROVE  p' \in [Pullers -> PullerType]
<1>0. p[w] \in PullerType
  BY DEF TypeOK
<1>1. [p[w] EXCEPT !.pc = pc] \in PullerType
  BY <1>0 DEF PullerType
<1>2. p' = [p EXCEPT ![w] = [p[w] EXCEPT !.pc = pc]]
  BY DEF TypeOK, PullerType, Goto
<1> QED
  BY <1>1, <1>2, PullerStep

LEMMA SetBlobType ==
  ASSUME TypeOK, NEW w \in Pullers, NEW l \in Layers, NEW state \in BlobState,
         SetBlob(w, l, state)
  PROVE  p' \in [Pullers -> PullerType]
<1> DEFINE blob == [p[w].blob EXCEPT ![l] = state]
<1>0. p[w] \in PullerType
  BY DEF TypeOK
<1>1. blob \in [Layers -> BlobState]
  BY <1>0 DEF PullerType
<1> HIDE DEF blob
<1>2. [p[w] EXCEPT !.blob = blob] \in PullerType
  BY <1>0, <1>1 DEF PullerType
<1>3. p' = [p EXCEPT ![w] = [p[w] EXCEPT !.blob = blob]]
  BY <1>0 DEF blob, TypeOK, PullerType, SetBlob
<1> QED
  BY <1>2, <1>3, PullerStep

LEMMA ReturnType ==
  ASSUME TypeOK, NEW w \in Pullers, Return(w)
  PROVE  /\ p' \in [Pullers -> PullerType]
         /\ images' \subseteq Image /\ condemned' \subseteq images'
         /\ alias' \in images' \union {None}
<1>1. images' \in {images, images \union {p[w].obj}}
  BY DEF Return, Abandoned
<1>2. p[w].obj \in Image
  BY DEF TypeOK, PullerType
<1>3. p' \in [Pullers -> PullerType]
  BY FreshType, PullerStep DEF Return
<1> QED
  BY <1>1, <1>2, <1>3 DEF TypeOK, Return

LEMMA CleanTypeStep ==
  ASSUME TypeOK, NEW w \in Pullers,
         Start(w) \/ ListImages(w) \/ DeleteFound(w) \/ Cleaned(w)
  PROVE  TypeOK'
<1> USE DEF PC
<1>1. CASE Start(w) \/ Cleaned(w)
  BY <1>1, GotoType DEF Start, Cleaned, lxdVars, TypeOK
<1>2. CASE ListImages(w)
  <2>1. p' \in [Pullers -> PullerType]
    <3>1. CASE p' = [p EXCEPT ![w].pc = "clean", ![w].found = Unused]
      <4>1. Unused \in SUBSET Image /\ p[w] \in PullerType
        BY DEF Unused, TypeOK
      <4>2. [p[w] EXCEPT !.pc = "clean", !.found = Unused] \in PullerType
        BY <4>1 DEF PullerType
      <4>3. p' = [p EXCEPT ![w] = [p[w] EXCEPT !.pc = "clean", !.found = Unused]]
        BY <3>1 DEF TypeOK, PullerType
      <4> QED
        BY <4>2, <4>3, PullerStep
    <3>2. CASE Goto(w, "check")
      BY <3>2, GotoType
    <3> QED
      BY <1>2, <3>1, <3>2 DEF ListImages
  <2>2. faults' \in 0..MaxFaults
    BY <1>2, FaultType DEF ListImages, TypeOK
  <2> QED
    BY <1>2, <2>1, <2>2 DEF ListImages, lxdVars, TypeOK
<1>3. CASE DeleteFound(w)
  <2>1. PICK c \in p[w].found :
          /\ p' = [p EXCEPT ![w].found = @ \ {c}]
          /\ \/ condemned' = condemned \union ({c} \intersect images) /\ UNCHANGED faults
             \/ Fault("lxd") /\ UNCHANGED condemned
    BY <1>3 DEF DeleteFound
  <2>2. p[w] \in PullerType /\ p[w].found \in SUBSET Image
    BY DEF TypeOK, PullerType
  <2>3. [p[w] EXCEPT !.found = p[w].found \ {c}] \in PullerType
    BY <2>2 DEF PullerType
  <2>4. p' = [p EXCEPT ![w] = [p[w] EXCEPT !.found = p[w].found \ {c}]]
    BY <2>1 DEF TypeOK, PullerType
  <2>5. p' \in [Pullers -> PullerType]
    BY <2>3, <2>4, PullerStep
  <2>6. condemned' \subseteq images /\ faults' \in 0..MaxFaults
    BY <2>1, FaultType DEF TypeOK
  <2> QED
    BY <1>3, <2>5, <2>6 DEF DeleteFound, TypeOK
<1> QED
  BY <1>1, <1>2, <1>3

LEMMA CheckTypeStep ==
  ASSUME TypeOK, NEW w \in Pullers,
         \/ NoDigest(w) \/ CompareDigest(w) \/ CompareDigestFails(w)
         \/ Mkdir(w) \/ MkdirFails(w)
  PROVE  TypeOK'
<1> USE DEF PC, lxdVars
<1>1. CASE NoDigest(w)
  BY <1>1, GotoType DEF NoDigest, TypeOK
<1>2. CASE CompareDigest(w)
  <2> DEFINE pc == IF disk.digest = tag THEN "walk" ELSE "wipe"
  <2>0. p[w] \in PullerType /\ tag \in Versions /\ pc \in PC
    BY DEF TypeOK
  <2> HIDE DEF pc
  <2>1. [p[w] EXCEPT !.want = tag, !.pc = pc] \in PullerType
    BY <2>0 DEF PullerType
  <2>2. p' = [p EXCEPT ![w] = [p[w] EXCEPT !.want = tag, !.pc = pc]]
    BY <1>2 DEF pc, CompareDigest, TypeOK, PullerType
  <2>3. p' \in [Pullers -> PullerType]
    BY <2>1, <2>2, PullerStep
  <2> QED
    BY <1>2, <2>3 DEF CompareDigest, TypeOK
<1>3. CASE CompareDigestFails(w) \/ MkdirFails(w)
  BY <1>3, ReturnType, FaultType DEF CompareDigestFails, MkdirFails, Return, TypeOK
<1>4. CASE Mkdir(w)
  <2>1. [disk EXCEPT !.folder = TRUE]
          \in [folder : BOOLEAN, digest : Content, file : [Layers -> Content]]
    BY DEF TypeOK
  <2> QED
    BY <1>4, <2>1, GotoType DEF Mkdir, TypeOK
<1> QED
  BY <1>1, <1>2, <1>3, <1>4

(* The puller that removes takes entries off its list, and the others may  *)
(* lose a file.                                                            *)
LEMMA WipeTypeStep ==
  ASSUME TypeOK, NEW w \in Pullers,
         \/ RemoveDigest(w) \/ RemoveFolder(w) \/ RemoveFails(w)
         \/ \E l \in Layers : RemoveLayer(w, l)
  PROVE  TypeOK'
<1> USE DEF lxdVars
<1>0. /\ \A v \in Pullers : p[v] \in PullerType
      /\ disk \in [folder : BOOLEAN, digest : Content, file : [Layers -> Content]]
      /\ None \in Content
  BY DEF TypeOK, Content
<1>1. ASSUME NEW e
      PROVE  [p[w] EXCEPT !.left = @ \ {e}] \in PullerType
  BY <1>0 DEF PullerType
<1>2. CASE RemoveDigest(w)
  <2>1. [disk EXCEPT !.digest = None]
          \in [folder : BOOLEAN, digest : Content, file : [Layers -> Content]]
    BY <1>0
  <2>2. p' = [p EXCEPT ![w] = [p[w] EXCEPT !.left = @ \ {"digest"}]]
    BY <1>0, <1>2 DEF RemoveDigest, TypeOK, PullerType
  <2>3. p' \in [Pullers -> PullerType]
    BY <1>1, <2>2, PullerStep
  <2> QED
    BY <1>2, <2>1, <2>3 DEF RemoveDigest, TypeOK
<1>3. ASSUME NEW l \in Layers, RemoveLayer(w, l)
      PROVE  TypeOK'
  <2>1. [disk EXCEPT !.file[l] = None]
          \in [folder : BOOLEAN, digest : Content, file : [Layers -> Content]]
    BY <1>0
  <2>2. ASSUME NEW v \in Pullers
        PROVE  [p[v] EXCEPT !.blob = Orphaned(@, l)] \in PullerType
    <3>1. Orphaned(p[v].blob, l) \in [Layers -> BlobState]
      BY <1>0 DEF Orphaned, BlobState, PullerType
    <3> QED
      BY <1>0, <3>1 DEF PullerType
  <2>3. p' \in [Pullers -> PullerType]
    BY <1>1, <1>3, <2>2 DEF RemoveLayer
  <2> QED
    BY <1>3, <2>1, <2>3 DEF RemoveLayer, TypeOK
<1>4. CASE RemoveFolder(w)
  <2>1. disk' \in [folder : BOOLEAN, digest : Content, file : [Layers -> Content]]
    BY <1>0, <1>4 DEF RemoveFolder, NoFolder, Nothing, Whole
  <2> QED
    BY <1>4, <2>1, GotoType DEF RemoveFolder, PC, TypeOK
<1>5. CASE RemoveFails(w)
  BY <1>5, GotoType, RefusedType DEF RemoveFails, PC, TypeOK
<1> QED
  BY <1>2, <1>3, <1>4, <1>5

(* What a file holds while it is written, and after. *)
LEMMA WrittenType ==
  ASSUME TypeOK, NEW w \in Pullers, NEW l \in Layers, p[w].man \in Content,
         NEW c \in Written(w, l)
  PROVE  c \in Content
BY DEF Written, Content

LEMMA FileType ==
  ASSUME TypeOK, NEW l \in Layers, NEW c \in Content, disk' = [disk EXCEPT !.file[l] = c]
  PROVE  disk' \in [folder : BOOLEAN, digest : Content, file : [Layers -> Content]]
BY DEF TypeOK

LEMMA DigestType ==
  ASSUME TypeOK, NEW c \in Content, disk' = [disk EXCEPT !.digest = c]
  PROVE  disk' \in [folder : BOOLEAN, digest : Content, file : [Layers -> Content]]
BY DEF TypeOK

LEMMA BlobTypeStep ==
  ASSUME TypeOK, NEW w \in Pullers, NEW l \in Layers,
         \/ BlobBegins(w, l) \/ BlobWritten(w, l) \/ BlobEnds(w, l) \/ BlobFails(w, l)
         \/ Collect(w, l)
  PROVE  TypeOK'
<1> USE DEF BlobState, lxdVars
<1>0. p[w] \in PullerType /\ p[w].man \in Content
  BY DEF TypeOK, PullerType, Content
<1>1. CASE BlobBegins(w, l)
  <2>1. p' \in [Pullers -> PullerType]
    BY <1>1, SetBlobType DEF BlobBegins
  <2>2. disk' = [disk EXCEPT !.file[l] = IF disk.file[l] = p[w].man THEN disk.file[l] ELSE Torn]
    BY <1>1 DEF BlobBegins
  <2>3. (IF disk.file[l] = p[w].man THEN disk.file[l] ELSE Torn) \in Content
    BY <1>0 DEF Content
  <2>4. disk' \in [folder : BOOLEAN, digest : Content, file : [Layers -> Content]]
    BY <2>2, <2>3, FileType
  <2> QED
    BY <1>1, <2>1, <2>4 DEF BlobBegins, TypeOK
<1>2. CASE BlobWritten(w, l)
  <2> DEFINE blob == [p[w].blob EXCEPT ![l] = "append"]
             seen == [p[w].seen EXCEPT ![l] = IF Racy THEN p[w].names ELSE {}]
  <2>1. blob \in [Layers -> BlobState] /\ seen \in [Layers -> SUBSET Layers]
    BY <1>0 DEF PullerType
  <2>2. p' = [p EXCEPT ![w] = [p[w] EXCEPT !.blob = blob, !.seen = seen]]
    BY <1>0, <1>2 DEF BlobWritten, TypeOK, PullerType
  <2> HIDE DEF blob, seen
  <2>3. [p[w] EXCEPT !.blob = blob, !.seen = seen] \in PullerType
    BY <1>0, <2>1 DEF PullerType
  <2>4. p' \in [Pullers -> PullerType]
    BY <2>2, <2>3, PullerStep
  <2>5. disk' \in [folder : BOOLEAN, digest : Content, file : [Layers -> Content]]
    <3>1. CASE \E c \in Written(w, l) : disk' = [disk EXCEPT !.file[l] = c]
      BY <1>0, <3>1, WrittenType, FileType
    <3>2. CASE UNCHANGED disk
      BY <3>2 DEF TypeOK
    <3> QED
      BY <1>2, <3>1, <3>2 DEF BlobWritten
  <2> QED
    BY <1>2, <2>4, <2>5 DEF BlobWritten, TypeOK
<1>3. CASE BlobEnds(w, l)
  <2> DEFINE blob == [p[w].blob EXCEPT ![l] = "done"]
             names == NamesKept(w, l) \union {l}
  <2>1. blob \in [Layers -> BlobState] /\ names \in SUBSET Layers
    BY <1>0 DEF NamesKept, PullerType
  <2>2. p' = [p EXCEPT ![w] = [p[w] EXCEPT !.blob = blob, !.names = names]]
    BY <1>0, <1>3 DEF BlobEnds, TypeOK, PullerType
  <2> HIDE DEF blob, names
  <2>3. [p[w] EXCEPT !.blob = blob, !.names = names] \in PullerType
    BY <1>0, <2>1 DEF PullerType
  <2>4. p' \in [Pullers -> PullerType]
    BY <2>2, <2>3, PullerStep
  <2> QED
    BY <1>3, <2>4 DEF BlobEnds, TypeOK
<1>4. CASE BlobFails(w, l) \/ Collect(w, l)
  <2>1. p' \in [Pullers -> PullerType]
    BY <1>4, SetBlobType DEF BlobFails, Collect
  <2>2. faults' \in 0..MaxFaults
    BY <1>4, FaultType DEF BlobFails, Refused, Collect, TypeOK
  <2> QED
    BY <1>4, <2>1, <2>2 DEF BlobFails, Collect, TypeOK
<1> QED
  BY <1>1, <1>2, <1>3, <1>4

LEMMA DownloadTypeStep ==
  ASSUME TypeOK, NEW w \in Pullers,
         \/ GetManifest(w) \/ GetManifestFails(w) \/ GetErrorBody(w) \/ SomeFailed(w) \/ Tally(w)
         \/ GetDigest(w) \/ WriteDigest(w) \/ WalkFolder(w)
  PROVE  TypeOK'
<1> USE DEF PC, lxdVars
<1>0. p[w] \in PullerType
  BY DEF TypeOK
<1>1. CASE GetManifest(w)
  <2> DEFINE blob == [l \in Layers |-> "todo"]
  <2>1. blob \in [Layers -> BlobState] /\ tag \in Versions
    BY DEF BlobState, TypeOK
  <2>2. p' = [p EXCEPT ![w] = [p[w] EXCEPT !.man = tag, !.pc = "blobs", !.blob = blob]]
    BY <1>0, <1>1 DEF GetManifest, TypeOK, PullerType
  <2> HIDE DEF blob
  <2>3. [p[w] EXCEPT !.man = tag, !.pc = "blobs", !.blob = blob] \in PullerType
    BY <1>0, <2>1 DEF PullerType
  <2>4. p' \in [Pullers -> PullerType]
    BY <2>2, <2>3, PullerStep
  <2> QED
    BY <1>1, <2>4 DEF GetManifest, TypeOK
<1>2. CASE GetManifestFails(w) \/ SomeFailed(w)
  BY <1>2, ReturnType, FaultType DEF GetManifestFails, SomeFailed, Return, TypeOK
<1>3. CASE GetErrorBody(w) \/ Tally(w)
  BY <1>3, GotoType, FaultType DEF GetErrorBody, Tally, TypeOK
<1>4. CASE GetDigest(w)
  <2>1. p' \in [Pullers -> PullerType]
    <3>1. CASE p' = [p EXCEPT ![w].want = tag, ![w].pc = "write"]
      <4>1. tag \in Versions
        BY DEF TypeOK
      <4>2. [p[w] EXCEPT !.want = tag, !.pc = "write"] \in PullerType
        BY <1>0, <4>1 DEF PullerType
      <4>3. p' = [p EXCEPT ![w] = [p[w] EXCEPT !.want = tag, !.pc = "write"]]
        BY <1>0, <3>1 DEF TypeOK, PullerType
      <4> QED
        BY <4>2, <4>3, PullerStep
    <3>2. CASE Goto(w, "import")
      BY <3>2, GotoType
    <3> QED
      BY <1>4, <3>1, <3>2 DEF GetDigest
  <2> QED
    BY <1>4, <2>1, FaultType DEF GetDigest, TypeOK
<1>5. CASE WriteDigest(w)
  <2>1. p[w].want \in Content /\ Torn \in Content
    BY <1>0 DEF PullerType, Content
  <2>2. disk' \in [folder : BOOLEAN, digest : Content, file : [Layers -> Content]]
    <3>1. CASE UNCHANGED disk
      BY <3>1 DEF TypeOK
    <3>2. CASE disk' = [disk EXCEPT !.digest = p[w].want] \/ disk' = [disk EXCEPT !.digest = Torn]
      BY <2>1, <3>2, DigestType
    <3> QED
      BY <1>5, <3>1, <3>2 DEF WriteDigest
  <2>3. p' \in [Pullers -> PullerType] /\ faults' \in 0..MaxFaults
    BY <1>5, GotoType, FaultType DEF WriteDigest, TypeOK
  <2> QED
    BY <1>5, <2>2, <2>3 DEF WriteDigest, TypeOK
<1>6. CASE WalkFolder(w)
  <2> DEFINE names == {l \in Layers : disk.file[l] # None}
  <2>1. names \in SUBSET Layers
    OBVIOUS
  <2>2. p' = [p EXCEPT ![w] = [p[w] EXCEPT !.pc = "import", !.names = names]]
    BY <1>0, <1>6 DEF WalkFolder, TypeOK, PullerType
  <2> HIDE DEF names
  <2>3. [p[w] EXCEPT !.pc = "import", !.names = names] \in PullerType
    BY <1>0, <2>1 DEF PullerType
  <2>4. p' \in [Pullers -> PullerType]
    BY <2>2, <2>3, PullerStep
  <2> QED
    BY <1>6, <2>4 DEF WalkFolder, TypeOK
<1> QED
  BY <1>1, <1>2, <1>3, <1>4, <1>5, <1>6

LEMMA ImportTypeStep ==
  ASSUME TypeOK, NEW w \in Pullers,
         \/ CreateImage(w) \/ CreateImageFails(w) \/ SeeFingerprint(w) \/ OperationLost(w)
         \/ DropAlias(w) \/ DropAliasFails(w) \/ SetAlias(w) \/ SetAliasFails(w)
         \/ ImportSucceeds(w) \/ ImportFails(w) \/ OperationExpires(w)
  PROVE  TypeOK'
<1> USE DEF PC, lxdVars
<1>0. p[w] \in PullerType
  BY DEF TypeOK
<1>1. CASE CreateImage(w)
  <2>1. Upload(w) \in Image
    BY DEF Upload, Image, Content, TypeOK
  <2>2. p' = [p EXCEPT ![w] = [p[w] EXCEPT !.pc = "poll", !.obj = Upload(w), !.op = "running"]]
    BY <1>0, <1>1 DEF CreateImage, TypeOK, PullerType
  <2>3. [p[w] EXCEPT !.pc = "poll", !.obj = Upload(w), !.op = "running"] \in PullerType
    BY <1>0, <2>1 DEF PullerType, OpState
  <2>4. p' \in [Pullers -> PullerType]
    BY <2>2, <2>3, PullerStep
  <2> QED
    BY <1>1, <2>4 DEF CreateImage, TypeOK
<1>2. CASE CreateImageFails(w) \/ OperationLost(w) \/ DropAliasFails(w) \/ SetAliasFails(w)
  <2>1. faults' \in 0..MaxFaults /\ Return(w)
    BY <1>2, FaultType, RefusedType
       DEF CreateImageFails, OperationLost, DropAliasFails, SetAliasFails
  <2>2. UNCHANGED tag
    BY <1>2 DEF CreateImageFails, OperationLost, DropAliasFails, SetAliasFails
  <2> QED
    BY <2>1, <2>2, ReturnType DEF Return, TypeOK
<1>3. CASE SeeFingerprint(w) \/ DropAlias(w)
  BY <1>3, GotoType, FaultType DEF SeeFingerprint, DropAlias, TypeOK
<1>4. CASE SetAlias(w)
  <2>1. p' \in [Pullers -> PullerType]
    BY <1>4, FreshType, PullerStep DEF SetAlias
  <2> QED
    BY <1>4, <2>1 DEF SetAlias, CanAlias, TypeOK
<1>5. ASSUME NEW op \in OpState, p' = [p EXCEPT ![w].op = op]
      PROVE  p' \in [Pullers -> PullerType]
  <2>1. [p[w] EXCEPT !.op = op] \in PullerType
    BY <1>0 DEF PullerType
  <2>2. p' = [p EXCEPT ![w] = [p[w] EXCEPT !.op = op]]
    BY <1>0, <1>5 DEF TypeOK, PullerType
  <2> QED
    BY <2>1, <2>2, PullerStep
<1>6. CASE ImportSucceeds(w) \/ ImportFails(w) \/ OperationExpires(w)
  <2>1. p' \in [Pullers -> PullerType]
    BY <1>5, <1>6 DEF ImportSucceeds, ImportFails, OperationExpires, OpState
  <2>2. p[w].obj \in Image
    BY <1>0 DEF PullerType
  <2>3. faults' \in 0..MaxFaults
    BY <1>6, FaultType, RefusedType DEF ImportSucceeds, ImportFails, OperationExpires, TypeOK
  <2> QED
    BY <1>6, <2>1, <2>2, <2>3 DEF ImportSucceeds, ImportFails, OperationExpires, TypeOK
<1> QED
  BY <1>1, <1>2, <1>3, <1>4, <1>6

LEMMA WorldTypeStep ==
  ASSUME TypeOK,
         \/ \E c \in condemned : DeletionEnds(c) \/ DeletionFails(c)
         \/ Retag \/ Crash
  PROVE  TypeOK'
<1> USE DEF lxdVars
<1>1. ASSUME NEW c \in condemned, DeletionEnds(c) \/ DeletionFails(c)
      PROVE  TypeOK'
  <2>1. faults' \in 0..MaxFaults
    BY <1>1, FaultType DEF DeletionEnds, DeletionFails, TypeOK
  <2> QED
    BY <1>1, <2>1 DEF DeletionEnds, DeletionFails, TypeOK
<1>2. CASE Retag
  BY <1>2, FaultType DEF Retag, TypeOK
<1>3. CASE Crash
  <2>1. faults' \in 0..MaxFaults
    BY <1>3, FaultType DEF Crash
  <2>2. disk' \in [folder : BOOLEAN, digest : Content, file : [Layers -> Content]]
    <3>1. Torn \in Content
      BY DEF Content
    <3> QED
      BY <1>3, <3>1, DigestType DEF Crash, TypeOK
  <2>3. images \subseteq images' /\ images' \subseteq Image
    <3>1. \A w \in Pullers : p[w].obj \in Image
      BY DEF TypeOK, PullerType
    <3> QED
      BY <1>3, <3>1 DEF Crash, TypeOK
  <2>4. p' \in [Pullers -> PullerType]
    BY <1>3, FreshType DEF Crash
  <2> QED
    BY <1>3, <2>1, <2>2, <2>3, <2>4 DEF Crash, TypeOK
<1> QED
  BY <1>1, <1>2, <1>3

LEMMA TypeInit == Init => TypeOK
<1> SUFFICES ASSUME Init PROVE TypeOK
  OBVIOUS
<1>1. p \in [Pullers -> PullerType]
  BY FreshType DEF Init
<1>2. \A v \in Versions \union {None} : Whole(v) \in Image
  BY DEF Whole, Image, Content
<1>3. CASE disk = NoFolder /\ images = {} /\ alias = None
  BY <1>1, <1>2, <1>3 DEF Init, NoFolder, Nothing, Image, Content, TypeOK
<1>4. CASE \E v \in Versions : /\ disk = [folder |-> TRUE, digest |-> v, file |-> Whole(v)]
                               /\ images = {Whole(v)}
                               /\ alias = Whole(v)
  BY <1>1, <1>2, <1>4 DEF Init, Image, Content, TypeOK
<1> QED
  BY <1>3, <1>4 DEF Init

LEMMA TypeStep == TypeOK /\ [Next]_vars => TypeOK'
<1> SUFFICES ASSUME TypeOK, [Next]_vars PROVE TypeOK'
  OBVIOUS
<1>1. CASE UNCHANGED vars
  BY <1>1 DEF vars, TypeOK
<1>2. ASSUME NEW w \in Pullers, Start(w) \/ Pull(w)
      PROVE  TypeOK'
  BY <1>2, CleanTypeStep, CheckTypeStep, WipeTypeStep, BlobTypeStep, DownloadTypeStep, ImportTypeStep
     DEF Pull
<1>3. CASE Lxd \/ Retag \/ Crash
  BY <1>3, ImportTypeStep, WorldTypeStep DEF Lxd
<1> QED
  BY <1>1, <1>2, <1>3 DEF Next

(* The stores keep to their types however many pullers share them: in      *)
(* particular LXD deletes only what it has, and its alias names an image   *)
(* it has or none (puller.go, DownloadImage; image.go).                    *)
THEOREM TypeCorrect == Spec => []TypeOK
BY TypeInit, TypeStep, PTL DEF Spec

-----------------------------------------------------------------------------
(* The alias, with one puller for the image and whatever fails.            *)

OnePuller == \A v, w \in Pullers : v = w

(* Where a puller that has begun an import is, and what it knows of the    *)
(* import's success.                                                       *)
Following(w) ==
  /\ p[w].op # "none" => p[w].pc \in {"poll", "unalias", "alias"}
  /\ p[w].pc \in {"unalias", "alias"} => p[w].op = "success"
  /\ p[w].op = "success" => p[w].obj \in images \ condemned

(* What a puller is about to delete is not what the alias names. *)
Sparing(w) == p[w].pc = "clean" => alias \notin p[w].found

AliasInv ==
  /\ TypeOK
  /\ CleanupSparesAliased
  /\ \A w \in Pullers : Following(w) /\ Sparing(w)

Removal(w) ==
  \/ RemoveDigest(w) \/ RemoveFolder(w) \/ RemoveFails(w)
  \/ \E l \in Layers : RemoveLayer(w, l)

(* What the removal of a folder leaves alone. *)
LEMMA RemovalKeeps ==
  ASSUME TypeOK, NEW w \in Pullers, Removal(w)
  PROVE  /\ UNCHANGED lxdVars /\ p[w].pc = "wipe" /\ p'[w].pc \in {"wipe", "mkdir"}
         /\ p'[w].op = p[w].op /\ p'[w].obj = p[w].obj
         /\ p'[w].names = p[w].names /\ p'[w].blob = p[w].blob
<1>0. p \in [Pullers -> PullerType] /\ p[w] \in PullerType
  BY DEF TypeOK
<1>1. CASE RemoveDigest(w) \/ RemoveFolder(w) \/ RemoveFails(w)
  BY <1>0, <1>1 DEF RemoveDigest, RemoveFolder, RemoveFails, At, Goto, PullerType, lxdVars
<1>2. ASSUME NEW l \in Layers, RemoveLayer(w, l)
      PROVE  /\ UNCHANGED lxdVars /\ p[w].pc = "wipe"
             /\ p'[w] = [p[w] EXCEPT !.left = @ \ {l}]
  BY <1>0, <1>2 DEF RemoveLayer, At, lxdVars
<1> QED
  BY <1>0, <1>1, <1>2 DEF Removal, PullerType

LEMMA AliasPullStep ==
  ASSUME OnePuller, AliasInv, NEW w \in Pullers, Start(w) \/ Pull(w)
  PROVE  CleanupSparesAliased' /\ Following(w)' /\ Sparing(w)'
<1>0. /\ TypeOK /\ CleanupSparesAliased /\ Following(w) /\ Sparing(w)
      /\ p \in [Pullers -> PullerType] /\ p[w] \in PullerType
  BY DEF AliasInv, TypeOK
<1> USE DEF lxdVars
<1>1. ASSUME Return(w)
      PROVE  CleanupSparesAliased' /\ Following(w)' /\ Sparing(w)'
  BY <1>0, <1>1 DEF Return, Fresh, CleanupSparesAliased, Following, Sparing
<1>2. CASE \/ CompareDigestFails(w) \/ MkdirFails(w) \/ GetManifestFails(w) \/ SomeFailed(w)
           \/ CreateImageFails(w) \/ OperationLost(w) \/ DropAliasFails(w) \/ SetAliasFails(w)
  BY <1>1, <1>2
     DEF CompareDigestFails, MkdirFails, GetManifestFails, SomeFailed, CreateImageFails,
         OperationLost, DropAliasFails, SetAliasFails
<1>3. ASSUME UNCHANGED lxdVars, p'[w].op = p[w].op, p'[w].obj = p[w].obj,
             p[w].pc \notin {"poll", "unalias", "alias"},
             p'[w].pc \notin {"unalias", "alias"},
             p'[w].pc = "clean" => p[w].pc = "clean" /\ p'[w].found \subseteq p[w].found
      PROVE  CleanupSparesAliased' /\ Following(w)' /\ Sparing(w)'
  BY <1>0, <1>3 DEF CleanupSparesAliased, Following, Sparing
<1>4. CASE \/ Start(w) \/ Cleaned(w) \/ NoDigest(w) \/ CompareDigest(w) \/ Removal(w)
           \/ Mkdir(w)
  <2>1. /\ UNCHANGED lxdVars /\ p'[w].op = p[w].op /\ p'[w].obj = p[w].obj
        /\ p[w].pc \notin {"poll", "unalias", "alias"}
        /\ p'[w].pc \notin {"clean", "unalias", "alias"}
    BY <1>0, <1>4, RemovalKeeps
       DEF Start, Cleaned, NoDigest, CompareDigest, Mkdir, At, Goto, PullerType
  <2> QED
    BY <1>3, <2>1
<1>5. CASE \/ GetManifest(w) \/ GetErrorBody(w) \/ Tally(w) \/ GetDigest(w) \/ WriteDigest(w)
           \/ WalkFolder(w)
  <2>1. /\ UNCHANGED lxdVars /\ p'[w].op = p[w].op /\ p'[w].obj = p[w].obj
        /\ p[w].pc \notin {"poll", "unalias", "alias"}
        /\ p'[w].pc \notin {"clean", "unalias", "alias"}
    BY <1>0, <1>5
       DEF GetManifest, GetErrorBody, Tally, AllEnded, GetDigest, WriteDigest, WalkFolder, At, Goto,
           PullerType
  <2> QED
    BY <1>3, <2>1
<1>6. ASSUME NEW l \in Layers,
             \/ BlobBegins(w, l) \/ BlobWritten(w, l) \/ BlobEnds(w, l) \/ BlobFails(w, l)
             \/ Collect(w, l)
      PROVE  CleanupSparesAliased' /\ Following(w)' /\ Sparing(w)'
  <2>1. /\ UNCHANGED lxdVars /\ p'[w].op = p[w].op /\ p'[w].obj = p[w].obj
        /\ p'[w].pc = p[w].pc /\ p'[w].found = p[w].found
    BY <1>0, <1>6
       DEF BlobBegins, BlobWritten, BlobEnds, BlobFails, Collect, SetBlob, PullerType
  <2> QED
    BY <1>0, <2>1 DEF CleanupSparesAliased, Following, Sparing
<1>7. CASE ListImages(w)
  <2>1. CASE p' = [p EXCEPT ![w].pc = "clean", ![w].found = Unused]
    <3>1. /\ p'[w].pc = "clean" /\ p'[w].found = Unused
          /\ p'[w].op = p[w].op /\ p'[w].obj = p[w].obj
      BY <1>0, <2>1 DEF PullerType
    <3> QED
      BY <1>0, <1>7, <3>1 DEF ListImages, At, Unused, CleanupSparesAliased, Following, Sparing
  <2>2. CASE Goto(w, "check")
    <3>1. /\ p'[w].pc = "check" /\ p'[w].op = p[w].op /\ p'[w].obj = p[w].obj
      BY <1>0, <2>2 DEF PullerType, Goto
    <3> QED
      BY <1>3, <1>7, <3>1 DEF ListImages, At
  <2> QED
    BY <1>7, <2>1, <2>2 DEF ListImages
<1>8. CASE DeleteFound(w)
  <2>1. PICK c \in p[w].found :
          /\ p' = [p EXCEPT ![w].found = @ \ {c}]
          /\ condemned' = condemned \union ({c} \intersect images) \/ UNCHANGED condemned
    BY <1>8 DEF DeleteFound
  <2>2. /\ p'[w].pc = "clean" /\ p'[w].found = p[w].found \ {c}
        /\ p'[w].op = p[w].op /\ p'[w].obj = p[w].obj /\ p[w].pc = "clean"
    BY <1>0, <1>8, <2>1 DEF PullerType, DeleteFound, At
  <2> QED
    BY <1>0, <1>8, <2>1, <2>2 DEF DeleteFound, CleanupSparesAliased, Following, Sparing
<1>9. CASE CreateImage(w)
  <2>1. p'[w].pc = "poll" /\ p'[w].op = "running"
    BY <1>0, <1>9 DEF CreateImage, PullerType
  <2> QED
    BY <1>0, <1>9, <2>1 DEF CreateImage, CleanupSparesAliased, Following, Sparing
<1>10. CASE SeeFingerprint(w) \/ DropAlias(w)
  <2>1. /\ p'[w].pc \in {"unalias", "alias"} /\ p'[w].op = p[w].op /\ p'[w].obj = p[w].obj
        /\ p[w].op = "success"
    BY <1>0, <1>10
       DEF SeeFingerprint, HasFingerprint, DropAlias, At, Goto, PullerType, Following
  <2>2. None \notin condemned
    BY <1>0, NamesAssumption DEF TypeOK, Image, Content
  <2>3. alias' \in {alias, None} /\ UNCHANGED <<images, condemned>>
    BY <1>10 DEF SeeFingerprint, DropAlias
  <2> QED
    BY <1>0, <2>1, <2>2, <2>3 DEF CleanupSparesAliased, Following, Sparing
<1>11. CASE SetAlias(w)
  <2>1. p[w].obj \in images \ condemned
    BY <1>0, <1>11 DEF SetAlias, At, Following
  <2>2. p'[w] = Fresh
    BY <1>0, <1>11 DEF SetAlias
  <2> QED
    BY <1>11, <2>1, <2>2 DEF SetAlias, Fresh, CleanupSparesAliased, Following, Sparing
<1> QED
  BY <1>2, <1>4, <1>5, <1>6, <1>7, <1>8, <1>9, <1>10, <1>11 DEF Pull, Removal

LEMMA AliasWorldStep ==
  ASSUME OnePuller, AliasInv, Lxd \/ Retag \/ Crash, NEW w \in Pullers
  PROVE  CleanupSparesAliased' /\ Following(w)' /\ Sparing(w)'
<1>0. /\ TypeOK /\ CleanupSparesAliased /\ Following(w) /\ Sparing(w)
      /\ p \in [Pullers -> PullerType] /\ p[w] \in PullerType /\ condemned \subseteq images
      /\ None \notin Image /\ p[w].found \subseteq Image
  BY NamesAssumption DEF AliasInv, TypeOK, Image, Content, PullerType
<1> USE DEF lxdVars
<1>1. CASE \E v \in Pullers : ImportSucceeds(v) \/ ImportFails(v) \/ OperationExpires(v)
  <2>1. ImportSucceeds(w) \/ ImportFails(w) \/ OperationExpires(w)
    BY <1>1 DEF OnePuller
  <2>2. CASE ImportSucceeds(w)
    <3>1. /\ p'[w].op = "success" /\ p'[w].obj = p[w].obj /\ p'[w].pc = p[w].pc
          /\ p'[w].found = p[w].found
      BY <1>0, <2>2 DEF ImportSucceeds, PullerType
    <3> QED
      BY <1>0, <2>2, <3>1 DEF ImportSucceeds, CleanupSparesAliased, Following, Sparing
  <2>3. CASE ImportFails(w) \/ OperationExpires(w)
    <3>1. /\ p'[w].op \in {"failure", "gone"} /\ p'[w].pc = p[w].pc
          /\ p'[w].found = p[w].found /\ UNCHANGED lxdVars
          /\ p[w].pc \notin {"unalias", "alias"} /\ p[w].op # "none"
      BY <1>0, <2>3 DEF ImportFails, OperationExpires, At, PullerType, Following
    <3> QED
      BY <1>0, <3>1 DEF CleanupSparesAliased, Following, Sparing
  <2> QED
    BY <2>1, <2>2, <2>3
<1>2. ASSUME NEW c \in condemned, DeletionEnds(c) \/ DeletionFails(c)
      PROVE  CleanupSparesAliased' /\ Following(w)' /\ Sparing(w)'
  <2>1. UNCHANGED <<p, alias>> /\ condemned' = condemned \ {c} /\ images' \in {images, images \ {c}}
    BY <1>0, <1>2 DEF DeletionEnds, DeletionFails, CleanupSparesAliased
  <2> QED
    BY <1>0, <2>1 DEF CleanupSparesAliased, Following, Sparing
<1>3. CASE Retag
  BY <1>0, <1>3 DEF Retag, CleanupSparesAliased, Following, Sparing
<1>4. CASE Crash
  <2>1. p'[w] = Fresh /\ UNCHANGED <<condemned, alias>>
    BY <1>4 DEF Crash
  <2> QED
    BY <1>0, <2>1 DEF Fresh, CleanupSparesAliased, Following, Sparing
<1> QED
  BY <1>1, <1>2, <1>3, <1>4 DEF Lxd

LEMMA AliasInvStep == OnePuller /\ AliasInv /\ [Next]_vars => AliasInv'
<1> SUFFICES ASSUME OnePuller, AliasInv, [Next]_vars PROVE AliasInv'
  OBVIOUS
<1>0. TypeOK'
  BY TypeStep DEF AliasInv
<1>1. CASE UNCHANGED vars
  BY <1>0, <1>1 DEF vars, AliasInv, CleanupSparesAliased, Following, Sparing
<1>2. ASSUME NEW v \in Pullers, Start(v) \/ Pull(v)
      PROVE  AliasInv'
  BY <1>0, <1>2, AliasPullStep DEF AliasInv, OnePuller
<1>3. CASE Lxd \/ Retag \/ Crash
  <2>1. \A w \in Pullers : CleanupSparesAliased' /\ Following(w)' /\ Sparing(w)'
    BY <1>3, AliasWorldStep
  <2>2. CASE Pullers # {}
    BY <1>0, <2>1, <2>2 DEF AliasInv
  <2>3. CASE Pullers = {}
    <3>1. CleanupSparesAliased'
      BY <1>3, <2>3, NamesAssumption
         DEF Lxd, DeletionEnds, DeletionFails, Retag, Crash, lxdVars, AliasInv,
             CleanupSparesAliased
    <3> QED
      BY <1>0, <2>3, <3>1 DEF AliasInv
  <2> QED
    BY <2>2, <2>3
<1> QED
  BY <1>1, <1>2, <1>3 DEF Next

LEMMA AliasInvInit == Init => AliasInv
BY TypeInit DEF Init, AliasInv, CleanupSparesAliased, Following, Sparing, Fresh

(* With one puller for the image, its cleaning up never condemns the image *)
(* in use, whatever fails, crashes or moves: between the list of the       *)
(* images and the deletions no alias is set (puller.go, DownloadImage;     *)
(* image.go, DeleteInvalidImages).                                         *)
THEOREM CleanupSparesAliasedHolds ==
  ASSUME OnePuller
  PROVE  Spec => []CleanupSparesAliased
<1>1. Init => AliasInv
  BY AliasInvInit
<1>2. AliasInv /\ [Next]_vars => AliasInv'
  BY AliasInvStep
<1>3. AliasInv => CleanupSparesAliased
  BY DEF AliasInv
<1> QED
  BY <1>1, <1>2, <1>3, PTL DEF Spec

(* The alias goes only in favour of an image that LXD has and is not about *)
(* to delete (image.go, ImportLxdImageAlias).                              *)
THEOREM AliasDroppedForSuccessorHolds ==
  ASSUME OnePuller
  PROVE  Spec => AliasDroppedForSuccessor
<1> DEFINE Dropped ==
      alias # None /\ alias' = None =>
        \E w \in Pullers : At(w, "unalias") /\ p[w].obj \in images \ condemned
<1>1. Init => AliasInv
  BY AliasInvInit
<1>2. AliasInv /\ [Next]_vars => AliasInv'
  BY AliasInvStep
<1>3. AliasInv /\ [Next]_vars => [Dropped]_vars
  <2> SUFFICES ASSUME AliasInv, Next, alias # None, alias' = None
      PROVE  \E w \in Pullers : At(w, "unalias") /\ p[w].obj \in images \ condemned
    BY DEF vars
  <2>1. PICK w \in Pullers : DropAlias(w)
    <3>1. ASSUME NEW w \in Pullers, SetAlias(w) PROVE FALSE
      BY <3>1, NamesAssumption DEF SetAlias, AliasInv, TypeOK, PullerType, Image, Content
    <3>2. ASSUME NEW c \in condemned, DeletionEnds(c) PROVE FALSE
      BY <3>2 DEF DeletionEnds, AliasInv, CleanupSparesAliased
    <3> QED
      BY <3>1, <3>2
         DEF Next, Start, Pull, Lxd, Retag, Crash, lxdVars, Return, ListImages, DeleteFound, Cleaned,
             NoDigest, CompareDigest, CompareDigestFails, RemoveDigest, RemoveLayer, RemoveFolder,
             RemoveFails, Mkdir, MkdirFails, GetManifest, GetManifestFails, GetErrorBody,
             BlobBegins, BlobWritten, BlobEnds, BlobFails, Collect,
             SomeFailed, Tally, GetDigest, WriteDigest, WalkFolder, CreateImage, CreateImageFails,
             SeeFingerprint, OperationLost, DropAliasFails, SetAliasFails, ImportSucceeds,
             ImportFails, OperationExpires, DeletionFails
  <2>2. Following(w)
    BY DEF AliasInv
  <2> QED
    BY <2>1, <2>2 DEF DropAlias, At, Following
<1> QED
  BY <1>1, <1>2, <1>3, PTL DEF Spec, AliasDroppedForSuccessor

-----------------------------------------------------------------------------
(* ImageStore, with one puller for the image and whatever fails.           *)

Naming(w) == p[w].pc \in {"unalias", "alias"}

LEMMA HeirOf ==
  ASSUME OnePuller, NEW w \in Pullers
  PROVE  /\ Heir = IF Naming(w) THEN p[w].obj ELSE None
         /\ Heir' = IF Naming(w)' THEN p'[w].obj ELSE None
BY DEF OnePuller, Heir, Naming

LEMMA NoHeir == Pullers = {} => Heir = None /\ Heir' = None
BY DEF Heir

(* What an import has brought is not what the alias names already.         *)
Distinct(w) == p[w].op = "success" => p[w].obj # alias

StoreInv == AliasInv /\ \A w \in Pullers : Distinct(w)

StoreNext == [Store!Next]_Store!vars

LEMMA StoreReturn ==
  ASSUME OnePuller, StoreInv, NEW w \in Pullers, p'[w] = Fresh, UNCHANGED alias,
         images' \in Abandoned(w)
  PROVE  Distinct(w)' /\ StoreNext
<1>0. /\ p[w].op = "running" => Heir = None /\ p[w].obj \in Image
      /\ Heir' = None
  BY HeirOf DEF Naming, Fresh, StoreInv, AliasInv, Following, TypeOK, PullerType
<1>1. Distinct(w)'
  BY DEF Fresh, Distinct
<1>2. CASE images' = images
  <2>1. Store!GiveUp
    BY <1>0, <1>2 DEF Store!GiveUp
  <2> QED
    BY <1>1, <2>1 DEF StoreNext, Store!Next
<1>3. CASE p[w].op = "running" /\ images' = images \union {p[w].obj}
  <2>1. Store!Import(p[w].obj)
    BY <1>0, <1>3 DEF Store!Import
  <2> QED
    BY <1>0, <1>1, <1>3, <2>1 DEF StoreNext, Store!Next
<1> QED
  BY <1>2, <1>3 DEF Abandoned

(* A step that is far from naming. *)
LEMMA StoreStutters ==
  ASSUME OnePuller, StoreInv, NEW w \in Pullers, UNCHANGED <<images, alias>>,
         Naming(w)' <=> Naming(w), p'[w].obj = p[w].obj \/ ~Naming(w),
         p'[w].op = "success" => p[w].op = "success" /\ p'[w].obj = p[w].obj
  PROVE  Distinct(w)' /\ StoreNext
<1>1. Heir' = Heir
  BY HeirOf
<1>2. UNCHANGED Store!vars
  BY <1>1 DEF Store!vars
<1> QED
  BY <1>2 DEF StoreNext, StoreInv, Distinct

LEMMA StorePullStep ==
  ASSUME OnePuller, StoreInv, NEW w \in Pullers, Start(w) \/ Pull(w)
  PROVE  Distinct(w)' /\ StoreNext
<1>0. /\ TypeOK /\ Following(w) /\ Distinct(w)
      /\ p \in [Pullers -> PullerType] /\ p[w] \in PullerType
      /\ None \notin Image /\ p[w].obj \in Image
  BY NamesAssumption DEF StoreInv, AliasInv, TypeOK, PullerType, Image, Content
<1> USE DEF lxdVars
<1>1. CASE \/ CompareDigestFails(w) \/ MkdirFails(w) \/ GetManifestFails(w) \/ SomeFailed(w)
           \/ CreateImageFails(w) \/ OperationLost(w) \/ DropAliasFails(w) \/ SetAliasFails(w)
  <2>1. Return(w)
    BY <1>1
       DEF CompareDigestFails, MkdirFails, GetManifestFails, SomeFailed, CreateImageFails,
           OperationLost, DropAliasFails, SetAliasFails
  <2>2. p'[w] = Fresh /\ UNCHANGED alias /\ images' \in Abandoned(w)
    BY <1>0, <2>1 DEF Return
  <2> QED
    BY <2>2, StoreReturn
<1>2. CASE \/ Start(w) \/ Cleaned(w) \/ NoDigest(w) \/ CompareDigest(w) \/ Removal(w)
           \/ Mkdir(w)
  <2>1. /\ UNCHANGED <<images, alias>> /\ p'[w].op = p[w].op /\ p'[w].obj = p[w].obj
        /\ ~Naming(w) /\ ~Naming(w)'
    BY <1>0, <1>2, RemovalKeeps
       DEF Start, Cleaned, NoDigest, CompareDigest, Mkdir, At, Goto, PullerType, Naming
  <2> QED
    BY <2>1, StoreStutters DEF Naming
<1>3. CASE \/ GetManifest(w) \/ GetErrorBody(w) \/ Tally(w) \/ GetDigest(w) \/ WriteDigest(w)
           \/ WalkFolder(w)
  <2>1. /\ UNCHANGED <<images, alias>> /\ p'[w].op = p[w].op /\ p'[w].obj = p[w].obj
        /\ ~Naming(w) /\ ~Naming(w)'
    BY <1>0, <1>3
       DEF GetManifest, GetErrorBody, Tally, AllEnded, GetDigest, WriteDigest, WalkFolder, At, Goto,
           PullerType, Naming
  <2> QED
    BY <2>1, StoreStutters DEF Naming
<1>4. ASSUME NEW l \in Layers,
             \/ BlobBegins(w, l) \/ BlobWritten(w, l) \/ BlobEnds(w, l) \/ BlobFails(w, l)
             \/ Collect(w, l)
      PROVE  Distinct(w)' /\ StoreNext
  <2>1. /\ UNCHANGED <<images, alias>> /\ p'[w].op = p[w].op /\ p'[w].obj = p[w].obj
        /\ p'[w].pc = p[w].pc
    BY <1>0, <1>4
       DEF BlobBegins, BlobWritten, BlobEnds, BlobFails, Collect, SetBlob, PullerType
  <2> QED
    BY <2>1, StoreStutters DEF Naming
<1>5. CASE ListImages(w) \/ DeleteFound(w)
  <2>1. /\ UNCHANGED <<images, alias>> /\ p'[w].op = p[w].op /\ p'[w].obj = p[w].obj
        /\ ~Naming(w) /\ ~Naming(w)'
    BY <1>0, <1>5 DEF ListImages, DeleteFound, At, Goto, PullerType, Naming
  <2> QED
    BY <2>1, StoreStutters DEF Naming
<1>6. CASE CreateImage(w)
  <2>1. UNCHANGED <<images, alias>> /\ p'[w].op = "running" /\ ~Naming(w) /\ ~Naming(w)'
    BY <1>0, <1>6 DEF CreateImage, At, PullerType, Naming
  <2> QED
    BY <2>1, StoreStutters DEF Naming
<1>7. CASE SeeFingerprint(w)
  <2>1. /\ p[w].op = "success" /\ p'[w].op = p[w].op /\ p'[w].obj = p[w].obj
        /\ ~Naming(w) /\ Naming(w)' /\ UNCHANGED <<images, alias>>
    BY <1>0, <1>7 DEF SeeFingerprint, HasFingerprint, At, Goto, PullerType, Naming
  <2>2. Heir = None /\ Heir' = p[w].obj
    BY <2>1, HeirOf
  <2>3. p[w].obj \in images /\ p[w].obj # alias
    BY <1>0, <2>1 DEF Following, Distinct
  <2>4. Store!Choose(p[w].obj)
    BY <2>1, <2>2, <2>3 DEF Store!Choose
  <2> QED
    BY <1>0, <2>1, <2>3, <2>4 DEF Distinct, StoreNext, Store!Next
<1>8. CASE DropAlias(w)
  <2>1. /\ p[w].op = "success" /\ p'[w].op = p[w].op /\ p'[w].obj = p[w].obj
        /\ Naming(w) /\ Naming(w)' /\ UNCHANGED images /\ alias' \in {alias, None}
    BY <1>0, <1>8 DEF DropAlias, At, Goto, PullerType, Naming, Following
  <2>2. Heir = p[w].obj /\ Heir' = Heir /\ Heir # None
    BY <1>0, <2>1, HeirOf
  <2>3. CASE alias' = None
    <3>1. Store!GiveWay
      BY <2>1, <2>2, <2>3 DEF Store!GiveWay
    <3> QED
      BY <1>0, <2>1, <2>3, <3>1 DEF Distinct, StoreNext, Store!Next
  <2> QED
    BY <2>1, <2>3, StoreStutters
<1>9. CASE SetAlias(w)
  <2>1. /\ Naming(w) /\ alias = None /\ alias' = p[w].obj /\ p'[w] = Fresh /\ UNCHANGED images
    BY <1>0, <1>9 DEF SetAlias, CanAlias, At, Naming
  <2>2. Heir = p[w].obj /\ Heir # None /\ Heir' = None
    BY <1>0, <2>1, HeirOf DEF Naming, Fresh
  <2>3. Store!Succeed
    BY <2>1, <2>2 DEF Store!Succeed
  <2> QED
    BY <2>1, <2>3 DEF Distinct, Fresh, StoreNext, Store!Next
<1> QED
  BY <1>1, <1>2, <1>3, <1>4, <1>5, <1>6, <1>7, <1>8, <1>9 DEF Pull, Removal

(* What happens to an image that nobody uses. *)
LEMMA StoreDeletionStep ==
  ASSUME OnePuller, StoreInv, NEW c \in condemned, DeletionEnds(c) \/ DeletionFails(c)
  PROVE  (\A w \in Pullers : Distinct(w)') /\ StoreNext
<1>1. UNCHANGED p /\ UNCHANGED Heir
  BY DEF DeletionEnds, DeletionFails, Heir
<1>2. /\ alias # c /\ UNCHANGED alias /\ c \in images
      /\ images' = images \ {c} \/ UNCHANGED images
  BY DEF StoreInv, AliasInv, TypeOK, CleanupSparesAliased, DeletionEnds, DeletionFails
<1>3. Heir # c
  <2>1. CASE Pullers = {}
    BY <2>1, <1>2, NoHeir, NamesAssumption DEF StoreInv, AliasInv, TypeOK, Image, Content
  <2>2. ASSUME NEW w \in Pullers PROVE Heir # c
    BY <1>2, HeirOf, NamesAssumption
       DEF Naming, StoreInv, AliasInv, Following, TypeOK, Image, Content
  <2> QED
    BY <2>1, <2>2
<1>4. Store!Delete(c) \/ UNCHANGED Store!vars
  BY <1>1, <1>2, <1>3 DEF Store!Delete, Store!vars
<1> QED
  BY <1>1, <1>2, <1>4 DEF StoreInv, Distinct, StoreNext, Store!Next

LEMMA StoreWorldStep ==
  ASSUME OnePuller, StoreInv, Lxd \/ Retag \/ Crash
  PROVE  (\A w \in Pullers : Distinct(w)') /\ StoreNext
<1> USE DEF lxdVars
<1>1. ASSUME NEW c \in condemned, DeletionEnds(c) \/ DeletionFails(c)
      PROVE  (\A w \in Pullers : Distinct(w)') /\ StoreNext
  BY <1>1, StoreDeletionStep
<1>2. ASSUME NEW w \in Pullers, ImportSucceeds(w) \/ ImportFails(w) \/ OperationExpires(w)
      PROVE  Distinct(w)' /\ StoreNext
  <2>0. /\ TypeOK /\ Following(w) /\ p[w] \in PullerType /\ p[w].obj \in Image
        /\ p \in [Pullers -> PullerType] /\ None \notin Image
    BY NamesAssumption DEF StoreInv, AliasInv, TypeOK, PullerType, Image, Content
  <2>1. CASE ImportSucceeds(w)
    <3>1. /\ p'[w].op = "success" /\ p'[w].obj = p[w].obj /\ p'[w].pc = p[w].pc
          /\ ~Naming(w) /\ ~Naming(w)' /\ p[w].obj \notin images
      BY <2>0, <2>1 DEF ImportSucceeds, PullerType, Following, Naming
    <3>2. Heir = None /\ Heir' = None
      BY <3>1, HeirOf
    <3>3. Store!Import(p[w].obj)
      BY <2>1, <3>2 DEF ImportSucceeds, Store!Import
    <3>4. p[w].obj # alias /\ alias' = alias
      BY <2>0, <2>1, <3>1 DEF TypeOK, ImportSucceeds
    <3> QED
      BY <2>0, <3>1, <3>3, <3>4 DEF Distinct, StoreNext, Store!Next
  <2>2. CASE ImportFails(w) \/ OperationExpires(w)
    <3>1. /\ p'[w].op \in {"failure", "gone"} /\ p'[w].pc = p[w].pc /\ p'[w].obj = p[w].obj
          /\ UNCHANGED <<images, alias>>
      BY <2>0, <2>2 DEF ImportFails, OperationExpires, PullerType
    <3> QED
      BY <3>1, StoreStutters DEF Naming
  <2> QED
    BY <1>2, <2>1, <2>2
<1>3. CASE Retag
  <2>1. UNCHANGED <<p, images, alias>>
    BY <1>3 DEF Retag
  <2>2. UNCHANGED Store!vars
    BY <2>1 DEF Store!vars, Heir
  <2> QED
    BY <2>1, <2>2 DEF StoreInv, Distinct, StoreNext
<1>4. CASE Crash
  <2>1. ASSUME NEW w \in Pullers PROVE Distinct(w)' /\ StoreNext
    <3>1. p'[w] = Fresh /\ UNCHANGED alias /\ images' \in Abandoned(w)
      BY <1>4, <2>1 DEF Crash, Abandoned, OnePuller
    <3> QED
      BY <3>1, StoreReturn
  <2>2. CASE Pullers = {}
    <3>1. UNCHANGED <<images, alias>>
      BY <1>4, <2>2 DEF Crash
    <3>2. UNCHANGED Store!vars
      BY <2>2, <3>1, NoHeir DEF Store!vars
    <3> QED
      BY <2>2, <3>2 DEF StoreNext
  <2> QED
    BY <2>1, <2>2
<1> QED
  BY <1>1, <1>2, <1>3, <1>4 DEF Lxd, OnePuller

LEMMA StoreInvStep == OnePuller /\ StoreInv /\ [Next]_vars => StoreInv' /\ StoreNext
<1> SUFFICES ASSUME OnePuller, StoreInv, [Next]_vars
             PROVE  (\A w \in Pullers : Distinct(w)') /\ StoreNext
  BY AliasInvStep DEF StoreInv
<1>1. CASE UNCHANGED vars
  <2>1. UNCHANGED Store!vars
    BY <1>1 DEF vars, Store!vars, Heir
  <2> QED
    BY <1>1, <2>1 DEF vars, StoreInv, Distinct, StoreNext
<1>2. ASSUME NEW w \in Pullers, Start(w) \/ Pull(w)
      PROVE  (\A v \in Pullers : Distinct(v)') /\ StoreNext
  <2>1. Distinct(w)' /\ StoreNext
    BY <1>2, StorePullStep
  <2> QED
    BY <2>1 DEF OnePuller
<1> QED
  BY <1>1, <1>2, StoreWorldStep DEF Next

LEMMA StoreInvInit == Init => StoreInv /\ Store!Init
<1> SUFFICES ASSUME Init PROVE StoreInv /\ Store!Init
  OBVIOUS
<1>1. TypeOK /\ AliasInv
  BY TypeInit, AliasInvInit
<1>2. \A w \in Pullers : p[w].pc = "idle" /\ p[w].op = "none"
  BY DEF Init, Fresh
<1>3. Heir = None
  BY <1>2 DEF Heir
<1> QED
  BY <1>1, <1>2, <1>3 DEF StoreInv, Distinct, Store!Init, TypeOK

(* With one puller for the image, whatever fails, crashes or moves, the    *)
(* pulls implement ImageStore: launchers keep the image in use until       *)
(* another one is there for good, and the alias names nothing else         *)
(* (image.go, ImportLxdImageAlias, DeleteInvalidImages).                   *)
THEOREM ImplementsStore ==
  ASSUME OnePuller
  PROVE  Spec => StoreContract
<1>1. Init => StoreInv /\ Store!Init
  BY StoreInvInit
<1>2. StoreInv /\ [Next]_vars => StoreInv' /\ [Store!Next]_Store!vars
  BY StoreInvStep DEF StoreNext
<1> QED
  BY <1>1, <1>2, PTL DEF Spec, StoreContract, Store!Spec

-----------------------------------------------------------------------------
(* What is on disk and in LXD, with one puller for the image, when RemoveAll *)
(* does not fail and the names of the layers are not lost.                   *)

Orderly == "race" \notin Faults /\ "wipe" \notin Faults

(* An error document is not taken for a manifest. *)
Honest == "errorbody" \notin Faults

Immortal == "crash" \notin Faults

Complete == \E v \in Versions : disk.file = Whole(v)
Hollow == ~Honest /\ disk.file = Nothing

(* What the folder holds is of one version. *)
Unmixed == \E v \in Versions : \A l \in Layers : disk.file[l] \in {v, None}

Present == {l \in Layers : disk.file[l] # None}

Vouched ==
  /\ disk.digest \in Versions => Unmixed
  /\ ~disk.folder => disk.file = Nothing

(* But for error documents and crashes, only a folder that is being        *)
(* removed has lost a layer.                                               *)
Kept(w) ==
  Honest /\ Immortal /\ disk.digest \in Versions /\ p[w].pc # "wipe" => Complete

(* Before the download the puller knows of no layer, and it downloads into *)
(* an empty folder.                                                        *)
Beginning(w) ==
  /\ p[w].pc \in {"idle", "list", "clean", "check", "wipe", "mkdir", "manifest"} =>
       p[w].names = {} /\ \A l \in Layers : p[w].blob[l] = "none"
  /\ p[w].pc \in {"idle", "list", "clean", "check"} => p[w].left = Entries
  /\ p[w].pc \in {"mkdir", "manifest"} => Empty
  /\ p[w].pc = "manifest" => disk.folder

(* What has been taken from the folder does not come back. *)
Removing(w) ==
  p[w].pc = "wipe" =>
    /\ "digest" \notin p[w].left => disk.digest = None
    /\ \A l \in Layers : l \notin p[w].left => disk.file[l] = None

Writing(w) ==
  /\ p[w].man \in Versions
  /\ \A l \in Layers : /\ p[w].blob[l] \notin {"none", "orphan"}
                       /\ p[w].blob[l] \in {"append", "done"} => disk.file[l] = p[w].man

Downloading(w) ==
  p[w].pc = "blobs" =>
    /\ disk.folder /\ disk.digest = None
    /\ p[w].names = {l \in Layers : p[w].blob[l] = "done"}
    /\ Writing(w) \/ (Hollow /\ \A l \in Layers : p[w].blob[l] = "none")

(* Outside the download no goroutine writes a file. *)
Idling(w) ==
  p[w].pc # "blobs" => \A l \in Layers : p[w].blob[l] \in {"none", "done"}

Downloaded(w) ==
  /\ p[w].pc \in {"digest", "write", "import"} => Unmixed /\ p[w].names = Present
  /\ p[w].pc \in {"digest", "write"} => Complete \/ ~Honest
  /\ p[w].pc = "walk" => disk.digest \in Versions

OneVersion(i) == i[Meta] \in Versions /\ i[Rootfs] \in {i[Meta], None}

Uploaded(w) == p[w].op # "none" => OneVersion(p[w].obj)

WholeInv ==
  /\ TypeOK
  /\ Vouched /\ ImportsUnmixed
  /\ \A w \in Pullers : /\ Kept(w) /\ Beginning(w) /\ Removing(w) /\ Downloading(w)
                        /\ Idling(w) /\ Downloaded(w) /\ Uploaded(w)

(* All that WholeInv says of the one puller. *)
WholeFor(w) ==
  /\ Vouched /\ ImportsUnmixed
  /\ Kept(w) /\ Beginning(w) /\ Removing(w) /\ Downloading(w)
  /\ Idling(w) /\ Downloaded(w) /\ Uploaded(w)

LEMMA WholeReturn ==
  ASSUME WholeInv, NEW w \in Pullers, Return(w), p[w].pc # "wipe"
  PROVE  WholeFor(w)'
<1>1. p'[w] = Fresh /\ UNCHANGED disk
  BY DEF Return, WholeInv, TypeOK
<1>2. images' \subseteq images \union (IF p[w].op = "running" THEN {p[w].obj} ELSE {})
  BY DEF Return, Abandoned
<1>3. ImportsUnmixed'
  BY <1>2 DEF ImportsUnmixed, OneVersion, WholeInv, Uploaded
<1>4. Vouched' /\ Kept(w)'
  BY <1>1 DEF Vouched, Kept, Complete, Unmixed, WholeInv
<1>5. /\ Beginning(w)' /\ Removing(w)' /\ Downloading(w)' /\ Downloaded(w)' /\ Uploaded(w)'
      /\ Idling(w)'
  BY <1>1 DEF Fresh, Beginning, Removing, Downloading, Downloaded, Uploaded, Idling
<1> QED
  BY <1>3, <1>4, <1>5 DEF WholeFor

LEMMA WholeCleanStep ==
  ASSUME WholeInv, NEW w \in Pullers,
         \/ Start(w) \/ ListImages(w) \/ DeleteFound(w) \/ Cleaned(w) \/ NoDigest(w)
         \/ CompareDigest(w) \/ SeeFingerprint(w) \/ DropAlias(w)
  PROVE  WholeFor(w)'
<1>0. p \in [Pullers -> PullerType] /\ p[w] \in PullerType /\ tag \in Versions
  BY DEF WholeInv, TypeOK
<1> USE DEF lxdVars
<1>1. /\ UNCHANGED <<disk, images>>
      /\ p'[w].names = p[w].names /\ p'[w].blob = p[w].blob /\ p'[w].left = p[w].left
      /\ p'[w].op = p[w].op /\ p'[w].obj = p[w].obj
      /\ p[w].pc \notin {"blobs", "wipe"}
      /\ p'[w].pc \in {"list", "clean", "check", "wipe", "mkdir", "walk", "unalias", "alias"}
      /\ p'[w].pc \in {"list", "clean", "check", "wipe", "mkdir"} =>
           p[w].pc \in {"idle", "list", "clean", "check"}
      /\ p'[w].pc = "mkdir" => disk.digest = None /\ ~disk.folder
      /\ p'[w].pc = "walk" => disk.digest = tag
  <2>1. CASE Start(w) \/ Cleaned(w) \/ NoDigest(w) \/ CompareDigest(w)
    BY <1>0, <2>1 DEF Start, Cleaned, NoDigest, CompareDigest, At, Goto, PullerType
  <2>2. CASE ListImages(w) \/ DeleteFound(w)
    BY <1>0, <2>2 DEF ListImages, DeleteFound, At, Goto, PullerType
  <2>3. CASE SeeFingerprint(w) \/ DropAlias(w)
    BY <1>0, <2>3 DEF SeeFingerprint, DropAlias, At, Goto, PullerType
  <2> QED
    BY <2>1, <2>2, <2>3
<1>2. Kept(w) /\ Beginning(w) /\ Idling(w) /\ Uploaded(w) /\ Vouched /\ ImportsUnmixed
  BY DEF WholeInv
<1>3. Kept(w)' /\ Vouched' /\ ImportsUnmixed'
  BY <1>1, <1>2 DEF Kept, Vouched, Complete, Unmixed, ImportsUnmixed
<1>4. Beginning(w)' /\ Removing(w)'
  BY <1>1, <1>2 DEF Beginning, Removing, Vouched, Empty, Entries
<1>5. Downloading(w)' /\ Idling(w)' /\ Downloaded(w)' /\ Uploaded(w)'
  BY <1>0, <1>1, <1>2 DEF Downloading, Idling, Downloaded, Uploaded, OneVersion
<1> QED
  BY <1>3, <1>4, <1>5 DEF WholeFor

(* A folder that loses entries is of one version as before. *)
LEMMA WholeRemovalStep ==
  ASSUME WholeInv, Orderly, NEW w \in Pullers, Removal(w)
  PROVE  WholeFor(w)'
<1>0. /\ p \in [Pullers -> PullerType] /\ p[w] \in PullerType /\ p[w].pc = "wipe"
      /\ p[w].left \subseteq Entries
      /\ disk \in [folder : BOOLEAN, digest : Content, file : [Layers -> Content]]
      /\ Beginning(w) /\ Removing(w) /\ Idling(w) /\ Uploaded(w) /\ Vouched /\ ImportsUnmixed
      /\ None \notin Versions
  BY RemovalKeeps, NamesAssumption DEF WholeInv, TypeOK, PullerType
<1>1. /\ p'[w].pc \in {"wipe", "mkdir"} /\ p'[w].op = p[w].op /\ p'[w].obj = p[w].obj
      /\ p'[w].names = p[w].names /\ p'[w].blob = p[w].blob /\ UNCHANGED images
  BY RemovalKeeps DEF WholeInv, lxdVars
<1>2. ~RemoveFails(w)
  <2>1. p[w].left = {} => Empty
    <3>1. p[w].left = {} => disk.file = Nothing
      BY <1>0 DEF Removing, Nothing, Whole
    <3> QED
      BY <1>0, <3>1 DEF Removing, Empty
  <2> QED
    BY <2>1 DEF RemoveFails, Refused, Fault, Orderly
<1> DEFINE Loses ==
      /\ disk'.digest \in {disk.digest, None}
      /\ \A l \in Layers : disk'.file[l] \in {disk.file[l], None}
      /\ disk'.folder = disk.folder \/ disk'.file = Nothing
      /\ disk.file = Nothing => disk'.file = Nothing
      /\ p'[w].pc = "mkdir" => Empty'
      /\ p'[w].pc = "wipe" =>
           /\ "digest" \notin p'[w].left => disk'.digest = None
           /\ \A l \in Layers : l \notin p'[w].left => disk'.file[l] = None
<1>3. Loses
  <2>1. CASE RemoveDigest(w)
    <3>1. /\ disk' = [disk EXCEPT !.digest = None] /\ p'[w].pc = "wipe"
          /\ p'[w].left = p[w].left \ {"digest"}
      BY <1>0, <2>1 DEF RemoveDigest, PullerType
    <3>2. \A l \in Layers : l \notin p'[w].left => l \notin p[w].left
      BY <3>1, NamesAssumption
    <3> QED
      BY <1>0, <3>1, <3>2 DEF Removing
  <2>2. ASSUME NEW l \in Layers, RemoveLayer(w, l)
        PROVE  Loses
    <3>1. /\ disk' = [disk EXCEPT !.file[l] = None] /\ p'[w].pc = "wipe"
          /\ p'[w].left = p[w].left \ {l}
      BY <1>0, <2>2 DEF RemoveLayer, PullerType
    <3>2. "digest" \notin p'[w].left => "digest" \notin p[w].left
      BY <3>1, NamesAssumption
    <3>3. \A k \in Layers : disk'.file[k] = IF k = l THEN None ELSE disk.file[k]
      BY <1>0, <3>1
    <3>4. disk.file = Nothing => disk'.file = Nothing
      BY <1>0, <3>1, <3>3 DEF Nothing, Whole
    <3>5. disk'.digest = disk.digest /\ disk'.folder = disk.folder
      BY <1>0, <3>1
    <3> QED
      BY <1>0, <3>1, <3>2, <3>3, <3>4, <3>5 DEF Removing
  <2>3. CASE RemoveFolder(w)
    <3>1. disk' = NoFolder /\ p'[w].pc = "mkdir"
      BY <1>0, <2>3 DEF RemoveFolder, Goto, PullerType
    <3>2. \A l \in Layers : Nothing[l] = None
      BY DEF Nothing, Whole
    <3> QED
      BY <3>1, <3>2 DEF NoFolder, Empty
  <2> QED
    BY <1>2, <2>1, <2>2, <2>3 DEF Removal
<1>4. Vouched' /\ ImportsUnmixed'
  BY <1>0, <1>1, <1>3 DEF Vouched, Unmixed, ImportsUnmixed
<1>5. Kept(w)'
  BY <1>0, <1>1, <1>3 DEF Kept, Empty
<1>6. /\ Beginning(w)' /\ Removing(w)' /\ Idling(w)' /\ Uploaded(w)'
      /\ Downloading(w)' /\ Downloaded(w)'
  BY <1>0, <1>1, <1>3
     DEF Beginning, Removing, Idling, Uploaded, OneVersion, Downloading, Downloaded
<1> QED
  BY <1>4, <1>5, <1>6 DEF WholeFor

LEMMA WholeFolderStep ==
  ASSUME WholeInv, NEW w \in Pullers, Mkdir(w) \/ GetManifest(w)
  PROVE  WholeFor(w)'
<1>0. /\ p \in [Pullers -> PullerType] /\ p[w] \in PullerType /\ tag \in Versions
      /\ disk \in [folder : BOOLEAN, digest : Content, file : [Layers -> Content]]
      /\ Beginning(w) /\ Idling(w) /\ Uploaded(w) /\ Vouched /\ ImportsUnmixed
  BY DEF WholeInv, TypeOK
<1>1. None \notin Versions
  BY NamesAssumption
<1> USE DEF lxdVars
<1>2. CASE Mkdir(w)
  <2>1. /\ p'[w].pc = "manifest" /\ p'[w].names = p[w].names /\ p'[w].blob = p[w].blob
        /\ p'[w].op = p[w].op /\ p'[w].obj = p[w].obj /\ p[w].pc = "mkdir"
        /\ disk'.digest = disk.digest /\ disk'.file = disk.file /\ disk'.folder
        /\ UNCHANGED images
    BY <1>0, <1>2 DEF Mkdir, At, Goto, PullerType
  <2> QED
    BY <1>0, <1>1, <2>1
       DEF WholeFor, Vouched, Kept, ImportsUnmixed, Empty, Beginning, Removing, Downloading, Idling,
           Downloaded, Uploaded, OneVersion
<1>3. CASE GetManifest(w)
  <2>1. /\ p'[w].pc = "blobs" /\ p'[w].names = p[w].names
        /\ p'[w].blob = [l \in Layers |-> "todo"] /\ p'[w].man = tag
        /\ p'[w].op = p[w].op /\ p'[w].obj = p[w].obj /\ p[w].pc = "manifest"
        /\ UNCHANGED <<disk, images>>
    BY <1>0, <1>3 DEF GetManifest, At, PullerType
  <2>2. p'[w].names = {} /\ disk'.digest = None /\ disk'.folder
    BY <1>0, <2>1 DEF Beginning, Empty
  <2>3. Downloading(w)'
    BY <1>0, <2>1, <2>2 DEF Downloading, Writing
  <2> QED
    BY <1>0, <1>1, <2>1, <2>2, <2>3
       DEF WholeFor, Vouched, Kept, ImportsUnmixed, Beginning, Removing, Idling, Downloaded, Uploaded,
           OneVersion
<1> QED
  BY <1>2, <1>3

LEMMA WholeBlobStep ==
  ASSUME WholeInv, Orderly, OnePuller, NEW w \in Pullers, NEW l \in Layers,
         \/ BlobBegins(w, l) \/ BlobWritten(w, l) \/ BlobEnds(w, l) \/ BlobFails(w, l)
         \/ Collect(w, l)
  PROVE  WholeFor(w)'
<1>0. /\ p \in [Pullers -> PullerType] /\ p[w] \in PullerType
      /\ disk \in [folder : BOOLEAN, digest : Content, file : [Layers -> Content]]
      /\ Downloading(w) /\ Idling(w) /\ Uploaded(w) /\ Vouched /\ ImportsUnmixed
  BY DEF WholeInv, TypeOK
<1> USE DEF lxdVars
<1>1. /\ p'[w].pc = p[w].pc /\ p'[w].man = p[w].man
      /\ p'[w].op = p[w].op /\ p'[w].obj = p[w].obj /\ UNCHANGED images
  BY <1>0 DEF BlobBegins, BlobWritten, BlobEnds, BlobFails, Collect, SetBlob, PullerType
<1>2. p[w].blob[l] \notin {"none", "done"}
  BY DEF BlobBegins, BlobWritten, BlobEnds, BlobFails, Collect
<1>3. p[w].pc = "blobs"
  BY <1>0, <1>2 DEF Idling
<1>4. /\ disk.folder /\ disk.digest = None /\ p[w].man \in Versions
      /\ p[w].names = {k \in Layers : p[w].blob[k] = "done"}
      /\ \A k \in Layers : /\ p[w].blob[k] \notin {"none", "orphan"}
                           /\ p[w].blob[k] \in {"append", "done"} => disk.file[k] = p[w].man
  BY <1>0, <1>2, <1>3 DEF Downloading, Writing
<1>5. PICK state \in BlobState \ {"none", "orphan"} :
        /\ p'[w].blob = [p[w].blob EXCEPT ![l] = state]
        /\ p'[w].names = IF state = "done" THEN p[w].names \union {l} ELSE p[w].names
        /\ state = "append" => \E c \in Written(w, l) : disk' = [disk EXCEPT !.file[l] = c]
        /\ state = "begun" => \E c \in Content : disk' = [disk EXCEPT !.file[l] = c]
        /\ state \notin {"append", "begun"} => UNCHANGED disk
        /\ state = "done" => p[w].blob[l] = "append"
  <2> USE DEF BlobState
  <2>1. CASE BlobBegins(w, l)
    <3>1. (IF disk.file[l] = p[w].man THEN disk.file[l] ELSE Torn) \in Content
      BY <1>4 DEF Content
    <3>2. /\ p'[w].blob = [p[w].blob EXCEPT ![l] = "begun"] /\ p'[w].names = p[w].names
          /\ \E c \in Content : disk' = [disk EXCEPT !.file[l] = c]
      BY <1>0, <2>1, <3>1 DEF BlobBegins, SetBlob, PullerType
    <3> QED
      BY <3>2
  <2>2. CASE BlobWritten(w, l)
    <3>1. p[w].blob[l] = "begun"
      BY <1>4, <2>2 DEF BlobWritten
    <3>2. /\ p'[w].blob = [p[w].blob EXCEPT ![l] = "append"] /\ p'[w].names = p[w].names
          /\ \E c \in Written(w, l) : disk' = [disk EXCEPT !.file[l] = c]
      BY <1>0, <2>2, <3>1 DEF BlobWritten, PullerType
    <3> QED
      BY <3>2
  <2>3. CASE BlobEnds(w, l)
    <3>1. ~Racy
      BY DEF Orderly, Racy
    <3>2. /\ p'[w].blob = [p[w].blob EXCEPT ![l] = "done"]
          /\ p'[w].names = p[w].names \union {l} /\ UNCHANGED disk /\ p[w].blob[l] = "append"
      BY <1>0, <2>3, <3>1 DEF BlobEnds, NamesKept, PullerType
    <3> QED
      BY <3>2
  <2>4. CASE BlobFails(w, l)
    <3>1. /\ p'[w].blob = [p[w].blob EXCEPT ![l] = "failed"] /\ p'[w].names = p[w].names
          /\ UNCHANGED disk
      BY <1>0, <2>4 DEF BlobFails, SetBlob, PullerType
    <3> QED
      BY <3>1
  <2>5. CASE Collect(w, l)
    <3>1. /\ p'[w].blob = [p[w].blob EXCEPT ![l] = "reported"] /\ p'[w].names = p[w].names
          /\ UNCHANGED disk
      BY <1>0, <2>5 DEF Collect, SetBlob, PullerType
    <3> QED
      BY <3>1
  <2> QED
    BY <2>1, <2>2, <2>3, <2>4, <2>5
<1>6. Written(w, l) = {p[w].man}
  BY DEF Written, OnePuller, Orderly
<1>7. disk'.folder /\ disk'.digest = None /\ \A k \in Layers : k # l => disk'.file[k] = disk.file[k]
  <2>1. CASE \E c : disk' = [disk EXCEPT !.file[l] = c]
    BY <1>0, <1>4, <2>1
  <2>2. CASE UNCHANGED disk
    BY <1>4, <2>2
  <2> QED
    BY <1>5, <2>1, <2>2
<1>8. state \in {"append", "done"} => disk'.file[l] = p[w].man
  BY <1>0, <1>4, <1>5, <1>6
<1>9. \A k \in Layers : p'[w].blob[k] = IF k = l THEN state ELSE p[w].blob[k]
  BY <1>0, <1>5 DEF PullerType
<1>10. p'[w].names = {k \in Layers : p'[w].blob[k] = "done"}
  BY <1>2, <1>4, <1>5, <1>9
<1>11. Downloading(w)'
  BY <1>1, <1>4, <1>5, <1>7, <1>8, <1>9, <1>10 DEF Downloading, Writing
<1>12. None \notin Versions
  BY NamesAssumption
<1> QED
  BY <1>0, <1>1, <1>3, <1>7, <1>11, <1>12
     DEF WholeFor, Vouched, Kept, ImportsUnmixed, Beginning, Removing, Idling, Downloaded, Uploaded,
         OneVersion

LEMMA WholeImportStep ==
  ASSUME WholeInv, Orderly, OnePuller, NEW w \in Pullers,
         \/ GetErrorBody(w) \/ Tally(w) \/ GetDigest(w) \/ WriteDigest(w) \/ WalkFolder(w)
         \/ CreateImage(w) \/ SetAlias(w)
  PROVE  WholeFor(w)'
<1>0. /\ p \in [Pullers -> PullerType] /\ p[w] \in PullerType /\ tag \in Versions
      /\ disk \in [folder : BOOLEAN, digest : Content, file : [Layers -> Content]]
      /\ Kept(w) /\ Beginning(w) /\ Downloading(w) /\ Idling(w) /\ Downloaded(w) /\ Uploaded(w)
      /\ Vouched /\ ImportsUnmixed
      /\ None \notin Versions /\ Torn \notin Versions
  BY NamesAssumption DEF WholeInv, TypeOK
<1> USE DEF lxdVars
<1>1. CASE GetErrorBody(w)
  <2>1. /\ p[w].pc = "manifest" /\ UNCHANGED <<disk, images>> /\ ~Honest
        /\ p'[w].pc = "blobs" /\ p'[w].names = p[w].names /\ p'[w].blob = p[w].blob
        /\ p'[w].op = p[w].op /\ p'[w].obj = p[w].obj
    BY <1>0, <1>1 DEF GetErrorBody, At, Goto, Fault, Honest, PullerType
  <2>2. /\ disk.folder /\ disk.digest = None /\ disk.file = Nothing
        /\ p[w].names = {} /\ \A l \in Layers : p[w].blob[l] = "none"
    BY <1>0, <2>1 DEF Beginning, Empty
  <2>3. Downloading(w)'
    BY <2>1, <2>2 DEF Downloading, Hollow
  <2> QED
    BY <1>0, <2>1, <2>2, <2>3
       DEF WholeFor, Vouched, Kept, ImportsUnmixed, Beginning, Removing, Idling, Downloaded, Uploaded,
           OneVersion
<1>2. CASE Tally(w)
  <2>1. /\ p[w].pc = "blobs" /\ UNCHANGED <<disk, images>>
        /\ p'[w].pc \in {"digest", "write"}
        /\ p'[w].names = p[w].names /\ p'[w].blob = p[w].blob
        /\ p'[w].op = p[w].op /\ p'[w].obj = p[w].obj
    BY <1>0, <1>2 DEF Tally, AllEnded, At, Goto, PullerType
  <2>2. \A l \in Layers : p[w].blob[l] \in {"none", "done"}
    BY <1>2 DEF Tally, AllEnded, NoneFailed, Blobs, Orderly, Racy
  <2>3. Unmixed /\ p[w].names = Present /\ (Complete \/ ~Honest)
    <3>1. CASE Writing(w)
      <4>1. \A l \in Layers : p[w].blob[l] = "done" /\ disk.file[l] = p[w].man
        BY <2>2, <3>1 DEF Writing
      <4>2. p[w].names = Layers /\ p[w].man \in Versions
        BY <1>0, <2>1, <3>1, <4>1 DEF Downloading, Writing
      <4>3. disk.file = Whole(p[w].man)
        BY <1>0, <4>1 DEF Whole
      <4>4. Unmixed /\ Present = Layers
        BY <1>0, <4>1, <4>2 DEF Unmixed, Present
      <4> QED
        BY <4>2, <4>3, <4>4 DEF Complete
    <3>2. CASE Hollow /\ \A l \in Layers : p[w].blob[l] = "none"
      <4>1. \A l \in Layers : disk.file[l] = None
        BY <3>2 DEF Hollow, Nothing, Whole
      <4> QED
        BY <1>0, <2>1, <3>2, <4>1 DEF Downloading, Hollow, Unmixed, Present
    <3> QED
      BY <1>0, <2>1, <3>1, <3>2 DEF Downloading
  <2>4. Downloaded(w)'
    BY <2>1, <2>3 DEF Downloaded, Unmixed, Present, Complete
  <2>5. disk.digest = None
    BY <1>0, <2>1 DEF Downloading
  <2> QED
    BY <1>0, <2>1, <2>2, <2>4, <2>5
       DEF WholeFor, Vouched, Kept, ImportsUnmixed, Beginning, Removing, Downloading, Idling,
           Uploaded, OneVersion
<1>3. CASE GetDigest(w)
  <2>1. /\ p[w].pc = "digest" /\ UNCHANGED <<disk, images>>
        /\ p'[w].pc \in {"write", "import"}
        /\ p'[w].names = p[w].names /\ p'[w].blob = p[w].blob
        /\ p'[w].op = p[w].op /\ p'[w].obj = p[w].obj
    BY <1>0, <1>3 DEF GetDigest, At, Goto, PullerType
  <2> QED
    BY <1>0, <2>1
       DEF WholeFor, Vouched, Kept, ImportsUnmixed, Complete, Unmixed, Present, Beginning, Removing,
           Downloading, Idling, Downloaded, Uploaded, OneVersion
<1>4. CASE WriteDigest(w)
  <2>1. /\ p[w].pc = "write" /\ UNCHANGED images
        /\ p'[w].pc = "import" /\ p'[w].names = p[w].names /\ p'[w].blob = p[w].blob
        /\ p'[w].op = p[w].op /\ p'[w].obj = p[w].obj
    BY <1>0, <1>4 DEF WriteDigest, At, Goto, PullerType
  <2>2. disk'.file = disk.file /\ disk'.folder = disk.folder
    BY <1>0, <1>4 DEF WriteDigest
  <2>3. Unmixed /\ p[w].names = Present /\ (Complete \/ ~Honest)
    BY <1>0, <2>1 DEF Downloaded
  <2>4. Unmixed' /\ p'[w].names = Present' /\ (Complete' \/ ~Honest)
    BY <2>1, <2>2, <2>3 DEF Unmixed, Present, Complete
  <2> QED
    BY <1>0, <2>1, <2>2, <2>4
       DEF WholeFor, Vouched, Kept, ImportsUnmixed, Beginning, Removing, Downloading, Idling, Downloaded,
           Uploaded, OneVersion
<1>5. CASE WalkFolder(w)
  <2>1. /\ p[w].pc = "walk" /\ UNCHANGED <<disk, images>>
        /\ p'[w].pc = "import" /\ p'[w].names = Present
        /\ p'[w].blob = p[w].blob /\ p'[w].op = p[w].op /\ p'[w].obj = p[w].obj
    BY <1>0, <1>5 DEF WalkFolder, Present, At, PullerType
  <2>2. Unmixed
    BY <1>0, <2>1 DEF Downloaded, Vouched
  <2> QED
    BY <1>0, <2>1, <2>2
       DEF WholeFor, Vouched, Kept, ImportsUnmixed, Complete, Unmixed, Present, Beginning, Removing,
           Downloading, Idling, Downloaded, Uploaded, OneVersion
<1>6. CASE CreateImage(w)
  <2>1. /\ p[w].pc = "import" /\ UNCHANGED <<disk, images>>
        /\ p'[w].pc = "poll" /\ p'[w].blob = p[w].blob /\ p'[w].obj = Upload(w)
    BY <1>0, <1>6 DEF CreateImage, At, PullerType
  <2>2. /\ Unmixed /\ p[w].names = Present /\ Meta \in Present
    BY <1>0, <1>6, <2>1 DEF CreateImage, CanUpload, Downloaded
  <2>3. Upload(w)[Meta] = disk.file[Meta] /\ Upload(w)[Rootfs] = disk.file[Rootfs]
    BY <2>2 DEF Upload, Present, Layers
  <2>4. OneVersion(Upload(w))
    BY <2>2, <2>3 DEF OneVersion, Unmixed, Present, Layers
  <2> QED
    BY <1>0, <2>1, <2>4
       DEF WholeFor, Vouched, Kept, ImportsUnmixed, Complete, Unmixed, Beginning, Removing, Downloading,
           Idling, Downloaded, Uploaded, OneVersion
<1>7. CASE SetAlias(w)
  <2>1. p'[w] = Fresh /\ UNCHANGED <<disk, images>> /\ p[w].pc = "alias"
    BY <1>0, <1>7 DEF SetAlias, At
  <2> QED
    BY <1>0, <2>1
       DEF WholeFor, Fresh, Vouched, Kept, ImportsUnmixed, Complete, Unmixed, Beginning, Removing,
           Downloading, Idling, Downloaded, Uploaded
<1> QED
  BY <1>1, <1>2, <1>3, <1>4, <1>5, <1>6, <1>7

LEMMA WholeWorldStep ==
  ASSUME WholeInv, OnePuller, Lxd \/ Retag \/ Crash, NEW w \in Pullers
  PROVE  WholeFor(w)'
<1>0. /\ p \in [Pullers -> PullerType] /\ p[w] \in PullerType
      /\ disk \in [folder : BOOLEAN, digest : Content, file : [Layers -> Content]]
      /\ WholeFor(w) /\ Torn \notin Versions
  BY NamesAssumption DEF WholeInv, WholeFor, TypeOK
<1> USE DEF lxdVars
<1>1. CASE \E v \in Pullers : ImportSucceeds(v) \/ ImportFails(v) \/ OperationExpires(v)
  <2>1. ImportSucceeds(w) \/ ImportFails(w) \/ OperationExpires(w)
    BY <1>1 DEF OnePuller
  <2>2. /\ p[w].op # "none" /\ UNCHANGED disk
        /\ images' \subseteq images \union {p[w].obj}
        /\ p'[w].pc = p[w].pc /\ p'[w].names = p[w].names /\ p'[w].blob = p[w].blob
        /\ p'[w].left = p[w].left /\ p'[w].man = p[w].man /\ p'[w].obj = p[w].obj
    BY <1>0, <2>1 DEF ImportSucceeds, ImportFails, OperationExpires, PullerType
  <2> QED
    BY <1>0, <2>2
       DEF WholeFor, Vouched, Kept, ImportsUnmixed, Complete, Unmixed, Present, Hollow, Empty,
           Beginning, Removing, Downloading, Writing, Idling, Downloaded, Uploaded, OneVersion
<1>2. CASE Retag \/ \E c \in condemned : DeletionEnds(c) \/ DeletionFails(c)
  <2>1. UNCHANGED <<disk, p>> /\ images' \subseteq images
    BY <1>2 DEF Retag, DeletionEnds, DeletionFails
  <2> QED
    BY <1>0, <2>1
       DEF WholeFor, Vouched, Kept, ImportsUnmixed, Complete, Unmixed, Present, Hollow, Empty,
           Beginning, Removing, Downloading, Writing, Idling, Downloaded, Uploaded, OneVersion
<1>3. CASE Crash
  <2>1. p'[w] = Fresh
    BY <1>3 DEF Crash
  <2>2. ImportsUnmixed'
    <3>1. \A v \in Pullers : p[v].op = "running" => OneVersion(p[v].obj)
      BY DEF WholeInv, Uploaded
    <3> QED
      BY <1>0, <1>3, <3>1 DEF Crash, WholeFor, ImportsUnmixed, OneVersion
  <2>3. Vouched'
    BY <1>0, <1>3 DEF Crash, WholeFor, Vouched, Unmixed
  <2>4. Kept(w)'
    BY <1>3 DEF Crash, Fault, Kept, Immortal
  <2> QED
    BY <2>1, <2>2, <2>3, <2>4
       DEF WholeFor, Fresh, Beginning, Removing, Downloading, Idling, Downloaded, Uploaded
<1> QED
  BY <1>1, <1>2, <1>3 DEF Lxd

LEMMA WholeInvStep == OnePuller /\ Orderly /\ WholeInv /\ [Next]_vars => WholeInv'
<1> SUFFICES ASSUME OnePuller, Orderly, WholeInv, [Next]_vars PROVE WholeInv'
  OBVIOUS
<1>0. TypeOK'
  BY TypeStep DEF WholeInv
<1>1. CASE UNCHANGED vars
  <2>1. UNCHANGED <<disk, images, p>>
    BY <1>1 DEF vars
  <2> QED
    BY <1>0, <2>1
       DEF WholeInv, Vouched, Kept, ImportsUnmixed, Complete, Unmixed, Present, Hollow, Empty,
           Beginning, Removing, Downloading, Writing, Idling, Downloaded, Uploaded, OneVersion
<1>2. ASSUME NEW v \in Pullers, Start(v) \/ Pull(v)
      PROVE  WholeInv'
  <2>1. WholeFor(v)'
    <3>1. CASE \/ CompareDigestFails(v) \/ MkdirFails(v) \/ GetManifestFails(v) \/ SomeFailed(v)
               \/ CreateImageFails(v) \/ OperationLost(v) \/ DropAliasFails(v)
               \/ SetAliasFails(v)
      BY <3>1, WholeReturn
         DEF CompareDigestFails, MkdirFails, GetManifestFails, SomeFailed, AllEnded,
             CreateImageFails, OperationLost, DropAliasFails, SetAliasFails, At
    <3> QED
      BY <1>2, <3>1, WholeCleanStep, WholeRemovalStep, WholeFolderStep, WholeBlobStep,
         WholeImportStep
         DEF Pull, Removal
  <2> QED
    BY <1>0, <2>1 DEF WholeInv, WholeFor, OnePuller
<1>3. CASE Lxd \/ Retag \/ Crash
  <2>1. \A w \in Pullers : WholeFor(w)'
    BY <1>3, WholeWorldStep
  <2>2. CASE Pullers # {}
    BY <1>0, <2>1, <2>2 DEF WholeInv, WholeFor
  <2>3. CASE Pullers = {}
    <3>1. UNCHANGED disk /\ images' \subseteq images
      BY <1>3, <2>3 DEF Lxd, DeletionEnds, DeletionFails, Retag, Crash, lxdVars
    <3> QED
      BY <1>0, <2>3, <3>1 DEF WholeInv, Vouched, Unmixed, ImportsUnmixed
  <2> QED
    BY <2>2, <2>3
<1> QED
  BY <1>1, <1>2, <1>3 DEF Next

LEMMA WholeInvInit == Init => WholeInv
<1> SUFFICES ASSUME Init PROVE WholeInv
  OBVIOUS
<1>1. TypeOK /\ \A w \in Pullers : p[w] = Fresh
  BY TypeInit DEF Init
<1>2. None \notin Versions
  BY NamesAssumption
<1>3. Vouched /\ ImportsUnmixed
  BY <1>2 DEF Init, NoFolder, Vouched, Unmixed, Whole, ImportsUnmixed, Layers
<1>4. \A w \in Pullers : Kept(w)
  BY <1>2 DEF Init, NoFolder, Kept, Complete
<1>5. \A w \in Pullers : /\ Beginning(w) /\ Removing(w) /\ Downloading(w) /\ Idling(w)
                         /\ Downloaded(w) /\ Uploaded(w)
  BY <1>1 DEF Fresh, Beginning, Removing, Downloading, Idling, Downloaded, Uploaded
<1> QED
  BY <1>1, <1>3, <1>4, <1>5 DEF WholeInv

(* The digest file comes over a whole folder of one version, whatever      *)
(* requests, disks, crashes and moves of the tag come in between, and      *)
(* however much of the folder an earlier pull had removed when it was      *)
(* killed (puller.go, DownloadImage).                                      *)
THEOREM DigestWrittenOverWholeHolds ==
  ASSUME OnePuller, Orderly, Honest
  PROVE  Spec => DigestWrittenOverWhole
<1> DEFINE Written1 ==
      disk'.digest \in Versions /\ disk'.digest # disk.digest =>
        \E v \in Versions : disk'.file = Whole(v)
<1>1. Init => WholeInv
  BY WholeInvInit
<1>2. WholeInv /\ [Next]_vars => WholeInv'
  BY WholeInvStep
<1>3. WholeInv /\ [Next]_vars => [Written1]_vars
  <2> SUFFICES ASSUME WholeInv, Next, disk'.digest \in Versions, disk'.digest # disk.digest
               PROVE  \E v \in Versions : disk'.file = Whole(v)
    BY DEF vars
  <2>0. /\ disk \in [folder : BOOLEAN, digest : Content, file : [Layers -> Content]]
        /\ None \notin Versions /\ Torn \notin Versions
    BY NamesAssumption DEF WholeInv, TypeOK
  <2>1. PICK w \in Pullers : WriteDigest(w)
    <3>1. ASSUME NEW w \in Pullers, Removal(w) PROVE FALSE
      <4>1. CASE RemoveDigest(w)
        BY <2>0, <4>1 DEF RemoveDigest
      <4>2. CASE RemoveFolder(w)
        BY <2>0, <4>2 DEF RemoveFolder, NoFolder
      <4>3. CASE RemoveFails(w)
        BY <4>3 DEF RemoveFails
      <4>4. ASSUME NEW l \in Layers, RemoveLayer(w, l) PROVE FALSE
        BY <2>0, <4>4 DEF RemoveLayer
      <4> QED
        BY <3>1, <4>1, <4>2, <4>3, <4>4 DEF Removal
    <3>2. ASSUME NEW w \in Pullers, NEW l \in Layers, BlobBegins(w, l) \/ BlobWritten(w, l)
          PROVE  FALSE
      BY <2>0, <3>2 DEF BlobBegins, BlobWritten
    <3>3. ASSUME NEW w \in Pullers, Mkdir(w) PROVE FALSE
      BY <2>0, <3>3 DEF Mkdir
    <3>4. ~Crash
      BY <2>0 DEF Crash
    <3> QED
      BY <3>1, <3>2, <3>3, <3>4
         DEF Next, Start, Pull, Removal, Lxd, Retag, lxdVars, Return, ListImages, DeleteFound,
             Cleaned, NoDigest, CompareDigest, CompareDigestFails, MkdirFails, GetManifest,
             GetManifestFails, GetErrorBody, BlobEnds, BlobFails, Collect, SomeFailed, Tally,
             GetDigest, WalkFolder, CreateImage, CreateImageFails, SeeFingerprint, OperationLost,
             DropAlias, DropAliasFails, SetAlias, SetAliasFails, ImportSucceeds, ImportFails,
             OperationExpires, DeletionEnds, DeletionFails
  <2>2. PICK v \in Versions : disk.file = Whole(v)
    BY <2>1 DEF WriteDigest, At, WholeInv, Downloaded, Complete
  <2>3. disk'.file = disk.file
    BY <2>0, <2>1 DEF WriteDigest
  <2> QED
    BY <2>2, <2>3
<1> QED
  BY <1>1, <1>2, <1>3, PTL DEF Spec, DigestWrittenOverWhole

(* What is imported, downloaded now or before, is of one version and not   *)
(* torn, also where a pull was killed while it removed the folder, where   *)
(* the import is left behind by a pull that failed, and where an error     *)
(* document was taken for a manifest (image.go, ImportLxdImages).          *)
THEOREM ImportsUnmixedHolds ==
  ASSUME OnePuller, Orderly
  PROVE  Spec => []ImportsUnmixed
<1>1. Init => WholeInv
  BY WholeInvInit
<1>2. WholeInv /\ [Next]_vars => WholeInv'
  BY WholeInvStep
<1>3. WholeInv => ImportsUnmixed
  BY DEF WholeInv
<1> QED
  BY <1>1, <1>2, <1>3, PTL DEF Spec

(* A pull that skips the download finds the data there, if the manager is  *)
(* not killed: a removal is then finished before the next pull looks       *)
(* (puller.go, DownloadImage).                                             *)
THEOREM SkippedDataExistsHolds ==
  ASSUME OnePuller, Orderly, Honest, Immortal
  PROVE  Spec => []SkippedDataExists
<1>1. Init => WholeInv
  BY WholeInvInit
<1>2. WholeInv /\ [Next]_vars => WholeInv'
  BY WholeInvStep
<1>3. WholeInv => SkippedDataExists
  BY DEF WholeInv, SkippedDataExists, At, Downloaded, Kept, Complete
<1> QED
  BY <1>1, <1>2, <1>3, PTL DEF Spec

=============================================================================
