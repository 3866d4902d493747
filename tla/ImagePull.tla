------------------------------ MODULE ImagePull ------------------------------
(***************************************************************************)
(* Puller.DownloadImage (image/puller.go) with the LXD import that ends it *)
(* (image/image.go), for one image of the registry and the pullers that    *)
(* work on it: the workers of ImageHandler, whose "pull" step this is.     *)
(*                                                                         *)
(* A pull keeps three stores in step: the registry's tag, the image's      *)
(* folder on disk (one file for each layer and the manifest_digest file)   *)
(* and LXD (images named by their content, and one alias).  LXD and the    *)
(* registry are external; LXD runs imports and deletions in the background *)
(* and forgets an operation some time after it has ended.                  *)
(*                                                                         *)
(* Faults names what may go wrong, at most MaxFaults times in a behaviour; *)
(* only "race" is not counted, for it is no fault but a licence:           *)
(*   "http"       a request to the registry fails                          *)
(*   "errorbody"  the manifest request is answered with an error document  *)
(*   "disk"       a directory or a file cannot be created, read or written *)
(*   "wipe"       the folder cannot be removed, or only in part            *)
(*   "lxd"        a request to LXD, or an operation of LXD, fails          *)
(*   "crash"      the manager is killed and started again                  *)
(*   "retag"      the registry's tag moves to another version              *)
(*   "race"       the goroutines of one pull that share a slice without a  *)
(*                lock interleave at their worst, see Tally and NamesKept  *)
(***************************************************************************)
EXTENDS Integers, FiniteSets

CONSTANTS
  Pullers,    \* the workers
  Versions,   \* versions of the image the tag may point to
  Meta,       \* the layer that holds lxd.tar.xz
  Rootfs,     \* the layer that holds rootfs.squashfs or disk.qcow2
  None,       \* no file, no digest, no image
  Torn,       \* a file that is not the whole file of one version
  Faults,     \* see above
  MaxFaults

Layers == {Meta, Rootfs}
Entries == Layers \union {"digest"}  \* what the folder may hold
FaultKinds == {"http", "errorbody", "disk", "wipe", "lxd", "crash", "retag", "race"}

ASSUME NamesAssumption ==
  /\ Meta # Rootfs /\ "digest" \notin Layers
  /\ None # Torn
  /\ None \notin Versions /\ Torn \notin Versions
  /\ None \notin [Layers -> Versions \union {None, Torn}]   \* no image
ASSUME FaultsAssumption == Faults \subseteq FaultKinds /\ MaxFaults \in Nat

Content == Versions \union {None, Torn}
Image == [Layers -> Content]         \* content stands for the fingerprint
Whole(v) == [l \in Layers |-> v]
Nothing == Whole(None)
Racy == "race" \in Faults

VARIABLES
  tag,        \* registry: the version the tag points to
  disk,       \* the image's folder: whether it exists, its digest, its files
  images,     \* LXD: the images
  condemned,  \* LXD: the images that running operations delete
  alias,      \* LXD: the image the alias names, or None
  p,          \* what each puller knows and where it is
  faults      \* faults so far

vars == <<tag, disk, images, condemned, alias, p, faults>>
lxdVars == <<images, condemned, alias>>

PC == {"idle", "list", "clean", "check", "wipe", "mkdir", "manifest", "blobs",
       "digest", "write", "walk", "import", "poll", "unalias", "alias"}
BlobState == {"none", "todo", "begun", "orphan", "append", "done", "failed", "reported"}
OpState == {"none", "running", "success", "failure", "gone"}

(* A puller is a new object for each pull. *)
Fresh == [pc    |-> "idle",
          found |-> {},                             \* images to clean up
          want  |-> None,                           \* imageDigest
          man   |-> None,                           \* version of the manifest
          blob  |-> [l \in Layers |-> "none"],
          names |-> {},                             \* FileNameList
          seen  |-> [l \in Layers |-> {}],          \* names an append has read
          left  |-> Entries,                        \* not yet removed
          obj   |-> Nothing,                        \* what it imports
          op    |-> "none"]                         \* its import operation

PullerType == [pc : PC, found : SUBSET Image, want : Versions \union {None},
               man : Versions \union {None}, blob : [Layers -> BlobState],
               names : SUBSET Layers, seen : [Layers -> SUBSET Layers],
               left : SUBSET Entries, obj : Image, op : OpState]

NoFolder == [folder |-> FALSE, digest |-> None, file |-> Nothing]

TypeOK ==
  /\ tag \in Versions
  /\ disk \in [folder : BOOLEAN, digest : Content, file : [Layers -> Content]]
  /\ images \subseteq Image
  /\ condemned \subseteq images
  /\ alias \in images \union {None}
  /\ p \in [Pullers -> PullerType]
  /\ faults \in 0..MaxFaults

(* The manager starts with nothing, or after it has synchronised a version *)
(* that may be out of date by now.                                         *)
Init ==
  /\ tag \in Versions
  /\ \/ disk = NoFolder /\ images = {} /\ alias = None
     \/ \E v \in Versions :
          /\ disk = [folder |-> TRUE, digest |-> v, file |-> Whole(v)]
          /\ images = {Whole(v)}
          /\ alias = Whole(v)
  /\ condemned = {}
  /\ p = [w \in Pullers |-> Fresh]
  /\ faults = 0

-----------------------------------------------------------------------------
(* Helpers of the actions. *)

Fault(kind) ==
  /\ kind \in Faults
  /\ faults < MaxFaults
  /\ faults' = faults + 1

(* A request that is refused when cond holds and may fail anyway. *)
Refused(cond, kind) == (cond /\ UNCHANGED faults) \/ Fault(kind)

At(w, pc) == p[w].pc = pc
Goto(w, pc) == p' = [p EXCEPT ![w].pc = pc]
SetBlob(w, l, state) == p' = [p EXCEPT ![w].blob[l] = state]

(* DownloadImage returns: what the puller knew is garbage.  An import that *)
(* nobody follows any more ends at once, well or badly.                    *)
Abandoned(w) ==
  IF p[w].op = "running" THEN {images, images \union {p[w].obj}} ELSE {images}

Return(w) ==
  /\ p' = [p EXCEPT ![w] = Fresh]
  /\ images' \in Abandoned(w)
  /\ UNCHANGED <<disk, condemned, alias>>

-----------------------------------------------------------------------------
(* Cleaning up: DeleteInvalidImages lists LXD's images and then asks for   *)
(* the deletion of those that no alias named in the list, without waiting  *)
(* for any of them.                                                        *)

Start(w) ==
  /\ At(w, "idle")
  /\ Goto(w, "list")
  /\ UNCHANGED <<tag, disk, lxdVars, faults>>

(* Mutant of Unused: the aliases are not looked at. *)
UnusedOrNot == images

Unused == images \ {alias}

ListImages(w) ==
  /\ At(w, "list")
  /\ \/ /\ p' = [p EXCEPT ![w].pc = "clean", ![w].found = Unused]
        /\ UNCHANGED faults
     \/ Fault("lxd") /\ Goto(w, "check")
  /\ UNCHANGED <<tag, disk, lxdVars>>

(* One DeleteImage; LXD refuses an image it does not have.  A deletion     *)
(* that fails is only logged.                                              *)
DeleteFound(w) ==
  /\ At(w, "clean")
  /\ \E c \in p[w].found :
       /\ p' = [p EXCEPT ![w].found = @ \ {c}]
       /\ \/ condemned' = condemned \union ({c} \intersect images) /\ UNCHANGED faults
          \/ Fault("lxd") /\ UNCHANGED condemned
  /\ UNCHANGED <<tag, disk, images, alias>>

Cleaned(w) ==
  /\ At(w, "clean")
  /\ p[w].found = {}
  /\ Goto(w, "check")
  /\ UNCHANGED <<tag, disk, lxdVars, faults>>

-----------------------------------------------------------------------------
(* Is the folder up to date? *)

NoDigest(w) ==
  /\ At(w, "check")
  /\ disk.digest = None
  /\ Goto(w, IF disk.folder THEN "wipe" ELSE "mkdir")
  /\ UNCHANGED <<tag, disk, lxdVars, faults>>

(* Mutant of CompareDigest: the new version is downloaded into the old     *)
(* one's folder.                                                           *)
CompareDigestOverwrites(w) ==
  /\ At(w, "check")
  /\ disk.digest # None
  /\ p' = [p EXCEPT ![w].want = tag,
                    ![w].pc = IF disk.digest = tag THEN "walk" ELSE "mkdir"]
  /\ UNCHANGED <<tag, disk, lxdVars, faults>>

(* Mutant of CompareDigest: the puller goes on with the digest it has. *)
CompareDigestKeepLocal(w) ==
  /\ At(w, "check")
  /\ disk.digest # None
  /\ p' = [p EXCEPT ![w].want = disk.digest,
                    ![w].pc = IF disk.digest = tag THEN "walk" ELSE "wipe"]
  /\ UNCHANGED <<tag, disk, lxdVars, faults>>

(* The digest file is read and compared with the registry's; a digest file *)
(* that is not whole matches nothing.                                      *)
CompareDigest(w) ==
  /\ At(w, "check")
  /\ disk.digest # None
  /\ p' = [p EXCEPT ![w].want = tag,
                    ![w].pc = IF disk.digest = tag THEN "walk" ELSE "wipe"]
  /\ UNCHANGED <<tag, disk, lxdVars, faults>>

CompareDigestFails(w) ==
  /\ At(w, "check")
  /\ disk.digest # None
  /\ Fault("disk") \/ Fault("http")
  /\ Return(w)
  /\ UNCHANGED tag

(* RemoveAll lists the folder, takes its entries one after the other and   *)
(* then the folder; a crash may come between.  An entry that comes after   *)
(* the list counts as one that is taken before it comes.                   *)
RemoveDigest(w) ==
  /\ At(w, "wipe")
  /\ "digest" \in p[w].left
  /\ disk' = [disk EXCEPT !.digest = None]
  /\ p' = [p EXCEPT ![w].left = @ \ {"digest"}]
  /\ UNCHANGED <<tag, lxdVars, faults>>

(* A file that another puller has open lives on without a name. *)
Orphaned(blob, l) ==
  [blob EXCEPT ![l] = IF @ = "begun" THEN "orphan" ELSE @]

RemoveLayer(w, l) ==
  /\ At(w, "wipe")
  /\ l \in p[w].left
  /\ disk' = [disk EXCEPT !.file[l] = None]
  /\ p' = [v \in Pullers |-> IF v = w THEN [p[v] EXCEPT !.left = @ \ {l}]
                                     ELSE [p[v] EXCEPT !.blob = Orphaned(@, l)]]
  /\ UNCHANGED <<tag, lxdVars, faults>>

Empty == disk.digest = None /\ disk.file = Nothing

RemoveFolder(w) ==
  /\ At(w, "wipe")
  /\ p[w].left = {} /\ Empty
  /\ disk' = NoFolder
  /\ Goto(w, "mkdir")
  /\ UNCHANGED <<tag, lxdVars, faults>>

(* A folder that is not empty is not removed.  An error is only logged,    *)
(* and what is left stays.                                                 *)
RemoveFails(w) ==
  /\ At(w, "wipe")
  /\ Refused(p[w].left = {} /\ ~Empty, "wipe")
  /\ Goto(w, "mkdir")
  /\ UNCHANGED <<tag, disk, lxdVars>>

Mkdir(w) ==
  /\ At(w, "mkdir")
  /\ Goto(w, "manifest")
  /\ disk' = [disk EXCEPT !.folder = TRUE]
  /\ UNCHANGED <<tag, lxdVars, faults>>

MkdirFails(w) ==
  /\ At(w, "mkdir")
  /\ Fault("disk")
  /\ Return(w)
  /\ UNCHANGED tag

-----------------------------------------------------------------------------
(* The manifest and the layers. *)

GetManifest(w) ==
  /\ At(w, "manifest")
  /\ p' = [p EXCEPT ![w].man = tag, ![w].pc = "blobs",
                    ![w].blob = [l \in Layers |-> "todo"]]
  /\ UNCHANGED <<tag, disk, lxdVars, faults>>

GetManifestFails(w) ==
  /\ At(w, "manifest")
  /\ Fault("http")
  /\ Return(w)
  /\ UNCHANGED tag

(* The status of the answer is not looked at, and an error document        *)
(* decodes as a manifest without layers.                                   *)
GetErrorBody(w) ==
  /\ At(w, "manifest")
  /\ Fault("errorbody")
  /\ Goto(w, "blobs")
  /\ UNCHANGED <<tag, disk, lxdVars>>

(* A layer's goroutine gets its blob and opens the layer's file, which it  *)
(* does not truncate.                                                      *)
BlobBegins(w, l) ==
  /\ p[w].blob[l] = "todo"
  /\ disk.folder
  /\ SetBlob(w, l, "begun")
  /\ disk' = [disk EXCEPT !.file[l] = IF @ = p[w].man THEN @ ELSE Torn]
  /\ UNCHANGED <<tag, lxdVars, faults>>

(* What the layer's file holds once it is written: another puller may have *)
(* written another version into it, and what is left of a longer file      *)
(* stays at its end.                                                       *)
Written(w, l) ==
  IF \E v \in Pullers : p[v].blob[l] = "begun" /\ p[v].man # p[w].man
    THEN {Torn}
    ELSE {p[w].man} \union (IF "wipe" \in Faults THEN {Torn} ELSE {})

BlobWritten(w, l) ==
  /\ p[w].blob[l] \in {"begun", "orphan"}
  /\ p' = [p EXCEPT ![w].blob[l] = "append",
                    ![w].seen[l] = IF Racy THEN p[w].names ELSE {}]
  /\ IF p[w].blob[l] = "begun"
       THEN \E c \in Written(w, l) : disk' = [disk EXCEPT !.file[l] = c]
       ELSE UNCHANGED disk
  /\ UNCHANGED <<tag, lxdVars, faults>>

(* `p.FileNameList = append(p.FileNameList, ...)` without a lock: what the *)
(* other goroutine has added since the slice was read is lost.             *)
NamesKept(w, l) == IF Racy THEN p[w].seen[l] ELSE p[w].names

BlobEnds(w, l) ==
  /\ p[w].blob[l] = "append"
  /\ p' = [p EXCEPT ![w].blob[l] = "done",
                    ![w].names = NamesKept(w, l) \union {l}]
  /\ UNCHANGED <<tag, disk, lxdVars, faults>>

(* The request, the archive or the file fails: the goroutine sends its     *)
(* error to resChannel, which has room for it.                             *)
BlobFails(w, l) ==
  /\ p[w].blob[l] \in {"todo", "begun", "orphan"}
  /\ Refused(p[w].blob[l] = "todo" /\ ~disk.folder, "http")
  /\ SetBlob(w, l, "failed")
  /\ UNCHANGED <<tag, disk, lxdVars>>

(* The collecting goroutine moves an error from resChannel to results. *)
Collect(w, l) ==
  /\ p[w].blob[l] = "failed"
  /\ SetBlob(w, l, "reported")
  /\ UNCHANGED <<tag, disk, lxdVars, faults>>

Blobs(w, state) == {l \in Layers : p[w].blob[l] = state}

(* wg.Wait() has returned.  Nothing makes it wait for the collecting       *)
(* goroutine too; unless Racy, it is taken to be quick enough.             *)
AllEnded(w) ==
  /\ At(w, "blobs")
  /\ \A l \in Layers : p[w].blob[l] \in {"none", "done", "failed", "reported"}
  /\ Racy \/ Blobs(w, "failed") = {}

SomeFailed(w) ==
  /\ AllEnded(w)
  /\ Blobs(w, "reported") # {}
  /\ Return(w)
  /\ UNCHANGED <<tag, faults>>

(* Mutant of NoneFailed: one layer that came is enough. *)
NoneFailedBut(w) == Blobs(w, "reported") # Layers

NoneFailed(w) == Blobs(w, "reported") = {}

Tally(w) ==
  /\ AllEnded(w)
  /\ NoneFailed(w)
  /\ Goto(w, IF p[w].want = None THEN "digest" ELSE "write")
  /\ UNCHANGED <<tag, disk, lxdVars, faults>>

-----------------------------------------------------------------------------
(* The digest file. *)

GetDigest(w) ==
  /\ At(w, "digest")
  /\ \/ /\ p' = [p EXCEPT ![w].want = tag, ![w].pc = "write"]
        /\ UNCHANGED faults
     \/ Fault("http") /\ Goto(w, "import")
  /\ UNCHANGED <<tag, disk, lxdVars>>

(* A digest that cannot be written, or only in part, is only logged. *)
WriteDigest(w) ==
  /\ At(w, "write")
  /\ Goto(w, "import")
  /\ \/ disk.folder /\ disk' = [disk EXCEPT !.digest = p[w].want] /\ UNCHANGED faults
     \/ ~disk.folder /\ UNCHANGED <<disk, faults>>
     \/ Fault("disk") /\ UNCHANGED disk
     \/ Fault("disk") /\ disk.folder /\ disk' = [disk EXCEPT !.digest = Torn]
  /\ UNCHANGED <<tag, lxdVars>>

(* Mutant of WalkFolder: an unchanged image is not imported again. *)
WalkFolderAndStop(w) ==
  /\ At(w, "walk")
  /\ Return(w)
  /\ UNCHANGED <<tag, faults>>

(* GetFileList, when the folder is up to date. *)
WalkFolder(w) ==
  /\ At(w, "walk")
  /\ p' = [p EXCEPT ![w].pc = "import",
                    ![w].names = {l \in Layers : disk.file[l] # None}]
  /\ UNCHANGED <<tag, disk, lxdVars, faults>>

-----------------------------------------------------------------------------
(* The import into LXD: ImportLxdImages uploads the files named in         *)
(* FileNameList, ImportLxdImageAlias follows the operation and moves the   *)
(* alias.                                                                  *)

Upload(w) ==
  [l \in Layers |-> IF l \in p[w].names THEN disk.file[l] ELSE None]

(* The client refuses an upload without the metadata file, and a file that *)
(* is gone cannot be opened.                                               *)
CanUpload(w) ==
  /\ Meta \in p[w].names
  /\ \A l \in p[w].names : disk.file[l] # None

CreateImage(w) ==
  /\ At(w, "import")
  /\ CanUpload(w)
  /\ p' = [p EXCEPT ![w].pc = "poll", ![w].obj = Upload(w), ![w].op = "running"]
  /\ UNCHANGED <<tag, disk, lxdVars, faults>>

CreateImageFails(w) ==
  /\ At(w, "import")
  /\ Refused(~CanUpload(w), "lxd") \/ Fault("disk")
  /\ Return(w)
  /\ UNCHANGED tag

(* Mutant of HasFingerprint: the operation only has to exist. *)
HasFingerprintOrNot(w) == p[w].op \in {"running", "success"}

(* Mutant of HasFingerprint: an import that has failed is taken for one of *)
(* an image that LXD has.                                                  *)
HasFingerprintOrFailed(w) == p[w].op \in {"success", "failure"}

(* The operation's metadata names the new image's fingerprint.  Until it   *)
(* does, the puller sleeps and asks again, also when it has failed.        *)
HasFingerprint(w) == p[w].op = "success"

SeeFingerprint(w) ==
  /\ At(w, "poll")
  /\ HasFingerprint(w)
  /\ Goto(w, "unalias")
  /\ UNCHANGED <<tag, disk, lxdVars, faults>>

(* Mutant of OperationLost: only a request that fails ends the polling. *)
OperationLostOnFault(w) ==
  /\ At(w, "poll")
  /\ p[w].op = "gone"
  /\ Fault("lxd")
  /\ Return(w)
  /\ UNCHANGED tag

OperationLost(w) ==
  /\ At(w, "poll")
  /\ Refused(p[w].op = "gone", "lxd")
  /\ Return(w)
  /\ UNCHANGED tag

(* DeleteImageAlias: an error of the lookup counts as `there is none`. *)
DropAlias(w) ==
  /\ At(w, "unalias")
  /\ Goto(w, "alias")
  /\ \/ alias' = None /\ UNCHANGED faults
     \/ Fault("lxd") /\ UNCHANGED alias
  /\ UNCHANGED <<tag, disk, images, condemned>>

DropAliasFails(w) ==
  /\ At(w, "unalias")
  /\ alias # None
  /\ Fault("lxd")
  /\ Return(w)
  /\ UNCHANGED tag

(* LXD refuses an alias that exists and a target that does not. *)
CanAlias(w) == alias = None /\ p[w].obj \in images

SetAlias(w) ==
  /\ At(w, "alias")
  /\ CanAlias(w)
  /\ alias' = p[w].obj
  /\ p' = [p EXCEPT ![w] = Fresh]
  /\ UNCHANGED <<tag, disk, images, condemned, faults>>

SetAliasFails(w) ==
  /\ At(w, "alias")
  /\ Refused(~CanAlias(w), "lxd")
  /\ Return(w)
  /\ UNCHANGED tag

-----------------------------------------------------------------------------
(* The rest of the world. *)

(* LXD finishes an import.  It refuses an image it has and metadata it     *)
(* cannot read; it may refuse an image without a root file system.         *)
ImportSucceeds(w) ==
  /\ p[w].op = "running"
  /\ p[w].obj \notin images
  /\ p[w].obj[Meta] # Torn
  /\ images' = images \union {p[w].obj}
  /\ p' = [p EXCEPT ![w].op = "success"]
  /\ UNCHANGED <<tag, disk, condemned, alias, faults>>

ImportFails(w) ==
  /\ p[w].op = "running"
  /\ Refused(p[w].obj \in images \/ p[w].obj[Meta] = Torn \/ p[w].obj[Rootfs] = None,
             "lxd")
  /\ p' = [p EXCEPT ![w].op = "failure"]
  /\ UNCHANGED <<tag, disk, lxdVars>>

(* LXD forgets an operation some seconds after its end: as a rule after a  *)
(* puller that asks every second has seen its success.                     *)
OperationExpires(w) ==
  /\ At(w, "poll")
  /\ \/ p[w].op = "failure" /\ UNCHANGED faults
     \/ p[w].op = "success" /\ Fault("lxd")
  /\ p' = [p EXCEPT ![w].op = "gone"]
  /\ UNCHANGED <<tag, disk, lxdVars>>

(* LXD carries out a deletion, which takes the image's alias with it. *)
DeletionEnds(c) ==
  /\ c \in condemned
  /\ condemned' = condemned \ {c}
  /\ images' = images \ {c}
  /\ alias' = IF alias = c THEN None ELSE alias
  /\ UNCHANGED <<tag, disk, p, faults>>

DeletionFails(c) ==
  /\ c \in condemned
  /\ Fault("lxd")
  /\ condemned' = condemned \ {c}
  /\ UNCHANGED <<tag, disk, images, alias, p>>

Retag ==
  /\ Fault("retag")
  /\ tag' \in Versions \ {tag}
  /\ UNCHANGED <<disk, lxdVars, p>>

(* The manager is killed and starts again, once the imports it has begun   *)
(* have ended.  A digest file may have been cut short.                     *)
Crash ==
  /\ Fault("crash")
  /\ \/ UNCHANGED disk
     \/ /\ disk.folder /\ \E w \in Pullers : At(w, "write")
        /\ disk' = [disk EXCEPT !.digest = Torn]
  /\ \E done \in SUBSET {p[w].obj : w \in {v \in Pullers : p[v].op = "running"}} :
       images' = images \union done
  /\ p' = [w \in Pullers |-> Fresh]
  /\ UNCHANGED <<tag, condemned, alias>>

-----------------------------------------------------------------------------
Pull(w) ==
  \/ ListImages(w) \/ DeleteFound(w) \/ Cleaned(w)
  \/ NoDigest(w) \/ CompareDigest(w) \/ CompareDigestFails(w)
  \/ RemoveDigest(w) \/ RemoveFolder(w) \/ RemoveFails(w)
  \/ \E l \in Layers : RemoveLayer(w, l)
  \/ Mkdir(w) \/ MkdirFails(w)
  \/ GetManifest(w) \/ GetManifestFails(w) \/ GetErrorBody(w)
  \/ \E l \in Layers :
       BlobBegins(w, l) \/ BlobWritten(w, l) \/ BlobEnds(w, l) \/ BlobFails(w, l)
         \/ Collect(w, l)
  \/ SomeFailed(w) \/ Tally(w)
  \/ GetDigest(w) \/ WriteDigest(w) \/ WalkFolder(w)
  \/ CreateImage(w) \/ CreateImageFails(w)
  \/ SeeFingerprint(w) \/ OperationLost(w)
  \/ DropAlias(w) \/ DropAliasFails(w) \/ SetAlias(w) \/ SetAliasFails(w)

Lxd ==
  \/ \E w \in Pullers : ImportSucceeds(w) \/ ImportFails(w) \/ OperationExpires(w)
  \/ \E c \in condemned : DeletionEnds(c) \/ DeletionFails(c)

Next ==
  \/ \E w \in Pullers : Start(w) \/ Pull(w)
  \/ Lxd
  \/ Retag
  \/ Crash

Spec == Init /\ [][Next]_vars

(* Fairness: goroutines that can run do, requests to the registry and to   *)
(* LXD are answered, LXD ends and forgets its operations and carries out   *)
(* its deletions, and the manager pulls the image again and again          *)
(* (ImageHandler!ListedImageAttempted).                                    *)
FairSpec ==
  /\ Spec
  /\ \A w \in Pullers : WF_vars(Start(w)) /\ WF_vars(Pull(w))
  /\ \A w \in Pullers :
       WF_vars(ImportSucceeds(w) \/ ImportFails(w) \/ OperationExpires(w))
  /\ \A c \in Image : WF_vars(DeletionEnds(c))

-----------------------------------------------------------------------------
(* Safety. *)

(* The digest file is written only when every layer's file is there and    *)
(* whole, and all are of one version, whatever failed, was cut short or    *)
(* moved during this pull and those before (puller.go, DownloadImage).     *)
DigestWrittenOverWhole ==
  [][disk'.digest \in Versions /\ disk'.digest # disk.digest =>
       \E v \in Versions : disk'.file = Whole(v)]_vars

(* No part of an image in LXD is torn, and no two parts are of different   *)
(* versions: a folder may have lost a layer when it is imported, but never *)
(* holds two versions under a digest file (image.go, ImportLxdImages).     *)
ImportsUnmixed ==
  \A i \in images : i[Meta] \in Versions /\ i[Rootfs] \in {i[Meta], None}

(* A pull that skips the download finds the data in the folder (puller.go, *)
(* DownloadImage: `Data exists, no need to download repeatedly`).          *)
SkippedDataExists ==
  \A w \in Pullers : At(w, "walk") => \E v \in Versions : disk.file = Whole(v)

(* `Delete unused images` spares the image in use: none that the alias     *)
(* names is being deleted (puller.go, DownloadImage; image.go,             *)
(* DeleteInvalidImages).                                                   *)
CleanupSparesAliased == alias \notin condemned

(* The alias is taken from an image only once LXD has another image to     *)
(* give it to, so that launchers find nothing only while the alias moves;  *)
(* in particular no pull that fails and no deletion takes it (image.go,    *)
(* ImportLxdImageAlias).                                                   *)
AliasDroppedForSuccessor ==
  [][alias # None /\ alias' = None =>
       \E w \in Pullers : At(w, "unalias") /\ p[w].obj \in images \ condemned]_vars

-----------------------------------------------------------------------------
(* Refinement. *)

(* The image that a puller is about to name. *)
Heir ==
  IF \E w \in Pullers : p[w].pc \in {"unalias", "alias"}
    THEN p[CHOOSE w \in Pullers : p[w].pc \in {"unalias", "alias"}].obj
    ELSE None

Store == INSTANCE ImageStore WITH Images <- Image, heir <- Heir

(* To launchers a pull with all its requests, failures and crashes is one  *)
(* of ImageStore: the image under the alias stays while it is in use, and  *)
(* only another that LXD has and does not delete takes its place           *)
(* (image.go, ImportLxdImageAlias, DeleteInvalidImages).                   *)
StoreContract == Store!Spec

-----------------------------------------------------------------------------
(* Liveness. *)

(* Every pull ends: in particular the one that follows an operation that   *)
(* has failed, whose metadata never names a fingerprint (image.go,         *)
(* ImportLxdImageAlias; puller.go, DownloadImage).                         *)
PullEnds == \A w \in Pullers : p[w].pc # "idle" ~> p[w].pc = "idle"

(* The folder claims to hold the version of the tag, and does not. *)
Stale == disk.digest = tag /\ disk.file # Whole(tag)

(* Pulling again and again, whatever went wrong before, in the end gives   *)
(* launchers the image of the tag, unless a folder is left that claims to  *)
(* be it: by a tag that moved between the requests of one pull, or that    *)
(* moved back after a crash within RemoveAll (puller.go, DownloadImage).   *)
Converges == <>[](alias = Whole(tag)) \/ <>[]Stale
=============================================================================
