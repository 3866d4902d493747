--------------------------- MODULE RegistryClient ---------------------------
(***************************************************************************)
(* How pullers are built and how they ask the registry (image/puller.go,   *)
(* Handler.GetImagePuller, image/load.go).                                 *)
(*                                                                         *)
(* A puller has a token for the repository of its image, but no HTTP       *)
(* client: httpClient is a variable of the package, and each new puller    *)
(* replaces it by one that asks with its own authority.  So every request  *)
(* of a process goes out under the puller built last in that process: its  *)
(* token if the registry is its own, refreshed first when it has expired,  *)
(* and no token otherwise.  The workers of `launcher manage` share one     *)
(* process; `launcher load` is a process with one puller.                  *)
(*                                                                         *)
(* The pull is reduced to its requests and to what they leave behind: the  *)
(* digest file and what it was written over; module ImagePull has the rest.*)
(* A request is one step: its authority is settled when the transport sets *)
(* the header, and but for the faults the answer depends on nothing else.  *)
(* The requests of the layers count as one: one that is refused fails the  *)
(* pull.                                                                   *)
(* Faults names what may go wrong, at most MaxFaults times in a behaviour: *)
(*   "http"       the registry, or the server of the tokens, does not      *)
(*                answer, or refuses where the status is looked at         *)
(*   "errorbody"  the registry answers an authorised request for a manifest*)
(*                with an error document: it is busy, has lost the tag, or *)
(*                finds that the token has expired on the way or by its own*)
(*                clock                                                    *)
(*   "retag"      a tag moves to another version                           *)
(***************************************************************************)
EXTENDS Integers

CONSTANTS
  Workers,      \* the goroutines that build pullers
  Processes,    \* the processes they run in
  Home,         \* the process of each worker
  Loaders,      \* the workers that are a `launcher load`
  Images,       \* image names
  Kind,         \* what each name says about its registry
  Repo,         \* what a token of each image is good for: its name without the tag
  NoWorker,     \* marks a process that has not built a puller yet
  NoImage,      \* marks a worker that pulls nothing
  Faults,       \* see above
  MaxFaults

(* "swr" and "docker" name a registry, "plain" names none, "malformed" has *)
(* no region before its first slash or too many colons.                    *)
Kinds == {"swr", "docker", "plain", "malformed"}

ASSUME HomeAssumption == Home \in [Workers -> Processes] /\ Loaders \subseteq Workers
ASSUME NoneAssumption == NoWorker \notin Workers /\ NoImage \notin Images
ASSUME ImagesAssumption ==
  Kind \in [Images -> Kinds] /\ Images \subseteq DOMAIN Repo
ASSUME FaultsAssumption == Faults \subseteq {"http", "errorbody", "retag"} /\ MaxFaults \in Nat

VARIABLES
  client,   \* of each process: the worker whose last puller made httpClient
  puller,   \* of each worker: the puller it has built last
  pull,     \* of each worker: where it is
  folder,   \* of each image: what its digest file was written over, if it has one
  current,  \* of each image: the digest file names the registry's version
  faults    \* faults so far

vars == <<client, puller, pull, folder, current, faults>>

(* A puller: its image, whether authEndpoint is set, and registryToken. *)
PullerType == [image : Images \union {NoImage}, endpoint : BOOLEAN,
               token : {"none", "valid", "expired"}]

PC == {"idle", "new", "endpoint", "token", "check", "manifest", "blobs", "digest", "write"}

(* What a download has got: nothing yet, the layers, or no layers because  *)
(* a refusal for want of authority or an error document was decoded as the *)
(* manifest.                                                               *)
Contents == {"none", "layers", "refusal", "error"}

(* digest: whether imageDigest is set, and if the tag has moved since. *)
PullType == [pc : PC, image : Images \union {NoImage}, got : Contents,
             digest : {"none", "tag", "old"}]

Idle == [pc |-> "idle", image |-> NoImage, got |-> "none", digest |-> "none"]

TypeOK ==
  /\ client \in [Processes -> Workers \union {NoWorker}]
  /\ puller \in [Workers -> PullerType]
  /\ pull \in [Workers -> PullType]
  /\ folder \in [Images -> Contents]
  /\ current \in [Images -> BOOLEAN]
  /\ faults \in 0..MaxFaults

Init ==
  /\ client = [q \in Processes |-> NoWorker]
  /\ puller = [w \in Workers |-> [image |-> NoImage, endpoint |-> FALSE, token |-> "none"]]
  /\ pull = [w \in Workers |-> Idle]
  /\ folder \in [Images -> {"none", "layers"}]
  /\ current = [i \in Images |-> FALSE]
  /\ faults = 0

-----------------------------------------------------------------------------
(* Helpers of the actions. *)

Fault(kind) ==
  /\ kind \in Faults
  /\ faults < MaxFaults
  /\ faults' = faults + 1

At(w, pc) == pull[w].pc = pc
Goto(w, pc) == pull' = [pull EXCEPT ![w].pc = pc]
Return(w) == pull' = [pull EXCEPT ![w] = Idle]

-----------------------------------------------------------------------------
(* Building a puller. *)

(* A worker is given an image, or a `load` is started with one.  Two pulls *)
(* of one image at the same time are left to ImagePull.                    *)
Begin(w, i) ==
  /\ At(w, "idle")
  /\ \A v \in Workers : pull[v].image # i
  /\ pull' = [pull EXCEPT ![w].pc = "new", ![w].image = i]
  /\ UNCHANGED <<client, puller, folder, current, faults>>

(* The type is read off the name: the manager takes what does not name SWR *)
(* for an image of Docker Hub, `load` wants the registry to be named.      *)
Unsupported(w) ==
  LET kind == Kind[pull[w].image]
  IN  kind = "malformed" \/ (w \in Loaders /\ kind = "plain")

BuildRefused(w) ==
  /\ At(w, "new")
  /\ Unsupported(w)
  /\ Return(w)
  /\ UNCHANGED <<client, puller, folder, current, faults>>

(* Mutant of Built: a worker keeps the puller it has. *)
BuiltOnce(w) ==
  IF puller[w].image = NoImage
    THEN [image |-> pull[w].image, endpoint |-> FALSE, token |-> "none"] ELSE puller[w]

Built(w) == [image |-> pull[w].image, endpoint |-> FALSE, token |-> "none"]

(* newImagePuller: the new puller is not yet told where to ask for tokens, *)
(* but the package's client is its own already.                            *)
NewPuller(w) ==
  /\ At(w, "new")
  /\ ~Unsupported(w)
  /\ puller' = [puller EXCEPT ![w] = Built(w)]
  /\ client' = [client EXCEPT ![Home[w]] = w]
  /\ Goto(w, "endpoint")
  /\ UNCHANGED <<folder, current, faults>>

SetEndpoint(w) ==
  /\ At(w, "endpoint")
  /\ puller' = [puller EXCEPT ![w].endpoint = TRUE]
  /\ Goto(w, "token")
  /\ UNCHANGED <<client, folder, current, faults>>

(* The first refreshToken; without a token the puller is thrown away, and  *)
(* its client is not.                                                      *)
FirstToken(w) ==
  /\ At(w, "token")
  /\ \/ /\ puller' = [puller EXCEPT ![w].token = "valid"]
        /\ Goto(w, "check")
        /\ UNCHANGED faults
     \/ Fault("http") /\ Return(w) /\ UNCHANGED puller
  /\ UNCHANGED <<client, folder, current>>

-----------------------------------------------------------------------------
(* A request of w, which goes out under the puller that owns the client.   *)

Owner(w) == client[Home[w]]

(* Mutant of Refreshed: the token is only looked at for being there. *)
RefreshedIfNone(o) ==
  IF puller[o].token = "none" THEN [puller EXCEPT ![o].token = "valid"] ELSE puller

(* The transport renews a token that is missing or has expired. *)
Refreshed(o) == [puller EXCEPT ![o].token = "valid"]

(* The transport gives up on a token it cannot renew. *)
CannotRefresh(o) == puller[o].token # "valid" /\ ~puller[o].endpoint

(* The repositories of one registry differ in their tokens; a registry     *)
(* refuses a request with the wrong token or without one.                  *)
Authorised(w) ==
  /\ Repo[puller[Owner(w)].image] = Repo[pull[w].image]
  /\ Refreshed(Owner(w))[Owner(w)].token = "valid"

Asked(w) ==
  /\ ~CannotRefresh(Owner(w))
  /\ puller' = Refreshed(Owner(w))
  /\ UNCHANGED faults

Granted(w) == Authorised(w) /\ Asked(w)

(* There is no answer: every request is checked for that, the manifest too.*)
Unanswered(w) ==
  /\ \/ CannotRefresh(Owner(w)) /\ UNCHANGED faults
     \/ Fault("http")
  /\ UNCHANGED puller

(* The request also fails where its status is looked at. *)
Refused(w) == (~Authorised(w) /\ Asked(w)) \/ Unanswered(w)

(* The pull. *)

NoDigest(w) ==
  /\ At(w, "check")
  /\ folder[pull[w].image] = "none"
  /\ Goto(w, "manifest")
  /\ UNCHANGED <<client, puller, folder, current, faults>>

(* The registry's digest: the folder is up to date, or is removed. *)
Check(w) ==
  LET i == pull[w].image IN
  /\ At(w, "check")
  /\ folder[i] # "none"
  /\ Granted(w)
  /\ IF current[i]
       THEN Return(w) /\ UNCHANGED folder
       ELSE /\ pull' = [pull EXCEPT ![w].pc = "manifest", ![w].digest = "tag"]
            /\ folder' = [folder EXCEPT ![i] = "none"]
  /\ UNCHANGED <<client, current>>

CheckFails(w) ==
  /\ At(w, "check")
  /\ folder[pull[w].image] # "none"
  /\ Refused(w)
  /\ Return(w)
  /\ UNCHANGED <<client, folder, current>>

(* Mutant of AfterBlobs: the puller stops where nothing takes it on. *)
AfterBlobsStop(w) == IF pull[w].digest = "none" THEN "done" ELSE "write"

AfterBlobs(w) == IF pull[w].digest = "none" THEN "digest" ELSE "write"

(* The download ends, with something or nothing in the folder. *)
Downloaded(w, what) ==
  pull' = [pull EXCEPT ![w].pc = AfterBlobs(w), ![w].got = what]

(* The status of the manifest is not looked at: a refusal is decoded too,  *)
(* and has no layers to ask for.                                           *)
Manifest(w) ==
  /\ At(w, "manifest")
  /\ Asked(w)
  /\ IF Authorised(w) THEN Goto(w, "blobs") ELSE Downloaded(w, "refusal")
  /\ UNCHANGED <<client, folder, current>>

(* Nor is the status of an error that has nothing to do with the token. *)
ManifestError(w) ==
  /\ At(w, "manifest")
  /\ Authorised(w)
  /\ ~CannotRefresh(Owner(w))
  /\ puller' = Refreshed(Owner(w))
  /\ Fault("errorbody")
  /\ Downloaded(w, "error")
  /\ UNCHANGED <<client, folder, current>>

Blobs(w) ==
  /\ At(w, "blobs")
  /\ Granted(w)
  /\ Downloaded(w, "layers")
  /\ UNCHANGED <<client, folder, current>>

PullFails(w) ==
  /\ \/ At(w, "manifest") /\ Unanswered(w)
     \/ At(w, "blobs") /\ Refused(w)
  /\ Return(w)
  /\ UNCHANGED <<client, folder, current>>

Digest(w) ==
  /\ At(w, "digest")
  /\ Granted(w)
  /\ pull' = [pull EXCEPT ![w].pc = "write", ![w].digest = "tag"]
  /\ UNCHANGED <<client, folder, current>>

(* Without a digest no digest file is written. *)
DigestFails(w) ==
  /\ At(w, "digest")
  /\ Refused(w)
  /\ Return(w)
  /\ UNCHANGED <<client, folder, current>>

WriteDigest(w) ==
  LET i == pull[w].image IN
  /\ At(w, "write")
  /\ folder' = [folder EXCEPT ![i] = pull[w].got]
  /\ current' = [current EXCEPT ![i] = pull[w].digest = "tag"]
  /\ Return(w)
  /\ UNCHANGED <<client, puller, faults>>

-----------------------------------------------------------------------------
(* Time and the registry. *)

(* By the clock of the puller.  A token that only the registry finds to    *)
(* have expired makes a request fail: "http", or "errorbody" for manifests.*)
Expire(w) ==
  /\ puller[w].token = "valid"
  /\ puller' = [puller EXCEPT ![w].token = "expired"]
  /\ UNCHANGED <<client, pull, folder, current, faults>>

Retag(i) ==
  /\ Fault("retag")
  /\ current' = [current EXCEPT ![i] = FALSE]
  /\ pull' = [w \in Workers |->
                IF pull[w].image = i /\ pull[w].digest = "tag"
                  THEN [pull[w] EXCEPT !.digest = "old"] ELSE pull[w]]
  /\ UNCHANGED <<client, puller, folder>>

-----------------------------------------------------------------------------
Pull(w) ==
  \/ BuildRefused(w) \/ NewPuller(w) \/ SetEndpoint(w) \/ FirstToken(w)
  \/ NoDigest(w) \/ Check(w) \/ CheckFails(w)
  \/ Manifest(w) \/ ManifestError(w) \/ Blobs(w) \/ PullFails(w)
  \/ Digest(w) \/ DigestFails(w) \/ WriteDigest(w)

Next ==
  \/ \E w \in Workers : Pull(w) \/ Expire(w)
  \/ \E w \in Workers, i \in Images : Begin(w, i)
  \/ \E i \in Images : Retag(i)

Spec == Init /\ [][Next]_vars

(* Fairness: a worker that can go on does, and the manager gives each      *)
(* image to its workers again and again (ImageHandler!ListedImageAttempted)*)
(* whatever else they pull.  Nobody has to start a `load`.                 *)
FairSpec ==
  /\ Spec
  /\ \A w \in Workers : WF_vars(Pull(w))
  /\ \A i \in Images : SF_vars(\E w \in Workers \ Loaders : Begin(w, i))

-----------------------------------------------------------------------------
(* Safety. *)

(* When a worker is about to ask the registry, the client of its process   *)
(* asks for that worker's repository: no other puller has been built since *)
(* its own (puller.go, httpClient and newImagePuller).  It is what makes   *)
(* one worker in each process safe; the flag for more is cmd/manage.go's.  *)
AsksWithOwnToken ==
  \A w \in Workers :
    pull[w].pc \in {"check", "manifest", "blobs", "digest"} =>
      Repo[puller[Owner(w)].image] = Repo[pull[w].image]

(* A refusal for want of authority never ends as a digest file, under      *)
(* which later pulls would call the image unchanged (puller.go,            *)
(* getImageBlobs, which does not look at the status, and DownloadImage).   *)
NoRefusalTaken == \A i \in Images : folder[i] # "refusal"

(* A digest file is never written over a folder without layers, whatever   *)
(* the registry has answered (puller.go, DownloadImage and getImageBlobs;  *)
(* the log message `download image %s:%s successfully finished`).          *)
NoHollowImage == \A i \in Images : folder[i] \in {"none", "layers"}

-----------------------------------------------------------------------------
(* Liveness. *)

(* Tokens may expire at any moment, any number of times, and a puller that *)
(* could not be built leaves its client behind: once tags rest, servers    *)
(* answer and nobody runs `load` any more, every image that can be named   *)
(* is downloaded under its present digest and stays (puller.go, tokenValid,*)
(* refreshToken and the transport's callback).  An error document that was *)
(* taken for the manifest of the present version stays too: such an image  *)
(* is not downloaded until its tag moves.                                  *)
Synchronises ==
  (\A w \in Loaders : <>[]At(w, "idle")) =>
    \A i \in Images :
      Kind[i] # "malformed" => <>[](folder[i] \in {"layers", "error"} /\ current[i])
=============================================================================
