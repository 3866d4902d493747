# Formal model of lxc-launcher

This directory holds TLA+ modules that model the two programs of this
repository, the TLC configurations that check them, and proofs checked by
TLAPS.

    tlc -config MCImageHandler.cfg MCImageHandler      # model checking
    tlapm ImageHandlerProofs.tla                       # proofs
    tlapm ImagePullProofs.tla
    tlapm InstancesProofs.tla
    tlapm ServingProofs.tla
    tlapm RegistryClientProofs.tla
    tlapm ResourceLimitsProofs.tla

## 1. The system

`lxc-launcher` is one binary with two long-running commands.

* `manage` runs once on each node (*LXC manager*). It keeps the images of an
  LXD server in step with a container registry and deletes instances nobody
  needs any more.
* `launch` runs in a Kubernetes pod, once for each LXD instance (*LXC
  launcher*). It creates and starts the instance, proxies ports to it with
  `socat`, answers health probes, and deletes the instance when it is told to
  end.

`load` runs a single image pull by hand. All of them share one LXD server and
coordinate through nothing else: no lock, no common store. The collector also
reads the list of pods from Kubernetes.

### Inventory

| component | source | state | operations | interacts with | what is hard |
|---|---|---|---|---|---|
| image synchronisation loop | `image/handler.go`, `cmd/manage.go`, `util/util.go` | channels `imageCh`, `closeCh`, each worker's `readyCh`; ticker; worker contexts | `StartLoop`, `FakeLoop`, `Close`, `pushImageLoadTask`, `pullingImage`, `handleSignals` | metadata endpoint; starts pulls and collections | one producer and many workers on a bounded channel, shutdown while workers are busy |
| image pull and import | `image/puller.go`, `image/image.go` | folder of the image with `manifest_digest`; `FileNameList`, `resChannel`, `results`; images and alias in LXD | `DownloadImage`, `getImageBlobs`, `downloadBlob`, `ImportLxdImages`, `ImportLxdImageAlias`, `DeleteInvalidImages` | registry, disk, LXD | goroutines sharing slices, every request may fail, crashes, a tag that moves, two workers and one LXD |
| instance launch and clean-up | `cmd/launch.go`, `lxd/client.go` | the instance in LXD; proxy and prober of the process | `validateLaunch`, `createInstance`, `LaunchInstance`, `StopInstance`, `CleanupLaunch` | LXD, Kubernetes signals, proxy, prober | two goroutines race to end the process; the collector acts on the same instance |
| instance garbage collection | `lxd/client.go` `DeleteInstances` | lists of instances and pods while it runs | two passes of deletions | LXD, Kubernetes | acts on lists that grow old |
| network proxy | `network/proxy.go` | `closed`, `CloseChannel`, retries per port | `StartLoop`, `PerformProxy`, `Close` | `socat`, signals its own process | flags without locks, end of retries, end of process |
| prober | `task/prober.go` | count of failures | `StartLoop`, `Alive`, `Close` | LXD, health server, and through it Kubernetes | an LXD that does not answer against an instance that is down |
| registry authentication | `image/puller.go`, `image/handler.go` | token and expiry of each puller, the package variable `httpClient` | `newImagePuller`, `refreshToken`, `tokenValid`, the transport's callback | registry and token server | one client variable for all pullers, tokens that expire during a pull |
| resource limits | `lxd/client.go`, `util/util.go` | configuration and devices of the instance in LXD | `ValidateResourceLimit`, `ApplyResourceLimit`, `MergeConfigs`, `MergeDeviceConfigs` | LXD and its other clients | read, merge and write of a shared record; units and prefixes |
| load command | `cmd/load.go`, `image/load.go` | none of its own | one pull | registry, LXD | - |
| command line, logging, file and time helpers, image packing | `main.go`, `cmd/`, `log/`, `common/`, `image/tarpack.go` | none | - | - | input/output only |

### What makes each component correct

* Loop: an arrangement is all or nothing and never blocks the loop; images are
  taken in order and once; a worker neither loses nor doubles its token; the
  process ends; what stays listed is attempted again.
* Pull: the digest file is written only over a complete folder; no image in LXD
  mixes versions; the image in use stays; every pull ends; repeated pulls
  converge.
* Launch and collection: only what has no pod is collected; a pod that is told
  to end does; nothing is left behind for ever.
* Proxy, prober, signals: a launcher ends when its instance is down, a port has
  given up or its pod is to end, and for no other reason.
* Authentication: each request goes out with the authority of the pull that
  makes it, and neither a refusal nor an expired token costs an image.
* Limits: an instance runs with the limits of the launch that started it; what
  other clients of LXD have set is not lost.

## 2. The modules

| module | models | kind |
|---|---|---|
| `JobQueue` | what the loop promises: a bounded FIFO filled by whole batches | abstract specification |
| `ImageHandler` | the process of `manage`: main goroutine, workers, channels, ticker, signal goroutine | system |
| `ImageHandlerProofs` | theorems about `ImageHandler` | proofs |
| `ImageStore` | what pulls promise to launchers: the image in use stays until another takes its name | abstract specification |
| `ImagePull` | `DownloadImage` and the LXD import, the step `"pull"` of `ImageHandler` | system |
| `ImagePullProofs` | theorems about `ImagePull` | proofs |
| `Instances` | launchers, collector, LXD instances and pods; the step `"gc"` of `ImageHandler` | system |
| `InstancesProofs` | theorems about `Instances` | proofs |
| `Serving` | the goroutines of one launcher while it serves: proxy, ports, prober, health, signal handler; instantiates `Instances` | composition, refinement |
| `ServingProofs` | theorems about `Serving`, the refinement among them | proofs |
| `RegistryClient` | pullers, their tokens and the HTTP client they share, in `manage` and `load` | system |
| `RegistryClientProofs` | theorems about `RegistryClient` | proofs |
| `ResourceLimits` | limits from the flags to LXD, over many launches of one instance | algorithms and system |
| `ResourceLimitsProofs` | theorems about `ResourceLimits` | proofs |
| `MCImageHandler`, `MCImagePull`, `MCInstances`, `MCServing`, `MCRegistryClient`, `MCResourceLimits` | values for TLC | model values |

How they fit: `ImageHandler` has the steps `"puller"`, `"pull"` and `"gc"` of
which `RegistryClient`, `ImagePull` and `Instances` are the insides; `Serving`
is the inside of the launcher state `"serve"` of `Instances`, and is checked and
proved to implement it; `ResourceLimits` is the inside of its steps `"create"` to
`"start"`.

### ImageHandler

`loop`, `signal` and `worker[w]` are the program counters of the goroutines;
`imageCh`, `tick`, `readyCh[w]` and `closed` are the channels: a sequence, a
flag for a channel of one slot, a number of tokens, a flag for a closed
channel. `job[w]` is the image a worker has received. Each case of a `select`
is an action; a receive is enabled when there is something to receive, a send
when there is room. `pending` is what `pushImageLoadTask` has still to send.
The answer of the metadata endpoint is any sequence of `Lists`. Sleeps are
steps that may take any time. The end of the process is `alive = FALSE`, after
which nothing moves. `StartLoop` that fails at its first list ends the process
(`loop = "returned"`), as in the code.

### ImagePull

One image of the registry. `disk` is the image's folder: whether it exists, the
content of `manifest_digest`, and one file for each layer. An LXD image *is* its
content, as LXD names images by a hash of it; so "import of an image that is
there" and "an alias of a deleted image" mean what they do in LXD. `p[w]` holds
what a puller knows; it is fresh for each pull, as the code makes a new
`Puller`. Every request to the registry or to LXD is a step; those of
`DeleteInvalidImages` are a list and then single deletions, which LXD carries
out in the background because the code does not wait for them.

To launchers only the images and the alias matter: `ImageStore` is what they can
rely on. Its `heir` is a state function of `ImagePull` (`Heir`), the image of a
puller that has seen its import succeed and is about to move the alias. The run
`pull_cleanup` has two pullers and is outside of it.

`os.RemoveAll` lists the folder and takes one entry after the other
(`RemoveDigest`, `RemoveLayer`, in any order, what is still to go in
`p[w].left`) and then the folder itself if it is empty (`RemoveFolder`,
`RemoveFails`). A crash may come between any two of them and leave, for example,
the digest file over a folder that has lost a layer. An entry that another puller
adds after the list makes the last step fail, which is only logged.

The two unlocked slices of `DownloadImage` get the outcomes the Go memory model
allows: with `"race"` in `Faults` the collecting goroutine may not have run when
the errors are counted (`AllEnded`), and an append may lose what another
goroutine has appended since it read the slice (`NamesKept`). Without it the
goroutines are quick enough; both are checked. A file opened by one puller and
removed by another is written without a name (`Orphaned`).

LXD is external. It refuses an import it has, metadata that cannot be read, an
alias that exists and an alias without a target; deleting an image deletes its
alias. It forgets an operation some time after its end. That it forgets a
*success* before a puller that asks every second has seen it counts as a fault.
An import nobody follows any more ends at once.

### Instances

`inst[n]` is an instance's state in LXD and whether its last use is long ago
(`DEL_STOPPED_TIME`); an instance never started is of old. `launcher[n]` is the
main goroutine of its launcher, `cleaner[n]` the signal goroutine, `gc` the
collector. `StopInstance` is two steps, the forced stop and the deletion, for
each of its four callers, so that the others can come between. A signal ends
the process at once until `ListenSignals` has been called, and starts
`CleanupLaunch` in its own goroutine afterwards; from then on the process may
end at any moment (`ProcessEnds`), as `StartLoop` returns when the proxy is
closed. `Contains` is the containment of names by which the collector matches
pods and instances. Names of pods are not used again, except by the fault
`"reborn"`, which no run takes. The zero values that `make` puts at the head of
`instanceList` (`client.go:528`) are in `gc.kept` as `NoName`, once, as they are
all alike: every pod's name contains the empty name (`Matches`), so they go with
the first pod that is listed; without a pod the collector asks LXD for an
instance without a name, which it does not have (`CollectZero`).
The collector looks only at pods whose name begins with `res` (`ResNames`). A
launcher with a start command (`Commanded`) runs it before anything else; if it
fails the launcher ends and leaves a running instance behind.

### Serving

One launcher with its goroutines. `proc` is the state of the process: the
program counters of main (`loop`), of the handler and of each port, the unlocked
flag `closed`, the channel, the one slot of `sigChan` (`signaled`), the count of
failed probes. Everything else (`inst`, `pod`, `launcher`, `gc`, `faults`) is
`Instances`, whose actions are used as they are: before `ListenSignals` by
`KeepsPace`, and conjoined to the handler's steps in `StopInstance`. `cleaner` is
not a variable but a state function, the refinement mapping: the handler counts
as cleaning from the moment a signal waits for it. A port reads `closed` as it is
or as it was. The property `ImplementsLife` says that every behaviour of the
goroutines is one of the launcher of `Instances`.

### RegistryClient

`client[q]` is the package variable of process `q`: the worker that built its
puller last. `puller[w]` has the token and whether `authEndpoint` is set, which
comes after the client has been replaced (`NewPuller`, `SetEndpoint`,
`FirstToken`). A request of `w` goes out under `puller[client[Home[w]]]`: refreshed
first if its token has expired, refused by the registry if it is for another
repository. The manifest's status is not looked at, so any answer with a document
is taken for a manifest: `got` says what the download has got, the layers, or
nothing because a refusal for want of authority (`Manifest`) or another error
(`ManifestError`: a 429, a 5xx, a 404) was decoded; and `folder[i]` over
which of them the digest file was written. All other requests look at their
status, and an error there is no answer (`"http"`). A token expires by the clock
of the puller (`Expire`); one that only the registry finds to have expired, by
its clock or on the way, makes the request fail like these. A `load` is a process
with one worker.

### ResourceLimits

Values are a number and the unit behind it, a sequence of texts that the code
extends (`<<"M">>` becomes `<<"M", "bit">>`); `Valid`, `Configs` and
`DeviceLimits` are `ValidateResourceLimit`, with the conditions of the code on
the wrong limit (`IngressAsIs`, `IngressPrefixed`). `Percent` is the `%0.0f%%`
of Go: to the nearest percent, and of two as near to the even one, but for
0.545 and 0.575, which as binary fractions lie on the other side of the middle
than their decimal digits. Given percentages are written as they are, whatever
their size: only their form is looked at. The launcher then walks
through `validateLaunch`, `createInstance` and `LaunchInstance` as far as they
read or write configuration; each of its steps may be its last (`GiveUp`),
after which another launch with other flags may follow. Another client of LXD
edits options, starts, stops and deletes. LXD is external: it refuses a write
whose ETag is not that of the instance, and a device without a type.

## 3. The runs

| run | bounds | shows |
|---|---|---|
| `handler` | 2 workers, channel of 2, answers of length 0 to 3 with repetitions | `TypeOK`, `RoomReserved`, `ReadyTokenOnce`, `CancelOnlyWhenIdle`; implements `JobQueue`; `ShutdownCompletes`, `ListedImageAttempted` |
| `pull_faults` | 1 puller, 2 versions, 2 layers, 3 faults of `http disk lxd crash retag` | `TypeOK`, `DigestWrittenOverWhole`, `ImportsUnmixed`, `CleanupSparesAliased`, `AliasDroppedForSuccessor`, `Converges`; implements `ImageStore` (`StoreContract`) |
| `pull_pair` | 2 pullers on one image, 1 version, an error document | `PullEnds` |
| `instances` | 2 instances, pod `b` contains name `a`, one launcher with proxy and `--remove-existing`, the other with a start command, 1 fault of `lxd network proxy kill podconf` | `TypeOK`, `CollectsOnlyUnmanaged`, `PodEnds`, `OrphansCollected` |
| `serving` | 2 ports, 1 run of `socat` each, 2 failing probes tolerated, 2 unanswered ones in a row, 1 fault of `lxd proxy kill` | `TypeOK`, `DeadMeansDown`; implements `Instances` (`ImplementsLife`); `DownEnds`, `NoPortLeftDead`, `PodEnds` |
| `registry` | `manage` with 1 worker and a `load`, 3 names (SWR, no registry, malformed), 2 faults of `http errorbody retag`, any number of expiries | `TypeOK`, `AsksWithOwnToken`, `NoRefusalTaken`, `Synchronises` |
| `limits` | 6 sets of flags, profiles of 2 devices, 2 options and 1 device option edited, any number of launches | `TypeOK`, `InForce`, `NoLeftovers`, `KeepsEdits` |

Four of the runs below refute a comment or log message of the source;
`instances_podlist` refutes a sentence of the program's README.

| run | refuted | what happens |
|---|---|---|
| `pull_race` | `SkippedDataExists` | `len(results)` (`puller.go:294`) is read before the collecting goroutine has run: a failed layer goes unnoticed, the digest file is written, and the next pull says of a folder without the layer `Data exists, no need to download repeatedly` (`puller.go:317`) |
| `registry_shared` | `NoRefusalTaken` | with two workers in one process the puller one builds replaces the client of the other (`puller.go:114`), whose manifest request is refused; the refusal decodes as a manifest without layers (`puller.go:342`), the digest file is written over an empty folder, and later pulls call it unchanged |
| `pull_cleanup` | `CleanupSparesAliased` | with two workers one deletes the image the other is about to give its alias |
| `instances_podlist` | `CollectsOnlyUnmanaged` | the list of pods fails (`client.go:562`) and every instance counts as unmanaged |
| `instances_sweep` | `SweepsOnlyStopped` | an instance is listed as created, is started, and is then stopped and deleted |

Why the bounds are enough. Two workers show everything workers do to each other
through `imageCh`; a channel of two distinguishes a list that fits, that fits
only when the channel is empty, and that never fits. Two versions distinguish
stale from current, two layers complete from incomplete; three faults reach,
for example, a crash in the middle of a download, a tag that moves and a
request that fails in the pull after. With two pods one of which contains the
other's name the collector meets every combination of own, foreign and no pod.
Runs of `Instances` and `Serving` do not check deadlock: without pods nothing is
bound to happen there.

In `serving` two ports may signal at once while Kubernetes does, which is one
signal more than `sigChan` holds; one run of `socat` tells a port that has tries
left from one that has not; two unanswered probes are all a prober that
tolerates two may miss, and the third failing one, which the instance must have
caused, is reached. In `registry` one worker and one `load` are the processes
that exist by default; two tags of one repository, whose tokens are
interchangeable, are in `registry_shared`. The flags of `limits` have each form of a
processor limit, each way to write a size, a launch that removes and some that
do not, an option given twice and a percentage beyond 100 (`Part`), and three
launches that fail: one that is not valid, one whose environment variable has no
value, and one that names a device no profile has. The faults `wipe` (an entry of
the folder that cannot be removed), `errorbody` and `race` are kept out of
`pull_faults` because `DigestWrittenOverWhole` fails under each of them; the
theorem about it has the same conditions (section 4). `reborn` is in no run.

What the passing runs leave open on purpose:

* `Converges` names the two ways in which pulling again does not help. If the tag
  moves between the manifest's request and the digest's, the folder holds the old
  version under the new digest. And if the manager is killed within `RemoveAll`
  (`puller.go:250`), a layer gone and the digest file not yet, and the tag moves
  back, the digest file vouches for what is not there: `SkippedDataExists` fails
  under crashes. In both cases the folder is `Stale` until the tag moves again.
* `Synchronises` allows an image whose folder is `"error"`: when a registry
  answers an authorised request for the manifest with an error document
  (`puller.go:341`), one worker is enough to write the digest file, known from
  the check before, over an empty folder (`NoHollowImage` fails), and later pulls
  call the image unchanged until its tag moves.

### Fairness

* `ImageHandler!FairSpec`: weak fairness of each goroutine (the Go scheduler)
  and of the ticker; sleeps and pulls end; strong fairness of the endpoint's
  answers, used only by `ListedImageAttempted`. No fairness of signals.
* `ImagePull!FairSpec`: goroutines run; requests are answered. The code sets no
  timeout and drops the context it means to attach (`puller.go:378`), so this is
  an assumption about registry and LXD, not something the code enforces. LXD
  ends and forgets operations, and the image is pulled again and again.
* `Instances!FairSpec`: goroutines run, LXD answers, Kubernetes signals a pod it
  ends and a pod whose probe fails, and the manager collects again and again.
  Pods need not come or go.
* `Serving!FairSpec`: each goroutine runs, the prober ticks, Kubernetes acts on a
  container that is not alive or not wanted. `socat` need not ever end, unless it
  is cancelled.
* `RegistryClient!FairSpec`: a worker that can go on does, and the manager's
  workers are given each image again and again, which is what
  `ListedImageAttempted` of `ImageHandler` says (strong fairness, as a worker may
  be busy with another image). Nobody has to start a `load`.

## 4. What is proved

`ImageHandlerProofs`, for every finite set of workers, every channel size and
every set of answers (the four assumptions `WorkersAssumption`,
`SlotsAssumption`, `ListsAssumption`, `NoImageAssumption`):

* `TypeCorrect`: `Spec => []TypeOK`;
* `RoomStaysReserved`, `TokenConserved`, `NoPullIsCanceled`: the three safety
  invariants of the run `handler`;
* `ImplementsJobQueue`: `Spec => JobQueueContract`, the refinement.

None of the three invariants is inductive. `RoomReserved` speaks of one line
of `pushImageLoadTask`; to carry it there one needs that the channel never
exceeds its capacity and that nothing is pending elsewhere (`RoomInv`).
`ReadyTokenOnce` needs `StartWorkers` to meet only unborn workers, and
`CancelOnlyWhenIdle` that the program counter of a worker determines whether it
has a job and whether its context is cancelled (`WorkerInv`). `IInv` is the
conjunction, proved step by step: `TypeStep`, `RoomStep`, `WorkerStep`.

For the refinement the queue is `imageCh \o pending`: a batch is queued when it
is arranged, and the single sends are stutters because they move the head of
`pending` to the end of `imageCh` (`SendKeepsOrder`); a worker takes from the
front whatever is pending (`TakeFromFront`).

`InstancesProofs`, for every set of instances, every containment of names and
any number of faults (`NamesAssumption`, `FaultsAssumption`):

* `TypeCorrect`: `Spec => []TypeOK`;
* `CollectsOnlyUnmanagedHolds`: `Spec => CollectsOnlyUnmanaged`, if Kubernetes
  answers the request for the pods (`"podlist" \notin Faults`), gives no name to a
  second pod (`"reborn" \notin Faults`), and every pod of a launcher has a name
  that begins with `res` (`Names \subseteq ResNames`). The run
  `instances_podlist` shows that the first condition is needed; a pod of another
  name counts as no pod (`client.go:557`), so the third is too.

The property is about the steps at which the collector changes an instance. What
carries it there is `IInv`: whatever LXD or the collector knows has had a pod
(`OncePodded`, which needs `LauncherInPod`, as only launchers make instances), so
that a pod missing in the list of the pods is gone and not late, and all the
collector still holds after that list has lost its own (`CollectedPodless`).

`ResourceLimitsProofs`, for every set of flags, every profile and everything the
other client may edit:

* `TypeCorrect`: `Spec => []TypeOK`, if the values in the flags and the profiles
  are numbers with a unit (`RequestsAssumption`, `ProfileAssumption`,
  `TextsAssumption`), of any size. The point is the percentage the code computes:
  it is in 0..100 because the launcher has validated the flags (`TypeInv`) and
  only a share of less than one core is written so (`CpuSane`); a percentage that
  was given as such (`AsGiven`) is written as it is. The other theorems need none
  of these assumptions.
* `InForceHolds`: `Spec => []InForce`, the limits of a launch are in force when it
  starts the instance. The invariant is inductive as it stands: it comes about
  when the limits are written (`Written`, from `MergeGives`: what is asked for
  wins), and afterwards only the other client touches the instance
  (`EditsAllowed`).
* `KeepsEditsHolds`: `Spec => KeepsEdits`, a fact about single steps: what is
  written is what was read (`MergeKeeps`), and by the ETag what was read is what
  is there. It is about the keys of the configuration (`EditsKept`) and the
  options of the devices (`DeviceEditsKept`) alike.
* `NoLeftoversHolds`: `Spec => []NoLeftovers`, a launch told to remove the
  instance runs one without what an earlier launch has left. Here the invariant
  has to follow the launch from the removal on (`Anew`): there is no instance
  when it is created, it is `Bare` until the limits are written, and has nothing
  but what this launch asks for (`Own`) from then on (`WritesOwn`); the other
  client adds options of its own and no device (`EditsSpare`).
* `PercentOfShare`: a share of a core becomes a percentage within half a percent
  of it, which is 0 exactly for shares up to 0.005 and 100 exactly from 0.995 on.
* `IngressLikeEgress`, `IngressUnderKilo`: what the mixed check of the ingress
  units accepts.

`ImagePullProofs`, for every set of versions and layers and any number of faults
(`FaultsAssumption`, `NamesAssumption`):

* `TypeCorrect`: `Spec => []TypeOK`, for any number of pullers and all faults. It
  says of LXD that its alias names an image it has.
* `CleanupSparesAliasedHolds`: `Spec => []CleanupSparesAliased`, and
  `AliasDroppedForSuccessorHolds`: `Spec => AliasDroppedForSuccessor`, under all
  faults, races and crashes among them, if one puller works on the image
  (`OnePuller`). That this is needed is what `pull_cleanup` shows.
* `DigestWrittenOverWholeHolds`: `Spec => DigestWrittenOverWhole`, if there is one
  puller, no unlocked race has a bad outcome, entries of the folder can be removed
  (`Orderly`), and no error document is taken for a manifest (`Honest`); crashes,
  those within `RemoveAll` among them, do not matter.
* `ImportsUnmixedHolds`: `Spec => []ImportsUnmixed`, if `OnePuller` and `Orderly`. An
  error document makes a digest file without layers, but no bad import: the walk
  of the folder then finds nothing to import. A folder that a crash has left
  without a layer may be imported, but never one with two versions.
* `SkippedDataExistsHolds`: `Spec => []SkippedDataExists`, if `OnePuller`, `Orderly`,
  `Honest` and the manager is not killed (`Immortal`). What each condition but
  `OnePuller` excludes breaks it: a lost error (`pull_race`), an entry that stays,
  an error document, a crash within `RemoveAll`.
* `ImplementsStore`: `Spec => StoreContract`, the refinement, if `OnePuller` and
  under all faults.

`CleanupSparesAliased` and `AliasDroppedForSuccessor` rest on `AliasInv`: a puller that is about to move the
alias has seen its import succeed, and the image is there and not condemned
(`Following`); what it is about to delete is not what the alias names
(`Sparing`). Neither outlives a second puller, which may condemn the image in
between. The refinement needs one fact more (`StoreInv`): an import that has
succeeded has brought another image than the alias names (`Distinct`). Each
request is then an action of `ImageStore` or a stutter (`StorePullStep`,
`StoreWorldStep`): downloads and the requests that condemn an image are
stutters, the end of a deletion is `Delete`, an import nobody follows any more
is still `Import`, and a crash is `GiveUp`.

The other three rest on `WholeInv`, which says for each program counter what of
the folder is known: what `RemoveAll` has taken stays away (`Removing`); the
folder is empty and has no digest file when the download begins (`Beginning`); a
layer whose goroutine has ended well is written in full and its name is in the
list (`Downloading`); no goroutine writes once they are counted (`Idling`); the
folder is complete before the digest file comes (`Downloaded`); and what LXD is
given is of one version (`Uploaded`). A digest file of a version vouches for
files of one version, of which some may be missing (`Vouched`): that much
survives a crash at any step, for the digest file is written last and a layer that
is removed leaves the rest as it was. That none is missing (`Kept`) does not.

`RegistryClientProofs`, for every set of workers, processes and images and any
number of faults (`HomeAssumption`, `NoneAssumption`, `ImagesAssumption`,
`FaultsAssumption`):

* `TypeCorrect`: `Spec => []TypeOK`;
* `AsksWithOwnTokenHolds`, `NoRefusalTakenHolds`: `Spec => []AsksWithOwnToken` and
  `Spec => []NoRefusalTaken`, if each process has one worker (`Alone`), which is
  the default of `manage` and always so for `load`. `registry_shared` shows that
  two workers are too many.
* `NoHollowImageHolds`: `Spec => []NoHollowImage`, if besides the registry answers no
  authorised request for a manifest with an error document (`Honest`), which the
  code does not see to. No run checks it.

The invariant says that from the moment a worker has built its puller the client
of its process is its own and made for the image it pulls (`OwnClient`). An
expired token is then refreshed for the right repository, so no manifest is
refused, and who writes a digest file has got something, which is no refusal and
an error document only where there are such (`HasLayers`, `Taken`).

`ServingProofs`, for any number of ports, retries and probes and any faults
(`BoundsAssumption`, `InstancesAssumption`):

* `TypeCorrect`: `Spec => []TypeOK`;
* `DeadMeansDownHolds`: `Spec => []DeadMeansDown`, if the prober tolerates as
  many failures as LXD leaves unanswered in a row (`MaxBlips <= MaxFailure`); with
  more, a healthy instance would be given up, as the code cannot tell the two.
* `ImplementsLifeHolds`: `Spec => ImplementsLife`, the refinement, without further
  conditions.

`FailuresTold` is what `DeadMeansDown` needs: more failures than LXD causes mean
that the instance does not run, and while its launcher serves nobody starts it
(`GcStarts`: the collector only stops and deletes). For the refinement each step
of a goroutine is a step of `Instances` or leaves its variables alone
(`LifeStep`). The signal handler's steps are those of the cleaner; the delicate
one is the first signal, which `Instances` allows only for a reason: a pod that is
told to end, a dead instance, a proxy that fails. `RetriesUsedUp` says that a port
gives up only if `socat` has failed or the proxy was closed, `FailuresTold` that
the prober does only if the instance is down, and `ClosedByHandler` that
the loop ends by nobody else's hand.

Only model-checked is liveness: `ShutdownCompletes`, `ListedImageAttempted`,
`Converges`, `PullEnds`, `PodEnds`, `OrphansCollected`, `DownEnds`,
`NoPortLeftDead`, `Synchronises`. The prover has no rule for fairness.

## 5. Not modelled

* Names, sizes and archives: a layer is one file, a version one content.
* How the age of a stopped instance is computed (`client.go:530`,
  `TimeStrToInt`): a stopped instance may become old at any moment. The result
  depends on the time zones of the clocks alone.
* `NewProxy`'s parsing of port pairs (a failure of it is the fault `"network"`),
  `launch` without an image or a pool, the statefulness and the profiles of
  an instance, which the code copies.
* The request for the digest at `puller.go:319`: its result is only logged.
* The names of aliases, which leave out the tag and the registry: images that
  differ in these alone share an alias, and the pulls of one take it from the
  other. `ImagePull` has one image.
* Clocks: that the puller's differs from the registry's, and a token that expires
  on the way, are failing requests in `RegistryClient`.
* The requests of the layers one by one in `RegistryClient` (they are in
  `ImagePull`), and two pulls of one image there at the same time.
* The start of the `load` command and its flags (its pull is in
  `RegistryClient`), packing (`tarpack.go` but for `GetFileList`), logging,
  flags: input and output without protocol.

## 6. Plan

Done, in this order because the loop carries everything else: `JobQueue`,
`ImageHandler`, its proofs; `ImagePull`; `Instances`, its proofs;
`RegistryClient`; `Serving`; `ResourceLimits`, its proofs; then the proofs of
`RegistryClient`, `Serving` and `ImagePull`, so that each safety invariant and
each action property of a run is a theorem; last `ImageStore`, and the proof
that `ImagePull` with one puller implements it.

Next, what the prover can still say: which parts of `DigestWrittenOverWhole`
and `NoRefusalTaken` survive with several workers; and the parts of the liveness
arguments that are invariants, for example that a worker of a closed loop always
has a step to take.
