# oci-amber in TLA+

oci-amber is an OCI registry over an embedded, content-addressed amber store.
Clients push blobs in chunks, the server recognises compressed tar layers,
takes them apart into deduplicated objects ("prisms") it can compose again
byte for byte, and publishes images as references into the store. This
directory models the parts of it in which an order of events, a failure under
way or a boundary matters and checks them with TLC. For the server's stateful
parts - the keyed mutex, the upload sessions and their handlers, the blob and
image stores, the writer and the staging and pulling of prisms - for the save
and import commands, the browser and the paging of lists, the safety
properties are also proved with TLAPS, for every instance.

## The system

| part (package) | state it keeps | operations | used by |
|---|---|---|---|
| `keyedmutex` | rows of reference-counted mutexes, one per key in use | `Lock`, its unlock function, `Len` | session locks, digest locks |
| `upload` | registered sessions; per session a buffer or a file, a running hash, last activity; the sweeper | `Create`, `Get`, `Append`, `Offset`, `Spool`, `Remove`, `Sweep`, `Close`, `Spool.Open`, `Spool.Remove` | the upload handlers, the blob store (spools) |
| `registry` | one lock per session id; per request what was sent | POST, PATCH, PUT, GET, DELETE of uploads; blobs, manifests, lists, rootfs | HTTP clients |
| `blob` | one lock per digest, a bounded number of finalize slots, the table of recent uploads, a work directory; per push and pull a pipe and its goroutines | `Put`, `Delete`, `Reuse`, `TakeRecent`, `Open`, `WriteTo`, `WriteRange` | upload handlers, importer, image store |
| `store` | objects, references, the collector; writers with a bounded channel, packs; readers over chunked objects | `Publish`, `DeleteRef`, `NewWriter`, `NewPackWriter`, `AddPack`, `Close`, `Abort`, `Reader`, `ListDir` | blob and image stores |
| `image` | manifest, tag and referrer references, rootfs trees, statistics | `Put`, `Open`, `Delete`, lists | manifest handlers, importer |
| `rootfs` | the tree a stack of layers makes | `Apply`, `Write`, `Stat`; `parseLayer` | image store, rootfs handlers |
| `importer` | the run's phase, worker pools, the tracker's rows | `Run` | command line |
| `dockerarchive` | a plan; a stager with its directory and queue | `Write`, `Plan` | save and import commands |
| `browse` | stacks of frames, loads in flight, per frame a listing or a viewer | keys, resizes, results of loads | the operator |
| `tui`, `oci`, `cmd` | presentation, parsing, wiring | - | - |

What is hard here: a request body may take longer than the idle timeout while
the sweeper waits for the same mutex; files are unlinked by whichever of
cancel, finalize, sweep and shutdown comes first, and unlinking may fail; a
spool is a snapshot over state that later calls change; a finalize has about
ten ways out and holds a lock, a slot, a pack file and a spool file on the
way; the collector runs while objects are in the store that no reference
reaches yet; a push and a pull each run three or four goroutines joined by
bounded pipes, any of which may fail first; worker pools, stagers and loads
of the browser report late and out of order; a response may fail after its
status went out; and every step may be interrupted by a crash. `PROJECT.json`
lists these hazards at their lines with the properties that cover them.

## Modules

| module | models | state and actions |
|---|---|---|
| `KeyLocks` | what a keyed mutex promises (abstract) | who wants which key, who has it |
| `KeyedMutex` | `keyedmutex/keyedmutex.go` | `locks`, `refs`, `mu` are the code's fields; `LockFound`/`LockNew`, `Acquire`, `Unlock`, `Drop` are its critical sections in order |
| `KeyedMutexProofs` | proofs about `KeyedMutex` | |
| `UploadManager` | package `upload` | `sessions`, `buf`, `file`, `hash`, `closed`, `removed`, `mu` are fields of `Manager` and `Session`, `disk` the upload directory, `idle`/`stale` what `lastActive` is compared with; one action per critical section |
| `RegistryUploads` | `registry/uploads.go` | extends `UploadManager`; `hpc` is where a handler is, `sessLock` is `sessLocks`; every handler step that touches a session is conjoined with the package's own action |
| `UploadProofs` | proofs about `UploadManager`, and about `RegistryUploads` on top of them | |
| `BlobMap` | what the blob store promises (abstract) | the set of stored digests; calls take effect at one instant or not at all |
| `BlobStore` | `blob.Store` over `store` | `refs`, `objects`, `pins` are the amber store with its collector; `holder`, `slots`, `recent` the fields of `Store`; `pc` walks `Put` in the order of its steps |
| `BlobStoreProofs` | proofs about `BlobStore` and its refinement of `BlobMap` | |
| `ImageStore` | `image.Store.Put` and `Delete` in one repository | `refs` are the manifest, tag and referrer references, `blobRef`, `objects` and `pins` the amber store; `holder` is the repository's lock; `pc` walks `Put` from resolving blobs over the rootfs tree to the publications in order, and `Delete` over the tag scan |
| `ImageStoreProofs` | proofs about `ImageStore` | |
| `StoreWriter` | `store/write.go`, `store/pack.go` | `w` is the `Writer` (closed, cause, done, errors), `ch` its channel; clients in `emit`, `AddPack`, `Close`, `Abort`; the backend's goroutines with the item in hand; `pack` the staged pack |
| `Pipe` | `blob/pipe.go` | the bounded queue and its two ends; instantiated by the two modules below |
| `PrismStage` | `finalizePrism`, the stager and the commit (`blob/prism.go`, `blob/analyze.go`) | extends `StoreWriter`: the confirming pass, the stager, the recipe's goroutine and the pack writer run concurrently, then the live writer commits |
| `PrismPull` | `Blob.WriteTo` (`blob/pull.go`, `blob/prism.go`) | composer, recompressor and the watcher of the context over a `Pipe`, then the digest of what was sent |
| `TransferProofs` | proofs about `StoreWriter`, about `PrismStage` on top of it, and about `PrismPull` | |
| `Ordered` | sorting, as the importer, the lists and the browser use it | operators: the elements of a set in an order; no state |
| `OrderedProofs` | what these operators return | |
| `Importer` | `importer/importer.go`, `tracker.go` | `phase` and `at` walk `Run`; `pool` is `each` with its workers; `rows` and `mrows` the tracker |
| `DockerSave` | `dockerarchive/stage.go`, the writing half of `write.go`, `cmd/oci-amber/save.go` | feeder, workers and writer of the stager, its queue, files and first error; the output file |
| `ArchivePlan` | the naming half of `dockerarchive/write.go`, `plan.go` | operators: what a save records, what an import resolves, prunes and names |
| `RootfsTree` | `rootfs/builder.go`, `tree.go`, the headers of `layer.go`, `fs.go`, `image/rootfs.go` | a tree is a function on paths; one action per layer, the write, and operators for lookup |
| `RootfsSplice` | `parseLayer` and `splice` (`rootfs/layer.go`) | the splice's position and matched regions under `archive/tar`'s reads |
| `RegistryReads` | GET and HEAD of `registry/blobs.go`, `manifests.go`, `fs.go`, `server.go`'s body writer, `store/read.go` | one request: what its handler checked, sent and fetched; `pending` joins the levels of `Reader.stack`, and one action is one key passed over, one fetch or one piece copied |
| `RegistryPages` | `registry/lists.go`, listings of `fs.go`, `image/list.go`, `store.ListDir` | a client's request loop while tags and manifests come and go, one reference at a time; `Repositories` is two scans, `Tags` one or two |
| `Browser` | the stacks and messages of `browse/model.go` | frames, loads in flight, keys |
| `BrowserFrame` | listing, text and hex viewer of `browse/model.go`, `view.go`, `text.go`, `hex.go` | one frame: cursor, filter, window, reads in flight |
| `CommandProofs` | proofs about `DockerSave`, `Browser` and `Importer` | |
| `ReadingProofs` | proofs about `RegistryPages`, `BrowserFrame` and `RegistryReads` | |
| `MC...` | instances for TLC | model values and small sets only |

`RegistryUploads` sees `blob.Store.Put` through what `finalize` sees of it
(it opens the spool some number of times, then publishes, fails or refuses);
`BlobStore` models its inside and sees the digest lock as the table
`KeyLocks`, which `KeyedMutex` is proved to implement. `ImageStore` sees the
blob store as blobs that come and go outside the repository's lock, and the
same collector. `BlobStore` takes the staging of a prism as one step with the
outcomes `PrismStage` has; `PrismStage` runs on `StoreWriter`'s two writers.
`MCTransfers`, `MCCommands` and `MCServing` each hold several components that
do not interact: an initial state starts one of them and the others stay off,
so that the run's state space is their sum.

### Abstractions

* Bytes are chunks. sha256 is injective on the contents that occur, so a
  content is its own digest. Reading a spool is still modelled by what it does:
  the first `size` bytes of a file that may have grown, or the captured buffer.
* Time is what the sweeper can tell: a session becomes idle when the timeout
  has passed since its last touch, and a sweep compares with the deadline it
  computed at its start.
* What `zrecipe` and `tar-prism` make of a blob is its nature, chosen in the
  initial state; the code finds it out in the order it really does, and a
  timeout of the analysis may come first.
* Objects are the parts of a prism, which blobs may share, the raw bytes and
  the root. A pack remembers the objects it left out.
* An object of `StoreWriter` is its key; a chunk of a stream is its number; a
  body's bytes are numbers; names are model values or, where their order is
  what pages go by, numbers. tar headers, tar sizes and recipes keep their
  structure with a block of two bytes.
* A filter or a search of the browser is the set of rows it matches; a node of
  its trees is its kind and image.
* Failing system calls, failing store operations and crashes are
  nondeterministic and bounded by `MaxFaults`; a request's context may end at
  any step.

## Runs

| run | instance | what it shows |
|---|---|---|
| `keyed_mutex` | 3 goroutines, 2 keys, 3 entries | mutual exclusion per key; rows exactly for keys in use; refinement of `KeyLocks`; every waiter gets its key |
| `upload_manager` | 2 callers, 1 session on disk, 2 appends, 1 fault or crash | no file without a registered session, spools that yield the bytes their digest names although the file grows, no copy into a closed session, an empty closed manager (`UploadSafety`); an idle session is touched or swept, even after a failed unlink, and `Close` returns (`UploadsEnd`) |
| `upload_sweep_race` | 1 caller, 2 sessions | **violation**: the sweeper closes a session that began to receive bytes after its second look |
| `registry_uploads` | 2 handlers, 1 session, bodies of 0 to 2 chunks, spill after 1, 2 requests besides monolithic POSTs, 1 fault | Content-Range is honoured; what is stored under a digest has it; a session that survives keeps all its bytes and a monolithic POST cleans up (`SessionsSurviveOrEnd`) |
| `registry_live` | the same with one body | every request is answered |
| `registry_retry` | the same without faults | **violation**: a PUT with a body, retried, is refused |
| `blob_store` | 2 goroutines, 1 blob of any nature or 2 raw ones, 1 slot, 3 calls, 1 fault | published roots are whole; raw layers only by consent and prisms that reproduce (`StoredAsAllowed`); every path out gives back pack, slot and lock and a failure keeps the spool (`PathsOut`); bytes are charged once; roots are never overwritten; `BlobMap` is implemented; nobody waits in a circle although a goroutine waits for the slot with its digest's lock in hand (`NoCircularWait`), and every call returns |
| `image_store` | 2 goroutines, an image with one layer, an index that lists it and has it as its subject, an index of that index, 1 tag, 3 calls, 2 blob operations, 1 fault | published images are whole although the rootfs tree and the blobs were resolved before the lock; a tag or referrer leads to a manifest that is there; a successful deletion leaves no reference; a successful push is visible; no index is published without its children |
| `image_partial` | the same | **violation**: a push that fails with an internal error has published |
| `transfers` | a writer with 2 clients, channel of 1, 3 calls, 1 fault; a push of 2 chunks and a pull of 3 through pipes of 1 | a Writer that closed successfully stored and accounted for all it accepted (`ClosedIsWhole`); a prism is whole and confirmed, and only an archive tar-prism rejects goes raw (`OutcomeIsRight`); a pull that succeeds sent the content and an error names who failed (`PullIsHonest`); every call, push and pull ends (`EverythingEnds`) |
| `commands` | an import of 3 blobs and 4 manifests into 2 repositories by 2 workers; a save of 5 entries by 2 workers; a browser with 6 frames; 1 or 2 faults | the import's report and error are true and in a plan whose indexes list what it publishes before them no child is missing (`ImportTellsTheTruth`); staged files stay within queue plus one and all go (`StagingBounded`); a save is whole or removed and blames the cause (`SaveTellsTheTruth`); the screen is loaded or being loaded (`ScreenIsServed`); each ends (`CommandsEnd`) |
| `serving` | 2 layers of up to 2 of 23 headers; archives of up to 3 entries; 6 contents, 25 ranges; 3 names with 2 changes; 3 rows and 4 files under 2 heights; saves of up to 2 of 10 manifests, of which up to 2 blobs are missing | eight properties, each an algorithm against a reference definition: see below |

`serving` checks: merging a layer is the overlay of it (`MergeIsOverlay`);
lookup finds what the builder placed, through symlinks (`ServedAsBuilt`); each
file gets the region cut out after its own header (`EachFileItsRegion`); a
response that looks complete is the stored content (`ResponseIsHonest`, but see
"The limits of a length" below); a range is exact and fetches only its own
objects (`RangeIsExact`); paging repeats nothing and loses no name that existed
throughout, and the catalog no repository that kept a tag or kept a manifest
throughout (`PagingIsFaithful`); a saved
archive is planned under its own names with children first (`PlanIsFaithful`);
a frame's hex view has its bytes or their load on the way and its cursor stays
on its row (`FrameIsRight`).

### Bounds

Every race in the hazard list is between two actors on one session, key or
digest; two handlers or goroutines beside the sweeper, `Close` and the
collector are therefore the smallest instances in which all of them occur. A
third goroutine in `keyed_mutex` lets a newcomer meet a holder that leaves and
a waiter that stays. In `registry_uploads`, `MaxInMemory = 1` with bodies of
one and two chunks makes a session live in memory, spill in the middle of a
body, and be spooled before and after; `upload_manager` has the session on disk
from the first byte, so that a second append grows the file under a spool. In
one half of `blob_store` there is one blob, in which a deletion and a
collection between staging and publication break a root that is not walked; two
blobs that share an object are covered for every instance by the proof. With
one blob everybody needs its lock before a slot, so nobody waits for a slot:
the other half of the initial states has two blobs, raw by nature, because what
lies between taking a lock or a slot and giving it back does not matter for who
waits for whom. Options that a blob's nature makes indistinguishable are fixed
in `MCInit`. An image, an index and an index of it make every kind of
reference, and two goroutines with three calls allow a push, its repetition and
a deletion to overlap. Channels and pipes of one slot are full and empty within
two items. Two workers and a queue of four let the stager run ahead of the
writer and wrap; an index of an index in two repositories makes the importer's
order matter. Three names and two changes let a repository be tagged and lose
its manifest between the scans of one request while two others stay; an archive
that lacks two blobs has images without their layers and indexes that lose one
child or all. Two layers with two headers each give whiteouts in either order
over lower entries; three archive entries give a region before, at and after an
empty one. `CHECK_DEADLOCK FALSE` stands where the number of ids, requests,
calls and faults is bounded and the instance may come to rest; `keyed_mutex`
has no such bound and deadlock is checked there.

### Fairness

A goroutine that is able to run does run. Where a goroutine's next step may be
a wait for a Go mutex or a channel that others take and leave meanwhile
(`UploadManager`, `RegistryUploads`, `BlobStore`, `KeyedMutex`), its fairness
is strong, stated for the disjunction of all steps of that goroutine:
`sync.Mutex` hands over to a waiter after 1 ms and channels queue their
waiters, so a wait that is possible again and again ends. Everywhere else it
is weak. Request bodies end or break off: the server sets no read timeout for
bodies, so this is an assumption about clients and their connections, and a
body that stalls for ever does keep the sweeper and `Close` waiting. The
sweeper's ticker runs again and again. Loads of the browser return. No
fairness is assumed of clients' requests, keys, faults, crashes,
cancellations, the collector or the passing of time.

## Findings

* `upload_sweep_race`: the comment on `Session.Append` says a body is "neither
  swept mid-transfer nor the instant it finishes". `Sweep` decides before
  `close` waits for the mutex, so a body that begins in between is received in
  full and its session is closed when it ends.
* `registry_retry`: the README and `finalize` promise that the client can retry
  the PUT after an internal failure. The body of the failed PUT is part of the
  session already; sending the same PUT again makes the digest wrong and the
  session is discarded. A retry with an empty body works.
* `image_partial`: the comment on `image.Store.Put` says of an internal error
  that "nothing has been published when it is returned". `Put` publishes the
  manifest's reference, then the tag's, then the referrer's; when a later one
  fails the earlier ones stay.
* The comment on `analyze` still says that a prism decision carries the staged
  pack; the pack is made later, in `finalizePrism`.

Smaller disagreements are stated as definitions of the modules, without a run
of their own; TLC refutes each when it is added as an invariant or property to
the run's configuration that is named:

* `TreeIsWritable` (`serving`): `Builder.Apply` says "Entries that cannot be
  represented are recorded as skips" (`rootfs/builder.go:48-49`). A symlink
  with an empty target is placed, and `validatePayload` of `store/dir.go` then
  refuses the whole tree.
* `TopExists` (`commands`): `browse/model.go:209` calls `top` "the frame on
  screen". `f` opens the file system view and `f` leaves it before its first
  load has failed; the failure pops the frame and leaves that stack empty but
  not nil; the next `f` makes it active, and `top` indexes an empty slice.
* `ViewsKeepTheirPosition` (`commands`): `README.md:164` of the repository
  says "both views keep their position". A symlink that is resolved while the
  user has switched back to the storage view opens there.
* `PlansAreClosed` (`serving`): `dockerarchive/plan.go:211-212` says "a pruned
  nested index is referenced by its new digest". An outer index all of whose
  children are kept is not rewritten, and goes on listing the old digest.
* `ChildrenComeFirst` (`commands`, with `PlanEntries <- MCUnclosedEntries`,
  `Needs <- MCUnclosedNeeds` and `PlanIndexes = {"x1p", "x2"}`): the comment on `publish`
  (`importer/importer.go:291-293`) says that the plan's order "puts every child
  (image manifests above, nested indexes earlier in the list) before its
  parent". In a plan of the kind just described no order does, and the import
  ends with a missing child.
* `CatalogIsComplete` (`serving`): `image/list.go:105` says "Repositories
  returns every repository that has at least one tag or manifest ref". It scans
  the tags and then the manifests, without the repository's lock. A repository
  with an untagged manifest that is tagged after the first scan and loses its
  manifest's reference, which a deletion removes before the tags'
  (`image/store.go:449`), before the second has had a reference at every moment
  and is omitted.
* `AmbiguityIsReal` (`serving`): the error at `dockerarchive/plan.go:296` says
  that names apply to several images; two entries of one image suffice.
* `TarIsWholeOrCut` (`serving`): `registry/fs.go:373-374` says "a failure after
  the first byte aborts the connection". A failure that is an
  `io.ErrUnexpectedEOF` of the store passes for a client that left, and the
  tar, which announces no length, ends as if complete.
* `NothingFedAfterFailure` (`commands`): the comment on `each`
  (`importer/importer.go:143-145`) says "After a failure no more items are
  fed". `select` may still choose the send; the item is then given a cancelled
  context, which is why `ImportTellsTheTruth` holds all the same.

## Proofs

`KeyedMutexProofs` holds for any finite set of goroutines and any keys and
entries (`ProcAssumption`, `NoneAssumption`). The inductive invariant `IInv`
adds to the type invariant that a goroutine inside `Lock` or unlock is on its
key's current row (`OnTheRow`), that no entry serves two keys
(`OneKeyPerEntry`), that a row's count is the number of its users and not zero
(`RefsCountUsers`), and that an entry's mutex is held by whoever is in the
critical section (`HolderIsInside`). The count is the heart of it: a row is
dropped when the count reaches zero, and only because the count is the
cardinality of the set of users does that mean nobody waits on it. From `IInv`
follow mutual exclusion and `RowsAreInUse`, and each step maps to a step or a
stutter of `KeyLocks` under the mapping in which a goroutine that has freed
the entry but not yet dropped its reference has no key any more.

The first part of `UploadProofs`, about `UploadManager`, holds for any callers,
sessions, bodies, sizes and faults (`UploadAssumption`). `UploadSafety` speaks
of files, spools, copies and the closed manager at once, and none of these is
inductive alone. `IInv` adds who is in a call on which session object
(`CallsOK`: a copy has the mutex of an open session, only what was removed is
forgotten), that a session leaves the map closed and, unless `Close` took it
out, without a file (`RegistryOK`), that an open session's bytes are in exactly
one place (`BytesOK`), that a file spool is a prefix of a file that nobody can
start again (`SpoolsOK`), and how far the sweeper and `Close` have come
(`SweepOK`, `ShutOK`). The spool is the subtle part: later appends grow the
file, so that what must be kept is not equality but the prefix.

Its second part extends this to the handlers of `RegistryUploads`. The argument
is one of ownership: a handler past the session's lock has the session to
itself, because it holds `sessLocks[id]` or because it is a monolithic POST
whose id nobody was told (`Owns`, `Apart`). So between the look at the offset
and the write, and between the digest check and the last read of the spool,
nobody else appends (`Ranged`, `Checked`); the sweeper and `Close` may come in
between, and change nothing the session's hash has seen. `Calling` ties a
handler's place to the call of package `upload` it is in, so that
`UploadSafety` carries over to the server (`ServerUploadSafety`).

`BlobStoreProofs` holds for any finite set of goroutines, any blobs with any
shared objects, any number of slots, calls and faults (`BlobAssumption`).
`RefsAreWhole` is not inductive: a reference is put one step after its tree was
walked. `IInv` therefore adds that what a publication has pinned is in the
store and, between `PrepareRef` and the reference, is exactly the tree
(`PinsHold`); that a goroutine from its wait for a slot to its publication
holds its digest's lock and the digest has no reference (`FinalizersExclude`),
which is what makes `NeverOverwritten` follow; and that a call has its digest
and, once it has decided, its meta (`CallsHaveArguments`). Most steps only move
one goroutine and add objects; `MoveIInv` and `MovesIInv` settle them at once,
and only the lock, the pin, the publication, the deletion, the return, the
collector and the crash have an argument of their own. On top of it `JInv`
says what each call has come to and holds at each of its places: what the
analysis has established about the blob when it decides how to store it
(`Decided`), and that a pack, a slot, a temporary file and the spool are held
exactly between certain steps (`Keeps`). `StoredAsAllowed`, `ChargedOnce` and
`PathsOut` follow, `NoCircularWait` - whoever holds a lock is past waiting for
a digest, and whoever holds a slot past waiting for a slot - and with them the
step simulation of `BlobMap`: a call
takes effect when the reference is put or deleted, every other step stutters
or concludes.

`ImageStoreProofs` holds for any manifests, blobs and tags, with indexes nested
to any depth (`ImageAssumption`). Wholeness follows the argument of
`BlobStoreProofs` (`PinsOK`): the walk at publication makes up for everything
that was resolved before the repository's lock. The other four rest on that
lock: what a goroutine knows of the references it knows only while it holds
it (`HeldOK`) - that the children are there, which of its names are published,
which tags may still lead to the digest it deletes - and nobody else changes
references meanwhile. `NamesAreTrue` says a manifest's or a referrer's name is
on a root of that manifest, without which a deletion could miss a name.

`TransferProofs` holds for any number of clients, goroutines of the backend,
keys, calls and faults, and for a stream of any length (`WriterAssumption`,
`StageAssumption`). For `Writer`: as long as the backend has not failed,
everything `emit` accepted is in the channel, in a goroutine's hand or settled
(`Kept`), and is counted once (`Counted`, with the cardinality of the set of
busy goroutines); a goroutine of a backend that has not failed only leaves a
closed and drained channel (`Leaves`); success is what backend and context say
(`Returned`). For `finalizePrism`, `MadeKept` follows what the stager and the
recipe's goroutine made into the pack writer - accepted, being offered, or
given up with an error - and `Committing` from the closed pack through
`AddPack` into the live writer and through its `Close`; `InOrder` says the
stager reads the confirmed stream from its start to its end, and `Blamed` that
only tar-prism's own refusal is told as one.

For `PrismPull` it holds for content of any length, a pipe of any size and any
number of faults (`PullAssumption`). `PullInv` says who may have closed the
pipe - its writing end the composer with its own error, its reading end only
for a client that left or after `Recompress` has ended - so that each error
has the cause it is told with.

`CommandProofs` holds for a save of any plan, any finite set of workers and any
number of faults (`SaveAssumption`). The writer takes blobs from the queue
without looking which they are; the archive is in order only because the queue
always holds the next blobs in order and without a gap (`QueueInOrder`). The
staged files are bounded by the queue only because no worker is still busy with
a blob that the writer is done with (`WorkIsQueued`). That a blob exists
between two others is argued with a least element (`MinNat`), which stands in
for an induction.

For the browser it holds for any number of frames and of failed
loads. `BrowserInv` adds to `ScreenIsServed` that ids are given out once, so
that no late message is about a newer frame, and that a message for a followed
link is on its way only to a frame that has been loaded (`FrameOK`): without
the second, a link that cannot be resolved would uncover a frame that nothing
loads any more. Every handler replaces or pops frames and then either leaves
the frame on screen served or ends in `ensureLoaded`, so that
`ReplacedStateOK`, `PoppedStateOK`, `PushOK` and `EnsureLoadedOK` settle all of
them.

For the importer it holds for any plan `Plan` can return, any finite set of
workers and any number of faults (`PlanAssumption`). `ImportTellsTheTruth` says
at the end what has happened to every blob and every name, so that the
invariant `ImportInv` has to say at every moment where each of them is: its
turn is to come, or a worker has it, or it is settled, or the pool is broken by
an error that is kept (`BlobsOK`, `ImagesOK`, `IndexesOK`). `PoolOK` says that
feeding ends early only in a cancelled pool and that nobody works outside the
pools, and `ImportCancelHasCause` that a cancellation is the caller's or
follows an error that was recorded before it. That a child is published before
its index does not follow from the pools but from the order of the phases and
of the plan. A plan need not be closed (`PlanIsClosed`): where an index lists
what is not planned before it, `iresult.err` may be `"missing"`, and the
invariant says that it is so only there.

`OrderedProofs` is why this needs no induction. The lists of the importer, the
pages and the browser are sorted or filtered sequences. `Ordered` defines them
by places: an element stands where as many elements are before it
(`InOrder`). Different elements of a strict total order have different numbers
of predecessors, and an injection of a finite set into as many places reaches
each of them; so `InOrderIsSorted` follows from the library's facts about
cardinalities, for every finite set.

`ReadingProofs` holds for any finite set of names, any page sizes and any
number of changes between and during the requests (`PageAssumption`), and for a
frame of the browser for any files, rows, heights and failing reads
(`FrameAssumption`). A client that pages has, before each request, every name
up to `last` that never went away, in order and once (`ReadUpTo`); names come
and go before and behind `last` meanwhile, but a page begins behind `last` and
ends where the next `last` is (`OneMorePage`). The catalog's names come from
two scans: what the first one saw (`dir`) has every repository that kept a tag,
what the second adds every one that kept a manifest; of a repository that only
had one or the other at every moment neither is true. `ListDir` is a loop of
the same kind over one directory that does not change. In a frame, every step
that moves the hex view ends with `ensureWindow` (`EnsuredStep`, `ScrollStep`);
what has to be added is that a window which is being loaded has its read in
flight, and that the read which opened the file was sized for the screen unless
a resize was missed (`FileReadFits`). A listing's cursor keeps its row because
the row's place in the filtered list exists (`VisibleFacts`), and `moveTo`
moves no cursor that is on a row (`MoveToFacts`).

For one request that reads it holds for any content, any tree of objects that
hold it or no longer do, any `Range` headers and any index
(`ReadAssumption`). `ReadInv` says of a body under way that the bytes sent, the
rest of the chunk in hand and the keys to visit lie one behind the other, from
the first byte asked for to the end of the content (`Placed`). `Skip` moves its
beginning over keys it does not fetch, `FetchNode` puts a node's children in
the node's place, a chunk puts its bytes there, and `CopyPiece` moves a piece
from one part to the next; that is why what is fetched for a range lies in it
(`NextKeyIsInRange`) and why a skip of an intact content never runs past the
end (`SkipEndsKeepsInv`). Stating it takes no recursion over the tree: each
object carries the place where its bytes belong (`at`, which the code does not
have), and `StoredAs`
relates a node only to its own children (`Adjoin`). If the objects are not the
stored ones, only the promised length (`Promised`) and what the end of the copy
compared (`Outcome`) are left, and `SettleKeepsInv` shows what follows from
them for each judgement of `isClientGone`.

The limits of a length. The proof needs exceptions in `ResponseIsHonest`, and
TLC shows that they are needed. Two are of `/fs/`, whose content nothing
compares with a digest on its way out: `EntryIsRight` speaks only of objects
that are the stored ones, because a file whose objects have changed at the same
length is served complete and wrong; and a tar, which announces no length, is
left out where it is cut short by a failure that passes for the client's. The
third is of blobs and manifests (`DigestedIsRight`), which are right whatever
the objects hold but for one case: if the objects hold more bytes than the
recorded size and a fetch behind it fails with an error that wraps
`io.ErrUnexpectedEOF`, the handler takes the failure for the client's departure
and returns (`registry/errors.go:111`). The body may by then be as long as
promised, and nothing has compared its digest. A store that returns the objects
it was given never gets there.

Assumptions on constants say what the code's types say: sets of goroutines are
finite, bounds are numbers, the value for "nothing" is none of the others, a
plan is a sequence of blobs and manifests. Four say more. `PlanAssumption` is
what `Plan` of `dockerarchive/plan.go` returns: each blob once, entries with
at least one repository and at least one tag in it (`assignNames` rejects an
entry without a name), the entry's own manifest among its manifests, and every
image with its blobs (`resolve` drops one that lacks any); it says nothing of
what an index lists. `PageAssumption` has names that are not
empty and a positive `listPage`; `FrameAssumption` a screen of at least one
row, which is what `bodyHeight` returns. `ReadAssumption` gives objects a
length and a place and says that a content's objects include the children of
its nodes; it does not say that they hold what was stored.

That the handlers use package `upload` as its specification allows is not a
property here: every handler step that touches a session is conjoined with the
package's own action, so it holds by construction. The bound on the bytes a
session is sent (`MaxSize`) is one of TLC's instances; the proofs' contents are
all sequences.

What stays with TLC:

* Liveness (`WaiterGetsKey`, `UploadsEnd`, `EveryRequestAnswered`,
  `EveryCallReturns`, `EverythingEnds`, `CommandsEnd`): fairness is beyond this
  prover.
* `PlanIsFaithful`, `ServedAsBuilt`, `MergeIsOverlay` and `EachFileItsRegion`:
  what the recursive definitions of `ArchivePlan`, `RootfsTree` and
  `RootfsSplice` compute needs induction over data.

## Not modelled

* `tui`: renders the importer's and the saver's rows.
* `oci` and the formats of manifests, metas, archives and configuration:
  parsing and validation of strings; model values stand for what they yield.
* `cmd/oci-amber` but for the save command's output file: flags and wiring.
* `registry`: the handlers for PUT and DELETE of manifests and blobs, which
  check a request and call `image.Store` or `blob.Store`; the referrers
  listing; the mapping of errors to codes in `handleError`.
* `store.Open`, its configuration file and lock.
* `RegistryReads` aborts a response by closing the connection; bytes that
  `net/http` has buffered and not sent are not told apart from sent ones.
* `BrowserFrame`: the texts of rows, highlighting of matches and rendering. A
  resize while another frame covers the viewer is noticed at the viewer's next
  key; `HexShowsData` excepts it (`missed`).

## Plan

1. An abstract map of tags and manifests for `ImageStore` to implement.
2. The referrers listing, and the manifest handlers in front of `ImageStore`.
