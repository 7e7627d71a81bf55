------------------------------ MODULE Importer ------------------------------
(***************************************************************************)
(* The import of a docker save archive (package importer): check every     *)
(* absent blob against its digest, store the absent blobs on a worker      *)
(* pool, publish the image manifests on the same kind of pool, then the    *)
(* indexes one by one.  The tracker's rows follow.  A failing call cancels *)
(* its pool; the user may cancel the whole run at any time.                *)
(*                                                                         *)
(* The plan is a constant.  What image.Store.Put needs is kept: blobs in   *)
(* the store, and for an index its children in the same repository.        *)
(***************************************************************************)
EXTENDS Integers, Sequences, FiniteSets, SequencesExt, Ordered

CONSTANTS ImportWorkers,  \* opts.Workers goroutines
          PlanBlobs,      \* sequence of [digest, size, present]
          PlanEntries,    \* sequence of [digest, repos, tags (by repository), manifests]
          PlanIndexes,    \* the manifests that are indexes
          Needs,          \* manifest -> digests its Put looks up
          MaxImportFaults \* bound: calls that fail by themselves

VARIABLES
  phase,      \* the tracker's phase, with open and indexes told apart
  at,         \* position in the phase's list
  pool,       \* each's goroutines: closed, err, cancelled, workers
  outer,      \* the caller's context is cancelled
  stored,     \* blobs in the blob store
  published,  \* <<repo, manifest>> in the image store
  tagged,     \* <<repo, tag>> in the image store
  rows,       \* Tracker: a blob's state, and whether it saw a stage
  mrows,      \* Tracker: a manifest's state
  iresult,    \* Run's error, or the report's blob counts
  ifaults

importVars == <<phase, at, pool, outer, stored, published, tagged, rows, mrows, iresult, ifaults>>

Digests == {PlanBlobs[i].digest : i \in DOMAIN PlanBlobs}
Manifests == UNION {ToSet(PlanEntries[i].manifests) : i \in DOMAIN PlanEntries}
BlobOf(d) == PlanBlobs[CHOOSE i \in DOMAIN PlanBlobs : PlanBlobs[i].digest = d]

\* What Plan returns: blobs once each; entries with a name in every repository
\* they go to, and their manifests, the images with all their blobs (resolve refuses
\* one that lacks any).  An index may list a digest the plan does not have: one whose
\* children are all kept is not rewritten, although a child of it may have been.
IsSequence(s) == s \in Seq(ToSet(s))
ASSUME PlanAssumption ==
  /\ IsSequence(PlanBlobs) /\ IsSequence(PlanEntries)
  /\ \A i \in DOMAIN PlanBlobs : PlanBlobs[i].size \in Nat /\ PlanBlobs[i].present \in BOOLEAN
  /\ \A i, j \in DOMAIN PlanBlobs : PlanBlobs[i].digest = PlanBlobs[j].digest => i = j
  /\ \A i \in DOMAIN PlanEntries : LET e == PlanEntries[i] IN
       /\ IsSequence(e.repos) /\ e.repos # <<>> /\ IsSequence(e.manifests)
       /\ e.digest \in ToSet(e.manifests)
       /\ \A r \in ToSet(e.repos) :
            IsSequence(e.tags[r]) /\ e.tags[r] # <<>> /\ ToSet(e.tags[r]) \cap Manifests = {}
       /\ \A k \in DOMAIN e.manifests :
            e.manifests[k] \notin PlanIndexes => Needs[e.manifests[k]] \subseteq Digests
  /\ MaxImportFaults \in Nat

\* Every child an index lists is planned before it, in the same entry.
PlanIsClosed ==
  \A i \in DOMAIN PlanEntries : LET ms == PlanEntries[i].manifests IN
    \A k \in DOMAIN ms : \A n \in Needs[ms[k]] : n \in Digests \/ \E c \in 1..(k - 1) : ms[c] = n

AbsentAt == {i \in DOMAIN PlanBlobs : ~PlanBlobs[i].present}
PresentAt == DOMAIN PlanBlobs \ AbsentAt

\* Decreasing size, plan order among equals.
LargerFirst ==
  {p \in AbsentAt \X AbsentAt :
     \/ PlanBlobs[p[1]].size > PlanBlobs[p[2]].size
     \/ PlanBlobs[p[1]].size = PlanBlobs[p[2]].size /\ p[1] < p[2]}
absentLargestFirst ==
  LET s == InOrder(AbsentAt, LargerFirst) IN [k \in DOMAIN s |-> PlanBlobs[s[k]]]

\* The jobs of publish, entry by entry and repository by repository: a child
\* goes under its digest, the entry itself under its tags in that repository.
refsFor(e, m, repo) == IF m = e.digest THEN e.tags[repo] ELSE <<m>>
JobAt(p) ==
  LET e == PlanEntries[p[1]] IN
  [repo |-> e.repos[p[2]], manifest |-> e.manifests[p[3]],
   refs |-> refsFor(e, e.manifests[p[3]], e.repos[p[2]])]
JobPlaces ==
  UNION {{i} \X (DOMAIN PlanEntries[i].repos) \X (DOMAIN PlanEntries[i].manifests) : i \in DOMAIN PlanEntries}
InPlanOrder ==
  {p \in JobPlaces \X JobPlaces : LET a == p[1] b == p[2] IN
     \/ a[1] < b[1]
     \/ a[1] = b[1] /\ a[2] < b[2]
     \/ a[1] = b[1] /\ a[2] = b[2] /\ a[3] < b[3]}
JobsAt(S) == LET s == InOrder(S, InPlanOrder) IN [k \in DOMAIN s |-> JobAt(s[k])]
ImageJobs == JobsAt({p \in JobPlaces : JobAt(p).manifest \notin PlanIndexes})
IndexJobs == JobsAt({p \in JobPlaces : JobAt(p).manifest \in PlanIndexes})

Items == CASE phase = "blobs" -> absentLargestFirst
           [] phase = "images" -> ImageJobs
           [] OTHER -> <<>>

IdleWorker == [pc |-> "idle", item |-> 0, ref |-> 0, err |-> "none"]
NewPool == [closed |-> FALSE, err |-> "none", cancelled |-> FALSE,
            workers |-> [w \in ImportWorkers |-> IdleWorker]]
Worker(w) == pool.workers[w]
SetWorker(w, r) == pool' = [pool EXCEPT !.workers[w] = r]
PoolCancelled == pool.cancelled \/ outer

SomeFault == ifaults > 0 /\ ifaults' = ifaults - 1

-----------------------------------------------------------------------------
(* Run: the phases *)

StoreUnchanged == UNCHANGED <<stored, published, tagged>>
RowsUnchanged == UNCHANGED <<rows, mrows>>
NewPhase(p) == phase' = p /\ at' = 1 /\ pool' = NewPool

\* account: a blob that saw no stage while it was put counts as present.
BlobCounts ==
  LET there == {d \in Digests : BlobOf(d).present \/ rows[d].state = "present"} IN
  [err |-> "none", present |-> Cardinality(there), processed |-> Cardinality(Digests \ there)]

Finish(e) ==
  /\ phase' = "done" /\ at' = 1 /\ UNCHANGED pool
  /\ iresult' = IF e = "none" THEN BlobCounts ELSE [err |-> e, present |-> 0, processed |-> 0]

\* check: one blob verified, a mismatch, or the context's end noticed.
check ==
  /\ phase = "check"
  /\ StoreUnchanged /\ RowsUnchanged /\ UNCHANGED outer
  /\ \/ /\ at > Cardinality(AbsentAt)
        /\ NewPhase("blobs")
        /\ UNCHANGED <<iresult, ifaults>>
     \/ /\ at <= Cardinality(AbsentAt) /\ ~outer
        /\ \/ at' = at + 1 /\ UNCHANGED <<phase, pool, iresult, ifaults>>
           \/ SomeFault /\ Finish("fault")
     \/ /\ at <= Cardinality(AbsentAt) /\ outer
        /\ Finish("cancel") /\ UNCHANGED ifaults

\* The metas of the blobs that were there from the start.
openPresent ==
  /\ phase = "open"
  /\ StoreUnchanged /\ RowsUnchanged /\ UNCHANGED outer
  /\ \/ at > Cardinality(PresentAt) /\ NewPhase("images") /\ UNCHANGED <<iresult, ifaults>>
     \/ at <= Cardinality(PresentAt) /\ at' = at + 1 /\ UNCHANGED <<phase, pool, iresult, ifaults>>
     \/ at <= Cardinality(PresentAt) /\ SomeFault /\ Finish("fault")

-----------------------------------------------------------------------------
(* each: the worker pool *)

\* The feeder's select: an idle worker takes the next item, which Go may
\* choose even when the context is done.
feed(w) ==
  /\ phase \in {"blobs", "images"}
  /\ ~pool.closed /\ at <= Len(Items) /\ Worker(w).pc = "idle"
  /\ SetWorker(w, [Worker(w) EXCEPT !.pc = "run", !.item = at, !.ref = 1])
  /\ at' = at + 1
  /\ rows' = IF phase = "blobs" THEN [rows EXCEPT ![Items[at].digest].state = "inflight"] ELSE rows
  /\ mrows' = IF phase = "images" THEN [mrows EXCEPT ![Items[at].manifest] = "inflight"] ELSE mrows
  /\ StoreUnchanged
  /\ UNCHANGED <<phase, outer, iresult, ifaults>>

stopFeeding ==
  /\ phase \in {"blobs", "images"}
  /\ ~pool.closed
  /\ at > Len(Items) \/ PoolCancelled
  /\ pool' = [pool EXCEPT !.closed = TRUE]
  /\ StoreUnchanged /\ RowsUnchanged
  /\ UNCHANGED <<phase, at, outer, iresult, ifaults>>

\* How a call that does not succeed ends: by itself or because its context did.
CallFails(e) ==
  \/ e = "fault" /\ SomeFault
  \/ e = "cancel" /\ PoolCancelled /\ UNCHANGED ifaults

\* The blob store tells the tracker the first stage of a blob it works on.
BlobStage(w) ==
  /\ phase = "blobs" /\ Worker(w).pc = "run"
  /\ LET d == Items[Worker(w).item].digest IN
     /\ ~rows[d].sawStage
     /\ rows' = [rows EXCEPT ![d].sawStage = TRUE]
  /\ StoreUnchanged
  /\ UNCHANGED <<phase, at, pool, outer, mrows, iresult, ifaults>>

\* putBlob returns: Done or Fail in the tracker, then the worker goes on.
putBlob(w) ==
  /\ phase = "blobs" /\ Worker(w).pc = "run"
  /\ LET d == Items[Worker(w).item].digest IN
     \/ /\ stored' = stored \cup {d}
        /\ rows' = [rows EXCEPT ![d].state = IF rows[d].sawStage THEN "done" ELSE "present"]
        /\ SetWorker(w, IdleWorker)
        /\ UNCHANGED ifaults
     \/ \E e \in {"fault", "cancel"} :
          /\ CallFails(e)
          /\ rows' = [rows EXCEPT ![d].state = "failed"]
          /\ SetWorker(w, [Worker(w) EXCEPT !.pc = "fail", !.err = e])
          /\ UNCHANGED stored
  /\ UNCHANGED <<phase, at, outer, published, tagged, mrows, iresult>>

\* image.Store.Put of one reference: it looks up what the manifest names.
Found(j) ==
  \A n \in Needs[j.manifest] : n \in stored \/ <<j.repo, n>> \in published
PutImage(j, r) ==
  /\ published' = published \cup {<<j.repo, j.manifest>>}
  /\ tagged' = IF j.refs[r] = j.manifest THEN tagged ELSE tagged \cup {<<j.repo, j.refs[r]>>}

\* putManifest, one reference at a time, on a pool worker.
putManifest(w) ==
  /\ phase = "images" /\ Worker(w).pc = "run"
  /\ LET j == Items[Worker(w).item]
         r == Worker(w).ref IN
     \/ /\ Found(j) /\ PutImage(j, r)
        /\ mrows' = [mrows EXCEPT ![j.manifest] = IF r < Len(j.refs) THEN "inflight" ELSE "done"]
        /\ SetWorker(w, IF r < Len(j.refs) THEN [Worker(w) EXCEPT !.ref = r + 1] ELSE IdleWorker)
        /\ UNCHANGED ifaults
     \/ \E e \in {"fault", "cancel", "missing"} :
          /\ CallFails(e) \/ (e = "missing" /\ ~Found(j) /\ UNCHANGED ifaults)
          /\ SetWorker(w, [Worker(w) EXCEPT !.pc = "fail", !.err = e])
          /\ UNCHANGED <<published, tagged, mrows>>
  /\ UNCHANGED <<phase, at, outer, stored, rows, iresult>>

\* Mutant of recordError: the last error is the one that is kept.
RecordLast(w) ==
  /\ Worker(w).pc = "fail"
  /\ pool' = [pool EXCEPT !.err = Worker(w).err, !.cancelled = TRUE, !.workers[w] = IdleWorker]
  /\ StoreUnchanged /\ RowsUnchanged
  /\ UNCHANGED <<phase, at, outer, iresult, ifaults>>

\* Under the mutex, the first error is kept and cancels the pool.
recordError(w) ==
  /\ Worker(w).pc = "fail"
  /\ pool' = [pool EXCEPT !.err = IF @ = "none" THEN Worker(w).err ELSE @,
                          !.cancelled = TRUE, !.workers[w] = IdleWorker]
  /\ StoreUnchanged /\ RowsUnchanged
  /\ UNCHANGED <<phase, at, outer, iresult, ifaults>>

workerExits(w) ==
  /\ pool.closed /\ Worker(w).pc = "idle"
  /\ SetWorker(w, [Worker(w) EXCEPT !.pc = "exit"])
  /\ StoreUnchanged /\ RowsUnchanged
  /\ UNCHANGED <<phase, at, outer, iresult, ifaults>>

\* wg.Wait returned.
Waited == \A w \in ImportWorkers : Worker(w).pc = "exit"

\* Mutant of eachReturns: only a worker's error counts.
EachForgetsContext ==
  /\ phase \in {"blobs", "images"} /\ pool.closed /\ Waited
  /\ IF pool.err # "none" THEN Finish(pool.err)
     ELSE NewPhase(IF phase = "blobs" THEN "open" ELSE "indexes") /\ UNCHANGED iresult
  /\ StoreUnchanged /\ RowsUnchanged
  /\ UNCHANGED <<outer, ifaults>>

\* The first error, else the context's, else the next phase.
eachReturns ==
  /\ phase \in {"blobs", "images"} /\ pool.closed /\ Waited
  /\ LET e == IF pool.err # "none" THEN pool.err ELSE IF PoolCancelled THEN "cancel" ELSE "none" IN
     IF e # "none" THEN Finish(e)
     ELSE NewPhase(IF phase = "blobs" THEN "open" ELSE "indexes") /\ UNCHANGED iresult
  /\ StoreUnchanged /\ RowsUnchanged
  /\ UNCHANGED <<outer, ifaults>>

\* The indexes, one Put per reference, in plan order.
publishIndexes ==
  /\ phase = "indexes"
  /\ IF at > Len(IndexJobs) THEN Finish("none") /\ StoreUnchanged /\ RowsUnchanged /\ UNCHANGED ifaults
     ELSE LET j == IndexJobs[at] IN
          \/ /\ Found(j)
             /\ published' = published \cup {<<j.repo, j.manifest>>}
             /\ tagged' = tagged \cup {<<j.repo, t>> : t \in ToSet(j.refs) \ {j.manifest}}
             /\ mrows' = [mrows EXCEPT ![j.manifest] = "done"]
             /\ at' = at + 1
             /\ UNCHANGED <<phase, pool, stored, rows, iresult, ifaults>>
          \/ \E e \in {"fault", "cancel", "missing"}, k \in 0..(Len(j.refs) - 1) :
               /\ CallFails(e) \/ (e = "missing" /\ ~Found(j) /\ UNCHANGED ifaults)
               /\ k > 0 => Found(j)
               /\ published' = IF k > 0 THEN published \cup {<<j.repo, j.manifest>>} ELSE published
               /\ tagged' = tagged \cup {<<j.repo, j.refs[i]>> : i \in 1..k}
               /\ mrows' = [mrows EXCEPT ![j.manifest] = "inflight"]
               /\ Finish(e)
               /\ UNCHANGED <<stored, rows>>
  /\ UNCHANGED outer

\* q, ctrl-c or a signal.
userCancels ==
  /\ phase # "done" /\ ~outer
  /\ outer' = TRUE
  /\ UNCHANGED <<phase, at, pool, stored, published, tagged, rows, mrows, iresult, ifaults>>

-----------------------------------------------------------------------------

\* Tracker.Queue has loaded the plan.
ImportInit ==
  /\ phase = "check" /\ at = 1 /\ pool = NewPool /\ outer = FALSE
  /\ stored = {d \in Digests : BlobOf(d).present}
  /\ published = {} /\ tagged = {}
  /\ rows = [d \in Digests |-> [state |-> IF BlobOf(d).present THEN "present" ELSE "pending",
                                sawStage |-> FALSE]]
  /\ mrows = [m \in Manifests |-> "pending"]
  /\ iresult = [err |-> "running", present |-> 0, processed |-> 0]
  /\ ifaults = MaxImportFaults

WorkerStep(w) ==
  feed(w) \/ BlobStage(w) \/ putBlob(w) \/ putManifest(w) \/ recordError(w) \/ workerExits(w)
MainStep == check \/ openPresent \/ stopFeeding \/ eachReturns \/ publishIndexes
ImportNext == MainStep \/ userCancels \/ \E w \in ImportWorkers : WorkerStep(w)

ImportSpec == ImportInit /\ [][ImportNext]_importVars

\* The goroutines run; the calls into the stores return.
ImportFairness ==
  /\ WF_importVars(MainStep)
  /\ \A w \in ImportWorkers : WF_importVars(WorkerStep(w))

-----------------------------------------------------------------------------
(* Properties *)

\* What Run reports is the cause: a cancellation only when the caller
\* cancelled, never the one a failing worker caused in the others, and a
\* manifest without its blobs or children only when the plan itself has an index
\* that lists a child it does not plan before it: the phases, the pools and the
\* order of the jobs (putBlob, publish, eachReturns) never leave one out.
ImportBlamesCause ==
  /\ iresult.err = "cancel" => outer
  /\ iresult.err = "missing" => ~PlanIsClosed

\* The comment of publish (importer/importer.go:291): "in plan order, which puts every
\* child (image manifests above, nested indexes earlier in the list) before its parent",
\* so no index is published before what it lists.
ChildrenComeFirst == iresult.err # "missing"

\* Success means all of it: every entry under each of its tags, every row
\* settled and every blob counted once.  Whatever the end, no worker is still
\* running, and no name was published before all blobs were in the store.
ImportIsComplete ==
  /\ phase = "done" => \A w \in ImportWorkers : Worker(w).pc \in {"idle", "exit"}
  /\ published # {} => Digests \subseteq stored
  /\ iresult.err = "none" =>
       /\ \A i \in DOMAIN PlanEntries : LET e == PlanEntries[i] IN
            \A r \in ToSet(e.repos) :
              /\ \A m \in ToSet(e.manifests) : <<r, m>> \in published
              /\ \A t \in ToSet(e.tags[r]) : <<r, t>> \in tagged
       /\ \A m \in Manifests : mrows[m] = "done"
       /\ \A d \in Digests : rows[d].state \in {"done", "present"}
       /\ iresult.present + iresult.processed = Len(PlanBlobs)

\* What Run returns is true, whichever workers fail or are cancelled.
ImportTellsTheTruth == ImportBlamesCause /\ ImportIsComplete

\* The comment on each: "After a failure no more items are fed".
NothingFedAfterFailure ==
  [][pool.cancelled /\ phase' = phase => at' = at]_importVars

=============================================================================
