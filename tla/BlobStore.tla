------------------------------ MODULE BlobStore ------------------------------
(***************************************************************************)
(* blob.Store: Put, Delete, Reuse and the recent-uploads table, over the   *)
(* object store, the references and the collector of package store.        *)
(*                                                                         *)
(* Put waits for its digest's lock and then for a finalize slot, analyses  *)
(* the blob, and stores it as a prism or raw; it publishes last.  Blobs    *)
(* share objects.  The collector takes away, at any moment, any object     *)
(* that no reference reaches and no publication has pinned.  The digest    *)
(* lock is a keyedmutex.Mutex, seen as the lock table KeyLocks that        *)
(* KeyedMutex implements.                                                  *)
(*                                                                         *)
(* Of a blob's bytes the code learns its nature, step by step: what        *)
(* zrecipe and tar-prism make of it.  Objects are the parts of its prism,  *)
(* which blobs may share, its raw bytes and its root.                      *)
(***************************************************************************)
EXTENDS Integers, FiniteSets

CONSTANTS Proc,       \* goroutines that call the store
          Digest,     \* blobs
          Part,       \* chunks, nodes and comp.json of prisms
          Parts,      \* Parts[d]: those of blob d
          Natures,    \* Natures[d]: what blob d may turn out to be
          Slots,      \* Options.MaxConcurrentFinalize
          MaxCalls,   \* bound: calls of Put and Delete
          MaxFaults,  \* bound: failing operations and crashes
          None

AllNatures ==
  {"not-tar",           \* the probe finds no tar header
   "unsupported",       \* zrecipe.Start cannot handle the stream
   "corrupt",           \* nor read it
   "not-reproducible",  \* no engine reproduces it
   "unconfirmed",       \* the candidate that Start settled on fails Confirm
   "undecomposable",    \* tar-prism rejects the archive
   "unfaithful",        \* the stored prism does not compose to the blob
   "prism"}

Reasons == {"not-tar", "unsupported", "corrupt", "not-reproducible", "analyze-timeout",
            "decompose-failed", "roundtrip-failed"}
Prism == [kind |-> "prism", reason |-> "none"]
Raw(reason) == [kind |-> "raw", reason |-> reason]
Meta == {Prism} \cup {Raw(r) : r \in Reasons}

ASSUME BlobAssumption ==
  /\ None \notin Proc \cup Digest \cup Part
  /\ None \notin Meta
  /\ None \notin {"put", "delete", "reuse", "new", "dedup"}
  /\ IsFiniteSet(Proc)
  /\ Parts \in [Digest -> SUBSET Part]
  /\ Natures \in [Digest -> SUBSET AllNatures]
  /\ Slots \in Nat \ {0}
  /\ MaxCalls \in Nat /\ MaxFaults \in Nat

VARIABLES
  opts,     \* AllowRaw and VerifyRoundTrip
  nature,   \* what each blob is
  refs,     \* oci/blob/<d>: the meta its root carries, or None
  objects,  \* what the object store holds
  pins,     \* objects a publication in progress keeps from the collector
  holder,   \* b.digests: who holds a digest's lock
  slots,    \* b.finalize: who holds a slot
  recent,   \* b.recent: "new" bytes, or a "dedup" hit, or None
  pc,       \* where each goroutine is
  op, arg,  \* its call: Put, Delete or Reuse, and the digest
  meta,     \* the kind and reason Put has come to
  pack,     \* the pack file finalizePrism stages into
  ctx,      \* goroutines whose request context has ended
  tmp,      \* goroutines with a zrecipe spool file in the work directory
  spool,    \* goroutines whose upload spool is still there
  result,   \* what a call is about to return
  minted,   \* history: how often d's new bytes were recorded
  charged,  \* history: how often d's new bytes were charged to an image
  calls, faults

storeVars == <<refs, objects, pins>>
tableVars == <<recent, minted, charged>>
procVars == <<pc, op, arg, meta, pack, ctx, tmp, spool, result>>
vars == <<opts, nature, storeVars, holder, slots, tableVars, procVars, calls, faults>>

RawObj(d) == <<"raw", d>>
RootObj(d, m) == <<"root", d, m>>
Obj == Part \cup {RawObj(d) : d \in Digest} \cup {RootObj(d, m) : d \in Digest, m \in Meta}

(***************************************************************************)
(* What a blob root reaches.                                               *)
(***************************************************************************)
Tree(d, m) == {RootObj(d, m)} \cup IF m.kind = "prism" THEN Parts[d] ELSE {RawObj(d)}

NoPack == [open |-> FALSE, skipped |-> {}, err |-> "none"]

Init ==
  /\ opts \in [allowRaw : BOOLEAN, verify : BOOLEAN]
  /\ nature \in {f \in [Digest -> AllNatures] : \A d \in Digest : f[d] \in Natures[d]}
  /\ refs = [d \in Digest |-> None]
  /\ objects = {} /\ pins = [p \in Proc |-> {}]
  /\ holder = [d \in Digest |-> None]
  /\ slots = {}
  /\ recent = [d \in Digest |-> None]
  /\ minted = [d \in Digest |-> 0]
  /\ charged = [d \in Digest |-> 0]
  /\ pc = [p \in Proc |-> "idle"]
  /\ op = [p \in Proc |-> None]
  /\ arg = [p \in Proc |-> None]
  /\ meta = [p \in Proc |-> None]
  /\ pack = [p \in Proc |-> NoPack]
  /\ ctx = {} /\ tmp = {} /\ spool = {}
  /\ result = [p \in Proc |-> "none"]
  /\ calls = MaxCalls /\ faults = MaxFaults
-----------------------------------------------------------------------------
Fault == faults > 0 /\ faults' = faults - 1

At(p, where) == pc[p] = where

Goto(p, where) == pc' = [pc EXCEPT ![p] = where] /\ UNCHANGED result

(***************************************************************************)
(* The call is over but for its deferred functions.                        *)
(***************************************************************************)
Ends(p, res) ==
  /\ pc' = [pc EXCEPT ![p] = "return"]
  /\ result' = [result EXCEPT ![p] = res]

(***************************************************************************)
(* An error: an operation failed, or was refused since the request's       *)
(* context has ended.                                                      *)
(***************************************************************************)
Breaks(p) ==
  /\ Ends(p, "error")
  /\ \/ p \in ctx /\ UNCHANGED faults
     \/ Fault

Live(p) == p \notin ctx /\ UNCHANGED faults

Release(p) == pack' = [pack EXCEPT ![p] = NoPack]

Become(p, m) == meta' = [meta EXCEPT ![p] = m]

Config == UNCHANGED <<opts, nature>>
-----------------------------------------------------------------------------
(***************************************************************************)
(* A call of Put with a spool, of Delete or of Reuse.                      *)
(***************************************************************************)
Call(p, name, d) ==
  /\ At(p, "idle")
  /\ calls > 0 /\ calls' = calls - 1
  /\ Goto(p, name)
  /\ op' = [op EXCEPT ![p] = name]
  /\ arg' = [arg EXCEPT ![p] = d]
  /\ spool' = IF name = "put" THEN spool \cup {p} ELSE spool
  /\ Config /\ UNCHANGED <<storeVars, holder, slots, tableVars, meta, pack, ctx, tmp, faults>>

(***************************************************************************)
(* The client goes away.                                                   *)
(***************************************************************************)
Cancel(p) ==
  /\ op[p] = "put" /\ ~At(p, "return")
  /\ p \notin ctx
  /\ ctx' = ctx \cup {p}
  /\ Config /\ UNCHANGED <<storeVars, holder, slots, tableVars, pc, op, arg, meta, pack, tmp, spool, result, calls, faults>>

(***************************************************************************)
(* Open: whether the blob's reference resolves.                            *)
(***************************************************************************)
Open(d) == refs[d] # None

\* Mutant of LockDigest: does not wait for the digest.
LockDigestNot(p) ==
  LET d == arg[p] IN
  /\ At(p, "put")
  /\ \/ Breaks(p)
     \/ Live(p) /\ Goto(p, IF Open(d) THEN "hit" ELSE "slot")
  /\ Config /\ UNCHANGED <<storeVars, holder, slots, tableVars, op, arg, meta, pack, ctx, tmp, spool, calls>>

(***************************************************************************)
(* Put takes the digest's lock, which a context does not interrupt, looks  *)
(* at its context and asks Open whether the blob is there.                 *)
(***************************************************************************)
LockDigest(p) ==
  LET d == arg[p] IN
  /\ At(p, "put")
  /\ holder[d] = None
  /\ holder' = [holder EXCEPT ![d] = p]
  /\ \/ Breaks(p)
     \/ Live(p) /\ Goto(p, IF Open(d) THEN "hit" ELSE "slot")
  /\ Config /\ UNCHANGED <<storeVars, slots, tableVars, op, arg, meta, pack, ctx, tmp, spool, calls>>

TakeSlot(p) ==
  /\ At(p, "slot")
  /\ Cardinality(slots) < Slots
  /\ slots' = slots \cup {p}
  /\ Goto(p, "analyze")
  /\ Config /\ UNCHANGED <<storeVars, holder, tableVars, op, arg, meta, pack, ctx, tmp, spool, calls, faults>>

SlotCancelled(p) ==
  /\ At(p, "slot")
  /\ p \in ctx
  /\ Ends(p, "error")
  /\ Config /\ UNCHANGED <<storeVars, holder, slots, tableVars, op, arg, meta, pack, ctx, tmp, spool, calls, faults>>

\* Mutant of refuseRaw: every raw outcome is stored.
refuseRawNever(p, reason) ==
  Become(p, Raw(reason)) /\ Goto(p, "raw")

\* Mutant of refuseRaw: the raw layer is put by calling Put again.
refuseRawByPut(p, reason) ==
  IF reason = "not-tar" \/ opts.allowRaw
  THEN Become(p, Raw(reason)) /\ Goto(p, "put")
  ELSE Ends(p, "refused") /\ UNCHANGED meta

(***************************************************************************)
(* A blob that cannot be a prism: refuseRaw turns it away unless it is no  *)
(* tar at all or the operator allows raw layers.                           *)
(***************************************************************************)
refuseRaw(p, reason) ==
  IF reason = "not-tar" \/ opts.allowRaw
  THEN Become(p, Raw(reason)) /\ Goto(p, "raw")
  ELSE Ends(p, "refused") /\ UNCHANGED meta

(***************************************************************************)
(* analyze, under the analyze deadline: an error, a raw decision or a      *)
(* prism decision that keeps zrecipe's analysis and its spool file.        *)
(***************************************************************************)
analyze(p) ==
  LET n == nature[arg[p]] IN
  /\ At(p, "analyze")
  /\ \/ Breaks(p) /\ UNCHANGED <<meta, tmp>>
     \/ /\ Live(p) /\ UNCHANGED tmp
        /\ \/ n \in {"not-tar", "unsupported", "corrupt", "not-reproducible"} /\ refuseRaw(p, n)
           \/ n # "not-tar" /\ refuseRaw(p, "analyze-timeout")
     \/ /\ Live(p)
        /\ n \in {"unconfirmed", "undecomposable", "unfaithful", "prism"}
        /\ tmp' = tmp \cup {p}
        /\ Become(p, Prism)
        /\ Goto(p, "pack")
  /\ Config /\ UNCHANGED <<storeVars, holder, slots, tableVars, op, arg, pack, ctx, spool, calls>>
-----------------------------------------------------------------------------
(***************************************************************************)
(* finalizePrism.  The pack file is made, and unlinked at once, before the *)
(* confirming pass.                                                        *)
(***************************************************************************)
NewPackWriter(p) ==
  /\ At(p, "pack")
  /\ \/ Ends(p, "error") /\ Fault /\ UNCHANGED pack
     \/ /\ pack' = [pack EXCEPT ![p].open = TRUE]
        /\ Goto(p, "stage") /\ UNCHANGED faults
  /\ Config /\ UNCHANGED <<storeVars, holder, slots, tableVars, op, arg, meta, ctx, tmp, spool, calls>>

(***************************************************************************)
(* The stager: objects the store holds are left out of the pack and only   *)
(* remembered.  A stager that fails has released the file.                 *)
(***************************************************************************)
stage(p) ==
  /\ At(p, "stage")
  /\ \/ /\ nature[arg[p]] # "undecomposable"
        /\ pack' = [pack EXCEPT ![p].skipped = Parts[arg[p]] \cap objects]
        /\ UNCHANGED faults
     \/ /\ nature[arg[p]] = "undecomposable"
        /\ pack' = [pack EXCEPT ![p] = [NoPack EXCEPT !.err = "decompose"]]
        /\ UNCHANGED faults
     \/ /\ Fault \/ (p \in ctx /\ UNCHANGED faults)
        /\ pack' = [pack EXCEPT ![p] = [NoPack EXCEPT !.err = "sink"]]
  /\ Goto(p, "confirm")
  /\ Config /\ UNCHANGED <<storeVars, holder, slots, tableVars, op, arg, meta, ctx, tmp, spool, calls>>

\* Mutant of Confirm: the error paths keep the pack.
ConfirmKeepsPack(p) ==
  /\ At(p, "confirm")
  /\ \/ Breaks(p) /\ UNCHANGED <<meta, pack>>
     \/ Live(p) /\ nature[arg[p]] = "unconfirmed" /\ refuseRaw(p, "not-reproducible") /\ UNCHANGED pack
     \/ /\ Live(p) /\ nature[arg[p]] # "unconfirmed"
        /\ \/ pack[p].err = "sink" /\ Ends(p, "error") /\ Release(p) /\ UNCHANGED meta
           \/ pack[p].err = "decompose" /\ refuseRaw(p, "decompose-failed") /\ Release(p)
           \/ pack[p].err = "none" /\ Goto(p, "commit") /\ UNCHANGED <<meta, pack>>
  /\ Config /\ UNCHANGED <<storeVars, holder, slots, tableVars, op, arg, ctx, tmp, spool, calls>>

\* Mutant of Confirm: stages the stream without confirming it.
ConfirmSkipped(p) ==
  /\ At(p, "confirm")
  /\ \/ Breaks(p) /\ Release(p) /\ UNCHANGED meta
     \/ /\ Live(p)
        /\ \/ pack[p].err = "sink" /\ Ends(p, "error") /\ Release(p) /\ UNCHANGED meta
           \/ pack[p].err = "decompose" /\ refuseRaw(p, "decompose-failed") /\ Release(p)
           \/ pack[p].err = "none" /\ Goto(p, "commit") /\ UNCHANGED <<meta, pack>>
  /\ Config /\ UNCHANGED <<storeVars, holder, slots, tableVars, op, arg, ctx, tmp, spool, calls>>

(***************************************************************************)
(* Confirm returns and the stager is collected: a failed Confirm outranks  *)
(* the stager's error, the context's end outranks both.                    *)
(***************************************************************************)
Confirm(p) ==
  /\ At(p, "confirm")
  /\ \/ Breaks(p) /\ Release(p) /\ UNCHANGED meta
     \/ Live(p) /\ nature[arg[p]] = "unconfirmed" /\ refuseRaw(p, "not-reproducible") /\ Release(p)
     \/ /\ Live(p) /\ nature[arg[p]] # "unconfirmed"
        /\ \/ pack[p].err = "sink" /\ Ends(p, "error") /\ Release(p) /\ UNCHANGED meta
           \/ pack[p].err = "decompose" /\ refuseRaw(p, "decompose-failed") /\ Release(p)
           \/ pack[p].err = "none" /\ Goto(p, "commit") /\ UNCHANGED <<meta, pack>>
  /\ Config /\ UNCHANGED <<storeVars, holder, slots, tableVars, op, arg, ctx, tmp, spool, calls>>

(***************************************************************************)
(* commit: the pack's records and comp.json go into the store, and every   *)
(* object the stager left out must still be there.  What a failed commit   *)
(* has written is left to the collector.                                   *)
(***************************************************************************)
AfterCommit(p) ==
  IF opts.verify THEN Goto(p, "verify") /\ UNCHANGED pack ELSE Goto(p, "root") /\ Release(p)

AddPack(p) == objects' = objects \cup (Parts[arg[p]] \ pack[p].skipped)

commit(p) ==
  LET skippedAreThere == pack[p].skipped \subseteq objects IN
  /\ At(p, "commit")
  /\ \/ Live(p) /\ skippedAreThere /\ AddPack(p) /\ AfterCommit(p)
     \/ /\ Breaks(p) \/ (~skippedAreThere /\ Ends(p, "error") /\ UNCHANGED faults)
        /\ Release(p)
        /\ AddPack(p) \/ UNCHANGED objects
  /\ Config /\ UNCHANGED <<refs, pins, holder, slots, tableVars, op, arg, meta, ctx, tmp, spool, calls>>

(***************************************************************************)
(* The round-trip check reads the objects back through the pull path; not  *)
(* to read comp.json is an error, anything else a downgrade.               *)
(***************************************************************************)
Verify(p) ==
  /\ At(p, "verify")
  /\ Release(p)
  /\ \/ Breaks(p) /\ UNCHANGED meta
     \/ ~(Parts[arg[p]] \subseteq objects) /\ Ends(p, "error") /\ UNCHANGED <<meta, faults>>
     \/ /\ Live(p)
        /\ Parts[arg[p]] \subseteq objects /\ nature[arg[p]] # "unfaithful"
        /\ Goto(p, "root") /\ UNCHANGED meta
     \/ /\ p \notin ctx
        /\ \/ UNCHANGED faults /\ (nature[arg[p]] = "unfaithful" \/ ~(Parts[arg[p]] \subseteq objects))
           \/ Fault
        /\ refuseRaw(p, "roundtrip-failed")
  /\ Config /\ UNCHANGED <<storeVars, holder, slots, tableVars, op, arg, ctx, tmp, spool, calls>>
-----------------------------------------------------------------------------
\* Mutant of ingestRaw: the spool is removed as soon as it has been read.
ingestRawRemovesSpool(p) ==
  /\ At(p, "raw")
  /\ \/ /\ Live(p)
        /\ objects' = objects \cup {RawObj(arg[p])}
        /\ spool' = spool \ {p}
        /\ Goto(p, "root")
     \/ /\ Breaks(p) /\ UNCHANGED spool
        /\ objects' \in {objects, objects \cup {RawObj(arg[p])}}
  /\ Config /\ UNCHANGED <<refs, pins, holder, slots, tableVars, op, arg, meta, pack, ctx, tmp, calls>>

(***************************************************************************)
(* finalizeRaw up to its root: the spool's bytes, verbatim.                *)
(***************************************************************************)
ingestRaw(p) ==
  /\ At(p, "raw")
  /\ \/ /\ Live(p)
        /\ objects' = objects \cup {RawObj(arg[p])}
        /\ Goto(p, "root")
     \/ /\ Breaks(p)
        /\ objects' \in {objects, objects \cup {RawObj(arg[p])}}
  /\ Config /\ UNCHANGED <<refs, pins, holder, slots, tableVars, op, arg, meta, pack, ctx, tmp, spool, calls>>

writeRoot(p) ==
  /\ At(p, "root")
  /\ \/ /\ Live(p)
        /\ objects' = objects \cup {RootObj(arg[p], meta[p])}
        /\ Goto(p, "publish")
     \/ Breaks(p) /\ UNCHANGED objects
  /\ Config /\ UNCHANGED <<refs, pins, holder, slots, tableVars, op, arg, meta, pack, ctx, tmp, spool, calls>>

\* Mutant of PrepareRef: pins the root without walking its tree.
PrepareRefUnwalked(p) ==
  /\ At(p, "publish")
  /\ \/ /\ pins' = [pins EXCEPT ![p] = {RootObj(arg[p], meta[p])}]
        /\ Goto(p, "refput") /\ UNCHANGED faults
     \/ Ends(p, "error") /\ Fault /\ UNCHANGED pins
  /\ Config /\ UNCHANGED <<refs, objects, holder, slots, tableVars, op, arg, meta, pack, ctx, tmp, spool, calls>>

(***************************************************************************)
(* store.Publish: the collector's PrepareRef walks the tree, fails on a    *)
(* missing object and otherwise keeps the tree from being collected; then  *)
(* the reference is put.  The request's context plays no part.             *)
(***************************************************************************)
PrepareRef(p) ==
  LET tree == Tree(arg[p], meta[p]) IN
  /\ At(p, "publish")
  /\ \/ /\ tree \subseteq objects
        /\ pins' = [pins EXCEPT ![p] = tree]
        /\ Goto(p, "refput") /\ UNCHANGED faults
     \/ ~(tree \subseteq objects) /\ Ends(p, "error") /\ UNCHANGED <<pins, faults>>
     \/ Ends(p, "error") /\ Fault /\ UNCHANGED pins
  /\ Config /\ UNCHANGED <<refs, objects, holder, slots, tableVars, op, arg, meta, pack, ctx, tmp, spool, calls>>

\* Mutant of PutRef: a failure after the reference was written.
PutRefLate(p) ==
  /\ At(p, "refput")
  /\ pins' = [pins EXCEPT ![p] = {}]
  /\ refs' = [refs EXCEPT ![arg[p]] = meta[p]]
  /\ \/ Goto(p, "record") /\ UNCHANGED faults
     \/ Ends(p, "error") /\ Fault
  /\ Config /\ UNCHANGED <<objects, holder, slots, tableVars, op, arg, meta, pack, ctx, tmp, spool, calls>>

PutRef(p) ==
  /\ At(p, "refput")
  /\ pins' = [pins EXCEPT ![p] = {}]
  /\ \/ /\ refs' = [refs EXCEPT ![arg[p]] = meta[p]]
        /\ Goto(p, "record") /\ UNCHANGED faults
     \/ Ends(p, "error") /\ Fault /\ UNCHANGED refs
  /\ Config /\ UNCHANGED <<objects, holder, slots, tableVars, op, arg, meta, pack, ctx, tmp, spool, calls>>

(***************************************************************************)
(* recordRecent, after a publication or for a dedup hit.                   *)
(***************************************************************************)
recordRecent(d, row) ==
  /\ recent' = [recent EXCEPT ![d] = row]
  /\ minted' = [minted EXCEPT ![d] = @ + IF row = "new" THEN 1 ELSE 0]
  /\ UNCHANGED charged

Record(p) ==
  /\ \/ At(p, "record") /\ recordRecent(arg[p], "new")
     \/ At(p, "hit") /\ recordRecent(arg[p], "dedup")
  /\ Goto(p, "unspool")
  /\ Config /\ UNCHANGED <<storeVars, holder, slots, op, arg, meta, pack, ctx, tmp, spool, calls, faults>>

(***************************************************************************)
(* The spool is removed last; failing to is only logged.                   *)
(***************************************************************************)
RemoveSpool(p) ==
  /\ At(p, "unspool")
  /\ \/ spool' = spool \ {p} /\ UNCHANGED faults
     \/ Fault /\ UNCHANGED spool
  /\ Ends(p, "ok")
  /\ Config /\ UNCHANGED <<storeVars, holder, slots, tableVars, op, arg, meta, pack, ctx, tmp, calls>>
-----------------------------------------------------------------------------
\* Mutant of Delete: takes a slot before it waits for the digest's lock.
DeleteTakesSlotFirst(p) ==
  LET d == arg[p] IN
  /\ At(p, "delete")
  /\ \/ /\ p \notin slots /\ Cardinality(slots) < Slots
        /\ slots' = slots \cup {p}
        /\ UNCHANGED <<refs, holder, pc, result>>
     \/ /\ p \in slots /\ holder[d] = None
        /\ holder' = [holder EXCEPT ![d] = p]
        /\ refs' = [refs EXCEPT ![d] = None]
        /\ Ends(p, IF Open(d) THEN "ok" ELSE "error") /\ UNCHANGED slots
  /\ Config /\ UNCHANGED <<objects, pins, tableVars, op, arg, meta, pack, ctx, tmp, spool, calls, faults>>

(***************************************************************************)
(* Delete waits for the digest's lock too.                                 *)
(***************************************************************************)
Delete(p) ==
  LET d == arg[p] IN
  /\ At(p, "delete")
  /\ holder[d] = None
  /\ holder' = [holder EXCEPT ![d] = p]
  /\ \/ /\ refs[d] # None
        /\ refs' = [refs EXCEPT ![d] = None]
        /\ Ends(p, "ok") /\ UNCHANGED faults
     \/ refs[d] = None /\ Ends(p, "error") /\ UNCHANGED <<refs, faults>>
     \/ Ends(p, "error") /\ Fault /\ UNCHANGED refs
  /\ Config /\ UNCHANGED <<objects, pins, slots, tableVars, op, arg, meta, pack, ctx, tmp, spool, calls>>

\* Mutant of Return: the slot is given back only by a Put that succeeded.
ReturnKeepsSlot(p) ==
  /\ At(p, "return")
  /\ slots' = IF result[p] = "ok" THEN slots \ {p} ELSE slots
  /\ holder' = [d \in Digest |-> IF holder[d] = p THEN None ELSE holder[d]]
  /\ tmp' = tmp \ {p}
  /\ ctx' = ctx \ {p} /\ spool' = spool \ {p}
  /\ pc' = [pc EXCEPT ![p] = "idle"]
  /\ result' = [result EXCEPT ![p] = "none"]
  /\ op' = [op EXCEPT ![p] = None]
  /\ arg' = [arg EXCEPT ![p] = None]
  /\ meta' = [meta EXCEPT ![p] = None]
  /\ Config /\ UNCHANGED <<storeVars, tableVars, pack, calls, faults>>

(***************************************************************************)
(* The deferred functions: zrecipe's spool is closed, the slot and the     *)
(* digest's lock are given back.                                           *)
(***************************************************************************)
Return(p) ==
  /\ At(p, "return")
  /\ slots' = slots \ {p}
  /\ holder' = [d \in Digest |-> IF holder[d] = p THEN None ELSE holder[d]]
  /\ tmp' = tmp \ {p}
  /\ ctx' = ctx \ {p} /\ spool' = spool \ {p}
  /\ pc' = [pc EXCEPT ![p] = "idle"]
  /\ result' = [result EXCEPT ![p] = "none"]
  /\ op' = [op EXCEPT ![p] = None]
  /\ arg' = [arg EXCEPT ![p] = None]
  /\ meta' = [meta EXCEPT ![p] = None]
  /\ Config /\ UNCHANGED <<storeVars, tableVars, pack, calls, faults>>

(***************************************************************************)
(* Reuse: a dedup hit without the lock.  Open resolves the reference and   *)
(* reads meta.json; it fails when the blob is not there, and also when a   *)
(* Delete and the collector come between the two.                          *)
(***************************************************************************)
Reuse(p) ==
  /\ At(p, "reuse")
  /\ \/ Open(arg[p]) /\ Goto(p, "reused")
     \/ Ends(p, "error")
  /\ Config /\ UNCHANGED <<storeVars, holder, slots, tableVars, op, arg, meta, pack, ctx, tmp, spool, calls, faults>>

ReuseHit(p) ==
  /\ At(p, "reused")
  /\ recordRecent(arg[p], "dedup")
  /\ Ends(p, "ok")
  /\ Config /\ UNCHANGED <<storeVars, holder, slots, op, arg, meta, pack, ctx, tmp, spool, calls, faults>>

\* Mutant of TakeRecent: the row stays.
TakeRecentKeeps(d) ==
  /\ recent[d] # None
  /\ charged[d] <= MaxCalls
  /\ charged' = [charged EXCEPT ![d] = @ + IF recent[d] = "new" THEN 1 ELSE 0]
  /\ UNCHANGED <<recent, minted>>
  /\ Config /\ UNCHANGED <<storeVars, holder, slots, procVars, calls, faults>>

(***************************************************************************)
(* TakeRecent, called for an image that is being pushed: the row is used   *)
(* up.  A row older than RecentTTL is dropped.                             *)
(***************************************************************************)
TakeRecent(d) ==
  /\ recent[d] # None
  /\ recent' = [recent EXCEPT ![d] = None]
  /\ charged' = [charged EXCEPT ![d] = @ + IF recent[d] = "new" THEN 1 ELSE 0]
  /\ UNCHANGED minted
  /\ Config /\ UNCHANGED <<storeVars, holder, slots, procVars, calls, faults>>

purgeRecent(d) ==
  /\ recent[d] # None
  /\ recent' = [recent EXCEPT ![d] = None]
  /\ Config /\ UNCHANGED <<storeVars, minted, charged, holder, slots, procVars, calls, faults>>

(***************************************************************************)
(* The collector.                                                          *)
(***************************************************************************)
Reachable == UNION {Tree(d, refs[d]) : d \in {e \in Digest : refs[e] # None}}

Collect(o) ==
  /\ o \in objects \ Reachable
  /\ \A p \in Proc : o \notin pins[p]
  /\ objects' = objects \ {o}
  /\ Config /\ UNCHANGED <<refs, pins, holder, slots, tableVars, procVars, calls, faults>>

(***************************************************************************)
(* The process dies and another calls New, which empties the work          *)
(* directory.  References and objects are on disk; packs had no name.      *)
(***************************************************************************)
Crash ==
  /\ Fault
  /\ holder' = [d \in Digest |-> None]
  /\ slots' = {} /\ pins' = [p \in Proc |-> {}]
  /\ recent' = [d \in Digest |-> None]
  /\ pc' = [p \in Proc |-> "idle"]
  /\ op' = [p \in Proc |-> None]
  /\ arg' = [p \in Proc |-> None]
  /\ meta' = [p \in Proc |-> None]
  /\ pack' = [p \in Proc |-> NoPack]
  /\ ctx' = {} /\ spool' = {} /\ tmp' = {}
  /\ result' = [p \in Proc |-> "none"]
  /\ Config /\ UNCHANGED <<refs, objects, minted, charged, calls>>
-----------------------------------------------------------------------------
Step(p) ==
  \/ analyze(p) \/ NewPackWriter(p) \/ stage(p) \/ Confirm(p) \/ commit(p) \/ Verify(p)
  \/ ingestRaw(p) \/ writeRoot(p) \/ PrepareRef(p) \/ PutRef(p) \/ Record(p) \/ RemoveSpool(p)
  \/ Reuse(p) \/ ReuseHit(p) \/ Return(p)

Next ==
  \/ \E p \in Proc :
       \/ \E name \in {"put", "delete", "reuse"}, d \in Digest : Call(p, name, d)
       \/ Cancel(p)
       \/ LockDigest(p) \/ TakeSlot(p) \/ SlotCancelled(p) \/ Delete(p)
       \/ Step(p)
  \/ \E d \in Digest : TakeRecent(d) \/ purgeRecent(d)
  \/ \E o \in Obj : Collect(o)
  \/ Crash

Spec == Init /\ [][Next]_vars

(***************************************************************************)
(* A Put or Delete runs until it returns; waiters for a digest's lock and  *)
(* for a finalize slot are served in turn by Go's mutexes and channels.    *)
(***************************************************************************)
Fairness ==
  \A p \in Proc : SF_vars(Step(p) \/ LockDigest(p) \/ TakeSlot(p) \/ Delete(p))

FairSpec == Spec /\ Fairness
-----------------------------------------------------------------------------
Slotted == {"analyze", "pack", "stage", "confirm", "commit", "verify", "raw", "root", "publish",
            "refput", "record"}
Unlocked == {"idle", "put", "delete", "reuse", "reused"}
Places == Unlocked \cup {"slot", "hit", "unspool", "return"} \cup Slotted

TypeOK ==
  /\ opts \in [allowRaw : BOOLEAN, verify : BOOLEAN]
  /\ nature \in [Digest -> AllNatures]
  /\ refs \in [Digest -> Meta \cup {None}]
  /\ objects \subseteq Obj
  /\ pins \in [Proc -> SUBSET Obj]
  /\ holder \in [Digest -> Proc \cup {None}]
  /\ slots \subseteq Proc
  /\ recent \in [Digest -> {"new", "dedup", None}]
  /\ pc \in [Proc -> Places]
  /\ op \in [Proc -> {"put", "delete", "reuse", None}]
  /\ arg \in [Proc -> Digest \cup {None}]
  /\ meta \in [Proc -> Meta \cup {None}]
  /\ pack \in [Proc -> [open : BOOLEAN, skipped : SUBSET Part, err : {"none", "sink", "decompose"}]]
  /\ ctx \subseteq Proc /\ tmp \subseteq Proc /\ spool \subseteq Proc
  /\ result \in [Proc -> {"none", "ok", "error", "refused"}]
  /\ minted \in [Digest -> Nat] /\ charged \in [Digest -> Nat]
  /\ calls \in 0..MaxCalls /\ faults \in 0..MaxFaults

(***************************************************************************)
(* A published blob is whole: everything its root reaches is in the store, *)
(* although the collector runs while objects that were left out of a pack, *)
(* or written and not yet published, are reachable from nowhere ("so the   *)
(* caller does not publish a root that dangles", store.AddPack).           *)
(***************************************************************************)
RefsAreWhole == \A d \in Digest : refs[d] # None => Tree(d, refs[d]) \subseteq objects

(***************************************************************************)
(* The inductive strengthening of RefsAreWhole and NeverOverwritten: a     *)
(* call has a digest, and from the decision on a meta; it holds the        *)
(* digest's lock while it finalizes, and until the reference is put there  *)
(* is none; a pinned object is there, and between PrepareRef and the       *)
(* reference the pins are the tree.                                        *)
(***************************************************************************)
Finalizing == (Slotted \ {"record"}) \cup {"slot"}

CallsHaveArguments ==
  \A p \in Proc :
    /\ pc[p] # "idle" => arg[p] \in Digest
    /\ pc[p] \in Slotted \ {"analyze", "record"} => meta[p] \in Meta

FinalizersExclude ==
  \A p \in Proc :
    pc[p] \in Finalizing => holder[arg[p]] = p /\ refs[arg[p]] = None

PinsHold ==
  \A p \in Proc :
    /\ pins[p] \subseteq objects
    /\ pc[p] = "refput" => pins[p] = Tree(arg[p], meta[p])

IInv == TypeOK /\ CallsHaveArguments /\ FinalizersExclude /\ PinsHold /\ RefsAreWhole

(***************************************************************************)
(* A layer is kept raw only by the operator's choice, whichever of         *)
(* analyze, the confirming pass, the stager and the round-trip check found *)
(* it out: raw without AllowRaw means the blob is no tar.                  *)
(***************************************************************************)
RawNeedsConsent ==
  \A d \in Digest :
    refs[d] # None /\ refs[d].kind = "raw" /\ ~opts.allowRaw =>
      refs[d].reason = "not-tar" /\ nature[d] = "not-tar"

(***************************************************************************)
(* What is published as a prism can be served: Confirm and tar-prism have  *)
(* accepted it and, with VerifyRoundTrip, the stored objects gave the blob *)
(* back.                                                                   *)
(***************************************************************************)
PrismsReproduce ==
  \A d \in Digest :
    refs[d] = Prism => nature[d] = "prism" \/ (nature[d] = "unfaithful" /\ ~opts.verify)

(***************************************************************************)
(* No path out of Put keeps a resource: "the pack is released on every     *)
(* path", a goroutine that is not finalizing has no slot, no spool file of *)
(* zrecipe's and no digest's lock, so packs and spool files are as few as  *)
(* the slots.                                                              *)
(***************************************************************************)
NothingLeaks ==
  /\ \A p \in Proc :
       /\ pack[p].open => pc[p] \in {"stage", "confirm", "commit", "verify"}
       /\ p \in slots => pc[p] \in Slotted \cup {"unspool", "return"}
       /\ pc[p] \in Unlocked => \A d \in Digest : holder[d] # p
  /\ tmp \subseteq slots
  /\ Cardinality({p \in Proc : pack[p].open} \cup tmp) <= Slots

(***************************************************************************)
(* However a blob comes to be stored, it is stored in a form that the      *)
(* operator allows and that can be served.                                 *)
(***************************************************************************)
StoredAsAllowed == RawNeedsConsent /\ PrismsReproduce

(***************************************************************************)
(* Finalizations of one digest are serialized, so the reference of a blob  *)
(* that is there is never pointed at another root: it only goes, and only  *)
(* by Delete.                                                              *)
(***************************************************************************)
NeverOverwritten ==
  [][\A d \in Digest : refs[d] # None => refs'[d] \in {refs[d], None}]_vars

(***************************************************************************)
(* The bytes a blob has added are charged to one image at most, however    *)
(* pushes, dedup hits and image pushes interleave.                         *)
(***************************************************************************)
ChargedOnce ==
  \A d \in Digest : charged[d] + (IF recent[d] = "new" THEN 1 ELSE 0) <= minted[d]

(***************************************************************************)
(* "On any error ... the spool is left in place": a Put that returns an    *)
(* error has not removed the bytes a retry needs.                          *)
(***************************************************************************)
SpoolOutlivesFailure ==
  \A p \in Proc : op[p] = "put" /\ p \notin spool => pc[p] = "return" /\ result[p] = "ok"

(***************************************************************************)
(* Whichever path Put leaves by, it keeps no resource, and it takes the    *)
(* client's bytes away only with success.                                  *)
(***************************************************************************)
PathsOut == NothingLeaks /\ SpoolOutlivesFailure

(***************************************************************************)
(* Put and Delete wait for their digest, then Put for a slot while it      *)
(* holds the digest: whom a goroutine waits for.                           *)
(***************************************************************************)
WaitsFor(p) ==
  CASE pc[p] \in {"put", "delete"} -> {holder[arg[p]]} \ {None}
    [] pc[p] = "slot" -> IF Cardinality(slots) < Slots THEN {} ELSE slots
    [] OTHER -> {}

(***************************************************************************)
(* Nobody waits in a circle, although goroutines hold a digest's lock and  *)
(* wait for a slot: the one that has the digest waits for a slot at most,  *)
(* and the ones that have the slots wait for nobody.                       *)
(***************************************************************************)
NoCircularWait ==
  \A p \in Proc : \A q \in WaitsFor(p) : \A r \in WaitsFor(q) : WaitsFor(r) = {}

(***************************************************************************)
(* Every call returns, unless the process dies: waiting for the digest,    *)
(* then for a slot that holders of other digests have, never deadlocks,    *)
(* and no path keeps what others wait for.                                 *)
(***************************************************************************)
EveryCallReturns == \A p \in Proc : pc[p] # "idle" ~> pc[p] = "idle"

(***************************************************************************)
(* Put and Delete implement BlobMap: "on any error nothing is published".  *)
(* Put takes effect when the reference is put, or when Open finds it.      *)
(***************************************************************************)
Concluded(p) ==
  CASE pc[p] \in {"hit", "record", "unspool"} -> "ok"
    [] pc[p] = "return" -> IF result[p] = "ok" THEN "ok" ELSE "error"
    [] OTHER -> "none"

Abs == INSTANCE BlobMap WITH
         stored <- {d \in Digest : refs[d] # None},
         op <- [p \in Proc |->
                  IF op[p] \in {"put", "delete"}
                  THEN [name |-> op[p], d |-> arg[p], result |-> Concluded(p)]
                  ELSE [name |-> "none", d |-> "none", result |-> "none"]]

ImplementsBlobMap == Abs!Spec
=============================================================================
