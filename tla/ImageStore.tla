----------------------------- MODULE ImageStore -----------------------------
(***************************************************************************)
(* image.Store in one repository: Put and Delete of manifests and indexes, *)
(* which are published under a manifest, a tag and a referrer reference.   *)
(*                                                                         *)
(* Put resolves the manifest's blobs and builds the rootfs tree, or finds  *)
(* one to reuse, before it takes the repository's lock; it writes its root *)
(* and publishes under the lock.  Blobs come and go through blob.Store,    *)
(* which takes no part in that lock, and the collector runs all the time.  *)
(*                                                                         *)
(* A manifest is its digest.  An object is a blob's root with everything   *)
(* under it, a rootfs tree, or an image root with the manifest's bytes and *)
(* directories.  A root's key covers its time of creation, so that every   *)
(* push makes a root of its own.                                           *)
(***************************************************************************)
EXTENDS Integers, FiniteSets, Sequences

CONSTANTS Proc,       \* goroutines that call the store
          Manifest,   \* digests of manifests and indexes
          Image,      \* those rootfsApplies accepts
          Blob,       \* digests of blobs
          Tag,        \* tags
          Blobs,      \* Blobs[m]: config and layers
          Layers,     \* Layers[m]: the layers
          Children,   \* Children[m]: the manifests of an index
          Subject,    \* Subject[m]: the manifest it refers to, or None
          MaxCalls,   \* bound: calls of Put and Delete
          MaxBlobOps, \* bound: blobs stored or deleted
          MaxFaults,  \* bound: failing operations and crashes
          None

BlobObj(b, kind) == <<"blob", b, kind>>

RootfsObj(m) == <<"rootfs", m>>
RootObj(r) == <<"root", r.m, r.n>>

BlobObjects == {BlobObj(b, k) : b \in Blob, k \in {"prism", "raw"}}
Object ==
  BlobObjects \cup {RootfsObj(m) : m \in Manifest}
    \cup {<<"root", m, n>> : m \in Manifest, n \in 1..MaxCalls}

(***************************************************************************)
(* An image root: a manifest, its blobs, the state of its rootfs and what  *)
(* the roots of its children reach, which may be indexes again; n tells    *)
(* pushes of one manifest apart.                                           *)
(***************************************************************************)
Root ==
  [m : Manifest, blobs : SUBSET BlobObjects, rootfs : {"none", "ok", "unavailable"},
   below : SUBSET Object, n : 1..MaxCalls]

ASSUME ImageAssumption ==
  /\ None \notin Proc \cup Manifest \cup Blob \cup Tag \cup {"prism", "raw"}
  /\ None \notin Root
  /\ Image \subseteq Manifest
  /\ Blobs \in [Manifest -> SUBSET Blob]
  /\ Layers \in [Manifest -> SUBSET Blob]
  /\ Children \in [Manifest -> SUBSET Manifest]
  /\ Subject \in [Manifest -> Manifest \cup {None}]
  /\ \A m \in Manifest : Layers[m] \subseteq Blobs[m]
  /\ \A m \in Image : Children[m] = {}
  /\ MaxCalls \in Nat /\ MaxBlobOps \in Nat /\ MaxFaults \in Nat

VARIABLES
  refs,      \* the root each reference points at, or None
  blobRef,   \* oci/blob/<b>: "prism", "raw" or None
  objects,   \* what the object store holds
  pins,      \* objects a publication in progress keeps from the collector
  holder,    \* s.repos: who holds the repository's lock
  pc,        \* where each goroutine is
  op,        \* its call
  todo,      \* blobs to resolve, layers to apply or tags to delete
  root,      \* the root it builds, or has resolved to delete
  names,     \* the references Put still has to publish
  result,    \* what the call is about to return
  published, \* history: Puts that have put a reference
  halfway,   \* history: manifests whose Delete began and has not succeeded
  calls, blobOps, faults

storeVars == <<refs, blobRef, objects, pins>>
callVars == <<op, todo, root, names>>
historyVars == <<published, halfway>>
boundVars == <<calls, blobOps, faults>>
vars == <<storeVars, holder, pc, callVars, result, historyVars, boundVars>>

TagRef(t) == <<"tag", t>>
ManifestRef(m) == <<"manifest", m>>
ReferrerRef(s, m) == <<"referrer", s, m>>
RefNames == {TagRef(t) : t \in Tag} \cup {ManifestRef(m) : m \in Manifest}
              \cup {ReferrerRef(s, m) : s, m \in Manifest}

(***************************************************************************)
(* What a root reaches: blobs/, the rootfs tree, and through manifests/    *)
(* the children's roots.                                                   *)
(***************************************************************************)
Tree(r) ==
  {RootObj(r)} \cup r.blobs \cup r.below \cup IF r.rootfs = "ok" THEN {RootfsObj(r.m)} ELSE {}

NoOp == [name |-> "none", m |-> None, tag |-> None]
NoRoot == [m |-> None, blobs |-> {}, rootfs |-> "none", below |-> {}, n |-> 0]
NewRoot(m) == [m |-> m, blobs |-> {}, rootfs |-> "none", below |-> {}, n |-> calls]

Init ==
  /\ refs = [n \in RefNames |-> None]
  /\ blobRef = [b \in Blob |-> None]
  /\ objects = {}
  /\ pins = [p \in Proc |-> {}]
  /\ holder = None
  /\ pc = [p \in Proc |-> "idle"]
  /\ op = [p \in Proc |-> NoOp]
  /\ todo = [p \in Proc |-> {}]
  /\ root = [p \in Proc |-> NoRoot]
  /\ names = [p \in Proc |-> <<>>]
  /\ result = [p \in Proc |-> "none"]
  /\ published = {} /\ halfway = {}
  /\ calls = MaxCalls /\ blobOps = MaxBlobOps /\ faults = MaxFaults
-----------------------------------------------------------------------------
Fault == faults > 0 /\ faults' = faults - 1

At(p, where) == pc[p] = where

Goto(p, where) == pc' = [pc EXCEPT ![p] = where] /\ UNCHANGED result

(***************************************************************************)
(* The call is over but for its deferred functions.                        *)
(***************************************************************************)
Ends(p, res) ==
  /\ pc' = [pc EXCEPT ![p] = "return"]
  /\ result' = [result EXCEPT ![p] = res]

(***************************************************************************)
(* An internal error: an operation of the store failed or the request's    *)
(* context has ended.                                                      *)
(***************************************************************************)
Breaks(p) == Fault /\ Ends(p, "error")

Set(var, p, x) == [var EXCEPT ![p] = x]

(***************************************************************************)
(* A call of Put with a manifest that parses, by tag or (tag None) by      *)
(* digest; a call of Delete by tag or by digest.                           *)
(***************************************************************************)
CallPut(p, m, t) ==
  /\ At(p, "idle")
  /\ calls > 0 /\ calls' = calls - 1
  /\ op' = Set(op, p, [name |-> "put", m |-> m, tag |-> t])
  /\ todo' = Set(todo, p, Blobs[m])
  /\ root' = Set(root, p, NewRoot(m))
  /\ Goto(p, "resolve")
  /\ UNCHANGED <<storeVars, holder, names, historyVars, blobOps, faults>>

CallDelete(p, m, t) ==
  /\ At(p, "idle")
  /\ calls > 0 /\ calls' = calls - 1
  /\ op' = Set(op, p, [name |-> "delete", m |-> m, tag |-> t])
  /\ Goto(p, "lock")
  /\ UNCHANGED <<storeVars, holder, todo, root, names, historyVars, blobOps, faults>>
-----------------------------------------------------------------------------
(***************************************************************************)
(* resolveBlobs, blob by blob; the first missing one is the client's       *)
(* fault.                                                                  *)
(***************************************************************************)
resolveBlobs(p) ==
  /\ At(p, "resolve")
  /\ \/ /\ todo[p] = {}
        /\ Goto(p, "rootfs")
        /\ UNCHANGED <<todo, root, faults>>
     \/ \E b \in todo[p] :
          /\ blobRef[b] # None
          /\ root' = [root EXCEPT ![p].blobs = @ \cup {BlobObj(b, blobRef[b])}]
          /\ todo' = [todo EXCEPT ![p] = @ \ {b}]
          /\ UNCHANGED <<pc, result, faults>>
     \/ \E b \in todo[p] : blobRef[b] = None /\ Ends(p, "unknown") /\ UNCHANGED <<todo, root, faults>>
     \/ Breaks(p) /\ UNCHANGED <<todo, root>>
  /\ UNCHANGED <<storeVars, holder, op, names, historyVars, calls, blobOps>>

HasRootfs(p, status) ==
  /\ root' = [root EXCEPT ![p].rootfs = status]
  /\ Goto(p, "lock")

(***************************************************************************)
(* reuseRootfs: a root of the same digest lends its tree, if it has one.   *)
(***************************************************************************)
reuseRootfs(m) == LET old == refs[ManifestRef(m)] IN old # None /\ old.rootfs = "ok"

(***************************************************************************)
(* buildRootfs up to the layers.                                           *)
(***************************************************************************)
buildRootfs(p) ==
  LET m == op[p].m IN
  /\ At(p, "rootfs")
  /\ \/ m \notin Image /\ HasRootfs(p, "none") /\ UNCHANGED <<todo, faults>>
     \/ m \in Image /\ reuseRootfs(m) /\ HasRootfs(p, "ok") /\ UNCHANGED <<todo, faults>>
     \/ /\ m \in Image /\ ~reuseRootfs(m)
        /\ todo' = Set(todo, p, Layers[m])
        /\ Goto(p, "layers")
        /\ UNCHANGED <<root, faults>>
     \/ Breaks(p) /\ UNCHANGED <<todo, root>>
  /\ UNCHANGED <<storeVars, holder, op, names, historyVars, calls, blobOps>>

(***************************************************************************)
(* The layers are opened anew, one by one.  A raw layer, or one whose      *)
(* archive cannot be parsed, makes the tree unavailable; after the last    *)
(* the tree is written.                                                    *)
(***************************************************************************)
applyLayers(p) ==
  /\ At(p, "layers")
  /\ \/ /\ todo[p] = {}
        /\ objects' = objects \cup {RootfsObj(op[p].m)}
        /\ HasRootfs(p, "ok")
        /\ UNCHANGED <<todo, faults>>
     \/ \E l \in todo[p] :
          /\ UNCHANGED <<objects, faults>>
          /\ \/ blobRef[l] = None /\ Ends(p, "unknown") /\ UNCHANGED <<todo, root>>
             \/ blobRef[l] # None /\ HasRootfs(p, "unavailable") /\ UNCHANGED todo
             \/ /\ blobRef[l] = "prism"
                /\ todo' = [todo EXCEPT ![p] = @ \ {l}]
                /\ UNCHANGED <<pc, result, root>>
     \/ Breaks(p) /\ UNCHANGED <<objects, todo, root>>
  /\ UNCHANGED <<refs, blobRef, pins, holder, op, names, historyVars, calls, blobOps>>
-----------------------------------------------------------------------------
\* Mutant of LockRepo: Put goes on without the lock.
LockRepoNot(p) ==
  /\ At(p, "lock")
  /\ IF op[p].name = "put" THEN UNCHANGED holder ELSE holder = None /\ holder' = p
  /\ Goto(p, IF op[p].name = "put" THEN "children"
             ELSE IF op[p].tag # None THEN "deltag" ELSE "delmanifest")
  /\ UNCHANGED <<storeVars, callVars, historyVars, boundVars>>

(***************************************************************************)
(* s.repos.Lock(repo), in Put and in Delete.                               *)
(***************************************************************************)
LockRepo(p) ==
  /\ At(p, "lock")
  /\ holder = None
  /\ holder' = p
  /\ Goto(p, IF op[p].name = "put" THEN "children"
             ELSE IF op[p].tag # None THEN "deltag" ELSE "delmanifest")
  /\ UNCHANGED <<storeVars, callVars, historyVars, boundVars>>

(***************************************************************************)
(* resolveChildren.  The repository's manifest references change only      *)
(* under its lock, so that the children are read in one step, and          *)
(* computeStats, which resolves them once more, finds the same.            *)
(***************************************************************************)
resolveChildren(p) ==
  LET kids == {refs[ManifestRef(c)] : c \in Children[op[p].m]} IN
  /\ At(p, "children")
  /\ \/ /\ None \notin kids
        /\ root' = [root EXCEPT ![p].below = UNION {Tree(k) : k \in kids}]
        /\ Goto(p, "write") /\ UNCHANGED faults
     \/ None \in kids /\ Ends(p, "unknown") /\ UNCHANGED <<root, faults>>
     \/ Breaks(p) /\ UNCHANGED root
  /\ UNCHANGED <<storeVars, holder, op, todo, names, historyVars, calls, blobOps>>

\* Mutant of PublishOrder: the tag before the manifest.
PublishTagFirst(p) ==
  LET m == op[p].m IN
  (IF op[p].tag # None THEN <<TagRef(op[p].tag)>> ELSE <<>>)
    \o <<ManifestRef(m)>>
    \o (IF Subject[m] # None THEN <<ReferrerRef(Subject[m], m)>> ELSE <<>>)

(***************************************************************************)
(* The references Put publishes: the manifest's, the tag's, the            *)
(* referrer's.                                                             *)
(***************************************************************************)
PublishOrder(p) ==
  LET m == op[p].m IN
  <<ManifestRef(m)>>
    \o (IF op[p].tag # None THEN <<TagRef(op[p].tag)>> ELSE <<>>)
    \o (IF Subject[m] # None THEN <<ReferrerRef(Subject[m], m)>> ELSE <<>>)

\* Mutant of writeRoot: gives the repository back before it publishes.
writeRootUnlocks(p) ==
  /\ At(p, "write")
  /\ objects' = objects \cup {RootObj(root[p])}
  /\ names' = Set(names, p, PublishOrder(p))
  /\ holder' = None
  /\ Goto(p, "publish")
  /\ UNCHANGED <<refs, blobRef, pins, op, todo, root, historyVars, boundVars>>

(***************************************************************************)
(* Both passes: the manifest's objects, the statistics, meta.json and the  *)
(* root.                                                                   *)
(***************************************************************************)
writeRoot(p) ==
  /\ At(p, "write")
  /\ \/ /\ objects' = objects \cup {RootObj(root[p])}
        /\ names' = Set(names, p, PublishOrder(p))
        /\ Goto(p, "publish")
        /\ UNCHANGED faults
     \/ Breaks(p) /\ UNCHANGED <<objects, names>>
  /\ UNCHANGED <<refs, blobRef, pins, holder, op, todo, root, historyVars, calls, blobOps>>

\* Mutant of PrepareRef: pins the root without walking its tree.
PrepareRefUnwalked(p) ==
  /\ At(p, "publish")
  /\ pins' = Set(pins, p, {RootObj(root[p])})
  /\ Goto(p, "refput")
  /\ UNCHANGED <<refs, blobRef, objects, holder, callVars, historyVars, boundVars>>

(***************************************************************************)
(* store.Publish of the next name: PrepareRef walks the tree and fails on  *)
(* a missing object, or keeps the tree from the collector until the        *)
(* reference is put.                                                       *)
(***************************************************************************)
PrepareRef(p) ==
  LET tree == Tree(root[p]) IN
  /\ At(p, "publish")
  /\ \/ tree \subseteq objects /\ pins' = Set(pins, p, tree) /\ Goto(p, "refput") /\ UNCHANGED faults
     \/ ~(tree \subseteq objects) /\ Ends(p, "error") /\ UNCHANGED <<pins, faults>>
     \/ Breaks(p) /\ UNCHANGED pins
  /\ UNCHANGED <<refs, blobRef, objects, holder, callVars, historyVars, calls, blobOps>>

PutRef(p) ==
  /\ At(p, "refput")
  /\ pins' = Set(pins, p, {})
  /\ \/ /\ refs' = [refs EXCEPT ![Head(names[p])] = root[p]]
        /\ names' = [names EXCEPT ![p] = Tail(@)]
        /\ published' = published \cup {p}
        /\ IF Len(names[p]) = 1 THEN Ends(p, "ok") ELSE Goto(p, "publish")
        /\ UNCHANGED faults
     \/ Breaks(p) /\ UNCHANGED <<refs, names, published>>
  /\ UNCHANGED <<blobRef, objects, holder, op, todo, root, halfway, calls, blobOps>>
-----------------------------------------------------------------------------
DeleteUnchanged == UNCHANGED <<blobRef, objects, pins, holder, op, names, published, calls, blobOps>>

DeleteRef(n) == refs' = [refs EXCEPT ![n] = None]

(***************************************************************************)
(* Delete by tag: the tag's reference, and nothing else.                   *)
(***************************************************************************)
DeleteTag(p) ==
  LET n == TagRef(op[p].tag) IN
  /\ At(p, "deltag")
  /\ \/ refs[n] # None /\ DeleteRef(n) /\ Ends(p, "ok") /\ UNCHANGED faults
     \/ refs[n] = None /\ Ends(p, "unknown") /\ UNCHANGED <<refs, faults>>
     \/ Breaks(p) /\ UNCHANGED refs
  /\ DeleteUnchanged /\ UNCHANGED <<todo, root, halfway>>

(***************************************************************************)
(* Delete by digest: the manifest's reference first.                       *)
(***************************************************************************)
DeleteManifest(p) ==
  LET n == ManifestRef(op[p].m) IN
  /\ At(p, "delmanifest")
  /\ \/ /\ refs[n] # None
        /\ DeleteRef(n)
        /\ root' = Set(root, p, refs[n])
        /\ halfway' = halfway \cup {op[p].m}
        /\ Goto(p, "list") /\ UNCHANGED faults
     \/ refs[n] = None /\ Ends(p, "unknown") /\ UNCHANGED <<refs, root, halfway, faults>>
     \/ Breaks(p) /\ UNCHANGED <<refs, root, halfway>>
  /\ DeleteUnchanged /\ UNCHANGED todo

\* Mutant of ListTags: only tags on the very root that was deleted.
ListTagsOfRoot(p) ==
  /\ At(p, "list")
  /\ todo' = Set(todo, p, {t \in Tag : refs[TagRef(t)] = root[p]})
  /\ Goto(p, "deltags")
  /\ DeleteUnchanged /\ UNCHANGED <<refs, root, halfway, faults>>

(***************************************************************************)
(* Then every tag on that root, or on an older root of the same digest.    *)
(***************************************************************************)
ListTags(p) ==
  /\ At(p, "list")
  /\ \/ /\ todo' = Set(todo, p, {t \in Tag : /\ refs[TagRef(t)] # None
                                             /\ refs[TagRef(t)].m = root[p].m})
        /\ Goto(p, "deltags") /\ UNCHANGED faults
     \/ Breaks(p) /\ UNCHANGED todo
  /\ DeleteUnchanged /\ UNCHANGED <<refs, root, halfway>>

DeleteTags(p) ==
  /\ At(p, "deltags")
  /\ \/ \E t \in todo[p] :
          /\ DeleteRef(TagRef(t))
          /\ todo' = [todo EXCEPT ![p] = @ \ {t}]
          /\ UNCHANGED <<pc, result, faults>>
     \/ todo[p] = {} /\ Goto(p, "delreferrer") /\ UNCHANGED <<refs, todo, faults>>
     \/ Breaks(p) /\ UNCHANGED <<refs, todo>>
  /\ DeleteUnchanged /\ UNCHANGED <<root, halfway>>

(***************************************************************************)
(* Last the manifest's own referrer reference.                             *)
(***************************************************************************)
DeleteReferrer(p) ==
  LET s == Subject[root[p].m] IN
  /\ At(p, "delreferrer")
  /\ \/ /\ IF s # None THEN DeleteRef(ReferrerRef(s, root[p].m)) ELSE UNCHANGED refs
        /\ halfway' = halfway \ {op[p].m}
        /\ Ends(p, "ok") /\ UNCHANGED faults
     \/ s # None /\ Breaks(p) /\ UNCHANGED <<refs, halfway>>
  /\ DeleteUnchanged /\ UNCHANGED <<todo, root>>

(***************************************************************************)
(* The deferred unlock and the return.                                     *)
(***************************************************************************)
Return(p) ==
  /\ At(p, "return")
  /\ holder' = IF holder = p THEN None ELSE holder
  /\ pc' = Set(pc, p, "idle")
  /\ result' = Set(result, p, "none")
  /\ op' = Set(op, p, NoOp)
  /\ todo' = Set(todo, p, {})
  /\ root' = Set(root, p, NoRoot)
  /\ names' = Set(names, p, <<>>)
  /\ published' = published \ {p}
  /\ UNCHANGED <<storeVars, halfway, boundVars>>
-----------------------------------------------------------------------------
(***************************************************************************)
(* blob.Store as the image store meets it (BlobStore is its model): a blob *)
(* appears with everything under its root, or its reference goes.          *)
(***************************************************************************)
PutBlob(b, kind) ==
  /\ blobOps > 0 /\ blobOps' = blobOps - 1
  /\ blobRef[b] = None
  /\ blobRef' = [blobRef EXCEPT ![b] = kind]
  /\ objects' = objects \cup {BlobObj(b, kind)}
  /\ UNCHANGED <<refs, pins, holder, pc, callVars, result, historyVars, calls, faults>>

DeleteBlob(b) ==
  /\ blobOps > 0 /\ blobOps' = blobOps - 1
  /\ blobRef[b] # None
  /\ blobRef' = [blobRef EXCEPT ![b] = None]
  /\ UNCHANGED <<refs, objects, pins, holder, pc, callVars, result, historyVars, calls, faults>>

Reachable ==
  UNION {Tree(refs[n]) : n \in {n \in RefNames : refs[n] # None}}
    \cup {BlobObj(b, blobRef[b]) : b \in {b \in Blob : blobRef[b] # None}}

Collect ==
  \E o \in objects \ Reachable :
    /\ \A p \in Proc : o \notin pins[p]
    /\ objects' = objects \ {o}
    /\ UNCHANGED <<refs, blobRef, pins, holder, pc, callVars, result, historyVars, boundVars>>

(***************************************************************************)
(* The process dies; references and objects are on disk.                   *)
(***************************************************************************)
Crash ==
  /\ Fault
  /\ pins' = [p \in Proc |-> {}]
  /\ holder' = None
  /\ pc' = [p \in Proc |-> "idle"]
  /\ op' = [p \in Proc |-> NoOp]
  /\ todo' = [p \in Proc |-> {}]
  /\ root' = [p \in Proc |-> NoRoot]
  /\ names' = [p \in Proc |-> <<>>]
  /\ result' = [p \in Proc |-> "none"]
  /\ published' = {}
  /\ UNCHANGED <<refs, blobRef, objects, halfway, calls, blobOps>>

Step(p) ==
  \/ resolveBlobs(p) \/ buildRootfs(p) \/ applyLayers(p) \/ LockRepo(p)
  \/ resolveChildren(p) \/ writeRoot(p) \/ PrepareRef(p) \/ PutRef(p)
  \/ DeleteTag(p) \/ DeleteManifest(p) \/ ListTags(p) \/ DeleteTags(p) \/ DeleteReferrer(p)
  \/ Return(p)

Next ==
  \/ \E p \in Proc :
       \/ \E m \in Manifest, t \in Tag \cup {None} : CallPut(p, m, t)
       \/ \E m \in Manifest : CallDelete(p, m, None)
       \/ \E t \in Tag : CallDelete(p, None, t)
       \/ Step(p)
  \/ \E b \in Blob : (\E kind \in {"prism", "raw"} : PutBlob(b, kind)) \/ DeleteBlob(b)
  \/ Collect
  \/ Crash

Spec == Init /\ [][Next]_vars
-----------------------------------------------------------------------------
Locked == {"children", "write", "publish", "refput", "deltag", "delmanifest", "list", "deltags",
           "delreferrer"}

TypeOK ==
  /\ refs \in [RefNames -> Root \cup {None}]
  /\ blobRef \in [Blob -> {"prism", "raw", None}]
  /\ \A p \in Proc : pins[p] # {} => pc[p] = "refput"
  /\ holder \in Proc \cup {None}
  /\ pc \in [Proc -> {"idle", "resolve", "rootfs", "layers", "lock", "return"} \cup Locked]
  /\ root \in [Proc -> Root \cup {NoRoot}]
  /\ todo \in [Proc -> SUBSET (Blob \cup Tag)]
  /\ names \in [Proc -> Seq(RefNames)]
  /\ \A p \in Proc : pc[p] \in {"publish", "refput"} => names[p] # <<>>
  /\ result \in [Proc -> {"none", "ok", "error", "unknown"}]
  /\ published \subseteq Proc /\ halfway \subseteq Manifest
  /\ calls \in 0..MaxCalls /\ blobOps \in 0..MaxBlobOps /\ faults \in 0..MaxFaults

(***************************************************************************)
(* A published image is whole, its children, its blobs and its rootfs tree *)
(* included, although they were resolved, or reused, before anything kept  *)
(* them: "the publish fails on the missing objects rather than naming      *)
(* them" (reuseRootfs).                                                    *)
(***************************************************************************)
RefsAreWhole == \A n \in RefNames : refs[n] # None => Tree(refs[n]) \subseteq objects

(***************************************************************************)
(* A tag or a referrer names a manifest that can be fetched by digest,     *)
(* unless a Delete of that manifest is under way or has broken off: the    *)
(* manifest is published first and Delete removes all its names.           *)
(***************************************************************************)
NamesHaveManifests ==
  \A n \in RefNames :
    refs[n] # None => refs[ManifestRef(refs[n].m)] # None \/ refs[n].m \in halfway

(***************************************************************************)
(* An index is published only while every manifest it lists is there: a    *)
(* Delete in the same repository cannot come between the look and the      *)
(* publication.                                                            *)
(***************************************************************************)
IndexNeedsChildren ==
  [][\A m \in Manifest :
       refs'[ManifestRef(m)] # refs[ManifestRef(m)] /\ refs'[ManifestRef(m)] # None =>
         \A c \in Children[m] : refs[ManifestRef(c)] # None]_vars

(***************************************************************************)
(* When Delete by digest succeeds nothing in the repository names that     *)
(* digest any more, also not a tag "left on an older root by a re-push by  *)
(* digest".                                                                *)
(***************************************************************************)
DeleteIsComplete ==
  \A p \in Proc :
    pc[p] = "return" /\ result[p] = "ok" /\ op[p].name = "delete" /\ op[p].tag = None =>
      \A n \in RefNames : refs[n] # None => refs[n].m # op[p].m

(***************************************************************************)
(* When Put succeeds all its names point at the root it has made: pushes   *)
(* of one tag do not mix their references.                                 *)
(***************************************************************************)
PutTakesEffect ==
  \A p \in Proc :
    pc[p] = "return" /\ result[p] = "ok" /\ op[p].name = "put" =>
      /\ refs[ManifestRef(op[p].m)] = root[p]
      /\ op[p].tag # None => refs[TagRef(op[p].tag)] = root[p]
      /\ Subject[op[p].m] # None => refs[ReferrerRef(Subject[op[p].m], op[p].m)] = root[p]

(***************************************************************************)
(* Put: "Any other error is internal; nothing has been published when it   *)
(* is returned".                                                           *)
(***************************************************************************)
FailedPutPublishesNothing ==
  \A p \in Proc : pc[p] = "return" /\ result[p] = "error" => p \notin published
=============================================================================
