-------------------------- MODULE ImageStoreProofs --------------------------
(***************************************************************************)
(* image.Store, for any number of goroutines, manifests, blobs, tags,      *)
(* calls, failures and crashes: what is published is whole and is named    *)
(* consistently.                                                           *)
(*                                                                         *)
(* Wholeness rests on PinsOK: between the walk of a tree and the reference *)
(* that is put, the collector is kept from every object of the tree.  The  *)
(* names rest on the repository's lock: what a goroutine knows of the      *)
(* references, CallOK, it knows only while it holds that lock, and nobody  *)
(* else changes them meanwhile.                                            *)
(***************************************************************************)
EXTENDS ImageStore, SequenceTheorems, TLAPS

PCs == {"idle", "resolve", "rootfs", "layers", "lock", "return"} \cup Locked
Ops == [name : {"none", "put", "delete"}, m : Manifest \cup {None}, tag : Tag \cup {None}]

StateOK ==
  /\ refs \in [RefNames -> Root \cup {None}]
  /\ blobRef \in [Blob -> {"prism", "raw", None}]
  /\ pins = [p \in Proc |-> pins[p]]
  /\ holder \in Proc \cup {None}
  /\ pc \in [Proc -> PCs]
  /\ op \in [Proc -> Ops]
  /\ root \in [Proc -> Root \cup {NoRoot}]
  /\ todo \in [Proc -> SUBSET (Blob \cup Tag)]
  /\ names \in [Proc -> Seq(RefNames)]
  /\ result \in [Proc -> {"none", "ok", "error", "unknown"}]
  /\ published \subseteq Proc /\ halfway \subseteq Manifest
  /\ calls \in 0..MaxCalls /\ blobOps \in 0..MaxBlobOps /\ faults \in 0..MaxFaults

\* From the walk to the reference the collector is kept from the whole tree.
PinsOK ==
  \A p \in Proc :
    /\ pins[p] \subseteq objects
    /\ pins[p] # {} => pc[p] = "refput"
    /\ pc[p] = "refput" => Tree(root[p]) \subseteq pins[p]

\* A manifest's or a referrer's name is on a root of that very manifest.
NamesAreTrue ==
  /\ \A m \in Manifest : refs[ManifestRef(m)] # None => refs[ManifestRef(m)].m = m
  /\ \A s, m \in Manifest :
       refs[ReferrerRef(s, m)] # None => refs[ReferrerRef(s, m)].m = m /\ Subject[m] = s

Putting == {"resolve", "rootfs", "layers", "children", "write", "publish", "refput"}
Deleting == {"list", "deltags", "delreferrer"}

IsPut(p) == op[p].name = "put" /\ op[p].m \in Manifest /\ root[p] \in Root /\ root[p].m = op[p].m
IsDelete(p) == op[p].name = "delete" /\ (op[p].tag = None => op[p].m \in Manifest)

\* The names a Put is to publish.
PutNames(p) ==
  {ManifestRef(op[p].m)}
    \cup (IF op[p].tag # None THEN {TagRef(op[p].tag)} ELSE {})
    \cup (IF Subject[op[p].m] # None THEN {ReferrerRef(Subject[op[p].m], op[p].m)} ELSE {})

\* What a goroutine has of its call alone.
LocalOK(p) ==
  /\ pc[p] \in Putting => IsPut(p)
  /\ pc[p] = "lock" => IsPut(p) \/ IsDelete(p)
  /\ pc[p] \in {"resolve", "layers"} => todo[p] \subseteq Blob
  /\ pc[p] = "deltag" => op[p].name = "delete" /\ op[p].tag \in Tag
  /\ pc[p] = "delmanifest" => IsDelete(p) /\ op[p].tag = None
  /\ pc[p] \in Deleting => IsDelete(p) /\ op[p].tag = None /\ root[p] \in Root /\ root[p].m = op[p].m
  /\ pc[p] = "deltags" => todo[p] \subseteq Tag
  /\ pc[p] \in {"publish", "refput"} => names[p] \in Seq(PutNames(p)) /\ names[p] # <<>>

Holds(p) == pc[p] \in Locked \/ (pc[p] = "return" /\ result[p] = "ok")

NoTagOn(m, tags) == \A t \in Tag : refs[TagRef(t)] # None /\ refs[TagRef(t)].m = m => t \in tags

\* What it knows of the references while it holds the lock.
HeldOK(p) ==
  /\ Holds(p) => holder = p
  /\ pc[p] \in {"write", "publish", "refput"} => \A c \in Children[op[p].m] : refs[ManifestRef(c)] # None
  /\ pc[p] \in {"publish", "refput"} =>
       /\ \A n \in PutNames(p) : refs[n] = root[p] \/ \E i \in 1..Len(names[p]) : names[p][i] = n
       /\ names[p][1] = ManifestRef(op[p].m) \/ refs[ManifestRef(op[p].m)] # None
  /\ pc[p] \in Deleting => refs[ManifestRef(op[p].m)] = None
  /\ pc[p] = "deltags" => NoTagOn(op[p].m, todo[p])
  /\ pc[p] = "delreferrer" => NoTagOn(op[p].m, {})
  /\ pc[p] = "return" /\ result[p] = "ok" /\ op[p].name = "put" => \A n \in PutNames(p) : refs[n] = root[p]
  /\ pc[p] = "return" /\ result[p] = "ok" /\ op[p].name = "delete" /\ op[p].tag = None =>
       \A n \in RefNames : refs[n] # None => refs[n].m # op[p].m

CallOK(p) == LocalOK(p) /\ HeldOK(p)

IInv ==
  /\ StateOK /\ PinsOK /\ RefsAreWhole /\ NamesAreTrue /\ NamesHaveManifests
  /\ \A p \in Proc : CallOK(p)

\* A step of p leaves the other goroutines' calls alone, and the references
\* unless p has the lock.
Unaltered(p) ==
  /\ \A q \in Proc \ {p} :
       /\ pc'[q] = pc[q] /\ op'[q] = op[q] /\ todo'[q] = todo[q] /\ root'[q] = root[q]
       /\ names'[q] = names[q] /\ result'[q] = result[q] /\ pins'[q] = pins[q]
  /\ refs' = refs \/ holder = p
  /\ \/ holder' = holder
     \/ holder = p
     \/ holder = None

-----------------------------------------------------------------------------
(***************************************************************************)
(* References are named by tags, manifests and referrers.                  *)
(***************************************************************************)
LEMMA RefNamesAre ==
  /\ \A t \in Tag : TagRef(t) \in RefNames
  /\ \A m \in Manifest : ManifestRef(m) \in RefNames
  /\ \A s, m \in Manifest : ReferrerRef(s, m) \in RefNames
  /\ \A n \in RefNames : \/ \E t \in Tag : n = TagRef(t)
                         \/ \E m \in Manifest : n = ManifestRef(m)
                         \/ \E s, m \in Manifest : n = ReferrerRef(s, m)
  BY DEF RefNames

(***************************************************************************)
(* Names of different kinds, or of different things, are different.        *)
(***************************************************************************)
LEMMA RefNamesDiffer ==
  /\ \A t, m : TagRef(t) # ManifestRef(m)
  /\ \A t, s, m : TagRef(t) # ReferrerRef(s, m)
  /\ \A k, s, m : ManifestRef(k) # ReferrerRef(s, m)
  /\ \A t, u : TagRef(t) = TagRef(u) => t = u
  /\ \A m, k : ManifestRef(m) = ManifestRef(k) => m = k
  /\ \A s, m, r, k : ReferrerRef(s, m) = ReferrerRef(r, k) => s = r /\ m = k
<1>1. \A t, m : TagRef(t) # ManifestRef(m)
  BY "tag" # "manifest" DEF TagRef, ManifestRef
<1>2. \A t, s, m : TagRef(t) # ReferrerRef(s, m)
  BY DEF TagRef, ReferrerRef
<1>3. \A k, s, m : ManifestRef(k) # ReferrerRef(s, m)
  BY DEF ManifestRef, ReferrerRef
<1>4. \A t, u : TagRef(t) = TagRef(u) => t = u
  BY DEF TagRef
<1>5. \A m, k : ManifestRef(m) = ManifestRef(k) => m = k
  BY DEF ManifestRef
<1>6. \A s, m, r, k : ReferrerRef(s, m) = ReferrerRef(r, k) => s = r /\ m = k
  BY DEF ReferrerRef
<1> QED
  BY <1>1, <1>2, <1>3, <1>4, <1>5, <1>6

(***************************************************************************)
(* A root is not None, and a root at hand names a manifest of the          *)
(* repository.                                                             *)
(***************************************************************************)
LEMMA RootIsSome ==
  /\ None \notin Root
  /\ \A r \in Root : r.m \in Manifest /\ r # None
  BY ImageAssumption DEF Root

(***************************************************************************)
(* What the other goroutines know survives a step of p: whoever knows      *)
(* something of the references holds the lock, and then p does not change  *)
(* them.                                                                   *)
(***************************************************************************)
LEMMA OthersKnow ==
  ASSUME IInv, NEW p \in Proc, Unaltered(p), NEW q \in Proc, q # p
  PROVE  CallOK(q)'
<1>1. CallOK(q) /\ None \notin Proc
  BY ImageAssumption DEF IInv
<1>2. pc'[q] = pc[q] /\ op'[q] = op[q] /\ todo'[q] = todo[q] /\ root'[q] = root[q] /\ names'[q] = names[q] /\ result'[q] = result[q]
  BY DEF Unaltered
<1>3. LocalOK(q)'
  BY <1>1, <1>2 DEF CallOK, LocalOK, IsPut, IsDelete, PutNames
<1>4. CASE Holds(q)
  <2>1. holder = q /\ holder' = q /\ refs' = refs
    BY <1>1, <1>4 DEF CallOK, HeldOK, Unaltered
  <2>2. HeldOK(q)'
    BY <1>1, <1>2, <2>1 DEF CallOK, HeldOK, Holds, PutNames, NoTagOn
  <2> QED
    BY <1>3, <2>2 DEF CallOK
<1>5. CASE ~Holds(q)
  <2>1. HeldOK(q)'
    BY <1>2, <1>5 DEF HeldOK, Holds, Locked, Deleting
  <2> QED
    BY <1>3, <2>1 DEF CallOK
<1> QED
  BY <1>4, <1>5

(***************************************************************************)
(* A step of p that leaves the references alone, stores objects at most    *)
(* and neither takes nor loses a pin keeps the invariant as far as p's own *)
(* call does.                                                              *)
(***************************************************************************)
LEMMA QuietStep ==
  ASSUME IInv, NEW p \in Proc, Unaltered(p), StateOK', CallOK(p)',
         refs' = refs, halfway' = halfway, pins' = pins, objects \subseteq objects',
         pc[p] # "refput", pc'[p] # "refput"
  PROVE  IInv'
<1>1. \A q \in Proc : CallOK(q)'
  BY OthersKnow
<1>2. PinsOK'
  BY DEF IInv, PinsOK, Unaltered, Tree
<1>3. RefsAreWhole'
  BY DEF IInv, RefsAreWhole, Tree
<1>4. NamesAreTrue' /\ NamesHaveManifests'
  BY DEF IInv, NamesAreTrue, NamesHaveManifests
<1> QED
  BY <1>1, <1>2, <1>3, <1>4 DEF IInv

-----------------------------------------------------------------------------
(***************************************************************************)
(* A failing operation uses up a fault.                                    *)
(***************************************************************************)
LEMMA FaultCounts ==
  ASSUME StateOK, Fault
  PROVE  faults' \in 0..MaxFaults
  BY ImageAssumption DEF StateOK, Fault

(***************************************************************************)
(* A call that ends with an error knows nothing any more.                  *)
(***************************************************************************)
LEMMA GivesUp ==
  ASSUME IInv, NEW p \in Proc, NEW res \in {"error", "unknown"}, Ends(p, res), pc[p] # "refput",
         UNCHANGED <<refs, blobRef, objects, pins, holder, op, todo, root, names, historyVars, calls, blobOps>>,
         faults' \in 0..MaxFaults
  PROVE  IInv'
<1> USE DEF Ends, historyVars
<1>1. pc'[p] = "return" /\ result'[p] = res
  BY DEF IInv, StateOK
<1>2. StateOK'
  BY DEF IInv, StateOK, PCs
<1>3. Unaltered(p)
  BY DEF IInv, StateOK, Unaltered
<1>4. CallOK(p)'
  BY <1>1 DEF CallOK, LocalOK, HeldOK, Holds, Putting, Deleting, Locked
<1> QED
  BY <1>1, <1>2, <1>3, <1>4, QuietStep

(***************************************************************************)
(* An internal error before anything was published.                        *)
(***************************************************************************)
LEMMA BreaksKeeps ==
  ASSUME IInv, NEW p \in Proc, Breaks(p), pc[p] # "refput",
         UNCHANGED <<refs, blobRef, objects, pins, holder, op, todo, root, names, historyVars, calls, blobOps>>
  PROVE  IInv'
  BY FaultCounts, GivesUp DEF Breaks, IInv

(***************************************************************************)
(* A call of Put starts with a root of its own.                            *)
(***************************************************************************)
LEMMA CallPutKeeps ==
  ASSUME IInv, NEW p \in Proc, NEW m \in Manifest, NEW t \in Tag \cup {None}, CallPut(p, m, t)
  PROVE  IInv'
<1> USE DEF CallPut, Set, Goto, At, storeVars, historyVars
<1>1. NewRoot(m) \in Root /\ NewRoot(m).m = m
  <2>1. calls \in 1..MaxCalls
    BY ImageAssumption DEF IInv, StateOK
  <2> QED
    BY <2>1 DEF Root, NewRoot
<1>3. Blobs[m] \subseteq Blob /\ calls' \in 0..MaxCalls
  BY ImageAssumption DEF IInv, StateOK
<1> DEFINE o == [name |-> "put", m |-> m, tag |-> t]
           r == NewRoot(m)
<1>4. o \in Ops /\ o.name = "put" /\ o.m = m
  BY DEF Ops
<1> HIDE DEF o, r
<1>5. op' = [op EXCEPT ![p] = o] /\ root' = [root EXCEPT ![p] = r]
  BY DEF o, r
<1>6. pc'[p] = "resolve" /\ op'[p] = o /\ root'[p] = r /\ todo'[p] = Blobs[m]
  BY <1>5 DEF IInv, StateOK
<1>7. r \in Root /\ r.m = m
  BY <1>1 DEF r
<1>8. StateOK'
  BY <1>3, <1>4, <1>5, <1>7 DEF IInv, StateOK, PCs
<1>9. Unaltered(p)
  BY <1>5 DEF IInv, StateOK, Unaltered
<1>10. CallOK(p)'
  BY <1>3, <1>4, <1>6, <1>7 DEF CallOK, LocalOK, HeldOK, Holds, Putting, Deleting, Locked, IsPut
<1> QED
  BY <1>6, <1>8, <1>9, <1>10, QuietStep

(***************************************************************************)
(* A call of Delete starts with nothing.                                   *)
(***************************************************************************)
LEMMA CallDeleteKeeps ==
  ASSUME IInv, NEW p \in Proc, NEW m \in Manifest \cup {None}, NEW t \in Tag \cup {None}, CallDelete(p, m, t),
         t = None => m \in Manifest
  PROVE  IInv'
<1> USE DEF CallDelete, Set, Goto, At, storeVars, historyVars
<1>3. calls' \in 0..MaxCalls
  BY ImageAssumption DEF IInv, StateOK
<1> DEFINE o == [name |-> "delete", m |-> m, tag |-> t]
<1>4. o \in Ops /\ o.name = "delete" /\ o.m = m /\ o.tag = t
  BY DEF Ops
<1> HIDE DEF o
<1>5. op' = [op EXCEPT ![p] = o]
  BY DEF o
<1>6. pc'[p] = "lock" /\ op'[p] = o
  BY <1>5 DEF IInv, StateOK
<1>8. StateOK'
  BY <1>3, <1>4, <1>5 DEF IInv, StateOK, PCs
<1>9. Unaltered(p)
  BY <1>5 DEF IInv, StateOK, Unaltered
<1>10. IsDelete(p)'
  BY <1>4, <1>6, ImageAssumption DEF IsDelete
<1>11. CallOK(p)'
  BY <1>6, <1>10 DEF CallOK, LocalOK, HeldOK, Holds, Putting, Deleting, Locked
<1> QED
  BY <1>6, <1>8, <1>9, <1>11, QuietStep

-----------------------------------------------------------------------------
(***************************************************************************)
(* A root keeps its manifest as its blobs are filled in.                   *)
(***************************************************************************)
LEMMA BlobsField ==
  ASSUME NEW r \in Root, NEW B \in SUBSET BlobObjects
  PROVE  [r EXCEPT !.blobs = B] \in Root /\ [r EXCEPT !.blobs = B].m = r.m
  BY DEF Root

(***************************************************************************)
(* A root keeps its manifest as the state of its rootfs is filled in.      *)
(***************************************************************************)
LEMMA RootfsField ==
  ASSUME NEW r \in Root, NEW s \in {"none", "ok", "unavailable"}
  PROVE  [r EXCEPT !.rootfs = s] \in Root /\ [r EXCEPT !.rootfs = s].m = r.m
  BY DEF Root

(***************************************************************************)
(* A root keeps its manifest as what its children reach is filled in.      *)
(***************************************************************************)
LEMMA BelowField ==
  ASSUME NEW r \in Root, NEW K \in SUBSET Object
  PROVE  [r EXCEPT !.below = K] \in Root /\ [r EXCEPT !.below = K].m = r.m
  BY DEF Root

(***************************************************************************)
(* A step of Put before it takes the lock.                                 *)
(***************************************************************************)
LEMMA PutAdvances ==
  ASSUME IInv, NEW p \in Proc, IsPut(p), pc[p] # "refput",
         NEW r \in Root, r.m = op[p].m, root' = [root EXCEPT ![p] = r],
         NEW T \in SUBSET Blob, todo' = [todo EXCEPT ![p] = T],
         NEW w \in {"resolve", "rootfs", "layers", "lock"}, pc' = [pc EXCEPT ![p] = w],
         objects \subseteq objects',
         UNCHANGED <<refs, blobRef, pins, holder, op, names, result, historyVars, calls, blobOps, faults>>
  PROVE  IInv'
<1> USE DEF historyVars
<1>1. pc'[p] = w /\ root'[p] = r /\ todo'[p] = T /\ op'[p] = op[p]
  BY DEF IInv, StateOK
<1>2. StateOK'
  BY DEF IInv, StateOK, PCs
<1>3. Unaltered(p)
  BY DEF IInv, StateOK, Unaltered
<1>4. CallOK(p)'
  BY <1>1 DEF CallOK, LocalOK, HeldOK, Holds, Putting, Deleting, Locked, IsPut
<1> QED
  BY <1>1, <1>2, <1>3, <1>4, QuietStep

(***************************************************************************)
(* An unchanged component of p is updated to itself.                       *)
(***************************************************************************)
LEMMA Same ==
  ASSUME StateOK, NEW p \in Proc
  PROVE  /\ UNCHANGED pc => pc' = [pc EXCEPT ![p] = pc[p]]
         /\ UNCHANGED root => root' = [root EXCEPT ![p] = root[p]]
         /\ UNCHANGED todo => todo' = [todo EXCEPT ![p] = todo[p]]
         /\ UNCHANGED names => names' = [names EXCEPT ![p] = names[p]]
  BY DEF StateOK

(***************************************************************************)
(* resolveBlobs notes each blob as it stands.                              *)
(***************************************************************************)
LEMMA ResolveBlobsKeeps ==
  ASSUME IInv, NEW p \in Proc, resolveBlobs(p)
  PROVE  IInv'
<1> USE DEF resolveBlobs, At, Goto, storeVars, historyVars
<1>1. StateOK /\ pc[p] = "resolve" /\ IsPut(p) /\ todo[p] \subseteq Blob
  BY DEF IInv, CallOK, LocalOK, Putting
<1>2. root[p] \in Root /\ root[p].m = op[p].m
  BY <1>1 DEF IsPut
<1>3. CASE todo[p] = {} /\ Goto(p, "rootfs") /\ UNCHANGED <<todo, root, faults>>
  BY <1>1, <1>2, <1>3, PutAdvances, Same
<1>4. ASSUME NEW b \in todo[p], blobRef[b] # None,
             root' = [root EXCEPT ![p].blobs = @ \cup {BlobObj(b, blobRef[b])}],
             todo' = [todo EXCEPT ![p] = @ \ {b}],
             UNCHANGED <<pc, result, faults>>
      PROVE  IInv'
  <2> DEFINE B == root[p].blobs \cup {BlobObj(b, blobRef[b])}
             r == [root[p] EXCEPT !.blobs = B]
             T == todo[p] \ {b}
  <2>1. B \in SUBSET BlobObjects
    <3>1. blobRef[b] \in {"prism", "raw"} /\ b \in Blob
      BY <1>1, <1>4 DEF StateOK
    <3>2. root[p].blobs \in SUBSET BlobObjects
      BY <1>2 DEF Root
    <3> QED
      BY <3>1, <3>2 DEF BlobObjects
  <2>2. r \in Root /\ r.m = op[p].m
    <3> HIDE DEF B
    <3> QED
      BY <1>2, <2>1, BlobsField
  <2>3. root' = [root EXCEPT ![p] = r]
    BY <1>4, <1>1 DEF StateOK
  <2>4. T \in SUBSET Blob /\ todo' = [todo EXCEPT ![p] = T]
    BY <1>4, <1>1
  <2> HIDE DEF r, B, T
  <2> QED
    BY <1>1, <1>4, <2>2, <2>3, <2>4, PutAdvances, Same
<1>5. CASE Ends(p, "unknown") /\ UNCHANGED <<todo, root, faults>>
  BY <1>1, <1>5, GivesUp DEF StateOK
<1>6. CASE Breaks(p) /\ UNCHANGED <<todo, root>>
  BY <1>1, <1>6, BreaksKeeps
<1> QED
  BY <1>3, <1>4, <1>5, <1>6

(***************************************************************************)
(* buildRootfs up to the layers.                                           *)
(***************************************************************************)
LEMMA BuildRootfsKeeps ==
  ASSUME IInv, NEW p \in Proc, buildRootfs(p)
  PROVE  IInv'
<1> USE DEF buildRootfs, At, Goto, storeVars, historyVars
<1>1. StateOK /\ pc[p] = "rootfs" /\ IsPut(p)
  BY DEF IInv, CallOK, LocalOK, Putting
<1>2. root[p] \in Root /\ root[p].m = op[p].m /\ op[p].m \in Manifest
  BY <1>1 DEF IsPut
<1>3. ASSUME NEW s \in {"none", "ok"}, HasRootfs(p, s), UNCHANGED <<todo, faults>>
      PROVE  IInv'
  <2> DEFINE r == [root[p] EXCEPT !.rootfs = s]
  <2>1. r \in Root /\ r.m = op[p].m
    BY <1>2, RootfsField
  <2>2. root' = [root EXCEPT ![p] = r] /\ pc' = [pc EXCEPT ![p] = "lock"] /\ UNCHANGED result
    BY <1>3, <1>1 DEF StateOK, HasRootfs
  <2> HIDE DEF r
  <2>3. todo[p] \in SUBSET (Blob \cup Tag)
    BY <1>1 DEF StateOK
  <2>4. pc'[p] = "lock" /\ root'[p] = r /\ op'[p] = op[p]
    BY <1>1, <2>2 DEF StateOK
  <2>5. StateOK'
    BY <1>1, <1>3, <2>1, <2>2 DEF StateOK, PCs
  <2>6. Unaltered(p)
    BY <1>1, <1>3, <2>2 DEF StateOK, Unaltered
  <2>7. CallOK(p)'
    BY <1>1, <2>1, <2>4 DEF CallOK, LocalOK, HeldOK, Holds, Putting, Deleting, Locked, IsPut
  <2> QED
    BY <1>1, <2>4, <2>5, <2>6, <2>7, QuietStep
<1>4. CASE todo' = Set(todo, p, Layers[op[p].m]) /\ Goto(p, "layers") /\ UNCHANGED <<root, faults>>
  <2>1. Layers[op[p].m] \in SUBSET Blob
    BY <1>2, ImageAssumption
  <2> QED
    BY <1>1, <1>2, <1>4, <2>1, PutAdvances, Same DEF Set
<1>5. CASE Breaks(p) /\ UNCHANGED <<todo, root>>
  BY <1>1, <1>5, BreaksKeeps
<1> QED
  BY <1>3, <1>4, <1>5

(***************************************************************************)
(* The layers are applied and the tree is written.                         *)
(***************************************************************************)
LEMMA ApplyLayersKeeps ==
  ASSUME IInv, NEW p \in Proc, applyLayers(p)
  PROVE  IInv'
<1> USE DEF applyLayers, At, Goto, historyVars
<1>1. StateOK /\ pc[p] = "layers" /\ IsPut(p) /\ todo[p] \in SUBSET Blob
  BY DEF IInv, CallOK, LocalOK, Putting
<1>2. root[p] \in Root /\ root[p].m = op[p].m
  BY <1>1 DEF IsPut
<1>3. ASSUME NEW s \in {"unavailable", "ok"}, HasRootfs(p, s), UNCHANGED <<todo, faults>>, objects \subseteq objects'
      PROVE  IInv'
  <2> DEFINE r == [root[p] EXCEPT !.rootfs = s]
  <2>1. r \in Root /\ r.m = op[p].m
    BY <1>2, RootfsField
  <2>2. root' = [root EXCEPT ![p] = r] /\ pc' = [pc EXCEPT ![p] = "lock"] /\ UNCHANGED result
    BY <1>3, <1>1 DEF StateOK, HasRootfs
  <2> HIDE DEF r
  <2> QED
    BY <1>1, <1>3, <2>1, <2>2, PutAdvances, Same
<1>4. ASSUME NEW l \in todo[p], UNCHANGED <<objects, faults>>,
             \/ Ends(p, "unknown") /\ UNCHANGED <<todo, root>>
             \/ HasRootfs(p, "unavailable") /\ UNCHANGED todo
             \/ todo' = [todo EXCEPT ![p] = @ \ {l}] /\ UNCHANGED <<pc, result, root>>
      PROVE  IInv'
  <2>1. CASE Ends(p, "unknown") /\ UNCHANGED <<todo, root>>
    BY <1>1, <1>4, <2>1, GivesUp DEF StateOK
  <2>2. CASE HasRootfs(p, "unavailable") /\ UNCHANGED todo
    BY <1>3, <1>4, <2>2
  <2>3. CASE todo' = [todo EXCEPT ![p] = @ \ {l}] /\ UNCHANGED <<pc, result, root>>
    <3> DEFINE T == todo[p] \ {l}
    <3>1. T \in SUBSET Blob /\ todo' = [todo EXCEPT ![p] = T]
      BY <1>1, <2>3
    <3> HIDE DEF T
    <3> QED
      BY <1>1, <1>2, <1>4, <2>3, <3>1, PutAdvances, Same
  <2> QED
    BY <1>4, <2>1, <2>2, <2>3
<1>5. CASE Breaks(p) /\ UNCHANGED <<objects, todo, root>>
  BY <1>1, <1>5, BreaksKeeps
<1> QED
  BY <1>3, <1>4, <1>5

-----------------------------------------------------------------------------
(***************************************************************************)
(* The lock is taken by one goroutine at a time.                           *)
(***************************************************************************)
LEMMA LockRepoKeeps ==
  ASSUME IInv, NEW p \in Proc, LockRepo(p)
  PROVE  IInv'
<1> USE DEF LockRepo, At, Goto, storeVars, callVars, historyVars, boundVars
<1>1. StateOK /\ pc[p] = "lock" /\ (IsPut(p) \/ IsDelete(p)) /\ op[p] \in Ops
  BY DEF IInv, StateOK, CallOK, LocalOK
<1> DEFINE w == IF op[p].name = "put" THEN "children" ELSE IF op[p].tag # None THEN "deltag" ELSE "delmanifest"
<1>2. pc' = [pc EXCEPT ![p] = w] /\ w \in {"children", "deltag", "delmanifest"}
  OBVIOUS
<1>3. /\ w = "children" => IsPut(p)
      /\ w = "deltag" => op[p].name = "delete" /\ op[p].tag \in Tag
      /\ w = "delmanifest" => IsDelete(p) /\ op[p].tag = None
  BY <1>1 DEF IsPut, IsDelete, Ops
<1> HIDE DEF w
<1>4. pc'[p] = w /\ op'[p] = op[p] /\ root'[p] = root[p] /\ holder' = p
  BY <1>1, <1>2 DEF StateOK
<1>5. StateOK'
  BY <1>1, <1>2 DEF StateOK, PCs, Locked
<1>6. Unaltered(p)
  BY <1>1, <1>2 DEF StateOK, Unaltered
<1>7. LocalOK(p)'
  BY <1>2, <1>3, <1>4 DEF LocalOK, Putting, Deleting, IsPut, IsDelete
<1>8. HeldOK(p)'
  BY <1>2, <1>4 DEF HeldOK, Deleting
<1> QED
  BY <1>1, <1>2, <1>4, <1>5, <1>6, <1>7, <1>8, QuietStep DEF CallOK

(***************************************************************************)
(* What a child's root reaches are objects.                                *)
(***************************************************************************)
LEMMA ChildTree ==
  ASSUME IInv, NEW m \in Manifest, NEW c \in Children[m], refs[ManifestRef(c)] # None
  PROVE  Tree(refs[ManifestRef(c)]) \subseteq Object
<1>1. c \in Manifest /\ ManifestRef(c) \in RefNames
  BY ImageAssumption, RefNamesAre
<1> DEFINE r == refs[ManifestRef(c)]
<1>2. r \in Root
  BY <1>1 DEF IInv, StateOK
<1> HIDE DEF r
<1>3. r.m \in Manifest /\ r.n \in 1..MaxCalls /\ r.blobs \subseteq BlobObjects /\ r.below \subseteq Object
  BY <1>2 DEF Root
<1>4. Tree(r) \subseteq Object
  BY <1>3 DEF Tree, Object, RootObj
<1> QED
  BY <1>4 DEF r

(***************************************************************************)
(* The children are resolved under the lock.                               *)
(***************************************************************************)
LEMMA ResolveChildrenKeeps ==
  ASSUME IInv, NEW p \in Proc, resolveChildren(p)
  PROVE  IInv'
<1> USE DEF resolveChildren, At, Goto, storeVars, historyVars
<1>1. StateOK /\ pc[p] = "children" /\ IsPut(p) /\ holder = p
  BY DEF IInv, CallOK, LocalOK, HeldOK, Holds, Putting, Locked
<1>2. root[p] \in Root /\ root[p].m = op[p].m /\ op[p].m \in Manifest
  BY <1>1 DEF IsPut
<1> DEFINE kids == {refs[ManifestRef(c)] : c \in Children[op[p].m]}
<1> DEFINE K == UNION {Tree(k) : k \in kids}
<1>3. CASE None \notin kids /\ root' = [root EXCEPT ![p].below = K] /\ Goto(p, "write") /\ UNCHANGED faults
  <2> DEFINE r == [root[p] EXCEPT !.below = K]
  <2>1. \A c \in Children[op[p].m] : refs[ManifestRef(c)] # None
    BY <1>3
  <2>2. K \in SUBSET Object
    BY <1>2, <2>1, ChildTree
  <2>3. r \in Root /\ r.m = op[p].m
    <3> HIDE DEF K
    <3> QED
      BY <1>2, <2>2, BelowField
  <2>4. root' = [root EXCEPT ![p] = r]
    BY <1>1, <1>3 DEF StateOK
  <2> HIDE DEF r, K, kids
  <2>5. pc'[p] = "write" /\ root'[p] = r /\ op'[p] = op[p] /\ holder' = p /\ refs' = refs
    BY <1>1, <1>3, <2>4 DEF StateOK
  <2>6. StateOK'
    <3>1. root' \in [Proc -> Root \cup {NoRoot}]
      BY <1>1, <2>3, <2>4 DEF StateOK
    <3>2. pc' \in [Proc -> PCs]
      BY <1>1, <1>3 DEF StateOK, PCs, Locked
    <3> QED
      BY <1>1, <1>3, <3>1, <3>2 DEF StateOK
  <2>7. Unaltered(p)
    BY <1>1, <1>3, <2>4 DEF StateOK, Unaltered
  <2>8. LocalOK(p)'
    BY <1>1, <2>3, <2>5 DEF LocalOK, Putting, Deleting, IsPut
  <2>9. HeldOK(p)'
    BY <2>1, <2>5 DEF HeldOK, Deleting
  <2> QED
    BY <1>1, <2>5, <2>6, <2>7, <2>8, <2>9, QuietStep DEF CallOK
<1>4. CASE Ends(p, "unknown") /\ UNCHANGED <<root, faults>>
  BY <1>1, <1>4, GivesUp DEF StateOK
<1>5. CASE Breaks(p) /\ UNCHANGED root
  BY <1>1, <1>5, BreaksKeeps
<1> QED
  BY <1>3, <1>4, <1>5

(***************************************************************************)
(* Short sequences put together.                                           *)
(***************************************************************************)
LEMMA Joined ==
  ASSUME NEW a, NEW b
  PROVE  <<a>> \o <<b>> = <<a, b>> /\ <<a>> \o <<>> = <<a>> /\ <<a, b>> \o <<>> = <<a, b>>
<1>1. <<a>> \in Seq({a, b}) /\ <<b>> \in Seq({a, b}) /\ <<a, b>> \in Seq({a, b})
  OBVIOUS
<1>2. <<a>> \o <<b>> = <<a, b>>
  <2>1. <<a>> \o <<b>> \in Seq({a, b}) /\ Len(<<a>> \o <<b>>) = 2
    BY <1>1, ConcatProperties
  <2>2. (<<a>> \o <<b>>)[1] = a /\ (<<a>> \o <<b>>)[2] = b
    BY <1>1, ConcatProperties
  <2>3. Len(<<a, b>>) = 2 /\ <<a, b>>[1] = a /\ <<a, b>>[2] = b
    OBVIOUS
  <2> DEFINE x == <<a>> \o <<b>>  y == <<a, b>>
  <2> HIDE DEF x, y
  <2>4. x \in Seq({a, b}) /\ y \in Seq({a, b}) /\ Len(x) = Len(y) /\ \A i \in 1..Len(x) : x[i] = y[i]
    BY <1>1, <2>1, <2>2, <2>3 DEF x, y
  <2>5. x = y
    BY <2>4, SeqEqual
  <2> QED
    BY <2>5 DEF x, y
<1> QED
  BY <1>1, <1>2, ConcatEmptySeq

(***************************************************************************)
(* Three names put together.                                               *)
(***************************************************************************)
LEMMA JoinedThree ==
  ASSUME NEW a, NEW b, NEW c
  PROVE  <<a, b>> \o <<c>> = <<a, b, c>>
<1>1. <<a, b>> \in Seq({a, b, c}) /\ <<c>> \in Seq({a, b, c}) /\ <<a, b, c>> \in Seq({a, b, c})
  OBVIOUS
<1>2. <<a, b>> \o <<c>> \in Seq({a, b, c}) /\ Len(<<a, b>> \o <<c>>) = 3
  BY <1>1, ConcatProperties
<1>3. (<<a, b>> \o <<c>>)[1] = a /\ (<<a, b>> \o <<c>>)[2] = b /\ (<<a, b>> \o <<c>>)[3] = c
  BY <1>1, ConcatProperties
<1>4. Len(<<a, b, c>>) = 3 /\ <<a, b, c>>[1] = a /\ <<a, b, c>>[2] = b /\ <<a, b, c>>[3] = c
  OBVIOUS
<1> DEFINE x == <<a, b>> \o <<c>>  y == <<a, b, c>>
<1> HIDE DEF x, y
<1>5. x \in Seq({a, b, c}) /\ y \in Seq({a, b, c}) /\ Len(x) = Len(y) /\ \A i \in 1..Len(x) : x[i] = y[i]
  BY <1>1, <1>2, <1>3, <1>4 DEF x, y
<1>6. x = y
  BY <1>5, SeqEqual
<1> QED
  BY <1>6 DEF x, y

(***************************************************************************)
(* A Put publishes names of this repository, first the manifest's.         *)
(***************************************************************************)
LEMMA PublishOrderIs ==
  ASSUME NEW p \in Proc, op[p] \in Ops, op[p].m \in Manifest
  PROVE  /\ PutNames(p) \subseteq RefNames
         /\ PublishOrder(p) \in Seq(PutNames(p)) /\ PublishOrder(p) # <<>>
         /\ PublishOrder(p)[1] = ManifestRef(op[p].m)
         /\ \A n \in PutNames(p) : \E i \in 1..Len(PublishOrder(p)) : PublishOrder(p)[i] = n
<1> DEFINE m == op[p].m  t == op[p].tag  s == Subject[m]
           a == ManifestRef(m)  b == TagRef(t)  c == ReferrerRef(s, m)
<1>1. a \in RefNames /\ (t # None => b \in RefNames) /\ (s # None => c \in RefNames)
  BY RefNamesAre, ImageAssumption DEF Ops
<1>2. PutNames(p) = {a} \cup (IF t # None THEN {b} ELSE {}) \cup (IF s # None THEN {c} ELSE {})
  BY DEF PutNames
<1>3. PublishOrder(p) = <<a>> \o (IF t # None THEN <<b>> ELSE <<>>) \o (IF s # None THEN <<c>> ELSE <<>>)
  BY DEF PublishOrder
<1> HIDE DEF m, t, s, a, b, c
<1>4. CASE t # None /\ s # None
  <2>1. PublishOrder(p) = <<a, b, c>> /\ PutNames(p) = {a, b, c}
    <3>1. <<a>> \o <<b>> = <<a, b>> /\ <<a, b>> \o <<c>> = <<a, b, c>>
      BY Joined, JoinedThree
    <3> QED
      BY <1>2, <1>3, <1>4, <3>1
  <2> QED
    BY <1>1, <1>4, <2>1 DEF a, m
<1>5. CASE t # None /\ s = None
  <2>1. PublishOrder(p) = <<a, b>> /\ PutNames(p) = {a, b}
    BY <1>2, <1>3, <1>5, Joined, JoinedThree
  <2> QED
    BY <1>1, <1>5, <2>1 DEF a, m
<1>6. CASE t = None /\ s # None
  <2>1. PublishOrder(p) = <<a, c>> /\ PutNames(p) = {a, c}
    BY <1>2, <1>3, <1>6, Joined, JoinedThree
  <2> QED
    BY <1>1, <1>6, <2>1 DEF a, m
<1>7. CASE t = None /\ s = None
  <2>1. PublishOrder(p) = <<a>> /\ PutNames(p) = {a}
    BY <1>2, <1>3, <1>7, Joined, JoinedThree
  <2> QED
    BY <1>1, <1>7, <2>1 DEF a, m
<1> QED
  BY <1>4, <1>5, <1>6, <1>7

(***************************************************************************)
(* The root is written; all its names are still to be published.           *)
(***************************************************************************)
LEMMA WriteRootKeeps ==
  ASSUME IInv, NEW p \in Proc, writeRoot(p)
  PROVE  IInv'
<1> USE DEF writeRoot, At, Goto, historyVars
<1>1. /\ StateOK /\ pc[p] = "write" /\ IsPut(p) /\ holder = p /\ op[p] \in Ops
      /\ \A c \in Children[op[p].m] : refs[ManifestRef(c)] # None
  BY DEF IInv, StateOK, CallOK, LocalOK, HeldOK, Holds, Putting, Locked
<1>2. CASE /\ objects' = objects \cup {RootObj(root[p])}
           /\ names' = Set(names, p, PublishOrder(p))
           /\ Goto(p, "publish")
           /\ UNCHANGED faults
  <2> DEFINE s == PublishOrder(p)
  <2>1. /\ PutNames(p) \subseteq RefNames /\ s \in Seq(PutNames(p)) /\ s # <<>>
        /\ s[1] = ManifestRef(op[p].m)
        /\ \A n \in PutNames(p) : \E i \in 1..Len(s) : s[i] = n
    BY <1>1, PublishOrderIs DEF IsPut
  <2>2. names' = [names EXCEPT ![p] = s]
    BY <1>2 DEF Set
  <2> HIDE DEF s
  <2>3. s \in Seq(RefNames)
    BY <2>1, ElementOfSeq, SeqDef
  <2>4. pc'[p] = "publish" /\ names'[p] = s /\ op'[p] = op[p] /\ root'[p] = root[p] /\ holder' = p /\ refs' = refs
    BY <1>1, <1>2, <2>2 DEF StateOK
  <2>5. StateOK'
    BY <1>1, <1>2, <2>2, <2>3 DEF StateOK, PCs, Locked
  <2>6. Unaltered(p)
    BY <1>1, <1>2, <2>2 DEF StateOK, Unaltered
  <2>7. PutNames(p)' = PutNames(p)
    BY <2>4 DEF PutNames
  <2>8. LocalOK(p)'
    BY <1>1, <2>1, <2>4, <2>7 DEF LocalOK, Putting, Deleting, IsPut
  <2>9. HeldOK(p)'
    BY <1>1, <2>1, <2>4, <2>7 DEF HeldOK, Deleting
  <2> QED
    BY <1>1, <1>2, <2>4, <2>5, <2>6, <2>8, <2>9, QuietStep DEF CallOK
<1>3. CASE Breaks(p) /\ UNCHANGED <<objects, names>>
  BY <1>1, <1>3, BreaksKeeps
<1> QED
  BY <1>2, <1>3

(***************************************************************************)
(* The tags on the manifest are listed under the lock.                     *)
(***************************************************************************)
LEMMA ListTagsKeeps ==
  ASSUME IInv, NEW p \in Proc, ListTags(p)
  PROVE  IInv'
<1> USE DEF ListTags, DeleteUnchanged, At, Goto, historyVars
<1>1. /\ StateOK /\ pc[p] = "list" /\ holder = p /\ root[p].m = op[p].m
      /\ IsDelete(p) /\ op[p].tag = None /\ root[p] \in Root /\ refs[ManifestRef(op[p].m)] = None
  BY DEF IInv, StateOK, CallOK, LocalOK, HeldOK, Holds, Deleting, Locked
<1> DEFINE T == {t \in Tag : refs[TagRef(t)] # None /\ refs[TagRef(t)].m = root[p].m}
<1>2. CASE todo' = Set(todo, p, T) /\ Goto(p, "deltags") /\ UNCHANGED faults
  <2>1. T \subseteq Tag /\ \A t \in Tag : refs[TagRef(t)] # None /\ refs[TagRef(t)].m = op[p].m => t \in T
    BY <1>1
  <2>2. todo' = [todo EXCEPT ![p] = T]
    BY <1>2 DEF Set
  <2> HIDE DEF T
  <2>3. pc'[p] = "deltags" /\ todo'[p] = T /\ op'[p] = op[p] /\ root'[p] = root[p] /\ holder' = p /\ refs' = refs
    BY <1>1, <1>2, <2>2 DEF StateOK
  <2>4. StateOK'
    BY <1>1, <1>2, <2>1, <2>2 DEF StateOK, PCs, Locked
  <2>5. Unaltered(p)
    BY <1>1, <1>2, <2>2 DEF StateOK, Unaltered
  <2>6. LocalOK(p)'
    BY <1>1, <2>1, <2>3 DEF LocalOK, Putting, Deleting, IsDelete
  <2>7. HeldOK(p)'
    BY <1>1, <2>1, <2>3 DEF HeldOK, NoTagOn
  <2> QED
    BY <1>1, <1>2, <2>3, <2>4, <2>5, <2>6, <2>7, QuietStep DEF CallOK
<1>3. CASE Breaks(p) /\ UNCHANGED todo
  BY <1>1, <1>3, BreaksKeeps
<1> QED
  BY <1>2, <1>3

(***************************************************************************)
(* A call that returns knows nothing any more.                             *)
(***************************************************************************)
LEMMA ReturnKeeps ==
  ASSUME IInv, NEW p \in Proc, Return(p)
  PROVE  IInv'
<1> USE DEF Return, At, Set, storeVars, boundVars
<1>1. StateOK /\ pc[p] = "return"
  BY DEF IInv
<1>2. NoOp \in Ops
  BY DEF NoOp, Ops
<1>3. pc'[p] = "idle"
  BY <1>1 DEF StateOK
<1>4. StateOK'
  BY <1>1, <1>2 DEF StateOK, PCs
<1>5. Unaltered(p)
  BY <1>1 DEF StateOK, Unaltered
<1>6. CallOK(p)'
  BY <1>3 DEF CallOK, LocalOK, HeldOK, Holds, Putting, Deleting, Locked
<1> QED
  BY <1>1, <1>3, <1>4, <1>5, <1>6, QuietStep

-----------------------------------------------------------------------------
(***************************************************************************)
(* A tree that is whole when it is walked is kept from the collector.      *)
(***************************************************************************)
LEMMA PrepareRefKeeps ==
  ASSUME IInv, NEW p \in Proc, PrepareRef(p)
  PROVE  IInv'
<1> USE DEF PrepareRef, At, Goto, callVars, historyVars
<1>1. StateOK /\ pc[p] = "publish" /\ CallOK(p)
  BY DEF IInv
<1>2. CASE Tree(root[p]) \subseteq objects /\ pins' = Set(pins, p, Tree(root[p])) /\ Goto(p, "refput") /\ UNCHANGED faults
  <2> DEFINE T == Tree(root[p])
  <2>1. T \subseteq objects /\ pins' = [pins EXCEPT ![p] = T]
    BY <1>2 DEF Set
  <2>2. T' = T
    BY <1>2 DEF Tree
  <2> HIDE DEF T
  <2>3. pc'[p] = "refput" /\ pins'[p] = T /\ pins' = [q \in Proc |-> pins'[q]]
    BY <1>1, <1>2, <2>1 DEF StateOK
  <2>4. StateOK'
    BY <1>1, <1>2, <2>3 DEF StateOK, PCs, Locked
  <2>5. Unaltered(p)
    BY <1>1, <1>2, <2>1 DEF StateOK, Unaltered
  <2>6. LocalOK(p)'
    BY <1>1, <1>2, <2>3 DEF CallOK, LocalOK, Putting, Deleting, IsPut, PutNames
  <2>7. HeldOK(p)'
    BY <1>1, <1>2, <2>3 DEF CallOK, HeldOK, Holds, Locked, Deleting, PutNames
  <2>8. \A q \in Proc : CallOK(q)'
    BY <2>5, <2>6, <2>7, OthersKnow DEF CallOK
  <2>9. PinsOK'
    <3>1. PinsOK /\ objects' = objects /\ root' = root
      BY DEF IInv
    <3>2. ASSUME NEW q \in Proc, q # p
          PROVE  pc'[q] = pc[q] /\ pins'[q] = pins[q] /\ Tree(root[q])' = Tree(root[q])
      BY <2>5, <3>1, <3>2 DEF Unaltered, Tree
    <3>3. Tree(root[p])' = pins'[p]
      BY <2>2, <2>3 DEF T
    <3> QED
      BY <2>1, <2>3, <3>1, <3>2, <3>3 DEF PinsOK
  <2>10. RefsAreWhole' /\ NamesAreTrue' /\ NamesHaveManifests'
    BY DEF IInv, RefsAreWhole, NamesAreTrue, NamesHaveManifests, Tree
  <2> QED
    BY <2>4, <2>8, <2>9, <2>10 DEF IInv
<1>3. CASE Ends(p, "error") /\ UNCHANGED <<pins, faults>>
  BY <1>1, <1>3, GivesUp DEF StateOK
<1>4. CASE Breaks(p) /\ UNCHANGED pins
  BY <1>1, <1>4, BreaksKeeps
<1> QED
  BY <1>2, <1>3, <1>4

(***************************************************************************)
(* The pin of p is lifted and its call goes elsewhere.                     *)
(***************************************************************************)
LEMMA Unpinned ==
  ASSUME IInv, NEW p \in Proc, Unaltered(p), pins' = Set(pins, p, {}), pc'[p] # "refput",
         objects' = objects
  PROVE  PinsOK'
<1>1. PinsOK /\ pins'[p] = {}
  BY DEF IInv, StateOK, Set
<1>2. ASSUME NEW q \in Proc, q # p
      PROVE  pc'[q] = pc[q] /\ pins'[q] = pins[q] /\ Tree(root[q])' = Tree(root[q])
  BY <1>2 DEF Unaltered, Tree
<1> QED
  BY <1>1, <1>2 DEF PinsOK

(***************************************************************************)
(* A step that changes one reference under the lock keeps what is          *)
(* published whole.                                                        *)
(***************************************************************************)
LEMMA OneRefWhole ==
  ASSUME IInv, NEW n \in RefNames, NEW v, refs' = [refs EXCEPT ![n] = v],
         v # None => Tree(v) \subseteq objects, objects' = objects
  PROVE  RefsAreWhole'
<1>1. RefsAreWhole /\ refs'[n] = v /\ \A k \in RefNames : k # n => refs'[k] = refs[k]
  BY DEF IInv, StateOK
<1>2. ASSUME NEW k \in RefNames, refs'[k] # None
      PROVE  Tree(refs'[k]) \subseteq objects'
  <2>1. CASE k = n
    BY <1>1, <1>2, <2>1
  <2>2. CASE k # n
    BY <1>1, <1>2, <2>2 DEF RefsAreWhole
  <2> QED
    BY <2>1, <2>2
<1> QED
  BY <1>2 DEF RefsAreWhole, Tree

(***************************************************************************)
(* The names of a Put and what they are on.                                *)
(***************************************************************************)
LEMMA PutNamesAre ==
  ASSUME IInv, NEW p \in Proc, IsPut(p), NEW n \in PutNames(p)
  PROVE  /\ n \in RefNames
         /\ \A m \in Manifest : n = ManifestRef(m) => m = op[p].m
         /\ \A s, m \in Manifest : n = ReferrerRef(s, m) => m = op[p].m /\ s = Subject[m]
<1>1. n \in RefNames
  BY PublishOrderIs DEF IInv, StateOK, IsPut
<1>2. \/ n = ManifestRef(op[p].m)
      \/ n = TagRef(op[p].tag)
      \/ n = ReferrerRef(Subject[op[p].m], op[p].m)
  BY DEF PutNames
<1> QED
  BY <1>1, <1>2, RefNamesDiffer

(***************************************************************************)
(* A reference is put: it is whole, and its manifest was published before  *)
(* it.                                                                     *)
(***************************************************************************)
LEMMA PutRefKeeps ==
  ASSUME IInv, NEW p \in Proc, PutRef(p)
  PROVE  IInv'
<1> USE DEF PutRef, At, Goto
<1> DEFINE m == op[p].m  n0 == Head(names[p])  rest == Tail(names[p])
<1>1. StateOK /\ pc[p] = "refput" /\ CallOK(p) /\ LocalOK(p) /\ HeldOK(p) /\ IsPut(p) /\ holder = p
  BY DEF IInv, CallOK, LocalOK, HeldOK, Holds, Putting, Locked
<1>2. root[p] \in Root /\ root[p].m = m /\ m \in Manifest /\ root[p] # None
  BY <1>1, RootIsSome DEF IsPut
<1>3. Tree(root[p]) \subseteq objects
  BY <1>1 DEF IInv, PinsOK
<1>4. /\ names[p] \in Seq(PutNames(p)) /\ names[p] # <<>> /\ n0 = names[p][1] /\ n0 \in PutNames(p)
      /\ Len(names[p]) \in Nat \ {0} /\ rest \in Seq(PutNames(p)) /\ Len(rest) = Len(names[p]) - 1
      /\ \A i \in 1..Len(rest) : rest[i] = names[p][i + 1]
  <2>1. names[p] \in Seq(PutNames(p)) /\ names[p] # <<>>
    BY <1>1 DEF LocalOK
  <2> QED
    BY <2>1, HeadTailProperties, EmptySeq, LenProperties
<1>5. names[p] \in Seq(RefNames) /\ rest \in Seq(RefNames)
  <2>1. names[p] \in Seq(RefNames)
    BY <1>1 DEF StateOK
  <2> QED
    BY <1>4, <2>1, HeadTailProperties
<1>6. n0 \in RefNames
  BY <1>1, <1>4, PutNamesAre
<1>7. CASE /\ refs' = [refs EXCEPT ![n0] = root[p]]
           /\ names' = [names EXCEPT ![p] = rest]
           /\ published' = published \cup {p}
           /\ IF Len(names[p]) = 1 THEN Ends(p, "ok") ELSE Goto(p, "publish")
           /\ UNCHANGED faults
  <2> HIDE DEF n0, rest
  <2>1. /\ pc'[p] = IF Len(names[p]) = 1 THEN "return" ELSE "publish"
        /\ Len(names[p]) = 1 => result'[p] = "ok"
        /\ names'[p] = rest /\ op'[p] = op[p] /\ root'[p] = root[p] /\ holder' = p
    BY <1>1, <1>7 DEF StateOK, Ends
  <2>2. refs'[n0] = root[p] /\ \A n \in RefNames : n # n0 => refs'[n] = refs[n]
    BY <1>1, <1>6, <1>7 DEF StateOK
  <2>3. Unaltered(p)
    BY <1>1, <1>7 DEF StateOK, Unaltered, Set, Ends
  <2>4. StateOK'
    BY <1>1, <1>2, <1>5, <1>6, <1>7 DEF StateOK, Set, Ends, PCs, Locked
  <2>5. PinsOK'
    BY <2>1, <2>3, Unpinned
  <2>6. RefsAreWhole'
    BY <1>3, <1>6, <1>7, OneRefWhole
  <2>7. \A k \in Manifest : refs[ManifestRef(k)] # None => refs'[ManifestRef(k)] # None
    BY <1>2, <2>2, RefNamesAre
  <2>8. refs'[ManifestRef(m)] # None
    <3>1. n0 = ManifestRef(m) \/ refs[ManifestRef(m)] # None
      BY <1>1, <1>4 DEF HeldOK
    <3> QED
      BY <1>2, <2>2, <2>7, <3>1
  <2>9. NamesAreTrue'
    <3>1. \A k \in Manifest : n0 = ManifestRef(k) => k = m
      BY <1>1, <1>4, PutNamesAre
    <3>2. \A s, k \in Manifest : n0 = ReferrerRef(s, k) => k = m /\ s = Subject[k]
      BY <1>1, <1>4, PutNamesAre
    <3>3. NamesAreTrue
      BY DEF IInv
    <3> HIDE DEF m
    <3>4. \A k \in Manifest : refs'[ManifestRef(k)] # None => refs'[ManifestRef(k)].m = k
      BY <1>2, <2>2, <3>1, <3>3, RefNamesAre DEF NamesAreTrue
    <3>5. \A s, k \in Manifest :
            refs'[ReferrerRef(s, k)] # None => refs'[ReferrerRef(s, k)].m = k /\ Subject[k] = s
      BY <1>2, <2>2, <3>2, <3>3, RefNamesAre DEF NamesAreTrue
    <3> QED
      BY <3>4, <3>5 DEF NamesAreTrue
  <2>10. NamesHaveManifests'
    <3>1. ASSUME NEW n \in RefNames, refs'[n] # None
          PROVE  refs'[ManifestRef(refs'[n].m)] # None \/ refs'[n].m \in halfway'
      <4>1. CASE n = n0
        BY <1>2, <2>2, <2>8, <4>1
      <4>2. CASE n # n0
        <5>1. refs'[n] = refs[n] /\ refs[n] # None /\ refs[n].m \in Manifest
          BY <1>1, <2>2, <3>1, <4>2, RootIsSome DEF StateOK
        <5>2. refs[ManifestRef(refs[n].m)] # None \/ refs[n].m \in halfway
          BY <5>1 DEF IInv, NamesHaveManifests
        <5> QED
          BY <2>7, <5>1, <5>2
      <4> QED
        BY <4>1, <4>2
    <3> QED
      BY <3>1 DEF NamesHaveManifests
  <2>11. PutNames(p)' = PutNames(p)
    BY <2>1 DEF PutNames
  <2>12. ASSUME NEW n \in PutNames(p)
         PROVE  refs'[n] = root[p] \/ \E i \in 1..Len(rest) : rest[i] = n
    <3>1. CASE n = n0
      BY <2>2, <3>1
    <3>2. CASE n # n0 /\ refs[n] = root[p]
      BY <1>1, <2>2, <3>2, PutNamesAre
    <3>3. CASE n # n0 /\ refs[n] # root[p]
      <4>1. PICK i \in 1..Len(names[p]) : names[p][i] = n
        BY <1>1, <3>3 DEF HeldOK
      <4>2. i # 1 /\ i \in Nat
        BY <1>4, <3>3, <4>1
      <4>3. i - 1 \in 1..Len(rest) /\ rest[i - 1] = names[p][i]
        BY <1>4, <4>1, <4>2
      <4> QED
        BY <4>1, <4>3
    <3> QED
      BY <3>1, <3>2, <3>3
  <2>13. CASE Len(names[p]) = 1
    <3>1. pc'[p] = "return" /\ result'[p] = "ok"
      BY <2>1, <2>13
    <3>2. \A n \in PutNames(p) : refs'[n] = root[p]
      BY <1>4, <2>12, <2>13
    <3>3. LocalOK(p)'
      BY <3>1 DEF LocalOK, Putting, Deleting
    <3>4. HeldOK(p)'
      BY <1>1, <2>1, <2>11, <3>1, <3>2 DEF HeldOK, Deleting, IsPut
    <3> QED
      BY <2>3, <2>4, <2>5, <2>6, <2>9, <2>10, <3>3, <3>4, OthersKnow DEF IInv, CallOK
  <2>14. CASE Len(names[p]) # 1
    <3>1. pc'[p] = "publish"
      BY <2>1, <2>14
    <3>2. rest # <<>>
      <4>1. Len(rest) # 0
        BY <1>4, <2>14
      <4> QED
        BY <4>1
    <3>3. LocalOK(p)'
      BY <1>1, <1>4, <2>1, <2>11, <3>1, <3>2 DEF LocalOK, Putting, Deleting, IsPut
    <3>4. \A c \in Children[m] : refs'[ManifestRef(c)] # None
      BY <1>1, <1>2, <2>7, ImageAssumption DEF HeldOK
    <3>5. HeldOK(p)'
      BY <2>1, <2>8, <2>11, <2>12, <3>1, <3>4 DEF HeldOK, Deleting
    <3> QED
      BY <2>3, <2>4, <2>5, <2>6, <2>9, <2>10, <3>3, <3>5, OthersKnow DEF IInv, CallOK
  <2> QED
    BY <2>13, <2>14
<1>8. CASE Breaks(p) /\ UNCHANGED <<refs, names, published>>
  <2>1. faults' \in 0..MaxFaults /\ Ends(p, "error")
    BY <1>1, <1>8, FaultCounts DEF Breaks
  <2>2. pc'[p] = "return" /\ result'[p] = "error"
    BY <1>1, <2>1 DEF StateOK, Ends
  <2>3. StateOK'
    BY <1>1, <1>8, <2>1 DEF StateOK, Ends, Set, PCs
  <2>4. Unaltered(p)
    BY <1>1, <1>8, <2>1 DEF StateOK, Ends, Set, Unaltered
  <2>5. CallOK(p)'
    BY <2>2 DEF CallOK, LocalOK, HeldOK, Holds, Putting, Deleting, Locked
  <2>6. PinsOK'
    BY <2>2, <2>4, Unpinned
  <2>7. RefsAreWhole' /\ NamesAreTrue' /\ NamesHaveManifests'
    BY <1>8 DEF IInv, RefsAreWhole, NamesAreTrue, NamesHaveManifests, Tree
  <2> QED
    BY <2>3, <2>4, <2>5, <2>6, <2>7, OthersKnow DEF IInv
<1> QED
  BY <1>7, <1>8

-----------------------------------------------------------------------------
(***************************************************************************)
(* A step of Delete, which leaves objects and pins alone, keeps the        *)
(* invariant when its references do.                                       *)
(***************************************************************************)
LEMMA DeleteStep ==
  ASSUME IInv, NEW p \in Proc, Unaltered(p), StateOK', CallOK(p)', pc[p] # "refput", pc'[p] # "refput",
         UNCHANGED <<objects, pins>>, RefsAreWhole', NamesAreTrue', NamesHaveManifests'
  PROVE  IInv'
<1>1. PinsOK'
  BY DEF IInv, PinsOK, Unaltered, Tree
<1>2. \A q \in Proc : CallOK(q)'
  BY OthersKnow
<1> QED
  BY <1>1, <1>2 DEF IInv

(***************************************************************************)
(* Deleting one reference leaves the others true and whole.                *)
(***************************************************************************)
LEMMA DeleteRefKeeps ==
  ASSUME IInv, NEW n \in RefNames, DeleteRef(n), objects' = objects
  PROVE  /\ refs'[n] = None /\ \A k \in RefNames : k # n => refs'[k] = refs[k]
         /\ refs' \in [RefNames -> Root \cup {None}]
         /\ RefsAreWhole' /\ NamesAreTrue'
<1>1. refs'[n] = None /\ (\A k \in RefNames : k # n => refs'[k] = refs[k]) /\ refs' \in [RefNames -> Root \cup {None}]
  BY DEF IInv, StateOK, DeleteRef
<1>2. RefsAreWhole'
  BY OneRefWhole DEF DeleteRef
<1>3. NamesAreTrue'
  BY <1>1, RefNamesAre DEF IInv, NamesAreTrue
<1> QED
  BY <1>1, <1>2, <1>3

(***************************************************************************)
(* Without one of the names that are not a manifest's the others still     *)
(* have their manifests.                                                   *)
(***************************************************************************)
LEMMA OtherNamesHaveManifests ==
  ASSUME IInv, NEW n \in RefNames, DeleteRef(n), \A m \in Manifest : n # ManifestRef(m), halfway' = halfway
  PROVE  NamesHaveManifests'
<1>1. refs'[n] = None /\ (\A k \in RefNames : k # n => refs'[k] = refs[k])
  BY DEF IInv, StateOK, DeleteRef
<1>2. ASSUME NEW k \in RefNames, refs'[k] # None
      PROVE  refs'[ManifestRef(refs'[k].m)] # None \/ refs'[k].m \in halfway'
  <2>1. refs'[k] = refs[k] /\ refs[k].m \in Manifest
    BY <1>1, <1>2, RootIsSome DEF IInv, StateOK
  <2>2. refs[ManifestRef(refs[k].m)] # None \/ refs[k].m \in halfway
    BY <1>2, <2>1 DEF IInv, NamesHaveManifests
  <2>3. refs'[ManifestRef(refs[k].m)] = refs[ManifestRef(refs[k].m)]
    BY <1>1, <2>1, RefNamesAre
  <2> QED
    BY <2>1, <2>2, <2>3
<1> QED
  BY <1>2 DEF NamesHaveManifests

(***************************************************************************)
(* Delete by tag.                                                          *)
(***************************************************************************)
LEMMA DeleteTagKeeps ==
  ASSUME IInv, NEW p \in Proc, DeleteTag(p)
  PROVE  IInv'
<1> USE DEF DeleteTag, DeleteUnchanged, At, historyVars
<1> DEFINE n == TagRef(op[p].tag)
<1>1. StateOK /\ pc[p] = "deltag" /\ op[p].name = "delete" /\ op[p].tag \in Tag /\ op[p].tag # None /\ holder = p
  BY ImageAssumption DEF IInv, CallOK, LocalOK, HeldOK, Holds, Locked
<1>2. n \in RefNames /\ \A m \in Manifest : n # ManifestRef(m)
  BY <1>1, RefNamesAre, RefNamesDiffer
<1>3. CASE refs[n] # None /\ DeleteRef(n) /\ Ends(p, "ok") /\ UNCHANGED faults
  <2> HIDE DEF n
  <2>1. refs' \in [RefNames -> Root \cup {None}] /\ RefsAreWhole' /\ NamesAreTrue' /\ NamesHaveManifests'
    BY <1>2, <1>3, DeleteRefKeeps, OtherNamesHaveManifests
  <2>2. pc'[p] = "return" /\ result'[p] = "ok" /\ op'[p] = op[p] /\ holder' = p
    BY <1>1, <1>3 DEF StateOK, Ends
  <2>3. StateOK'
    BY <1>1, <1>3, <2>1 DEF StateOK, Ends, PCs
  <2>4. Unaltered(p)
    BY <1>1, <1>3 DEF StateOK, Ends, Unaltered
  <2>5. CallOK(p)'
    BY <1>1, <2>2 DEF CallOK, LocalOK, HeldOK, Putting, Deleting
  <2> QED
    BY <1>1, <1>3, <2>1, <2>2, <2>3, <2>4, <2>5, DeleteStep
<1>4. CASE Ends(p, "unknown") /\ UNCHANGED <<refs, faults>>
  BY <1>1, <1>4, GivesUp DEF StateOK
<1>5. CASE Breaks(p) /\ UNCHANGED refs
  BY <1>1, <1>5, BreaksKeeps
<1> QED
  BY <1>3, <1>4, <1>5

(***************************************************************************)
(* Delete by digest takes the manifest's reference first; the manifest's   *)
(* other names are then on their way out.                                  *)
(***************************************************************************)
LEMMA DeleteManifestKeeps ==
  ASSUME IInv, NEW p \in Proc, DeleteManifest(p)
  PROVE  IInv'
<1> USE DEF DeleteManifest, DeleteUnchanged, At, Goto, historyVars
<1> DEFINE m == op[p].m  n == ManifestRef(m)
<1>1. StateOK /\ pc[p] = "delmanifest" /\ IsDelete(p) /\ op[p].tag = None /\ m \in Manifest /\ holder = p
  BY DEF IInv, CallOK, LocalOK, HeldOK, Holds, Locked, IsDelete
<1>2. n \in RefNames
  BY <1>1, RefNamesAre
<1>3. CASE /\ refs[n] # None
           /\ DeleteRef(n)
           /\ root' = Set(root, p, refs[n])
           /\ halfway' = halfway \cup {m}
           /\ Goto(p, "list") /\ UNCHANGED faults
  <2>1. refs[n] \in Root /\ refs[n].m = m
    BY <1>1, <1>2, <1>3 DEF StateOK, IInv, NamesAreTrue
  <2>2. refs'[n] = None /\ (\A k \in RefNames : k # n => refs'[k] = refs[k]) /\ refs' \in [RefNames -> Root \cup {None}]
    BY <1>2, <1>3, DeleteRefKeeps
  <2>3. RefsAreWhole' /\ NamesAreTrue'
    BY <1>2, <1>3, DeleteRefKeeps
  <2>4. NamesHaveManifests'
    <3>1. ASSUME NEW k \in RefNames, refs'[k] # None
          PROVE  refs'[ManifestRef(refs'[k].m)] # None \/ refs'[k].m \in halfway'
      <4>1. refs'[k] = refs[k] /\ refs[k].m \in Manifest
        BY <1>1, <2>2, <3>1, RootIsSome DEF StateOK
      <4>2. refs[ManifestRef(refs[k].m)] # None \/ refs[k].m \in halfway
        BY <3>1, <4>1 DEF IInv, NamesHaveManifests
      <4>3. refs[k].m # m => refs'[ManifestRef(refs[k].m)] = refs[ManifestRef(refs[k].m)]
        BY <2>2, <4>1, RefNamesAre, RefNamesDiffer
      <4> QED
        BY <1>3, <4>1, <4>2, <4>3
    <3> QED
      BY <3>1 DEF NamesHaveManifests
  <2>5. pc'[p] = "list" /\ root'[p] = refs[n] /\ op'[p] = op[p] /\ holder' = p
    BY <1>1, <1>3 DEF StateOK, Set
  <2>6. StateOK'
    BY <1>1, <1>3, <2>1, <2>2 DEF StateOK, Set, PCs, Locked
  <2>7. Unaltered(p)
    BY <1>1, <1>3 DEF StateOK, Set, Unaltered
  <2>8. LocalOK(p)'
    BY <1>1, <2>1, <2>5 DEF LocalOK, Putting, Deleting, IsDelete
  <2>9. HeldOK(p)'
    BY <2>2, <2>5 DEF HeldOK
  <2> QED
    BY <1>1, <1>3, <2>3, <2>4, <2>5, <2>6, <2>7, <2>8, <2>9, DeleteStep DEF CallOK
<1>4. CASE Ends(p, "unknown") /\ UNCHANGED <<refs, root, halfway, faults>>
  BY <1>1, <1>4, GivesUp DEF StateOK
<1>5. CASE Breaks(p) /\ UNCHANGED <<refs, root, halfway>>
  BY <1>1, <1>5, BreaksKeeps
<1> QED
  BY <1>3, <1>4, <1>5

(***************************************************************************)
(* The listed tags are deleted one by one.                                 *)
(***************************************************************************)
LEMMA DeleteTagsKeeps ==
  ASSUME IInv, NEW p \in Proc, DeleteTags(p)
  PROVE  IInv'
<1> USE DEF DeleteTags, DeleteUnchanged, At, Goto, historyVars
<1> DEFINE m == op[p].m
<1>1. /\ StateOK /\ pc[p] = "deltags" /\ IsDelete(p) /\ op[p].tag = None /\ m \in Manifest /\ holder = p
      /\ todo[p] \subseteq Tag /\ root[p] \in Root /\ root[p].m = m
      /\ refs[ManifestRef(m)] = None /\ NoTagOn(m, todo[p])
  BY DEF IInv, CallOK, LocalOK, HeldOK, Holds, Locked, Deleting, IsDelete
<1>2. ASSUME NEW t \in todo[p], DeleteRef(TagRef(t)), todo' = [todo EXCEPT ![p] = @ \ {t}], UNCHANGED <<pc, result, faults>>
      PROVE  IInv'
  <2> DEFINE n == TagRef(t)
  <2>1. n \in RefNames /\ (\A k \in Manifest : n # ManifestRef(k)) /\ t \in Tag
    BY <1>1, RefNamesAre, RefNamesDiffer
  <2>2. refs'[n] = None /\ (\A k \in RefNames : k # n => refs'[k] = refs[k]) /\ refs' \in [RefNames -> Root \cup {None}]
    BY <1>2, <2>1, DeleteRefKeeps
  <2>3. RefsAreWhole' /\ NamesAreTrue' /\ NamesHaveManifests'
    BY <1>2, <2>1, DeleteRefKeeps, OtherNamesHaveManifests
  <2>4. pc'[p] = "deltags" /\ todo'[p] = todo[p] \ {t} /\ op'[p] = op[p] /\ root'[p] = root[p] /\ holder' = p
    BY <1>1, <1>2 DEF StateOK
  <2>5. StateOK'
    BY <1>1, <1>2, <2>2 DEF StateOK
  <2>6. Unaltered(p)
    BY <1>1, <1>2 DEF StateOK, Unaltered
  <2>7. LocalOK(p)'
    BY <1>1, <2>4 DEF LocalOK, Putting, Deleting, IsDelete
  <2>8. NoTagOn(m, todo[p] \ {t})'
    BY <1>1, <2>2, <2>4, RefNamesAre, RefNamesDiffer DEF NoTagOn
  <2>9. refs'[ManifestRef(m)] = None
    BY <1>1, <2>1, <2>2, RefNamesAre
  <2>10. HeldOK(p)'
    BY <2>4, <2>8, <2>9 DEF HeldOK, NoTagOn
  <2> QED
    BY <1>1, <1>2, <2>3, <2>4, <2>5, <2>6, <2>7, <2>10, DeleteStep DEF CallOK
<1>3. CASE todo[p] = {} /\ Goto(p, "delreferrer") /\ UNCHANGED <<refs, todo, faults>>
  <2>1. pc'[p] = "delreferrer" /\ op'[p] = op[p] /\ root'[p] = root[p] /\ holder' = p /\ refs' = refs
    BY <1>1, <1>3 DEF StateOK
  <2>2. StateOK'
    BY <1>1, <1>3 DEF StateOK, PCs, Locked
  <2>3. Unaltered(p)
    BY <1>1, <1>3 DEF StateOK, Unaltered
  <2>4. LocalOK(p)'
    BY <1>1, <2>1 DEF LocalOK, Putting, Deleting, IsDelete
  <2>5. HeldOK(p)'
    BY <1>1, <1>3, <2>1 DEF HeldOK, NoTagOn
  <2> QED
    BY <1>1, <1>3, <2>1, <2>2, <2>3, <2>4, <2>5, QuietStep DEF CallOK
<1>4. CASE Breaks(p) /\ UNCHANGED <<refs, todo>>
  BY <1>1, <1>4, BreaksKeeps
<1> QED
  BY <1>2, <1>3, <1>4

(***************************************************************************)
(* With the referrer's reference the last of the manifest's names is gone. *)
(***************************************************************************)
LEMMA DeleteReferrerKeeps ==
  ASSUME IInv, NEW p \in Proc, DeleteReferrer(p)
  PROVE  IInv'
<1> USE DEF DeleteReferrer, DeleteUnchanged, At, historyVars
<1> DEFINE m == op[p].m  s == Subject[m]
<1>1. /\ StateOK /\ pc[p] = "delreferrer" /\ IsDelete(p) /\ op[p].tag = None /\ m \in Manifest /\ holder = p
      /\ root[p] \in Root /\ root[p].m = m /\ op[p].name = "delete"
      /\ refs[ManifestRef(m)] = None /\ NoTagOn(m, {})
  BY DEF IInv, CallOK, LocalOK, HeldOK, Holds, Locked, Deleting, IsDelete
<1>2. CASE /\ IF s # None THEN DeleteRef(ReferrerRef(s, m)) ELSE UNCHANGED refs
           /\ halfway' = halfway \ {m}
           /\ Ends(p, "ok") /\ UNCHANGED faults
  <2>1. s # None => ReferrerRef(s, m) \in RefNames
    BY <1>1, ImageAssumption, RefNamesAre
  <2>2. /\ \A k \in RefNames : refs'[k] # None => refs'[k] = refs[k]
        /\ \A k \in RefNames : k # ReferrerRef(s, m) => refs'[k] = refs[k]
        /\ s # None => refs'[ReferrerRef(s, m)] = None
        /\ refs' \in [RefNames -> Root \cup {None}]
        /\ RefsAreWhole' /\ NamesAreTrue'
    <3>1. CASE s # None
      BY <1>2, <2>1, <3>1, DeleteRefKeeps
    <3>2. CASE s = None
      <4>1. refs' = refs
        BY <1>2, <3>2
      <4>2. RefsAreWhole' /\ NamesAreTrue'
        BY <4>1 DEF IInv, RefsAreWhole, NamesAreTrue, Tree
      <4> QED
        BY <1>1, <3>2, <4>1, <4>2 DEF StateOK
    <3> QED
      BY <3>1, <3>2
  <2>3. ASSUME NEW k \in RefNames, refs'[k] # None
        PROVE  refs'[k].m # m
    <3>1. refs'[k] = refs[k] /\ refs[k] # None
      BY <2>2, <2>3
    <3>2. CASE \E t \in Tag : k = TagRef(t)
      BY <1>1, <3>1, <3>2 DEF NoTagOn
    <3>3. CASE \E j \in Manifest : k = ManifestRef(j)
      BY <1>1, <3>1, <3>3 DEF IInv, NamesAreTrue
    <3>4. CASE \E r, j \in Manifest : k = ReferrerRef(r, j)
      <4>1. PICK r, j \in Manifest : k = ReferrerRef(r, j)
        BY <3>4
      <4>2. refs[k].m = j /\ Subject[j] = r
        BY <3>1, <4>1 DEF IInv, NamesAreTrue
      <4>3. ASSUME j = m PROVE FALSE
        <5>1. s = r /\ s # None /\ k = ReferrerRef(s, m)
          BY <4>1, <4>2, <4>3, ImageAssumption
        <5> QED
          BY <2>2, <2>3, <5>1
      <4> QED
        BY <3>1, <4>2, <4>3
    <3> QED
      BY <3>2, <3>3, <3>4, RefNamesAre
  <2>4. NamesHaveManifests'
    <3>1. ASSUME NEW k \in RefNames, refs'[k] # None
          PROVE  refs'[ManifestRef(refs'[k].m)] # None \/ refs'[k].m \in halfway'
      <4>1. refs'[k] = refs[k] /\ refs[k] # None /\ refs[k].m # m /\ refs[k].m \in Manifest
        BY <1>1, <2>2, <2>3, <3>1, RootIsSome DEF StateOK
      <4>2. refs[ManifestRef(refs[k].m)] # None \/ refs[k].m \in halfway
        BY <4>1 DEF IInv, NamesHaveManifests
      <4>3. refs'[ManifestRef(refs[k].m)] = refs[ManifestRef(refs[k].m)]
        BY <2>2, <4>1, RefNamesAre, RefNamesDiffer
      <4> QED
        BY <1>2, <4>1, <4>2, <4>3
    <3> QED
      BY <3>1 DEF NamesHaveManifests
  <2>5. pc'[p] = "return" /\ result'[p] = "ok" /\ op'[p] = op[p] /\ holder' = p
    BY <1>1, <1>2 DEF StateOK, Ends
  <2>6. StateOK'
    BY <1>1, <1>2, <2>2 DEF StateOK, Ends, PCs
  <2>7. Unaltered(p)
    BY <1>1, <1>2 DEF StateOK, Ends, Unaltered
  <2>8. LocalOK(p)'
    BY <2>5 DEF LocalOK, Putting, Deleting
  <2>9. HeldOK(p)'
    BY <1>1, <2>3, <2>5 DEF HeldOK, Deleting
  <2> QED
    BY <1>1, <1>2, <2>2, <2>4, <2>5, <2>6, <2>7, <2>8, <2>9, DeleteStep DEF CallOK
<1>3. CASE Breaks(p) /\ UNCHANGED <<refs, halfway>>
  BY <1>1, <1>3, BreaksKeeps
<1> QED
  BY <1>1, <1>2, <1>3

-----------------------------------------------------------------------------
(***************************************************************************)
(* A step that leaves the calls and the references alone keeps the         *)
(* invariant as far as the objects are kept that a reference or a pin      *)
(* needs.                                                                  *)
(***************************************************************************)
LEMMA StoreStep ==
  ASSUME IInv, blobRef' \in [Blob -> {"prism", "raw", None}], blobOps' \in 0..MaxBlobOps,
         UNCHANGED <<refs, pins, holder, pc, callVars, result, historyVars, calls, faults>>,
         \A n \in RefNames : refs[n] # None => Tree(refs[n]) \subseteq objects',
         \A p \in Proc : pins[p] \subseteq objects'
  PROVE  IInv'
<1> USE DEF callVars, historyVars
<1>1. StateOK'
  BY DEF IInv, StateOK
<1>2. PinsOK'
  BY DEF IInv, PinsOK, Tree
<1>3. RefsAreWhole'
  BY DEF RefsAreWhole, Tree
<1>4. NamesAreTrue' /\ NamesHaveManifests'
  BY DEF IInv, NamesAreTrue, NamesHaveManifests
<1>5. ASSUME NEW q \in Proc
      PROVE  CallOK(q)'
  BY DEF IInv, CallOK, LocalOK, HeldOK, Holds, IsPut, IsDelete, PutNames, NoTagOn
<1> QED
  BY <1>1, <1>2, <1>3, <1>4, <1>5 DEF IInv

(***************************************************************************)
(* Blobs come and go.                                                      *)
(***************************************************************************)
LEMMA BlobStepKeeps ==
  ASSUME IInv, NEW b \in Blob, (\E kind \in {"prism", "raw"} : PutBlob(b, kind)) \/ DeleteBlob(b)
  PROVE  IInv'
<1>1. blobRef' \in [Blob -> {"prism", "raw", None}] /\ blobOps' \in 0..MaxBlobOps /\ objects \subseteq objects'
  <2>1. blobRef \in [Blob -> {"prism", "raw", None}] /\ blobOps \in 0..MaxBlobOps /\ MaxBlobOps \in Nat
    BY ImageAssumption DEF IInv, StateOK
  <2>2. ASSUME NEW kind \in {"prism", "raw"}, PutBlob(b, kind)
        PROVE  blobRef' \in [Blob -> {"prism", "raw", None}] /\ blobOps' \in 0..MaxBlobOps /\ objects \subseteq objects'
    BY <2>1, <2>2 DEF PutBlob
  <2>3. ASSUME DeleteBlob(b)
        PROVE  blobRef' \in [Blob -> {"prism", "raw", None}] /\ blobOps' \in 0..MaxBlobOps /\ objects \subseteq objects'
    BY <2>1, <2>3 DEF DeleteBlob
  <2> QED
    BY <2>2, <2>3
<1>2. \A n \in RefNames : refs[n] # None => Tree(refs[n]) \subseteq objects'
  BY <1>1 DEF IInv, RefsAreWhole
<1>3. \A p \in Proc : pins[p] \subseteq objects'
  BY <1>1 DEF IInv, PinsOK
<1>4. UNCHANGED <<refs, pins, holder, pc, callVars, result, historyVars, calls, faults>>
  BY DEF PutBlob, DeleteBlob
<1> QED
  BY <1>1, <1>2, <1>3, <1>4, StoreStep

(***************************************************************************)
(* The collector takes nothing that a reference reaches or a publication   *)
(* has pinned.                                                             *)
(***************************************************************************)
LEMMA CollectKeeps ==
  ASSUME IInv, Collect
  PROVE  IInv'
<1>1. PICK o \in objects \ Reachable :
        /\ \A p \in Proc : o \notin pins[p]
        /\ objects' = objects \ {o}
        /\ UNCHANGED <<refs, blobRef, pins, holder, pc, callVars, result, historyVars, boundVars>>
  BY DEF Collect
<1>2. ASSUME NEW n \in RefNames, refs[n] # None
      PROVE  Tree(refs[n]) \subseteq objects'
  <2>1. Tree(refs[n]) \subseteq objects
    BY <1>2 DEF IInv, RefsAreWhole
  <2>2. Tree(refs[n]) \subseteq Reachable
    BY <1>2 DEF Reachable
  <2> QED
    BY <1>1, <2>1, <2>2
<1>3. \A p \in Proc : pins[p] \subseteq objects'
  BY <1>1 DEF IInv, PinsOK
<1> QED
  BY <1>1, <1>2, <1>3, StoreStep DEF IInv, StateOK, boundVars

(***************************************************************************)
(* After a crash nobody holds or knows anything.                           *)
(***************************************************************************)
LEMMA CrashKeeps ==
  ASSUME IInv, Crash
  PROVE  IInv'
<1>1. NoOp \in Ops
  BY DEF NoOp, Ops
<1>2. faults' \in 0..MaxFaults
  BY FaultCounts DEF IInv, Crash
<1>3. StateOK'
  <2>1. pins' = [q \in Proc |-> pins'[q]]
    BY DEF Crash
  <2> QED
    BY <1>1, <1>2, <2>1 DEF IInv, StateOK, Crash, PCs
<1>4. PinsOK'
  BY DEF PinsOK, Crash
<1>5. RefsAreWhole' /\ NamesAreTrue' /\ NamesHaveManifests'
  BY DEF IInv, RefsAreWhole, NamesAreTrue, NamesHaveManifests, Tree, Crash
<1>6. ASSUME NEW q \in Proc
      PROVE  CallOK(q)'
  <2>1. pc'[q] = "idle"
    BY DEF Crash
  <2> QED
    BY <2>1 DEF CallOK, LocalOK, HeldOK, Holds, Putting, Deleting, Locked
<1> QED
  BY <1>3, <1>4, <1>5, <1>6 DEF IInv

(***************************************************************************)
(* At the start nothing is published.                                      *)
(***************************************************************************)
LEMMA InitInv == Init => IInv
<1> SUFFICES ASSUME Init PROVE IInv
  OBVIOUS
<1> USE DEF Init
<1>1. NoOp \in Ops
  BY DEF NoOp, Ops
<1>2. StateOK
  <2>1. pins = [q \in Proc |-> pins[q]]
    OBVIOUS
  <2> QED
    BY <1>1, <2>1, ImageAssumption DEF StateOK, PCs
<1>3. PinsOK /\ RefsAreWhole /\ NamesHaveManifests
  BY DEF PinsOK, RefsAreWhole, NamesHaveManifests
<1>4. NamesAreTrue
  BY RefNamesAre DEF NamesAreTrue
<1>5. ASSUME NEW q \in Proc
      PROVE  CallOK(q)
  BY DEF CallOK, LocalOK, HeldOK, Holds, Putting, Deleting, Locked
<1> QED
  BY <1>2, <1>3, <1>4, <1>5 DEF IInv

(***************************************************************************)
(* Every step keeps the invariant.                                         *)
(***************************************************************************)
LEMMA NextInv == IInv /\ [Next]_vars => IInv'
<1> SUFFICES ASSUME IInv, [Next]_vars PROVE IInv'
  OBVIOUS
<1>1. ASSUME NEW p \in Proc, Step(p) PROVE IInv'
  BY <1>1, ResolveBlobsKeeps, BuildRootfsKeeps, ApplyLayersKeeps, LockRepoKeeps, ResolveChildrenKeeps,
     WriteRootKeeps, PrepareRefKeeps, PutRefKeeps, DeleteTagKeeps, DeleteManifestKeeps, ListTagsKeeps,
     DeleteTagsKeeps, DeleteReferrerKeeps, ReturnKeeps DEF Step
<1>2. ASSUME NEW p \in Proc, \/ \E m \in Manifest, t \in Tag \cup {None} : CallPut(p, m, t)
                             \/ \E m \in Manifest : CallDelete(p, m, None)
                             \/ \E t \in Tag : CallDelete(p, None, t)
      PROVE  IInv'
  <2>1. ASSUME NEW m \in Manifest, CallDelete(p, m, None) PROVE IInv'
    BY <2>1, CallDeleteKeeps
  <2>2. ASSUME NEW t \in Tag, CallDelete(p, None, t) PROVE IInv'
    BY <2>2, CallDeleteKeeps, ImageAssumption
  <2> QED
    BY <1>2, <2>1, <2>2, CallPutKeeps
<1>3. CASE UNCHANGED vars
  <2>1. UNCHANGED <<refs, pins, holder, pc, callVars, result, historyVars, calls, faults, blobRef, objects, blobOps>>
    BY <1>3 DEF vars, storeVars, boundVars
  <2> QED
    BY <2>1, StoreStep DEF IInv, StateOK, PinsOK, RefsAreWhole
<1> QED
  BY <1>1, <1>2, <1>3, BlobStepKeeps, CollectKeeps, CrashKeeps DEF Next

-----------------------------------------------------------------------------
(***************************************************************************)
(* image.Store keeps IInv: every publication is pinned from its walk to    *)
(* its reference (PinsOK), every name is on a root of the manifest it      *)
(* names (NamesAreTrue), and a goroutine knows of the references what it   *)
(* looked up under the repository's lock (CallOK).                         *)
(***************************************************************************)
THEOREM Invariant == Spec => []IInv
  BY InitInv, NextInv, PTL DEF Spec

(***************************************************************************)
(* Every variable of image.Store keeps its type.                           *)
(***************************************************************************)
THEOREM TypeCorrect == Spec => []TypeOK
<1>1. IInv => TypeOK
  <2> SUFFICES ASSUME IInv PROVE TypeOK
    OBVIOUS
  <2>2. \A p \in Proc : pins[p] # {} => pc[p] = "refput"
    BY DEF IInv, PinsOK
  <2>3. \A p \in Proc : pc[p] \in {"publish", "refput"} => names[p] # <<>>
    BY DEF IInv, CallOK, LocalOK
  <2> QED
    BY <2>2, <2>3 DEF IInv, StateOK, TypeOK, PCs
<1> QED
  BY <1>1, Invariant, PTL

(***************************************************************************)
(* A published image is whole: its root, its blobs, its rootfs tree and    *)
(* its children's are in the store whenever a reference names it, although *)
(* they were resolved or reused before anything kept them from the         *)
(* collector.                                                              *)
(***************************************************************************)
THEOREM RefsAreWholeHolds == Spec => []RefsAreWhole
<1>1. IInv => RefsAreWhole
  BY DEF IInv
<1> QED
  BY <1>1, Invariant, PTL

(***************************************************************************)
(* A tag or a referrer names a manifest that can be fetched by digest,     *)
(* unless a Delete of it is under way or has broken off.                   *)
(***************************************************************************)
THEOREM NamesHaveManifestsHolds == Spec => []NamesHaveManifests
<1>1. IInv => NamesHaveManifests
  BY DEF IInv
<1> QED
  BY <1>1, Invariant, PTL

(***************************************************************************)
(* When Delete by digest succeeds nothing in the repository names that     *)
(* digest any more.                                                        *)
(***************************************************************************)
THEOREM DeleteIsCompleteHolds == Spec => []DeleteIsComplete
<1>1. IInv => DeleteIsComplete
  BY DEF IInv, CallOK, HeldOK, DeleteIsComplete
<1> QED
  BY <1>1, Invariant, PTL

(***************************************************************************)
(* When Put succeeds all its names point at the root it has made, whatever *)
(* was pushed or deleted meanwhile.                                        *)
(***************************************************************************)
THEOREM PutTakesEffectHolds == Spec => []PutTakesEffect
<1>1. IInv => PutTakesEffect
  <2> SUFFICES ASSUME IInv, NEW p \in Proc, pc[p] = "return" /\ result[p] = "ok" /\ op[p].name = "put"
               PROVE  /\ refs[ManifestRef(op[p].m)] = root[p]
                      /\ op[p].tag # None => refs[TagRef(op[p].tag)] = root[p]
                      /\ Subject[op[p].m] # None => refs[ReferrerRef(Subject[op[p].m], op[p].m)] = root[p]
    BY DEF PutTakesEffect
  <2>1. \A n \in PutNames(p) : refs[n] = root[p]
    BY DEF IInv, CallOK, HeldOK
  <2> QED
    BY <2>1 DEF PutNames
<1> QED
  BY <1>1, Invariant, PTL

(***************************************************************************)
(* Only PutRef of a Put that holds the lock, and found the children there, *)
(* sets a manifest's reference.                                            *)
(***************************************************************************)
LEMMA StepNeedsChildren ==
  ASSUME IInv, [Next]_vars, NEW m \in Manifest,
         refs'[ManifestRef(m)] # refs[ManifestRef(m)], refs'[ManifestRef(m)] # None
  PROVE  \A c \in Children[m] : refs[ManifestRef(c)] # None
<1>1. ASSUME NEW p \in Proc, PutRef(p)
      PROVE  \A c \in Children[m] : refs[ManifestRef(c)] # None
  <2>1. pc[p] = "refput" /\ LocalOK(p) /\ HeldOK(p) /\ IsPut(p)
    BY <1>1 DEF PutRef, At, IInv, CallOK, LocalOK, Putting
  <2>2. Head(names[p]) \in PutNames(p)
    BY <2>1, HeadTailProperties DEF LocalOK
  <2>3. refs' = [refs EXCEPT ![Head(names[p])] = root[p]]
    BY <1>1 DEF PutRef
  <2>4. Head(names[p]) = ManifestRef(m)
    BY <2>3, RefNamesAre DEF IInv, StateOK
  <2>5. m = op[p].m
    BY <2>1, <2>2, <2>4, PutNamesAre
  <2> QED
    BY <2>1, <2>5 DEF HeldOK
<1>2. ASSUME NEW n \in RefNames, DeleteRef(n) PROVE FALSE
  BY <1>2, RefNamesAre DEF DeleteRef, IInv, StateOK
<1>3. ASSUME NEW p \in Proc, Step(p), ~PutRef(p) PROVE refs' = refs \/ \E n \in RefNames : DeleteRef(n)
  <2>1. CASE DeleteTag(p)
    <3>1. op[p].tag \in Tag
      BY <2>1 DEF DeleteTag, At, IInv, CallOK, LocalOK
    <3> QED
      BY <2>1, <3>1, RefNamesAre DEF DeleteTag
  <2>2. CASE DeleteManifest(p)
    <3>1. op[p].m \in Manifest
      BY <2>2 DEF DeleteManifest, At, IInv, CallOK, LocalOK, IsDelete
    <3> QED
      BY <2>2, <3>1, RefNamesAre DEF DeleteManifest
  <2>3. CASE DeleteTags(p)
    <3>1. todo[p] \subseteq Tag
      BY <2>3 DEF DeleteTags, At, IInv, CallOK, LocalOK
    <3> QED
      BY <2>3, <3>1, RefNamesAre DEF DeleteTags
  <2>4. CASE DeleteReferrer(p)
    <3>1. root[p].m \in Manifest
      BY <2>4, RootIsSome DEF DeleteReferrer, At, IInv, CallOK, LocalOK, Deleting
    <3>2. Subject[root[p].m] # None => Subject[root[p].m] \in Manifest
      BY <3>1, ImageAssumption
    <3> QED
      BY <2>4, <3>1, <3>2, RefNamesAre DEF DeleteReferrer
  <2> QED
    BY <1>3, <2>1, <2>2, <2>3, <2>4 DEF Step, resolveBlobs, buildRootfs, applyLayers, LockRepo, resolveChildren,
       writeRoot, PrepareRef, ListTags, Return, storeVars
<1>4. ASSUME NEW p \in Proc, \/ \E k \in Manifest, t \in Tag \cup {None} : CallPut(p, k, t)
                             \/ \E k \in Manifest : CallDelete(p, k, None)
                             \/ \E t \in Tag : CallDelete(p, None, t)
      PROVE  refs' = refs
  BY <1>4 DEF CallPut, CallDelete, storeVars
<1>5. ASSUME (\E b \in Blob : (\E kind \in {"prism", "raw"} : PutBlob(b, kind)) \/ DeleteBlob(b)) \/ Collect \/ Crash \/ UNCHANGED vars
      PROVE  refs' = refs
  BY <1>5 DEF PutBlob, DeleteBlob, Collect, Crash, vars, storeVars
<1> QED
  BY <1>1, <1>2, <1>3, <1>4, <1>5 DEF Next

(***************************************************************************)
(* An index is published only while every manifest it lists is there: a    *)
(* Delete in the same repository cannot come between resolveChildren and   *)
(* the publication.                                                        *)
(***************************************************************************)
THEOREM IndexNeedsChildrenHolds == Spec => IndexNeedsChildren
<1>1. IInv /\ [Next]_vars =>
        [\A m \in Manifest :
           refs'[ManifestRef(m)] # refs[ManifestRef(m)] /\ refs'[ManifestRef(m)] # None =>
             \A c \in Children[m] : refs[ManifestRef(c)] # None]_vars
  BY StepNeedsChildren
<1> QED
  BY <1>1, Invariant, PTL DEF Spec, IndexNeedsChildren
=============================================================================
