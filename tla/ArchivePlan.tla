---------------------------- MODULE ArchivePlan ----------------------------
(***************************************************************************)
(* What a docker save archive names and what an import plans from it       *)
(* (dockerarchive/write.go, the savePlan; dockerarchive/plan.go).  Write   *)
(* resolves the exported images and records index.json and manifest.json;  *)
(* docker's own saves may lack the children of an index.  Plan resolves    *)
(* every index.json entry, prunes absent children, lists the manifests     *)
(* children first and gives every image its names.                         *)
(*                                                                         *)
(* A digest is <<m>> for a manifest of the store; an index rewritten by    *)
(* pruneIndex gets a digest of its own, its name and what it now lists.    *)
(***************************************************************************)
EXTENDS Integers, Sequences, FiniteSets, SequencesExt

CONSTANTS Stored,   \* manifest -> [index, children, config, layers]
          Exports,  \* sequences of [digest, tag] a save may be asked for
          Matching, \* manifests whose descriptor matches the platform asked for
          Attestations, \* manifests whose descriptor says attestation
          NoTag,    \* an export without a name
          MaxLacking \* bound: manifests and blobs docker leaves out of one archive

VARIABLES
  exports,  \* images asked for
  arch,     \* the archive: has, index, legacy
  plan      \* the import's plan, or why there is none

planVars == <<exports, arch, plan>>

NoConfig == "none"
Concat(ss) == FlattenSeq(ss)

-----------------------------------------------------------------------------
(* savePlan *)

BlobsOf(m) == (Stored[m].layers \cup {Stored[m].config}) \ {NoConfig}

RECURSIVE ReachableFrom(_)
\* resolve: the manifest, its blobs and everything below it.
ReachableFrom(m) ==
  {m} \cup BlobsOf(m) \cup UNION {ReachableFrom(c) : c \in ToSet(Stored[m].children)}

\* The platform's children first, attestations left out.
legacyCandidates(m) ==
  LET images == SelectSeq(Stored[m].children, LAMBDA c : c \notin Attestations) IN
  SelectSeq(images, LAMBDA c : c \in Matching) \o SelectSeq(images, LAMBDA c : c \notin Matching)

\* The image an export's manifest.json entry describes, if any.
LegacyOf(m) ==
  LET runnable == SelectSeq(IF Stored[m].index THEN legacyCandidates(m) ELSE <<m>>,
                            LAMBDA c : ~Stored[c].index /\ Stored[c].config # NoConfig)
  IN IF runnable = <<>> THEN {} ELSE {runnable[1]}

\* Tags recorded for manifest d over all exports.
TagsOf(es, d) == {es[i].tag : i \in {j \in DOMAIN es : d \in LegacyOf(es[j].digest)}} \ {NoTag}

\* add for every export: one index.json entry each, one manifest.json entry
\* per described manifest.
WrittenArchive(es) ==
  [has |-> UNION {ReachableFrom(es[i].digest) : i \in DOMAIN es},
   index |-> [i \in DOMAIN es |-> es[i].digest],
   legacy |-> {[config |-> Stored[d].config, tags |-> TagsOf(es, d)] :
                 d \in UNION {LegacyOf(es[i].digest) : i \in DOMAIN es}}]

-----------------------------------------------------------------------------
(* Plan *)

Digest(m) == <<m>>
AbsentNode == [kind |-> "absent", digest |-> <<>>, refs |-> <<>>, kids |-> <<>>, blobs |-> {}, config |-> NoConfig, synthesized |-> FALSE]
BrokenNode == [AbsentNode EXCEPT !.kind = "error"]
KidDigests(kids) == [i \in DOMAIN kids |-> kids[i].digest]

\* Mutant of pruneIndex: a kept child is listed under the digest it had.
PruneKeepsDigests(m, kids) == <<m>> \o [i \in DOMAIN kids |-> <<kids[i].digest[1]>>]

\* pruneIndex: the children kept, each under its own, maybe new, digest.
pruneIndex(m, kids) == <<m>> \o KidDigests(kids)

RECURSIVE resolve(_, _)
\* An image with a blob missing and an index with no child left are errors; an
\* index that lost some children is rewritten.
resolve(m, has) ==
  IF m \notin has THEN AbsentNode
  ELSE IF ~Stored[m].index
  THEN IF BlobsOf(m) \subseteq has
       THEN [AbsentNode EXCEPT !.kind = "image", !.digest = Digest(m), !.blobs = BlobsOf(m), !.config = Stored[m].config]
       ELSE BrokenNode
  ELSE LET all == [i \in DOMAIN Stored[m].children |-> resolve(Stored[m].children[i], has)]
           kids == SelectSeq(all, LAMBDA n : n.kind # "absent") IN
       IF kids = <<>> \/ \E i \in DOMAIN kids : kids[i].kind = "error" THEN BrokenNode
       ELSE IF Len(kids) < Len(all)
       THEN LET d == pruneIndex(m, kids) IN
            [AbsentNode EXCEPT !.kind = "index", !.digest = d, !.refs = Tail(d), !.kids = kids, !.synthesized = TRUE]
       ELSE [AbsentNode EXCEPT !.kind = "index", !.digest = Digest(m), !.kids = kids,
                               !.refs = [i \in DOMAIN all |-> Digest(Stored[m].children[i])]]

RECURSIVE NodesOf(_)
\* Children before their parent.
NodesOf(n) == Concat([i \in DOMAIN n.kids |-> NodesOf(n.kids[i])]) \o <<n>>

\* The same image listed twice is one entry.
Roots(nodes) ==
  SelectSeq([i \in DOMAIN nodes |-> [node |-> nodes[i], first |-> \A j \in 1..(i - 1) : nodes[j].digest # nodes[i].digest]],
            LAMBDA r : r.first)

\* Every use of a config below a root, once per manifest that uses it.
ConfigRoots(roots, c) ==
  Concat([i \in DOMAIN roots |->
    [k \in 1..Len(SelectSeq(NodesOf(roots[i].node), LAMBDA n : n.config = c)) |-> i]])

\* Mutant of Ambiguous: the names go to every image that uses the config.
NeverAmbiguous(roots, c) == FALSE

Ambiguous(roots, c) == Len(ConfigRoots(roots, c)) > 1

\* assignNames from manifest.json.
NamesOf(roots, i, legacy) ==
  UNION {le.tags : le \in {l \in legacy : i \in ToSet(ConfigRoots(roots, l.config))}}

Refused(why) == [why |-> why, entries |-> <<>>]
MakePlan(a) ==
  LET nodes == [i \in DOMAIN a.index |-> resolve(a.index[i], a.has)]
      roots == Roots(nodes)
      entries == [i \in DOMAIN roots |->
                    [digest |-> roots[i].node.digest, nodes |-> NodesOf(roots[i].node),
                     names |-> NamesOf(roots, i, a.legacy)]]
  IN IF \E i \in DOMAIN nodes : nodes[i].kind \in {"error", "absent"} THEN Refused("broken")
     ELSE IF \E le \in a.legacy : ConfigRoots(roots, le.config) = <<>> THEN Refused("unknown config")
     ELSE IF \E le \in a.legacy : Ambiguous(roots, le.config) THEN Refused("ambiguous")
     ELSE IF \E i \in DOMAIN entries : entries[i].names = {} THEN Refused("unnamed")
     ELSE [why |-> "none", entries |-> entries]

-----------------------------------------------------------------------------
(* An archive is saved, maybe by docker with children left out, and planned. *)

NoArchive == [has |-> {}, index |-> <<>>, legacy |-> {}]

PlanInit == exports \in Exports /\ arch = NoArchive /\ plan = Refused("not planned")

Write ==
  /\ arch = NoArchive
  /\ arch' = WrittenArchive(exports)
  /\ UNCHANGED <<exports, plan>>

\* docker saves what it holds: a manifest, a config or a layer may be missing.
Lacks(b) ==
  /\ plan.why = "not planned"
  /\ b \in arch.has /\ Cardinality(WrittenArchive(exports).has \ arch.has) < MaxLacking
  /\ arch' = [arch EXCEPT !.has = @ \ {b}]
  /\ UNCHANGED <<exports, plan>>

Plan ==
  /\ arch # NoArchive /\ plan.why = "not planned"
  /\ plan' = MakePlan(arch)
  /\ UNCHANGED <<exports, arch>>

PlanNext == Write \/ Plan \/ \E b \in arch.has : Lacks(b)
PlanSpec == PlanInit /\ [][PlanNext]_planVars

-----------------------------------------------------------------------------
(* Properties *)

\* Saved images come back under their own names or not at all: an entry of a
\* plan has exactly the tags it was exported under, however images share
\* children and configs, and none of the tags of another.
NamesSurvive ==
  plan.why = "none" =>
    \A i \in DOMAIN plan.entries :
      plan.entries[i].names =
        {exports[j].tag : j \in {k \in DOMAIN exports : exports[k].digest = plan.entries[i].digest[1]}} \ {NoTag}

Listed(ns, i) == {ns[j].digest : j \in 1..(i - 1)}

\* What a planned manifest lists is planned before it in the same entry, with
\* every blob in the archive, after any pruning.  (An index that keeps all of
\* its children although one of them was rewritten is the exception that
\* PlansAreClosed is about.)
PlanIsOrdered ==
  \A i \in DOMAIN plan.entries : LET ns == plan.entries[i].nodes IN
    \A k \in DOMAIN ns :
      /\ ns[k].blobs \subseteq arch.has
      /\ \/ ToSet(ns[k].refs) \subseteq Listed(ns, k)
         \/ ~ns[k].synthesized /\ \E c \in DOMAIN ns[k].kids : ns[k].kids[c].synthesized

\* A saved archive imports as what was saved, or is refused.
PlanIsFaithful == NamesSurvive /\ PlanIsOrdered

\* "a pruned nested index is referenced by its new digest" (plan.go).
PlansAreClosed ==
  \A i \in DOMAIN plan.entries : LET ns == plan.entries[i].nodes IN
    \A k \in DOMAIN ns : ToSet(ns[k].refs) \subseteq Listed(ns, k)

\* "apply to %d images that share config" (plan.go): a refusal names several.
AmbiguityIsReal ==
  plan.why = "ambiguous" => Cardinality(ToSet(arch.index)) > 1

=============================================================================
