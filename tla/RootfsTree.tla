----------------------------- MODULE RootfsTree -----------------------------
\* The root filesystem of an image (rootfs/builder.go, rootfs/tree.go, the
\* headers of rootfs/layer.go, image/rootfs.go): each layer's tar headers are
\* converted, its whiteouts are applied to what lower layers left, its entries
\* are placed in archive order, and the merged tree is written for rootfs/fs.go
\* to serve.
\*
\* A tree maps the path of every node but the root to the node; a path is the
\* sequence of names on the way down.  A node keeps what the properties tell
\* apart: its type, the file's content, the symlink's target and whose metadata
\* it carries.  Names and link targets are sequences of components.
EXTENDS Sequences, SequencesExt, FiniteSets, Integers

CONSTANTS
  Headers,      \* the tar headers a layer may hold
  LayerSizes,   \* how many headers a layer may hold
  MaxLayers,    \* bound: layers of the manifest
  Whiteouts,    \* each ".wh." name of the model |-> the name it removes
  OpaqueMark,   \* the name ".wh..wh..opq"
  MaxHops,      \* maxSymlinkHops
  Probes        \* request paths, as sequences of components

\* The children of a whiteout with nothing after its prefix.
NoName == ""

VARIABLES
  tree,    \* tree.root
  merge    \* the buildRootfs call: status, layers applied, the last one, skips

rootfsVars == <<tree, merge>>

Root == <<>>
NoTarget == [abs |-> FALSE, comps |-> <<>>]

\* newDir: a directory made for a child, no header seen.
ImplicitDir == [type |-> "dir", content |-> "none", link |-> NoTarget, meta |-> "implicit"]

----------------------------------------------------------------------------
\* Headers.

\* cleanPath: path.Clean resolves "." and ".." and the root is empty; a rooted
\* name cannot escape, a relative one that does is refused.
cleanPath(abs, comps) ==
  FoldLeft(LAMBDA acc, c :
             IF ~acc.ok THEN acc
             ELSE IF c \in {"", "."} THEN acc
             ELSE IF c = ".." /\ acc.path # Root THEN [acc EXCEPT !.path = Front(@)]
             ELSE IF c = ".." THEN [acc EXCEPT !.ok = abs]
             ELSE [acc EXCEPT !.path = Append(@, c)],
           [path |-> Root, ok |-> TRUE], comps)

\* convert: an escaping name and a sparse file are skips whatever their name
\* says, then a ".wh." name is a whiteout whatever its type, then the type.
convert(h) ==
  LET p == cleanPath(h.abs, h.name)
      t == cleanPath(h.target.abs, h.target.comps)
      e == [kind |-> h.flag, path |-> p.path, target |-> Root, link |-> NoTarget,
            content |-> h.content, meta |-> h.meta]
      whited == p.path # Root /\ Last(p.path) \in DOMAIN Whiteouts
  IN IF ~p.ok \/ h.sparse THEN [e EXCEPT !.kind = "skip"]
     ELSE IF p.path # Root /\ Last(p.path) = OpaqueMark THEN
            [e EXCEPT !.kind = "opaque", !.path = Front(@)]
     ELSE IF whited /\ Whiteouts[Last(p.path)] = NoName THEN [e EXCEPT !.kind = "skip"]
     ELSE IF whited THEN [e EXCEPT !.kind = "whiteout",
                              !.path = Append(Front(@), Whiteouts[Last(@)])]
     ELSE IF h.flag = "symlink" THEN [e EXCEPT !.link = h.target]
     ELSE IF h.flag = "hardlink" /\ ~t.ok THEN [e EXCEPT !.kind = "skip"]
     ELSE IF h.flag = "hardlink" THEN [e EXCEPT !.target = t.path]
     ELSE e

----------------------------------------------------------------------------
\* The tree.

Under(p, q) == IsStrictPrefix(q, p)

\* parent.children[name] = n.  A directory over a directory keeps the children,
\* anything else replaces the subtree.
Place(t, p, n) ==
  LET keep == n.type = "dir" /\ p \in DOMAIN t /\ t[p].type = "dir"
  IN [q \in {p} \cup {q \in DOMAIN t : keep \/ ~Under(q, p)} |->
        IF q = p THEN n ELSE t[q]]

Prune(t, Gone(_)) == [q \in {q \in DOMAIN t : ~Gone(q)} |-> t[q]]

\* resolveDir: the walk from `at` over comps.  The stack of directories is the
\* path reached; directories created on the way stay even when the walk ends
\* in a loop.
RECURSIVE Walk(_, _, _, _, _)
Walk(t, at, comps, hops, create) ==
  IF comps = <<>> THEN [t |-> t, at |-> at, out |-> "dir"]
  ELSE LET c == Head(comps)
           p == Append(at, c)
           rest == Tail(comps)
       IN IF c \in {"", "."} THEN Walk(t, at, rest, hops, create)
          ELSE IF c = ".." THEN Walk(t, IF at = Root THEN Root ELSE Front(at), rest, hops, create)
          ELSE IF p \in DOMAIN t /\ t[p].type = "symlink" THEN
                 IF hops >= MaxHops THEN [t |-> t, at |-> at, out |-> "loop"]
                 ELSE Walk(t, IF t[p].link.abs THEN Root ELSE at,
                           t[p].link.comps \o rest, hops + 1, create)
          ELSE IF p \in DOMAIN t /\ t[p].type = "dir" THEN Walk(t, p, rest, hops, create)
          ELSE
                 IF create THEN Walk(Place(t, p, ImplicitDir), p, rest, hops, create)
                 ELSE [t |-> t, at |-> at, out |-> "nil"]

resolveDir(t, comps, create) == Walk(t, Root, comps, 0, create)

\* splitParent: the root's parent is the root and its last component is ".".
splitParent(p) == IF p = Root THEN [dir |-> Root, name |-> "."]
                  ELSE [dir |-> Front(p), name |-> Last(p)]

Placed(t) == [t |-> t, skip |-> FALSE]
Skipped(t) == [t |-> t, skip |-> TRUE]

\* The node of an entry other than a link.
NodeOf(e) == [type |-> e.kind, link |-> e.link, meta |-> e.meta,
              content |-> IF e.kind = "file" THEN e.content ELSE "none"]

\* parentOf and the assignment that put and link end with.
PlaceAt(t, path, n) ==
  LET s == splitParent(path)
      r == resolveDir(t, s.dir, TRUE)
  IN IF r.out = "loop" THEN Skipped(r.t)
     ELSE Placed(Place(r.t, Append(r.at, s.name), n))

put(t, e) ==
  IF e.path = Root THEN [t |-> t, skip |-> e.kind # "dir"]
  ELSE PlaceAt(t, e.path, NodeOf(e))

\* link: the target's type and payload with the entry's own metadata; a missing
\* target and a directory are skips.
link(t, e) ==
  LET s == splitParent(e.target)
      r == resolveDir(t, s.dir, FALSE)
      p == Append(r.at, s.name)
  IN IF e.target = Root \/ r.out # "dir" \/ p \notin DOMAIN t
     THEN Skipped(t)
     ELSE IF t[p].type = "dir" THEN Skipped(t)
     ELSE PlaceAt(t, e.path, [t[p] EXCEPT !.meta = e.meta])

\* whiteout and opaque create nothing; a missing path is no skip, a loop is.
whiteout(t, e) ==
  LET s == splitParent(e.path)
      r == resolveDir(t, s.dir, FALSE)
      p == Append(r.at, s.name)
      Gone(q) == q = p \/ Under(q, p)
  IN IF e.path = Root \/ r.out = "nil" THEN Placed(t)
     ELSE IF r.out = "loop" THEN Skipped(t) ELSE Placed(Prune(t, Gone))

opaque(t, e) ==
  LET r == resolveDir(t, e.path, FALSE)
      Gone(q) == Under(q, r.at)
  IN CASE r.out = "nil" -> Placed(t)
       [] r.out = "loop" -> Skipped(t)
       [] OTHER -> Placed(Prune(t, Gone))

\* One entry's effect.
ApplyEntry(t, e) ==
  CASE e.kind = "whiteout" -> whiteout(t, e)
    [] e.kind = "opaque" -> opaque(t, e)
    [] e.kind = "skip" -> Skipped(t)
    [] e.kind = "hardlink" -> link(t, e)
    [] OTHER -> put(t, e)

IsWhiteout(e) == e.kind \in {"whiteout", "opaque"}
IsEntry(e) == ~IsWhiteout(e)

\* Mutant of Apply: the entries are applied in archive order, whiteouts too.
ApplyInOrder(t, entries) ==
  FoldLeft(LAMBDA acc, e :
             LET r == ApplyEntry(acc.t, e)
             IN [t |-> r.t, skipped |-> acc.skipped + IF r.skip THEN 1 ELSE 0],
           [t |-> t, skipped |-> 0], entries)

\* Apply after parseLayer: the whiteouts first, then the entries in archive
\* order, each refusal counted by record.
Apply(t, entries) ==
  FoldLeft(LAMBDA acc, e :
             LET r == ApplyEntry(acc.t, e)
             IN [t |-> r.t, skipped |-> acc.skipped + IF r.skip THEN 1 ELSE 0],
           [t |-> t, skipped |-> 0],
           SelectSeq(entries, IsWhiteout) \o SelectSeq(entries, IsEntry))

\* emitDir: Dir.AddEntry refuses the names "." and "..", validatePayload an
\* empty link target.
Writable(t) ==
  \A p \in DOMAIN t :
    Last(p) \notin {"", ".", ".."}
    /\ (t[p].type = "symlink" => t[p].link.abs \/ t[p].link.comps # <<"">>)

----------------------------------------------------------------------------
\* Serving.

HasComponent(comps) == \E i \in DOMAIN comps : comps[i] \notin {"", "."}

\* Mutant of Serve: an absolute target is taken relative to the link's directory.
RECURSIVE ServeRelative(_, _, _, _)
ServeRelative(t, at, comps, hops) ==
  IF comps = <<>> THEN [out |-> "found", at |-> at]
  ELSE LET c == Head(comps)
           p == Append(at, c)
       IN IF c \in {"", "."} THEN ServeRelative(t, at, Tail(comps), hops)
          ELSE IF c = ".." THEN ServeRelative(t, IF at = Root THEN Root ELSE Front(at), Tail(comps), hops)
          ELSE IF p \notin DOMAIN t THEN [out |-> "notfound", at |-> at]
          ELSE IF t[p].type = "symlink" THEN
                 IF hops >= MaxHops THEN [out |-> "loop", at |-> at]
                 ELSE ServeRelative(t, at, t[p].link.comps \o Tail(comps), hops + 1)
          ELSE IF t[p].type = "dir" THEN ServeRelative(t, p, Tail(comps), hops)
          ELSE [out |-> "found", at |-> p]

\* FS.resolve: symlinks are followed in every component; the walk may end at
\* any node, but only a directory can be descended into.
RECURSIVE Serve(_, _, _, _)
Serve(t, at, comps, hops) ==
  IF comps = <<>> THEN [out |-> "found", at |-> at]
  ELSE LET c == Head(comps)
           p == Append(at, c)
           rest == Tail(comps)
       IN IF c \in {"", "."} THEN Serve(t, at, rest, hops)
          ELSE IF c = ".." THEN Serve(t, IF at = Root THEN Root ELSE Front(at), rest, hops)
          ELSE IF p \notin DOMAIN t THEN [out |-> "notfound", at |-> at]
          ELSE IF t[p].type = "symlink" THEN
                 IF hops >= MaxHops THEN [out |-> "loop", at |-> at]
                 ELSE Serve(t, IF t[p].link.abs THEN Root ELSE at,
                            t[p].link.comps \o rest, hops + 1)
          ELSE IF t[p].type = "dir" THEN Serve(t, p, rest, hops)
          ELSE IF HasComponent(rest) THEN [out |-> "notdir", at |-> at]
          ELSE [out |-> "found", at |-> p]

Stat(p) == Serve(tree, Root, cleanPath(TRUE, p).path, 0)

----------------------------------------------------------------------------
\* buildRootfs.

Layers == UNION {[1..n -> Headers] : n \in LayerSizes}

RootfsInit ==
  /\ tree = [p \in {} |-> ImplicitDir]
  /\ merge = [status |-> "building", applied |-> 0, last |-> <<>>, skipped |-> 0]

\* The layer is a prism whose archive parses.
ApplyLayer ==
  /\ merge.status = "building" /\ merge.applied < MaxLayers
  /\ \E layer \in Layers :
       LET entries == [i \in DOMAIN layer |-> convert(layer[i])]
           r == Apply(tree, entries)
       IN /\ tree' = r.t
          /\ merge' = [merge EXCEPT !.applied = @ + 1, !.last = entries,
                                  !.skipped = @ + r.skipped]

\* The layer is stored raw or its archive does not parse (unavailable), its
\* blob has vanished or the store fails (failed): nothing is written.
LayerUnusable ==
  /\ merge.status = "building" /\ merge.applied < MaxLayers
  /\ \E status \in {"unavailable", "failed"} : merge' = [merge EXCEPT !.status = status, !.last = <<>>]
  /\ UNCHANGED tree

\* Write after the last layer.
WriteTree ==
  /\ merge.status = "building" /\ merge.applied > 0
  /\ merge' = [merge EXCEPT !.last = <<>>, !.status =
       IF ~Writable(tree) THEN "refused"
       ELSE IF merge.skipped > 0 THEN "partial"
       ELSE "ok"]
  /\ UNCHANGED tree

RootfsNext == ApplyLayer \/ LayerUnusable \/ WriteTree

RootfsSpec == RootfsInit /\ [][RootfsNext]_rootfsVars

----------------------------------------------------------------------------
\* Properties.

Plain(entries) ==
  /\ \A i \in DOMAIN entries : entries[i].kind \notin {"symlink", "hardlink"}
  /\ \A i, j \in DOMAIN entries :
       (i # j /\ IsEntry(entries[i]) /\ IsEntry(entries[j]) /\ entries[i].kind # "skip"
          /\ entries[j].kind # "skip")
       => /\ entries[i].path # entries[j].path
          /\ Under(entries[j].path, entries[i].path) => entries[i].kind = "dir"

\* What the OCI image specification makes of a layer over a lower tree, where
\* no links are involved and the layer does not contradict itself.
Overlay(lower, entries) ==
  LET Of(kinds) == {entries[i] : i \in {i \in DOMAIN entries : entries[i].kind \in kinds}}
      new == {e \in Of({"file", "dir", "fifo"}) : e.path # Root}
      Kept(p) ==
        /\ \A e \in Of({"whiteout"}) : p # e.path /\ ~Under(p, e.path)
        /\ \A e \in Of({"opaque"}) : ~Under(p, e.path)
        /\ \A e \in new : Under(p, e.path) => e.kind = "dir"
      kept == {p \in DOMAIN lower : Kept(p)}
      above == UNION {{SubSeq(e.path, 1, n) : n \in 1..(Len(e.path) - 1)} : e \in new}
      At(p) == {e \in new : e.path = p}
  IN [p \in kept \cup above \cup {e.path : e \in new} |->
        IF At(p) # {} THEN NodeOf(CHOOSE e \in At(p) : TRUE)
        ELSE IF p \in kept /\ (p \notin above \/ lower[p].type = "dir") THEN lower[p]
        ELSE ImplicitDir]

\* Merging a layer without links gives the overlay of the layer on the tree
\* below it: a whiteout removes what lower layers put there and never what its
\* own layer puts there, wherever in the archive it stands, and nothing the
\* layer does not mention changes (Builder.Apply).
MergeIsOverlay ==
  [][LET entries == merge'.last
     IN (merge'.applied > merge.applied /\ Plain(entries)
           /\ \A p \in DOMAIN tree : tree[p].type # "symlink")
        => tree' = Overlay(tree, entries)]_rootfsVars

\* Building and serving agree on what a path means: rootfs/fs.go finds a
\* directory exactly where the builder's own walk ends at it, gives up on a
\* loop exactly where the builder does, and what it finds is in the tree.
ServedAsBuilt ==
  \A p \in Probes :
    LET built == resolveDir(tree, cleanPath(TRUE, p).path, FALSE)
        served == Stat(p)
        isDir == served.out = "found"
                 /\ (served.at = Root \/ tree[served.at].type = "dir")
    IN /\ (built.out = "dir") <=> isDir
       /\ isDir => served.at = built.at
       /\ (built.out = "loop") <=> (served.out = "loop")
       /\ served.out = "found" => served.at = Root \/ served.at \in DOMAIN tree

\* Builder.Apply says "Entries that cannot be represented are recorded as
\* skips", so the store never refuses the merged tree.
TreeIsWritable == merge.status # "refused"
=============================================================================
