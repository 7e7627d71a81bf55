----------------------------- MODULE MCServing -----------------------------
\* What reads a store: merging the layers of an image and resolving paths in
\* the result, parsing one layer out of its prism, one request to the
\* registry, one client that pages through a listing, one frame of the
\* browser, and a saved archive planned for import.  Each initial state
\* starts one of the six; the others stay off.
EXTENDS RootfsTree, RootfsSplice, RegistryReads, RegistryPages, BrowserFrame, ArchivePlan

Hdr(flag, name, target) ==
  [flag |-> flag, abs |-> FALSE, name |-> name, target |-> target, sparse |-> FALSE,
   content |-> "c", meta |-> flag]
Rel(comps) == [abs |-> FALSE, comps |-> comps]
Abs(comps) == [abs |-> TRUE, comps |-> comps]
MCHeaders == {
  Hdr("file", <<"a">>, NoTarget), Hdr("file", <<"a", "b">>, NoTarget),
  Hdr("dir", <<"a">>, NoTarget), Hdr("file", <<"b", "a">>, NoTarget),
  Hdr("dir", <<"b", ".">>, NoTarget), Hdr("dir", <<".">>, NoTarget),
  Hdr("fifo", <<"b">>, NoTarget), Hdr("fifo", <<"..", "a">>, NoTarget),
  Hdr("file", <<"a", "wh.b">>, NoTarget), Hdr("file", <<"wh.a">>, NoTarget),
  Hdr("file", <<"a", "wh.opq">>, NoTarget), Hdr("file", <<"wh.opq">>, NoTarget),
  Hdr("file", <<"b", "wh.">>, NoTarget),
  Hdr("symlink", <<"b">>, Rel(<<"a">>)), Hdr("symlink", <<"a">>, Abs(<<"b">>)),
  Hdr("symlink", <<"a", "b">>, Abs(<<"b">>)), Hdr("symlink", <<"b">>, Rel(<<"">>)),
  Hdr("symlink", <<"a", "a">>, Rel(<<"..", "..", "b">>)),
  Hdr("hardlink", <<"a">>, Rel(<<"b", "a">>)), Hdr("hardlink", <<"b">>, Rel(<<"..">>)),
  Hdr("hardlink", <<".">>, Rel(<<"a">>)),
  [Hdr("file", <<"..", "b">>, NoTarget) EXCEPT !.abs = TRUE, !.sparse = TRUE],
  [Hdr("file", <<"..", "b">>, NoTarget) EXCEPT !.abs = TRUE] }
MCWhiteouts ==
  [n \in {"wh.a", "wh.b", "wh."} |->
     CASE n = "wh.a" -> "a" [] n = "wh.b" -> "b" [] n = "wh." -> ""]
MCProbes == {<<"a">>, <<"b">>, <<"a", "b">>, <<"b", "a">>, <<"a", "a", "b">>,
             <<"a", "b", "a">>, <<"a", "..", "b">>, <<"..", "a", ".">>}

MCArchived ==
  LET Archived(flag, size, cut, map) == [flag |-> flag, size |-> size, cut |-> cut, map |-> map]
  IN  {Archived("content", n, c, 0) : n \in 0..4, c \in BOOLEAN}
      \cup {Archived("only", n, c, 0) : n \in {0, 2}, c \in BOOLEAN}
      \cup {Archived("content", n, TRUE, 2) : n \in {2, 4}} \cup {Archived("global", 2, FALSE, 2)}
MCArchives == UNION {[1..n -> MCArchived] : n \in 1..3}

\* A file of nested nodes, an empty one, and four whose objects no longer are
\* what was stored: changed, too short, too long, and of another size than its key says.
MCContents ==
  LET Leaf(at, bytes) == [node |-> FALSE, at |-> at, length |-> Len(bytes), bytes |-> bytes, kids |-> <<>>]
      Node(at, length, kids) == [node |-> TRUE, at |-> at, length |-> length, bytes |-> <<>>, kids |-> kids]
      Content(good, t) == [good |-> good, tree |-> t,
                           objects |-> {t} \cup ToSet(t.kids) \cup UNION {ToSet(t.kids[i].kids) : i \in DOMAIN t.kids}]
  IN  { Content(<<1, 2, 3, 4, 5, 6>>,
                Node(0, 6, <<Leaf(0, <<1, 2>>), Node(2, 3, <<Leaf(2, <<3>>), Leaf(3, <<4, 5>>)>>), Leaf(5, <<6>>)>>)),
        Content(<<>>, Leaf(0, <<>>)),
        Content(<<1, 2, 3>>, Node(0, 3, <<Leaf(0, <<1, 2>>), Leaf(2, <<9>>)>>)),
        Content(<<1, 2, 3>>, Leaf(0, <<1, 2>>)),
        Content(<<1, 2>>, Node(0, 3, <<Leaf(0, <<9, 2>>), Leaf(2, <<3>>)>>)),
        Content(<<1, 2, 3>>, [Leaf(0, <<1, 2>>) EXCEPT !.length = 3]) }
MCRanges == [first : {-1, 0, 2, 3, 6}, last : {-1, 0, 1, 4, 7}]
MCChildren ==
  <<[platform |-> "amd", kind |-> "image"], [platform |-> "arm", kind |-> "absent"],
    [platform |-> "arm", kind |-> "image"], [platform |-> "all", kind |-> "index"]>>
MCPageSizes == {-1, 0, 1, 2}

MCFiles == {
  [class |-> "text", size |-> 5, starts |-> <<0, 2, 3>>, pretty |-> 4],
  [class |-> "binary", size |-> 9, starts |-> <<0, 6>>, pretty |-> 0],
  [class |-> "toolarge", size |-> 15, starts |-> <<0>>, pretty |-> 0],
  [class |-> "binary", size |-> 0, starts |-> <<>>, pretty |-> 0] }

\* Images that share layers and a config, one without a config, indexes that
\* share and repeat children, nest, and hold an attestation.
MCStored ==
  LET Im(c, ls) == [index |-> FALSE, children |-> <<>>, config |-> c, layers |-> ls]
      Ix(cs) == [index |-> TRUE, children |-> cs, config |-> NoConfig, layers |-> {}]
  IN  [m1 |-> Im("c1", {"l1"}), m2 |-> Im("c2", {"l1", "l2"}), m3 |-> Im("c1", {"l3"}),
       m4 |-> Im(NoConfig, {"l4"}), m5 |-> Im("c5", {"l4"}),
       x1 |-> Ix(<<"m2", "m1">>), x2 |-> Ix(<<"x1", "m3">>), x3 |-> Ix(<<"m1", "m1">>),
       x4 |-> Ix(<<"m4", "m5", "m2">>), x5 |-> Ix(<<"x1">>)]
MCExport == [digest : DOMAIN MCStored, tag : {"t1", "t2", "none"}]
MCExports == {<<e>> : e \in MCExport} \cup {<<e, f>> : e, f \in MCExport}

RootfsOff ==
  /\ tree = [p \in {} |-> ImplicitDir]
  /\ merge = [status |-> "off", applied |-> 0, last |-> <<>>, skipped |-> 0]
SpliceOff ==
  /\ archive = newSplice(<<>>, <<>>)
  /\ sp = [pos |-> 0, next |-> 1, content |-> FALSE, zeros |-> FALSE, matched |-> 0, rpos |-> 0]
  /\ tr = [at |-> "off", need |-> 0, buf |-> <<>>, cur |-> 0]
  /\ found = <<>>
ReadOff ==
  /\ req = NoRequest /\ content = [good |-> <<>>, tree |-> NoRange, objects |-> {}]
  /\ resp = NoResponse /\ body = NoBody
  /\ reader = NewReader(content.tree) /\ fetched = {} /\ away = FALSE
PageOff ==
  /\ names = {} /\ manifests = {} /\ listing = [NoListing EXCEPT !.at = "off"]
  /\ stable = {} /\ held = {} /\ known = {} /\ changes = 0

FrameOff ==
  /\ height = 1 /\ list = NewList(FALSE) /\ file = [class |-> "off"] /\ view = NoView
  /\ reads = {} /\ input = "off" /\ missed = FALSE /\ frameErrors = 0
PlanOff == exports = <<>> /\ arch = NoArchive /\ plan = Refused("off")

Init ==
  \/ RootfsInit /\ SpliceOff /\ ReadOff /\ PageOff /\ FrameOff /\ PlanOff
  \/ RootfsOff /\ SpliceInit /\ ReadOff /\ PageOff /\ FrameOff /\ PlanOff
  \/ RootfsOff /\ SpliceOff /\ ReadInit /\ PageOff /\ FrameOff /\ PlanOff
  \/ RootfsOff /\ SpliceOff /\ ReadOff /\ PageInit /\ FrameOff /\ PlanOff
  \/ RootfsOff /\ SpliceOff /\ ReadOff /\ PageOff /\ FrameInit /\ PlanOff
  \/ RootfsOff /\ SpliceOff /\ ReadOff /\ PageOff /\ FrameOff /\ PlanInit

Next ==
  \/ RootfsNext /\ UNCHANGED <<spliceVars, readVars, pageVars, frameVars, planVars>>
  \/ SpliceNext /\ UNCHANGED <<rootfsVars, readVars, pageVars, frameVars, planVars>>
  \/ ReadNext /\ UNCHANGED <<rootfsVars, spliceVars, pageVars, frameVars, planVars>>
  \/ PageNext /\ UNCHANGED <<rootfsVars, spliceVars, readVars, frameVars, planVars>>
  \/ input # "off" /\ FrameNext
     /\ UNCHANGED <<rootfsVars, spliceVars, readVars, pageVars, planVars>>
  \/ exports # <<>> /\ PlanNext
     /\ UNCHANGED <<rootfsVars, spliceVars, readVars, pageVars, frameVars>>

Spec == Init /\ [][Next]_<<rootfsVars, spliceVars, readVars, pageVars, frameVars, planVars>>
=============================================================================
