------------------------------- MODULE Browser -------------------------------
(***************************************************************************)
(* The terminal browser's model (package browse): screens are frames on    *)
(* stacks, the base stack for repositories and, inside an image, one stack *)
(* for its storage tree and one for its filesystem.  Loads run as Bubble   *)
(* Tea commands beside the user's keys, and their results come back as     *)
(* messages in any order, after whatever the user did meanwhile.           *)
(*                                                                         *)
(* A node is its kind and the image it belongs to; image 1 is an index     *)
(* that holds image 2.  What a frame shows (rows, cursor, viewer) is left  *)
(* to BrowserFrame; here a frame is only loaded, loading or resolving.     *)
(***************************************************************************)
EXTENDS Integers, Sequences, FiniteSets, SequencesExt

CONSTANTS MaxFrames,    \* bound: frames ever created
          MaxLoadErrors \* bound: loads that fail

VARIABLES
  base,      \* m.base
  img,       \* m.img: "in" an image or not, the stacks, the active one, fsRoot
  inflight,  \* commands that run and messages that wait
  nextID,    \* m.nextID
  loadErrors

browserVars == <<base, img, inflight, nextID, loadErrors>>

Listers == {"repos", "repo", "image", "manifests", "sdir", "chooser", "fsdir"}
Openers == {"sfile", "fsfile"}
N(kind, im) == [kind |-> kind, im |-> im]
IsIndex(im) == im = 1

\* What the rows of a listing open, node by node.
ReposRows == {N("repo", 1)}
RepoRows == {N("image", 1)}
ImageRows(im) ==
  {N("sfile", im)} \cup IF IsIndex(im) THEN {N("manifests", im)} ELSE {N("sdir", im)}
ManifestsRows(im) == {N("image", im + 1)}
DirRows(im) == {N("sdir", im), N("sfile", im)}
FsDirRows(im) == {N("fsdir", im), N("fsfile", im), N("fslink", im)}

\* An image shows its root file system, an index lets a child be chosen first.
fsRootFor(im) == IF IsIndex(im) THEN N("chooser", im) ELSE N("fsdir", im)
ChooserRows(im) == {fsRootFor(im + 1)}

\* A symlink leads to a directory or to a file.
Resolve(n) == {N("fsdir", n.im), N("fsfile", n.im)}

Rows(n) ==
  CASE n.kind = "repos" -> ReposRows
    [] n.kind = "repo" -> RepoRows
    [] n.kind = "image" -> ImageRows(n.im)
    [] n.kind = "manifests" -> ManifestsRows(n.im)
    [] n.kind = "sdir" -> DirRows(n.im)
    [] n.kind = "chooser" -> ChooserRows(n.im)
    [] n.kind = "fsdir" -> FsDirRows(n.im)
    [] n.kind \in Openers -> {}

NoImage == [in |-> FALSE, active |-> "storage", storage |-> <<>>, fs |-> <<>>, fsNil |-> TRUE, fsRoot |-> 0]
InImage(f) == [NoImage EXCEPT !.in = TRUE, !.storage = <<f>>]

newFrame(n, id) == [id |-> id, node |-> n, loaded |-> FALSE, loading |-> FALSE, resolving |-> FALSE]

-----------------------------------------------------------------------------
(* The model's helpers, over a pair of base stack b and image group g *)

activeStack(g) == IF g.active = "fs" THEN g.fs ELSE g.storage
setActiveStack(g, s) == IF g.active = "fs" THEN [g EXCEPT !.fs = s] ELSE [g EXCEPT !.storage = s]
Stack(b, g) == IF g.in THEN activeStack(g) ELSE b
Frames(b, g) == ToSet(b) \cup ToSet(g.storage) \cup ToSet(g.fs)

\* A state without a frame on screen: top indexes an empty stack.
HasTop(b, g) == Stack(b, g) # <<>>
Top(b, g) == Last(Stack(b, g))

\* The frame with f's id becomes f, wherever it is.
Replace(s, f) == [i \in DOMAIN s |-> IF s[i].id = f.id THEN f ELSE s[i]]
ReplaceIn(g, f) == [g EXCEPT !.storage = Replace(@, f), !.fs = Replace(@, f)]

\* Mutant of ensureLoaded: only a listing is loaded again.
EnsureListed(b, g, id, sent) ==
  LET f == Top(b, g)
      loads == HasTop(b, g) /\ ~f.loaded /\ ~f.loading /\ f.node.kind \in Listers
      started == [f EXCEPT !.loading = TRUE] IN
  /\ base' = IF loads THEN Replace(b, started) ELSE b
  /\ img' = IF loads THEN ReplaceIn(g, started) ELSE g
  /\ inflight' = IF loads THEN sent \cup {[kind |-> "load", id |-> f.id]} ELSE sent
  /\ nextID' = id

\* The step ends by loading the frame on screen when it has nothing yet.
ensureLoaded(b, g, id, sent) ==
  LET f == Top(b, g)
      loads == HasTop(b, g) /\ ~f.loaded /\ ~f.loading
      started == [f EXCEPT !.loading = TRUE] IN
  /\ base' = IF loads THEN Replace(b, started) ELSE b
  /\ img' = IF loads THEN ReplaceIn(g, started) ELSE g
  /\ inflight' = IF loads THEN sent \cup {[kind |-> "load", id |-> f.id]} ELSE sent
  /\ nextID' = id

\* f taken out of s, if it is there; frames have ids of their own.
Without(s, f) ==
  LET at == {i \in DOMAIN s : s[i].id = f.id} IN
  IF at = {} THEN s ELSE RemoveAt(s, CHOOSE i \in at : TRUE)

\* popFrame: emptying the fs stack while it is active returns to the storage
\* stack, emptying the storage stack leaves the image.
PoppedImage(g, f) ==
  LET r == [g EXCEPT !.storage = Without(@, f), !.fs = Without(@, f)]
      s == IF r.fs = <<>> /\ r.active = "fs"
           THEN [r EXCEPT !.active = "storage", !.fsRoot = 0] ELSE r
  IN IF s.storage = <<>> THEN NoImage ELSE s
PoppedBase(b, g, f) == IF ~g.in /\ Len(b) > 1 THEN Without(b, f) ELSE b
PoppedGroup(g, f) == IF g.in THEN PoppedImage(g, f) ELSE g

Room == nextID < MaxFrames

\* push: an image root outside an image starts the image group; a Resolver is
\* followed first; anything else goes on the active stack.
push(n, from, b, g, sent) ==
  LET f == newFrame(n, nextID + 1)
      follow == [from EXCEPT !.resolving = TRUE] IN
  IF n.kind = "fslink"
  THEN /\ base' = Replace(b, follow)
       /\ img' = ReplaceIn(g, follow)
       /\ inflight' = sent \cup {[kind |-> "resolve", id |-> from.id]}
       /\ UNCHANGED nextID
  ELSE /\ Room
       /\ IF g.in
          THEN ensureLoaded(b, setActiveStack(g, Append(Stack(b, g), f)), nextID + 1, sent)
          ELSE IF n.kind = "image" THEN ensureLoaded(b, InImage(f), nextID + 1, sent)
          ELSE ensureLoaded(Append(b, f), g, nextID + 1, sent)

-----------------------------------------------------------------------------
(* Keys *)

open ==
  /\ HasTop(base, img)
  /\ LET f == Top(base, img) IN
     /\ ~f.loading /\ ~f.resolving /\ f.loaded
     /\ \E n \in Rows(f.node) : push(n, f, base, img, inflight)
  /\ UNCHANGED loadErrors

back ==
  /\ HasTop(base, img)
  /\ img.in \/ Len(base) > 1
  /\ LET f == Top(base, img) IN
     ensureLoaded(PoppedBase(base, img, f), PoppedGroup(img, f), nextID, inflight)
  /\ UNCHANGED loadErrors

\* The innermost image root on the storage stack.
RootOf(s) ==
  LET at == {i \in DOMAIN s : s[i].node.kind = "image"} IN
  IF at = {} THEN 0 ELSE s[CHOOSE i \in at : \A j \in at : j <= i].node.im

\* f: the fs stack is kept while the root it was built for does not change.
toggleView ==
  /\ img.in
  /\ HasTop(base, img)
  /\ LET root == RootOf(img.storage)
         keep == ~img.fsNil /\ img.fsRoot = root IN
     IF img.active = "fs"
     THEN ensureLoaded(base, [img EXCEPT !.active = "storage"], nextID, inflight)
     ELSE /\ root # 0
          /\ keep \/ Room
          /\ ensureLoaded(base,
               IF keep THEN [img EXCEPT !.active = "fs"]
               ELSE [img EXCEPT !.active = "fs", !.fsNil = FALSE, !.fsRoot = root,
                                !.fs = <<newFrame(fsRootFor(root), nextID + 1)>>],
               IF keep THEN nextID ELSE nextID + 1, inflight)
  /\ UNCHANGED loadErrors

-----------------------------------------------------------------------------
(* Messages *)

Delivered(m) ==
  /\ m \in inflight
  /\ HasTop(base, img)

\* A result for a frame that was popped meanwhile is dropped.
Dropped(m) ==
  /\ Delivered(m)
  /\ \A f \in Frames(base, img) : f.id # m.id
  /\ inflight' = inflight \ {m}
  /\ UNCHANGED <<base, img, nextID, loadErrors>>

\* listLoaded and fileLoaded.
onLoaded(m) ==
  /\ Delivered(m)
  /\ m.kind = "load"
  /\ \E f \in Frames(base, img) :
       /\ f.id = m.id
       /\ LET g == [f EXCEPT !.loading = FALSE, !.loaded = TRUE] IN
          /\ base' = Replace(base, g)
          /\ img' = ReplaceIn(img, g)
  /\ inflight' = inflight \ {m}
  /\ UNCHANGED <<nextID, loadErrors>>

\* A load that fails pops its frame.
onLoadFailed(m) ==
  /\ Delivered(m)
  /\ m.kind = "load"
  /\ loadErrors > 0
  /\ loadErrors' = loadErrors - 1
  /\ \E f \in Frames(base, img) :
       /\ f.id = m.id
       /\ LET g == [f EXCEPT !.loading = FALSE]
              b == Replace(base, g)
              i == ReplaceIn(img, g) IN
          ensureLoaded(PoppedBase(b, i, g), PoppedGroup(i, g), nextID, inflight \ {m})

\* A followed symlink is entered from the frame it was followed in.
onResolved(m) ==
  /\ Delivered(m)
  /\ m.kind = "resolve"
  /\ \E f \in Frames(base, img) :
       /\ f.id = m.id
       /\ LET g == [f EXCEPT !.resolving = FALSE]
              b == Replace(base, g)
              i == ReplaceIn(img, g) IN
          \/ /\ \E n \in Resolve(f.node) : push(n, g, b, i, inflight \ {m})
             /\ UNCHANGED loadErrors
          \/ /\ loadErrors > 0 \/ ~Room   \* out of frames: taken as a failure
             /\ loadErrors' = IF Room THEN loadErrors - 1 ELSE loadErrors
             /\ base' = b /\ img' = i
             /\ inflight' = inflight \ {m}
             /\ UNCHANGED nextID

Message(m) == Dropped(m) \/ onLoaded(m) \/ onLoadFailed(m) \/ onResolved(m)

-----------------------------------------------------------------------------
(* newModel at "", "repo" or "repo:tag", then Init *)

BrowserInit ==
  /\ loadErrors = MaxLoadErrors
  /\ LET repos == newFrame(N("repos", 1), 1)
         repo == newFrame(N("repo", 1), 2)
         image == newFrame(N("image", 1), 3)
         loading(f) == [f EXCEPT !.loading = TRUE]
         load(id) == {[kind |-> "load", id |-> id]} IN
     \/ base = <<loading(repos)>> /\ img = NoImage /\ inflight = load(1) /\ nextID = 1
     \/ base = <<repos, loading(repo)>> /\ img = NoImage /\ inflight = load(2) /\ nextID = 2
     \/ base = <<repos, repo>> /\ img = InImage(loading(image)) /\ inflight = load(3) /\ nextID = 3

Keys == open \/ back \/ toggleView
Messages == \E m \in inflight : Message(m)
BrowserNext == Keys \/ Messages

BrowserSpec == BrowserInit /\ [][BrowserNext]_browserVars

\* Every command Bubble Tea was given runs and its message is delivered.
Answered(i) == \E m \in inflight : m.id = i /\ Message(m)
BrowserFairness == \A i \in 1..MaxFrames : WF_browserVars(Answered(i))

-----------------------------------------------------------------------------
(* Properties *)

\* Whatever the user did while loads were on their way, the frame on screen
\* is loaded or being loaded, and a frame that says loading or resolving is
\* owed a message: no screen waits for a result that never comes.
ScreenIsServed ==
  /\ HasTop(base, img) => Top(base, img).loaded \/ Top(base, img).loading
  /\ \A f \in Frames(base, img) :
       /\ f.loading => [kind |-> "load", id |-> f.id] \in inflight
       /\ f.resolving => [kind |-> "resolve", id |-> f.id] \in inflight

\* The screen comes to show something again and again: no sequence of keys
\* and late results leaves a frame on screen that is never loaded.
ScreensLoad == []<>(HasTop(base, img) => Top(base, img).loaded)

\* "top is the frame on screen" (browse/model.go): there always is one.
TopExists == HasTop(base, img)

\* "f again returns to the storage view where it was; both views keep their
\* position" (README.md): what is opened in one view never moves the other.
ViewsKeepTheirPosition ==
  /\ \A i \in DOMAIN img.storage : img.storage[i].node.kind \in {"image", "manifests", "sdir", "sfile"}
  /\ \A i \in DOMAIN img.fs : img.fs[i].node.kind \in {"chooser", "fsdir", "fsfile"}

=============================================================================
