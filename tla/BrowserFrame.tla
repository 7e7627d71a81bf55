---------------------------- MODULE BrowserFrame ----------------------------
(***************************************************************************)
(* One frame of the terminal browser: a listing with its filter and cursor *)
(* or the viewer of a file, text or hex.  Keys, resizes and the results of *)
(* the loads the frame started come in any order.  Update is followed by   *)
(* View, which puts the listing's cursor back on screen, so every step of  *)
(* a listing ends with moveTo.                                             *)
(*                                                                         *)
(* Positions are 0-based as in the code.  A filter or a search is the set  *)
(* of rows or lines it matches; a file is its size, where its lines start  *)
(* and, for JSON, how many lines the indented form has.                    *)
(***************************************************************************)
EXTENDS Integers, Sequences, FiniteSets, SequencesExt, FiniteSetsExt, Ordered

CONSTANTS Heights,        \* body heights a resize may give
          RowCount,       \* rows of the listing
          HexRow,         \* hexRowBytes
          Files,          \* files a viewer may open: class, size, starts, pretty
          MaxWindowErrors, \* bound: reads that fail
          MaxTextLoads    \* bound: text loads in flight

VARIABLES
  height,  \* m.bodyHeight()
  list,    \* the listing
  file,    \* f.file
  view,    \* f.view
  reads,   \* the viewer's loads in flight
  input,   \* m.inputKind
  missed,  \* ghost: a resize did not reach the viewer's ensureWindow
  frameErrors

frameVars == <<height, list, file, view, reads, input, missed, frameErrors>>
viewerVars == <<file, view, reads, missed, frameErrors>>

ASSUME FrameAssumption ==
  /\ Heights \subseteq Nat \ {0} /\ RowCount \in Nat /\ HexRow \in Nat \ {0}
  /\ \A f \in Files : f.size \in Nat

AtLeast(a, b) == IF a > b THEN a ELSE b
AtMost(a, b) == IF a < b THEN a ELSE b

-----------------------------------------------------------------------------
(* Listing *)

RowIds == 0..(RowCount - 1)
Visible(l) == Ascending({i \in RowIds : l.loaded /\ i \in l.filter.rows})
NoFilter == [typed |-> FALSE, rows |-> RowIds]
Filters == {NoFilter} \cup [typed : {TRUE}, rows : SUBSET RowIds]

NoRow == 0 - 1
currentRow(l) == IF l.cursor < Len(l.visible) THEN l.visible[l.cursor + 1] ELSE NoRow

\* moveTo clamps the cursor and scrolls it onto the screen.
moveTo(l, i, h) ==
  LET c == AtMost(AtLeast(i, 0), Len(l.visible) - 1)
      up == AtMost(l.top, c)
  IN IF l.visible = <<>> THEN [l EXCEPT !.cursor = 0, !.top = 0]
     ELSE [l EXCEPT !.cursor = c, !.top = IF c >= up + h THEN c - h + 1 ELSE up]

\* Mutant of applyFilter: the cursor keeps its index, not its row.
FilterKeepsIndex(l) ==
  LET s == Visible(l) IN
  [l EXCEPT !.visible = s, !.top = 0, !.cursor = IF @ < Len(s) THEN @ ELSE 0]

\* applyFilter keeps the cursor on its row when that row survives.
applyFilter(l) ==
  LET prev == currentRow(l)
      s == Visible(l)
      at == {j \in DOMAIN s : s[j] = prev} IN
  [l EXCEPT !.visible = s, !.top = 0,
            !.cursor = IF at = {} THEN 0 ELSE (CHOOSE j \in at : TRUE) - 1]

Shown(l) == list' = moveTo(l, l.cursor, height')

onListRows ==
  /\ list.is /\ ~list.loaded
  /\ UNCHANGED <<height, input, viewerVars>>
  /\ Shown(applyFilter([list EXCEPT !.loaded = TRUE]))

\* Up, down, page up, page down, home and end.
onListMove ==
  /\ list.is /\ input = "none"
  /\ UNCHANGED <<height, input, viewerVars>>
  /\ \E i \in {list.cursor - 1, list.cursor + 1, list.cursor - height, list.cursor + height,
               0, Len(list.visible) - 1} :
       Shown(moveTo(list, i, height))

\* / opens the input on the current filter; what is typed applies at once;
\* esc clears the filter, in the input or on the listing.
onListFilter ==
  /\ list.is
  /\ UNCHANGED <<height, viewerVars>>
  /\ \/ input = "none" /\ input' = "filter" /\ Shown(list)
     \/ input = "filter" /\ input' = "none" /\ Shown(list)
     \/ /\ input = "filter" /\ UNCHANGED input
        /\ \E f \in Filters : Shown(applyFilter([list EXCEPT !.filter = f]))
     \/ /\ input = "filter" \/ list.filter.typed
        /\ input' = "none"
        /\ Shown(applyFilter([list EXCEPT !.filter = NoFilter]))

-----------------------------------------------------------------------------
(* The viewer's pure parts *)

NoWindow == [nil |-> TRUE, start |-> 0, len |-> 0]
NoView == [open |-> FALSE, mode |-> "text", text |-> FALSE, pretty |-> FALSE, top |-> 0,
           search |-> FALSE, hits |-> {}, hexOff |-> 0, win |-> NoWindow, winLoading |-> FALSE]

\* readWindow: fewer bytes at the end of the file, none past it.
readWindow(start, length) ==
  [nil |-> FALSE, start |-> start,
   len |-> IF start >= file.size THEN 0 ELSE AtMost(length, file.size - start)]
hexWindowLen(h) == 3 * h * HexRow

lineOffset(n) == IF n < Len(file.starts) THEN file.starts[n + 1] ELSE file.size
lineAt(off) == Cardinality({i \in 2..Len(file.starts) : file.starts[i] <= off})
LineCount(v) == IF v.pretty THEN file.pretty ELSE Len(file.starts)
HexAlign(off) == (off \div HexRow) * HexRow
LastLine(v) == AtLeast(LineCount(v) - 1, 0)

\* LoadText: valid JSON is shown indented.
WithText(v) == [v EXCEPT !.text = TRUE, !.pretty = (file.pretty > 0)]

Covers(v, h) ==
  LET need == AtMost(h * HexRow, file.size - v.hexOff) IN
  /\ ~v.win.nil
  /\ v.hexOff >= v.win.start
  /\ v.hexOff + need <= v.win.start + v.win.len

\* Mutant of ensureWindow: a window that holds the first row is enough.
EnsureFirstRow(v, h, sent) ==
  IF v.mode # "hex" \/ v.winLoading \/ Covers(v, 1)
  THEN view' = v /\ reads' = sent
  ELSE /\ view' = [v EXCEPT !.winLoading = TRUE]
       /\ reads' = sent \cup {[kind |-> "window", start |-> AtLeast(v.hexOff - h * HexRow, 0),
                               len |-> hexWindowLen(h)]}

\* The step ends by loading a window around the hex position when the loaded
\* one does not cover the screen and none is on its way.
ensureWindow(v, h, sent) ==
  IF v.mode # "hex" \/ v.winLoading \/ Covers(v, h)
  THEN view' = v /\ reads' = sent
  ELSE /\ view' = [v EXCEPT !.winLoading = TRUE]
       /\ reads' = sent \cup {[kind |-> "window", start |-> AtLeast(v.hexOff - h * HexRow, 0),
                               len |-> hexWindowLen(h)]}

\* scrollHex keeps the last page full.
scrollHex(v, row, sent) ==
  LET rows == (file.size + HexRow - 1) \div HexRow
      maxTop == AtLeast(rows - height, 0) * HexRow IN
  ensureWindow([v EXCEPT !.hexOff = AtMost(AtLeast(row, 0) * HexRow, maxTop)], height, sent)

-----------------------------------------------------------------------------
(* The viewer's steps *)

Viewing == ~list.is /\ view.open
Still == UNCHANGED <<list, file, frameErrors>>
KeepsWindow == UNCHANGED <<height, reads, missed>> /\ Still

\* loadFile: a text file is read whole, any other opens in hex on a window
\* sized when the load began.  A load that fails pops the frame (Browser).
onFileLoaded ==
  /\ ~list.is /\ ~view.open
  /\ \E m \in reads : m.kind = "file" /\ reads' = reads \ {m}
       /\ view' = IF file.class = "text" THEN WithText([NoView EXCEPT !.open = TRUE])
                  ELSE [NoView EXCEPT !.open = TRUE, !.mode = "hex", !.win = readWindow(0, m.len)]
  /\ UNCHANGED <<height, input, missed>> /\ Still

\* The answer to h on a binary file; a second answer applies like the first.
onTextLoaded ==
  /\ Viewing
  /\ \E m \in reads : m.kind = "text" /\ reads' = reads \ {m}
  /\ view' = LET v == WithText(view) IN
             [v EXCEPT !.mode = "text", !.top = AtMost(lineAt(v.hexOff), LastLine(v))]
  /\ UNCHANGED <<height, input, missed>> /\ Still

onTextFailed ==
  /\ Viewing
  /\ \E m \in reads : m.kind = "text" /\ reads' = reads \ {m}
  /\ frameErrors > 0
  /\ frameErrors' = frameErrors - 1
  /\ UNCHANGED <<height, list, file, view, input, missed>>

onWindowLoaded ==
  /\ Viewing
  /\ \E m \in reads :
       /\ m.kind = "window"
       /\ ensureWindow([view EXCEPT !.winLoading = FALSE, !.win = readWindow(m.start, m.len)],
                       height, reads \ {m})
  /\ missed' = FALSE
  /\ UNCHANGED <<height, input>> /\ Still

\* A window that cannot be read is not asked for again.
onWindowFailed ==
  /\ Viewing
  /\ \E m \in reads : m.kind = "window" /\ reads' = reads \ {m}
  /\ frameErrors > 0
  /\ frameErrors' = frameErrors - 1
  /\ view' = [view EXCEPT !.winLoading = FALSE]
  /\ missed' = TRUE
  /\ UNCHANGED <<height, list, file, input>>

\* A resize reaches ensureWindow only when the viewer is open and on top.
onResize(h, onTop) ==
  /\ h # height
  /\ height' = h
  /\ Shown(list)
  /\ IF Viewing /\ onTop
     THEN ensureWindow(view, h, reads) /\ UNCHANGED missed
     ELSE UNCHANGED <<view, reads>> /\ missed' = ~list.is
  /\ UNCHANGED <<file, input, frameErrors>>

scrollViewer ==
  /\ Viewing /\ input = "none"
  /\ \E d \in {-height, -1, 1, height} :
       IF view.mode = "hex"
       THEN scrollHex(view, view.hexOff \div HexRow + d, reads) /\ missed' = FALSE
       ELSE /\ view' = [view EXCEPT !.top =
                 AtMost(AtLeast(@ + d, 0), AtLeast(LineCount(view) - height, 0))]
            /\ UNCHANGED <<reads, missed>>
  /\ UNCHANGED <<height, input>> /\ Still

scrollViewerEnd ==
  /\ Viewing /\ input = "none"
  /\ \E end \in BOOLEAN :
       IF view.mode = "hex"
       THEN scrollHex(view, IF end THEN file.size ELSE 0, reads) /\ missed' = FALSE
       ELSE /\ view' = [view EXCEPT !.top = IF end THEN AtLeast(LineCount(view) - height, 0) ELSE 0]
            /\ UNCHANGED <<reads, missed>>
  /\ UNCHANGED <<height, input>> /\ Still

toggleHex ==
  /\ Viewing /\ input = "none"
  /\ \/ /\ view.mode = "text"
        /\ scrollHex([view EXCEPT !.mode = "hex"], lineOffset(view.top) \div HexRow, reads)
        /\ missed' = FALSE
     \/ /\ view.mode = "hex" /\ view.text
        /\ view' = [view EXCEPT !.mode = "text", !.top = AtMost(lineAt(view.hexOff), LastLine(view))]
        /\ UNCHANGED <<reads, missed>>
     \/ /\ view.mode = "hex" /\ ~view.text /\ file.class # "toolarge"
        /\ \E n \in 1..MaxTextLoads :
             /\ [kind |-> "text", n |-> n] \notin reads
             /\ reads' = reads \cup {[kind |-> "text", n |-> n]}
        /\ UNCHANGED <<view, missed>>
  /\ UNCHANGED <<height, input>> /\ Still

\* p: the hits are searched again in the lines now shown.
togglePretty ==
  /\ Viewing /\ input = "none"
  /\ view.text /\ file.pretty > 0
  /\ LET v == [view EXCEPT !.pretty = ~@] IN
     \E hits \in SUBSET (0..(LineCount(v) - 1)) :
       view' = [v EXCEPT !.top = AtMost(@, LastLine(v)), !.hits = IF v.search THEN hits ELSE {}]
  /\ UNCHANGED input /\ KeepsWindow

\* / and : open an input, esc and enter close it.
startInput ==
  /\ Viewing /\ input = "none"
  /\ input' = IF view.mode = "text" THEN "search" ELSE "goto"
  /\ UNCHANGED view /\ KeepsWindow

\* First hit in a direction from the top line, wrapping around.
nextHit(v, dir) ==
  LET ahead == {x \in v.hits : CASE dir > 0 -> x > v.top [] dir < 0 -> x < v.top [] OTHER -> x >= v.top}
      pool == IF ahead = {} THEN v.hits ELSE ahead
  IN IF v.hits = {} THEN v
     ELSE [v EXCEPT !.top = IF dir < 0 THEN Max(pool) ELSE Min(pool)]

onSearchKey ==
  /\ Viewing /\ KeepsWindow
  /\ \/ /\ input = "search"
        /\ \/ \E hits \in SUBSET (0..(LineCount(view) - 1)) :
                view' = [view EXCEPT !.search = TRUE, !.hits = hits] /\ UNCHANGED input
           \/ view' = [view EXCEPT !.search = FALSE, !.hits = {}] /\ input' = "none"
           \/ view' = nextHit(view, 0) /\ input' = "none"
     \/ /\ input = "none" /\ UNCHANGED input
        /\ \E dir \in {-1, 1} : view' = nextHit(view, dir)

\* A typed offset may lie past the end of the file.
gotoOffset ==
  /\ Viewing /\ input = "goto" /\ input' = "none"
  /\ \/ \E off \in 0..(file.size + HexRow) : scrollHex(view, off \div HexRow, reads) /\ missed' = FALSE
     \/ UNCHANGED <<view, reads, missed>>
  /\ UNCHANGED height /\ Still

-----------------------------------------------------------------------------

NewList(is) == [is |-> is, loaded |-> FALSE, visible |-> <<>>, cursor |-> 0, top |-> 0, filter |-> NoFilter]

\* ensureLoaded has just started the frame's first load.
FrameInit ==
  /\ height \in Heights
  /\ input = "none" /\ view = NoView /\ missed = FALSE
  /\ frameErrors = MaxWindowErrors
  /\ file \in Files
  /\ \/ list = NewList(TRUE) /\ reads = {} /\ file = CHOOSE f \in Files : TRUE
     \/ list = NewList(FALSE) /\ reads = {[kind |-> "file", len |-> hexWindowLen(height)]}

FrameMessages == onListRows \/ onFileLoaded \/ onTextLoaded \/ onWindowLoaded

FrameNext ==
  \/ FrameMessages \/ onTextFailed \/ onWindowFailed
  \/ onListMove \/ onListFilter
  \/ \E h \in Heights, onTop \in BOOLEAN : onResize(h, onTop)
  \/ scrollViewer \/ scrollViewerEnd \/ toggleHex \/ togglePretty
  \/ startInput \/ onSearchKey \/ gotoOffset

FrameSpec == FrameInit /\ [][FrameNext]_frameVars

-----------------------------------------------------------------------------
(* Properties *)

\* Scrolls, jumps, resizes and late window results in any order leave the hex
\* view with the bytes of the whole screen, or with their load on its way.  A
\* failed read and a resize the viewer did not see are made up for by the
\* next key that moves it, and only then.
HexShowsData ==
  (Viewing /\ view.mode = "hex" /\ ~missed /\ file.size > 0) =>
    \/ Covers(view, height)
    \/ view.winLoading /\ \E m \in reads : m.kind = "window"

\* Typing a filter never moves the cursor off its row while that row is still
\* listed, and after every step the cursor is one of the rows on screen.
CursorKeepsRow ==
  [][ list.is =>
      /\ list'.filter # list.filter /\ currentRow(list) # NoRow
           /\ currentRow(list) \in list'.filter.rows
         => currentRow(list') = currentRow(list)
      /\ list'.visible # <<>> =>
           /\ list'.top <= list'.cursor
           /\ list'.cursor < AtMost(list'.top + height', Len(list'.visible)) ]_frameVars

\* What a frame shows is its data, after every key, resize and late result.
FrameIsRight == []HexShowsData /\ CursorKeepsRow

=============================================================================
