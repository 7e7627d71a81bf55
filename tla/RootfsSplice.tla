---------------------------- MODULE RootfsSplice ----------------------------
\* How rootfs/layer.go finds each file's content without reading it.  A prism
\* keeps an archive as a recipe (headers and padding) and one blob per region
\* cut out of it.  The splice presents recipe and regions to archive/tar as the
\* original archive; after each header, the region at the current position is
\* taken for the entry's content.  A wrong match is a file with another file's
\* bytes.
\*
\* Bytes are units: a header takes Block of them and content is padded to a
\* multiple of Block.  What is served is a token that says where it came from.
EXTENDS Sequences, SequencesExt, FiniteSets, FiniteSetsExt, Integers

CONSTANTS
  Archives,  \* archives: sequences of [flag, size, cut, map]: what archive/tar takes
             \* the header for ("content" follows it, it is a "global" header, or
             \* "only"), the payload the archive holds, whether tar-prism cut it,
             \* and how much of it archive/tar reads before it hands out the header
             \* (a sparse file's map, a global header's records)
  Block      \* the tar block size

VARIABLES
  archive,   \* what tar-prism stored: entries, recipe, index; splice.starts
  sp,        \* the splice
  tr,        \* archive/tar's Reader
  found      \* parseLayer's entries: header and the region taken for it

spliceVars == <<archive, sp, tr, found>>

Zero == [what |-> "zero", of |-> 0, part |-> 0]
Tokens(what, of, n) == [k \in 1..n |-> [what |-> what, of |-> of, part |-> k]]
Zeros(n) == [k \in 1..n |-> Zero]
PadOf(size) == (Block - (size % Block)) % Block

----------------------------------------------------------------------------
\* tar-prism: the recipe of an archive, and where its regions were cut out.

RecipeOf(entries) ==
  FoldLeftDomain(LAMBDA acc, i :
      acc \o Tokens("hdr", i, Block)
          \o (IF entries[i].cut THEN <<>> ELSE Tokens("data", i, entries[i].size))
          \o Zeros(PadOf(entries[i].size)),
    <<>>, entries) \o Zeros(Block)

\* Entries of the index: the recipe offset, the size and the entry cut.  The
\* end block of the archive before entry i stands for i's header.
IndexOf(entries) ==
  FoldLeftDomain(LAMBDA acc, i :
      IF entries[i].cut
      THEN Append(acc, [of |-> i, size |-> entries[i].size,
                        offset |-> Len(RecipeOf(SubSeq(entries, 1, i - 1)))])
      ELSE acc,
    <<>>, entries)

----------------------------------------------------------------------------
\* The splice.

Regions == archive.index
Recipe == archive.recipe

\* newSplice: the virtual offset where each region starts.
newSplice(entries, index) ==
  [entries |-> entries, recipe |-> RecipeOf(entries), index |-> index,
   starts |-> [i \in DOMAIN index |->
     FoldFunctionOnSet(LAMBDA r, acc : acc + r.size, index[i].offset, index, 1..(i - 1))]]

starts(i) == archive.starts[i]
end(i) == starts(i) + Regions[i].size

\* inRegion: regions that end at or before pos are passed and their reader is
\* closed.
Pass(s) ==
  LET n == Min({i \in s.next..(Len(Regions) + 1) : i = Len(Regions) + 1 \/ s.pos < end(i)})
  IN IF n = s.next THEN s ELSE [s EXCEPT !.next = n, !.content = FALSE, !.zeros = FALSE]
Inside(s) == s.next <= Len(Regions) /\ s.pos >= starts(s.next)

\* Read of at most n units: the state the reader is left in before the units
\* are taken, how many there are, and the units.  The start of a region is real
\* content; the rest of one that was sought into is zeros.
Chunk(s0, n) ==
  LET s == Pass(s0)
      start == starts(s.next)
      open == s.content \/ (~s.zeros /\ s.pos = start)
      gap == IF s.next <= Len(Regions) THEN Min({n, start - s.pos}) ELSE n
      left == Len(Recipe) - s.rpos
  IN IF Inside(s)
     THEN [s |-> [s EXCEPT !.content = open], inside |-> TRUE,
           units |-> [k \in 1..Min({n, end(s.next) - s.pos}) |->
                        IF open THEN [what |-> "data", of |-> Regions[s.next].of,
                                      part |-> s.pos - start + k]
                        ELSE Zero]]
     ELSE [s |-> s, inside |-> FALSE,
           units |-> SubSeq(Recipe, s.rpos + 1, s.rpos + Min({gap, left}))]

Take(c, n) == [c.s EXCEPT !.pos = @ + n, !.rpos = IF c.inside THEN @ ELSE @ + n]

\* Seek: a region is passed over, recipe units are skipped.
RECURSIVE SeekTo(_, _)
SeekTo(s0, target) ==
  LET s == Pass(s0)
      n == IF s.next <= Len(Regions) THEN Min({target, starts(s.next)}) - s.pos
           ELSE target - s.pos
  IN IF s0.pos >= target THEN s0
     ELSE IF Inside(s)
     THEN SeekTo([s EXCEPT !.content = FALSE, !.zeros = TRUE,
                           !.pos = Min({target, end(s.next)})], target)
     ELSE SeekTo([s EXCEPT !.pos = @ + n, !.rpos = @ + n], target)

\* Mutant of regionAt: a region that ends at the current position is refused.
regionBefore(s) ==
  IF s.next > Len(Regions) \/ s.next = s.matched THEN 0
  ELSE IF s.pos < starts(s.next) \/ s.pos >= end(s.next) THEN 0 ELSE s.next

\* regionAt: the first region not yet passed, when it contains the current
\* position and was not handed out before; 0 for none.
regionAt(s) ==
  IF s.next > Len(Regions) \/ s.next = s.matched THEN 0
  ELSE IF s.pos < starts(s.next) \/ s.pos > end(s.next) THEN 0 ELSE s.next

----------------------------------------------------------------------------
\* archive/tar and parseLayer.

\* An index that lost one entry stands for the disagreements parseLayer guards
\* against.
SpliceInit ==
  /\ \E entries \in Archives :
       \/ archive = newSplice(entries, IndexOf(entries))
       \/ \E k \in DOMAIN IndexOf(entries) :
            archive = newSplice(entries, RemoveAt(IndexOf(entries), k))
  /\ sp = [pos |-> 0, next |-> 1, content |-> FALSE, zeros |-> FALSE, matched |-> 0, rpos |-> 0]
  /\ tr = [at |-> "header", need |-> Block, buf |-> <<>>, cur |-> 0]
  /\ found = <<>>

Reading == {"header", "map", "skip", "pad"}
Reach(at, need) == tr' = [tr EXCEPT !.at = at, !.need = need, !.buf = <<>>]

\* The payload archive/tar expects after header e.
Expected(e) == IF archive.entries[e].flag = "only" THEN 0 ELSE archive.entries[e].size
Unread(e) == IF archive.entries[e].flag = "only" THEN 0 ELSE Expected(e) - archive.entries[e].map

\* One Read of the splice, short or not.
ReadSome ==
  /\ tr.at \in Reading /\ tr.need > 0
  /\ LET c == Chunk(sp, tr.need) IN
       /\ Len(c.units) > 0
       /\ \E n \in 1..Len(c.units) :
            /\ sp' = Take(c, n)
            /\ tr' = [tr EXCEPT !.need = @ - n, !.buf = @ \o SubSeq(c.units, 1, n)]
  /\ UNCHANGED <<archive, found>>

\* The archive ends: between entries that is its end, inside one it is an error.
ReadEnds ==
  /\ tr.at \in Reading /\ tr.need > 0 /\ Chunk(sp, tr.need).units = <<>>
  /\ sp' = Chunk(sp, tr.need).s
  /\ Reach(IF tr.at = "pad" \/ (tr.at = "header" /\ tr.buf = <<>>) THEN "end" ELSE "layererror", 0)
  /\ UNCHANGED <<archive, found>>

\* A block of zeros ends the archive, anything but a header is refused, and a
\* PAX sparse map is read before the header is handed out.
HeaderRead ==
  /\ tr.at = "header" /\ tr.need = 0
  /\ LET e == tr.buf[1].of IN
       CASE tr.buf = Zeros(Block) -> Reach("end", 0)
         [] tr.buf # Zeros(Block) /\ tr.buf # Tokens("hdr", e, Block) -> Reach("layererror", 0)
         [] OTHER -> tr' = [at |-> "map", need |-> Expected(e) - Unread(e), buf |-> <<>>, cur |-> e]
  /\ UNCHANGED <<archive, sp, found>>

MapRead ==
  /\ tr.at = "map" /\ tr.need = 0
  /\ Reach(IF tr.buf = Tokens("data", tr.cur, Len(tr.buf)) THEN "deliver" ELSE "layererror", 0)
  /\ UNCHANGED <<archive, sp, found>>

\* The body of parseLayer's loop: a global header is passed over.
Deliver ==
  /\ tr.at = "deliver"
  /\ LET flag == archive.entries[tr.cur].flag
         i == IF flag = "content" THEN regionAt(sp) ELSE 0
     IN IF flag = "content" /\ i = 0
        THEN Reach("layererror", 0) /\ UNCHANGED <<sp, found>>
        ELSE /\ found' = IF flag = "global" THEN found
                         ELSE Append(found, [entry |-> tr.cur, region |-> i])
             /\ sp' = IF flag = "content" THEN [sp EXCEPT !.matched = i] ELSE sp
             /\ Reach("discard", Unread(tr.cur))
  /\ UNCHANGED archive

\* The context is looked at before a header is read.  The code does so at every
\* ctxCheckEvery-th; here it may at any.
Canceled ==
  /\ tr.at = "header" /\ tr.need = Block
  /\ Reach("canceled", 0) /\ UNCHANGED <<archive, sp, found>>

\* tar.Next skips what is left of the content: it seeks to one unit before its
\* end and reads that unit, then reads the padding.
Discard ==
  /\ tr.at = "discard"
  /\ sp' = IF tr.need > 1 THEN SeekTo(sp, sp.pos + tr.need - 1) ELSE sp
  /\ Reach("skip", Min({tr.need, 1}))
  /\ UNCHANGED <<archive, found>>

NextHeader ==
  /\ \/ tr.at = "skip" /\ tr.need = 0 /\ Reach("pad", PadOf(Expected(tr.cur)))
     \/ tr.at = "pad" /\ tr.need = 0 /\ Reach("header", Block)
  /\ UNCHANGED <<archive, sp, found>>

Consumed == Cardinality({k \in DOMAIN found : found[k].region # 0})

\* The end of the archive: every region was taken.
Finish ==
  /\ tr.at = "end"
  /\ Reach(IF Consumed = Len(Regions) THEN "done" ELSE "layererror", 0)
  /\ UNCHANGED <<archive, sp, found>>

\* A read of the recipe or of a blob fails: a storeError, which fails the push.
StoreFails ==
  /\ tr.at \in Reading /\ tr.need > 0
  /\ Reach("storeerror", 0) /\ UNCHANGED <<archive, sp, found>>

SpliceNext ==
  \/ ReadSome \/ ReadEnds \/ HeaderRead \/ MapRead \/ Deliver \/ Discard \/ NextHeader \/ Finish
  \/ StoreFails \/ Canceled

SpliceSpec == SpliceInit /\ [][SpliceNext]_spliceVars

----------------------------------------------------------------------------
\* Properties.

\* The archive tar-prism and archive/tar agree about.
Agreed ==
  /\ archive.index = IndexOf(archive.entries)
  /\ \A i \in DOMAIN archive.entries :
       LET e == archive.entries[i] IN e.cut = (e.flag = "content") /\ (e.flag = "only" => e.size = 0)

\* A layer that parses names every entry of the archive but the global headers
\* once, in order, and gives each file the region that was cut out after its own header; a layer
\* both readers of the archive agree about is never refused (parseLayer).
EachFileItsRegion ==
  /\ tr.at = "done" =>
       /\ [k \in DOMAIN found |-> found[k].entry] =
            SelectSeq([k \in DOMAIN archive.entries |-> k], LAMBDA k : archive.entries[k].flag # "global")
       /\ \A k \in DOMAIN found :
            archive.entries[found[k].entry].flag = "content" => Regions[found[k].region].of = found[k].entry
  /\ Agreed => tr.at # "layererror"
=============================================================================
