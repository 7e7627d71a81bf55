---------------------------- MODULE RegistryReads ----------------------------
(***************************************************************************)
(* One request that reads: a blob (registry/blobs.go), a manifest          *)
(* (registry/manifests.go), or an entry of an image's root file system     *)
(* (registry/fs.go), with bodyWriter, parseRange and the chunk reader of   *)
(* store/read.go that serves ranges without fetching what lies before.     *)
(* The store may fail at any fetch, hold other bytes than were stored, and *)
(* the client may leave.  A body's bytes are numbers, an object is a chunk *)
(* of bytes or a node of objects, and a header is its name.                *)
(***************************************************************************)
EXTENDS Integers, Sequences, SequencesExt, FiniteSetsExt

CONSTANTS Contents,       \* [good, tree, objects]: the bytes stored, and the objects that hold them now
          Ranges,         \* Range headers [first, last], -1 for a part that is empty
          Children        \* manifests of the index: [platform, kind]

\* An object's key gives its length; at is where its bytes belong in the whole.
ContentAssumption ==
  \A c \in Contents :
    /\ c.good \in Seq(Nat) /\ c.tree \in c.objects
    /\ \A k \in c.objects : /\ k.node \in BOOLEAN /\ k.at \in Nat /\ k.length \in Nat
                            /\ k.bytes \in Seq(Nat) /\ k.kids \in Seq(c.objects)
RangeAssumption == Ranges \subseteq [first : Nat \cup {-1}, last : Nat \cup {-1}]
ASSUME ReadAssumption == ContentAssumption /\ RangeAssumption

VARIABLES
  req,       \* the request
  content,   \* a member of Contents: what it asks for
  resp,      \* what the handler did to its http.ResponseWriter
  body,      \* the copy under way: [at, skip, todo, err]
  reader,    \* store.Reader: [pending, cur]
  fetched,   \* objects Store.Get returned for it
  away       \* r.Context() is done

readVars == <<req, content, resp, body, reader, fetched, away>>

NoRange == [first |-> -1, last |-> -1]
Size == Len(content.good)

-----------------------------------------------------------------------------
(* store.Reader *)

\* pending joins the levels of Reader.stack, the deepest first: the keys left to visit.
NewReader(k) == [pending |-> <<k>>, cur |-> <<>>]

\* Mutant of PassedOver: a chunk that ends at the new position is not passed over.
PassedOverInclusive(k, n) == k.length < n

\* Skip: a chunk or a whole subtree that ends at or before the new position is not fetched.
PassedOver(k, n) == k.length <= n

\* next and descend: a node's children come before the keys that were behind it.
Entered(pending, k) == k.kids \o Tail(pending)

-----------------------------------------------------------------------------
(* Answers that need no body from the store *)

NoResponse == [status |-> 0, headers |-> {}, promised |-> -1, started |-> FALSE,
               envelope |-> FALSE, out |-> <<>>, end |-> "open"]
NoBody == [at |-> "none", skip |-> 0, todo |-> 0, err |-> "none"]

\* writeError, writeEmptyErrors and writeJSON set their own type and length.
Envelope(status, headers) ==
  [status |-> status, headers |-> headers, promised |-> -1, started |-> TRUE,
   envelope |-> TRUE, out |-> <<>>, end |-> "done"]

\* WriteHeader without a body: HEAD, 304, 416.
HeadersOnly(status, headers) ==
  [status |-> status, headers |-> headers, promised |-> -1, started |-> TRUE,
   envelope |-> FALSE, out |-> <<>>, end |-> "done"]

\* A body of n bytes is to follow; bodyWriter sends the status with the first one.
Promise(status, headers, n) ==
  [status |-> status, headers |-> headers, promised |-> n, started |-> FALSE,
   envelope |-> FALSE, out |-> <<>>, end |-> "open"]

\* Absent, malformed, several ranges: "full"; beyond the body: "unsatisfiable".
parseRange(r, size) ==
  CASE r.first = -1 /\ r.last = -1 -> [kind |-> "full"]
    [] r.first = -1 /\ r.last >= 0 ->
         IF r.last = 0 \/ size = 0 THEN [kind |-> "unsatisfiable"]
         ELSE [kind |-> "range", start |-> size - Min({r.last, size}), end |-> size - 1]
    [] r.first >= 0 /\ r.last # -1 /\ r.last < r.first -> [kind |-> "full"]
    [] r.first >= 0 /\ (r.last = -1 \/ r.last >= r.first) ->
         IF r.first >= size THEN [kind |-> "unsatisfiable"]
         ELSE [kind |-> "range", start |-> r.first,
               end |-> IF r.last = -1 THEN size - 1 ELSE Min({r.last, size - 1})]

\* serveBlob and serveFile from parseRange on; own are the headers set by then and
\* left the ones a 416 keeps.
Ranged(own, left) ==
  LET br == parseRange(req.range, Size)
  IN  CASE br.kind = "unsatisfiable" ->
             resp' = HeadersOnly(416, left \cup {"content-range"}) /\ body' = NoBody
        [] br.kind = "full" ->
             resp' = Promise(200, own, Size) /\ body' = [NoBody EXCEPT !.at = "copy", !.todo = Size]
        [] br.kind = "range" ->
             /\ resp' = Promise(206, own \cup {"content-range"}, br.end - br.start + 1)
             /\ body' = [NoBody EXCEPT !.at = "skip", !.skip = br.start, !.todo = br.end - br.start + 1]

Answer(r) == resp' = r /\ body' = NoBody
Stream(r) == resp' = r /\ body' = [NoBody EXCEPT !.at = "copy", !.todo = Size]

Waiting == resp.status = 0 /\ body.at = "none" /\ resp.end = "open"
Rest == UNCHANGED <<req, content, reader, fetched, away>>

\* A blob is raw, a prism, or unknown.
serveBlob ==
  LET own == {"type", "digest", "length"} \cup IF req.of = "raw" THEN {"accept-ranges"} ELSE {}
  IN  /\ req.route = "blob" /\ Waiting /\ Rest
      /\ CASE req.of = "absent" -> Answer(Envelope(404, {}))
           [] req.of # "absent" /\ req.method = "HEAD" -> Answer(HeadersOnly(200, own))
           [] req.of = "raw" /\ req.method = "GET" -> Ranged(own, {"accept-ranges", "length"})
           [] req.of = "prism" /\ req.method = "GET" -> Stream(Promise(200, own, Size))

serveManifest ==
  LET own == {"type", "digest", "length"}
  IN  /\ req.route = "manifest" /\ Waiting /\ Rest
      /\ CASE req.of = "absent" -> Answer(Envelope(404, {}))
           [] req.of # "absent" /\ req.method = "HEAD" -> Answer(HeadersOnly(200, own))
           [] req.of # "absent" /\ req.method = "GET" -> Stream(Promise(200, own, Size))

-----------------------------------------------------------------------------
(* /fs/: the image, the path, the entry *)

\* The child of an index that the platform names: the first match decides.
openRootfsImage ==
  LET matches == SelectSeq(Children, LAMBDA c : c.platform = req.platform)
  IN  CASE req.of = "absent" -> "404"
        [] req.of \in {"image", "bare"} -> req.of
        [] req.of = "index" ->
             IF req.platform = "" \/ matches = <<>> \/ Head(matches).kind \in {"absent", "index"} THEN "unknown platform"
             ELSE Head(matches).kind

serveFile ==
  IF req.match THEN Answer(HeadersOnly(304, {"etag"}))
  ELSE IF req.method = "HEAD" THEN Answer(HeadersOnly(200, {"etag", "type", "length", "accept-ranges"}))
  ELSE Ranged({"etag", "type", "length", "accept-ranges"}, {"length"})

serveTar ==
  IF req.method = "HEAD" THEN Answer(HeadersOnly(200, {"type"}))
  ELSE Stream(Promise(200, {"type"}, -1))

handleFS ==
  /\ req.route = "fs" /\ Waiting /\ Rest
  /\ CASE openRootfsImage # "image" -> Answer(Envelope(404, {}))
       [] openRootfsImage = "image" ->
            CASE req.entry \notin {"missing", "loop"} /\ req.format = "other" -> Answer(Envelope(400, {}))
              [] req.entry = "missing" -> Answer(Envelope(404, {}))
              [] req.entry = "loop" -> Answer(Envelope(400, {}))
              [] req.entry = "dir" /\ req.format = "tar" -> serveTar
              [] req.entry = "file" /\ req.format = "tar" -> Answer(Envelope(400, {}))
              [] req.entry = "file" /\ req.format = "" -> serveFile

-----------------------------------------------------------------------------
(* The body *)

\* A range and a file copy no more than they have left (io.CopyN); the others copy every
\* chunk, and a ResponseWriter takes no byte beyond the Content-Length.
Limited == resp.status = 206 \/ (req.route = "fs" /\ resp.promised # -1)

\* A store.Reader compares a chunk's size with its key's; what fstree.WriteContent and
\* tarexport.Write compare is not in this repository.
Compares == Limited \/ req.route = "manifest"

\* WriteRange and copyFileRange, in Skip: the next key ends before the start.
PassOver ==
  /\ body.at = "skip" /\ body.skip > 0 /\ reader.pending # <<>>
  /\ PassedOver(Head(reader.pending), body.skip)
  /\ reader' = [reader EXCEPT !.pending = Tail(@)]
  /\ body' = [body EXCEPT !.skip = @ - Head(reader.pending).length]
  /\ UNCHANGED <<req, content, resp, fetched, away>>

\* Skip needs the key that holds the start; fill the next one, until a chunk has content.
FetchDue ==
  /\ reader.pending # <<>>
  /\ \/ body.at = "skip" /\ body.skip > 0 /\ ~PassedOver(Head(reader.pending), body.skip)
     \/ body.at = "copy" /\ (body.todo > 0 \/ ~Limited) /\ reader.cur = <<>>

FetchNode ==
  LET k == Head(reader.pending)
  IN  /\ FetchDue /\ k.node
      /\ fetched' = fetched \cup {k}
      /\ reader' = [reader EXCEPT !.pending = Entered(@, k)]
      /\ UNCHANGED <<req, content, resp, body, away>>

\* In Skip what lies before the start is cut off.
FetchChunk ==
  LET k == Head(reader.pending)
  IN  /\ FetchDue /\ ~k.node /\ (Compares => Len(k.bytes) = k.length)
      /\ fetched' = fetched \cup {k}
      /\ reader' = [pending |-> Tail(reader.pending), cur |-> SubSeq(k.bytes, body.skip + 1, Len(k.bytes))]
      /\ body' = [body EXCEPT !.skip = 0]
      /\ UNCHANGED <<req, content, resp, away>>

FetchMisfit ==
  LET k == Head(reader.pending)
  IN  /\ FetchDue /\ ~k.node /\ Compares /\ Len(k.bytes) # k.length
      /\ fetched' = fetched \cup {k}
      /\ body' = [body EXCEPT !.at = "ended", !.err = "other"]
      /\ UNCHANGED <<req, content, resp, reader, away>>

\* Store.Get fails: with an error of its own, or with one that wraps io.ErrUnexpectedEOF.
GetFails(class) ==
  /\ FetchDue
  /\ body' = [body EXCEPT !.at = "ended", !.err = class]
  /\ UNCHANGED <<req, content, resp, reader, fetched, away>>

\* Past the end is no error: the next Read reports io.EOF.
SkipEnds ==
  /\ body.at = "skip" /\ (body.skip = 0 \/ reader.pending = <<>>)
  /\ body' = [body EXCEPT !.at = "copy", !.skip = 0]
  /\ UNCHANGED <<req, content, resp, reader, fetched, away>>

\* A Read returns a part of the chunk, as much as its caller's buffer and limit take.
CopyPiece ==
  \E n \in 1 .. Len(reader.cur) :
    LET fits == resp.promised = -1 \/ Len(resp.out) + n <= resp.promised
    IN  /\ body.at = "copy" /\ (~away \/ req.route = "fs") /\ (Limited => n <= body.todo)
        /\ reader' = [reader EXCEPT !.cur = SubSeq(@, n + 1, Len(@))]
        /\ resp' = [resp EXCEPT !.started = TRUE, !.out = IF fits THEN @ \o SubSeq(reader.cur, 1, n) ELSE @]
        /\ body' = IF fits THEN [body EXCEPT !.todo = @ - n]
                   ELSE [body EXCEPT !.at = "ended", !.err = "other"]
        /\ UNCHANGED <<req, content, fetched, away>>

\* A write fails, or the context is seen to be done, once the client has left.
WriteFails ==
  /\ body.at = "copy" /\ away
  /\ body' = [body EXCEPT !.at = "ended", !.err = "gone"]
  /\ UNCHANGED <<req, content, resp, reader, fetched, away>>

\* The copy is over: WriteTo compares the digest, io.CopyN the count; a tar just ends.
CopyEnds ==
  LET exhausted == reader.cur = <<>> /\ reader.pending = <<>>
      right == IF Limited THEN body.todo = 0 ELSE req.route = "fs" \/ resp.out = content.good
  IN  /\ body.at = "copy" /\ (exhausted \/ (Limited /\ body.todo = 0))
      /\ body' = [body EXCEPT !.at = "ended", !.err = IF right THEN "none" ELSE "other"]
      /\ UNCHANGED <<req, content, resp, reader, fetched, away>>

isClientGone == away \/ body.err \in {"gone", "eof"}

\* The headers each handler takes back before it answers with an envelope.
TakenBack ==
  CASE req.route = "blob" -> {"length", "content-range", "digest", "accept-ranges"}
    [] req.route = "manifest" -> {"type", "length", "digest"}
    [] req.route = "fs" /\ resp.promised # -1 -> {"length", "content-range", "etag", "accept-ranges"}
    [] req.route = "fs" /\ resp.promised = -1 -> {"type"}

\* Mutant of Settle: a failure after the first byte returns instead of aborting.
SettleQuietly ==
  /\ body.at = "ended"
  /\ body' = [body EXCEPT !.at = "none"]
  /\ resp' = IF body.err = "none" \/ resp.started THEN [resp EXCEPT !.started = TRUE, !.end = "done"]
             ELSE Envelope(500, resp.headers \ TakenBack)
  /\ UNCHANGED <<req, content, reader, fetched, away>>

\* bw.finish; for a client judged gone the handler just returns, which net/http takes for
\* a 200 if nothing was sent; an envelope while nothing is sent; otherwise
\* panic(http.ErrAbortHandler).
Settle ==
  /\ body.at = "ended"
  /\ body' = [body EXCEPT !.at = "none"]
  /\ resp' = IF body.err = "none" THEN [resp EXCEPT !.started = TRUE, !.end = "done"]
             ELSE IF isClientGone THEN [resp EXCEPT !.status = IF resp.started THEN @ ELSE 200, !.end = "done"]
             ELSE IF ~resp.started THEN Envelope(500, resp.headers \ TakenBack)
             ELSE [resp EXCEPT !.end = "aborted"]
  /\ UNCHANGED <<req, content, reader, fetched, away>>

ClientLeaves ==
  /\ ~away /\ resp.end = "open" /\ body.at \in {"skip", "copy"}
  /\ away' = TRUE
  /\ UNCHANGED <<req, content, resp, body, reader, fetched>>

-----------------------------------------------------------------------------
Platforms == {Children[i].platform : i \in DOMAIN Children}
Offered(route) ==
  CASE route = "blob" -> {"raw", "prism", "absent"}
    [] route = "manifest" -> {"image", "absent"}
    [] route = "fs" -> {"image", "index", "bare", "absent"}

\* The conditions leave out what a handler does not look at, and the listing of a
\* directory (see RegistryPages).
Requests ==
  {q \in [route : {"blob", "manifest", "fs"}, method : {"GET", "HEAD"},
          of : {"raw", "prism", "image", "index", "bare", "absent"}, range : {NoRange} \cup Ranges,
          platform : {""} \cup Platforms, entry : {"file", "dir", "missing", "loop"},
          format : {"", "tar", "other"}, match : BOOLEAN] :
     LET ofImage == q.route = "fs" /\ q.of = "image"
     IN  /\ q.of \in Offered(q.route)
         /\ q.entry # "file" \/ q.format # "" \/ q.match => ofImage
         /\ q.entry = "dir" => q.format = "tar" /\ ~q.match
         /\ q.range # NoRange => q.route = "blob" \/ (ofImage /\ q.entry # "dir")
         /\ q.platform # "" => q.route = "fs" /\ ~ofImage}

NoRequest == [route |-> "none", method |-> "GET", of |-> "absent", range |-> NoRange,
              platform |-> "", entry |-> "file", format |-> "", match |-> FALSE]

ReadInit ==
  /\ req \in Requests
  /\ content \in Contents
  /\ resp = NoResponse /\ body = NoBody
  /\ reader = NewReader(content.tree) /\ fetched = {} /\ away = FALSE

ReadNext ==
  \/ serveBlob \/ serveManifest \/ handleFS
  \/ PassOver \/ FetchNode \/ FetchChunk \/ FetchMisfit \/ SkipEnds
  \/ CopyPiece \/ CopyEnds \/ WriteFails \/ Settle \/ ClientLeaves
  \/ \E class \in {"other", "eof"} : GetFails(class)

ReadSpec == ReadInit /\ [][ReadNext]_readVars

-----------------------------------------------------------------------------
(* Properties *)

\* net/http closes the connection under a handler that returned before it wrote the
\* Content-Length, so only this response looks complete to its client.
Complete == resp.end = "done" /\ ~away /\ (resp.promised = -1 \/ Len(resp.out) = resp.promised)

\* Objects one behind the other, from a to b; bytes that are the stored ones from a on.
Adjoin(ks, a, b) ==
  IF ks = <<>> THEN a = b
  ELSE /\ ks[1].at = a /\ ks[Len(ks)].at + ks[Len(ks)].length = b
       /\ \A i \in 1 .. Len(ks) - 1 : ks[i + 1].at = ks[i].at + ks[i].length
Holds(good, s, a) == a + Len(s) <= Len(good) /\ \A i \in 1 .. Len(s) : s[i] = good[a + i]

\* The objects are those the file was stored as: each where it belongs, a node's children
\* filling it one behind the other, a chunk's bytes the ones stored.
StoredAs(c) ==
  /\ c.tree.at = 0 /\ c.tree.length = Len(c.good)
  /\ \A k \in c.objects :
       IF k.node THEN Adjoin(k.kids, k.at, k.at + k.length)
       ELSE Len(k.bytes) = k.length /\ Holds(c.good, k.bytes, k.at)
Intact == StoredAs(content)

\* A body the client takes for the whole of what it asked for.
TakenForWhole == Complete /\ resp.status = 200 /\ req.method = "GET" /\ ~resp.envelope

\* An error carries no header of the content it replaces.
ErrorIsPlain ==
  (Complete /\ resp.envelope) =>
    resp.headers \cap {"digest", "etag", "content-range", "accept-ranges"} = {}

\* A blob and a manifest are compared with their digest on their way out (WriteTo), so
\* what is taken for the whole is what was stored although the store now holds other
\* bytes - unless a failure of the store wraps io.ErrUnexpectedEOF: isClientGone takes that
\* for the client's, nobody compares the digest any more, and only objects that are still
\* the stored ones answer for a body of the promised length.
DigestedIsRight ==
  (TakenForWhole /\ req.route \in {"blob", "manifest"} /\ (Intact \/ body.err # "eof")) =>
    resp.out = content.good

\* Nothing compares a file or a directory's tar of /fs/ with what was stored.  While the
\* objects are the stored ones a file is whole, by its length, whatever fails; a tar has no
\* length, and one cut short by such a failure looks whole.  Objects of the right length
\* and other bytes are served as they are, and nothing is claimed of them.
EntryIsRight ==
  (TakenForWhole /\ req.route = "fs" /\ Intact /\ (resp.promised # -1 \/ body.err # "eof")) =>
    resp.out = content.good

\* A response that looks complete is right, within these limits (serveBlob, serveManifest,
\* serveFile, serveTar, bodyWriter): the store may fail at any fetch, before and after the
\* first byte, and the client may leave.
ResponseIsHonest == ErrorIsPlain /\ DigestedIsRight /\ EntryIsRight

\* A range is exact (parseRange, WriteRange, Reader.Skip): a complete 206 carries the bytes
\* its Content-Range names, and of the objects of the file only those were fetched that
\* hold a byte of the range, which is what makes a range of a large layer cheap.
RangeIsExact ==
  LET want == parseRange(req.range, Size)
  IN  (resp.status = 206 /\ Intact) =>
        /\ Complete => resp.out = SubSeq(content.good, want.start + 1, want.end + 1)
        /\ \A k \in fetched : k.length > 0 => k.at <= want.end /\ want.start < k.at + k.length
=============================================================================
