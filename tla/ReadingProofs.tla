---------------------------- MODULE ReadingProofs ----------------------------
(***************************************************************************)
(* What a reader is given: the pages of a list, a frame of the browser and *)
(* the body of a request, for lists, screens and contents of any size.     *)
(*                                                                         *)
(* Paging, while names are pushed and deleted: a page asked for after last *)
(* begins behind it, and ends where the next last is, so between requests  *)
(* the client has each name up to last that never went away: ReadUpTo.     *)
(* A page takes it from one last to the next: OneMorePage.                 *)
(*                                                                         *)
(* A frame of the browser, whatever keys, resizes and late results come:   *)
(* the hex view shows its data because every step that moves it ends with  *)
(* ensureWindow, and because a window that is being loaded has its read in *)
(* flight; the first window fits because a resize it has not seen is       *)
(* counted as missed.  A listing keeps its cursor on its row and on the    *)
(* screen: ApplyFilterFacts, MoveToFacts.                                  *)
(*                                                                         *)
(* A body, for any tree of objects: what was sent, the rest of the chunk   *)
(* in hand and the keys to visit lie one behind the other, from the first  *)
(* byte asked for to the end: Placed.  Nothing but the Content-Length and  *)
(* the digest protects a body whose objects changed, so the rest of the    *)
(* argument is about lengths: Promised, Outcome, FullLengthIsRight.        *)
(***************************************************************************)
EXTENDS RegistryPages, BrowserFrame, RegistryReads, OrderedProofs, SequenceTheorems

-----------------------------------------------------------------------------
(* Pages of a list *)

Increasing(s) == \A i, j \in DOMAIN s : i < j => s[i] < s[j]
Numbers == Nat \ {0}

(***************************************************************************)
(* The names in order: each once, rising.                                  *)
(***************************************************************************)
LEMMA SortedNames ==
  ASSUME NEW S \in SUBSET PageNames
  PROVE  /\ Sorted(S) \in Seq(Numbers) /\ Increasing(Sorted(S))
         /\ ToSet(Sorted(S)) = S
<1>1. IsFiniteSet(S)
  BY PageAssumption, FS_Subset
<1>a. S \subseteq Numbers
  BY PageAssumption DEF Numbers
<1>b. S \in SUBSET Int
  BY <1>a DEF Numbers
<1> DEFINE s == Sorted(S)
           n == Cardinality(S)
<1>2. /\ n \in Nat /\ s \in [1..n -> S]
      /\ \A x \in S : \E k \in 1..n : s[k] = x
      /\ \A i, j \in 1..n : i < j => s[i] < s[j]
  BY <1>1, <1>b, AscendingIsSorted DEF Sorted
<1> HIDE DEF s, n
<1>3. s = [k \in 1..n |-> s[k]] /\ DOMAIN s = 1..n /\ \A k \in 1..n : s[k] \in Numbers
  BY <1>a, <1>2
<1>4. s \in Seq(Numbers)
  BY <1>2, <1>3, SMT
<1>5. ToSet(s) = S
  BY <1>2, <1>3 DEF ToSet
<1> QED
  BY <1>2, <1>3, <1>4, <1>5 DEF Increasing, s

(***************************************************************************)
(* After returns the items after last, all of them, still rising.          *)
(***************************************************************************)
LEMMA AfterFacts ==
  ASSUME NEW items \in Seq(Numbers), Increasing(items), NEW last \in Nat
  PROVE  LET rest == After(items, last) IN
         /\ rest \in Seq(Numbers) /\ Increasing(rest)
         /\ \A i \in DOMAIN rest : rest[i] > last
         /\ \A i \in DOMAIN items : items[i] > last => \E k \in DOMAIN rest : rest[k] = items[i]
<1> DEFINE start == {i \in DOMAIN items : items[i] > last}
           rest == After(items, last)
           n == Len(items)
<1>1. n \in Nat /\ DOMAIN items = 1..n /\ \A i \in 1..n : items[i] \in Numbers
  BY LenProperties
<1>2. CASE start = {}
  <2>1. rest = <<>>
    BY <1>2 DEF After
  <2> QED
    BY <1>2, <2>1 DEF Increasing
<1>3. CASE start # {}
  <2> DEFINE m == Min(start)
  <2>1. start \subseteq Nat
    BY <1>1
  <2>2. \E x \in start : \A y \in start : x <= y
    BY <1>3, <2>1, MinNat
  <2>3. m \in start /\ \A y \in start : m <= y
    BY <2>2 DEF Min
  <2>4. rest = SubSeq(items, m, n)
    BY <1>3 DEF After
  <2>5. m \in 1..n /\ items[m] > last
    BY <1>1, <2>3
  <2>6. \A i \in 1..n : items[i] > last => m <= i
    BY <1>1, <2>3
  <2> HIDE DEF m, rest, start
  <2>7. /\ rest \in Seq(Numbers) /\ Len(rest) = n - m + 1
        /\ \A i \in 1..(n - m + 1) : rest[i] = items[m + i - 1]
    <3>1. \A i \in m..n : items[i] \in Numbers
      BY <1>1, <2>5
    <3> HIDE DEF n
    <3> QED
      BY <1>1, <2>4, <2>5, <3>1, SubSeqProperties
  <2>8. DOMAIN rest = 1..(n - m + 1)
    BY <2>7, LenProperties
  <2> HIDE DEF n
  <2>9. \A i, j \in 1..n : i < j => items[i] < items[j]
    BY <1>1 DEF Increasing
  <2>10. ASSUME NEW i \in 1..(n - m + 1)
         PROVE  m + i - 1 \in 1..n /\ rest[i] = items[m + i - 1] /\ rest[i] > last /\ rest[i] \in Numbers
    <3>1. m + i - 1 \in 1..n /\ rest[i] = items[m + i - 1] /\ m <= m + i - 1
      BY <1>1, <2>5, <2>7
    <3>2. items[m] \in Nat /\ items[m + i - 1] \in Nat
      BY <1>1, <2>5, <3>1 DEF Numbers
    <3>3. m = m + i - 1 \/ items[m] < items[m + i - 1]
      BY <2>5, <2>9, <3>1
    <3> QED
      BY <1>1, <2>5, <3>1, <3>2, <3>3
  <2>11. Increasing(rest)
    <3>1. ASSUME NEW i \in 1..(n - m + 1), NEW j \in 1..(n - m + 1), i < j
          PROVE  rest[i] < rest[j]
      <4>1. m + i - 1 < m + j - 1
        BY <1>1, <2>5, <3>1
      <4> QED
        BY <2>9, <2>10, <4>1
    <3> QED
      BY <2>8, <3>1 DEF Increasing
  <2>12. ASSUME NEW i \in 1..n, items[i] > last
         PROVE  \E k \in 1..(n - m + 1) : rest[k] = items[i]
    <3>1. m <= i
      BY <2>6, <2>12
    <3>2. i - m + 1 \in 1..(n - m + 1) /\ m + (i - m + 1) - 1 = i
      BY <1>1, <2>5, <3>1
    <3> QED
      BY <2>7, <3>2
  <2> QED
    BY <1>1, <2>7, <2>8, <2>10, <2>11, <2>12 DEF rest
<1> QED
  BY <1>2, <1>3

(***************************************************************************)
(* What a client has when it has read a list up to last: names in order,   *)
(* none after last, and each of the names in S up to it.                   *)
(***************************************************************************)
ReadUpTo(got, last, S) ==
  /\ got \in Seq(Numbers) /\ Increasing(got)
  /\ \A i \in DOMAIN got : got[i] <= last
  /\ \A x \in S : x <= last => x \in ToSet(got)

(***************************************************************************)
(* One more page: up to its last item when more follow, else to the end.   *)
(***************************************************************************)
LEMMA OneMorePage ==
  ASSUME NEW items \in Seq(Numbers), Increasing(items), NEW last \in Nat,
         NEW S \in SUBSET Numbers, S \subseteq ToSet(items),
         NEW got, ReadUpTo(got, last, S),
         NEW limit \in Nat \ {0}, NEW rest, rest = After(items, last), NEW page, page = FirstOf(rest, limit)
  PROVE  /\ limit < Len(rest) =>
              /\ page[limit] \in Numbers /\ Last(page) = page[limit]
              /\ ReadUpTo(got \o page, page[limit], S)
         /\ ~(limit < Len(rest)) => page = rest
         /\ got \o rest \in Seq(Numbers) /\ Increasing(got \o rest) /\ S \subseteq ToSet(got \o rest)
<1>1. /\ rest \in Seq(Numbers) /\ Increasing(rest)
      /\ \A i \in DOMAIN rest : rest[i] > last
      /\ \A i \in DOMAIN items : items[i] > last => \E k \in DOMAIN rest : rest[k] = items[i]
  BY AfterFacts
<1> DEFINE n == Len(rest)
           g == Len(got)
<1>2. n \in Nat /\ DOMAIN rest = 1..n /\ \A i \in 1..n : rest[i] \in Numbers
  BY <1>1, LenProperties
<1>3. /\ got \in Seq(Numbers) /\ g \in Nat /\ DOMAIN got = 1..g /\ \A i \in 1..g : got[i] \in Numbers
      /\ \A i \in 1..g : got[i] <= last
      /\ \A x \in S : x <= last => x \in ToSet(got)
      /\ Increasing(got)
  BY LenProperties DEF ReadUpTo
<1>4. \A x \in S : x > last => \E k \in 1..n : rest[k] = x
  BY <1>1, <1>2 DEF ToSet
<1> HIDE DEF n, g
<1>5. ASSUME NEW c \in 0..n, NEW p \in Seq(Numbers), Len(p) = c, \A i \in 1..c : p[i] = rest[i]
      PROVE  /\ got \o p \in Seq(Numbers) /\ Increasing(got \o p) /\ DOMAIN (got \o p) = 1..(g + c)
             /\ \A i \in 1..g : (got \o p)[i] = got[i]
             /\ \A i \in 1..c : g + i \in 1..(g + c) /\ (got \o p)[g + i] = rest[i]
             /\ \A i \in 1..(g + c) : i \in 1..g \/ (i - g \in 1..c /\ (got \o p)[i] = rest[i - g])
  <2>1. /\ got \o p \in Seq(Numbers) /\ Len(got \o p) = g + c
        /\ \A i \in 1..(g + c) : (got \o p)[i] = IF i <= g THEN got[i] ELSE p[i - g]
    BY <1>3, <1>5, ConcatProperties DEF g
  <2>2. DOMAIN (got \o p) = 1..(g + c)
    BY <2>1, LenProperties
  <2> DEFINE q == got \o p
  <2> HIDE DEF q
  <2>3. c \in Nat /\ \A i \in 1..c : i \in 1..n
    BY <1>2
  <2>4. \A i \in 1..g : i \in 1..(g + c) /\ q[i] = got[i]
    BY <1>3, <2>1, <2>3 DEF q
  <2>5. \A i \in 1..c : g + i \in 1..(g + c) /\ q[g + i] = rest[i]
    <3>1. ASSUME NEW i \in 1..c
          PROVE  g + i \in 1..(g + c) /\ q[g + i] = rest[i]
      <4>1. g + i \in 1..(g + c) /\ ~(g + i <= g) /\ (g + i) - g = i
        BY <1>3, <2>3
      <4> QED
        BY <1>5, <2>1, <4>1 DEF q
    <3> QED
      BY <3>1
  <2>6. \A i \in 1..(g + c) : i \in 1..g \/ (i - g \in 1..c /\ q[i] = rest[i - g])
    <3>1. ASSUME NEW i \in 1..(g + c), i \notin 1..g
          PROVE  i - g \in 1..c /\ q[i] = rest[i - g]
      <4>1. i - g \in 1..c /\ ~(i <= g)
        BY <1>3, <2>3, <3>1
      <4> QED
        BY <1>5, <2>1, <4>1 DEF q
    <3> QED
      BY <3>1
  <2>7. ASSUME NEW i \in 1..(g + c), NEW j \in 1..(g + c), i < j
        PROVE  q[i] < q[j]
    <3>1. CASE i \in 1..g /\ j \in 1..g
      BY <1>3, <2>4, <2>7, <3>1 DEF Increasing
    <3>2. CASE i \in 1..g /\ j \notin 1..g
      <4>1. j - g \in 1..n /\ q[j] = rest[j - g] /\ q[i] = got[i]
        BY <2>3, <2>4, <2>6, <3>2
      <4>2. rest[j - g] > last /\ rest[j - g] \in Nat /\ got[i] <= last /\ got[i] \in Nat
        BY <1>1, <1>2, <1>3, <3>2, <4>1 DEF Numbers
      <4> QED
        BY <4>1, <4>2
    <3>3. CASE i \notin 1..g
      <4>1. j \notin 1..g
        BY <1>3, <2>3, <2>7, <3>3
      <4>2. /\ i - g \in 1..n /\ q[i] = rest[i - g]
            /\ j - g \in 1..n /\ q[j] = rest[j - g]
        BY <2>3, <2>6, <3>3, <4>1
      <4>3. i - g < j - g
        BY <1>3, <2>3, <2>7
      <4> QED
        BY <1>1, <1>2, <4>2, <4>3 DEF Increasing
    <3> QED
      BY <3>1, <3>2, <3>3
  <2> QED
    BY <2>1, <2>2, <2>4, <2>5, <2>6, <2>7 DEF q, Increasing
<1>6. got \o rest \in Seq(Numbers) /\ Increasing(got \o rest) /\ S \subseteq ToSet(got \o rest)
  <2> DEFINE q == got \o rest
  <2>1. /\ q \in Seq(Numbers) /\ Increasing(q) /\ DOMAIN q = 1..(g + n)
        /\ \A i \in 1..g : q[i] = got[i]
        /\ \A i \in 1..n : g + i \in 1..(g + n) /\ q[g + i] = rest[i]
    <3>1. n \in 0..n /\ rest \in Seq(Numbers) /\ Len(rest) = n
      BY <1>1, <1>2 DEF n
    <3>2. \A i \in 1..n : rest[i] = rest[i]
      OBVIOUS
    <3> QED
      BY <1>5, <3>1, <3>2
  <2> HIDE DEF q
  <2>2. ASSUME NEW x \in S
        PROVE  \E i \in DOMAIN q : q[i] = x
    <3>1. x \in Nat
      BY DEF Numbers
    <3>2. CASE x <= last
      <4>1. PICK i \in 1..g : got[i] = x
        BY <1>3, <3>2 DEF ToSet
      <4>2. i \in 1..(g + n)
        BY <1>2, <1>3
      <4> QED
        BY <2>1, <4>1, <4>2
    <3>3. CASE x > last
      BY <1>4, <2>1, <3>3
    <3> QED
      BY <3>1, <3>2, <3>3
  <2> QED
    BY <2>1, <2>2 DEF ToSet, q
<1>7. ASSUME limit < n
      PROVE  /\ page[limit] \in Numbers /\ Last(page) = page[limit]
             /\ ReadUpTo(got \o page, page[limit], S)
  <2>1. page = SubSeq(rest, 1, limit)
    BY <1>7 DEF FirstOf, n
  <2>2. page \in Seq(Numbers) /\ Len(page) = limit /\ \A i \in 1..limit : page[i] = rest[i]
    <3>1. \A i \in 1..limit : rest[i] \in Numbers
      BY <1>2, <1>7
    <3>2. /\ SubSeq(rest, 1, limit) \in Seq(Numbers) /\ Len(SubSeq(rest, 1, limit)) = limit
          /\ \A i \in 1..(limit - 1 + 1) : SubSeq(rest, 1, limit)[i] = rest[1 + i - 1]
      BY <3>1, SubSeqProperties
    <3>3. limit - 1 + 1 = limit /\ \A i \in 1..limit : 1 + i - 1 = i
      OBVIOUS
    <3> QED
      BY <2>1, <3>2, <3>3
  <2>3. limit \in 1..limit /\ limit \in 1..n /\ limit \in 0..n /\ page[limit] = rest[limit] /\ page[limit] \in Numbers
    BY <1>2, <1>7, <2>2
  <2>4. Last(page) = page[limit]
    BY <2>2 DEF Last
  <2> DEFINE q == got \o page
  <2>5. /\ q \in Seq(Numbers) /\ Increasing(q) /\ DOMAIN q = 1..(g + limit)
        /\ \A i \in 1..g : q[i] = got[i]
        /\ \A i \in 1..limit : g + i \in 1..(g + limit) /\ q[g + i] = rest[i]
        /\ \A i \in 1..(g + limit) : i \in 1..g \/ (i - g \in 1..limit /\ q[i] = rest[i - g])
    BY <1>5, <2>2, <2>3
  <2> HIDE DEF q
  <2>6. rest[limit] > last /\ rest[limit] \in Nat
    BY <1>1, <1>2, <2>3 DEF Numbers
  <2>7. \A i \in 1..n : rest[i] \in Nat /\ (i <= limit => rest[i] <= rest[limit]) /\ (limit < i => rest[limit] < rest[i])
    <3>1. ASSUME NEW i \in 1..n
          PROVE  rest[i] \in Nat /\ (i <= limit => rest[i] <= rest[limit]) /\ (limit < i => rest[limit] < rest[i])
      <4>1. rest[i] \in Nat
        BY <1>2 DEF Numbers
      <4>2. i < limit => rest[i] < rest[limit]
        BY <1>1, <1>2, <2>3 DEF Increasing
      <4>3. limit < i => rest[limit] < rest[i]
        BY <1>1, <1>2, <2>3 DEF Increasing
      <4> QED
        BY <1>2, <2>6, <4>1, <4>2, <4>3
    <3> QED
      BY <3>1
  <2>8. ASSUME NEW i \in 1..(g + limit)
        PROVE  q[i] <= rest[limit]
    <3>1. CASE i \in 1..g
      <4>1. q[i] = got[i] /\ got[i] <= last /\ got[i] \in Nat
        BY <1>3, <2>5, <3>1 DEF Numbers
      <4> QED
        BY <2>6, <4>1
    <3>2. CASE i \notin 1..g
      <4>1. i - g \in 1..limit /\ q[i] = rest[i - g]
        BY <2>5, <3>2
      <4>2. i - g \in 1..n /\ i - g <= limit
        BY <1>2, <2>3, <4>1
      <4> QED
        BY <2>7, <4>1, <4>2
    <3> QED
      BY <3>1, <3>2
  <2>9. ASSUME NEW x \in S, x <= rest[limit]
        PROVE  \E i \in DOMAIN q : q[i] = x
    <3>1. x \in Nat
      BY DEF Numbers
    <3>2. CASE x <= last
      <4>1. PICK i \in 1..g : got[i] = x
        BY <1>3, <3>2 DEF ToSet
      <4>2. i \in 1..(g + limit)
        BY <1>3
      <4> QED
        BY <2>5, <4>1, <4>2
    <3>3. CASE x > last
      <4>1. PICK k \in 1..n : rest[k] = x
        BY <1>4, <3>3
      <4>2. k <= limit
        BY <1>2, <2>6, <2>7, <2>9, <4>1
      <4>3. k \in 1..limit
        BY <1>2, <4>2
      <4> QED
        BY <2>5, <4>1, <4>3
    <3> QED
      BY <3>1, <3>2, <3>3
  <2> QED
    BY <2>3, <2>4, <2>5, <2>8, <2>9 DEF ReadUpTo, ToSet, q
<1>8. ~(limit < n) => page = rest
  BY DEF FirstOf, n
<1> QED
  BY <1>6, <1>7, <1>8 DEF n

(***************************************************************************)
(* The inductive invariant of a client that pages: before every request,   *)
(* between the two scans of the catalog and inside ListDir, it has read    *)
(* the list up to last as far as what lasts is concerned; what the first   *)
(* scan saw has every repository that kept a tag, and a directory ListDir  *)
(* walks has every entry that stayed.                                      *)
(***************************************************************************)
Listings == [of : {"tags", "catalog", "entries"}, n : Int,
             at : {"request", "scanned", "known?", "pages", "done"},
             last : Nat, dir : Seq(Numbers), got : Seq(Numbers), answer : {"list", "unknown"}]

PageInv ==
  /\ names \in SUBSET PageNames /\ stable \subseteq names
  /\ manifests \in SUBSET PageNames /\ held \subseteq manifests
  /\ listing \in Listings
  /\ Increasing(listing.got)
  /\ listing.at # "done" => listing.answer = "list"
  /\ listing.at \in {"request", "scanned", "pages"} => ReadUpTo(listing.got, listing.last, Lasting)
  /\ listing.at \in {"scanned", "pages"} => Increasing(listing.dir) /\ stable \subseteq ToSet(listing.dir)
  /\ listing.at = "scanned" => listing.of = "catalog" /\ ToSet(listing.dir) \subseteq PageNames
  /\ listing.at \in {"pages", "known?"} => listing.of # "catalog"
  /\ listing.at = "known?" => stable = {}
  /\ listing.at = "done" =>
       /\ listing.n # 0 => Lasting \subseteq ToSet(listing.got)
       /\ stable \cup held # {} => listing.answer = "list"

\* Names are numbers, so they can be put in order.
LEMMA LastingAreNumbers ==
  ASSUME PageInv
  PROVE  /\ Lasting \in SUBSET Numbers /\ stable \in SUBSET Numbers
         /\ stable \subseteq ToSet(Sorted(names)) /\ ToSet(Sorted(names)) \subseteq PageNames
         /\ Sorted(names) \in Seq(Numbers) /\ Increasing(Sorted(names))
         /\ listing.of # "catalog" => Lasting = stable
<1>1. names \in SUBSET PageNames /\ stable \subseteq names /\ manifests \in SUBSET PageNames /\ held \subseteq manifests
  BY DEF PageInv
<1>2. ToSet(Sorted(names)) = names /\ Sorted(names) \in Seq(Numbers) /\ Increasing(Sorted(names))
  BY <1>1, SortedNames
<1>3. PageNames \subseteq Numbers
  BY PageAssumption DEF Numbers
<1>4. Lasting \subseteq stable \cup held /\ (listing.of # "catalog" => Lasting = stable)
  BY DEF Lasting
<1> QED
  BY <1>1, <1>2, <1>3, <1>4

\* A page the client appends keeps the invariant when it brings the client to next, or to the end.
LEMMA ServedKeepsInv ==
  ASSUME PageInv, listing.at \in {"request", "scanned"}, Reads,
         NEW page \in Seq(Numbers), NEW next \in Nat, Served(page, next),
         Increasing(listing.got \o page),
         next # 0 => ReadUpTo(listing.got \o page, next, Lasting),
         next = 0 /\ listing.n # 0 => Lasting \subseteq ToSet(listing.got \o page)
  PROVE  PageInv'
<1> DEFINE q == listing.got \o page
           a == IF next = 0 THEN "done" ELSE "request"
<1>1. listing \in Listings /\ listing.got \in Seq(Numbers) /\ listing.answer = "list"
  BY DEF PageInv, Listings
<1>2. q \in Seq(Numbers) /\ <<>> \in Seq(Numbers)
  BY <1>1, ConcatProperties, EmptySeq
<1>3. listing' = [listing EXCEPT !.got = q, !.last = next, !.dir = <<>>, !.at = a]
  BY DEF Served
<1>4. a \in {"request", "done"} /\ (a = "done" <=> next = 0)
  OBVIOUS
<1>5. names' = names /\ stable' = stable /\ manifests' = manifests /\ held' = held
  BY DEF Reads
<1> HIDE DEF q, a
<1>6. /\ listing' \in Listings
      /\ listing'.got = q /\ listing'.last = next /\ listing'.at = a
      /\ listing'.n = listing.n /\ listing'.answer = "list" /\ listing'.of = listing.of
  BY <1>1, <1>2, <1>3, <1>4 DEF Listings
<1>60. Lasting' = Lasting
  BY <1>5, <1>6 DEF Lasting
<1>7. a = "request" => ReadUpTo(q, next, Lasting)
  BY <1>4 DEF q
<1>8. a = "done" => (listing.n # 0 => Lasting \subseteq ToSet(q))
  BY <1>4 DEF q
<1>9. Increasing(q)
  BY DEF q
<1>10. names \in SUBSET PageNames /\ stable \subseteq names /\ manifests \in SUBSET PageNames /\ held \subseteq manifests
  BY DEF PageInv
<1>11. names' \in SUBSET PageNames /\ stable' \subseteq names' /\ manifests' \in SUBSET PageNames /\ held' \subseteq manifests'
  BY <1>5, <1>10
<1>12. Increasing(listing'.got)
  BY <1>6, <1>9
<1>13. listing'.at \in {"request", "scanned", "pages"} => ReadUpTo(listing'.got, listing'.last, Lasting')
  BY <1>4, <1>60, <1>6, <1>7
<1>14. listing'.at # "pages" /\ listing'.at # "known?" /\ listing'.at # "scanned"
  BY <1>4, <1>6
<1>15. listing'.at = "done" => /\ listing'.n # 0 => Lasting' \subseteq ToSet(listing'.got)
                               /\ stable' \cup held' # {} => listing'.answer = "list"
  BY <1>60, <1>6, <1>8
<1> QED
  BY <1>6, <1>11, <1>12, <1>13, <1>14, <1>15 DEF PageInv

\* What paginate gives the client of a sorted list.
LEMMA PaginateFacts ==
  ASSUME PageInv, listing.at \in {"request", "scanned"},
         NEW items \in Seq(Numbers), Increasing(items), Lasting \subseteq ToSet(items)
  PROVE  LET p == paginate(items, listing.n, listing.last) IN
         /\ p.page \in Seq(Numbers) /\ p.next \in Nat
         /\ Increasing(listing.got \o p.page)
         /\ p.next # 0 => ReadUpTo(listing.got \o p.page, p.next, Lasting)
         /\ p.next = 0 /\ listing.n # 0 => Lasting \subseteq ToSet(listing.got \o p.page)
<1> DEFINE n == listing.n
           last == listing.last
           got == listing.got
           rest == After(items, last)
           page == IF n >= 0 THEN FirstOf(rest, n) ELSE rest
           next == IF n > 0 /\ n < Len(rest) THEN page[n] ELSE 0
<1>1. /\ n \in Int /\ last \in Nat /\ got \in Seq(Numbers) /\ Increasing(got)
      /\ ReadUpTo(got, last, Lasting)
  BY DEF PageInv, Listings
<1>2. Lasting \in SUBSET Numbers
  BY LastingAreNumbers
<1>3. /\ paginate(items, n, last).page = page
      /\ paginate(items, n, last).next = next
  BY DEF paginate
<1> HIDE DEF n, last, got
<1>4. rest \in Seq(Numbers) /\ Len(rest) \in Nat
  BY <1>1, <1>2, AfterFacts, LenProperties
<1> HIDE DEF rest
<1>39. n \in Int
  BY <1>1
<1>40. PICK limit \in Nat \ {0} : n > 0 => limit = n
  <2>1. CASE n > 0
    <3>1. n \in Nat \ {0}
      BY <1>39, <2>1
    <3> QED
      BY <3>1, Zenon
  <2>2. CASE ~(n > 0)
    <3>1. 1 \in Nat \ {0}
      OBVIOUS
    <3> QED
      BY <2>2, <3>1, Zenon
  <2> QED
    BY <2>1, <2>2
<1>5. /\ limit < Len(rest) =>
           /\ FirstOf(rest, limit)[limit] \in Numbers
           /\ ReadUpTo(got \o FirstOf(rest, limit), FirstOf(rest, limit)[limit], Lasting)
      /\ ~(limit < Len(rest)) => FirstOf(rest, limit) = rest
      /\ got \o rest \in Seq(Numbers) /\ Increasing(got \o rest) /\ Lasting \subseteq ToSet(got \o rest)
  BY <1>1, <1>2, OneMorePage DEF rest
<1>6. CASE n > 0 /\ n < Len(rest)
  <2>1. page = FirstOf(rest, limit) /\ next = page[limit] /\ limit < Len(rest)
    BY <1>1, <1>40, <1>6
  <2>2. page = SubSeq(rest, 1, limit)
    BY <2>1 DEF FirstOf
  <2>3. \A i \in 1..limit : rest[i] \in Numbers
    BY <1>4, <2>1, LenProperties
  <2>4. page \in Seq(Numbers)
    BY <2>2, <2>3, SubSeqProperties
  <2> HIDE DEF page, next
  <2>5. next \in Numbers /\ ReadUpTo(got \o page, next, Lasting)
    BY <1>5, <2>1
  <2>6. next \in Nat /\ next # 0
    BY <2>5 DEF Numbers
  <2> QED
    BY <1>3, <2>4, <2>5, <2>6 DEF ReadUpTo, got, n, last
<1>7. CASE n < 0 \/ (n > 0 /\ ~(n < Len(rest)))
  <2>1. page = rest /\ next = 0
    BY <1>1, <1>40, <1>5, <1>7
  <2> HIDE DEF page, next
  <2> QED
    BY <1>3, <1>4, <1>5, <2>1 DEF got, n, last
<1>8. CASE n = 0
  <2>1. page = <<>>
    BY <1>4, <1>8, EmptySeq DEF FirstOf
  <2>2. next = 0
    BY <1>8
  <2>3. got \o <<>> = got
    BY <1>1, ConcatEmptySeq
  <2> HIDE DEF page, next
  <2>4. page \in Seq(Numbers)
    BY <2>1, EmptySeq
  <2> QED
    BY <1>1, <1>3, <1>8, <2>1, <2>2, <2>3, <2>4 DEF got, n, last
<1> QED
  BY <1>1, <1>6, <1>7, <1>8

\* Before the first request the client has nothing and misses nothing.
LEMMA PageInvInit ==
  ASSUME PageInit
  PROVE  PageInv
<1>10. PICK o \in {"tags", "catalog", "entries"}, k \in PageSizes :
        /\ listing = [NoListing EXCEPT !.of = o, !.n = k, !.at = "request"]
        /\ o = "entries" => manifests = {}
  BY Zenon DEF PageInit
<1>2. k \in Int /\ <<>> \in Seq(Numbers)
  BY PageAssumption, EmptySeq
<1>3. listing = [of |-> o, n |-> k, at |-> "request", last |-> 0, dir |-> <<>>, got |-> <<>>, answer |-> "list"]
  BY <1>10 DEF NoListing
<1>4. listing \in Listings
  BY <1>2, <1>3 DEF Listings
<1>5. listing.at = "request" /\ listing.got = <<>> /\ listing.last = 0 /\ listing.answer = "list"
  BY <1>3
<1>6. names \in SUBSET PageNames /\ stable = names /\ manifests \in SUBSET PageNames /\ held = manifests
  BY DEF PageInit
<1>7. DOMAIN <<>> = {}
  OBVIOUS
<1>70. Increasing(<<>>) /\ \A i \in DOMAIN <<>> : <<>>[i] <= 0
  BY <1>7, Zenon DEF Increasing
<1>8. \A x \in Lasting : ~(x <= 0)
  BY <1>6, PageAssumption DEF Lasting
<1>9. ReadUpTo(<<>>, 0, Lasting)
  BY <1>2, <1>70, <1>8 DEF ReadUpTo
<1> QED
  BY <1>4, <1>5, <1>6, <1>70, <1>9 DEF PageInv

\* What the client has read of the names that stay is not lost when one of them goes.
LEMMA ReadOfFewer ==
  ASSUME NEW got, NEW last, NEW S, NEW T \in SUBSET S, ReadUpTo(got, last, S)
  PROVE  ReadUpTo(got, last, T)
BY DEF ReadUpTo

\* handleTags hands a page of the sorted tags to the client.
LEMMA TagsKeepInv ==
  ASSUME PageInv, handleTags
  PROVE  PageInv'
<1>1. listing.at = "request" /\ listing.of = "tags" /\ Reads
  BY DEF handleTags, Asking
<1>2. CASE names = {}
  <2>1. listing' = [listing EXCEPT !.at = "known?"]
    BY <1>2 DEF handleTags
  <2>2. /\ listing' \in Listings /\ listing'.at = "known?" /\ listing'.got = listing.got
        /\ listing'.of = "tags" /\ listing'.answer = "list"
    BY <1>1, <2>1 DEF PageInv, Listings
  <2>3. names' = {} /\ stable' = {} /\ manifests' \in SUBSET PageNames /\ held' \subseteq manifests'
    BY <1>1, <1>2 DEF Reads, PageInv
  <2> QED
    BY <2>2, <2>3 DEF PageInv
<1>3. CASE names # {}
  <2> DEFINE items == Sorted(names)
             p == paginate(items, listing.n, listing.last)
  <2>1. Served(p.page, p.next)
    BY <1>3 DEF handleTags
  <2>2. items \in Seq(Numbers) /\ Increasing(items) /\ Lasting \subseteq ToSet(items)
    BY <1>1, LastingAreNumbers
  <2> HIDE DEF items
  <2>3. /\ p.page \in Seq(Numbers) /\ p.next \in Nat
        /\ Increasing(listing.got \o p.page)
        /\ p.next # 0 => ReadUpTo(listing.got \o p.page, p.next, Lasting)
        /\ p.next = 0 /\ listing.n # 0 => Lasting \subseteq ToSet(listing.got \o p.page)
    BY <1>1, <2>2, PaginateFacts
  <2> HIDE DEF p
  <2> QED
    BY <1>1, <2>1, <2>3, ServedKeepsInv
<1> QED
  BY <1>2, <1>3

\* The first scan of the catalog sees every repository that has kept a tag.
LEMMA TagScanKeepsInv ==
  ASSUME PageInv, RepositoriesOfTags
  PROVE  PageInv'
<1>1. listing.at = "request" /\ listing.of = "catalog" /\ Reads
  BY DEF RepositoriesOfTags, Asking
<1>2. listing \in Listings /\ ReadUpTo(listing.got, listing.last, Lasting) /\ listing.answer = "list"
      /\ Increasing(listing.got)
  BY <1>1 DEF PageInv
<1> DEFINE s == Sorted(names)
<1>3. s \in Seq(Numbers) /\ Increasing(s) /\ stable \subseteq ToSet(s) /\ ToSet(s) \subseteq PageNames
  BY LastingAreNumbers
<1>4. listing' = [listing EXCEPT !.at = "scanned", !.dir = s]
  BY DEF RepositoriesOfTags
<1> HIDE DEF s
<1>5. /\ listing' \in Listings /\ listing'.at = "scanned" /\ listing'.dir = s /\ listing'.got = listing.got
      /\ listing'.last = listing.last /\ listing'.answer = "list" /\ listing'.of = "catalog"
  BY <1>1, <1>2, <1>3, <1>4 DEF Listings
<1>6. /\ names' = names /\ stable' = stable /\ manifests' = manifests /\ held' = held
      /\ names \in SUBSET PageNames /\ stable \subseteq names
      /\ manifests \in SUBSET PageNames /\ held \subseteq manifests
  BY <1>1 DEF Reads, PageInv
<1>7. Lasting' = Lasting
  BY <1>1, <1>5, <1>6 DEF Lasting
<1> QED
  BY <1>2, <1>3, <1>5, <1>6, <1>7 DEF PageInv

\* The second adds those that have kept a manifest, and the catalog pages through both.
LEMMA CatalogKeepsInv ==
  ASSUME PageInv, handleCatalog
  PROVE  PageInv'
<1>1. listing.at = "scanned" /\ Reads
  BY DEF handleCatalog
<1> DEFINE both == ToSet(listing.dir) \cup manifests
           items == Sorted(both)
           p == paginate(items, listing.n, listing.last)
<1>2. Served(p.page, p.next)
  BY DEF handleCatalog
<1>3. /\ listing.of = "catalog" /\ both \in SUBSET PageNames
      /\ stable \subseteq ToSet(listing.dir) /\ held \subseteq manifests
  BY <1>1 DEF PageInv
<1>4. items \in Seq(Numbers) /\ Increasing(items) /\ ToSet(items) = both
  BY <1>3, SortedNames
<1>5. Lasting \subseteq both
  BY <1>3 DEF Lasting
<1> HIDE DEF items, both
<1>6. /\ p.page \in Seq(Numbers) /\ p.next \in Nat
      /\ Increasing(listing.got \o p.page)
      /\ p.next # 0 => ReadUpTo(listing.got \o p.page, p.next, Lasting)
      /\ p.next = 0 /\ listing.n # 0 => Lasting \subseteq ToSet(listing.got \o p.page)
  BY <1>1, <1>4, <1>5, PaginateFacts
<1> HIDE DEF p
<1> QED
  BY <1>1, <1>2, <1>6, ServedKeepsInv

\* repoHasManifests looks, and takes nothing from the client.
LEMMA KnownKeepsInv ==
  ASSUME PageInv, repoHasManifests
  PROVE  PageInv'
<1>1. /\ listing.at = "known?" /\ Reads
      /\ listing' = [listing EXCEPT !.at = "done", !.answer = IF manifests # {} THEN @ ELSE "unknown"]
  BY DEF repoHasManifests
<1>2. listing \in Listings /\ stable = {} /\ listing.answer = "list" /\ listing.of # "catalog"
  BY <1>1 DEF PageInv
<1>3. (IF manifests # {} THEN listing.answer ELSE "unknown") \in {"list", "unknown"}
  BY <1>2 DEF Listings
<1>4. /\ listing' \in Listings /\ listing'.at = "done" /\ listing'.got = listing.got
      /\ listing'.of = listing.of /\ (manifests # {} => listing'.answer = "list")
  BY <1>1, <1>2, <1>3 DEF Listings
<1>5. stable' = {} /\ names' = names /\ manifests' = manifests /\ held' = held
  BY <1>1, <1>2 DEF Reads
<1>6. /\ names \in SUBSET PageNames /\ manifests \in SUBSET PageNames /\ held \subseteq manifests
      /\ Increasing(listing.got)
  BY DEF PageInv
<1>7. Lasting' = {}
  BY <1>2, <1>4, <1>5 DEF Lasting
<1>8. stable' \cup held' # {} => listing'.answer = "list"
  BY <1>4, <1>5, <1>6
<1> QED
  BY <1>4, <1>5, <1>6, <1>7, <1>8 DEF PageInv

\* What ListEntries gives a reader of a sorted directory that holds S.
LEMMA ListEntriesFacts ==
  ASSUME NEW dir \in Seq(Numbers), Increasing(dir), NEW last \in Nat,
         NEW S \in SUBSET Numbers, S \subseteq ToSet(dir), NEW got, ReadUpTo(got, last, S),
         NEW limit \in Nat \ {0}, NEW p, p = ListEntries(dir, last, limit),
         NEW next, next = IF p.more THEN Last(p.entries) ELSE 0
  PROVE  /\ p.entries \in Seq(Numbers) /\ next \in Nat
         /\ p.more <=> next # 0
         /\ got \o p.entries \in Seq(Numbers) /\ Increasing(got \o p.entries)
         /\ next # 0 => ReadUpTo(got \o p.entries, next, S)
         /\ next = 0 => S \subseteq ToSet(got \o p.entries)
<1> DEFINE rest == After(dir, last)
           page == FirstOf(rest, limit)
<1>1. rest \in Seq(Numbers) /\ Len(rest) \in Nat
  BY AfterFacts, LenProperties
<1>2. p.entries = page /\ p.more = (limit < Len(rest))
  BY DEF ListEntries
<1>3. /\ limit < Len(rest) =>
           /\ page[limit] \in Numbers /\ Last(page) = page[limit]
           /\ ReadUpTo(got \o page, page[limit], S)
      /\ ~(limit < Len(rest)) => page = rest
      /\ got \o rest \in Seq(Numbers) /\ Increasing(got \o rest) /\ S \subseteq ToSet(got \o rest)
  BY OneMorePage
<1> HIDE DEF rest
<1>4. CASE limit < Len(rest)
  <2>1. page = SubSeq(rest, 1, limit)
    BY <1>4 DEF FirstOf
  <2>2. \A i \in 1..limit : rest[i] \in Numbers
    BY <1>1, <1>4, LenProperties
  <2>3. page \in Seq(Numbers)
    BY <2>1, <2>2, SubSeqProperties
  <2> HIDE DEF page
  <2>4. next = page[limit] /\ next \in Numbers /\ ReadUpTo(got \o page, next, S) /\ p.more
    BY <1>2, <1>3, <1>4
  <2>5. next \in Nat /\ next # 0
    BY <2>4 DEF Numbers
  <2> QED
    BY <1>2, <2>3, <2>4, <2>5 DEF ReadUpTo
<1>5. CASE ~(limit < Len(rest))
  <2> HIDE DEF page
  <2> QED
    BY <1>1, <1>2, <1>3, <1>5
<1> QED
  BY <1>4, <1>5

\* serveListing: a directory's entries between after and its limit.
LEMMA ListingKeepsInv ==
  ASSUME PageInv, serveListing
  PROVE  PageInv'
<1>1. listing.at = "request" /\ listing.of = "entries" /\ Reads
  BY DEF serveListing, Asking
<1>0. Lasting = stable
  BY <1>1 DEF Lasting
<1>2. /\ listing \in Listings /\ ReadUpTo(listing.got, listing.last, stable) /\ listing.answer = "list"
      /\ listing.n \in Int /\ listing.last \in Nat /\ listing.got \in Seq(Numbers) /\ Increasing(listing.got)
  BY <1>0, <1>1 DEF PageInv, Listings
<1>3. /\ stable \in SUBSET Numbers /\ stable \subseteq ToSet(Sorted(names))
      /\ Sorted(names) \in Seq(Numbers) /\ Increasing(Sorted(names))
  BY LastingAreNumbers
<1>4. CASE listing.n = 0 /\ Served(<<>>, 0)
  <2>1. PICK none : none = <<>>
    OBVIOUS
  <2>2. listing.got \o none = listing.got /\ none \in Seq(Numbers) /\ Served(none, 0)
    BY <1>2, <1>4, <2>1, ConcatEmptySeq, EmptySeq
  <2>3. Increasing(listing.got \o none)
    BY <1>2, <2>2
  <2>4. ~(0 # 0) /\ ~(0 = 0 /\ listing.n # 0) /\ 0 \in Nat
    BY <1>4
  <2> QED
    BY <1>0, <1>1, <2>2, <2>3, <2>4, ServedKeepsInv
<1>5. CASE listing.n > 0 /\ LET p == ListEntries(Sorted(names), listing.last, listing.n)
                            IN  Served(p.entries, IF p.more THEN Last(p.entries) ELSE 0)
  <2>1. PICK p : p = ListEntries(Sorted(names), listing.last, listing.n)
    OBVIOUS
  <2>2. PICK next : next = IF p.more THEN Last(p.entries) ELSE 0
    OBVIOUS
  <2>3. Served(p.entries, next)
    BY <1>5, <2>1, <2>2
  <2>4. listing.n \in Nat \ {0}
    BY <1>2, <1>5
  <2>5. /\ p.entries \in Seq(Numbers) /\ next \in Nat
        /\ Increasing(listing.got \o p.entries)
        /\ next # 0 => ReadUpTo(listing.got \o p.entries, next, stable)
        /\ next = 0 => stable \subseteq ToSet(listing.got \o p.entries)
    <3> DEFINE dir == Sorted(names)
               last == listing.last
               limit == listing.n
               got == listing.got
    <3>1. /\ dir \in Seq(Numbers) /\ Increasing(dir) /\ last \in Nat /\ limit \in Nat \ {0}
          /\ stable \in SUBSET Numbers /\ stable \subseteq ToSet(dir) /\ ReadUpTo(got, last, stable)
      BY <1>2, <1>3, <2>4
    <3>2. p = ListEntries(dir, last, limit) /\ next = IF p.more THEN Last(p.entries) ELSE 0
      BY <2>1, <2>2
    <3> HIDE DEF dir, last, limit, got
    <3>3. /\ p.entries \in Seq(Numbers) /\ next \in Nat /\ Increasing(got \o p.entries)
          /\ next # 0 => ReadUpTo(got \o p.entries, next, stable)
          /\ next = 0 => stable \subseteq ToSet(got \o p.entries)
      BY <3>1, <3>2, ListEntriesFacts
    <3> QED
      BY <3>3 DEF got
  <2>6. PICK page : page = p.entries
    OBVIOUS
  <2>7. /\ page \in Seq(Numbers) /\ next \in Nat /\ Served(page, next)
        /\ Increasing(listing.got \o page)
        /\ next # 0 => ReadUpTo(listing.got \o page, next, stable)
        /\ next = 0 /\ listing.n # 0 => stable \subseteq ToSet(listing.got \o page)
    BY <2>3, <2>5, <2>6
  <2> QED
    BY <1>0, <1>1, <2>7, ServedKeepsInv
<1>6. CASE listing.n < 0 /\ listing' = [listing EXCEPT !.at = "pages", !.dir = Sorted(names)]
  <2> DEFINE s == Sorted(names)
  <2>1. s \in Seq(Numbers) /\ Increasing(s) /\ stable \subseteq ToSet(s)
    BY <1>3
  <2>2. listing' = [listing EXCEPT !.at = "pages", !.dir = s]
    BY <1>6
  <2> HIDE DEF s
  <2>3. /\ listing' \in Listings /\ listing'.at = "pages" /\ listing'.dir = s /\ listing'.got = listing.got
        /\ listing'.last = listing.last /\ listing'.answer = "list" /\ listing'.of = "entries"
    BY <1>1, <1>2, <2>1, <2>2 DEF Listings
  <2>4. /\ names' = names /\ stable' = stable /\ names \in SUBSET PageNames /\ stable \subseteq names
        /\ manifests' \in SUBSET PageNames /\ held' \subseteq manifests'
    BY <1>1 DEF Reads, PageInv
  <2>5. names' \in SUBSET PageNames /\ stable' \subseteq names' /\ stable' \subseteq ToSet(listing'.dir)
    BY <2>1, <2>3, <2>4
  <2>50. Lasting' = stable'
    BY <2>3 DEF Lasting
  <2>6. ReadUpTo(listing'.got, listing'.last, Lasting') /\ Increasing(listing'.got) /\ Increasing(listing'.dir)
    BY <1>2, <2>1, <2>3, <2>4, <2>50
  <2> QED
    BY <2>3, <2>4, <2>5, <2>6 DEF PageInv
<1> QED
  BY <1>4, <1>5, <1>6 DEF serveListing

\* ListDir reads the directory before the entries are cut.
LEMMA ListDirKeepsInv ==
  ASSUME PageInv, ListDir
  PROVE  PageInv'
<1>1. listing.at = "pages" /\ Reads
  BY DEF ListDir
<1>0. listing.of # "catalog" /\ Lasting = stable
  BY <1>1 DEF PageInv, Lasting
<1>2. /\ listing \in Listings /\ ReadUpTo(listing.got, listing.last, stable) /\ listing.answer = "list"
      /\ listing.last \in Nat /\ listing.got \in Seq(Numbers) /\ listing.dir \in Seq(Numbers)
      /\ Increasing(listing.dir) /\ stable \subseteq ToSet(listing.dir)
  BY <1>0, <1>1 DEF PageInv, Listings
<1>3. stable \in SUBSET Numbers /\ ListPage \in Nat \ {0}
  BY LastingAreNumbers, PageAssumption
<1>4. PICK p : p = ListEntries(listing.dir, listing.last, ListPage)
  OBVIOUS
<1>5. PICK next : next = IF p.more THEN Last(p.entries) ELSE 0
  OBVIOUS
<1>6. /\ p.entries \in Seq(Numbers) /\ next \in Nat
      /\ p.more <=> next # 0
      /\ listing.got \o p.entries \in Seq(Numbers) /\ Increasing(listing.got \o p.entries)
      /\ next # 0 => ReadUpTo(listing.got \o p.entries, next, stable)
      /\ next = 0 => stable \subseteq ToSet(listing.got \o p.entries)
  <2>1. PICK d, l, g, k : d = listing.dir /\ l = listing.last /\ g = listing.got /\ k = ListPage
    OBVIOUS
  <2>2. /\ d \in Seq(Numbers) /\ Increasing(d) /\ l \in Nat /\ k \in Nat \ {0}
        /\ stable \in SUBSET Numbers /\ stable \subseteq ToSet(d) /\ ReadUpTo(g, l, stable)
        /\ p = ListEntries(d, l, k)
    BY <1>2, <1>3, <1>4, <2>1
  <2>3. /\ p.entries \in Seq(Numbers) /\ next \in Nat
        /\ p.more <=> next # 0
        /\ g \o p.entries \in Seq(Numbers) /\ Increasing(g \o p.entries)
        /\ next # 0 => ReadUpTo(g \o p.entries, next, stable)
        /\ next = 0 => stable \subseteq ToSet(g \o p.entries)
    BY <1>5, <2>2, ListEntriesFacts
  <2> QED
    BY <2>1, <2>3
<1> DEFINE q == listing.got \o p.entries
           a == IF p.more THEN "pages" ELSE "done"
<1>7. listing' = [listing EXCEPT !.got = q, !.last = next, !.at = a]
  BY <1>4, <1>5 DEF ListDir
<1>8. /\ q \in Seq(Numbers) /\ Increasing(q)
      /\ a \in {"pages", "done"}
      /\ a = "pages" => ReadUpTo(q, next, stable)
      /\ a = "done" => stable \subseteq ToSet(q)
  BY <1>6
<1> HIDE DEF q, a
<1>9. /\ listing' \in Listings /\ listing'.at = a /\ listing'.got = q /\ listing'.last = next
      /\ listing'.answer = "list" /\ listing'.dir = listing.dir /\ listing'.of = listing.of
  BY <1>2, <1>6, <1>7, <1>8 DEF Listings
<1>10. /\ names' = names /\ stable' = stable /\ names \in SUBSET PageNames /\ stable \subseteq names
       /\ manifests' \in SUBSET PageNames /\ held' \subseteq manifests'
  BY <1>1 DEF Reads, PageInv
<1>11. Lasting' = stable
  BY <1>0, <1>9, <1>10 DEF Lasting
<1> QED
  BY <1>0, <1>2, <1>8, <1>9, <1>10, <1>11 DEF PageInv

\* Pushes and deletions: what lasts gets less, what was read of it stays read.
LEMMA ChangesKeepInv ==
  ASSUME PageInv,
         \E x \in PageNames : ManifestPushed(x) \/ NamePushed(x) \/ ManifestDeleted(x) \/ NameDeleted(x)
  PROVE  PageInv'
<1> USE DEF ManifestPushed, NamePushed, ManifestDeleted, NameDeleted, Changing
<1>1. listing' = listing /\ listing.at # "done"
  OBVIOUS
<1>2. /\ stable' \in SUBSET stable /\ names' \in SUBSET PageNames /\ stable' \subseteq names'
      /\ held' \in SUBSET held /\ manifests' \in SUBSET PageNames /\ held' \subseteq manifests'
  BY DEF PageInv
<1>20. Lasting' \in SUBSET Lasting
  BY <1>1, <1>2 DEF Lasting
<1>3. ReadUpTo(listing.got, listing.last, Lasting) => ReadUpTo(listing.got, listing.last, Lasting')
  BY <1>20, ReadOfFewer
<1>4. \A T : stable \subseteq T => stable' \subseteq T
  BY <1>2
<1>5. stable = {} => stable' = {}
  BY <1>2
<1> HIDE DEF Increasing, ReadUpTo, ToSet, Lasting
<1>6. /\ listing'.at # "done" /\ listing'.answer = "list"
      /\ listing'.at \in {"request", "scanned", "pages"} => ReadUpTo(listing'.got, listing'.last, Lasting')
      /\ listing'.at \in {"scanned", "pages"} => Increasing(listing'.dir) /\ stable' \subseteq ToSet(listing'.dir)
      /\ listing'.at = "scanned" => listing'.of = "catalog" /\ ToSet(listing'.dir) \subseteq PageNames
      /\ listing'.at \in {"pages", "known?"} => listing'.of # "catalog"
      /\ listing'.at = "known?" => stable' = {}
      /\ listing' \in Listings /\ Increasing(listing'.got)
  BY <1>1, <1>3, <1>4, <1>5 DEF PageInv
<1> QED
  BY <1>2, <1>6 DEF PageInv

(***************************************************************************)
(* Whatever names, page sizes and changes: the inductive invariant of a    *)
(* client that pages through tags, the catalog or a directory.             *)
(***************************************************************************)
THEOREM PagesInvariant == PageSpec => []PageInv
<1>1. PageInit => PageInv
  BY PageInvInit
<1>2. PageInv /\ [PageNext]_pageVars => PageInv'
  <2> SUFFICES ASSUME PageInv, [PageNext]_pageVars
               PROVE  PageInv'
    OBVIOUS
  <2>1. CASE UNCHANGED pageVars
    BY <2>1 DEF pageVars, PageInv, Lasting
  <2>2. CASE PageNext
    BY <2>2, TagsKeepInv, TagScanKeepsInv, KnownKeepsInv, CatalogKeepsInv, ListingKeepsInv, ListDirKeepsInv, ChangesKeepInv
       DEF PageNext
  <2> QED
    BY <2>1, <2>2
<1> QED
  BY <1>1, <1>2, PTL DEF PageSpec

(***************************************************************************)
(* Paging loses and repeats nothing: paginate, ListEntries' cursor, the    *)
(* two scans of the catalog and the Link header give a client every name   *)
(* that existed throughout, in order and once, whatever is pushed or       *)
(* deleted between its requests or the scans of one: for the catalog       *)
(* every repository that kept a tag or kept a manifest.                    *)
(***************************************************************************)
THEOREM PagingLosesNothing == PageSpec => []PagingIsFaithful
<1>1. PageInv => PagingIsFaithful
  BY DEF PageInv, PagingIsFaithful, Increasing
<1> QED
  BY <1>1, PagesInvariant, PTL

-----------------------------------------------------------------------------
(* A frame of the browser: the listing *)

Lists == [is : BOOLEAN, loaded : BOOLEAN, visible : Seq(RowIds), cursor : Nat, top : Nat, filter : Filters]

\* Rows are visible only once they are loaded.
IsList(l) == l \in Lists /\ (l.visible # <<>> => l.loaded)

\* moveTo: the cursor is on a row and the row on the screen, whatever it was asked for.
OnScreen(l, h) ==
  l.visible # <<>> => l.top <= l.cursor /\ l.cursor < l.top + h /\ l.cursor < Len(l.visible)

\* moveTo: the cursor is on a row and the row is on the screen.
LEMMA MoveToFacts ==
  ASSUME NEW l, IsList(l), NEW i \in Int, NEW h \in Nat \ {0}, NEW m, m = moveTo(l, i, h)
  PROVE  /\ IsList(m) /\ m.is = l.is /\ m.visible = l.visible /\ m.filter = l.filter
         /\ OnScreen(m, h)
         /\ i \in 0..(Len(l.visible) - 1) => m.cursor = i
<1>1. /\ l \in Lists /\ l.visible \in Seq(RowIds) /\ Len(l.visible) \in Nat /\ l.top \in Nat
      /\ l.visible # <<>> => l.loaded /\ Len(l.visible) # 0
      /\ l.visible = <<>> => Len(l.visible) = 0
  BY LenProperties, EmptySeq DEF IsList, Lists
<1>2. CASE l.visible = <<>>
  <2>10. PICK z \in Nat : z = 0
    OBVIOUS
  <2>1. m = [l EXCEPT !.cursor = z, !.top = z]
    BY <1>2, <2>10 DEF moveTo
  <2>2. m \in Lists /\ m.is = l.is /\ m.visible = l.visible /\ m.filter = l.filter
    BY <1>1, <2>1 DEF Lists
  <2>3. ~(i \in 0..(Len(l.visible) - 1))
    BY <1>1, <1>2
  <2> QED
    BY <1>2, <2>2, <2>3 DEF IsList, OnScreen
<1>3. CASE l.visible # <<>>
  <2> DEFINE n == Len(l.visible)
             c == AtMost(AtLeast(i, 0), n - 1)
             up == AtMost(l.top, c)
             t == IF c >= up + h THEN c - h + 1 ELSE up
  <2>1. m = [l EXCEPT !.cursor = c, !.top = t]
    BY <1>3 DEF moveTo
  <2>2. n \in Nat \ {0}
    BY <1>1, <1>3
  <2> HIDE DEF n
  <2>3. c \in Nat /\ c < n /\ (i \in 0..(n - 1) => c = i)
    BY <2>2 DEF AtMost, AtLeast
  <2> HIDE DEF c
  <2>4. up \in Nat /\ up <= c
    BY <1>1, <2>3 DEF AtMost
  <2> HIDE DEF up
  <2>5. t \in Nat /\ t <= c /\ c < t + h
    BY <2>3, <2>4
  <2> HIDE DEF t
  <2>6. /\ m \in Lists /\ m.is = l.is /\ m.visible = l.visible /\ m.filter = l.filter
        /\ m.cursor = c /\ m.top = t /\ m.loaded = l.loaded
    BY <1>1, <2>1, <2>3, <2>5 DEF Lists
  <2> QED
    BY <1>1, <2>3, <2>5, <2>6 DEF IsList, OnScreen, n
<1> QED
  BY <1>2, <1>3

\* The rows that pass the filter, in their order.
LEMMA VisibleFacts ==
  ASSUME NEW l, IsList(l), NEW s, s = Visible(l)
  PROVE  /\ s \in Seq(RowIds) /\ (s # <<>> => l.loaded)
         /\ DOMAIN s = 1..Len(s)
         /\ \A i \in RowIds : l.loaded /\ i \in l.filter.rows => \E j \in DOMAIN s : s[j] = i
<1> DEFINE S == {i \in RowIds : l.loaded /\ i \in l.filter.rows}
           n == Cardinality(S)
<1>1. RowIds = 0..(RowCount - 1) /\ RowCount - 1 \in Int
  BY FrameAssumption DEF RowIds
<1>2. S \in SUBSET RowIds
  OBVIOUS
<1>3. IsFiniteSet(S)
  <2>1. PICK b : b = RowCount - 1
    OBVIOUS
  <2>2. IsFiniteSet(0..b)
    BY <1>1, <2>1, FS_Interval
  <2> QED
    BY <1>1, <1>2, <2>1, <2>2, FS_Subset
<1>4. S \in SUBSET Int
  BY <1>1, <1>2
<1>5. s = Ascending(S)
  BY DEF Visible
<1>6. \A i : i \in S <=> i \in RowIds /\ l.loaded /\ i \in l.filter.rows
  OBVIOUS
<1> HIDE DEF S
<1>7. n \in Nat /\ s \in [1..n -> S] /\ \A x \in S : \E k \in 1..n : s[k] = x
  BY <1>3, <1>4, <1>5, AscendingIsSorted
<1> HIDE DEF n
<1>8. s = [k \in 1..n |-> s[k]] /\ DOMAIN s = 1..n /\ \A k \in 1..n : s[k] \in RowIds
  BY <1>2, <1>7
<1>9. s \in Seq(RowIds) /\ Len(s) = n
  BY <1>7, <1>8, SMT
<1>10. s # <<>> => l.loaded
  <2> SUFFICES ASSUME s # <<>>
               PROVE  l.loaded
    OBVIOUS
  <2>1. Len(s) \in Nat \ {0}
    BY <1>9, EmptySeq
  <2>2. 1 \in 1..n
    BY <1>7, <1>9, <2>1
  <2>3. s[1] \in S
    BY <1>7, <2>2
  <2> QED
    BY <1>6, <2>3
<1> QED
  BY <1>6, <1>7, <1>8, <1>9, <1>10

\* applyFilter: the cursor stays on its row when the row passes the filter.
LEMMA ApplyFilterFacts ==
  ASSUME NEW l, IsList(l), NEW m, m = applyFilter(l)
  PROVE  /\ IsList(m) /\ m.is = l.is /\ m.filter = l.filter
         /\ l.loaded /\ currentRow(l) \in RowIds /\ currentRow(l) \in l.filter.rows =>
              /\ m.cursor \in 0..(Len(m.visible) - 1)
              /\ m.visible[m.cursor + 1] = currentRow(l)
<1>1. PICK s : s = Visible(l)
  OBVIOUS
<1>2. PICK r : r = currentRow(l)
  OBVIOUS
<1>3. /\ s \in Seq(RowIds) /\ (s # <<>> => l.loaded) /\ DOMAIN s = 1..Len(s)
      /\ \A i \in RowIds : l.loaded /\ i \in l.filter.rows => \E j \in DOMAIN s : s[j] = i
  BY <1>1, VisibleFacts
<1> DEFINE A == {j \in DOMAIN s : s[j] = r}
           c == IF A = {} THEN 0 ELSE (CHOOSE j \in A : TRUE) - 1
<1>40. PICK z \in Nat : z = 0
  OBVIOUS
<1>4. m = [l EXCEPT !.visible = s, !.top = z, !.cursor = c]
  BY <1>1, <1>2, <1>40 DEF applyFilter
<1>5. A # {} => (CHOOSE j \in A : TRUE) \in A
  OBVIOUS
<1>6. Len(s) \in Nat
  BY <1>3, LenProperties
<1>7. c \in Nat /\ (A # {} => c \in 0..(Len(s) - 1) /\ s[c + 1] = r)
  <2>1. CASE A = {}
    BY <2>1
  <2>2. CASE A # {}
    <3>1. PICK j : j = CHOOSE k \in A : TRUE
      OBVIOUS
    <3>2. j \in 1..Len(s) /\ s[j] = r /\ c = j - 1
      BY <1>3, <1>5, <2>2, <3>1
    <3>3. c + 1 = j /\ c \in Nat /\ c \in 0..(Len(s) - 1)
      BY <1>6, <3>2
    <3> QED
      BY <3>2, <3>3
  <2> QED
    BY <2>1, <2>2
<1> HIDE DEF c
<1>8. l \in Lists
  BY DEF IsList
<1>9. /\ m \in Lists /\ m.is = l.is /\ m.filter = l.filter /\ m.visible = s /\ m.cursor = c /\ m.loaded = l.loaded
  BY <1>3, <1>4, <1>7, <1>8 DEF Lists
<1>10. l.loaded /\ r \in RowIds /\ r \in l.filter.rows => A # {}
  BY <1>3
<1> HIDE DEF A
<1> QED
  BY <1>2, <1>3, <1>7, <1>9, <1>10 DEF IsList

-----------------------------------------------------------------------------
(* A frame of the browser: the viewer *)

\* The fields of a viewer; what the properties depend on is typed.
IsView(v) ==
  v \in [open : BOOLEAN, mode : {"text", "hex"}, text : {v.text}, pretty : {v.pretty}, top : {v.top},
         search : {v.search}, hits : {v.hits}, hexOff : {v.hexOff}, win : {v.win}, winLoading : BOOLEAN]

(***************************************************************************)
(* The inductive invariant of a frame: a window that is being loaded has   *)
(* its read in flight, and while no resize was missed the read that opens  *)
(* the file is sized for the screen.                                       *)
(***************************************************************************)
WindowOnItsWay(v, sent) == v.winLoading => \E m \in sent : m.kind = "window"
FileReadFits ==
  ~list.is /\ ~view.open /\ ~missed => \A m \in reads : m.kind = "file" => m.len = hexWindowLen(height)

FrameInv ==
  /\ IsList(list) /\ height \in Heights /\ file \in Files
  /\ IsView(view)
  /\ WindowOnItsWay(view, reads)
  /\ FileReadFits
  /\ HexShowsData

\* A frame that was just pushed shows nothing and has its first load in flight.
LEMMA FrameInvInit ==
  ASSUME FrameInit
  PROVE  FrameInv
<1>1. height \in Heights /\ file \in Files /\ view = NoView
  BY DEF FrameInit
<1>2. PICK b \in BOOLEAN : list = NewList(b)
  BY DEF FrameInit
<1>3. IsList(list)
  <2>1. <<>> \in Seq(RowIds)
    BY EmptySeq
  <2>2. PICK z \in Nat : z = 0
    OBVIOUS
  <2>3. PICK e \in Seq(RowIds) : e = <<>>
    BY <2>1
  <2>4. PICK f \in Filters : f = NoFilter
    BY DEF Filters
  <2>5. list = [is |-> b, loaded |-> FALSE, visible |-> e, cursor |-> z, top |-> z, filter |-> f]
    BY <1>2, <2>2, <2>3, <2>4 DEF NewList
  <2>6. list \in Lists /\ list.visible = <<>>
    BY <2>3, <2>5 DEF Lists
  <2> QED
    BY <2>6 DEF IsList
<1>4. IsView(view) /\ view.open = FALSE /\ view.winLoading = FALSE
  BY <1>1 DEF NoView, IsView
<1>5. WindowOnItsWay(view, reads) /\ HexShowsData
  BY <1>4 DEF WindowOnItsWay, HexShowsData, Viewing
<1>6. FileReadFits
  <2>1. reads = {} \/ reads = {[kind |-> "file", len |-> hexWindowLen(height)]}
    BY DEF FrameInit
  <2>2. PICK k : k = hexWindowLen(height)
    OBVIOUS
  <2>3. \A m \in reads : m.len = k
    BY <2>1, <2>2
  <2> QED
    BY <2>2, <2>3 DEF FileReadFits
<1> QED
  BY <1>1, <1>3, <1>4, <1>5, <1>6 DEF FrameInv

\* A step of an open viewer keeps the invariant when its hex view shows its data.
LEMMA ViewStep ==
  ASSUME FrameInv, Viewing, list' = list, height' = height, file' = file,
         IsView(view'), view'.open = TRUE, WindowOnItsWay(view, reads)',
         ~missed' /\ view'.mode = "hex" /\ file.size > 0 =>
           Covers(view, height)' \/ (view'.winLoading /\ \E m \in reads' : m.kind = "window")
  PROVE  FrameInv'
<1>1. HexShowsData'
  BY DEF HexShowsData, Viewing
<1>2. FileReadFits'
  BY DEF FileReadFits
<1> QED
  BY <1>1, <1>2 DEF FrameInv

\* ensureWindow: the loaded window covers the screen, or its load is on its way.
LEMMA EnsureWindowFacts ==
  ASSUME NEW v, IsView(v), NEW h, NEW sent, WindowOnItsWay(v, sent), ensureWindow(v, h, sent), file' = file
  PROVE  /\ IsView(view') /\ view'.open = v.open /\ WindowOnItsWay(view, reads)'
         /\ view'.mode = "hex" =>
              \/ h = height' => Covers(view, height)'
              \/ view'.winLoading /\ \E m \in reads' : m.kind = "window"
<1>1. CASE v.mode # "hex" \/ v.winLoading \/ Covers(v, h)
  <2>1. view' = v /\ reads' = sent
    BY <1>1 DEF ensureWindow
  <2>2. h = height' /\ Covers(v, h) => Covers(view, height)'
    BY <2>1 DEF Covers
  <2> QED
    BY <1>1, <2>1, <2>2 DEF WindowOnItsWay
<1>2. CASE ~(v.mode # "hex" \/ v.winLoading \/ Covers(v, h))
  <2>1. PICK r : r = [kind |-> "window", start |-> AtLeast(v.hexOff - h * HexRow, 0), len |-> hexWindowLen(h)]
    OBVIOUS
  <2>2. view' = [v EXCEPT !.winLoading = TRUE] /\ reads' = sent \cup {r}
    BY <1>2, <2>1 DEF ensureWindow
  <2>3. r.kind = "window"
    BY <2>1
  <2>4. \E m \in reads' : m.kind = "window"
    BY <2>2, <2>3
  <2>5. IsView(view') /\ view'.open = v.open /\ view'.winLoading = TRUE
    BY <2>2 DEF IsView
  <2> QED
    BY <2>4, <2>5 DEF WindowOnItsWay
<1> QED
  BY <1>1, <1>2

\* A step that ends with ensureWindow at the height of the screen.
LEMMA EnsuredStep ==
  ASSUME FrameInv, Viewing, list' = list, height' = height, file' = file,
         NEW v, IsView(v), v.open, NEW sent, WindowOnItsWay(v, sent), ensureWindow(v, height, sent)
  PROVE  FrameInv'
<1>1. /\ IsView(view') /\ view'.open = v.open /\ WindowOnItsWay(view, reads)'
      /\ view'.mode = "hex" =>
              \/ height = height' => Covers(view, height)'
              \/ view'.winLoading /\ \E m \in reads' : m.kind = "window"
  BY EnsureWindowFacts
<1>2. view'.open = TRUE
  BY <1>1 DEF IsView
<1> QED
  BY <1>1, <1>2, ViewStep

\* scrollHex ends with ensureWindow.
LEMMA ScrollStep ==
  ASSUME FrameInv, Viewing, list' = list, height' = height, file' = file,
         NEW v, IsView(v), v.open, WindowOnItsWay(v, reads), NEW row, scrollHex(v, row, reads)
  PROVE  FrameInv'
<1>1. PICK o : ensureWindow([v EXCEPT !.hexOff = o], height, reads)
  BY DEF scrollHex
<1>2. PICK w : w = [v EXCEPT !.hexOff = o]
  OBVIOUS
<1>3. IsView(w) /\ w.open = v.open /\ w.winLoading = v.winLoading
  BY <1>2 DEF IsView
<1>4. WindowOnItsWay(w, reads) /\ ensureWindow(w, height, reads) /\ w.open
  BY <1>1, <1>2, <1>3 DEF WindowOnItsWay
<1> QED
  BY <1>3, <1>4, EnsuredStep

\* A step that leaves the hex view's position and window alone.
SameWindow(v, w) ==
  v.open = w.open /\ v.mode = w.mode /\ v.hexOff = w.hexOff /\ v.win = w.win /\ v.winLoading = w.winLoading

\* A step that leaves window, height and loads alone.
LEMMA QuietStep ==
  ASSUME FrameInv, Viewing, list' = list, height' = height, file' = file, ~missed' => ~missed,
         IsView(view'), SameWindow(view', view),
         \A m \in reads : m.kind = "window" => m \in reads'
  PROVE  FrameInv'
<1>1. view'.open = TRUE
  BY DEF FrameInv, Viewing, SameWindow, IsView
<1>2. WindowOnItsWay(view, reads)'
  BY DEF FrameInv, WindowOnItsWay, SameWindow
<1>3. Covers(view, height) => Covers(view, height)'
  BY DEF Covers, SameWindow
<1>4. (\E m \in reads : m.kind = "window") => \E m \in reads' : m.kind = "window"
  OBVIOUS
<1>5. view'.mode = view.mode /\ view'.winLoading = view.winLoading
  BY DEF SameWindow
<1>6. ~missed' /\ view'.mode = "hex" /\ file.size > 0 =>
        Covers(view, height)' \/ (view'.winLoading /\ \E m \in reads' : m.kind = "window")
  BY <1>3, <1>4, <1>5 DEF FrameInv, HexShowsData
<1> QED
  BY <1>1, <1>2, <1>6, ViewStep

\* A step that ends in text.
LEMMA TextStep ==
  ASSUME FrameInv, Viewing, list' = list, height' = height, file' = file,
         IsView(view'), view'.open = view.open, view'.winLoading = view.winLoading, view'.mode = "text",
         \A m \in reads : m.kind = "window" => m \in reads'
  PROVE  FrameInv'
<1>1. view'.open = TRUE
  BY DEF FrameInv, Viewing, IsView
<1>2. WindowOnItsWay(view, reads)'
  BY DEF FrameInv, WindowOnItsWay
<1> QED
  BY <1>1, <1>2, ViewStep

\* onFileLoaded opens the viewer in text or in hex.
LEMMA FileLoadedKeepsInv ==
  ASSUME FrameInv, onFileLoaded
  PROVE  FrameInv'
<1>1. /\ ~list.is /\ ~view.open /\ list' = list /\ file' = file /\ height' = height /\ missed' = missed
  BY DEF onFileLoaded, Still
<1>2. PICK m \in reads : /\ m.kind = "file" /\ reads' = reads \ {m}
       /\ view' = IF file.class = "text" THEN WithText([NoView EXCEPT !.open = TRUE])
                  ELSE [NoView EXCEPT !.open = TRUE, !.mode = "hex", !.win = readWindow(0, m.len)]
  BY DEF onFileLoaded
<1>3. IsList(list)' /\ (height \in Heights)' /\ (file \in Files)'
  BY <1>1 DEF FrameInv
<1>4. CASE file.class = "text"
  <2>1. PICK p : p = (file.pretty > 0)
    OBVIOUS
  <2>2. view' = [open |-> TRUE, mode |-> "text", text |-> TRUE, pretty |-> p, top |-> 0,
                 search |-> FALSE, hits |-> {}, hexOff |-> 0, win |-> NoWindow, winLoading |-> FALSE]
    BY <1>2, <1>4, <2>1 DEF WithText, NoView
  <2>3. IsView(view') /\ view'.open = TRUE /\ view'.winLoading = FALSE /\ view'.mode = "text"
    BY <2>2 DEF IsView
  <2>4. HexShowsData' /\ FileReadFits' /\ WindowOnItsWay(view, reads)'
    BY <2>3 DEF HexShowsData, FileReadFits, WindowOnItsWay
  <2> QED
    BY <1>3, <2>3, <2>4 DEF FrameInv
<1>5. CASE file.class # "text"
  <2>1. PICK w : w = readWindow(0, m.len)
    OBVIOUS
  <2>2. view' = [open |-> TRUE, mode |-> "hex", text |-> FALSE, pretty |-> FALSE, top |-> 0,
                 search |-> FALSE, hits |-> {}, hexOff |-> 0, win |-> w, winLoading |-> FALSE]
    BY <1>2, <1>5, <2>1 DEF NoView
  <2>3. IsView(view') /\ view'.open = TRUE /\ view'.winLoading = FALSE /\ view'.hexOff = 0 /\ view'.win = w
    BY <2>2 DEF IsView
  <2>4. FileReadFits' /\ WindowOnItsWay(view, reads)'
    BY <2>3 DEF FileReadFits, WindowOnItsWay
  <2>5. ASSUME ~missed, file.size > 0
        PROVE  Covers(view, height)'
    <3>1. m.len = hexWindowLen(height)
      BY <1>1, <1>2, <2>5 DEF FrameInv, FileReadFits
    <3>2. height \in Nat \ {0} /\ HexRow \in Nat \ {0} /\ file.size \in Nat
      BY FrameAssumption DEF FrameInv
    <3>3. PICK x \in Nat : x = height * HexRow
      BY <3>2
    <3>4. m.len = 3 * x
      BY <3>1, <3>2, <3>3 DEF hexWindowLen
    <3>5. w.nil = FALSE /\ w.start = 0 /\ w.len = AtMost(3 * x, file.size)
      BY <2>1, <2>5, <3>2, <3>4 DEF readWindow
    <3>6. AtMost(x, file.size - 0) <= AtMost(3 * x, file.size) /\ AtMost(x, file.size - 0) \in Nat
      BY <3>2, <3>3 DEF AtMost
    <3>60. AtMost(3 * x, file.size) \in Nat
      BY <3>2, <3>3 DEF AtMost
    <3>61. PICK a \in Nat, b \in Nat : a = AtMost(x, file.size - 0) /\ b = AtMost(3 * x, file.size)
      BY <3>6, <3>60
    <3>62. a <= b /\ w.len = b
      BY <3>5, <3>6, <3>61
    <3>63. 0 + a <= 0 + b /\ 0 >= 0
      BY <3>62
    <3>7. 0 + AtMost(x, file.size - 0) <= 0 + w.len /\ 0 >= 0
      BY <3>61, <3>62, <3>63
    <3>8. LET need == AtMost(height * HexRow, file.size - 0) IN
          ~w.nil /\ 0 >= w.start /\ 0 + need <= w.start + w.len
      BY <3>3, <3>5, <3>7
    <3> QED
      BY <1>1, <2>3, <3>8 DEF Covers
  <2>6. HexShowsData'
    BY <1>1, <2>5 DEF HexShowsData
  <2> QED
    BY <1>3, <2>3, <2>4, <2>6 DEF FrameInv
<1> QED
  BY <1>4, <1>5

\* onTextLoaded shows the text.
LEMMA TextLoadedKeepsInv ==
  ASSUME FrameInv, onTextLoaded
  PROVE  FrameInv'
<1>1. Viewing /\ list' = list /\ file' = file /\ height' = height /\ missed' = missed
  BY DEF onTextLoaded, Still
<1>2. \A m \in reads : m.kind = "window" => m \in reads'
  BY DEF onTextLoaded
<1>3. PICK p, t : view' = [[view EXCEPT !.text = TRUE, !.pretty = p] EXCEPT !.mode = "text", !.top = t]
  BY DEF onTextLoaded, WithText
<1>4. IsView(view)
  BY DEF FrameInv
<1>5. PICK w : w = [view EXCEPT !.text = TRUE, !.pretty = p]
  OBVIOUS
<1>6. IsView(w) /\ w.open = view.open /\ w.winLoading = view.winLoading
  BY <1>4, <1>5 DEF IsView
<1>7. view' = [w EXCEPT !.mode = "text", !.top = t]
  BY <1>3, <1>5
<1>8. IsView(view') /\ view'.open = view.open /\ view'.winLoading = view.winLoading /\ view'.mode = "text"
  BY <1>6, <1>7 DEF IsView
<1> QED
  BY <1>1, <1>2, <1>8, TextStep

\* onTextFailed falls back to hex.
LEMMA TextFailedKeepsInv ==
  ASSUME FrameInv, onTextFailed
  PROVE  FrameInv'
<1>1. Viewing /\ list' = list /\ file' = file /\ height' = height /\ missed' = missed /\ view' = view
  BY DEF onTextFailed
<1>2. \A m \in reads : m.kind = "window" => m \in reads'
  BY DEF onTextFailed
<1>3. IsView(view') /\ SameWindow(view', view)
  BY <1>1 DEF FrameInv, SameWindow
<1> QED
  BY <1>1, <1>2, <1>3, QuietStep

\* onWindowLoaded takes any window that comes, and asks again if it does not cover the screen.
LEMMA WindowLoadedKeepsInv ==
  ASSUME FrameInv, onWindowLoaded
  PROVE  FrameInv'
<1>1. Viewing /\ list' = list /\ file' = file /\ height' = height
  BY DEF onWindowLoaded, Still
<1>2. PICK m \in reads : ensureWindow([view EXCEPT !.winLoading = FALSE, !.win = readWindow(m.start, m.len)],
                                      height, reads \ {m})
  BY DEF onWindowLoaded
<1>3. PICK v, sent : /\ v = [view EXCEPT !.winLoading = FALSE, !.win = readWindow(m.start, m.len)]
                     /\ sent = reads \ {m}
  OBVIOUS
<1>4. IsView(view)
  BY DEF FrameInv
<1>5. IsView(v) /\ v.open = view.open /\ v.winLoading = FALSE
  BY <1>3, <1>4 DEF IsView
<1>6. v.open /\ WindowOnItsWay(v, sent) /\ ensureWindow(v, height, sent)
  BY <1>1, <1>2, <1>3, <1>5 DEF WindowOnItsWay, Viewing
<1> QED
  BY <1>1, <1>5, <1>6, EnsuredStep

\* onWindowFailed gives the load up: the screen counts as missed.
LEMMA WindowFailedKeepsInv ==
  ASSUME FrameInv, onWindowFailed
  PROVE  FrameInv'
<1>1. /\ Viewing /\ list' = list /\ file' = file /\ height' = height
      /\ missed' = TRUE /\ view' = [view EXCEPT !.winLoading = FALSE]
  BY DEF onWindowFailed
<1>2. IsView(view)
  BY DEF FrameInv
<1>3. IsView(view') /\ view'.open = view.open /\ view'.winLoading = FALSE
  BY <1>1, <1>2 DEF IsView
<1>4. view'.open = TRUE /\ WindowOnItsWay(view, reads)'
  BY <1>1, <1>3 DEF WindowOnItsWay, Viewing, IsView
<1> QED
  BY <1>1, <1>3, <1>4, ViewStep

\* onResize: the screen grows or shrinks under the window.
LEMMA ResizeKeepsInv ==
  ASSUME FrameInv, NEW h \in Heights, NEW onTop \in BOOLEAN, onResize(h, onTop)
  PROVE  FrameInv' /\ IsList(list') /\ OnScreen(list', height') /\ list'.filter = list.filter
<1>1. height' = h /\ file' = file /\ list' = moveTo(list, list.cursor, h)
  BY DEF onResize, Shown
<1>2. h \in Nat \ {0} /\ list.cursor \in Int /\ IsList(list)
  BY FrameAssumption DEF FrameInv, IsList, Lists
<1>3. IsList(list') /\ list'.is = list.is /\ list'.filter = list.filter /\ OnScreen(list', h)
  BY <1>1, <1>2, MoveToFacts
<1>4. IsView(view) /\ WindowOnItsWay(view, reads) /\ height' \in Heights /\ file' \in Files
  BY <1>1 DEF FrameInv
<1>5. CASE Viewing /\ onTop
  <2>1. ensureWindow(view, h, reads)
    BY <1>5 DEF onResize
  <2>2. /\ IsView(view') /\ view'.open = view.open /\ WindowOnItsWay(view, reads)'
        /\ view'.mode = "hex" =>
              \/ h = height' => Covers(view, height)'
              \/ view'.winLoading /\ \E m \in reads' : m.kind = "window"
    BY <1>1, <1>4, <2>1, EnsureWindowFacts
  <2>3. HexShowsData'
    BY <1>1, <2>2 DEF HexShowsData
  <2>4. view'.open = TRUE
    BY <1>4, <1>5, <2>2 DEF IsView, Viewing
  <2>5. FileReadFits'
    BY <2>4 DEF FileReadFits
  <2> QED
    BY <1>1, <1>3, <1>4, <2>2, <2>3, <2>5 DEF FrameInv
<1>6. CASE ~(Viewing /\ onTop)
  <2>1. view' = view /\ reads' = reads /\ missed' = ~list.is
    BY <1>6 DEF onResize
  <2>2. ~list'.is => missed'
    BY <1>3, <2>1
  <2>3. HexShowsData' /\ FileReadFits'
    BY <2>2 DEF HexShowsData, FileReadFits, Viewing
  <2>4. IsView(view') /\ WindowOnItsWay(view, reads)'
    BY <1>4, <2>1
  <2> QED
    BY <1>1, <1>3, <1>4, <2>3, <2>4 DEF FrameInv
<1> QED
  BY <1>5, <1>6

\* scrollViewer and scrollViewerEnd.
LEMMA ScrollsKeepInv ==
  ASSUME FrameInv, scrollViewer \/ scrollViewerEnd \/ gotoOffset
  PROVE  FrameInv'
<1>1. Viewing /\ list' = list /\ file' = file /\ height' = height
  BY DEF scrollViewer, scrollViewerEnd, gotoOffset, Still
<1>2. IsView(view) /\ WindowOnItsWay(view, reads) /\ view.open
  BY <1>1 DEF FrameInv, Viewing
<1>3. \/ \E row : scrollHex(view, row, reads)
      \/ view' = view /\ reads' = reads /\ missed' = missed
      \/ view.mode # "hex" /\ reads' = reads /\ missed' = missed /\ \E t : view' = [view EXCEPT !.top = t]
  BY DEF scrollViewer, scrollViewerEnd, gotoOffset
<1>4. CASE \E row : scrollHex(view, row, reads)
  BY <1>1, <1>2, <1>4, ScrollStep
<1>5. CASE view' = view /\ reads' = reads /\ missed' = missed
  <2>1. IsView(view') /\ SameWindow(view', view)
    BY <1>2, <1>5 DEF SameWindow
  <2> QED
    BY <1>1, <1>5, <2>1, QuietStep
<1>6. CASE view.mode # "hex" /\ reads' = reads /\ missed' = missed /\ \E t : view' = [view EXCEPT !.top = t]
  <2>1. PICK t : view' = [view EXCEPT !.top = t]
    BY <1>6
  <2>2. IsView(view') /\ SameWindow(view', view)
    BY <1>2, <2>1 DEF SameWindow, IsView
  <2> QED
    BY <1>1, <1>6, <2>2, QuietStep
<1> QED
  BY <1>3, <1>4, <1>5, <1>6

\* toggleHex goes to the row that holds the line, goes back, or loads the text.
LEMMA ToggleHexKeepsInv ==
  ASSUME FrameInv, toggleHex
  PROVE  FrameInv'
<1>1. Viewing /\ list' = list /\ file' = file /\ height' = height
  BY DEF toggleHex, Still
<1>2. IsView(view) /\ WindowOnItsWay(view, reads) /\ view.open
  BY <1>1 DEF FrameInv, Viewing
<1>3. CASE scrollHex([view EXCEPT !.mode = "hex"], lineOffset(view.top) \div HexRow, reads)
  <2>1. PICK v : v = [view EXCEPT !.mode = "hex"]
    OBVIOUS
  <2>2. PICK row : scrollHex(v, row, reads)
    BY <1>3, <2>1
  <2>3. IsView(v) /\ v.open = view.open /\ v.winLoading = view.winLoading
    BY <1>2, <2>1 DEF IsView
  <2>4. WindowOnItsWay(v, reads) /\ v.open
    BY <1>2, <2>3 DEF WindowOnItsWay
  <2> QED
    BY <1>1, <2>2, <2>3, <2>4, ScrollStep
<1>4. CASE view' = [view EXCEPT !.mode = "text", !.top = AtMost(lineAt(view.hexOff), LastLine(view))] /\ reads' = reads
  <2>1. PICK t : view' = [view EXCEPT !.mode = "text", !.top = t]
    BY <1>4
  <2>2. IsView(view') /\ view'.open = view.open /\ view'.winLoading = view.winLoading /\ view'.mode = "text"
    BY <1>2, <2>1 DEF IsView
  <2> QED
    BY <1>1, <1>4, <2>2, TextStep
<1>5. CASE view' = view /\ missed' = missed /\ \E n \in 1..MaxTextLoads : reads' = reads \cup {[kind |-> "text", n |-> n]}
  <2>1. \A m \in reads : m \in reads'
    BY <1>5
  <2>2. IsView(view') /\ SameWindow(view', view)
    BY <1>2, <1>5 DEF SameWindow
  <2> QED
    BY <1>1, <1>5, <2>1, <2>2, QuietStep
<1> QED
  BY <1>3, <1>4, <1>5 DEF toggleHex

\* The handlers that do not touch the hex view.
LEMMA QuietKeepInv ==
  ASSUME FrameInv, togglePretty \/ startInput \/ onSearchKey
  PROVE  FrameInv'
<1>1. Viewing /\ list' = list /\ file' = file /\ height' = height /\ reads' = reads /\ missed' = missed
  BY DEF togglePretty, startInput, onSearchKey, KeepsWindow, Still
<1>2. IsView(view)
  BY DEF FrameInv
<1>3. CASE togglePretty
  <2>1. PICK v : v = [view EXCEPT !.pretty = ~view.pretty]
    OBVIOUS
  <2>2. IsView(v) /\ SameWindow(v, view)
    BY <1>2, <2>1 DEF IsView, SameWindow
  <2>3. PICK hits : view' = [v EXCEPT !.top = AtMost(v.top, LastLine(v)), !.hits = IF v.search THEN hits ELSE {}]
    BY <1>3, <2>1 DEF togglePretty
  <2>4. PICK t, x : view' = [v EXCEPT !.top = t, !.hits = x]
    BY <2>3
  <2>5. IsView(view') /\ SameWindow(view', v)
    BY <2>2, <2>4 DEF IsView, SameWindow
  <2>6. SameWindow(view', view)
    BY <2>2, <2>5 DEF SameWindow
  <2> QED
    BY <1>1, <2>5, <2>6, QuietStep
<1>4. CASE startInput
  <2>1. view' = view
    BY <1>4 DEF startInput
  <2>2. IsView(view') /\ SameWindow(view', view)
    BY <1>2, <2>1 DEF SameWindow
  <2> QED
    BY <1>1, <2>2, QuietStep
<1>5. CASE onSearchKey
  <2>1. \/ \E b, x : view' = [view EXCEPT !.search = b, !.hits = x]
        \/ \E dir : view' = nextHit(view, dir)
    BY <1>5 DEF onSearchKey
  <2>2. IsView(view') /\ SameWindow(view', view)
    <3>1. ASSUME NEW b, NEW x, view' = [view EXCEPT !.search = b, !.hits = x]
          PROVE  IsView(view') /\ SameWindow(view', view)
      BY <1>2, <3>1 DEF IsView, SameWindow
    <3>2. ASSUME NEW dir, view' = nextHit(view, dir)
          PROVE  view' = view \/ \E t : view' = [view EXCEPT !.top = t]
      BY <3>2 DEF nextHit
    <3>3. ASSUME NEW t, view' = [view EXCEPT !.top = t]
          PROVE  IsView(view') /\ SameWindow(view', view)
      BY <1>2, <3>3 DEF IsView, SameWindow
    <3>4. ASSUME view' = view
          PROVE  IsView(view') /\ SameWindow(view', view)
      BY <1>2, <3>4 DEF SameWindow
    <3> QED
      BY <2>1, <3>1, <3>2, <3>3, <3>4
  <2> QED
    BY <1>1, <2>2, QuietStep
<1> QED
  BY <1>3, <1>4, <1>5

\* What a step of a listing leaves: the listing is well formed, its cursor is on the screen and, when
\* the filter changed, still on the row it was on if that row passes.
ListStep ==
  /\ IsList(list') /\ list'.is = list.is /\ OnScreen(list', height')
  /\ list'.filter # list.filter /\ currentRow(list) # NoRow /\ currentRow(list) \in list'.filter.rows
       => currentRow(list') = currentRow(list)

\* Shown puts a well-formed listing on the screen and moves no cursor that is on a row.
LEMMA ShownFacts ==
  ASSUME NEW l, IsList(l), height' \in Heights, Shown(l)
  PROVE  /\ IsList(list') /\ list'.is = l.is /\ list'.filter = l.filter /\ list'.visible = l.visible
         /\ OnScreen(list', height')
         /\ l.cursor \in 0..(Len(l.visible) - 1) => list'.cursor = l.cursor
<1>1. PICK h : h = height'
  OBVIOUS
<1>2. h \in Nat \ {0} /\ l.cursor \in Int
  BY <1>1, FrameAssumption DEF IsList, Lists
<1>3. PICK c \in Int : c = l.cursor
  BY <1>2
<1>4. list' = moveTo(l, c, h)
  BY <1>1, <1>3 DEF Shown
<1> QED
  BY <1>1, <1>2, <1>3, <1>4, MoveToFacts

\* A new filter: the row under the cursor is still there when it passes.
LEMMA FilterStep ==
  ASSUME IsList(list), height' \in Heights, NEW f \in Filters,
         Shown(applyFilter([list EXCEPT !.filter = f]))
  PROVE  ListStep
<1>1. PICK l : l = [list EXCEPT !.filter = f]
  OBVIOUS
<1>2. /\ IsList(l) /\ l.is = list.is /\ l.loaded = list.loaded /\ l.filter = f
      /\ l.visible = list.visible /\ l.cursor = list.cursor
  BY <1>1 DEF IsList, Lists
<1>3. PICK m : m = applyFilter(l)
  OBVIOUS
<1>4. /\ IsList(m) /\ m.is = l.is /\ m.filter = l.filter
      /\ l.loaded /\ currentRow(l) \in RowIds /\ currentRow(l) \in l.filter.rows =>
           m.cursor \in 0..(Len(m.visible) - 1) /\ m.visible[m.cursor + 1] = currentRow(l)
  BY <1>2, <1>3, ApplyFilterFacts
<1>5. Shown(m)
  BY <1>1, <1>3
<1>6. /\ IsList(list') /\ list'.is = m.is /\ list'.filter = m.filter /\ list'.visible = m.visible
      /\ OnScreen(list', height')
      /\ m.cursor \in 0..(Len(m.visible) - 1) => list'.cursor = m.cursor
  BY <1>4, <1>5, ShownFacts
<1>7. currentRow(l) = currentRow(list)
  BY <1>2 DEF currentRow
<1>8. ASSUME currentRow(list) # NoRow
      PROVE  list.loaded /\ currentRow(list) \in RowIds
  <2>1. list.visible \in Seq(RowIds) /\ Len(list.visible) \in Nat /\ list.cursor \in Nat
    BY LenProperties DEF IsList, Lists
  <2>2. list.cursor < Len(list.visible) /\ currentRow(list) = list.visible[list.cursor + 1]
    BY <1>8 DEF currentRow
  <2>3. list.cursor + 1 \in 1..Len(list.visible) /\ Len(list.visible) # 0
    BY <2>1, <2>2
  <2>4. list.visible # <<>>
    BY <2>3, EmptySeq
  <2>5. list.visible[list.cursor + 1] \in RowIds
    BY <2>1, <2>3, LenProperties
  <2> QED
    BY <2>2, <2>4, <2>5 DEF IsList
<1>9. ASSUME currentRow(list) # NoRow, currentRow(list) \in list'.filter.rows
      PROVE  currentRow(list') = currentRow(list)
  <2>1. m.cursor \in 0..(Len(m.visible) - 1) /\ m.visible[m.cursor + 1] = currentRow(list)
    BY <1>2, <1>4, <1>6, <1>7, <1>8, <1>9
  <2>2. list'.cursor = m.cursor /\ list'.visible = m.visible
    BY <1>6, <2>1
  <2>3. Len(m.visible) \in Nat /\ m.cursor \in Nat
    BY <1>4, LenProperties DEF IsList, Lists
  <2>4. list'.cursor < Len(list'.visible)
    BY <2>1, <2>2, <2>3
  <2> QED
    BY <2>1, <2>2, <2>4 DEF currentRow
<1> QED
  BY <1>2, <1>4, <1>6, <1>9 DEF ListStep

\* A step that shows a listing with the same filter.
LEMMA SameFilterStep ==
  ASSUME height' \in Heights, NEW l, IsList(l), l.is = list.is, l.filter = list.filter, Shown(l)
  PROVE  ListStep
<1>1. IsList(list') /\ list'.is = l.is /\ list'.filter = l.filter /\ OnScreen(list', height')
  BY ShownFacts
<1> QED
  BY <1>1 DEF ListStep

\* A handler of a listing is a step of the listing and leaves the viewer alone.
LEMMA ListStepsFollow ==
  ASSUME FrameInv, onListRows \/ onListMove \/ onListFilter
  PROVE  ListStep /\ list.is /\ height' = height /\ UNCHANGED viewerVars
<1>1. list.is /\ height' = height /\ UNCHANGED viewerVars
  BY DEF onListRows, onListMove, onListFilter
<1>2. IsList(list) /\ list \in Lists /\ height \in Heights /\ height' \in Heights /\ height \in Nat \ {0}
  BY <1>1, FrameAssumption DEF FrameInv, IsList
<1>3. CASE onListRows
  <2>1. PICK l : l = [list EXCEPT !.loaded = TRUE]
    OBVIOUS
  <2>2. IsList(l) /\ l.is = list.is /\ l.filter = list.filter
    BY <1>2, <2>1 DEF IsList, Lists
  <2>3. PICK m : m = applyFilter(l)
    OBVIOUS
  <2>4. IsList(m) /\ m.is = l.is /\ m.filter = l.filter
    BY <2>2, <2>3, ApplyFilterFacts
  <2>5. Shown(m)
    BY <1>3, <2>1, <2>3 DEF onListRows
  <2> QED
    BY <1>1, <1>2, <2>2, <2>4, <2>5, SameFilterStep
<1>4. CASE onListMove
  <2>1. list.cursor \in Int /\ Len(list.visible) \in Nat /\ height \in Int
    BY <1>2, LenProperties DEF Lists
  <2>2. PICK i \in {list.cursor - 1, list.cursor + 1, list.cursor - height, list.cursor + height,
                    0, Len(list.visible) - 1} : Shown(moveTo(list, i, height))
    BY <1>4 DEF onListMove
  <2>3. i \in Int
    BY <2>1, <2>2
  <2>4. PICK m : m = moveTo(list, i, height)
    OBVIOUS
  <2>5. IsList(m) /\ m.is = list.is /\ m.filter = list.filter
    BY <1>2, <2>3, <2>4, MoveToFacts
  <2>6. Shown(m)
    BY <2>2, <2>4
  <2> QED
    BY <1>1, <1>2, <2>5, <2>6, SameFilterStep
<1>5. CASE onListFilter
  <2>1. Shown(list) \/ \E f \in Filters : Shown(applyFilter([list EXCEPT !.filter = f]))
    <3>1. NoFilter \in Filters
      BY DEF Filters
    <3> QED
      BY <1>5, <3>1 DEF onListFilter
  <2>2. CASE Shown(list)
    BY <1>1, <1>2, <2>2, SameFilterStep
  <2>3. CASE \E f \in Filters : Shown(applyFilter([list EXCEPT !.filter = f]))
    BY <1>1, <1>2, <2>3, FilterStep
  <2> QED
    BY <2>1, <2>2, <2>3
<1> QED
  BY <1>1, <1>3, <1>4, <1>5

\* The handlers of a listing keep the frame's invariant.
LEMMA ListStepsKeepInv ==
  ASSUME FrameInv, onListRows \/ onListMove \/ onListFilter
  PROVE  FrameInv'
<1>1. ListStep /\ list.is /\ height' = height /\ UNCHANGED viewerVars
  BY ListStepsFollow
<1>2. IsList(list') /\ list'.is
  BY <1>1 DEF ListStep
<1>3. file' = file /\ view' = view /\ reads' = reads
  BY <1>1 DEF viewerVars
<1>4. HexShowsData' /\ FileReadFits'
  BY <1>2 DEF HexShowsData, FileReadFits, Viewing
<1> QED
  BY <1>1, <1>2, <1>3, <1>4 DEF FrameInv

\* The action property's body, for any step of a frame.
LEMMA StepKeepsRow ==
  ASSUME FrameInv, FrameNext, list.is
  PROVE  /\ list'.filter # list.filter /\ currentRow(list) # NoRow
              /\ currentRow(list) \in list'.filter.rows
            => currentRow(list') = currentRow(list)
         /\ list'.visible # <<>> =>
              /\ list'.top <= list'.cursor
              /\ list'.cursor < AtMost(list'.top + height', Len(list'.visible))
<1>1. \/ onListRows \/ onListMove \/ onListFilter
      \/ \E h \in Heights, onTop \in BOOLEAN : onResize(h, onTop)
  BY DEF FrameNext, FrameMessages, onFileLoaded, onTextLoaded, onWindowLoaded, onTextFailed, onWindowFailed,
         scrollViewer, scrollViewerEnd, toggleHex, togglePretty, startInput, onSearchKey, gotoOffset, Viewing
<1>2. /\ list'.filter # list.filter /\ currentRow(list) # NoRow /\ currentRow(list) \in list'.filter.rows
           => currentRow(list') = currentRow(list)
      /\ IsList(list') /\ OnScreen(list', height')
  <2>1. CASE onListRows \/ onListMove \/ onListFilter
    BY <2>1, ListStepsFollow DEF ListStep
  <2>2. CASE \E h \in Heights, onTop \in BOOLEAN : onResize(h, onTop)
    BY <2>2, ResizeKeepsInv
  <2> QED
    BY <1>1, <2>1, <2>2
<1>3. list'.visible # <<>> => list'.cursor < AtMost(list'.top + height', Len(list'.visible))
  BY <1>2 DEF OnScreen, AtMost
<1> QED
  BY <1>2, <1>3 DEF OnScreen

(***************************************************************************)
(* Whatever the heights, rows and files: the inductive invariant of a      *)
(* frame of the browser.                                                   *)
(***************************************************************************)
THEOREM FrameInvariant == FrameSpec => []FrameInv
<1>1. FrameInit => FrameInv
  BY FrameInvInit
<1>2. FrameInv /\ [FrameNext]_frameVars => FrameInv'
  <2> SUFFICES ASSUME FrameInv, [FrameNext]_frameVars
               PROVE  FrameInv'
    OBVIOUS
  <2>1. CASE UNCHANGED frameVars
    BY <2>1 DEF frameVars, FrameInv, FileReadFits, HexShowsData, Viewing, Covers, hexWindowLen
  <2>2. CASE FrameNext
    BY <2>2, FileLoadedKeepsInv, TextLoadedKeepsInv, TextFailedKeepsInv, WindowLoadedKeepsInv,
       WindowFailedKeepsInv, ResizeKeepsInv, ScrollsKeepInv, ToggleHexKeepsInv, QuietKeepInv, ListStepsKeepInv
       DEF FrameNext, FrameMessages
  <2> QED
    BY <2>1, <2>2
<1> QED
  BY <1>1, <1>2, PTL DEF FrameSpec

(***************************************************************************)
(* What a frame shows is its data: ensureWindow at the end of every step   *)
(* that moves the hex view, and moveTo after applyFilter in a listing.     *)
(***************************************************************************)
THEOREM FrameShowsItsData == FrameSpec => FrameIsRight
<1>1. FrameInv => HexShowsData
  BY DEF FrameInv
<1>2. FrameInv /\ [FrameNext]_frameVars =>
      [ list.is =>
        /\ list'.filter # list.filter /\ currentRow(list) # NoRow
             /\ currentRow(list) \in list'.filter.rows
           => currentRow(list') = currentRow(list)
        /\ list'.visible # <<>> =>
             /\ list'.top <= list'.cursor
             /\ list'.cursor < AtMost(list'.top + height', Len(list'.visible)) ]_frameVars
  BY StepKeepsRow
<1> QED
  BY <1>1, <1>2, FrameInvariant, PTL DEF FrameSpec, FrameIsRight, CursorKeepsRow

-----------------------------------------------------------------------------
(* One request that reads *)

(***************************************************************************)
(* The lesser of two numbers.                                              *)
(***************************************************************************)
LEMMA LesserOf ==
  ASSUME NEW a \in Int, NEW b \in Int
  PROVE  /\ Min({a, b}) \in {a, b} /\ Min({a, b}) <= a /\ Min({a, b}) <= b
<1>1. \E x \in {a, b} : \A y \in {a, b} : x <= y
  <2>1. CASE a <= b
    BY <2>1
  <2>2. CASE ~(a <= b)
    BY <2>2
  <2> QED
    BY <2>1, <2>2
<1>2. Min({a, b}) \in {a, b} /\ \A y \in {a, b} : Min({a, b}) <= y
  <2> DEFINE S == {a, b}
  <2>1. \E x \in S : \A y \in S : x <= y
    BY <1>1
  <2> HIDE DEF S
  <2>2. Min(S) \in S /\ \A y \in S : Min(S) <= y
    BY <2>1 DEF Min
  <2> QED
    BY <2>2 DEF S
<1> QED
  BY <1>2

(***************************************************************************)
(* parseRange clamps to the body: a range it accepts is one of its bytes.  *)
(***************************************************************************)
RangeHeaders == [first : Nat \cup {-1}, last : Nat \cup {-1}]
\* The range parseRange returns starts and ends in the body.
LEMMA RangeIsInside ==
  ASSUME NEW r \in RangeHeaders, NEW size \in Nat
  PROVE  LET br == parseRange(r, size) IN
         /\ br.kind \in {"full", "unsatisfiable", "range"}
         /\ br.kind = "range" => /\ br.start \in Nat /\ br.end \in Nat
                                 /\ br.start <= br.end /\ br.end < size
<1> DEFINE br == parseRange(r, size)
<1>1. /\ r.first \in Int /\ r.last \in Int
      /\ r.first = -1 \/ r.first >= 0
      /\ r.last = -1 \/ r.last >= 0
  BY DEF RangeHeaders
<1>2. /\ Min({r.last, size}) \in {r.last, size} /\ Min({r.last, size}) <= r.last /\ Min({r.last, size}) <= size
      /\ Min({r.last, size - 1}) \in {r.last, size - 1} /\ Min({r.last, size - 1}) <= r.last
      /\ Min({r.last, size - 1}) <= size - 1
  <2>1. size - 1 \in Int /\ size \in Int
    OBVIOUS
  <2> QED
    BY <1>1, <2>1, LesserOf
<1>3. CASE r.first = -1 /\ r.last = -1
  BY <1>3 DEF parseRange
<1>4. CASE r.first = -1 /\ r.last >= 0
  <2>1. br = IF r.last = 0 \/ size = 0 THEN [kind |-> "unsatisfiable"]
             ELSE [kind |-> "range", start |-> size - Min({r.last, size}), end |-> size - 1]
    BY <1>1, <1>4 DEF parseRange
  <2> QED
    BY <1>1, <1>2, <1>4, <2>1
<1>5. CASE r.first >= 0 /\ r.last # -1 /\ r.last < r.first
  <2>1. br = [kind |-> "full"]
    BY <1>1, <1>5 DEF parseRange
  <2> QED
    BY <2>1
<1>6. CASE r.first >= 0 /\ (r.last = -1 \/ r.last >= r.first)
  <2>1. br = IF r.first >= size THEN [kind |-> "unsatisfiable"]
             ELSE [kind |-> "range", start |-> r.first,
                   end |-> IF r.last = -1 THEN size - 1 ELSE Min({r.last, size - 1})]
    BY <1>1, <1>6 DEF parseRange
  <2> QED
    BY <1>1, <1>2, <1>6, <2>1
<1> QED
  BY <1>1, <1>3, <1>4, <1>5, <1>6

(***************************************************************************)
(* What a request is.                                                      *)
(***************************************************************************)
LEMMA RequestFacts ==
  ASSUME NEW r \in Requests
  PROVE  /\ r.route \in {"blob", "manifest", "fs"} /\ r.method \in {"GET", "HEAD"}
         /\ r.range \in RangeHeaders
         /\ r.route = "blob" => r.of \in {"raw", "prism", "absent"}
         /\ r.route = "fs" => /\ r.entry \in {"file", "missing", "loop", "dir"} /\ r.format \in {"", "tar", "other"}
                              /\ r.entry = "dir" => r.format = "tar"
<1>1. r.range \in RangeHeaders
  <2>1. \A x \in Ranges : x \in RangeHeaders
    BY ReadAssumption DEF RangeAssumption, RangeHeaders
  <2>2. NoRange \in RangeHeaders
    BY DEF NoRange, RangeHeaders
  <2> HIDE DEF RangeHeaders, NoRange
  <2>3. r.range \in {NoRange} \cup Ranges
    BY DEF Requests
  <2> QED
    BY <2>1, <2>2, <2>3
<1> HIDE DEF RangeHeaders
<1>2. r.of \in Offered(r.route) /\ r.route \in {"blob", "manifest", "fs"} /\ r.method \in {"GET", "HEAD"}
  BY DEF Requests
<1>3. /\ r.entry \in {"file", "missing", "loop", "dir"} /\ r.format \in {"", "tar", "other"}
      /\ r.entry = "dir" => r.format = "tar"
  BY DEF Requests
<1> QED
  BY <1>1, <1>2, <1>3 DEF Offered

(***************************************************************************)
(* Objects one behind the other: the first one taken off, a row put before *)
(* another.                                                                *)
(***************************************************************************)
LEMMA AdjoinTail ==
  ASSUME NEW O, \A k \in O : k.at \in Nat /\ k.length \in Nat,
         NEW ks \in Seq(O), ks # <<>>, NEW a \in Nat, NEW b \in Nat, Adjoin(ks, a, b)
  PROVE  /\ Head(ks) \in O /\ Tail(ks) \in Seq(O) /\ Head(ks).at = a
         /\ Adjoin(Tail(ks), a + Head(ks).length, b)
<1> DEFINE n == Len(ks)
           t == Tail(ks)
<1>1. /\ n \in Nat \ {0} /\ DOMAIN ks = 1..n /\ \A i \in 1..n : ks[i] \in O
      /\ Head(ks) = ks[1] /\ t \in Seq(O) /\ Len(t) = n - 1 /\ \A i \in 1..(n - 1) : t[i] = ks[i + 1]
  BY HeadTailProperties, LenProperties, EmptySeq
<1>2. ks[1].at = a /\ ks[n].at + ks[n].length = b /\ \A i \in 1..(n - 1) : ks[i + 1].at = ks[i].at + ks[i].length
  BY DEF Adjoin
<1>3. Adjoin(t, a + ks[1].length, b)
  <2>1. CASE n = 1
    <3>1. t = <<>>
      <4>1. Len(t) = 0
        BY <1>1, <2>1
      <4> HIDE DEF t
      <4> QED
        BY <1>1, <4>1, EmptySeq
    <3> QED
      BY <1>2, <2>1, <3>1 DEF Adjoin
  <2>2. CASE n > 1
    <3>1. t # <<>>
      <4>1. Len(t) > 0
        BY <1>1, <2>2
      <4> HIDE DEF t
      <4> QED
        BY <4>1
    <3>2. t[1] = ks[2] /\ t[n - 1] = ks[n]
      BY <1>1, <2>2
    <3>3. \A i \in 1..(n - 2) : t[i] = ks[i + 1] /\ t[i + 1] = ks[i + 2] /\ ks[(i + 1) + 1] = ks[i + 2] /\ i + 1 \in 1..(n - 1)
      BY <1>1, <2>2
    <3>4. \A i \in 1..(n - 2) : t[i + 1].at = t[i].at + t[i].length
      BY <1>2, <3>3
    <3>5. t[1].at = a + ks[1].length
      <4>1. 1 \in 1..(n - 1) /\ 1 + 1 = 2
        BY <1>1, <2>2
      <4> QED
        BY <1>2, <3>2, <4>1
    <3>6. Len(t) = n - 1 /\ Len(t) - 1 = n - 2
      BY <1>1
    <3> QED
      BY <1>2, <3>1, <3>2, <3>4, <3>5, <3>6 DEF Adjoin
  <2> QED
    BY <1>1, <2>1, <2>2
<1> QED
  BY <1>1, <1>2, <1>3

\* Two rows of objects, the second where the first ends, are one row.
LEMMA AdjoinJoined ==
  ASSUME NEW O, \A k \in O : k.at \in Nat /\ k.length \in Nat,
         NEW ks \in Seq(O), NEW ls \in Seq(O), NEW a \in Nat, NEW b \in Nat, NEW c \in Nat,
         Adjoin(ks, a, b), Adjoin(ls, b, c)
  PROVE  Adjoin(ks \o ls, a, c)
<1> DEFINE m == Len(ks)
           n == Len(ls)
           s == ks \o ls
<1>1. /\ m \in Nat /\ n \in Nat /\ Len(s) = m + n /\ s \in Seq(O)
      /\ \A i \in 1..m : s[i] = ks[i] /\ ks[i] \in O
      /\ \A i \in 1..(m + n) : i > m => s[i] = ls[i - m]
      /\ \A i \in 1..n : ls[i] \in O
  BY ConcatProperties, LenProperties
<1>2. CASE ks = <<>>
  <2>1. s = ls /\ a = b
    BY <1>2 DEF Adjoin
  <2> QED
    BY <2>1
<1>3. CASE ls = <<>>
  <2>1. s = ks /\ b = c
    BY <1>3 DEF Adjoin
  <2> QED
    BY <2>1
<1>4. CASE ks # <<>> /\ ls # <<>>
  <2>1. m > 0 /\ n > 0
    BY <1>1, <1>4, EmptySeq
  <2>2. /\ ks[1].at = a /\ ks[m].at + ks[m].length = b
        /\ \A i \in 1..(m - 1) : ks[i + 1].at = ks[i].at + ks[i].length
        /\ ls[1].at = b /\ ls[n].at + ls[n].length = c
        /\ \A i \in 1..(n - 1) : ls[i + 1].at = ls[i].at + ls[i].length
    BY <1>4 DEF Adjoin
  <2>3. s[1] = ks[1] /\ s[m] = ks[m] /\ s[m + 1] = ls[1] /\ s[m + n] = ls[n]
    BY <1>1, <2>1
  <2>4. ASSUME NEW i \in 1..(m + n - 1)
        PROVE  s[i + 1].at = s[i].at + s[i].length
    <3>1. CASE i < m
      <4>1. s[i] = ks[i] /\ s[i + 1] = ks[i + 1] /\ i \in 1..(m - 1)
        BY <1>1, <3>1
      <4> QED
        BY <2>2, <4>1
    <3>2. CASE i = m
      BY <2>2, <2>3, <3>2
    <3>3. CASE i > m
      <4>1. s[i] = ls[i - m] /\ s[i + 1] = ls[(i - m) + 1] /\ i - m \in 1..(n - 1)
        BY <1>1, <3>3
      <4> QED
        BY <2>2, <4>1
    <3> QED
      BY <1>1, <3>1, <3>2, <3>3
  <2>5. s # <<>>
    BY <1>1, <2>1
  <2> QED
    <3>1. Len(s) = m + n /\ m + n - 1 = Len(s) - 1
      BY <1>1
    <3>2. Adjoin(s, a, c)
      <4> HIDE DEF s
      <4>1. \A i \in 1 .. Len(s) - 1 : s[i + 1].at = s[i].at + s[i].length
        BY <2>4, <3>1
      <4>2. s[1].at = a /\ s[Len(s)].at + s[Len(s)].length = c
        BY <2>2, <2>3, <3>1
      <4> QED
        BY <2>5, <4>1, <4>2 DEF Adjoin
    <3> QED
      BY <3>2
<1> QED
  BY <1>2, <1>3, <1>4

(***************************************************************************)
(* Stored bytes: a part of them, two pieces of them, and all of a range.   *)
(***************************************************************************)
LEMMA HoldsPart ==
  ASSUME NEW good \in Seq(Nat), NEW s \in Seq(Nat), NEW a \in Nat, Holds(good, s, a),
         NEW m \in Nat, NEW n \in Nat, m <= n, n <= Len(s)
  PROVE  LET p == SubSeq(s, m + 1, n) IN
         p \in Seq(Nat) /\ Len(p) = n - m /\ Holds(good, p, a + m)
<1> DEFINE p == SubSeq(s, m + 1, n)
<1>1. p \in Seq(Nat) /\ Len(p) = n - m /\ \A i \in 1..(n - m) : p[i] = s[m + i]
  <2>1. CASE m = n
    BY <2>1
  <2>2. CASE m < n
    BY <2>2
  <2> QED
    BY <2>1, <2>2
<1>2. Len(good) \in Nat /\ Len(s) \in Nat
  BY LenProperties
<1>3. \A i \in 1..(n - m) : m + i \in 1..Len(s) /\ a + (m + i) = (a + m) + i
  BY <1>2
<1>4. \A i \in 1..(n - m) : p[i] = good[(a + m) + i]
  BY <1>1, <1>3 DEF Holds
<1>5. (a + m) + (n - m) <= Len(good)
  BY <1>2 DEF Holds
<1>6. Holds(good, p, a + m)
  <2> HIDE DEF p
  <2> QED
    BY <1>1, <1>4, <1>5 DEF Holds
<1> QED
  BY <1>1, <1>6, Zenon

\* Two pieces of the stored bytes, one behind the other.
LEMMA HoldsJoined ==
  ASSUME NEW good \in Seq(Nat), NEW s \in Seq(Nat), NEW t \in Seq(Nat), NEW a \in Nat,
         Holds(good, s, a), Holds(good, t, a + Len(s))
  PROVE  Holds(good, s \o t, a)
<1> DEFINE m == Len(s)
           n == Len(t)
           u == s \o t
<1>1. /\ m \in Nat /\ n \in Nat /\ Len(good) \in Nat /\ Len(u) = m + n
      /\ \A i \in 1..m : u[i] = s[i]
      /\ \A i \in 1..(m + n) : i > m => u[i] = t[i - m]
  BY ConcatProperties, LenProperties
<1>2. ASSUME NEW i \in 1..(m + n)
      PROVE  u[i] = good[a + i]
  <2>1. CASE i <= m
    BY <1>1, <2>1 DEF Holds
  <2>2. CASE i > m
    <3>1. i - m \in 1..n /\ u[i] = t[i - m] /\ (a + m) + (i - m) = a + i
      BY <1>1, <2>2
    <3> QED
      BY <3>1 DEF Holds
  <2> QED
    BY <1>1, <2>1, <2>2
<1> QED
  BY <1>1, <1>2 DEF Holds

\* Stored bytes of a range's length are the range.
LEMMA HoldsRange ==
  ASSUME NEW good \in Seq(Nat), NEW s \in Seq(Nat), NEW a \in Nat, NEW b \in Int, Holds(good, s, a),
         Len(s) = b - a + 1
  PROVE  s = SubSeq(good, a + 1, b + 1)
<1> DEFINE u == SubSeq(good, a + 1, b + 1)
<1>1. Len(s) \in Nat /\ Len(good) \in Nat /\ b + 1 <= Len(good)
  BY LenProperties DEF Holds
<1>2. Len(u) = Len(s) /\ u \in Seq(Nat) /\ \A i \in 1..Len(s) : u[i] = good[a + i]
  <2>1. CASE Len(s) = 0
    BY <1>1, <2>1
  <2>2. CASE Len(s) > 0
    BY <1>1, <2>2
  <2>3. Len(s) = 0 \/ Len(s) > 0
    BY <1>1
  <2> HIDE DEF u
  <2> QED
    BY <2>1, <2>2, <2>3, Zenon
<1>3. \A i \in 1..Len(s) : s[i] = u[i]
  BY <1>2 DEF Holds
<1> QED
  BY <1>2, <1>3, SeqEqual

\* Stored bytes of the whole length are the content.
LEMMA HoldsAll ==
  ASSUME NEW good \in Seq(Nat), NEW s \in Seq(Nat), Holds(good, s, 0), Len(s) = Len(good)
  PROVE  s = good
<1>1. \A i \in 1..Len(s) : s[i] = good[i]
  BY LenProperties DEF Holds
<1> QED
  BY <1>1, SeqEqual

-----------------------------------------------------------------------------
(***************************************************************************)
(* The invariant.  A response that is being sent promised no more than it  *)
(* can keep: Promised.  What an ended copy reports is true: Outcome.  While *)
(* the objects are those stored, what was sent, what is left of the chunk  *)
(* and the keys to visit lie one behind the other from the first byte      *)
(* asked for to the end of the body: Placed.                               *)
(***************************************************************************)
HeaderNames == {"type", "length", "digest", "etag", "content-range", "accept-ranges"}
ReadTypeOK ==
  /\ req \in Requests /\ content \in Contents /\ away \in BOOLEAN
  /\ fetched \subseteq content.objects
  /\ reader \in [pending : Seq(content.objects), cur : Seq(Nat)]
  /\ body \in [at : {"none", "skip", "copy", "ended"}, skip : Nat, todo : Int,
               err : {"none", "other", "eof", "gone"}]
  /\ resp \in [status : Nat, headers : SUBSET HeaderNames, promised : Int, started : BOOLEAN,
               envelope : BOOLEAN, out : Seq(Nat), end : {"open", "done", "aborted"}]

Want == parseRange(req.range, Size)
Origin == IF resp.status = 206 THEN Want.start ELSE 0
Sending == body.at # "none"
OfContent == {"digest", "etag", "content-range", "accept-ranges"}
InRange(k) == k.length > 0 => k.at <= Want.end /\ Want.start < k.at + k.length

Unanswered ==
  ~Sending /\ resp.end = "open" =>
    /\ resp = NoResponse /\ body = NoBody /\ reader = NewReader(content.tree)
    /\ fetched = {} /\ ~away

Promised ==
  Sending =>
    /\ resp.end = "open" /\ ~resp.envelope /\ (resp.started \/ resp.out = <<>>)
    /\ req.method = "GET" /\ (resp.headers \ TakenBack) \cap OfContent = {}
    /\ resp.status \in {200, 206}
    /\ resp.status = 200 => resp.promised = Size \/ (req.route = "fs" /\ resp.promised = -1)
    /\ resp.status = 206 => /\ req.route \in {"blob", "fs"} /\ Want.kind = "range"
                            /\ resp.promised = (Want.end - Want.start) + 1
    /\ Limited => body.todo >= 0 /\ Len(resp.out) + body.todo = resp.promised

Outcome ==
  /\ body.at \in {"skip", "copy"} => body.err = "none"
  /\ body.at = "skip" => resp.status = 206
  /\ body.at = "copy" => body.skip = 0
  /\ body.at = "ended" /\ body.err = "gone" => away
  /\ body.at = "ended" /\ body.err = "none" =>
       IF Limited THEN body.todo = 0
       ELSE (req.route = "fs" /\ ~Intact) \/ resp.out = content.good

Here == ((Origin - body.skip) + Len(resp.out)) + Len(reader.cur)
Placed ==
  Intact /\ Sending =>
    /\ Holds(content.good, resp.out, Origin)
    /\ resp.status = 206 => \A k \in fetched : InRange(k)
    /\ body.at = "skip" => resp.out = <<>>
    /\ body.at \in {"skip", "copy"} =>
         /\ body.skip <= Origin /\ (body.skip > 0 => reader.cur = <<>>)
         /\ Holds(content.good, reader.cur, Origin + Len(resp.out))
         /\ Adjoin(reader.pending, Here, Size)

Finished == ~Sending => ResponseIsHonest /\ RangeIsExact

ReadInv == ReadTypeOK /\ Unanswered /\ Promised /\ Outcome /\ Placed /\ Finished

(***************************************************************************)
(* What the assumptions say of the content a request reads, and of the     *)
(* range it asks for.                                                      *)
(***************************************************************************)
LEMMA ContentFacts ==
  ASSUME content \in Contents
  PROVE  /\ content.good \in Seq(Nat) /\ Size \in Nat /\ content.tree \in content.objects
         /\ \A k \in content.objects : /\ k.node \in BOOLEAN /\ k.at \in Nat /\ k.length \in Nat
                                       /\ k.bytes \in Seq(Nat) /\ k.kids \in Seq(content.objects)
<1>1. content.good \in Seq(Nat)
  BY ReadAssumption DEF ContentAssumption
<1>2. Size \in Nat
  BY <1>1, LenProperties DEF Size
<1> QED
  BY <1>1, <1>2, ReadAssumption DEF ContentAssumption

\* The range a request asks for lies in its content.
LEMMA WantFacts ==
  ASSUME ReadTypeOK
  PROVE  /\ Want.kind \in {"full", "unsatisfiable", "range"}
         /\ Want.kind = "range" => /\ Want.start \in Nat /\ Want.end \in Nat
                                   /\ Want.start <= Want.end /\ Want.end < Size
<1>1. req.range \in RangeHeaders /\ Size \in Nat
  BY RequestFacts, ContentFacts DEF ReadTypeOK
<1> QED
  BY <1>1, RangeIsInside DEF Want

\* A body that is sent starts inside the content.
LEMMA OriginFacts ==
  ASSUME ReadTypeOK, Promised, Sending
  PROVE  /\ Origin \in Nat /\ Size \in Nat /\ Origin <= Size
         /\ resp.status = 206 => /\ Want.start = Origin /\ Want.end \in Nat
                                 /\ Origin <= Want.end /\ Want.end < Size
<1>1. Size \in Nat
  BY ContentFacts DEF ReadTypeOK
<1>2. CASE resp.status = 206
  <2>1. /\ Want.start \in Nat /\ Want.end \in Nat /\ Want.start <= Want.end /\ Want.end < Size
        /\ Origin = Want.start
    BY <1>2, WantFacts DEF Promised, Origin
  <2> QED
    BY <1>1, <2>1
<1>3. CASE resp.status # 206
  BY <1>1, <1>3 DEF Origin
<1> QED
  BY <1>2, <1>3

\* Before its handler runs a request has sent nothing.
LEMMA ReadInvInit == ReadInit => ReadInv
<1> SUFFICES ASSUME ReadInit PROVE ReadInv
  OBVIOUS
<1> USE DEF ReadInit
<1>1. content.tree \in content.objects
  BY ContentFacts
<1>2. ReadTypeOK
  <2>1. <<content.tree>> \in Seq(content.objects) /\ <<>> \in Seq(Nat)
    <3>1. <<>> \in Seq(Nat)
      OBVIOUS
    <3>2. \A S : \A x \in S : <<x>> \in Seq(S)
      OBVIOUS
    <3>3. <<content.tree>> \in Seq(content.objects)
      BY <1>1, <3>2, Zenon
    <3> QED
      BY <3>1, <3>3
  <2>2. reader \in [pending : Seq(content.objects), cur : Seq(Nat)]
    BY <2>1 DEF NewReader
  <2>3. /\ body \in [at : {"none", "skip", "copy", "ended"}, skip : Nat, todo : Int,
                     err : {"none", "other", "eof", "gone"}]
        /\ resp \in [status : Nat, headers : SUBSET HeaderNames, promised : Int, started : BOOLEAN,
                     envelope : BOOLEAN, out : Seq(Nat), end : {"open", "done", "aborted"}]
    BY <2>1 DEF NoResponse, NoBody
  <2> QED
    BY <2>2, <2>3 DEF ReadTypeOK
<1>3. Unanswered /\ ~Sending
  BY DEF Unanswered, Sending, NoBody
<1>4. Promised /\ Outcome /\ Placed
  BY <1>3 DEF Promised, Outcome, Placed, NoBody, Sending
<1>5. Finished
  BY DEF Finished, ResponseIsHonest, ErrorIsPlain, DigestedIsRight, EntryIsRight, TakenForWhole, RangeIsExact, Complete, NoResponse
<1> QED
  BY <1>2, <1>3, <1>4, <1>5 DEF ReadInv

(***************************************************************************)
(* A step that leaves the request and its content alone leaves alone what  *)
(* they say, and one that leaves the response alone keeps its promise.     *)
(***************************************************************************)
LEMMA SameRequest ==
  ASSUME UNCHANGED <<req, content>>
  PROVE  Want' = Want /\ Size' = Size /\ Intact' = Intact
  BY DEF Want, Size, Intact

\* A step of a copy that leaves the response alone keeps the promise.
LEMMA SameResponse ==
  ASSUME ReadInv, UNCHANGED <<req, content, resp>>, Sending, body'.todo = body.todo
  PROVE  /\ Promised' /\ Origin' = Origin /\ Limited' = Limited
         /\ Intact' = Intact /\ Size' = Size /\ Want' = Want
<1>1. Want' = Want /\ Size' = Size /\ Intact' = Intact
  BY SameRequest
<1>2. Limited' = Limited /\ TakenBack' = TakenBack /\ Origin' = Origin
  BY <1>1 DEF Limited, TakenBack, Origin
<1> QED
  BY <1>1, <1>2 DEF ReadInv, Promised

(***************************************************************************)
(* A handler answers at once, promises the whole body, or promises a range *)
(* and begins to skip to it.                                               *)
(***************************************************************************)
HeadersFit(h, p) ==
  /\ req.route = "blob" => h \subseteq {"type", "digest", "length", "accept-ranges", "content-range"}
  /\ req.route = "manifest" => h \subseteq {"type", "digest", "length"}
  /\ req.route = "fs" /\ p # -1 => h \subseteq {"etag", "type", "length", "accept-ranges", "content-range"}
  /\ req.route = "fs" /\ p = -1 => h \subseteq {"type"}

AnswersNow ==
  \E s \in Nat, h \in SUBSET HeaderNames :
    /\ s # 206 /\ body' = NoBody
    /\ \/ s # 200 /\ resp' = Envelope(s, {})
       \/ (s = 200 => req.method = "HEAD") /\ resp' = HeadersOnly(s, h)

PromisesAll ==
  \E h \in SUBSET HeaderNames, p \in Int :
    /\ req.method = "GET" /\ HeadersFit(h, p)
    /\ p = Size \/ (req.route = "fs" /\ p = -1)
    /\ resp' = Promise(200, h, p) /\ body' = [NoBody EXCEPT !.at = "copy", !.todo = Size]

PromisesRange ==
  \E h \in SUBSET HeaderNames :
    /\ req.method = "GET" /\ req.route \in {"blob", "fs"} /\ Want.kind = "range"
    /\ HeadersFit(h, (Want.end - Want.start) + 1)
    /\ resp' = Promise(206, h, (Want.end - Want.start) + 1)
    /\ body' = [NoBody EXCEPT !.at = "skip", !.skip = Want.start, !.todo = (Want.end - Want.start) + 1]

\* Ranged answers 416, promises the whole body or promises the range.
LEMMA RangedAnswers ==
  ASSUME ReadInv, NEW own \in SUBSET HeaderNames, NEW left \in SUBSET HeaderNames, Ranged(own, left),
         req.method = "GET", req.route \in {"blob", "fs"},
         \A p \in Nat : HeadersFit(own \cup {"content-range"}, p)
  PROVE  AnswersNow \/ PromisesAll \/ PromisesRange
<1>1. Size \in Nat /\ Want.kind \in {"full", "unsatisfiable", "range"}
  BY ContentFacts, WantFacts DEF ReadInv, ReadTypeOK
<1>2. CASE Want.kind = "unsatisfiable"
  <2>1. resp' = HeadersOnly(416, left \cup {"content-range"}) /\ body' = NoBody
    BY <1>2 DEF Ranged, Want
  <2>2. left \cup {"content-range"} \in SUBSET HeaderNames
    BY DEF HeaderNames
  <2> QED
    BY <2>1, <2>2 DEF AnswersNow
<1>3. CASE Want.kind = "full"
  <2>1. resp' = Promise(200, own, Size) /\ body' = [NoBody EXCEPT !.at = "copy", !.todo = Size]
    BY <1>3 DEF Ranged, Want
  <2>2. HeadersFit(own, Size)
    BY <1>1 DEF HeadersFit, HeaderNames
  <2> QED
    BY <1>1, <2>1, <2>2 DEF PromisesAll
<1>4. CASE Want.kind = "range"
  <2>1. /\ resp' = Promise(206, own \cup {"content-range"}, (Want.end - Want.start) + 1)
        /\ body' = [NoBody EXCEPT !.at = "skip", !.skip = Want.start, !.todo = (Want.end - Want.start) + 1]
    BY <1>4 DEF Ranged, Want
  <2>2. (Want.end - Want.start) + 1 \in Nat
    BY <1>4, WantFacts DEF ReadInv
  <2>3. own \cup {"content-range"} \in SUBSET HeaderNames
    BY DEF HeaderNames
  <2> QED
    BY <1>4, <2>1, <2>2, <2>3 DEF PromisesRange
<1> QED
  BY <1>1, <1>2, <1>3, <1>4

\* serveBlob begins a response in one of the three ways.
LEMMA BlobIsAnswered ==
  ASSUME ReadInv, serveBlob
  PROVE  AnswersNow \/ PromisesAll \/ PromisesRange
<1> DEFINE own == {"type", "digest", "length"} \cup IF req.of = "raw" THEN {"accept-ranges"} ELSE {}
<1>1. /\ req.route = "blob" /\ req.of \in {"raw", "prism", "absent"} /\ req.method \in {"GET", "HEAD"}
      /\ Size \in Nat
  BY RequestFacts, ContentFacts DEF serveBlob, ReadInv, ReadTypeOK
<1>2. own \in SUBSET HeaderNames /\ \A p \in Int : HeadersFit(own, p) /\ HeadersFit(own \cup {"content-range"}, p)
  BY <1>1 DEF HeadersFit, HeaderNames
<1>3. CASE req.of = "absent"
  <2>1. Answer(Envelope(404, {}))
    BY <1>3 DEF serveBlob
  <2> QED
    BY <2>1 DEF Answer, AnswersNow
<1>4. CASE req.of # "absent" /\ req.method = "HEAD"
  <2>1. Answer(HeadersOnly(200, own))
    BY <1>1, <1>4 DEF serveBlob
  <2> HIDE DEF own
  <2> QED
    BY <1>2, <1>4, <2>1 DEF Answer, AnswersNow
<1>5. CASE req.of = "raw" /\ req.method = "GET"
  <2>1. Ranged(own, {"accept-ranges", "length"})
    BY <1>5 DEF serveBlob
  <2> HIDE DEF own
  <2> QED
    <3>1. {"accept-ranges", "length"} \in SUBSET HeaderNames
      BY DEF HeaderNames
    <3>2. \A p \in Nat : HeadersFit(own \cup {"content-range"}, p)
      BY <1>2
    <3> QED
      BY <1>1, <1>2, <1>5, <2>1, <3>1, <3>2, RangedAnswers
<1>6. CASE req.of = "prism" /\ req.method = "GET"
  <2>1. Stream(Promise(200, own, Size))
    BY <1>6 DEF serveBlob
  <2> HIDE DEF own
  <2> QED
    BY <1>1, <1>2, <1>6, <2>1 DEF Stream, PromisesAll
<1> QED
  BY <1>1, <1>3, <1>4, <1>5, <1>6

\* serveManifest begins a response in one of the three ways.
LEMMA ManifestIsAnswered ==
  ASSUME ReadInv, serveManifest
  PROVE  AnswersNow \/ PromisesAll \/ PromisesRange
<1> DEFINE own == {"type", "digest", "length"}
<1>1. req.route = "manifest" /\ req.method \in {"GET", "HEAD"} /\ Size \in Nat
  BY RequestFacts, ContentFacts DEF serveManifest, ReadInv, ReadTypeOK
<1>2. own \in SUBSET HeaderNames /\ HeadersFit(own, Size)
  BY <1>1 DEF HeadersFit, HeaderNames
<1>3. CASE req.of = "absent"
  <2>1. Answer(Envelope(404, {}))
    BY <1>3 DEF serveManifest
  <2> QED
    BY <2>1 DEF Answer, AnswersNow
<1>4. CASE req.of # "absent" /\ req.method = "HEAD"
  <2>1. Answer(HeadersOnly(200, own))
    BY <1>4 DEF serveManifest
  <2> HIDE DEF own
  <2> QED
    BY <1>2, <1>4, <2>1 DEF Answer, AnswersNow
<1>5. CASE req.of # "absent" /\ req.method = "GET"
  <2>1. Stream(Promise(200, own, Size))
    BY <1>5 DEF serveManifest
  <2> HIDE DEF own
  <2> QED
    BY <1>1, <1>2, <1>5, <2>1 DEF Stream, PromisesAll
<1> QED
  BY <1>1, <1>3, <1>4, <1>5

\* handleFS, with serveFile and serveTar, begins a response in one of the three ways.
LEMMA FSIsAnswered ==
  ASSUME ReadInv, handleFS
  PROVE  AnswersNow \/ PromisesAll \/ PromisesRange
<1>1. /\ req.route = "fs" /\ req.method \in {"GET", "HEAD"} /\ Size \in Nat
      /\ req.entry \in {"file", "missing", "loop", "dir"} /\ req.format \in {"", "tar", "other"}
      /\ req.entry = "dir" => req.format = "tar"
  BY RequestFacts, ContentFacts DEF handleFS, ReadInv, ReadTypeOK
<1>2. ASSUME NEW s \in Nat \ {200, 206}, Answer(Envelope(s, {}))
      PROVE  AnswersNow
  BY <1>2 DEF Answer, AnswersNow
<1>3. CASE openRootfsImage # "image"
  <2>1. Answer(Envelope(404, {}))
    BY <1>3 DEF handleFS
  <2> QED
    BY <1>2, <2>1
<1>4. CASE openRootfsImage = "image"
  <2>1. CASE req.entry = "file" /\ req.format = ""
    <3> DEFINE own == {"etag", "type", "length", "accept-ranges"}
    <3>1. serveFile
      BY <1>4, <2>1 DEF handleFS
    <3>2. own \in SUBSET HeaderNames /\ \A p \in Nat : HeadersFit(own \cup {"content-range"}, p)
      <4>1. \A p \in Nat : p # -1
        OBVIOUS
      <4>2. /\ own \in SUBSET HeaderNames
            /\ own \cup {"content-range"} \subseteq {"etag", "type", "length", "accept-ranges", "content-range"}
        BY DEF HeaderNames
      <4> HIDE DEF own
      <4> QED
        BY <1>1, <4>1, <4>2 DEF HeadersFit
    <3>3. CASE req.match
      <4>1. Answer(HeadersOnly(304, {"etag"}))
        BY <3>1, <3>3 DEF serveFile
      <4> QED
        <5>1. {"etag"} \in SUBSET HeaderNames
          BY DEF HeaderNames
        <5> QED
          BY <4>1, <5>1 DEF Answer, AnswersNow
    <3>4. CASE ~req.match /\ req.method = "HEAD"
      <4>1. Answer(HeadersOnly(200, own))
        BY <3>1, <3>4 DEF serveFile
      <4> HIDE DEF own
      <4> QED
        BY <3>2, <3>4, <4>1 DEF Answer, AnswersNow
    <3>5. CASE ~req.match /\ req.method = "GET"
      <4>1. Ranged(own, {"length"})
        BY <3>1, <3>5 DEF serveFile
      <4> HIDE DEF own
      <4> QED
        <5>1. {"length"} \in SUBSET HeaderNames
          BY DEF HeaderNames
        <5> QED
          BY <1>1, <3>2, <3>5, <4>1, <5>1, RangedAnswers
    <3> QED
      BY <1>1, <3>3, <3>4, <3>5
  <2>2. CASE req.entry = "dir" /\ req.format = "tar"
    <3>1. serveTar
      BY <1>4, <2>2 DEF handleFS
    <3>2. HeadersFit({"type"}, -1) /\ {"type"} \in SUBSET HeaderNames /\ -1 \in Int
      <4>1. -1 \in Int
        OBVIOUS
      <4>2. {"type"} \in SUBSET HeaderNames
        BY DEF HeaderNames
      <4> QED
        BY <1>1, <4>1, <4>2 DEF HeadersFit
    <3>3. CASE req.method = "HEAD"
      <4>1. Answer(HeadersOnly(200, {"type"}))
        BY <3>1, <3>3 DEF serveTar
      <4> QED
        BY <3>2, <3>3, <4>1 DEF Answer, AnswersNow
    <3>4. CASE req.method = "GET"
      <4>1. Stream(Promise(200, {"type"}, -1))
        BY <3>1, <3>4 DEF serveTar
      <4> QED
        BY <1>1, <3>2, <3>4, <4>1 DEF Stream, PromisesAll
    <3> QED
      BY <1>1, <3>3, <3>4
  <2>3. CASE ~(req.entry = "file" /\ req.format = "") /\ req.entry # "dir"
    <3>1. Answer(Envelope(400, {})) \/ Answer(Envelope(404, {}))
      BY <1>1, <1>4, <2>3 DEF handleFS
    <3> QED
      BY <1>2, <3>1
  <2> QED
    BY <1>1, <2>1, <2>2, <2>3
<1> QED
  BY <1>3, <1>4

(***************************************************************************)
(* The three ways a response begins.                                       *)
(***************************************************************************)
Responses == [status : Nat, headers : SUBSET HeaderNames, promised : Int, started : BOOLEAN,
              envelope : BOOLEAN, out : Seq(Nat), end : {"open", "done", "aborted"}]
\* The constructors make responses.
LEMMA ResponseShapes ==
  ASSUME NEW s \in Nat, NEW h \in SUBSET HeaderNames, NEW p \in Int
  PROVE  Envelope(s, h) \in Responses /\ HeadersOnly(s, h) \in Responses /\ Promise(s, h, p) \in Responses
<1>1. <<>> \in Seq(Nat) /\ -1 \in Int
  OBVIOUS
<1>2. Envelope(s, h) \in Responses
  BY <1>1 DEF Responses, Envelope
<1>3. HeadersOnly(s, h) \in Responses
  BY <1>1 DEF Responses, HeadersOnly
<1>4. Promise(s, h, p) \in Responses
  BY <1>1 DEF Responses, Promise
<1> QED
  BY <1>2, <1>3, <1>4

\* A response that begins in one of the three ways keeps the invariant.
LEMMA HandlersKeepInv ==
  ASSUME ReadInv, Waiting, Rest, AnswersNow \/ PromisesAll \/ PromisesRange
  PROVE  ReadInv'
<1> USE DEF ReadInv
<1>1. /\ ~Sending /\ fetched' = {} /\ reader' = NewReader(content'.tree) /\ content' \in Contents
      /\ UNCHANGED <<req, content, fetched, reader, away>>
  BY DEF Waiting, Rest, Sending, Unanswered, ReadTypeOK
<1>2. /\ Want' = Want /\ Size' = Size /\ Intact' = Intact /\ Size \in Nat
      /\ content.tree \in content.objects
  BY <1>1, SameRequest, ContentFacts
<1>3. CASE AnswersNow
  <2>1. PICK s \in Nat, h \in SUBSET HeaderNames :
          /\ s # 206 /\ body' = NoBody
          /\ \/ s # 200 /\ resp' = Envelope(s, {})
             \/ (s = 200 => req.method = "HEAD") /\ resp' = HeadersOnly(s, h)
    BY <1>3 DEF AnswersNow
  <2>2. /\ resp'.end = "done" /\ resp'.status = s /\ resp'.out = <<>> /\ resp'.promised = -1
        /\ resp'.envelope => resp'.headers = {}
        /\ resp'.status = 200 => req'.method = "HEAD"
        /\ resp' \in Responses
    <3>1. {} \in SUBSET HeaderNames /\ 0 \in Int
      OBVIOUS
    <3>2. CASE s # 200 /\ resp' = Envelope(s, {})
      BY <3>1, <3>2, ResponseShapes DEF Envelope
    <3>3. CASE (s = 200 => req.method = "HEAD") /\ resp' = HeadersOnly(s, h)
      BY <1>1, <3>1, <3>3, ResponseShapes DEF HeadersOnly
    <3> QED
      BY <2>1, <3>2, <3>3
  <2>3. body' = NoBody /\ ~Sending'
    BY <2>1 DEF NoBody, Sending
  <2>4. ReadTypeOK'
    BY <1>1, <2>2, <2>3 DEF ReadTypeOK, Responses, NoBody
  <2>5. Unanswered' /\ Promised' /\ Placed'
    BY <2>2, <2>3 DEF Unanswered, Promised, Placed
  <2>6. Outcome'
    BY <2>3 DEF Outcome, NoBody
  <2>7. ResponseIsHonest'
    BY <2>2 DEF ResponseIsHonest, ErrorIsPlain, DigestedIsRight, EntryIsRight, TakenForWhole
  <2>8. RangeIsExact'
    BY <2>1, <2>2 DEF RangeIsExact
  <2> QED
    BY <2>4, <2>5, <2>6, <2>7, <2>8 DEF Finished
<1>4. CASE PromisesAll
  <2>1. PICK h \in SUBSET HeaderNames, p \in Int :
          /\ req.method = "GET" /\ HeadersFit(h, p)
          /\ p = Size \/ (req.route = "fs" /\ p = -1)
          /\ resp' = Promise(200, h, p) /\ body' = [NoBody EXCEPT !.at = "copy", !.todo = Size]
    BY <1>4 DEF PromisesAll
  <2>2. /\ resp' \in Responses
        /\ resp'.status = 200 /\ resp'.headers = h /\ resp'.promised = p /\ resp'.out = <<>>
        /\ resp'.end = "open" /\ ~resp'.envelope
    <3>1. 200 \in Nat
      OBVIOUS
    <3>2. resp' \in Responses
      BY <2>1, <3>1, ResponseShapes
    <3> QED
      BY <2>1, <3>2 DEF Promise
  <2>3. body' = [at |-> "copy", skip |-> 0, todo |-> Size, err |-> "none"] /\ Sending'
    BY <2>1 DEF NoBody, Sending
  <2>4. ReadTypeOK'
    BY <1>1, <1>2, <2>2, <2>3 DEF ReadTypeOK, Responses
  <2>5. (resp'.headers \ TakenBack') \cap OfContent = {}
    <3>1. req.route \in {"blob", "manifest", "fs"}
      BY RequestFacts DEF ReadTypeOK
    <3> QED
      BY <1>1, <2>1, <2>2, <3>1 DEF HeadersFit, TakenBack, OfContent
  <2>6. Promised'
    <3>1. Limited' => p = Size
      BY <2>1, <2>2 DEF Limited
    <3>2. Len(resp'.out) = 0
      BY <2>2
    <3> QED
      BY <1>1, <1>2, <2>1, <2>2, <2>3, <2>5, <3>1, <3>2 DEF Promised, OfContent
  <2>7. Unanswered' /\ Finished' /\ Outcome'
    BY <2>2, <2>3 DEF Unanswered, Finished, Outcome
  <2>8. Placed'
    <3> SUFFICES ASSUME Intact PROVE Placed'
      BY <1>2 DEF Placed
    <3>1. content.tree.at = 0 /\ content.tree.length = Size
      BY DEF Intact, StoredAs, Size
    <3>2. Adjoin(<<content.tree>>, 0, Size)
      BY <1>2, <3>1 DEF Adjoin
    <3>3. Origin' = 0
      BY <2>2 DEF Origin
    <3>4. Holds(content'.good, <<>>, 0)
      BY <1>1, <1>2 DEF Holds, Size
    <3>5. /\ reader'.cur = <<>> /\ reader'.pending = <<content.tree>> /\ Len(<<>>) = 0
      BY <1>1 DEF NewReader
    <3>6. /\ Holds(content'.good, resp'.out, Origin') /\ body'.skip <= Origin'
          /\ Holds(content'.good, reader'.cur, Origin' + Len(resp'.out))
          /\ Adjoin(reader'.pending, Here', Size')
      <4>1. Here' = 0 /\ Origin' + Len(resp'.out) = 0
        BY <2>2, <2>3, <3>3, <3>5 DEF Here
      <4> QED
        BY <1>2, <2>2, <2>3, <3>2, <3>3, <3>4, <3>5, <4>1
    <3> QED
      BY <2>2, <2>3, <3>6 DEF Placed
  <2> QED
    BY <2>4, <2>6, <2>7, <2>8
<1>5. CASE PromisesRange
  <2> DEFINE p == (Want.end - Want.start) + 1
  <2>1. PICK h \in SUBSET HeaderNames :
          /\ req.method = "GET" /\ req.route \in {"blob", "fs"} /\ Want.kind = "range"
          /\ HeadersFit(h, p) /\ resp' = Promise(206, h, p)
          /\ body' = [NoBody EXCEPT !.at = "skip", !.skip = Want.start, !.todo = p]
    BY <1>5 DEF PromisesRange
  <2>w. Want.start \in Nat /\ Want.end \in Nat /\ Want.start <= Want.end /\ Want.end < Size /\ p \in Nat \ {0}
    BY <2>1, WantFacts
  <2> HIDE DEF p
  <2>2. /\ resp' \in Responses
        /\ resp'.status = 206 /\ resp'.headers = h /\ resp'.promised = p /\ resp'.out = <<>>
        /\ resp'.end = "open" /\ ~resp'.envelope
    <3>1. p \in Int /\ 206 \in Nat
      BY <2>w
    <3> QED
      <4>1. resp' \in Responses
        BY <2>1, <3>1, ResponseShapes
      <4> QED
        BY <2>1, <4>1 DEF Promise
  <2>3. body' = [at |-> "skip", skip |-> Want.start, todo |-> p, err |-> "none"] /\ Sending'
    BY <2>1 DEF NoBody, Sending
  <2>4. ReadTypeOK'
    BY <1>1, <1>2, <2>w, <2>2, <2>3 DEF ReadTypeOK, Responses
  <2>5. (resp'.headers \ TakenBack') \cap OfContent = {}
    <3>1. p # -1
      BY <2>w
    <3> QED
      BY <1>1, <2>1, <2>2, <3>1 DEF HeadersFit, TakenBack, OfContent
  <2>6. Promised'
    <3>1. Len(resp'.out) = 0
      BY <2>2
    <3> QED
      BY <1>1, <1>2, <2>1, <2>w, <2>2, <2>3, <2>5, <3>1 DEF Promised, OfContent, p
  <2>7. Unanswered' /\ Finished' /\ Outcome'
    BY <2>2, <2>3 DEF Unanswered, Finished, Outcome
  <2>8. Placed'
    <3> SUFFICES ASSUME Intact PROVE Placed'
      BY <1>2 DEF Placed
    <3>1. content.tree.at = 0 /\ content.tree.length = Size
      BY DEF Intact, StoredAs, Size
    <3>2. Adjoin(<<content.tree>>, 0, Size)
      BY <1>2, <3>1 DEF Adjoin
    <3>3. Origin' = Want.start
      BY <1>2, <2>2 DEF Origin
    <3>4. Holds(content'.good, <<>>, Want.start)
      BY <1>1, <1>2, <2>w DEF Holds, Size
    <3>5. reader'.cur = <<>> /\ reader'.pending = <<content.tree>> /\ Want.start - Want.start = 0
      BY <1>1, <2>w DEF NewReader
    <3>6. /\ Holds(content'.good, resp'.out, Origin') /\ body'.skip <= Origin'
          /\ Holds(content'.good, reader'.cur, Origin' + Len(resp'.out))
          /\ Adjoin(reader'.pending, Here', Size')
      <4>1. Here' = 0 /\ Origin' + Len(resp'.out) = Want.start /\ body'.skip = Want.start
        BY <2>w, <2>2, <2>3, <3>3, <3>5 DEF Here
      <4> QED
        BY <1>2, <2>w, <2>2, <3>2, <3>3, <3>4, <3>5, <4>1
    <3> QED
      BY <1>1, <2>2, <2>3, <3>5, <3>6 DEF Placed
  <2> QED
    BY <2>4, <2>6, <2>7, <2>8
<1> QED
  BY <1>3, <1>4, <1>5

(***************************************************************************)
(* The next key, and where it lies.                                        *)
(***************************************************************************)
LEMMA NextKeyFacts ==
  ASSUME ReadInv, body.at \in {"skip", "copy"}, reader.pending # <<>>
  PROVE  LET k == Head(reader.pending) IN
         /\ k \in content.objects /\ Tail(reader.pending) \in Seq(content.objects)
         /\ k.at \in Nat /\ k.length \in Nat /\ k.node \in BOOLEAN
         /\ k.bytes \in Seq(Nat) /\ k.kids \in Seq(content.objects)
         /\ Intact => Here \in Nat /\ k.at = Here /\ Adjoin(Tail(reader.pending), Here + k.length, Size)
<1> DEFINE k == Head(reader.pending)
           O == content.objects
<1>1. /\ \A x \in O : /\ x.node \in BOOLEAN /\ x.at \in Nat /\ x.length \in Nat
                      /\ x.bytes \in Seq(Nat) /\ x.kids \in Seq(O)
      /\ reader.pending \in Seq(O)
  BY ContentFacts DEF ReadInv, ReadTypeOK
<1>2. k \in O /\ Tail(reader.pending) \in Seq(O)
  BY <1>1, HeadTailProperties
<1>3. ASSUME Intact
      PROVE  Here \in Nat /\ k.at = Here /\ Adjoin(Tail(reader.pending), Here + k.length, Size)
  <2>1. Sending
    BY DEF Sending
  <2>2. Origin \in Nat /\ Size \in Nat
    BY <2>1, OriginFacts DEF ReadInv
  <2>3. body.skip <= Origin /\ Adjoin(reader.pending, Here, Size)
    BY <1>3, <2>1 DEF ReadInv, Placed
  <2>4. body.skip \in Nat /\ Len(resp.out) \in Nat /\ Len(reader.cur) \in Nat
    BY LenProperties DEF ReadInv, ReadTypeOK
  <2>5. Here \in Nat
    <3>1. \A a, b, c, d \in Nat : b <= a => ((a - b) + c) + d \in Nat
      OBVIOUS
    <3> QED
      BY <2>2, <2>3, <2>4, <3>1 DEF Here
  <2>6. \A x \in O : x.at \in Nat /\ x.length \in Nat
    BY <1>1
  <2> HIDE DEF O
  <2> QED
    BY <1>1, <2>2, <2>3, <2>5, <2>6, AdjoinTail
<1> QED
  BY <1>1, <1>2, <1>3

\* A key that has to be fetched for a range holds a byte of it.
LEMMA NextKeyIsInRange ==
  ASSUME ReadInv, FetchDue, Intact, resp.status = 206
  PROVE  InRange(Head(reader.pending))
<1> DEFINE k == Head(reader.pending)
<1>1. body.at \in {"skip", "copy"} /\ reader.pending # <<>> /\ Sending
  BY DEF FetchDue, Sending
<1>2. k.at = Here /\ k.at \in Nat /\ k.length \in Nat
  BY <1>1, NextKeyFacts
<1>3. /\ Origin \in Nat /\ Want.start = Origin /\ Want.end \in Nat /\ Origin <= Want.end
      /\ Limited /\ resp.promised = (Want.end - Want.start) + 1
  BY <1>1, OriginFacts DEF ReadInv, Promised, Limited
<1>4. body.skip \in Nat /\ body.todo \in Int /\ Len(resp.out) \in Nat
  BY LenProperties DEF ReadInv, ReadTypeOK
<1>5. CASE body.at = "skip" /\ body.skip > 0 /\ ~PassedOver(k, body.skip)
  <2>1. Len(reader.cur) = 0 /\ Len(resp.out) = 0
    BY <1>1, <1>5 DEF ReadInv, Placed
  <2>2. Here = Origin - body.skip
    BY <1>3, <1>4, <2>1 DEF Here
  <2>3. k.length > body.skip
    BY <1>2, <1>4, <1>5 DEF PassedOver
  <2>4. body.skip <= Origin
    BY <1>1 DEF ReadInv, Placed
  <2> QED
    BY <1>2, <1>3, <1>4, <2>2, <2>3, <2>4 DEF InRange
<1>6. CASE body.at = "copy" /\ body.todo > 0 /\ reader.cur = <<>>
  <2>1. body.skip = 0 /\ Len(reader.cur) = 0
    BY <1>6 DEF ReadInv, Outcome
  <2>2. Here = Origin + Len(resp.out)
    BY <1>3, <1>4, <2>1 DEF Here
  <2>3. Len(resp.out) + body.todo = (Want.end - Want.start) + 1
    BY <1>1, <1>3 DEF ReadInv, Promised
  <2>4. k.at = Want.start + Len(resp.out)
    BY <1>2, <1>3, <2>2
  <2>5. Want.start + Len(resp.out) <= Want.end
    BY <1>3, <1>4, <1>6, <2>3
  <2>6. k.at <= Want.end /\ Want.start <= k.at
    BY <1>3, <1>4, <2>4, <2>5
  <2> QED
    BY <1>2, <1>3, <2>6 DEF InRange
<1> QED
  BY <1>3, <1>5, <1>6 DEF FetchDue

(***************************************************************************)
(* The steps that leave the response alone.                                *)
(***************************************************************************)
LEMMA EndedKeepsInv ==
  ASSUME ReadInv, body.at \in {"skip", "copy"}, UNCHANGED <<req, content, resp, reader, away>>,
         NEW e \in {"none", "other", "eof", "gone"}, body' = [body EXCEPT !.at = "ended", !.err = e],
         e = "gone" => away,
         e = "none" => IF Limited THEN body.todo = 0
                       ELSE (req.route = "fs" /\ ~Intact) \/ resp.out = content.good,
         fetched' \subseteq content.objects,
         Intact /\ resp.status = 206 => \A k \in fetched' : InRange(k)
  PROVE  ReadInv'
<1> USE DEF ReadInv
<1>1. Sending /\ Sending' /\ body'.todo = body.todo /\ body'.at = "ended" /\ body'.err = e
  BY DEF Sending, ReadTypeOK
<1>2. /\ Promised' /\ Origin' = Origin /\ Limited' = Limited
      /\ Intact' = Intact /\ Size' = Size /\ Want' = Want
  BY <1>1, SameResponse
<1>3. ReadTypeOK'
  BY <1>1 DEF ReadTypeOK
<1>4. Unanswered' /\ Finished'
  BY <1>1 DEF Unanswered, Finished
<1>5. Outcome'
  BY <1>1, <1>2 DEF Outcome
<1>6. Placed'
  BY <1>1, <1>2 DEF Placed, InRange
<1> QED
  BY <1>2, <1>3, <1>4, <1>5, <1>6

\* A failed fetch, a chunk of the wrong length and a failed write end the copy.
LEMMA FailuresKeepInv ==
  ASSUME ReadInv, FetchMisfit \/ WriteFails \/ \E class \in {"other", "eof"} : GetFails(class)
  PROVE  ReadInv'
<1>1. ASSUME FetchDue
      PROVE  /\ body.at \in {"skip", "copy"} /\ Head(reader.pending) \in content.objects
             /\ Intact /\ resp.status = 206 => \A k \in fetched \cup {Head(reader.pending)} : InRange(k)
  <2>1. body.at \in {"skip", "copy"} /\ Head(reader.pending) \in content.objects
    BY <1>1, NextKeyFacts DEF FetchDue
  <2>2. Sending
    BY <2>1 DEF Sending
  <2> QED
    BY <1>1, <2>1, <2>2, NextKeyIsInRange DEF ReadInv, Placed
<1>2. fetched \subseteq content.objects
  BY DEF ReadInv, ReadTypeOK
<1>3. CASE FetchMisfit
  <2>1. FetchDue /\ fetched' = fetched \cup {Head(reader.pending)}
    BY <1>3 DEF FetchMisfit
  <2>2. body' = [body EXCEPT !.at = "ended", !.err = "other"] /\ UNCHANGED <<req, content, resp, reader, away>>
    BY <1>3 DEF FetchMisfit
  <2> QED
    BY <1>1, <1>2, <2>1, <2>2, EndedKeepsInv
<1>4. CASE WriteFails
  <2>1. /\ body.at \in {"skip", "copy"} /\ away
        /\ body' = [body EXCEPT !.at = "ended", !.err = "gone"]
        /\ UNCHANGED <<req, content, resp, reader, fetched, away>>
    BY <1>4 DEF WriteFails
  <2>2. Intact /\ resp.status = 206 => \A k \in fetched' : InRange(k)
    BY <2>1 DEF ReadInv, Placed, Sending
  <2> QED
    BY <1>2, <2>1, <2>2, EndedKeepsInv
<1>5. ASSUME NEW class \in {"other", "eof"}, GetFails(class)
      PROVE  ReadInv'
  <2>1. /\ FetchDue /\ body' = [body EXCEPT !.at = "ended", !.err = class]
        /\ UNCHANGED <<req, content, resp, reader, fetched, away>>
    BY <1>5 DEF GetFails
  <2>2. Intact /\ resp.status = 206 => \A k \in fetched' : InRange(k)
    BY <1>1, <2>1
  <2> QED
    BY <1>1, <1>2, <1>5, <2>1, <2>2, EndedKeepsInv
<1> QED
  BY <1>3, <1>4, <1>5

\* What CopyEnds finds right is right: nothing is left of what lay behind the bytes sent.
LEMMA CopyEndsKeepsInv ==
  ASSUME ReadInv, CopyEnds
  PROVE  ReadInv'
<1> DEFINE right == IF Limited THEN body.todo = 0 ELSE req.route = "fs" \/ resp.out = content.good
           e == IF right THEN "none" ELSE "other"
<1>1. /\ body.at = "copy" /\ Sending /\ body' = [body EXCEPT !.at = "ended", !.err = e]
      /\ (reader.cur = <<>> /\ reader.pending = <<>>) \/ (Limited /\ body.todo = 0)
      /\ UNCHANGED <<req, content, resp, reader, fetched, away>>
  BY DEF CopyEnds, Sending
<1>2. fetched' \subseteq content.objects /\ (Intact /\ resp.status = 206 => \A k \in fetched' : InRange(k))
  BY <1>1 DEF ReadInv, ReadTypeOK, Placed
<1>3. ASSUME ~Limited, Intact
      PROVE  resp.out = content.good
  <2>1. reader.cur = <<>> /\ reader.pending = <<>> /\ body.skip = 0 /\ resp.status # 206
    BY <1>1, <1>3 DEF Limited, ReadInv, Outcome
  <2>2. Holds(content.good, resp.out, Origin) /\ Adjoin(reader.pending, Here, Size)
    BY <1>1, <1>3 DEF ReadInv, Placed
  <2>3. Origin = 0 /\ Here = Size
    BY <2>1, <2>2 DEF Origin, Adjoin
  <2>4. content.good \in Seq(Nat) /\ resp.out \in Seq(Nat) /\ Len(resp.out) \in Nat
    BY ContentFacts, LenProperties DEF ReadInv, ReadTypeOK
  <2>5. Len(resp.out) = Len(content.good)
    <3>1. Len(reader.cur) = 0
      BY <2>1
    <3> QED
      BY <2>1, <2>3, <2>4, <3>1 DEF Here, Size
  <2> QED
    BY <2>2, <2>3, <2>4, <2>5, HoldsAll
<1>4. e \in {"none", "other"} /\ (e = "none" => right)
  OBVIOUS
<1>5. e = "none" => IF Limited THEN body.todo = 0
                    ELSE (req.route = "fs" /\ ~Intact) \/ resp.out = content.good
  BY <1>3, <1>4
<1> HIDE DEF e
<1> QED
  BY <1>1, <1>2, <1>4, <1>5, EndedKeepsInv

(***************************************************************************)
(* A step of a copy that goes on leaves the response alone.                *)
(***************************************************************************)
Bodies == [at : {"none", "skip", "copy", "ended"}, skip : Nat, todo : Int,
           err : {"none", "other", "eof", "gone"}]
\* The invariant's demands on the new reader and the new body.
LEMMA StillReadingKeepsInv ==
  ASSUME ReadInv, body.at \in {"skip", "copy"}, UNCHANGED <<req, content, resp>>, away' \in BOOLEAN,
         body' \in Bodies, body'.at \in {"skip", "copy"}, body'.todo = body.todo, body'.err = body.err,
         body'.at = "skip" => body.at = "skip", body'.at = "copy" => body'.skip = 0,
         reader' \in [pending : Seq(content.objects), cur : Seq(Nat)],
         fetched' \subseteq content.objects,
         Intact /\ resp.status = 206 => \A k \in fetched' : InRange(k),
         Intact => /\ body'.skip <= Origin /\ (body'.skip > 0 => reader'.cur = <<>>)
                   /\ Holds(content.good, reader'.cur, Origin + Len(resp.out))
                   /\ Adjoin(reader'.pending, ((Origin - body'.skip) + Len(resp.out)) + Len(reader'.cur), Size)
  PROVE  ReadInv'
<1> USE DEF ReadInv
<1>1. Sending /\ Sending'
  BY DEF Sending
<1>2. /\ Promised' /\ Origin' = Origin /\ Limited' = Limited
      /\ Intact' = Intact /\ Size' = Size /\ Want' = Want
  BY <1>1, SameResponse
<1>3. ReadTypeOK'
  BY DEF ReadTypeOK, Bodies
<1>4. Unanswered' /\ Finished'
  BY <1>1 DEF Unanswered, Finished
<1>5. Outcome'
  BY <1>1 DEF Outcome
<1>6. Placed'
  <2>1. Here' = ((Origin - body'.skip) + Len(resp.out)) + Len(reader'.cur)
    BY <1>2 DEF Here
  <2> SUFFICES ASSUME Intact PROVE Placed'
    BY <1>2 DEF Placed
  <2>2. Holds(content.good, resp.out, Origin) /\ (body.at = "skip" => resp.out = <<>>)
    BY <1>1 DEF Placed
  <2>3. \A k \in fetched' : InRange(k)' <=> InRange(k)
    BY <1>2 DEF InRange
  <2>4. resp'.status = 206 => \A k \in fetched' : InRange(k)'
    BY <2>3
  <2>5. /\ Holds(content'.good, resp'.out, Origin')
        /\ body'.at = "skip" => resp'.out = <<>>
        /\ body'.skip <= Origin' /\ (body'.skip > 0 => reader'.cur = <<>>)
        /\ Holds(content'.good, reader'.cur, Origin' + Len(resp'.out))
        /\ Adjoin(reader'.pending, Here', Size')
    BY <1>2, <2>1, <2>2
  <2> QED
    BY <2>4, <2>5 DEF Placed, InRange
<1> QED
  BY <1>2, <1>3, <1>4, <1>5, <1>6

\* The same, of a reader and a body that a step names.
LEMMA ReadingKeepsInv ==
  ASSUME ReadInv, body.at \in {"skip", "copy"}, UNCHANGED <<req, content, resp>>,
         away' \in BOOLEAN,
         NEW at \in {"skip", "copy"}, NEW n \in Nat, body' = [body EXCEPT !.at = at, !.skip = n],
         at = "skip" => body.at = "skip", at = "copy" => n = 0,
         NEW keys \in Seq(content.objects), NEW cur \in Seq(Nat), reader' = [pending |-> keys, cur |-> cur],
         fetched' \subseteq content.objects,
         Intact /\ resp.status = 206 => \A k \in fetched' : InRange(k),
         Intact => /\ n <= Origin /\ (n > 0 => cur = <<>>)
                   /\ Holds(content.good, cur, Origin + Len(resp.out))
                   /\ Adjoin(keys, ((Origin - n) + Len(resp.out)) + Len(cur), Size)
  PROVE  ReadInv'
<1>1. /\ body' \in Bodies /\ body'.todo = body.todo /\ body'.err = body.err /\ body'.at = at /\ body'.skip = n
      /\ reader'.pending = keys /\ reader'.cur = cur
      /\ reader' \in [pending : Seq(content.objects), cur : Seq(Nat)]
  BY DEF ReadInv, ReadTypeOK, Bodies
<1>2. Intact => /\ body'.skip <= Origin /\ (body'.skip > 0 => reader'.cur = <<>>)
                /\ Holds(content.good, reader'.cur, Origin + Len(resp.out))
                /\ Adjoin(reader'.pending, ((Origin - body'.skip) + Len(resp.out)) + Len(reader'.cur), Size)
  BY <1>1
<1> QED
  BY <1>1, <1>2, StillReadingKeepsInv

(***************************************************************************)
(* What the invariant says of a request that is being read, in one place.  *)
(***************************************************************************)
LEMMA ReadingFacts ==
  ASSUME ReadInv, body.at \in {"skip", "copy"}
  PROVE  /\ reader.pending \in Seq(content.objects) /\ reader.cur \in Seq(Nat) /\ resp.out \in Seq(Nat)
         /\ reader = [pending |-> reader.pending, cur |-> reader.cur]
         /\ Len(reader.cur) \in Nat /\ Len(resp.out) \in Nat
         /\ body.skip \in Nat /\ body.todo \in Int /\ body = [body EXCEPT !.at = @, !.skip = @]
         /\ body.at = "copy" => body.skip = 0
         /\ Origin \in Nat /\ Size \in Nat /\ content.good \in Seq(Nat)
         /\ fetched \subseteq content.objects /\ away \in BOOLEAN
         /\ Intact /\ resp.status = 206 => \A k \in fetched : InRange(k)
         /\ Intact => /\ body.skip <= Origin /\ (body.skip > 0 => reader.cur = <<>>)
                      /\ Holds(content.good, reader.cur, Origin + Len(resp.out))
                      /\ Adjoin(reader.pending, Here, Size)
<1>1. Sending
  BY DEF Sending
<1>2. Origin \in Nat /\ Size \in Nat /\ content.good \in Seq(Nat)
  BY <1>1, OriginFacts, ContentFacts DEF ReadInv, ReadTypeOK
<1>3. /\ reader.pending \in Seq(content.objects) /\ reader.cur \in Seq(Nat) /\ resp.out \in Seq(Nat)
      /\ reader = [pending |-> reader.pending, cur |-> reader.cur]
      /\ body.skip \in Nat /\ body.todo \in Int /\ body = [body EXCEPT !.at = @, !.skip = @]
      /\ fetched \subseteq content.objects /\ away \in BOOLEAN
  BY DEF ReadInv, ReadTypeOK
<1>4. Len(reader.cur) \in Nat /\ Len(resp.out) \in Nat
  BY <1>3, LenProperties
<1> QED
  BY <1>1, <1>2, <1>3, <1>4 DEF ReadInv, Placed, Outcome

\* Skip passes over a key: the next one lies where it ends.
LEMMA PassOverKeepsInv ==
  ASSUME ReadInv, PassOver
  PROVE  ReadInv'
<1> DEFINE k == Head(reader.pending)
           n == body.skip - k.length
           keys == Tail(reader.pending)
<1>1. /\ body.at = "skip" /\ body.skip > 0 /\ reader.pending # <<>> /\ k.length <= body.skip
      /\ reader' = [reader EXCEPT !.pending = keys] /\ body' = [body EXCEPT !.skip = n]
      /\ UNCHANGED <<req, content, resp, fetched, away>>
  BY DEF PassOver, PassedOver
<1>2. body.at \in {"skip", "copy"}
  BY <1>1
<1>3. k.length \in Nat /\ keys \in Seq(content.objects) /\ (Intact => Here \in Nat /\ Adjoin(keys, Here + k.length, Size))
  BY <1>1, <1>2, NextKeyFacts
<1>4. n \in Nat /\ n <= body.skip
  BY <1>1, <1>2, <1>3, ReadingFacts
<1>5. reader' = [pending |-> keys, cur |-> reader.cur] /\ body' = [body EXCEPT !.at = "skip", !.skip = n]
  BY <1>1 DEF ReadInv, ReadTypeOK
<1>6. ASSUME Intact
      PROVE  /\ n <= Origin /\ (n > 0 => reader.cur = <<>>)
             /\ Holds(content.good, reader.cur, Origin + Len(resp.out))
             /\ Adjoin(keys, ((Origin - n) + Len(resp.out)) + Len(reader.cur), Size)
  <2>0. /\ Origin \in Nat /\ body.skip \in Nat /\ Len(resp.out) \in Nat /\ Len(reader.cur) \in Nat
        /\ k.length \in Nat
    BY <1>2, <1>3, ReadingFacts
  <2>1. ((Origin - n) + Len(resp.out)) + Len(reader.cur) = Here + k.length
    <3> DEFINE o == Len(resp.out)
               c == Len(reader.cur)
               b == body.skip
               l == k.length
    <3>1. /\ Origin \in Nat /\ o \in Nat /\ c \in Nat /\ b \in Nat /\ l \in Nat
          /\ n = b - l
      BY <2>0
    <3>2. Here = ((Origin - b) + o) + c
      BY DEF Here
    <3> HIDE DEF o, c, b, l, n
    <3>3. ((Origin - n) + o) + c = Here + l
      BY <3>1, <3>2
    <3> QED
      BY <3>3 DEF o, c, l
  <2>2. /\ body.skip <= Origin /\ reader.cur = <<>>
        /\ Holds(content.good, reader.cur, Origin + Len(resp.out))
    BY <1>1, <1>2, <1>6, ReadingFacts
  <2>3. n <= Origin
    BY <1>2, <1>4, <2>2, ReadingFacts
  <2> HIDE DEF keys, n
  <2> QED
    BY <1>3, <1>6, <2>1, <2>2, <2>3
<1> HIDE DEF keys, n
<1>7. /\ fetched' \subseteq content.objects /\ away' \in BOOLEAN /\ reader.cur \in Seq(Nat)
      /\ Intact /\ resp.status = 206 => \A x \in fetched' : InRange(x)
  BY <1>1, <1>2, ReadingFacts
<1> QED
  BY <1>1, <1>2, <1>3, <1>4, <1>5, <1>6, <1>7, ReadingKeepsInv

(***************************************************************************)
(* An object that is fetched lies in the range.                            *)
(***************************************************************************)
LEMMA FetchedFacts ==
  ASSUME ReadInv, FetchDue, fetched' = fetched \cup {Head(reader.pending)}
  PROVE  /\ body.at \in {"skip", "copy"} /\ reader.pending # <<>>
         /\ fetched' \subseteq content.objects
         /\ Intact /\ resp.status = 206 => \A x \in fetched' : InRange(x)
<1>1. body.at \in {"skip", "copy"} /\ reader.pending # <<>>
  BY DEF FetchDue
<1>2. Head(reader.pending) \in content.objects
  BY <1>1, NextKeyFacts
<1> QED
  BY <1>1, <1>2, ReadingFacts, NextKeyIsInRange

\* A node gives way to its children, which fill it.
LEMMA FetchNodeKeepsInv ==
  ASSUME ReadInv, FetchNode
  PROVE  ReadInv'
<1> DEFINE k == Head(reader.pending)
           rest == Tail(reader.pending)
           keys == k.kids \o rest
           O == content.objects
<1>1. /\ FetchDue /\ k.node /\ fetched' = fetched \cup {k}
      /\ reader' = [reader EXCEPT !.pending = keys] /\ UNCHANGED <<req, content, resp, body, away>>
  BY DEF FetchNode, Entered
<1>2. /\ body.at \in {"skip", "copy"} /\ reader.pending # <<>> /\ fetched' \subseteq O
      /\ Intact /\ resp.status = 206 => \A x \in fetched' : InRange(x)
  BY <1>1, FetchedFacts
<1>3. /\ k \in O /\ k.length \in Nat /\ rest \in Seq(O) /\ k.kids \in Seq(O)
      /\ Intact => Here \in Nat /\ k.at = Here /\ Adjoin(rest, Here + k.length, Size)
  BY <1>2, NextKeyFacts
<1>4. keys \in Seq(O)
  BY <1>3, ConcatProperties
<1>5. Intact => Adjoin(keys, Here, Size)
  <2> SUFFICES ASSUME Intact PROVE Adjoin(keys, Here, Size)
    OBVIOUS
  <2>1. Adjoin(k.kids, Here, Here + k.length)
    BY <1>1, <1>3 DEF Intact, StoredAs
  <2>2. \A x \in O : x.at \in Nat /\ x.length \in Nat
    BY ContentFacts DEF ReadInv, ReadTypeOK
  <2>3. Here \in Nat /\ Here + k.length \in Nat /\ Size \in Nat
    <3>1. Here \in Nat /\ k.length \in Nat /\ Size \in Nat
      BY <1>2, <1>3, ReadingFacts
    <3>2. \A a, b \in Nat : a + b \in Nat
      OBVIOUS
    <3> QED
      BY <3>1, <3>2
  <2>4. Adjoin(rest, Here + k.length, Size)
    BY <1>3
  <2> HIDE DEF O, rest
  <2> QED
    BY <1>3, <2>1, <2>2, <2>3, <2>4, AdjoinJoined
<1>6. /\ reader' = [pending |-> keys, cur |-> reader.cur] /\ reader.cur \in Seq(Nat)
      /\ body' = [body EXCEPT !.at = body.at, !.skip = body.skip] /\ body.skip \in Nat
      /\ body.at = "copy" => body.skip = 0
  BY <1>1, <1>2, ReadingFacts DEF ReadInv, ReadTypeOK
<1> HIDE DEF keys
<1>7. Intact => /\ body.skip <= Origin /\ (body.skip > 0 => reader.cur = <<>>)
                /\ Holds(content.good, reader.cur, Origin + Len(resp.out))
                /\ Adjoin(keys, ((Origin - body.skip) + Len(resp.out)) + Len(reader.cur), Size)
  BY <1>2, <1>5, ReadingFacts DEF Here
<1>8. away' \in BOOLEAN
  BY <1>1, <1>2, ReadingFacts
<1> QED
  BY <1>1, <1>2, <1>4, <1>6, <1>7, <1>8, ReadingKeepsInv

\* A chunk's bytes, without those before the start, lie behind the bytes sent.
LEMMA FetchChunkKeepsInv ==
  ASSUME ReadInv, FetchChunk
  PROVE  ReadInv'
<1> DEFINE k == Head(reader.pending)
           keys == Tail(reader.pending)
           cur == SubSeq(k.bytes, body.skip + 1, Len(k.bytes))
           O == content.objects
<1>1. /\ FetchDue /\ ~k.node /\ fetched' = fetched \cup {k}
      /\ reader' = [pending |-> keys, cur |-> cur] /\ body' = [body EXCEPT !.skip = 0]
      /\ UNCHANGED <<req, content, resp, away>>
  BY DEF FetchChunk
<1>2. /\ body.at \in {"skip", "copy"} /\ reader.pending # <<>> /\ fetched' \subseteq O
      /\ Intact /\ resp.status = 206 => \A x \in fetched' : InRange(x)
  BY <1>1, FetchedFacts
<1>3. /\ k \in O /\ k.length \in Nat /\ keys \in Seq(O) /\ k.bytes \in Seq(Nat)
      /\ Intact => Here \in Nat /\ k.at = Here /\ Adjoin(keys, Here + k.length, Size)
  BY <1>2, NextKeyFacts
<1>4. cur \in Seq(Nat)
  <2>1. body.skip + 1 \in Nat \ {0}
    <3>1. body.skip \in Nat
      BY <1>2, ReadingFacts
    <3> QED
      BY <3>1
  <2>2. ASSUME NEW s \in Seq(Nat), NEW a \in Nat \ {0}
        PROVE  SubSeq(s, a, Len(s)) \in Seq(Nat)
    <3>1. CASE a > Len(s)
      BY <3>1
    <3>2. CASE a <= Len(s)
      BY <3>2
    <3> QED
      BY <3>1, <3>2, LenProperties
  <2> QED
    BY <1>3, <2>1, <2>2
<1>5. body' = [body EXCEPT !.at = body.at, !.skip = 0]
  BY <1>1, <1>2 DEF ReadInv, ReadTypeOK
<1>6. ASSUME Intact
      PROVE  /\ 0 <= Origin /\ (0 > 0 => cur = <<>>)
             /\ Holds(content.good, cur, Origin + Len(resp.out))
             /\ Adjoin(keys, ((Origin - 0) + Len(resp.out)) + Len(cur), Size)
  <2>1. Len(k.bytes) = k.length /\ Holds(content.good, k.bytes, k.at)
    BY <1>1, <1>3, <1>6 DEF Intact, StoredAs
  <2>2. Len(reader.cur) = 0
    <3>1. CASE body.at = "skip" /\ body.skip > 0
      BY <1>2, <1>6, <3>1, ReadingFacts
    <3>2. CASE body.at = "copy" /\ reader.cur = <<>>
      BY <3>2
    <3> QED
      BY <1>1, <3>1, <3>2 DEF FetchDue
  <2>3. body.skip <= k.length
    <3>1. CASE body.at = "skip" /\ ~PassedOver(k, body.skip)
      BY <1>2, <1>3, <3>1, ReadingFacts DEF PassedOver
    <3>2. CASE body.at = "copy"
      BY <1>2, <1>3, <3>2, ReadingFacts
    <3> QED
      BY <1>1, <3>1, <3>2 DEF FetchDue
  <2>4. /\ Origin \in Nat /\ body.skip \in Nat /\ Len(resp.out) \in Nat /\ content.good \in Seq(Nat)
        /\ Here = ((Origin - body.skip) + Len(resp.out)) + Len(reader.cur)
    BY <1>2, ReadingFacts DEF Here
  <2>5. k.at = Here /\ Here \in Nat /\ Adjoin(keys, Here + k.length, Size)
    BY <1>3, <1>6
  <2>6. Len(cur) = k.length - body.skip /\ Holds(content.good, cur, k.at + body.skip)
    <3>1. k.bytes \in Seq(Nat) /\ Len(k.bytes) \in Nat /\ Len(k.bytes) <= Len(k.bytes)
      BY <1>3, LenProperties
    <3>2. body.skip <= Len(k.bytes) /\ k.at \in Nat /\ Holds(content.good, k.bytes, k.at)
      BY <2>1, <2>3, <2>5
    <3>3. Len(cur) = Len(k.bytes) - body.skip /\ Holds(content.good, cur, k.at + body.skip)
      <4> DEFINE s == k.bytes
                 m == body.skip
      <4>1. m \in Nat /\ s \in Seq(Nat) /\ Len(s) \in Nat /\ m <= Len(s) /\ Len(s) <= Len(s)
        BY <2>4, <3>1, <3>2
      <4> HIDE DEF s, m, k
      <4>2. k.at \in Nat /\ Holds(content.good, s, k.at) /\ content.good \in Seq(Nat)
        BY <2>4, <3>2 DEF s
      <4>3. Len(SubSeq(s, m + 1, Len(s))) = Len(s) - m /\ Holds(content.good, SubSeq(s, m + 1, Len(s)), k.at + m)
        BY <4>1, <4>2, HoldsPart
      <4> QED
        BY <4>3 DEF s, m
    <3> QED
      BY <2>1, <3>3
  <2> HIDE DEF cur, keys
  <2>7. k.at + body.skip = Origin + Len(resp.out)
    BY <2>2, <2>4, <2>5
  <2>8. ((Origin - 0) + Len(resp.out)) + Len(cur) = Here + k.length
    <3>1. k.length \in Nat
      BY <1>3
    <3>2. Len(cur) = k.length - body.skip
      BY <2>6
    <3> DEFINE o == Len(resp.out)
               c == Len(cur)
               b == body.skip
               l == k.length
    <3>3. /\ Origin \in Nat /\ o \in Nat /\ b \in Nat /\ l \in Nat
          /\ c = l - b /\ Here = ((Origin - b) + o) + 0
      BY <2>2, <2>4, <3>1, <3>2
    <3> HIDE DEF o, c, b, l
    <3>4. ((Origin - 0) + o) + c = Here + l
      BY <3>3
    <3> QED
      BY <3>4 DEF o, c, l
  <2> QED
    BY <2>4, <2>5, <2>6, <2>7, <2>8
<1> HIDE DEF keys, cur
<1>7. away' \in BOOLEAN
  BY <1>1, <1>2, ReadingFacts
<1> QED
  BY <1>1, <1>2, <1>3, <1>4, <1>5, <1>6, <1>7, ReadingKeepsInv

\* The skip of an intact content ends exactly at the start of the range.
LEMMA SkipEndsKeepsInv ==
  ASSUME ReadInv, SkipEnds
  PROVE  ReadInv'
<1>1. /\ body.at = "skip" /\ (body.skip = 0 \/ reader.pending = <<>>)
      /\ body' = [body EXCEPT !.at = "copy", !.skip = 0]
      /\ UNCHANGED <<req, content, resp, reader, fetched, away>>
  BY DEF SkipEnds
<1>2. body.at \in {"skip", "copy"} /\ Sending /\ resp.status = 206
  BY <1>1 DEF Sending, ReadInv, Outcome
<1>3. ASSUME Intact
      PROVE  body.skip = 0
  <2>1. Origin \in Nat /\ Want.end \in Nat /\ Origin <= Want.end /\ Want.end < Size /\ Size \in Nat
    BY <1>2, OriginFacts DEF ReadInv
  <2> SUFFICES ASSUME body.skip # 0 PROVE FALSE
    OBVIOUS
  <2>2. Here = Size
    BY <1>1, <1>2, <1>3, ReadingFacts DEF Adjoin
  <2>3. Len(reader.cur) = 0 /\ Len(resp.out) = 0 /\ body.skip \in Nat
    BY <1>1, <1>2, <1>3, ReadingFacts DEF ReadInv, Placed
  <2> QED
    BY <2>1, <2>2, <2>3 DEF Here
<1>4. Intact => /\ 0 <= Origin /\ (0 > 0 => reader.cur = <<>>)
                /\ Holds(content.good, reader.cur, Origin + Len(resp.out))
                /\ Adjoin(reader.pending, ((Origin - 0) + Len(resp.out)) + Len(reader.cur), Size)
  BY <1>2, <1>3, ReadingFacts DEF Here
<1>5. /\ reader' = [pending |-> reader.pending, cur |-> reader.cur]
      /\ fetched' \subseteq content.objects /\ away' \in BOOLEAN
      /\ reader.pending \in Seq(content.objects) /\ reader.cur \in Seq(Nat)
      /\ Intact /\ resp.status = 206 => \A x \in fetched' : InRange(x)
  BY <1>1, <1>2, ReadingFacts
<1>6. /\ UNCHANGED <<req, content, resp>>
      /\ body' \in Bodies /\ body'.todo = body.todo /\ body'.err = body.err /\ body'.at = "copy" /\ body'.skip = 0
      /\ reader'.pending = reader.pending /\ reader'.cur = reader.cur
  BY <1>1 DEF ReadInv, ReadTypeOK, Bodies
<1>7. Intact => /\ body'.skip <= Origin /\ (body'.skip > 0 => reader'.cur = <<>>)
                /\ Holds(content.good, reader'.cur, Origin + Len(resp.out))
                /\ Adjoin(reader'.pending, ((Origin - body'.skip) + Len(resp.out)) + Len(reader'.cur), Size)
  BY <1>4, <1>6
<1>8. reader' \in [pending : Seq(content.objects), cur : Seq(Nat)]
  BY <1>5
<1> QED
  BY <1>2, <1>5, <1>6, <1>7, <1>8, StillReadingKeepsInv

\* That the client leaves changes nothing the copy has done.
LEMMA ClientLeavesKeepsInv ==
  ASSUME ReadInv, ClientLeaves
  PROVE  ReadInv'
<1>1. /\ body.at \in {"skip", "copy"} /\ away' = TRUE
      /\ UNCHANGED <<req, content, resp, body, reader, fetched>>
  BY DEF ClientLeaves
<1>2. /\ reader' = [pending |-> reader.pending, cur |-> reader.cur]
      /\ body' = [body EXCEPT !.at = body.at, !.skip = body.skip] /\ body.skip \in Nat
      /\ body.at = "copy" => body.skip = 0
      /\ fetched' \subseteq content.objects /\ away' \in BOOLEAN
      /\ reader.pending \in Seq(content.objects) /\ reader.cur \in Seq(Nat)
      /\ Intact /\ resp.status = 206 => \A x \in fetched' : InRange(x)
  BY <1>1, ReadingFacts
<1>3. Intact => /\ body.skip <= Origin /\ (body.skip > 0 => reader.cur = <<>>)
                /\ Holds(content.good, reader.cur, Origin + Len(resp.out))
                /\ Adjoin(reader.pending, ((Origin - body.skip) + Len(resp.out)) + Len(reader.cur), Size)
  BY <1>1, ReadingFacts DEF Here
<1> QED
  BY <1>1, <1>2, <1>3, ReadingKeepsInv

(***************************************************************************)
(* A chunk is cut into the piece that CopyPiece sends and what is left.    *)
(***************************************************************************)
LEMMA Cut ==
  ASSUME NEW s \in Seq(Nat), NEW n \in Nat, n >= 1, n <= Len(s)
  PROVE  /\ SubSeq(s, 1, n) \in Seq(Nat) /\ Len(SubSeq(s, 1, n)) = n
         /\ SubSeq(s, n + 1, Len(s)) \in Seq(Nat) /\ Len(SubSeq(s, n + 1, Len(s))) = Len(s) - n
<1>1. Len(s) \in Nat /\ \A i \in 1 .. Len(s) : s[i] \in Nat
  OBVIOUS
<1>2. SubSeq(s, 1, n) \in Seq(Nat) /\ Len(SubSeq(s, 1, n)) = n
  BY <1>1, SubSeqProperties
<1>3. SubSeq(s, n + 1, Len(s)) \in Seq(Nat) /\ Len(SubSeq(s, n + 1, Len(s))) = Len(s) - n
  BY <1>1, SubSeqProperties
<1> QED
  BY <1>2, <1>3

(***************************************************************************)
(* A piece of the chunk moves from the reader to the response.             *)
(***************************************************************************)
LEMMA CopyPieceKeepsInv ==
  ASSUME ReadInv, CopyPiece
  PROVE  ReadInv'
<1> USE DEF ReadInv
<1>1. PICK n \in 1 .. Len(reader.cur) :
        LET fits == resp.promised = -1 \/ Len(resp.out) + n <= resp.promised
        IN  /\ body.at = "copy" /\ (~away \/ req.route = "fs") /\ (Limited => n <= body.todo)
            /\ reader' = [reader EXCEPT !.cur = SubSeq(@, n + 1, Len(@))]
            /\ resp' = [resp EXCEPT !.started = TRUE, !.out = IF fits THEN @ \o SubSeq(reader.cur, 1, n) ELSE @]
            /\ body' = IF fits THEN [body EXCEPT !.todo = @ - n]
                       ELSE [body EXCEPT !.at = "ended", !.err = "other"]
            /\ UNCHANGED <<req, content, fetched, away>>
  BY DEF CopyPiece
<1> DEFINE fits == resp.promised = -1 \/ Len(resp.out) + n <= resp.promised
           piece == SubSeq(reader.cur, 1, n)
           left == SubSeq(reader.cur, n + 1, Len(reader.cur))
           out == IF fits THEN resp.out \o piece ELSE resp.out
<1>2. /\ body.at = "copy" /\ body.at \in {"skip", "copy"} /\ (Limited => n <= body.todo) /\ Sending
      /\ UNCHANGED <<req, content, fetched, away>>
  BY <1>1 DEF Sending
<1>3. /\ reader.cur \in Seq(Nat) /\ resp.out \in Seq(Nat) /\ Len(reader.cur) \in Nat /\ Len(resp.out) \in Nat
      /\ body.todo \in Int /\ body.skip = 0 /\ content.good \in Seq(Nat) /\ Origin \in Nat
      /\ n \in Nat /\ n >= 1 /\ n <= Len(reader.cur)
  BY <1>2, ReadingFacts
<1>4. /\ piece \in Seq(Nat) /\ Len(piece) = n /\ left \in Seq(Nat) /\ Len(left) = Len(reader.cur) - n
  BY <1>3, Cut
<1>5. out \in Seq(Nat) /\ (fits => Len(out) = Len(resp.out) + n)
  BY <1>3, <1>4, ConcatProperties
<1>6. /\ resp' \in Responses /\ reader' \in [pending : Seq(content.objects), cur : Seq(Nat)]
      /\ resp' = [resp EXCEPT !.started = TRUE, !.out = out]
      /\ resp'.out = out /\ resp'.started /\ resp'.status = resp.status /\ resp'.promised = resp.promised
      /\ resp'.headers = resp.headers /\ resp'.envelope = resp.envelope /\ resp'.end = resp.end
      /\ reader'.cur = left /\ reader'.pending = reader.pending
  <2>1. resp' = [resp EXCEPT !.started = TRUE, !.out = out]
    BY <1>1
  <2>2. reader' = [reader EXCEPT !.cur = left]
    BY <1>1
  <2> HIDE DEF out, left
  <2>3. reader' \in [pending : Seq(content.objects), cur : Seq(Nat)] /\ reader'.cur = left /\ reader'.pending = reader.pending
    BY <1>4, <2>2 DEF ReadTypeOK
  <2>4. /\ resp' \in Responses /\ resp'.out = out /\ resp'.started /\ resp'.status = resp.status
        /\ resp'.promised = resp.promised
        /\ resp'.headers = resp.headers /\ resp'.envelope = resp.envelope /\ resp'.end = resp.end
    BY <1>5, <2>1 DEF ReadTypeOK, Responses
  <2> QED
    BY <2>1, <2>3, <2>4
<1>7. /\ body' \in Bodies /\ Sending'
      /\ fits => body'.at = "copy" /\ body'.todo = body.todo - n /\ body'.skip = 0 /\ body'.err = "none"
      /\ ~fits => body'.at = "ended" /\ body'.todo = body.todo /\ body'.err = "other"
  <2>1. body \in Bodies /\ body.err = "none"
    BY <1>2 DEF ReadTypeOK, Bodies, Outcome
  <2>2. body.todo - n \in Int
    BY <1>3
  <2>3. CASE fits
    <3>1. body' = [body EXCEPT !.todo = body.todo - n]
      BY <1>1, <2>3
    <3> QED
      BY <1>2, <1>3, <2>1, <2>2, <2>3, <3>1 DEF Bodies, Sending
  <2>4. CASE ~fits
    <3>1. body' = [body EXCEPT !.at = "ended", !.err = "other"]
      BY <1>1, <2>4
    <3> QED
      BY <2>1, <2>4, <3>1 DEF Bodies, Sending
  <2> QED
    BY <2>3, <2>4
<1> HIDE DEF piece, left, fits
<1>8. Want' = Want /\ Size' = Size /\ Intact' = Intact
  BY <1>2, SameRequest
<1>9. Limited' = Limited /\ TakenBack' = TakenBack /\ Origin' = Origin
  BY <1>2, <1>6, <1>8 DEF Limited, TakenBack, Origin
<1>10. ReadTypeOK'
  <2> HIDE DEF out
  <2> QED
    BY <1>2, <1>6, <1>7 DEF ReadTypeOK, Responses, Bodies
<1>11. Unanswered' /\ Finished'
  BY <1>7 DEF Unanswered, Finished
<1>12. Promised'
  <2>1. Limited => body'.todo >= 0 /\ Len(resp'.out) + body'.todo = resp.promised
    <3> SUFFICES ASSUME Limited PROVE body'.todo >= 0 /\ Len(resp'.out) + body'.todo = resp.promised
      OBVIOUS
    <3>1. body.todo >= 0 /\ Len(resp.out) + body.todo = resp.promised /\ n <= body.todo
      BY <1>2 DEF Promised
    <3>2. CASE fits
      <4>1. body'.todo = body.todo - n /\ Len(resp'.out) = Len(resp.out) + n
        BY <1>5, <1>6, <1>7, <3>2
      <4> DEFINE t == body.todo
                 o == Len(resp.out)
      <4>2. \A x, y, z \in Int : (x + z) + (y - z) = x + y
        OBVIOUS
      <4>3. t \in Int /\ o \in Nat /\ n \in Nat /\ n <= t /\ o + t = resp.promised /\ body'.todo = t - n /\ Len(resp'.out) = o + n
        BY <1>3, <3>1, <4>1
      <4> HIDE DEF t, o
      <4>4. t - n >= 0 /\ (o + n) + (t - n) = o + t
        BY <4>3
      <4> QED
        BY <4>3, <4>4
    <3>3. CASE ~fits
      BY <1>6, <1>7, <3>1, <3>3
    <3> QED
      BY <3>2, <3>3
  <2>2. /\ resp.end = "open" /\ ~resp.envelope
        /\ req.method = "GET" /\ (resp.headers \ TakenBack) \cap OfContent = {}
        /\ resp.status \in {200, 206}
        /\ resp.status = 200 => resp.promised = Size \/ (req.route = "fs" /\ resp.promised = -1)
        /\ resp.status = 206 => /\ req.route \in {"blob", "fs"} /\ Want.kind = "range"
                                /\ resp.promised = (Want.end - Want.start) + 1
    BY <1>2 DEF Promised
  <2>3. OfContent' = OfContent
    BY DEF OfContent
  <2> HIDE DEF out
  <2> QED
    BY <1>2, <1>6, <1>8, <1>9, <2>1, <2>2, <2>3 DEF Promised
<1>13. Outcome'
  BY <1>7 DEF Outcome
<1>14. Placed'
  <2> SUFFICES ASSUME Intact PROVE Placed'
    BY <1>8 DEF Placed
  <2>1. /\ Holds(content.good, resp.out, Origin)
        /\ resp.status = 206 => \A k \in fetched : InRange(k)
        /\ Holds(content.good, reader.cur, Origin + Len(resp.out))
        /\ Adjoin(reader.pending, Here, Size)
    BY <1>2 DEF Placed
  <2>2. /\ Holds(content.good, piece, Origin + Len(resp.out))
        /\ Holds(content.good, left, (Origin + Len(resp.out)) + n)
    <3> DEFINE a == Origin + Len(resp.out)
               c == reader.cur
    <3>1. a \in Nat /\ c \in Seq(Nat) /\ Holds(content.good, c, a) /\ n <= Len(c) /\ Len(c) \in Nat
      BY <1>3, <2>1
    <3>2. piece = SubSeq(c, 0 + 1, n) /\ left = SubSeq(c, n + 1, Len(c))
      BY DEF piece, left
    <3> HIDE DEF a, c
    <3>3. Holds(content.good, SubSeq(c, n + 1, Len(c)), a + n)
      <4>1. n \in Nat /\ n <= Len(c) /\ Len(c) <= Len(c)
        BY <1>3, <3>1
      <4> QED
        BY <1>3, <3>1, <4>1, HoldsPart
    <3>4. Holds(content.good, SubSeq(c, 0 + 1, n), a + 0)
      <4>1. 0 \in Nat /\ 0 <= n /\ n \in Nat /\ n <= Len(c)
        BY <1>3, <3>1
      <4> QED
        BY <1>3, <3>1, <4>1, HoldsPart
    <3>5. a + 0 = a
      BY <3>1
    <3> QED
      BY <3>2, <3>3, <3>4, <3>5 DEF a
  <2>3. Holds(content.good, out, Origin)
    <3>1. CASE fits
      BY <1>3, <1>4, <2>1, <2>2, <3>1, HoldsJoined
    <3>2. CASE ~fits
      BY <2>1, <3>2
    <3> QED
      BY <3>1, <3>2
  <2>4. resp'.status = 206 => \A k \in fetched' : InRange(k)'
    <3>1. \A k \in fetched : InRange(k)' <=> InRange(k)
      BY <1>8 DEF InRange
    <3> QED
      BY <1>2, <1>6, <2>1, <3>1
  <2>5. ASSUME fits
        PROVE  /\ body'.skip <= Origin' /\ ~(body'.skip > 0)
               /\ Holds(content'.good, reader'.cur, Origin' + Len(resp'.out))
               /\ Adjoin(reader'.pending, Here', Size')
    <3> DEFINE o == Len(resp.out)
               c == Len(reader.cur)
    <3>1. /\ o \in Nat /\ c \in Nat /\ n \in Nat /\ Origin \in Nat /\ body'.skip = 0 /\ body.skip = 0
          /\ Len(resp'.out) = o + n /\ Len(reader'.cur) = c - n
      BY <1>3, <1>4, <1>5, <1>6, <1>7, <2>5
    <3>2. Here' = ((Origin - 0) + (o + n)) + (c - n) /\ Here = ((Origin - 0) + o) + c
      BY <1>9, <3>1 DEF Here
    <3> HIDE DEF o, c
    <3>3. ((Origin - 0) + (o + n)) + (c - n) = ((Origin - 0) + o) + c /\ Origin + (o + n) = (Origin + o) + n
      BY <3>1
    <3>4. Holds(content.good, left, (Origin + o) + n)
      BY <2>2 DEF o
    <3> HIDE DEF out
    <3> QED
      BY <1>2, <1>6, <1>8, <1>9, <2>1, <3>1, <3>2, <3>3, <3>4
  <2> HIDE DEF out
  <2>6. CASE fits
    <3>1. body'.at = "copy" /\ Holds(content'.good, resp'.out, Origin')
      BY <1>2, <1>6, <1>7, <1>9, <2>3, <2>6
    <3> QED
      BY <2>4, <2>5, <2>6, <3>1 DEF Placed
  <2>7. CASE ~fits
    <3>1. body'.at = "ended" /\ Holds(content'.good, resp'.out, Origin')
      BY <1>2, <1>6, <1>7, <1>9, <2>3, <2>7
    <3> QED
      BY <2>4, <3>1 DEF Placed
  <2> QED
    BY <2>6, <2>7
<1> QED
  BY <1>10, <1>11, <1>12, <1>13, <1>14

(***************************************************************************)
(* As many bytes as were promised, of objects that are the ones stored,    *)
(* are the content or the range of it.                                     *)
(***************************************************************************)
LEMMA FullLengthIsRight ==
  ASSUME ReadInv, Sending, Intact, resp.promised # -1, Len(resp.out) = resp.promised
  PROVE  /\ resp.status = 200 => resp.out = content.good
         /\ resp.status = 206 => resp.out = SubSeq(content.good, Want.start + 1, Want.end + 1)
<1>1. Holds(content.good, resp.out, Origin) /\ content.good \in Seq(Nat) /\ resp.out \in Seq(Nat)
  BY ContentFacts DEF ReadInv, ReadTypeOK, Placed
<1>2. ASSUME resp.status = 200
      PROVE  resp.out = content.good
  <2>1. Origin = 0 /\ Len(resp.out) = Len(content.good)
    BY <1>2 DEF ReadInv, Promised, Origin, Size
  <2> QED
    BY <1>1, <2>1, HoldsAll
<1>3. ASSUME resp.status = 206
      PROVE  resp.out = SubSeq(content.good, Want.start + 1, Want.end + 1)
  <2>1. Origin = Want.start /\ Origin \in Nat /\ Want.end \in Nat
    BY <1>3, OriginFacts DEF ReadInv
  <2>2. Len(resp.out) = Want.end - Want.start + 1
    BY <1>3 DEF ReadInv, Promised
  <2> DEFINE b == Want.end
  <2>3. b \in Int /\ Len(resp.out) = b - Origin + 1
    BY <2>1, <2>2
  <2> HIDE DEF b
  <2>4. resp.out = SubSeq(content.good, Origin + 1, b + 1)
    BY <1>1, <2>1, <2>3, HoldsRange
  <2> QED
    BY <2>1, <2>4 DEF b
<1> QED
  BY <1>2, <1>3

(***************************************************************************)
(* While a body is being sent its response does not look complete, and     *)
(* what was fetched for a range lies in it.                                *)
(***************************************************************************)
LEMMA InvImpliesProperties ==
  ASSUME ReadInv
  PROVE  ResponseIsHonest /\ RangeIsExact
<1>1. CASE ~Sending
  BY <1>1 DEF ReadInv, Finished
<1>2. CASE Sending
  <2>1. ~Complete
    BY <1>2 DEF ReadInv, Promised, Complete
  <2>2. resp.status = 206 /\ Intact => \A k \in fetched : InRange(k)
    BY <1>2 DEF ReadInv, Placed
  <2>3. ResponseIsHonest
    BY <2>1 DEF ResponseIsHonest, ErrorIsPlain, DigestedIsRight, EntryIsRight, TakenForWhole
  <2>4. RangeIsExact
    BY <2>1, <2>2 DEF RangeIsExact, InRange, Want
  <2> QED
    BY <2>3, <2>4
<1> QED
  BY <1>1, <1>2

\* A settled response is honest, however the copy ended and the failure was judged.
LEMMA SettleKeepsInv ==
  ASSUME ReadInv, Settle
  PROVE  ReadInv'
<1> USE DEF ReadInv
<1>1. /\ body.at = "ended" /\ Sending /\ UNCHANGED <<req, content, reader, fetched, away>>
      /\ body' = [body EXCEPT !.at = "none"]
  BY DEF Settle, Sending
<1>2. Want' = Want /\ Size' = Size /\ Intact' = Intact
  BY <1>1, SameRequest
<1>3. /\ body' \in Bodies /\ body'.at = "none" /\ body'.err = body.err /\ ~Sending'
  BY <1>1 DEF ReadTypeOK, Bodies, Sending
<1>4. /\ resp \in Responses /\ ~resp.envelope /\ (resp.started \/ resp.out = <<>>)
      /\ req.method = "GET" /\ (resp.headers \ TakenBack) \cap OfContent = {}
      /\ resp.status \in {200, 206}
      /\ resp.status = 200 => resp.promised = Size \/ (req.route = "fs" /\ resp.promised = -1)
      /\ resp.status = 206 => resp.promised = (Want.end - Want.start) + 1
  BY <1>1 DEF ReadTypeOK, Responses, Promised
<1>5. /\ Size \in Nat /\ resp.promised \in Int /\ resp.out \in Seq(Nat) /\ req.route \in {"blob", "manifest", "fs"}
      /\ resp.status = 206 => resp.promised >= 1
  <2>1. Size \in Nat /\ resp.promised \in Int /\ resp.out \in Seq(Nat) /\ req.route \in {"blob", "manifest", "fs"}
    BY ContentFacts, RequestFacts DEF ReadTypeOK
  <2>2. resp.status = 206 => Want.start \in Nat /\ Want.end \in Nat /\ Want.start <= Want.end
    BY <1>1, OriginFacts
  <2> QED
    BY <1>4, <2>1, <2>2
<1>6. Intact /\ resp.status = 206 => \A k \in fetched : InRange(k)
  BY <1>1 DEF Placed
<1>7. ASSUME ResponseIsHonest', RangeIsExact', resp'.end # "open", resp' \in Responses
      PROVE  ReadInv'
  <2>1. ReadTypeOK'
    BY <1>1, <1>3, <1>7 DEF ReadTypeOK, Bodies, Responses
  <2>2. Unanswered' /\ Promised' /\ Placed' /\ Finished'
    BY <1>3, <1>7 DEF Unanswered, Promised, Placed, Finished
  <2>3. Outcome'
    BY <1>3 DEF Outcome
  <2> QED
    BY <2>1, <2>2, <2>3
<1>8. ASSUME ~resp'.envelope, resp'.out = resp.out, resp'.promised = resp.promised, resp'.status = resp.status,
             resp'.end = "done" => body.err = "none" \/ (body.err = "eof" \/ away),
             resp' \in Responses, resp'.end # "open"
      PROVE  ReadInv'
  <2>1. ASSUME Complete'
        PROVE  /\ resp'.end = "done" /\ ~away
               /\ resp.promised = -1 \/ Len(resp.out) = resp.promised
               /\ body.err \in {"none", "eof"}
    BY <1>1, <1>8, <2>1 DEF Complete
  <2>2. ASSUME Complete', resp.status = 200, req.route \in {"blob", "manifest"}, Intact \/ body.err # "eof"
        PROVE  resp.out = content.good
    <3>1. CASE body.err = "none"
      BY <1>1, <2>2, <3>1 DEF Outcome, Limited
    <3>2. CASE body.err = "eof"
      <4>1. Intact /\ resp.promised = Size /\ resp.promised # -1
        BY <1>4, <1>5, <2>2, <3>2
      <4> QED
        BY <1>1, <2>1, <2>2, <4>1, FullLengthIsRight
    <3> QED
      BY <2>1, <2>2, <3>1, <3>2
  <2>3. ASSUME Complete', resp.status = 200, req.route = "fs", Intact, resp.promised # -1 \/ body.err # "eof"
        PROVE  resp.out = content.good
    <3>1. CASE resp.promised # -1
      BY <1>1, <2>1, <2>3, <3>1, FullLengthIsRight
    <3>2. CASE resp.promised = -1
      <4>1. body.err = "none" /\ ~Limited
        BY <2>1, <2>3, <3>2 DEF Limited
      <4> QED
        BY <1>1, <2>3, <4>1 DEF Outcome
    <3> QED
      BY <3>1, <3>2
  <2>4. ResponseIsHonest'
    BY <1>1, <1>2, <1>3, <1>8, <2>2, <2>3 DEF ResponseIsHonest, ErrorIsPlain, DigestedIsRight, EntryIsRight, TakenForWhole
  <2>5. RangeIsExact'
    <3> SUFFICES ASSUME resp.status = 206, Intact
                 PROVE  /\ Complete' => resp.out = SubSeq(content.good, Want.start + 1, Want.end + 1)
                        /\ \A k \in fetched : InRange(k)
      BY <1>1, <1>2, <1>8 DEF RangeIsExact, InRange, Want
    <3>1. resp.promised # -1
      BY <1>5
    <3> QED
      BY <1>1, <1>6, <2>1, <3>1, FullLengthIsRight
  <2> QED
    BY <1>7, <1>8, <2>4, <2>5
<1>9. CASE body.err = "none"
  <2>1. resp' = [resp EXCEPT !.started = TRUE, !.end = "done"]
    BY <1>9 DEF Settle
  <2>2. /\ ~resp'.envelope /\ resp'.out = resp.out /\ resp'.promised = resp.promised /\ resp'.status = resp.status
        /\ resp' \in Responses /\ resp'.end # "open"
    BY <1>4, <2>1 DEF Responses
  <2> QED
    BY <1>8, <1>9, <2>2
<1>10. CASE body.err # "none" /\ isClientGone
  <2>1. resp' = [resp EXCEPT !.status = IF resp.started THEN @ ELSE 200, !.end = "done"]
    BY <1>10 DEF Settle
  <2>2. body.err = "eof" \/ away
    BY <1>1, <1>10 DEF isClientGone, Outcome
  <2>3. CASE resp.started \/ resp.status = 200
    <3>1. /\ ~resp'.envelope /\ resp'.out = resp.out /\ resp'.promised = resp.promised /\ resp'.status = resp.status
          /\ resp' \in Responses /\ resp'.end # "open"
      <4>1. resp' = [resp EXCEPT !.status = resp.status, !.end = "done"]
        BY <2>1, <2>3
      <4> QED
        BY <1>4, <4>1 DEF Responses
    <3> QED
      BY <1>8, <2>2, <3>1
  <2>4. CASE ~resp.started /\ resp.status = 206
    <3>1. /\ ~resp'.envelope /\ resp'.out = resp.out /\ resp'.promised = resp.promised /\ resp'.status = 200
          /\ resp' \in Responses /\ resp'.end # "open"
      <4>1. resp' = [resp EXCEPT !.status = 200, !.end = "done"]
        BY <2>1, <2>4
      <4>2. 200 \in Nat
        OBVIOUS
      <4> QED
        BY <1>4, <4>1, <4>2 DEF Responses
    <3>2. Len(resp'.out) = 0 /\ resp'.promised >= 1
      BY <1>4, <1>5, <2>4, <3>1
    <3>3. ~Complete'
      BY <3>2 DEF Complete
    <3>4. ResponseIsHonest' /\ RangeIsExact'
      BY <3>1, <3>3 DEF ResponseIsHonest, ErrorIsPlain, DigestedIsRight, EntryIsRight, TakenForWhole, RangeIsExact
    <3> QED
      BY <1>7, <3>1, <3>4
  <2> QED
    BY <1>4, <2>3, <2>4
<1>11. CASE body.err # "none" /\ ~isClientGone /\ ~resp.started
  <2>1. resp' = Envelope(500, resp.headers \ TakenBack)
    BY <1>11 DEF Settle
  <2>2. resp.headers \ TakenBack \in SUBSET HeaderNames /\ 500 \in Nat /\ 0 \in Int
    BY <1>4 DEF Responses
  <2>3. resp' \in Responses
    BY <2>1, <2>2, ResponseShapes
  <2>4. resp'.status = 500 /\ resp'.envelope /\ resp'.headers = resp.headers \ TakenBack /\ resp'.end = "done"
    BY <2>1 DEF Envelope
  <2>5. ResponseIsHonest'
    <3>1. resp'.headers \cap {"digest", "etag", "content-range", "accept-ranges"} = {}
      BY <1>4, <2>4 DEF OfContent
    <3> QED
      BY <2>4, <3>1 DEF ResponseIsHonest, ErrorIsPlain, DigestedIsRight, EntryIsRight, TakenForWhole
  <2>6. RangeIsExact'
    BY <2>4 DEF RangeIsExact
  <2> QED
    BY <1>7, <2>3, <2>4, <2>5, <2>6
<1>12. CASE body.err # "none" /\ ~isClientGone /\ resp.started
  <2>1. resp' = [resp EXCEPT !.end = "aborted"]
    BY <1>12 DEF Settle
  <2>2. /\ ~resp'.envelope /\ resp'.out = resp.out /\ resp'.promised = resp.promised /\ resp'.status = resp.status
        /\ resp' \in Responses /\ resp'.end # "open" /\ resp'.end # "done"
    BY <1>4, <2>1 DEF Responses
  <2> QED
    BY <1>8, <2>2
<1> QED
  BY <1>9, <1>10, <1>11, <1>12

(***************************************************************************)
(* Every step keeps the invariant, so it holds of every request.           *)
(***************************************************************************)
LEMMA ReadInvStep ==
  ASSUME ReadInv, [ReadNext]_readVars
  PROVE  ReadInv'
<1>1. ASSUME serveBlob \/ serveManifest \/ handleFS
      PROVE  ReadInv'
  <2>1. Waiting /\ Rest
    BY <1>1 DEF serveBlob, serveManifest, handleFS
  <2>2. AnswersNow \/ PromisesAll \/ PromisesRange
    BY <1>1, BlobIsAnswered, ManifestIsAnswered, FSIsAnswered
  <2> QED
    BY <2>1, <2>2, HandlersKeepInv
<1>2. ASSUME PassOver \/ FetchNode \/ FetchChunk \/ SkipEnds
      PROVE  ReadInv'
  BY <1>2, PassOverKeepsInv, FetchNodeKeepsInv, FetchChunkKeepsInv, SkipEndsKeepsInv
<1>3. ASSUME FetchMisfit \/ WriteFails \/ \E class \in {"other", "eof"} : GetFails(class)
      PROVE  ReadInv'
  BY <1>3, FailuresKeepInv
<1>4. ASSUME CopyPiece \/ CopyEnds \/ Settle \/ ClientLeaves
      PROVE  ReadInv'
  BY <1>4, CopyPieceKeepsInv, CopyEndsKeepsInv, SettleKeepsInv, ClientLeavesKeepsInv
<1>5. ASSUME UNCHANGED readVars
      PROVE  ReadInv'
  <2>1. UNCHANGED <<req, content, resp, body, reader, fetched, away>>
    BY <1>5 DEF readVars
  <2>2. /\ Want' = Want /\ Size' = Size /\ Intact' = Intact /\ Sending' = Sending /\ Limited' = Limited
        /\ TakenBack' = TakenBack /\ Complete' = Complete
    BY <2>1, SameRequest DEF Sending, Limited, TakenBack, Complete
  <2>3. Origin' = Origin /\ Here' = Here /\ \A k : InRange(k)' <=> InRange(k)
    BY <2>1, <2>2 DEF Origin, Here, InRange
  <2>4. ReadTypeOK' /\ Unanswered'
    BY <2>1, <2>2 DEF ReadInv, ReadTypeOK, Unanswered
  <2>5. Promised' /\ Outcome'
    BY <2>1, <2>2 DEF ReadInv, Promised, Outcome, OfContent
  <2>6. Placed'
    BY <2>1, <2>2, <2>3 DEF ReadInv, Placed
  <2>7. Finished'
    <3>1. ResponseIsHonest' <=> ResponseIsHonest
      BY <2>1, <2>2 DEF ResponseIsHonest, ErrorIsPlain, DigestedIsRight, EntryIsRight, TakenForWhole
    <3>2. RangeIsExact' <=> RangeIsExact
      BY <2>1, <2>2 DEF RangeIsExact
    <3> QED
      BY <2>2, <3>1, <3>2 DEF ReadInv, Finished
  <2> QED
    BY <2>4, <2>5, <2>6, <2>7 DEF ReadInv
<1> QED
  BY <1>1, <1>2, <1>3, <1>4, <1>5 DEF ReadNext

(***************************************************************************)
(* What a request that reads has sent, what it holds and what it has left  *)
(* to visit fit together from its first step to its last (store.Reader,    *)
(* serveBlob, serveManifest, serveFile, serveTar).                         *)
(***************************************************************************)
THEOREM ReadInvariant == ReadSpec => []ReadInv
  BY ReadInvInit, ReadInvStep, PTL DEF ReadSpec

(***************************************************************************)
(* A response that looks complete to its client is right, for every tree   *)
(* of objects and wherever the store fails: a blob or a manifest whatever  *)
(* bytes the objects hold, an entry of /fs/ while they hold the stored     *)
(* ones.  Not covered is a failure that wraps io.ErrUnexpectedEOF, for a   *)
(* tar, and for objects that hold other bytes than were stored.            *)
(***************************************************************************)
THEOREM ReadsAreHonest == ReadSpec => []ResponseIsHonest
<1>1. ReadInv => ResponseIsHonest
  BY InvImpliesProperties
<1> QED
  BY <1>1, ReadInvariant, PTL

(***************************************************************************)
(* A complete 206 carries the bytes its Content-Range names, and no object *)
(* outside the range was fetched for it, for every tree of objects.        *)
(***************************************************************************)
THEOREM RangesAreExact == ReadSpec => []RangeIsExact
<1>1. ReadInv => RangeIsExact
  BY InvImpliesProperties
<1> QED
  BY <1>1, ReadInvariant, PTL
=============================================================================
