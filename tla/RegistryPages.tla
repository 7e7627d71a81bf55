---------------------------- MODULE RegistryPages ----------------------------
(***************************************************************************)
(* A client that pages through the tags of a repository, the catalog       *)
(* (registry/lists.go over image/list.go) or a directory (serveListing of  *)
(* registry/fs.go over store.ListDir) while names are pushed and deleted   *)
(* between and during its requests.  Names are the positive numbers, in    *)
(* their bytewise order; 0 is the empty last.                              *)
(***************************************************************************)
EXTENDS Integers, Sequences, FiniteSets, SequencesExt, FiniteSetsExt, Ordered

CONSTANTS PageNames,       \* the names there may be
          PageSizes,       \* the n of the requests, -1 when it is absent
          MaxPageChanges,  \* bound: names pushed or deleted meanwhile
          ListPage         \* store.listPage

ASSUME PageAssumption ==
  /\ PageNames \subseteq Nat \ {0} /\ IsFiniteSet(PageNames)
  /\ PageSizes \subseteq Int /\ ListPage \in Nat \ {0}

VARIABLES
  names,     \* the tags, the repositories that have a tag, or the entries
  manifests, \* the manifests of the repository, or the repositories that have one
  listing,   \* the request loop: [of, n, at, last, dir, got, answer]
  stable,    \* the names that have existed since the first request
  held,      \* the manifests that have existed since the first request
  known,     \* the repositories that had a tag or a manifest at every moment since
  changes    \* changes left

pageVars == <<names, manifests, listing, stable, held, known, changes>>

Sorted(s) == Ascending(s)

\* The items from the first one after last on; items are in order.
After(items, last) ==
  LET start == {i \in DOMAIN items : items[i] > last}
  IN  IF start = {} THEN <<>> ELSE SubSeq(items, Min(start), Len(items))
FirstOf(items, n) == IF n < Len(items) THEN SubSeq(items, 1, n) ELSE items

\* Mutant of paginate: the page begins with last itself.
PaginateFrom(items, n, last) ==
  LET rest == After(items, last - 1)
      page == IF n >= 0 THEN FirstOf(rest, n) ELSE rest
  IN  [page |-> page, next |-> IF n > 0 /\ n < Len(rest) THEN page[n] ELSE 0]

paginate(items, n, last) ==
  LET rest == After(items, last)
      page == IF n >= 0 THEN FirstOf(rest, n) ELSE rest
  IN  [page |-> page, next |-> IF n > 0 /\ n < Len(rest) THEN page[n] ELSE 0]

\* fstree.ListEntries: at most limit entries after the cursor, and whether more follow.
ListEntries(dir, after, limit) ==
  LET rest == After(dir, after) IN [entries |-> FirstOf(rest, limit), more |-> limit < Len(rest)]

-----------------------------------------------------------------------------
\* The client appends the page and follows the Link header while there is one.
Served(page, next) ==
  listing' = [listing EXCEPT !.got = @ \o page, !.last = next, !.dir = <<>>,
                             !.at = IF next = 0 THEN "done" ELSE "request"]

Asking(of) == listing.at = "request" /\ listing.of = of
Reads == UNCHANGED <<names, manifests, stable, held, known, changes>>

\* handleTags: image.Store.Tags lists the references; with none it looks for manifests.
handleTags ==
  /\ Asking("tags") /\ Reads
  /\ IF names = {} THEN listing' = [listing EXCEPT !.at = "known?"]
     ELSE LET p == paginate(Sorted(names), listing.n, listing.last) IN Served(p.page, p.next)

repoHasManifests ==
  /\ listing.at = "known?" /\ Reads
  /\ listing' = [listing EXCEPT !.at = "done", !.answer = IF manifests # {} THEN @ ELSE "unknown"]

\* Repositories lists the tag references and then the manifest references, each
\* in a transaction of its own; what the first scan saw waits in dir.
RepositoriesOfTags ==
  /\ Asking("catalog") /\ Reads
  /\ listing' = [listing EXCEPT !.at = "scanned", !.dir = Sorted(names)]

\* Mutant: only the repositories that have a tag.
CatalogOfTags ==
  /\ listing.at = "scanned" /\ Reads
  /\ LET p == paginate(listing.dir, listing.n, listing.last) IN Served(p.page, p.next)

handleCatalog ==
  /\ listing.at = "scanned" /\ Reads
  /\ LET p == paginate(Sorted(ToSet(listing.dir) \cup manifests), listing.n, listing.last)
     IN  Served(p.page, p.next)

serveListing ==
  /\ Asking("entries") /\ Reads
  /\ \/ listing.n = 0 /\ Served(<<>>, 0)
     \/ /\ listing.n > 0
        /\ LET p == ListEntries(Sorted(names), listing.last, listing.n)
           IN  Served(p.entries, IF p.more THEN Last(p.entries) ELSE 0)
     \/ listing.n < 0 /\ listing' = [listing EXCEPT !.at = "pages", !.dir = Sorted(names)]

\* ListDir without a limit collects the pages of one directory, whose object
\* does not change, from cursor to cursor.
ListDir ==
  /\ listing.at = "pages" /\ Reads
  /\ LET p == ListEntries(listing.dir, listing.last, ListPage) IN
     listing' = [listing EXCEPT !.got = @ \o p.entries,
                                !.last = IF p.more THEN Last(p.entries) ELSE 0,
                                !.at = IF p.more THEN "pages" ELSE "done"]

\* Other clients.  A push puts the manifest's reference before the tag's, a deletion
\* by digest takes the manifest's reference before the tags': the holders of the
\* repository's lock take these steps, a listing takes no lock.
Changing == listing.at # "done" /\ changes > 0 /\ changes' = changes - 1

ManifestPushed(x) ==
  /\ Changing /\ listing.of # "entries" /\ x \notin manifests
  /\ manifests' = manifests \cup {x}
  /\ UNCHANGED <<names, listing, stable, held, known>>

NamePushed(x) ==
  /\ Changing /\ x \notin names
  /\ listing.of = "tags" => manifests # {}
  /\ listing.of = "catalog" => x \in manifests
  /\ names' = names \cup {x}
  /\ UNCHANGED <<manifests, listing, stable, held, known>>

ManifestDeleted(x) ==
  /\ Changing /\ x \in manifests
  /\ manifests' = manifests \ {x} /\ held' = held \ {x}
  /\ known' = known \cap (names \cup manifests')
  /\ UNCHANGED <<names, listing, stable>>

NameDeleted(x) ==
  /\ Changing /\ x \in names
  /\ names' = names \ {x} /\ stable' = stable \ {x}
  /\ known' = known \cap (names' \cup manifests)
  /\ UNCHANGED <<manifests, listing, held>>

-----------------------------------------------------------------------------
NoListing == [of |-> "none", n |-> -1, at |-> "off", last |-> 0, dir |-> <<>>, got |-> <<>>, answer |-> "list"]

PageInit ==
  /\ names \in SUBSET PageNames /\ manifests \in SUBSET PageNames
  /\ stable = names /\ held = manifests /\ known = names \cup manifests
  /\ \E o \in {"tags", "catalog", "entries"}, n \in PageSizes :
       /\ listing = [NoListing EXCEPT !.of = o, !.n = n, !.at = "request"]
       /\ o = "entries" => manifests = {}
  /\ changes = MaxPageChanges

PageNext ==
  \/ handleTags \/ repoHasManifests \/ RepositoriesOfTags \/ handleCatalog \/ serveListing \/ ListDir
  \/ \E x \in PageNames :
       ManifestPushed(x) \/ NamePushed(x) \/ ManifestDeleted(x) \/ NameDeleted(x)

PageSpec == PageInit /\ [][PageNext]_pageVars

-----------------------------------------------------------------------------
(* Properties *)

\* What a listing must not lose: a catalog the repositories that kept a tag or kept a
\* manifest, the others the names that existed throughout.
Lasting == IF listing.of = "catalog" THEN stable \cup held ELSE stable

\* Paging loses and repeats nothing (paginate, ListDir, Repositories, the Link header):
\* whatever is pushed or deleted between the pages and between the scans of a request, the
\* client gets names in order, each once, and every name that existed throughout - for the
\* catalog, every repository that had a tag throughout or a manifest throughout; one that
\* only had one or the other at every moment may be left out (CatalogIsComplete).  A
\* repository with a tag or with a manifest throughout is never unknown.
PagingIsFaithful ==
  listing.at = "done" =>
    /\ \A i, j \in DOMAIN listing.got : i < j => listing.got[i] < listing.got[j]
    /\ listing.n # 0 => Lasting \subseteq ToSet(listing.got)
    /\ stable \cup held # {} => listing.answer = "list"

\* Repositories "returns every repository that has at least one tag or manifest ref"
\* (image/list.go:105): one that has had a reference at every moment since the client's
\* first request is in its catalog.
CatalogIsComplete ==
  listing.at = "done" /\ listing.of = "catalog" /\ listing.n # 0 => known \subseteq ToSet(listing.got)
=============================================================================
