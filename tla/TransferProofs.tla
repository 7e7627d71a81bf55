--------------------------- MODULE TransferProofs ---------------------------
(***************************************************************************)
(* store.Writer for any number of clients, encoders, keys, calls and       *)
(* faults, and finalizePrism on top of it for a stream of any length.      *)
(*                                                                         *)
(* The Writer: as long as the backend has not failed, every item that emit *)
(* accepted is in the channel, in the hands of one of the backend's        *)
(* goroutines, or settled, and is counted once.  A goroutine of a backend  *)
(* that has not failed only leaves a channel that is closed and drained.   *)
(* So when Close reports success nothing is on its way any more.           *)
(*                                                                         *)
(* finalizePrism: what the stager and the recipe's goroutine made is       *)
(* accepted by the pack writer, being offered, or given up with an error;  *)
(* a pack that was closed holds all of it, the live writer is offered all  *)
(* of the pack, and the live writer's Close makes it the store's.          *)
(***************************************************************************)
EXTENDS PrismStage, PrismPull, SequenceTheorems, FiniteSetTheorems, TLAPS

Places == {"idle", "rlock", "send", "lock", "wait", "panic"}
Writers ==
  [backend : {"live", "pack"}, closed : BOOLEAN, cause : Error \cup {Nil}, done : BOOLEAN,
   werr : Error \cup {Nil}, rerr : Error \cup {Nil, "ok"}]
PackFiles == [records : Seq(Key), skipped : Seq(Key), open : BOOLEAN, used : BOOLEAN]
Counters == [seen : SUBSET Key, logical : Nat, stored : Nat, deduped : Nat]

\* The keys of a sequence of items.
Keys(s) == {s[i].key : i \in 1..Len(s)}
Hand == {x \in Encoder : work[x] \in Item}

ClientsOK ==
  /\ pc \in [Client -> Places]
  /\ todo \in [Client -> Seq(Item)]
  /\ ret \in [Client -> BOOLEAN]
  /\ \A c \in Client : pc[c] \in {"rlock", "send"} => todo[c] # <<>>

BackendOK ==
  /\ w \in Writers
  /\ ch \in Seq(Item)
  /\ work \in [Encoder -> Item \cup {Nil, Gone}]
  /\ bfail \in Error \cup {Nil}
  /\ objects \subseteq Key
  /\ pack \in PackFiles
  /\ stats \in Counters
  /\ accepted \in [n : Nat, keys : SUBSET Key]

PackKeys == Range(pack.records) \cup Range(pack.skipped)
Settled == IF w.backend = "live" THEN stats.seen ELSE PackKeys

\* Everything that was accepted is settled or on its way, and counted once.
Counted == bfail = Nil => accepted.n = stats.logical + Len(ch) + Cardinality(Hand)
Kept ==
  bfail = Nil =>
    \A k \in accepted.keys : k \in Settled \/ k \in Keys(ch) \/ \E x \in Hand : work[x].key = k

\* What the live backend has seen is in the store, new or found.
Seen ==
  /\ stats.seen \subseteq objects
  /\ w.backend = "live" => stats.stored + stats.deduped = stats.logical

\* A goroutine of the backend leaves with an error or a closed, drained channel.
Leaves ==
  \A x \in Encoder :
    bfail = Nil /\ work[x] = Gone /\ (w.backend = "pack" \/ x = Iterator) => w.closed /\ ch = <<>>

\* The backend has returned when all have left; success is what it and the context say.
Returned ==
  /\ w.done => (\A x \in Encoder : work[x] = Gone) /\ (w.werr = Nil => bfail = Nil)
  /\ w.rerr = "ok" => w.done /\ w.werr = Nil

WInv == ClientsOK /\ BackendOK /\ Counted /\ Kept /\ Seen /\ Leaves /\ Returned

\* A Writer nobody else takes the pack from keeps it open unless it fails.
PackOpen == w.backend = "pack" /\ w.rerr \in {Nil, "ok"} => pack.open

-----------------------------------------------------------------------------
(***************************************************************************)
(* The keys of a longer and of a shorter channel.                          *)
(***************************************************************************)
LEMMA AppendKeys ==
  ASSUME NEW s \in Seq(Item), NEW it \in Item
  PROVE  /\ Append(s, it) \in Seq(Item) /\ Len(Append(s, it)) = Len(s) + 1 /\ Len(s) \in Nat
         /\ Keys(Append(s, it)) = Keys(s) \cup {it.key}
<1>1. /\ Append(s, it) \in Seq(Item) /\ Len(Append(s, it)) = Len(s) + 1 /\ Len(s) \in Nat
      /\ \A i \in 1..Len(s) : Append(s, it)[i] = s[i]
      /\ Append(s, it)[Len(s) + 1] = it
  BY AppendProperties, LenProperties
<1>2. 1..(Len(s) + 1) = 1..Len(s) \cup {Len(s) + 1}
  BY <1>1
<1> QED
  BY <1>1, <1>2 DEF Keys

(***************************************************************************)
(* The first item and the others.                                          *)
(***************************************************************************)
LEMMA TailKeys ==
  ASSUME NEW s \in Seq(Item), s # <<>>
  PROVE  /\ Head(s) \in Item /\ Tail(s) \in Seq(Item) /\ Len(Tail(s)) = Len(s) - 1
         /\ Len(s) \in Nat /\ Len(s) >= 1
         /\ Keys(s) \subseteq Keys(Tail(s)) \cup {Head(s).key}
         /\ Len(s) = 1 => Keys(s) = {Head(s).key}
         /\ Len(s) # 1 => Tail(s) # <<>>
<1>1. /\ Head(s) = s[1] /\ Tail(s) \in Seq(Item) /\ Len(Tail(s)) = Len(s) - 1
      /\ \A i \in 1..Len(Tail(s)) : Tail(s)[i] = s[i + 1]
  BY HeadTailProperties
<1>2. Len(s) \in Nat /\ Len(s) >= 1
  BY LenProperties, EmptySeq
<1>3. Head(s) \in Item
  BY <1>1, <1>2, ElementOfSeq
<1>4. ASSUME NEW i \in 1..Len(s) PROVE s[i].key \in Keys(Tail(s)) \cup {Head(s).key}
  <2>1. CASE i = 1
    BY <1>1, <2>1
  <2>2. CASE i # 1
    <3>1. i - 1 \in 1..Len(Tail(s)) /\ (i - 1) + 1 = i
      BY <1>1, <1>2, <2>2
    <3>2. Tail(s)[i - 1] = s[i]
      BY <1>1, <3>1
    <3>3. Tail(s)[i - 1].key \in Keys(Tail(s))
      BY <3>1 DEF Keys
    <3> QED
      BY <3>2, <3>3
  <2> QED
    BY <2>1, <2>2
<1>5. Keys(s) \subseteq Keys(Tail(s)) \cup {Head(s).key}
  BY <1>4 DEF Keys
<1>6. Len(s) = 1 => Keys(s) = {Head(s).key}
  BY <1>1 DEF Keys
<1>7. Len(s) # 1 => Tail(s) # <<>>
  <2>1. Tail(s) = <<>> => Len(Tail(s)) = 0
    BY <1>1, EmptySeq
  <2> QED
    BY <1>1, <1>2, <2>1
<1> QED
  BY <1>1, <1>2, <1>3, <1>5, <1>6, <1>7

(***************************************************************************)
(* A key appended to a pack's index is among its keys.                     *)
(***************************************************************************)
LEMMA AppendRange ==
  ASSUME NEW s \in Seq(Key), NEW k \in Key
  PROVE  Append(s, k) \in Seq(Key) /\ Range(s) \subseteq Range(Append(s, k)) /\ k \in Range(Append(s, k))
<1>1. /\ Append(s, k) \in Seq(Key) /\ Len(Append(s, k)) = Len(s) + 1
      /\ \A i \in 1..Len(s) : Append(s, k)[i] = s[i]
      /\ Append(s, k)[Len(s) + 1] = k
  BY AppendProperties
<1>2. /\ DOMAIN s = 1..Len(s) /\ Len(s) \in Nat
      /\ DOMAIN Append(s, k) = 1..(Len(s) + 1)
  BY <1>1, LenProperties
<1>3. 1..Len(s) \subseteq 1..(Len(s) + 1) /\ Len(s) + 1 \in 1..(Len(s) + 1)
  BY <1>2
<1>4. ASSUME NEW i \in 1..Len(s) PROVE s[i] \in Range(Append(s, k))
  BY <1>1, <1>2, <1>3 DEF Range
<1>5. k \in Range(Append(s, k))
  BY <1>1, <1>2, <1>3 DEF Range
<1>6. Range(s) = {s[i] : i \in 1..Len(s)}
  BY <1>2 DEF Range
<1> QED
  BY <1>1, <1>4, <1>5, <1>6

(***************************************************************************)
(* A goroutine of the backend takes an item up.                            *)
(***************************************************************************)
LEMMA HandTakes ==
  ASSUME BackendOK, NEW x \in Encoder, work[x] \notin Item, NEW it \in Item,
         work' = [work EXCEPT ![x] = it]
  PROVE  /\ work' \in [Encoder -> Item \cup {Nil, Gone}]
         /\ work'[x] = it /\ \A y \in Encoder \ {x} : work'[y] = work[y]
         /\ Hand' = Hand \cup {x}
         /\ Cardinality(Hand) \in Nat /\ Cardinality(Hand') = Cardinality(Hand) + 1
<1>1. /\ work' \in [Encoder -> Item \cup {Nil, Gone}]
      /\ work'[x] = it /\ \A y \in Encoder \ {x} : work'[y] = work[y]
  BY DEF BackendOK
<1>2. Hand' = Hand \cup {x} /\ x \notin Hand
  BY <1>1 DEF Hand
<1>3. IsFiniteSet(Hand) /\ Cardinality(Hand) \in Nat
  BY WriterAssumption, FS_Subset, FS_CardinalityType DEF Hand
<1>4. Cardinality(Hand \cup {x}) = Cardinality(Hand) + 1
  BY <1>2, <1>3, FS_AddElement
<1> QED
  BY <1>1, <1>2, <1>3, <1>4

(***************************************************************************)
(* It is through with it, or leaves.                                       *)
(***************************************************************************)
LEMMA HandDrops ==
  ASSUME BackendOK, NEW x \in Encoder, NEW v \in {Nil, Gone},
         work' = [work EXCEPT ![x] = v]
  PROVE  /\ work' \in [Encoder -> Item \cup {Nil, Gone}]
         /\ work'[x] = v /\ \A y \in Encoder \ {x} : work'[y] = work[y]
         /\ Hand' = Hand \ {x}
         /\ Cardinality(Hand) \in Nat /\ Cardinality(Hand') \in Nat
         /\ work[x] \in Item => Cardinality(Hand) = Cardinality(Hand') + 1
         /\ work[x] \notin Item => Hand' = Hand
<1>1. /\ work' \in [Encoder -> Item \cup {Nil, Gone}]
      /\ work'[x] = v /\ \A y \in Encoder \ {x} : work'[y] = work[y]
  BY DEF BackendOK
<1>2. v \notin Item
  BY WriterAssumption
<1>3. Hand' = Hand \ {x}
  BY <1>1, <1>2 DEF Hand
<1>4. IsFiniteSet(Hand) /\ Cardinality(Hand) \in Nat
  BY WriterAssumption, FS_Subset, FS_CardinalityType DEF Hand
<1>5. IsFiniteSet(Hand \ {x}) /\ Cardinality(Hand \ {x}) \in Nat
  BY <1>4, FS_Subset, FS_CardinalityType
<1>6. work[x] \in Item => x \in Hand
  BY DEF Hand
<1>7. x \in Hand => Cardinality(Hand \ {x}) = Cardinality(Hand) - 1
  BY <1>4, FS_RemoveElement
<1>8. work[x] \notin Item => Hand \ {x} = Hand
  BY DEF Hand
<1> QED
  BY <1>1, <1>3, <1>4, <1>5, <1>6, <1>7, <1>8

-----------------------------------------------------------------------------
(***************************************************************************)
(* A client moves.                                                         *)
(***************************************************************************)
LEMMA ClientMoves ==
  ASSUME ClientsOK, NEW c \in Client, NEW q \in Places, pc' = [pc EXCEPT ![c] = q],
         todo' \in [Client -> Seq(Item)], \A d \in Client \ {c} : todo'[d] = todo[d],
         q \in {"rlock", "send"} => todo'[c] # <<>>, ret' \in [Client -> BOOLEAN]
  PROVE  ClientsOK' /\ pc'[c] = q /\ \A d \in Client \ {c} : pc'[d] = pc[d]
BY DEF ClientsOK

(***************************************************************************)
(* A call returns.                                                         *)
(***************************************************************************)
LEMMA ClientReturns ==
  ASSUME ClientsOK, NEW c \in Client, NEW r, Returns(c, r)
  PROVE  /\ ClientsOK' /\ pc'[c] = "idle" /\ (ret'[c] <=> r = "ok")
         /\ \A d \in Client \ {c} : pc'[d] = pc[d] /\ todo'[d] = todo[d] /\ ret'[d] = ret[d]
<1>1. <<>> \in Seq(Item)
  OBVIOUS
<1>2. (r = "ok") \in BOOLEAN
  OBVIOUS
<1>3. todo' \in [Client -> Seq(Item)] /\ ret' \in [Client -> BOOLEAN]
  BY <1>1, <1>2 DEF Returns, ClientsOK
<1>4. /\ \A d \in Client \ {c} : todo'[d] = todo[d] /\ ret'[d] = ret[d]
      /\ ret'[c] <=> r = "ok"
  BY DEF Returns, ClientsOK
<1>5. "idle" \in Places /\ pc' = [pc EXCEPT ![c] = "idle"]
  BY DEF Returns, Places
<1> QED
  BY <1>3, <1>4, <1>5, ClientMoves

(***************************************************************************)
(* A step that only cancels, closes or marks the pack as used.             *)
(***************************************************************************)
LEMMA QuietStep ==
  ASSUME WInv, ClientsOK', w' \in Writers, pack' \in PackFiles,
         w'.backend = w.backend, w'.done = w.done, w'.werr = w.werr, w'.rerr = w.rerr, w.closed => w'.closed,
         pack'.records = pack.records, pack'.skipped = pack.skipped,
         UNCHANGED <<ch, work, bfail, objects, stats, accepted>>
  PROVE  WInv'
<1>1. BackendOK'
  BY DEF WInv, BackendOK
<1>2. Hand' = Hand /\ Settled' = Settled
  BY DEF Hand, Settled, PackKeys
<1>3. Counted' /\ Kept'
  BY <1>2 DEF WInv, Counted, Kept
<1>4. Seen' /\ Leaves' /\ Returned'
  BY DEF WInv, Seen, Leaves, Returned
<1> QED
  BY <1>1, <1>3, <1>4 DEF WInv

(***************************************************************************)
(* Cancelling keeps the first cause and nothing else changes.              *)
(***************************************************************************)
LEMMA CancelledOK ==
  ASSUME w \in Writers, NEW err \in Error
  PROVE  /\ Cancelled(err) \in Writers /\ Cancelled(err).backend = w.backend /\ Cancelled(err).done = w.done
         /\ Cancelled(err).werr = w.werr /\ Cancelled(err).rerr = w.rerr /\ Cancelled(err).closed = w.closed
         /\ Cancelled(err).cause # Nil
BY WriterAssumption DEF Cancelled, Or, Writers

(***************************************************************************)
(* A pack's items are its records and its skipped keys.                    *)
(***************************************************************************)
LEMMA PackItemsOK ==
  ASSUME NEW p \in PackFiles
  PROVE  PackItems(p) \in Seq(Item) /\ Keys(PackItems(p)) = Range(p.records) \cup Range(p.skipped)
<1> DEFINE a == [i \in DOMAIN p.records |-> Object(p.records[i])]
           b == [i \in DOMAIN p.skipped |-> Skipped(p.skipped[i])]
           m == Len(p.records)
           n == Len(p.skipped)
<1>1. p.records \in Seq(Key) /\ p.skipped \in Seq(Key)
  BY DEF PackFiles
<1>2. m \in Nat /\ n \in Nat /\ DOMAIN p.records = 1..m /\ DOMAIN p.skipped = 1..n
  BY <1>1, LenProperties
<1>3. (\A i \in 1..m : p.records[i] \in Key) /\ (\A i \in 1..n : p.skipped[i] \in Key)
  BY <1>1, ElementOfSeq
<1>4. a \in Seq(Item) /\ Len(a) = m /\ \A i \in 1..m : a[i].key = p.records[i]
  <2>1. a \in [1..m -> Item] /\ \A i \in 1..m : a[i].key = p.records[i]
    BY <1>2, <1>3 DEF Object, Item
  <2> HIDE DEF a
  <2> QED
    BY <1>2, <2>1
<1>5. b \in Seq(Item) /\ Len(b) = n /\ \A i \in 1..n : b[i].key = p.skipped[i]
  <2>1. b \in [1..n -> Item] /\ \A i \in 1..n : b[i].key = p.skipped[i]
    BY <1>2, <1>3 DEF Skipped, Item
  <2> HIDE DEF b
  <2> QED
    BY <1>2, <2>1
<1>6. PackItems(p) = a \o b
  BY DEF PackItems
<1> HIDE DEF a, b, m, n
<1>7. a \o b \in Seq(Item) /\ Len(a \o b) = m + n
  <2>1. a \o b \in Seq(Item) /\ Len(a \o b) = Len(a) + Len(b)
    BY <1>4, <1>5, ConcatProperties
  <2> QED
    BY <1>4, <1>5, <2>1
<1>8. \A i \in 1..(m + n) : (a \o b)[i] = IF i <= m THEN a[i] ELSE b[i - m]
  <2>1. \A i \in 1..(Len(a) + Len(b)) : (a \o b)[i] = IF i <= Len(a) THEN a[i] ELSE b[i - Len(a)]
    BY <1>4, <1>5, ConcatProperties
  <2> QED
    BY <1>4, <1>5, <2>1
<1>9. ASSUME NEW k, k \in Keys(a \o b) PROVE k \in Range(p.records) \cup Range(p.skipped)
  <2>1. PICK i \in 1..(m + n) : k = (a \o b)[i].key
    BY <1>7, <1>9 DEF Keys
  <2>2. CASE i <= m
    <3>1. i \in 1..m /\ k = p.records[i]
      BY <1>2, <1>4, <1>8, <2>1, <2>2
    <3> QED
      BY <1>2, <3>1 DEF Range
  <2>3. CASE ~(i <= m)
    <3>1. i - m \in 1..n
      BY <1>2, <2>3
    <3>2. (a \o b)[i] = b[i - m]
      BY <1>8, <2>3
    <3>3. k = p.skipped[i - m]
      BY <1>5, <2>1, <3>1, <3>2
    <3> QED
      BY <1>2, <3>1, <3>3 DEF Range
  <2> QED
    BY <2>2, <2>3
<1>10. ASSUME NEW k \in Range(p.records) PROVE k \in Keys(a \o b)
  <2>1. PICK i \in 1..m : k = p.records[i]
    BY <1>2 DEF Range
  <2>2. i \in 1..(m + n) /\ i <= m
    BY <1>2
  <2>3. (a \o b)[i].key = k
    BY <1>4, <1>8, <2>1, <2>2
  <2> QED
    BY <1>7, <2>2, <2>3 DEF Keys
<1>11. ASSUME NEW k \in Range(p.skipped) PROVE k \in Keys(a \o b)
  <2>1. PICK i \in 1..n : k = p.skipped[i]
    BY <1>2 DEF Range
  <2>2. m + i \in 1..(m + n) /\ ~(m + i <= m) /\ (m + i) - m = i
    BY <1>2
  <2>3. (a \o b)[m + i].key = k
    BY <1>5, <1>8, <2>1, <2>2
  <2> QED
    BY <1>7, <2>2, <2>3 DEF Keys
<1> QED
  BY <1>6, <1>7, <1>9, <1>10, <1>11

-----------------------------------------------------------------------------
\* A step leaves client d where it is.
Untouched(d) == pc'[d] = pc[d] /\ todo'[d] = todo[d] /\ ret'[d] = ret[d]

(***************************************************************************)
(* A call begins: a client offers items, or closes the Writer.             *)
(***************************************************************************)
LEMMA OfferW ==
  ASSUME WInv, NEW c \in Client, NEW items \in Seq(Item), items # <<>>, Offer(c, items)
  PROVE  /\ WInv' /\ pc'[c] = "rlock" /\ todo'[c] = items /\ \A d \in Client \ {c} : Untouched(d)
         /\ UNCHANGED <<w, pack, accepted, objects>>
<1>1. ClientsOK /\ BackendOK
  BY DEF WInv
<1>2. /\ pc' = [pc EXCEPT ![c] = "rlock"] /\ todo' = [todo EXCEPT ![c] = items]
      /\ UNCHANGED <<streamVars, ret, backendVars, accepted>>
  BY DEF Offer
<1>3. UNCHANGED <<w, ch, ret, work, bfail, objects, pack, stats, accepted>>
  BY <1>2 DEF streamVars, backendVars
<1>4. /\ todo' \in [Client -> Seq(Item)] /\ todo'[c] = items /\ \A d \in Client \ {c} : todo'[d] = todo[d]
      /\ ret' \in [Client -> BOOLEAN] /\ "rlock" \in Places
  BY <1>1, <1>2, <1>3 DEF ClientsOK, Places
<1>5. ClientsOK' /\ pc'[c] = "rlock" /\ \A d \in Client \ {c} : pc'[d] = pc[d]
  BY <1>1, <1>2, <1>4, ClientMoves
<1>6. WInv'
  BY <1>1, <1>3, <1>5, QuietStep DEF BackendOK
<1> QED
  BY <1>3, <1>4, <1>5, <1>6 DEF Untouched

(***************************************************************************)
(* Close and Abort.                                                        *)
(***************************************************************************)
LEMMA CloseW ==
  ASSUME WInv, NEW c \in Client, Close(c) \/ Abort(c)
  PROVE  /\ WInv' /\ pc'[c] = "lock" /\ \A d \in Client \ {c} : Untouched(d)
         /\ w'.backend = w.backend /\ w'.rerr = w.rerr /\ UNCHANGED <<pack, accepted, objects>>
<1>1. ClientsOK /\ BackendOK
  BY DEF WInv
<1>2. pc' = [pc EXCEPT ![c] = "lock"] /\ (w' = w \/ w' = Cancelled("aborted"))
  BY DEF Close, Abort, streamVars
<1>3. UNCHANGED <<ch, todo, ret, work, bfail, objects, pack, stats, accepted>>
  BY DEF Close, Abort, streamVars, backendVars
<1>4. ClientsOK' /\ pc'[c] = "lock" /\ \A d \in Client \ {c} : pc'[d] = pc[d]
  <2>1. "lock" \in Places /\ todo' \in [Client -> Seq(Item)] /\ ret' \in [Client -> BOOLEAN]
    BY <1>1, <1>3 DEF ClientsOK, Places
  <2>2. \A d \in Client \ {c} : todo'[d] = todo[d]
    BY <1>3
  <2> QED
    BY <1>1, <1>2, <2>1, <2>2, ClientMoves
<1>5. /\ w' \in Writers /\ w'.backend = w.backend /\ w'.done = w.done
      /\ w'.werr = w.werr /\ w'.rerr = w.rerr /\ w'.closed = w.closed
  <2>1. "aborted" \in Error
    BY DEF Error
  <2> QED
    BY <1>1, <1>2, <2>1, CancelledOK DEF BackendOK
<1>6. WInv'
  BY <1>1, <1>3, <1>4, <1>5, QuietStep DEF BackendOK
<1> QED
  BY <1>3, <1>4, <1>5, <1>6 DEF Untouched

(***************************************************************************)
(* AddPack: the items of the pack are to be offered.                       *)
(***************************************************************************)
LEMMA AddPackW ==
  ASSUME WInv, NEW c \in Client, AddPack(c)
  PROVE  /\ WInv'
         /\ UNCHANGED <<w, accepted, objects>> /\ \A d \in Client \ {c} : Untouched(d)
         /\ pack'.records = pack.records /\ pack'.skipped = pack.skipped /\ pack'.open = pack.open
         /\ \/ pc'[c] = "idle" /\ ~ret'[c]
            \/ pc'[c] = "idle" /\ Keys(PackItems(pack)) = {}
            \/ pc'[c] = "rlock" /\ todo'[c] = PackItems(pack)
<1>1. ClientsOK /\ BackendOK /\ pack \in PackFiles
  BY DEF WInv, BackendOK
<1>2. UNCHANGED <<w, ch, work, bfail, objects, stats, accepted>>
  BY DEF AddPack, streamVars
<1>3. CASE Returns(c, "used") /\ UNCHANGED pack
  <2>1. ClientsOK' /\ pc'[c] = "idle" /\ ~ret'[c] /\ \A d \in Client \ {c} : Untouched(d)
    BY <1>1, <1>3, ClientReturns DEF Untouched
  <2>2. WInv'
    BY <1>1, <1>2, <1>3, <2>1, QuietStep DEF BackendOK
  <2> QED
    BY <1>2, <1>3, <2>1, <2>2
<1>4. CASE /\ pack' = [pack EXCEPT !.used = TRUE]
           /\ pc' = [pc EXCEPT ![c] = IF PackItems(pack) = <<>> THEN "idle" ELSE "rlock"]
           /\ todo' = [todo EXCEPT ![c] = PackItems(pack)]
           /\ ret' = [ret EXCEPT ![c] = TRUE]
  <2> DEFINE items == PackItems(pack)
  <2>1. items \in Seq(Item)
    BY <1>1, PackItemsOK
  <2>2. /\ pack' \in PackFiles /\ pack'.records = pack.records /\ pack'.skipped = pack.skipped /\ pack'.open = pack.open
    BY <1>1, <1>4 DEF PackFiles
  <2> HIDE DEF items
  <2>3. /\ todo' = [todo EXCEPT ![c] = items] /\ ret' = [ret EXCEPT ![c] = TRUE]
        /\ pc' = [pc EXCEPT ![c] = IF items = <<>> THEN "idle" ELSE "rlock"]
    BY <1>4 DEF items
  <2>4. /\ todo' \in [Client -> Seq(Item)] /\ todo'[c] = items /\ \A d \in Client \ {c} : todo'[d] = todo[d] /\ ret'[d] = ret[d]
        /\ ret' \in [Client -> BOOLEAN] /\ {"idle", "rlock"} \subseteq Places
    BY <1>1, <2>1, <2>3 DEF ClientsOK, Places
  <2>5. CASE items = <<>>
    <3>1. ClientsOK' /\ pc'[c] = "idle" /\ \A d \in Client \ {c} : pc'[d] = pc[d]
      BY <1>1, <2>3, <2>4, <2>5, ClientMoves
    <3>2. Keys(items) = {}
      BY <2>5 DEF Keys
    <3>3. WInv'
      BY <1>1, <1>2, <2>2, <3>1, QuietStep DEF BackendOK
    <3> QED
      BY <1>2, <2>2, <2>4, <3>1, <3>2, <3>3 DEF items, Untouched
  <2>6. CASE items # <<>>
    <3>1. ClientsOK' /\ pc'[c] = "rlock" /\ \A d \in Client \ {c} : pc'[d] = pc[d]
      BY <1>1, <2>3, <2>4, <2>6, ClientMoves
    <3>2. WInv'
      BY <1>1, <1>2, <2>2, <3>1, QuietStep DEF BackendOK
    <3> QED
      BY <1>2, <2>2, <2>4, <3>1, <3>2 DEF items, Untouched
  <2> QED
    BY <2>5, <2>6
<1> QED
  BY <1>3, <1>4 DEF AddPack

(***************************************************************************)
(* A call that comes to nothing, and emit's look at the Writer.            *)
(***************************************************************************)
LEMMA EmitEndsW ==
  ASSUME WInv, NEW c \in Client, AddPackFails(c) \/ EmitLock(c) \/ EmitStops(c)
  PROVE  /\ WInv' /\ w'.backend = w.backend /\ w'.rerr = w.rerr /\ UNCHANGED <<accepted, pack>>
         /\ pc[c] \in {"rlock", "send"}
         /\ \/ pc'[c] = "idle" /\ ~ret'[c]
            \/ pc'[c] = "send" /\ todo'[c] = todo[c]
         /\ \A d \in Client \ {c} : Untouched(d)
<1>1. ClientsOK /\ BackendOK /\ w \in Writers
  BY DEF WInv, BackendOK
<1>2. UNCHANGED <<ch, work, bfail, objects, pack, stats, accepted>> /\ (w' = w \/ w' = Cancelled("malformed"))
  BY DEF AddPackFails, EmitLock, EmitStops, streamVars, backendVars
<1>3. /\ w' \in Writers /\ w'.backend = w.backend /\ w'.done = w.done
      /\ w'.werr = w.werr /\ w'.rerr = w.rerr /\ w'.closed = w.closed
  <2>1. "malformed" \in Error
    BY DEF Error
  <2> QED
    BY <1>1, <1>2, <2>1, CancelledOK
<1>4. pc[c] \in {"rlock", "send"}
  BY DEF AddPackFails, EmitLock, EmitStops
<1>5. ASSUME NEW r \in Error, Returns(c, r)
      PROVE  /\ ClientsOK' /\ pc'[c] = "idle" /\ ~ret'[c]
             /\ \A d \in Client \ {c} : Untouched(d)
  <2>1. r # "ok"
    BY DEF Error
  <2> QED
    BY <1>1, <1>5, <2>1, ClientReturns DEF Untouched
<1>6. CASE pc' = [pc EXCEPT ![c] = "send"] /\ UNCHANGED <<todo, ret>>
  <2>1. "send" \in Places /\ todo' \in [Client -> Seq(Item)] /\ ret' \in [Client -> BOOLEAN] /\ todo'[c] # <<>>
    BY <1>1, <1>4, <1>6 DEF ClientsOK, Places
  <2>2. ClientsOK' /\ pc'[c] = "send" /\ \A d \in Client \ {c} : pc'[d] = pc[d]
    BY <1>1, <1>6, <2>1, ClientMoves
  <2>3. WInv'
    BY <1>1, <1>2, <1>3, <2>2, QuietStep DEF BackendOK
  <2> QED
    BY <1>2, <1>3, <1>4, <1>6, <2>2, <2>3 DEF Untouched
<1>7. CASE \E r \in Error : Returns(c, r)
  BY <1>1, <1>2, <1>3, <1>4, <1>5, <1>7, QuietStep DEF BackendOK
<1>8. {"malformed", "closed"} \subseteq Error /\ stoppedErr \in Error /\ (w.cause # Nil => w.cause \in Error)
  BY <1>1 DEF Error, stoppedErr, Or, Writers
<1>9. Or(w.werr, stoppedErr) \in Error
  BY <1>1, <1>8 DEF Or, Writers
<1>10. AddPackFails(c) => Returns(c, "malformed")
  BY DEF AddPackFails
<1>11. EmitStops(c) => \E r \in Error : Returns(c, r)
  BY <1>8, <1>9 DEF EmitStops
<1>12. EmitLock(c) => \/ \E r \in Error : Returns(c, r)
                      \/ pc' = [pc EXCEPT ![c] = "send"] /\ UNCHANGED <<todo, ret>>
  BY <1>8 DEF EmitLock
<1> QED
  BY <1>6, <1>7, <1>8, <1>10, <1>11, <1>12

(***************************************************************************)
(* The stream is closed, or a context ends.                                *)
(***************************************************************************)
LEMMA closeStreamW ==
  ASSUME WInv, NEW c \in Client, closeStream(c)
  PROVE  /\ WInv' /\ w'.backend = w.backend /\ w'.rerr = w.rerr /\ UNCHANGED <<accepted, pack>>
         /\ pc[c] = "lock" /\ pc'[c] = "wait" /\ \A d \in Client \ {c} : Untouched(d)
<1>1. ClientsOK /\ BackendOK /\ w \in Writers
  BY DEF WInv, BackendOK
<1>2. /\ UNCHANGED <<ch, todo, ret, work, bfail, objects, pack, stats, accepted>>
      /\ w' = [w EXCEPT !.closed = TRUE] /\ pc' = [pc EXCEPT ![c] = "wait"] /\ pc[c] = "lock"
  BY DEF closeStream, backendVars
<1>3. /\ w' \in Writers /\ w'.backend = w.backend /\ w'.done = w.done
      /\ w'.werr = w.werr /\ w'.rerr = w.rerr /\ w'.closed
  BY <1>1, <1>2 DEF Writers
<1>4. "wait" \in Places /\ todo' \in [Client -> Seq(Item)] /\ ret' \in [Client -> BOOLEAN]
  BY <1>1, <1>2 DEF ClientsOK, Places
<1>5. ClientsOK' /\ pc'[c] = "wait" /\ \A d \in Client \ {c} : pc'[d] = pc[d]
  BY <1>1, <1>2, <1>4, ClientMoves
<1>6. WInv'
  BY <1>1, <1>2, <1>3, <1>5, QuietStep DEF BackendOK
<1> QED
  BY <1>2, <1>3, <1>5, <1>6 DEF Untouched

(***************************************************************************)
(* A context that the Writer is bound to ends.                             *)
(***************************************************************************)
LEMMA CancelW ==
  ASSUME WInv, NEW err \in Error, w' = Cancelled(err),
         UNCHANGED <<ch, clientVars, backendVars, accepted>>
  PROVE  WInv' /\ w'.backend = w.backend /\ w'.rerr = w.rerr
<1>1. ClientsOK /\ BackendOK /\ w \in Writers
  BY DEF WInv, BackendOK
<1>2. UNCHANGED <<pc, todo, ret, work, bfail, objects, pack, stats>>
  BY DEF clientVars, backendVars
<1>3. /\ w' \in Writers /\ w'.backend = w.backend /\ w'.done = w.done
      /\ w'.werr = w.werr /\ w'.rerr = w.rerr /\ w'.closed = w.closed
  BY <1>1, CancelledOK
<1>4. ClientsOK'
  BY <1>1, <1>2 DEF ClientsOK
<1> QED
  BY <1>1, <1>2, <1>3, <1>4, QuietStep DEF BackendOK

\* One more is accepted and one more is in the channel.
LEMMA EmitCounts ==
  ASSUME Counted, accepted.n \in Nat, stats.logical \in Nat, Len(ch) \in Nat, Cardinality(Hand) \in Nat,
         accepted'.n = accepted.n + 1, Len(ch') = Len(ch) + 1, Hand' = Hand, UNCHANGED <<bfail, stats>>
  PROVE  Counted'
<1>1. SUFFICES ASSUME bfail = Nil
               PROVE  accepted'.n = stats.logical + Len(ch') + Cardinality(Hand)
  BY DEF Counted
<1>2. accepted.n = stats.logical + Len(ch) + Cardinality(Hand)
  BY <1>1 DEF Counted
<1> DEFINE a == accepted.n
           l == stats.logical
           q == Len(ch)
           h == Cardinality(Hand)
<1>3. /\ a \in Nat /\ l \in Nat /\ q \in Nat /\ h \in Nat /\ a = l + q + h
      /\ accepted'.n = a + 1 /\ Len(ch') = q + 1
  BY <1>2
<1> HIDE DEF a, l, q, h
<1>4. accepted'.n = l + Len(ch') + h
  BY <1>3
<1> QED
  BY <1>4 DEF l, h

(***************************************************************************)
(* emit sends: the item is accepted and in the channel.                    *)
(***************************************************************************)
LEMMA EmitSendW ==
  ASSUME WInv, NEW c \in Client, EmitSend(c)
  PROVE  /\ WInv' /\ UNCHANGED <<w, pack>> /\ accepted.keys \subseteq accepted'.keys
         /\ pc[c] = "send" /\ \A d \in Client \ {c} : Untouched(d)
         /\ \/ pc'[c] = "panic"
            \/ pc'[c] = "idle" /\ Keys(todo[c]) \subseteq accepted'.keys
            \/ pc'[c] = "rlock" /\ Keys(todo[c]) \subseteq accepted'.keys \cup Keys(todo'[c])
<1> USE DEF WInv
<1>1. ClientsOK /\ BackendOK /\ w \in Writers /\ ch \in Seq(Item) /\ pc[c] = "send"
  BY DEF BackendOK, EmitSend
<1>2. UNCHANGED <<w, work, bfail, objects, pack, stats>>
  BY DEF EmitSend, backendVars
<1>3. todo[c] \in Seq(Item) /\ todo[c] # <<>>
  BY <1>1 DEF ClientsOK
<1>4. CASE w.closed
  <2>1. pc' = [pc EXCEPT ![c] = "panic"] /\ UNCHANGED <<ch, todo, ret, accepted>>
    BY <1>4 DEF EmitSend
  <2>2. /\ "panic" \in Places /\ todo' \in [Client -> Seq(Item)] /\ ret' \in [Client -> BOOLEAN]
        /\ \A d \in Client \ {c} : todo'[d] = todo[d]
    BY <1>1, <2>1 DEF ClientsOK, Places
  <2>3. ClientsOK' /\ pc'[c] = "panic" /\ \A d \in Client \ {c} : pc'[d] = pc[d]
    BY <1>1, <2>1, <2>2, ClientMoves
  <2>4. WInv'
    BY <1>1, <1>2, <2>1, <2>3, QuietStep DEF BackendOK
  <2> QED
    BY <1>1, <1>2, <2>1, <2>3, <2>4 DEF Untouched
<1>5. CASE ~w.closed
  <2> DEFINE it == Head(todo[c])
             ks == accepted.keys \cup {it.key}
  <2>1. /\ ch' = Append(ch, it)
        /\ accepted' = [n |-> accepted.n + 1, keys |-> ks]
        /\ IF Len(todo[c]) = 1
           THEN Returns(c, "ok")
           ELSE /\ pc' = [pc EXCEPT ![c] = "rlock"]
                /\ todo' = [todo EXCEPT ![c] = Tail(@)]
                /\ UNCHANGED ret
    BY <1>5 DEF EmitSend
  <2>2. /\ it \in Item /\ Tail(todo[c]) \in Seq(Item)
        /\ Keys(todo[c]) \subseteq Keys(Tail(todo[c])) \cup {it.key}
        /\ Len(todo[c]) = 1 => Keys(todo[c]) = {it.key}
        /\ Len(todo[c]) # 1 => Tail(todo[c]) # <<>>
    BY <1>3, TailKeys
  <2>3. it.key \in Key
    BY <2>2 DEF Item
  <2> HIDE DEF it
  <2>4. accepted'.n = accepted.n + 1 /\ accepted'.keys = ks /\ accepted' \in [n : Nat, keys : SUBSET Key]
    BY <1>1, <2>1, <2>3 DEF BackendOK
  <2>5. /\ ch' \in Seq(Item) /\ Len(ch') = Len(ch) + 1 /\ Len(ch) \in Nat
        /\ Keys(ch') = Keys(ch) \cup {it.key}
    BY <1>1, <2>1, <2>2, AppendKeys
  <2>6. BackendOK'
    BY <1>1, <1>2, <2>4, <2>5 DEF BackendOK
  <2>7. Hand' = Hand /\ Settled' = Settled /\ Cardinality(Hand) \in Nat
    <3>1. IsFiniteSet(Hand) /\ Cardinality(Hand) \in Nat
      BY WriterAssumption, FS_Subset, FS_CardinalityType DEF Hand
    <3>2. Hand' = Hand
      BY <1>2 DEF Hand
    <3>3. Settled' = Settled
      BY <1>2 DEF Settled, PackKeys
    <3> QED
      BY <3>1, <3>2, <3>3
  <2>8. Counted'
    <3>1. stats.logical \in Nat /\ accepted.n \in Nat
      BY <1>1 DEF BackendOK, Counters
    <3> QED
      BY <1>2, <2>4, <2>5, <2>7, <3>1, EmitCounts
  <2>9. Kept'
    BY <1>2, <2>4, <2>5, <2>7 DEF Kept
  <2>10. Seen' /\ Leaves' /\ Returned'
    BY <1>2, <1>5 DEF Seen, Leaves, Returned
  <2>11. CASE Len(todo[c]) = 1
    <3>1. ClientsOK' /\ pc'[c] = "idle" /\ \A d \in Client \ {c} : Untouched(d)
      BY <1>1, <2>1, <2>11, ClientReturns DEF Untouched
    <3> QED
      BY <1>1, <1>2, <2>2, <2>4, <2>6, <2>8, <2>9, <2>10, <2>11, <3>1
  <2>12. CASE Len(todo[c]) # 1
    <3>1. pc' = [pc EXCEPT ![c] = "rlock"] /\ todo' = [todo EXCEPT ![c] = Tail(todo[c])] /\ ret' = ret
      BY <2>1, <2>12
    <3>2. /\ "rlock" \in Places /\ todo' \in [Client -> Seq(Item)] /\ ret' \in [Client -> BOOLEAN]
          /\ todo'[c] = Tail(todo[c]) /\ todo'[c] # <<>>
          /\ \A d \in Client \ {c} : todo'[d] = todo[d]
      BY <1>1, <2>2, <2>12, <3>1 DEF ClientsOK, Places
    <3>3. ClientsOK' /\ pc'[c] = "rlock" /\ \A d \in Client \ {c} : pc'[d] = pc[d]
      BY <1>1, <3>1, <3>2, ClientMoves
    <3> QED
      BY <1>1, <1>2, <2>2, <2>4, <2>6, <2>8, <2>9, <2>10, <3>1, <3>2, <3>3 DEF Untouched
  <2> QED
    BY <2>11, <2>12
<1> QED
  BY <1>4, <1>5

(***************************************************************************)
(* The result is computed once, and success is what the backend and the    *)
(* context say.                                                            *)
(***************************************************************************)
LEMMA settleW ==
  ASSUME WInv, NEW c \in Client, settle(c)
  PROVE  /\ WInv' /\ w'.backend = w.backend /\ (w.rerr # Nil => w'.rerr = w.rerr) /\ UNCHANGED accepted
         /\ pack'.records = pack.records /\ pack'.skipped = pack.skipped
         /\ pc[c] = "wait" /\ pc'[c] = "idle" /\ (ret'[c] => w'.rerr = "ok")
         /\ \A d \in Client \ {c} : Untouched(d)
         /\ PackOpen => PackOpen'
<1> USE DEF WInv
<1>1. ClientsOK /\ BackendOK /\ w \in Writers /\ pack \in PackFiles /\ pc[c] = "wait" /\ w.done
  BY DEF BackendOK, settle
<1>2. UNCHANGED <<ch, work, bfail, objects, stats, accepted>>
  BY DEF settle
<1>3. CASE w.rerr # Nil
  <2>1. Returns(c, w.rerr) /\ UNCHANGED <<w, pack>>
    BY <1>3 DEF settle
  <2>2. ClientsOK' /\ pc'[c] = "idle" /\ (ret'[c] <=> w.rerr = "ok") /\ \A d \in Client \ {c} : Untouched(d)
    BY <1>1, <2>1, ClientReturns DEF Untouched
  <2>3. WInv'
    BY <1>1, <1>2, <2>1, <2>2, QuietStep DEF BackendOK
  <2> QED
    BY <1>1, <1>2, <2>1, <2>2, <2>3 DEF PackOpen
<1>4. CASE w.rerr = Nil
  <2>1. PICK r \in {Or(finish, "ok"), "backend"} :
          /\ w' = [Cancelled("closed") EXCEPT !.rerr = r]
          /\ pack' = [pack EXCEPT !.open = @ /\ (w.backend = "live" \/ r = "ok")]
          /\ Returns(c, r)
    BY <1>4 DEF settle
  <2>2. r \in Error \cup {"ok"} /\ (r = "ok" => w.werr = Nil)
    BY <1>1, <2>1, WriterAssumption DEF Or, finish, Writers, Error
  <2>3. ClientsOK' /\ pc'[c] = "idle" /\ (ret'[c] <=> r = "ok") /\ \A d \in Client \ {c} : Untouched(d)
    BY <1>1, <2>1, ClientReturns DEF Untouched
  <2> DEFINE v == Cancelled("closed")
  <2>4. /\ v \in Writers /\ v.backend = w.backend /\ v.done = w.done /\ v.werr = w.werr /\ v.closed = w.closed
    <3>1. "closed" \in Error
      BY DEF Error
    <3> QED
      BY <1>1, <3>1, CancelledOK
  <2>5. w' = [v EXCEPT !.rerr = r]
    BY <2>1
  <2> HIDE DEF v
  <2>6. /\ w' \in Writers /\ w'.backend = w.backend /\ w'.done = w.done /\ w'.werr = w.werr
        /\ w'.closed = w.closed /\ w'.rerr = r
    BY <2>2, <2>4, <2>5 DEF Writers
  <2>7. /\ pack' \in PackFiles /\ pack'.records = pack.records /\ pack'.skipped = pack.skipped
        /\ pack'.open = (pack.open /\ (w.backend = "live" \/ r = "ok"))
    BY <1>1, <2>1 DEF PackFiles
  <2>8. BackendOK'
    BY <1>1, <1>2, <2>6, <2>7 DEF BackendOK
  <2>9. Hand' = Hand /\ Settled' = Settled
    BY <1>2, <2>6, <2>7 DEF Hand, Settled, PackKeys
  <2>10. Counted' /\ Kept'
    BY <1>2, <2>9 DEF Counted, Kept
  <2>11. Seen' /\ Leaves' /\ Returned'
    BY <1>1, <1>2, <2>2, <2>6 DEF Seen, Leaves, Returned
  <2>12. PackOpen => PackOpen'
    <3>1. w.backend \in {"live", "pack"} /\ (r # "ok" => r # Nil)
      BY <1>1, <2>2, WriterAssumption DEF Writers
    <3>2. CASE w.backend = "pack" /\ r = "ok"
      BY <1>4, <2>6, <2>7, <3>2 DEF PackOpen
    <3>3. CASE w.backend # "pack" \/ r # "ok"
      BY <2>6, <3>1, <3>3 DEF PackOpen
    <3> QED
      BY <3>2, <3>3
  <2> QED
    BY <1>1, <1>2, <1>4, <2>3, <2>6, <2>7, <2>8, <2>10, <2>11, <2>12
<1> QED
  BY <1>3, <1>4

-----------------------------------------------------------------------------
\* What a step of the backend leaves to its clients.
BackendOnly ==
  /\ UNCHANGED <<pc, todo, ret, accepted>>
  /\ w'.backend = w.backend /\ w'.rerr = w.rerr
  /\ pack'.open = pack.open /\ (w.backend = "live" => UNCHANGED pack)

(***************************************************************************)
(* A goroutine of the backend takes the next item.                         *)
(***************************************************************************)
LEMMA ReceiveW ==
  ASSUME WInv, NEW x \in Encoder, Receive(x)
  PROVE  WInv' /\ BackendOnly
<1> USE DEF WInv
<1>1. BackendOK /\ ch \in Seq(Item) /\ ch # <<>> /\ work[x] = Nil
  BY DEF BackendOK, Receive
<1>2. UNCHANGED <<w, pc, todo, ret, bfail, objects, pack, stats, accepted>>
  BY DEF Receive, clientVars
<1> DEFINE it == Head(ch)
<1>3. work' = [work EXCEPT ![x] = it] /\ ch' = Tail(ch)
  BY DEF Receive
<1>4. /\ it \in Item /\ Tail(ch) \in Seq(Item) /\ Len(Tail(ch)) = Len(ch) - 1 /\ Len(ch) \in Nat /\ Len(ch) >= 1
      /\ Keys(ch) \subseteq Keys(Tail(ch)) \cup {it.key}
  BY <1>1, TailKeys
<1> HIDE DEF it
<1>5. work[x] \notin Item /\ it # Gone /\ work[x] # Gone
  BY <1>1, <1>4, WriterAssumption
<1>6. /\ work' \in [Encoder -> Item \cup {Nil, Gone}]
      /\ work'[x] = it /\ \A y \in Encoder \ {x} : work'[y] = work[y]
      /\ Hand' = Hand \cup {x}
      /\ Cardinality(Hand) \in Nat /\ Cardinality(Hand') = Cardinality(Hand) + 1
  BY <1>1, <1>3, <1>4, <1>5, HandTakes
<1>7. ClientsOK' /\ BackendOK'
  BY <1>1, <1>2, <1>3, <1>4, <1>6 DEF ClientsOK, BackendOK
<1>8. Counted'
  <2>1. stats.logical \in Nat /\ accepted.n \in Nat
    BY <1>1 DEF BackendOK, Counters
  <2>2. Len(ch') = Len(ch) - 1
    BY <1>3, <1>4
  <2>4. bfail = Nil => accepted.n = stats.logical + Len(ch) + Cardinality(Hand)
    BY DEF Counted
  <2>5. bfail = Nil => accepted.n = stats.logical + (Len(ch) - 1) + (Cardinality(Hand) + 1)
    <3>1. Len(ch) \in Nat /\ Cardinality(Hand) \in Nat
      BY <1>4, <1>6
    <3> DEFINE a == accepted.n  b == stats.logical  m == Len(ch)  h == Cardinality(Hand)
    <3>2. {a, b, m, h} \subseteq Nat /\ (bfail = Nil => a = b + m + h)
      BY <2>1, <2>4, <3>1
    <3> HIDE DEF WInv, a, b, m, h
    <3>3. bfail = Nil => a = b + (m - 1) + (h + 1)
      BY ONLY <3>2
    <3> QED
      BY <3>3 DEF a, b, m, h
  <2>6. UNCHANGED <<bfail, accepted, stats>>
    BY <1>2
  <2> QED
    BY <1>6, <2>2, <2>5, <2>6 DEF Counted
<1>9. Kept'
  <2>1. Settled' = Settled /\ Keys(ch') = Keys(Tail(ch))
    BY <1>2, <1>3 DEF Settled, PackKeys
  <2> SUFFICES ASSUME bfail = Nil, NEW k \in accepted.keys
               PROVE  k \in Settled \/ k \in Keys(Tail(ch)) \/ \E y \in Hand' : work'[y].key = k
    BY <1>2, <2>1 DEF Kept
  <2>2. CASE \E y \in Hand : work[y].key = k
    <3>1. PICK y \in Hand : work[y].key = k
      BY <2>2
    <3>2. y \in Encoder \ {x}
      BY <1>5 DEF Hand
    <3> QED
      BY <1>6, <3>1, <3>2
  <2>3. CASE k = it.key
    BY <1>6, <2>3
  <2> QED
    BY <1>4, <2>2, <2>3 DEF Kept
<1>10. Seen' /\ Leaves' /\ Returned'
  <2>1. Seen'
    BY <1>2 DEF Seen
  <2>2. Leaves'
    <3> SUFFICES ASSUME NEW y \in Encoder, bfail = Nil, work'[y] = Gone, w.backend = "pack" \/ y = Iterator
                 PROVE  FALSE
      BY <1>2 DEF Leaves
    <3> QED
      BY <1>1, <1>5, <1>6 DEF Leaves
  <2>3. ~w.done
    BY <1>5 DEF Returned
  <2>4. Returned'
    BY <1>2, <2>3 DEF Returned
  <2> QED
    BY <2>1, <2>2, <2>4
<1> QED
  BY <1>2, <1>7, <1>8, <1>9, <1>10 DEF BackendOnly

(***************************************************************************)
(* It stops receiving: the context ended, or the channel is closed and     *)
(* drained.                                                                *)
(***************************************************************************)
LEMMA StopReceivingW ==
  ASSUME WInv, NEW x \in Encoder, StopReceiving(x)
  PROVE  WInv' /\ BackendOnly
<1> USE DEF WInv
<1>1. BackendOK /\ w \in Writers /\ work[x] = Nil /\ (w.cause # Nil \/ (w.closed /\ ch = <<>>))
  BY DEF BackendOK, StopReceiving
<1>2. UNCHANGED <<w, ch, pc, todo, ret, objects, pack, stats, accepted>>
  BY DEF StopReceiving, clientVars, streamVars
<1>3. work' = [work EXCEPT ![x] = Gone] /\ bfail' = Or(bfail, w.cause)
  BY DEF StopReceiving
<1>4. work[x] \notin Item /\ work[x] # Gone
  BY <1>1, WriterAssumption
<1>5. /\ work' \in [Encoder -> Item \cup {Nil, Gone}]
      /\ work'[x] = Gone /\ \A y \in Encoder \ {x} : work'[y] = work[y]
      /\ Hand' = Hand
  BY <1>1, <1>3, <1>4, HandDrops
<1>6. bfail' \in Error \cup {Nil} /\ (bfail' = Nil => bfail = Nil /\ w.cause = Nil)
  BY <1>1, <1>3 DEF Or, BackendOK, Writers
<1>7. ClientsOK' /\ BackendOK'
  BY <1>1, <1>2, <1>5, <1>6 DEF ClientsOK, BackendOK
<1>8. Counted'
  BY <1>2, <1>5, <1>6 DEF Counted
<1>9. Kept'
  <2>1. Settled' = Settled /\ \A y \in Hand : work'[y] = work[y]
    BY <1>2, <1>4, <1>5 DEF Settled, PackKeys, Hand
  <2> QED
    BY <1>2, <1>5, <1>6, <2>1 DEF Kept
<1>10. Seen'
  BY <1>2 DEF Seen
<1>11. Leaves'
  BY <1>1, <1>2, <1>5, <1>6 DEF Leaves
<1>12. Returned'
  <2>1. ~w.done
    BY <1>4 DEF Returned
  <2> QED
    BY <1>2, <2>1 DEF Returned
<1> QED
  BY <1>2, <1>7, <1>8, <1>9, <1>10, <1>11, <1>12 DEF BackendOnly

(***************************************************************************)
(* An item that a goroutine of the backend is through with is settled.     *)
(***************************************************************************)
LEMMA SettlesW ==
  ASSUME WInv, NEW x \in Encoder, work[x] \in Item, work' = [work EXCEPT ![x] = Nil],
         UNCHANGED <<w, ch, pc, todo, ret, bfail, accepted>>,
         objects' \subseteq Key, pack' \in PackFiles, stats' \in Counters,
         stats'.logical = stats.logical + 1, Seen', Settled \cup {work[x].key} \subseteq Settled'
  PROVE  WInv'
<1> USE DEF WInv
<1>1. BackendOK
  OBVIOUS
<1>2. Nil \notin Item /\ Nil # Gone /\ work[x] # Gone
  BY WriterAssumption
<1>3. /\ work' \in [Encoder -> Item \cup {Nil, Gone}]
      /\ work'[x] = Nil /\ \A y \in Encoder \ {x} : work'[y] = work[y]
      /\ Hand' = Hand \ {x}
      /\ Cardinality(Hand) \in Nat /\ Cardinality(Hand') \in Nat
      /\ Cardinality(Hand) = Cardinality(Hand') + 1
  BY <1>1, HandDrops
<1>4. ClientsOK' /\ BackendOK'
  BY <1>1, <1>3 DEF ClientsOK, BackendOK
<1>5. Counted'
  <2>1. stats.logical \in Nat /\ accepted.n \in Nat /\ Len(ch) \in Nat
    BY <1>1, LenProperties DEF BackendOK, Counters
  <2> DEFINE a == accepted.n  b == stats.logical  m == Len(ch)  h == Cardinality(Hand)  k == Cardinality(Hand')
  <2>2. {a, b, m, h, k} \subseteq Nat /\ h = k + 1 /\ (bfail = Nil => a = b + m + h)
    BY <1>3, <2>1 DEF Counted
  <2>3. bfail' = bfail /\ accepted'.n = a /\ stats'.logical = b + 1 /\ Len(ch') = m /\ Cardinality(Hand)' = k
    OBVIOUS
  <2> HIDE DEF WInv, a, b, m, h, k
  <2>4. bfail = Nil => a = (b + 1) + m + k
    BY ONLY <2>2
  <2> QED
    BY <2>3, <2>4 DEF Counted
<1>6. Kept'
  <2> SUFFICES ASSUME bfail = Nil, NEW k \in accepted.keys
               PROVE  k \in Settled' \/ k \in Keys(ch) \/ \E y \in Hand' : work'[y].key = k
    BY DEF Kept
  <2>1. CASE \E y \in Hand : work[y].key = k
    <3>1. PICK y \in Hand : work[y].key = k
      BY <2>1
    <3>2. CASE y = x
      BY <3>1, <3>2
    <3>3. CASE y # x
      BY <1>3, <3>1, <3>3 DEF Hand
    <3> QED
      BY <3>2, <3>3
  <2> QED
    BY <2>1 DEF Kept
<1>7. Leaves'
  BY <1>2, <1>3 DEF Leaves
<1>8. Returned'
  <2>1. ~w.done
    BY <1>2 DEF Returned
  <2> QED
    BY <2>1 DEF Returned
<1> QED
  BY <1>4, <1>5, <1>6, <1>7, <1>8

(***************************************************************************)
(* An item is staged in the pack.                                          *)
(***************************************************************************)
LEMMA StageW ==
  ASSUME WInv, NEW x \in Encoder, Stage(x)
  PROVE  WInv' /\ BackendOnly
<1> USE DEF WInv
<1> DEFINE k == work[x].key
<1>1. BackendOK /\ w.backend = "pack" /\ work[x] \in Item /\ pack \in PackFiles /\ stats \in Counters
  BY DEF BackendOK, Stage
<1>2. k \in Key
  BY <1>1 DEF Item
<1>3. /\ UNCHANGED <<w, ch, pc, todo, ret, bfail, objects, accepted>> /\ work' = [work EXCEPT ![x] = Nil]
      /\ stats' = [stats EXCEPT !.logical = @ + 1]
      /\ pack' = IF k \in objects THEN [pack EXCEPT !.skipped = Append(@, k)]
                 ELSE [pack EXCEPT !.records = Append(@, k)]
  BY DEF Stage, streamVars, clientVars
<1> HIDE DEF k
<1>4. /\ stats' \in Counters /\ stats'.logical = stats.logical + 1 /\ stats'.seen = stats.seen
  BY <1>1, <1>3 DEF Counters
<1>5. pack.records \in Seq(Key) /\ pack.skipped \in Seq(Key)
  BY <1>1 DEF PackFiles
<1>6. /\ pack' \in PackFiles /\ pack'.open = pack.open
      /\ Range(pack.records) \cup Range(pack.skipped) \cup {k} \subseteq Range(pack'.records) \cup Range(pack'.skipped)
  <2>1. CASE k \in objects
    <3>1. Append(pack.skipped, k) \in Seq(Key) /\ Range(pack.skipped) \cup {k} \subseteq Range(Append(pack.skipped, k))
      BY <1>2, <1>5, AppendRange
    <3>2. /\ pack'.skipped = Append(pack.skipped, k) /\ pack'.records = pack.records
          /\ pack'.open = pack.open /\ pack' \in PackFiles
      BY <1>1, <1>3, <2>1, <3>1 DEF PackFiles
    <3> QED
      BY <3>1, <3>2
  <2>2. CASE k \notin objects
    <3>1. Append(pack.records, k) \in Seq(Key) /\ Range(pack.records) \cup {k} \subseteq Range(Append(pack.records, k))
      BY <1>2, <1>5, AppendRange
    <3>2. /\ pack'.records = Append(pack.records, k) /\ pack'.skipped = pack.skipped
          /\ pack'.open = pack.open /\ pack' \in PackFiles
      BY <1>1, <1>3, <2>2, <3>1 DEF PackFiles
    <3> QED
      BY <3>1, <3>2
  <2> QED
    BY <2>1, <2>2
<1>7. Settled \cup {k} \subseteq Settled'
  BY <1>1, <1>3, <1>6 DEF Settled, PackKeys
<1>8. Seen' /\ objects' \subseteq Key
  BY <1>1, <1>3, <1>4 DEF Seen, BackendOK
<1>9. WInv'
  BY <1>1, <1>3, <1>4, <1>6, <1>7, <1>8, SettlesW DEF k
<1> QED
  BY <1>1, <1>3, <1>6, <1>9 DEF BackendOnly

(***************************************************************************)
(* An item is stored, or found in the store again.                         *)
(***************************************************************************)
LEMMA StoreW ==
  ASSUME WInv, NEW x \in Encoder, Store(x)
  PROVE  WInv' /\ BackendOnly
<1> USE DEF WInv
<1> DEFINE k == work[x].key
<1>1. BackendOK /\ w.backend = "live" /\ work[x] \in Item /\ stats \in Counters /\ objects \subseteq Key
  BY DEF BackendOK, Store
<1>2. k \in Key
  BY <1>1 DEF Item
<1>3. /\ UNCHANGED <<w, ch, pc, todo, ret, bfail, pack, accepted>> /\ work' = [work EXCEPT ![x] = Nil]
      /\ objects' = objects \cup {k}
      /\ stats' = [stats EXCEPT !.seen = @ \cup {k},
                                !.logical = @ + 1,
                                !.stored = IF k \in objects THEN @ ELSE @ + 1,
                                !.deduped = IF k \in objects THEN @ + 1 ELSE @]
  BY DEF Store, streamVars, clientVars
<1> HIDE DEF k
<1>4. /\ stats' \in Counters /\ stats'.logical = stats.logical + 1 /\ stats'.seen = stats.seen \cup {k}
      /\ stats'.stored + stats'.deduped = stats.stored + stats.deduped + 1
  <2>1. stats.seen \subseteq Key /\ stats.logical \in Nat /\ stats.stored \in Nat /\ stats.deduped \in Nat
    BY <1>1 DEF Counters
  <2> DEFINE st == IF k \in objects THEN stats.stored ELSE stats.stored + 1
             de == IF k \in objects THEN stats.deduped + 1 ELSE stats.deduped
             se == stats.seen \cup {k}
             lo == stats.logical + 1
  <2>2. st \in Nat /\ de \in Nat /\ se \subseteq Key /\ lo \in Nat /\ st + de = stats.stored + stats.deduped + 1
    BY <1>2, <2>1
  <2>3. stats' = [stats EXCEPT !.seen = se, !.logical = lo, !.stored = st, !.deduped = de]
    BY <1>3
  <2> HIDE DEF st, de, se, lo
  <2>4. stats' \in Counters /\ stats'.seen = se /\ stats'.logical = lo /\ stats'.stored = st /\ stats'.deduped = de
    BY <1>1, <2>2, <2>3 DEF Counters
  <2> QED
    BY <2>2, <2>4 DEF se, lo
<1>5. Settled' = Settled \cup {k}
  BY <1>1, <1>3, <1>4 DEF Settled
<1>6. Seen' /\ objects' \subseteq Key /\ pack' \in PackFiles
  BY <1>1, <1>2, <1>3, <1>4 DEF Seen, BackendOK
<1>7. WInv'
  BY <1>1, <1>3, <1>4, <1>5, <1>6, SettlesW DEF k
<1> QED
  BY <1>1, <1>3, <1>7 DEF BackendOnly

(***************************************************************************)
(* A goroutine of the backend leaves with an error.                        *)
(***************************************************************************)
LEMMA LeavesW ==
  ASSUME WInv, NEW x \in Encoder, work[x] \in Item, work' = [work EXCEPT ![x] = Gone],
         bfail' \in Error, w' \in Writers, w'.backend = w.backend, w'.done = w.done, w'.werr = w.werr,
         w'.rerr = w.rerr, UNCHANGED <<ch, pc, todo, ret, objects, pack, stats, accepted>>
  PROVE  WInv' /\ BackendOnly
<1> USE DEF WInv
<1>1. BackendOK /\ work[x] # Gone /\ bfail' # Nil
  BY WriterAssumption
<1>2. work' \in [Encoder -> Item \cup {Nil, Gone}]
  BY <1>1 DEF BackendOK
<1>3. ClientsOK' /\ BackendOK'
  BY <1>1, <1>2 DEF ClientsOK, BackendOK
<1>4. ~w.done
  BY <1>1 DEF Returned
<1>5. Counted' /\ Kept' /\ Seen' /\ Leaves' /\ Returned'
  BY <1>1, <1>4 DEF Counted, Kept, Seen, Leaves, Returned
<1> QED
  BY <1>3, <1>5 DEF BackendOnly

(***************************************************************************)
(* A skipped key is looked up again.                                       *)
(***************************************************************************)
LEMMA accountSkippedW ==
  ASSUME WInv, NEW x \in Encoder, accountSkipped(x)
  PROVE  WInv' /\ BackendOnly
<1> USE DEF WInv
<1> DEFINE k == work[x].key
<1>1. /\ BackendOK /\ w.backend = "live" /\ work[x] \in Item /\ stats \in Counters /\ objects \subseteq Key
      /\ pack \in PackFiles /\ w \in Writers
  BY DEF BackendOK, accountSkipped
<1>2. k \in Key
  BY <1>1 DEF Item
<1>3. UNCHANGED <<w, ch, pc, todo, ret, objects, pack, accepted>>
  BY DEF accountSkipped, streamVars, clientVars
<1>4. CASE k \in objects
  <2>1. /\ stats' = [stats EXCEPT !.seen = @ \cup {k}, !.logical = @ + 1, !.deduped = @ + 1]
        /\ work' = [work EXCEPT ![x] = Nil] /\ UNCHANGED bfail
    BY <1>4 DEF accountSkipped
  <2> HIDE DEF k
  <2>2. /\ stats' \in Counters /\ stats'.logical = stats.logical + 1 /\ stats'.seen = stats.seen \cup {k}
        /\ stats'.stored + stats'.deduped = stats.stored + stats.deduped + 1
    <3>1. stats.seen \subseteq Key /\ stats.logical \in Nat /\ stats.stored \in Nat /\ stats.deduped \in Nat
      BY <1>1 DEF Counters
    <3> DEFINE de == stats.deduped + 1
               se == stats.seen \cup {k}
               lo == stats.logical + 1
    <3>2. de \in Nat /\ se \subseteq Key /\ lo \in Nat /\ stats.stored + de = stats.stored + stats.deduped + 1
      BY <1>2, <3>1
    <3>3. stats' = [stats EXCEPT !.seen = se, !.logical = lo, !.deduped = de]
      BY <2>1
    <3> HIDE DEF de, se, lo
    <3>4. stats' \in Counters /\ stats'.seen = se /\ stats'.logical = lo /\ stats'.stored = stats.stored /\ stats'.deduped = de
      BY <1>1, <3>2, <3>3 DEF Counters
    <3> QED
      BY <3>2, <3>4 DEF se, lo
  <2>3. Settled' = Settled \cup {k}
    BY <1>1, <1>3, <2>2 DEF Settled
  <2>4. Seen' /\ objects' \subseteq Key /\ pack' \in PackFiles
    BY <1>1, <1>3, <1>4, <2>2 DEF Seen
  <2>5. WInv'
    BY <1>1, <1>3, <2>1, <2>2, <2>3, <2>4, SettlesW DEF k
  <2> QED
    BY <1>1, <1>3, <2>5 DEF BackendOnly
<1>5. CASE k \notin objects
  <2>1. work' = [work EXCEPT ![x] = Gone] /\ bfail' = Or(bfail, "missing") /\ UNCHANGED stats
    BY <1>5 DEF accountSkipped
  <2>2. bfail' \in Error
    BY <1>1, <2>1 DEF Or, Error, BackendOK
  <2> QED
    BY <1>1, <1>3, <2>1, <2>2, LeavesW
<1> QED
  BY <1>4, <1>5

(***************************************************************************)
(* Has, EncodeRecord, AddRecord or WriteParallel fails.                    *)
(***************************************************************************)
LEMMA BackendFailsW ==
  ASSUME WInv, NEW x \in Encoder, BackendFails(x)
  PROVE  WInv' /\ BackendOnly
<1> USE DEF WInv
<1>1. BackendOK /\ work[x] \in Item /\ w \in Writers
  BY DEF BackendOK, BackendFails
<1>2. /\ UNCHANGED <<ch, pc, todo, ret, objects, pack, stats, accepted>> /\ work' = [work EXCEPT ![x] = Gone]
      /\ bfail' = Or(bfail, "backend") /\ (w' = w \/ w' = Cancelled("backend"))
  BY DEF BackendFails, clientVars
<1>3. bfail' \in Error /\ "backend" \in Error
  BY <1>1, <1>2 DEF Or, Error, BackendOK
<1>4. w' \in Writers /\ w'.backend = w.backend /\ w'.done = w.done /\ w'.werr = w.werr /\ w'.rerr = w.rerr
  BY <1>1, <1>2, <1>3, CancelledOK
<1> QED
  BY <1>1, <1>2, <1>3, <1>4, LeavesW

(***************************************************************************)
(* The backend returns, all of its goroutines having left.                 *)
(***************************************************************************)
LEMMA BackendReturnsW ==
  ASSUME WInv, BackendReturns
  PROVE  WInv' /\ BackendOnly
<1> USE DEF WInv
<1>1. BackendOK /\ ~w.done /\ (\A x \in Encoder : work[x] = Gone) /\ w \in Writers
  BY DEF BackendOK, BackendReturns
<1>2. UNCHANGED <<ch, pc, todo, ret, work, bfail, objects, pack, stats, accepted>>
  BY DEF BackendReturns, clientVars, backendVars
<1>3. PICK e \in Error \cup {Nil} : w' = [w EXCEPT !.done = TRUE, !.werr = e] /\ (e = Nil => bfail = Nil)
  <2>1. "backend" \in Error /\ "backend" # Nil
    BY WriterAssumption DEF Error
  <2>2. Or(bfail, w.cause) \in Error \cup {Nil} /\ (Or(bfail, w.cause) = Nil => bfail = Nil)
    BY <1>1 DEF Or, BackendOK, Writers
  <2>3. bfail \in Error \cup {Nil}
    BY <1>1 DEF BackendOK
  <2> QED
    BY <2>1, <2>2, <2>3 DEF BackendReturns
<1>4. /\ w' \in Writers /\ w'.backend = w.backend /\ w'.rerr = w.rerr /\ w'.closed = w.closed
      /\ w'.werr = e
  BY <1>1, <1>3 DEF Writers
<1>5. ClientsOK' /\ BackendOK'
  BY <1>1, <1>2, <1>4 DEF ClientsOK, BackendOK
<1>6. Hand' = Hand /\ Settled' = Settled
  BY <1>2, <1>4 DEF Hand, Settled, PackKeys
<1>7. Counted' /\ Kept'
  BY <1>2, <1>6 DEF Counted, Kept
<1>8. Seen' /\ Leaves'
  BY <1>2, <1>4 DEF Seen, Leaves
<1>9. Returned'
  BY <1>1, <1>2, <1>3, <1>4 DEF Returned
<1> QED
  BY <1>2, <1>4, <1>5, <1>7, <1>8, <1>9 DEF BackendOnly

(***************************************************************************)
(* The collector takes an object that the live backend has not seen.       *)
(***************************************************************************)
LEMMA ObjectLostW ==
  ASSUME WInv, NEW k \in Key, ObjectLost(k)
  PROVE  WInv' /\ BackendOnly
<1> USE DEF WInv
<1>1. UNCHANGED <<w, ch, pc, todo, ret, work, bfail, pack, stats, accepted>> /\ objects' = objects \ {k} /\ k \notin stats.seen
  BY DEF ObjectLost, streamVars, clientVars
<1>2. ClientsOK' /\ BackendOK'
  BY <1>1 DEF ClientsOK, BackendOK
<1>3. Hand' = Hand /\ Settled' = Settled
  BY <1>1 DEF Hand, Settled, PackKeys
<1>4. Counted' /\ Kept'
  BY <1>1, <1>3 DEF Counted, Kept
<1>5. Seen' /\ Leaves' /\ Returned'
  BY <1>1 DEF Seen, Leaves, Returned
<1> QED
  BY <1>1, <1>2, <1>4, <1>5 DEF BackendOnly

-----------------------------------------------------------------------------
\* How far one step of the Writer brings the call of client d.
Advances(d) ==
  \/ Untouched(d)
  \/ /\ pc[d] \in {"rlock", "send"}
     /\ \/ pc'[d] = "idle" /\ (ret'[d] => Keys(todo[d]) \subseteq accepted'.keys)
        \/ pc'[d] \in {"rlock", "send"} /\ Keys(todo[d]) \subseteq accepted'.keys \cup Keys(todo'[d])
        \/ pc'[d] = "panic"
  \/ pc[d] = "lock" /\ pc'[d] = "wait"
  \/ pc[d] = "wait" /\ pc'[d] = "idle" /\ (ret'[d] => w'.rerr = "ok")

\* What no step of the Writer takes back.
Advance ==
  /\ w'.backend = w.backend
  /\ w.rerr # Nil => w'.rerr = w.rerr
  /\ accepted.keys \subseteq accepted'.keys
  /\ w.backend = "live" => pack'.records = pack.records /\ pack'.skipped = pack.skipped
  /\ \A d \in Client : Advances(d)
  /\ PackOpen => PackOpen'

(***************************************************************************)
(* A step of the Writer, whatever its callers go on to do.                 *)
(***************************************************************************)
LEMMA WriterStepW ==
  ASSUME WInv, WriterStep
  PROVE  WInv' /\ Advance
<1>1. ASSUME BackendOnly PROVE Advance
  <2>1. \A d \in Client : Advances(d)
    BY <1>1 DEF BackendOnly, Advances, Untouched
  <2>2. PackOpen => PackOpen'
    BY <1>1 DEF BackendOnly, PackOpen
  <2> QED
    BY <1>1, <2>1, <2>2 DEF BackendOnly, Advance
<1>2. ASSUME NEW c \in Client, ClientStep(c) \/ AddPackFails(c) PROVE WInv' /\ Advance
  <2>1. CASE AddPackFails(c) \/ EmitLock(c) \/ EmitStops(c)
    <3>1. /\ WInv' /\ w'.backend = w.backend /\ w'.rerr = w.rerr /\ UNCHANGED <<accepted, pack>>
          /\ pc[c] \in {"rlock", "send"}
          /\ \/ pc'[c] = "idle" /\ ~ret'[c]
             \/ pc'[c] = "send" /\ todo'[c] = todo[c]
          /\ \A d \in Client \ {c} : Untouched(d)
      BY <2>1, EmitEndsW
    <3>2. \A d \in Client : Advances(d)
      BY <3>1 DEF Advances
    <3> QED
      BY <3>1, <3>2 DEF Advance, PackOpen
  <2>2. CASE EmitSend(c)
    <3>1. /\ WInv' /\ UNCHANGED <<w, pack>> /\ accepted.keys \subseteq accepted'.keys
          /\ pc[c] = "send" /\ \A d \in Client \ {c} : Untouched(d)
          /\ \/ pc'[c] = "panic"
             \/ pc'[c] = "idle" /\ Keys(todo[c]) \subseteq accepted'.keys
             \/ pc'[c] = "rlock" /\ Keys(todo[c]) \subseteq accepted'.keys \cup Keys(todo'[c])
      BY <2>2, EmitSendW
    <3>2. \A d \in Client : Advances(d)
      BY <3>1 DEF Advances
    <3> QED
      BY <3>1, <3>2 DEF Advance, PackOpen
  <2>3. CASE closeStream(c)
    <3>1. /\ WInv' /\ w'.backend = w.backend /\ w'.rerr = w.rerr /\ UNCHANGED <<accepted, pack>>
          /\ pc[c] = "lock" /\ pc'[c] = "wait" /\ \A d \in Client \ {c} : Untouched(d)
      BY <2>3, closeStreamW
    <3>2. \A d \in Client : Advances(d)
      BY <3>1 DEF Advances
    <3> QED
      BY <3>1, <3>2 DEF Advance, PackOpen
  <2>4. CASE settle(c)
    <3>1. /\ WInv' /\ w'.backend = w.backend /\ (w.rerr # Nil => w'.rerr = w.rerr) /\ UNCHANGED accepted
          /\ pack'.records = pack.records /\ pack'.skipped = pack.skipped
          /\ pc[c] = "wait" /\ pc'[c] = "idle" /\ (ret'[c] => w'.rerr = "ok")
          /\ \A d \in Client \ {c} : Untouched(d)
          /\ PackOpen => PackOpen'
      BY <2>4, settleW
    <3>2. \A d \in Client : Advances(d)
      BY <3>1 DEF Advances
    <3> QED
      BY <3>1, <3>2 DEF Advance
  <2> QED
    BY <1>2, <2>1, <2>2, <2>3, <2>4 DEF ClientStep
<1>3. ASSUME NEW x \in Encoder, BackendStep(x) \/ BackendFails(x) PROVE WInv' /\ Advance
  <2>1. WInv' /\ BackendOnly
    BY <1>3, ReceiveW, StopReceivingW, StageW, StoreW, accountSkippedW, BackendFailsW DEF BackendStep
  <2> QED
    BY <1>1, <2>1
<1>4. ASSUME NEW k \in Key, ObjectLost(k) PROVE WInv' /\ Advance
  BY <1>1, <1>4, ObjectLostW
<1>5. BackendReturns => WInv' /\ Advance
  BY <1>1, BackendReturnsW
<1> QED
  BY <1>2, <1>3, <1>4, <1>5 DEF WriterStep

(***************************************************************************)
(* A new Writer has nothing on its way.                                    *)
(***************************************************************************)
LEMMA IdleW ==
  ASSUME NEW backend \in {"live", "pack"}
  PROVE  /\ Idle(backend) \in [Encoder -> Item \cup {Nil, Gone}]
         /\ \A x \in Encoder : Idle(backend)[x] \notin Item
         /\ \A x \in Encoder : backend = "pack" \/ x = Iterator => Idle(backend)[x] # Gone
         /\ Iterator \in Encoder
<1>1. Iterator \in Encoder
  BY WriterAssumption DEF Iterator
<1> QED
  BY <1>1, WriterAssumption DEF Idle

(***************************************************************************)
(* A new Writer, live or for a pack.                                       *)
(***************************************************************************)
LEMMA InitW ==
  ASSUME WriterInit
  PROVE  WInv /\ PackOpen
<1>1. ClientsOK
  <2>1. <<>> \in Seq(Item)
    OBVIOUS
  <2> QED
    BY <2>1 DEF WriterInit, ClientsOK, Places
<1>2. /\ w \in Writers /\ w.backend \in {"live", "pack"} /\ w.rerr = Nil /\ ~w.done
  <2>1. ASSUME NEW backend \in {"live", "pack"}
        PROVE  /\ NewWriter(backend) \in Writers /\ NewWriter(backend).backend = backend
               /\ NewWriter(backend).rerr = Nil /\ ~NewWriter(backend).done
    BY DEF NewWriter, Writers
  <2> QED
    BY <2>1 DEF WriterInit
<1>3. pack \in PackFiles /\ (w.backend = "pack" => pack = NewPack)
  <2>1. NewPack \in PackFiles
    BY DEF NewPack, PackFiles
  <2>2. Packs \subseteq PackFiles
    BY WriterAssumption DEF PackFiles
  <2> QED
    BY <1>2, <2>1, <2>2 DEF WriterInit
<1>4. /\ stats \in Counters /\ stats.logical = 0 /\ stats.stored = 0 /\ stats.deduped = 0 /\ stats.seen = {}
      /\ accepted \in [n : Nat, keys : SUBSET Key] /\ accepted.n = 0 /\ accepted.keys = {}
  BY DEF WriterInit, NewStats, Counters
<1>5. ch = <<>> /\ ch \in Seq(Item) /\ Len(ch) = 0 /\ bfail = Nil /\ objects \subseteq Key /\ work = Idle(w.backend)
  BY WriterAssumption DEF WriterInit
<1>6. /\ work \in [Encoder -> Item \cup {Nil, Gone}]
      /\ \A x \in Encoder : work[x] \notin Item
      /\ \A x \in Encoder : w.backend = "pack" \/ x = Iterator => work[x] # Gone
  BY <1>2, <1>5, IdleW
<1>7. Hand = {} /\ Cardinality(Hand) = 0
  BY <1>6, FS_EmptySet DEF Hand
<1>8. BackendOK
  BY <1>2, <1>3, <1>4, <1>5, <1>6 DEF BackendOK
<1>9. Counted /\ Kept
  BY <1>4, <1>5, <1>7 DEF Counted, Kept
<1>10. Seen /\ Leaves /\ Returned
  BY <1>2, <1>4, <1>6, WriterAssumption DEF Seen, Leaves, Returned
<1>11. PackOpen
  BY <1>3 DEF PackOpen, NewPack
<1> QED
  BY <1>1, <1>8, <1>9, <1>10, <1>11 DEF WInv

(***************************************************************************)
(* The items of an offer.                                                  *)
(***************************************************************************)
LEMMA OfferItems ==
  ASSUME NEW offer \in Offers
  PROVE  /\ [i \in DOMAIN offer |-> Object(offer[i])] \in Seq(Item)
         /\ [i \in DOMAIN offer |-> Object(offer[i])] # <<>>
<1> DEFINE items == [i \in DOMAIN offer |-> Object(offer[i])]
           n == Len(offer)
<1>1. offer \in Seq(Key) /\ offer # <<>>
  BY WriterAssumption
<1>2. n \in Nat /\ DOMAIN offer = 1..n /\ n # 0
  BY <1>1, LenProperties, EmptySeq
<1>3. \A i \in 1..n : offer[i] \in Key
  BY <1>1, ElementOfSeq
<1>4. items \in [1..n -> Item]
  BY <1>2, <1>3 DEF Object, Item
<1> HIDE DEF items
<1>5. items \in Seq(Item) /\ Len(items) = n
  BY <1>2, <1>4
<1>6. items # <<>>
  BY <1>2, <1>5
<1> QED
  BY <1>5, <1>6 DEF items

(***************************************************************************)
(* Every step of a Writer and its callers.                                 *)
(***************************************************************************)
LEMMA NextW ==
  ASSUME WInv, PackOpen, [WriterNext]_writerVars
  PROVE  WInv' /\ PackOpen'
<1>1. CASE WriterStep
  BY <1>1, WriterStepW DEF Advance
<1>2. ASSUME NEW c \in Client, Calls(c) PROVE WInv' /\ PackOpen'
  <2>1. CASE \E offer \in Offers : Offer(c, [i \in DOMAIN offer |-> Object(offer[i])])
    <3>1. PICK offer \in Offers : Offer(c, [i \in DOMAIN offer |-> Object(offer[i])])
      BY <2>1
    <3> QED
      BY <3>1, OfferItems, OfferW DEF PackOpen
  <2>2. CASE AddPack(c)
    <3>1. WInv' /\ UNCHANGED w /\ pack'.open = pack.open
      BY <2>2, AddPackW
    <3> QED
      BY <3>1 DEF PackOpen
  <2>3. CASE Close(c) \/ Abort(c)
    BY <2>3, CloseW DEF PackOpen
  <2> QED
    BY <1>2, <2>1, <2>2, <2>3 DEF Calls
<1>3. CASE ContextEnds
  <2>1. w' = Cancelled("context") /\ UNCHANGED <<ch, clientVars, backendVars, accepted>> /\ "context" \in Error
    BY <1>3 DEF ContextEnds, Error
  <2>2. WInv' /\ w'.backend = w.backend /\ w'.rerr = w.rerr /\ UNCHANGED pack
    BY <2>1, CancelW DEF backendVars
  <2> QED
    BY <2>2 DEF PackOpen
<1>4. CASE UNCHANGED writerVars
  <2>1. UNCHANGED <<w, ch, pc, todo, ret, work, bfail, objects, pack, stats, accepted>>
    BY <1>4 DEF writerVars, streamVars, clientVars, backendVars
  <2>2. ClientsOK' /\ w' \in Writers /\ pack' \in PackFiles
    BY <2>1 DEF WInv, ClientsOK, BackendOK
  <2> QED
    BY <2>1, <2>2, QuietStep DEF PackOpen
<1>5. WriterNext => \/ WriterStep \/ (\E c \in Client : Calls(c)) \/ ContextEnds
  BY DEF WriterNext, WriterStep
<1> QED
  BY <1>1, <1>2, <1>3, <1>4, <1>5

(***************************************************************************)
(* A Writer that has reported success has nothing on its way.              *)
(***************************************************************************)
LEMMA ClosedW ==
  ASSUME WInv, w.rerr = "ok"
  PROVE  /\ ch = <<>> /\ stats.logical = accepted.n /\ accepted.keys \subseteq Settled
         /\ w.backend \in {"live", "pack"}
<1>1. BackendOK /\ bfail = Nil /\ \A x \in Encoder : work[x] = Gone
  BY DEF WInv, Returned
<1>2. Hand = {} /\ Cardinality(Hand) = 0
  <2>1. Gone \notin Item
    BY WriterAssumption
  <2> QED
    BY <1>1, <2>1, FS_EmptySet DEF Hand
<1>3. ch = <<>>
  <2>1. Iterator \in Encoder
    BY WriterAssumption DEF Iterator
  <2> QED
    BY <1>1, <2>1 DEF WInv, Leaves
<1>4. stats.logical \in Nat /\ accepted.n \in Nat /\ w.backend \in {"live", "pack"}
  BY <1>1 DEF BackendOK, Counters, Writers
<1>5. stats.logical = accepted.n
  <2>1. Len(ch) = 0
    BY <1>3
  <2> QED
    BY <1>1, <1>2, <1>4, <2>1 DEF WInv, Counted
<1>6. Keys(ch) = {}
  BY <1>3 DEF Keys
<1>7. accepted.keys \subseteq Settled
  BY <1>1, <1>2, <1>6 DEF WInv, Kept
<1> QED
  BY <1>3, <1>4, <1>5, <1>7

-----------------------------------------------------------------------------
(***************************************************************************)
(* For any clients, encoders, calls and faults: what emit accepted is      *)
(* settled, in somebody's hands or in the channel and counted once as long *)
(* as the backend has not failed, and a pack writer keeps its file open    *)
(* until it fails.                                                         *)
(***************************************************************************)
THEOREM WriterInvariant == WriterSpec => [](WInv /\ PackOpen)
<1>1. WriterInit => WInv /\ PackOpen
  BY InitW
<1>2. WInv /\ PackOpen /\ [WriterNext]_writerVars => (WInv /\ PackOpen)'
  BY NextW
<1> QED
  BY <1>1, <1>2, PTL DEF WriterSpec

(***************************************************************************)
(* Close and Abort (src/store/write.go): when they report success every    *)
(* object any emit accepted is stored, staged or found still present, each *)
(* is accounted for exactly once, and the file of a pack is open for       *)
(* AddPack.                                                                *)
(***************************************************************************)
THEOREM ClosedIsWholeHolds == WriterSpec => []ClosedIsWhole
<1>1. WInv /\ PackOpen => ClosedIsWhole
  <2> SUFFICES ASSUME WInv, PackOpen, w.rerr = "ok"
               PROVE  /\ ch = <<>>
                      /\ stats.logical = accepted.n
                      /\ \A k \in accepted.keys : Held(k)
                      /\ w.backend = "live" => stats.stored + stats.deduped = stats.logical
                      /\ w.backend = "pack" => pack.open
    BY DEF ClosedIsWhole
  <2>1. /\ ch = <<>> /\ stats.logical = accepted.n /\ accepted.keys \subseteq Settled
        /\ w.backend \in {"live", "pack"}
    BY ClosedW
  <2>2. stats.seen \subseteq objects /\ (w.backend = "live" => stats.stored + stats.deduped = stats.logical)
    BY DEF WInv, Seen
  <2>3. \A k \in accepted.keys : Held(k)
    BY <2>1, <2>2 DEF Settled, Held, PackKeys
  <2>4. w.backend = "pack" => pack.open
    BY DEF PackOpen
  <2> QED
    BY <2>1, <2>2, <2>3, <2>4
<1> QED
  BY <1>1, WriterInvariant, PTL

-----------------------------------------------------------------------------
\* c is offering the key k, or has offered it and been told the result.
Offering(c, k) ==
  \/ pc[c] \in {"rlock", "send"} /\ k \in accepted.keys \cup Keys(todo[c])
  \/ pc[c] = "idle" /\ (ret[c] => k \in accepted.keys)
  \/ pc[c] = "panic"

\* c is closing the Writer, or has been told the result.
ClosingUp(c) == pc[c] \in {"lock", "wait"} \/ (pc[c] = "idle" /\ (ret[c] => w.rerr = "ok"))

StreamErrors == {"notrepro", "context", "failed"}
StagerErrors == {"tar", "read", "sink", "decompose", "context"}

Pipes == [q : Seq(1..Chunks), ended : BOOLEAN, werr : StreamErrors \cup {Nil}, rclosed : BOOLEAN]
Confs ==
  [at : {"start", "confirm", "collect", "commit", "adding", "comp", "closing", "aborting", "returned"},
   n : 0..Chunks, cerr : StreamErrors \cup {Nil}]
Stagers ==
  [at : {"start", "read", "recipe", "blob", "blobbed", "index", "indexed", "closing", "drain",
         "finish", "close", "abort", "done"},
   n : 0..Chunks, err : StagerErrors \cup {Nil}]
Outcomes == {"failed", "context", "raw-decompose", "raw-notrepro", "raw-roundtrip", "prism"}

StageTypeOK ==
  /\ pipe \in Pipes
  /\ gone \in BOOLEAN /\ rejected \in BOOLEAN
  /\ conf \in Confs
  /\ stager \in Stagers
  /\ recipe \in {"start", "reading", "put", "putting", "eof", "ending", "stored", "failed"}
  /\ outcome \in Outcomes \cup {Nil}
  /\ made \subseteq Key

\* Who runs when: the stager beside Confirm, the recipe's goroutine beside the stager.
Turns ==
  /\ conf.at = "start" => stager.at = "start"
  /\ conf.at \in {"commit", "adding", "comp", "closing", "aborting"} => stager.at = "done" /\ stager.err = Nil /\ conf.cerr = Nil
  /\ conf.at = "returned" => stager.at \in {"start", "done"}
  /\ stager.at = "start" => recipe = "start" /\ made = {} /\ conf.at \in {"start", "returned"}
  /\ stager.at \in {"drain", "finish", "close", "abort", "done"} => recipe \in {"stored", "failed"}
  /\ stager.at \in {"close", "done"} /\ stager.err = Nil => recipe = "stored"
  /\ stager.at = "abort" => stager.err # Nil
  /\ stager.at # "done" => stager.err \in {Nil, "tar", "read", "sink"}
  /\ outcome # Nil => conf.at = "returned"

\* The stager reads the stream from its start, in order, and to its end if it ends well.
InOrder ==
  /\ conf.at \in {"start", "confirm"} => ~pipe.ended
  /\ pipe.ended => pipe.werr = conf.cerr /\ (conf.cerr = Nil => conf.n = Chunks)
  /\ stager.err = Nil /\ stager.at \in {"start", "read", "recipe", "blob", "blobbed"} =>
       conf.n = stager.n + Len(pipe.q) /\ \A i \in 1..Len(pipe.q) : pipe.q[i] = stager.n + i
  /\ stager.err = Nil /\ stager.at \in {"index", "indexed", "closing", "drain", "finish", "close", "done"} =>
       stager.n = Chunks

\* Only tar-prism's own error is told as a decompose error.
Blamed ==
  /\ stager.err \in {"tar", "decompose"} => rejected
  /\ outcome = "raw-decompose" => rejected

\* What has been made is accepted by the pack writer, on its way to it, or given up.
MadeKept ==
  stager.at \notin {"start", "done"} /\ stager.err = Nil =>
    \A k \in made :
      \/ k \in accepted.keys
      \/ stager.at \in {"blobbed", "indexed"} /\ Offering(Main, k)
      \/ recipe \in {"putting", "ending"} /\ Offering(Recipe, k)
      \/ recipe = "failed"

Staging ==
  /\ conf.at \in {"confirm", "collect"} => w.backend = "pack"
  /\ stager.at = "close" => ClosingUp(Main)
  /\ stager.at = "done" /\ stager.err = Nil /\ conf.at \in {"confirm", "collect"} =>
       w.rerr = "ok" /\ made \subseteq accepted.keys

\* What has been made goes through the pack into the live writer, and through its Close.
Committing ==
  /\ conf.at \in {"commit", "adding", "comp", "closing"} => w.backend = "live"
  /\ conf.at = "commit" => made \subseteq PackKeys
  /\ conf.at = "adding" => \A k \in made : Offering(Main, k)
  /\ conf.at \in {"comp", "closing"} => made \subseteq accepted.keys
  /\ conf.at = "closing" => ClosingUp(Main)
  /\ outcome = "prism" =>
       /\ w.backend = "live" /\ w.rerr = "ok" /\ made \subseteq accepted.keys
       /\ conf.cerr = Nil /\ stager.at = "done" /\ stager.err = Nil

StageInv == WInv /\ StageTypeOK /\ Turns /\ InOrder /\ Blamed /\ MadeKept /\ Staging /\ Committing

(***************************************************************************)
(* The Writer's own steps bring an offer and a Close further.              *)
(***************************************************************************)
LEMMA CallsGoOn ==
  ASSUME Advance, NEW c \in Client
  PROVE  /\ \A k : Offering(c, k) => Offering(c, k)'
         /\ ClosingUp(c) => ClosingUp(c)'
<1>1. Advances(c) /\ accepted.keys \subseteq accepted'.keys /\ (w.rerr = "ok" => w'.rerr = "ok")
  BY WriterAssumption DEF Advance
<1>2. ASSUME NEW k, Offering(c, k) PROVE Offering(c, k)'
  BY <1>1, <1>2 DEF Advances, Untouched, Offering
<1>3. ClosingUp(c) => ClosingUp(c)'
  BY <1>1 DEF Advances, Untouched, ClosingUp
<1> QED
  BY <1>2, <1>3

(***************************************************************************)
(* A client that was left alone is where it was.                           *)
(***************************************************************************)
LEMMA CallsStay ==
  ASSUME NEW c \in Client, Untouched(c), accepted'.keys = accepted.keys, w'.rerr = w.rerr
  PROVE  /\ \A k : Offering(c, k) => Offering(c, k)'
         /\ ClosingUp(c) => ClosingUp(c)'
BY DEF Untouched, Offering, ClosingUp

(***************************************************************************)
(* Nothing happens to the Writer.                                          *)
(***************************************************************************)
LEMMA StillW ==
  ASSUME WInv, UNCHANGED writerVars
  PROVE  /\ WInv' /\ UNCHANGED <<w, pc, todo, ret, pack, accepted, objects>>
         /\ \A c \in Client : Untouched(c)
<1>1. UNCHANGED <<w, ch, pc, todo, ret, work, bfail, objects, pack, stats, accepted>>
  BY DEF writerVars, streamVars, clientVars, backendVars
<1>2. ClientsOK' /\ w' \in Writers /\ pack' \in PackFiles
  BY <1>1 DEF WInv, ClientsOK, BackendOK
<1>3. WInv'
  BY <1>1, <1>2, QuietStep
<1> QED
  BY <1>1, <1>3 DEF Untouched

(***************************************************************************)
(* finalizePrism makes a new Writer.                                       *)
(***************************************************************************)
LEMMA FreshW ==
  ASSUME WInv, NEW backend \in {"live", "pack"}, Fresh(backend), pack' \in PackFiles
  PROVE  WInv' /\ w'.backend = backend /\ w'.rerr = Nil /\ accepted'.keys = {} /\ UNCHANGED <<pc, todo, ret, objects>>
<1> DEFINE ca == IF gone THEN "context" ELSE Nil
<1>1. /\ w' = [NewWriter(backend) EXCEPT !.cause = ca] /\ ch' = <<>> /\ work' = Idle(backend) /\ bfail' = Nil
      /\ stats' = NewStats /\ accepted' = [n |-> 0, keys |-> {}] /\ UNCHANGED <<pc, todo, ret, objects>>
  BY DEF Fresh, clientVars
<1>2. ca \in Error \cup {Nil}
  BY DEF Error
<1> HIDE DEF ca
<1>3. w' \in Writers /\ w'.backend = backend /\ w'.rerr = Nil /\ ~w'.done
  BY <1>1, <1>2 DEF NewWriter, Writers
<1>4. /\ stats' \in Counters /\ stats'.logical = 0 /\ stats'.stored = 0 /\ stats'.deduped = 0 /\ stats'.seen = {}
      /\ accepted' \in [n : Nat, keys : SUBSET Key] /\ accepted'.n = 0 /\ accepted'.keys = {}
  BY <1>1 DEF NewStats, Counters
<1>5. ch' \in Seq(Item) /\ Len(ch') = 0
  BY <1>1
<1>6. /\ work' \in [Encoder -> Item \cup {Nil, Gone}]
      /\ \A x \in Encoder : work'[x] \notin Item
      /\ \A x \in Encoder : backend = "pack" \/ x = Iterator => work'[x] # Gone
  BY <1>1, IdleW
<1>7. Hand' = {} /\ Cardinality(Hand') = 0
  BY <1>6, FS_EmptySet DEF Hand
<1>8. ClientsOK' /\ BackendOK'
  BY <1>1, <1>3, <1>4, <1>5, <1>6 DEF WInv, ClientsOK, BackendOK
<1>9. Counted' /\ Kept'
  BY <1>4, <1>5, <1>7 DEF Counted, Kept
<1>10. Seen' /\ Leaves' /\ Returned'
  BY <1>3, <1>4, <1>6, WriterAssumption DEF Seen, Leaves, Returned
<1> QED
  BY <1>1, <1>3, <1>4, <1>8, <1>9, <1>10 DEF WInv

(***************************************************************************)
(* The pipe gives its first chunk away, or has ended.                      *)
(***************************************************************************)
LEMMA PipeReads ==
  ASSUME pipe \in Pipes, NEW i, P!Read(i)
  PROVE  /\ pipe' \in Pipes /\ pipe'.ended = pipe.ended /\ pipe'.werr = pipe.werr
         /\ Len(pipe.q) \in Nat /\ Len(pipe.q) >= 1 /\ i = pipe.q[1] /\ i \in 1..Chunks
         /\ Len(pipe'.q) = Len(pipe.q) - 1
         /\ \A j \in 1..Len(pipe'.q) : pipe'.q[j] = pipe.q[j + 1]
<1> DEFINE q == pipe.q
<1>1. q \in Seq(1..Chunks) /\ q # <<>> /\ i = Head(q) /\ pipe' = [pipe EXCEPT !.q = Tail(q)]
  BY DEF P!Read, Pipes
<1> HIDE DEF q
<1>2. /\ Head(q) = q[1] /\ Tail(q) \in Seq(1..Chunks) /\ Len(Tail(q)) = Len(q) - 1
      /\ \A j \in 1..Len(Tail(q)) : Tail(q)[j] = q[j + 1]
  BY <1>1, HeadTailProperties
<1>3. Len(q) \in Nat /\ Len(q) >= 1
  BY <1>1, LenProperties, EmptySeq
<1>4. q[1] \in 1..Chunks
  <2>1. 1 \in 1..Len(q)
    BY <1>3
  <2> DEFINE S == 1..Chunks
  <2>2. q \in Seq(S)
    BY <1>1
  <2> HIDE DEF S
  <2>3. q[1] \in S
    BY <2>1, <2>2, ElementOfSeq
  <2> QED
    BY <2>3 DEF S
<1>5. pipe' \in Pipes /\ pipe'.q = Tail(q) /\ pipe'.ended = pipe.ended /\ pipe'.werr = pipe.werr
  BY <1>1, <1>2 DEF Pipes
<1> QED
  BY <1>1, <1>2, <1>3, <1>4, <1>5 DEF q

(***************************************************************************)
(* The pipe is empty and its writer has ended the stream.                  *)
(***************************************************************************)
LEMMA PipeEnds ==
  ASSUME pipe \in Pipes, NEW e, P!ReadEnd(e)
  PROVE  pipe' = pipe /\ pipe.ended /\ e = pipe.werr /\ Len(pipe.q) = 0
BY DEF P!ReadEnd, Pipes

(***************************************************************************)
(* While the stager runs, finalizePrism is confirming or waiting for it.   *)
(***************************************************************************)
LEMMA StagerRuns ==
  ASSUME StageInv, stager.at \notin {"start", "done"}
  PROVE  conf.at \in {"confirm", "collect"} /\ outcome = Nil /\ w.backend = "pack"
<1>1. conf.at \in {"confirm", "collect"}
  BY DEF StageInv, StageTypeOK, Turns, Confs
<1> QED
  BY <1>1 DEF StageInv, Turns, Staging

(***************************************************************************)
(* A step of the stager leaves what the commit will rely on.               *)
(***************************************************************************)
LEMMA StagerFrame ==
  ASSUME StageInv, stager.at \notin {"start", "done"}, UNCHANGED <<conf, outcome>>, w'.backend = w.backend,
         stager'.at = "close" => ClosingUp(Main)',
         stager'.at = "done" /\ stager'.err = Nil => w'.rerr = "ok" /\ made' \subseteq accepted'.keys
  PROVE  Staging' /\ Committing'
<1>1. conf.at \in {"confirm", "collect"} /\ outcome = Nil /\ w.backend = "pack" /\ Nil # "prism"
  BY StagerRuns, StageAssumption
<1>2. Staging'
  BY <1>1 DEF Staging
<1>3. Committing'
  BY <1>1 DEF Committing
<1> QED
  BY <1>2, <1>3

-----------------------------------------------------------------------------
(***************************************************************************)
(* NewPackWriter, the pipe and the stager's goroutine.                     *)
(***************************************************************************)
LEMMA StartConfirmS ==
  ASSUME StageInv, StartConfirm
  PROVE  StageInv'
<1> USE DEF StageInv
<1>1. /\ WInv /\ StageTypeOK /\ conf.at = "start" /\ stager.at = "start" /\ recipe = "start" /\ made = {}
      /\ outcome = Nil
  BY DEF StartConfirm, Turns
<1>2. UNCHANGED <<pipe, gone, made, rejected>>
  BY DEF StartConfirm
<1>3. CASE /\ Fresh("pack") /\ pack' = NewPack /\ conf' = [conf EXCEPT !.at = "confirm"]
           /\ stager' = [stager EXCEPT !.at = "read"] /\ recipe' = "reading" /\ UNCHANGED <<outcome, wbudget>>
  <2>1. /\ conf'.at = "confirm" /\ conf'.n = conf.n /\ conf'.cerr = conf.cerr /\ conf' \in Confs
        /\ stager'.at = "read" /\ stager'.n = stager.n /\ stager'.err = stager.err /\ stager' \in Stagers
    BY <1>1, <1>3 DEF StageTypeOK, Confs, Stagers
  <2>2. pack' \in PackFiles
    BY <1>3 DEF NewPack, PackFiles
  <2>3. WInv' /\ w'.backend = "pack"
    BY <1>1, <1>3, <2>2, FreshW
  <2>4. StageTypeOK'
    BY <1>1, <1>2, <1>3, <2>1 DEF StageTypeOK
  <2>5. Turns'
    BY <1>1, <1>3, <2>1 DEF Turns
  <2>6. InOrder' /\ Blamed'
    BY <1>1, <1>2, <1>3, <2>1 DEF InOrder, Blamed
  <2>7. MadeKept' /\ Staging' /\ Committing'
    BY <1>1, <1>2, <1>3, <2>1, <2>3, StageAssumption DEF MadeKept, Staging, Committing
  <2> QED
    BY <2>3, <2>4, <2>5, <2>6, <2>7
<1>4. CASE /\ conf' = [conf EXCEPT !.at = "returned"] /\ outcome' = "failed"
           /\ UNCHANGED <<streamVars, clientVars, backendVars, accepted, stager, recipe>>
  <2>1. conf'.at = "returned" /\ conf'.n = conf.n /\ conf'.cerr = conf.cerr /\ conf' \in Confs
    BY <1>1, <1>4 DEF StageTypeOK, Confs
  <2>2. UNCHANGED <<w, ch, pc, todo, ret, work, bfail, objects, pack, stats, accepted>>
    BY <1>4 DEF streamVars, clientVars, backendVars
  <2>3. WInv'
    <3>1. ClientsOK' /\ w' \in Writers /\ pack' \in PackFiles
      BY <1>1, <2>2 DEF WInv, ClientsOK, BackendOK
    <3> QED
      BY <1>1, <2>2, <3>1, QuietStep
  <2>4. StageTypeOK'
    BY <1>1, <1>2, <1>4, <2>1 DEF StageTypeOK, Outcomes
  <2>5. Turns'
    BY <1>1, <1>2, <1>4, <2>1 DEF Turns
  <2>6. InOrder' /\ Blamed'
    BY <1>1, <1>2, <1>4, <2>1 DEF InOrder, Blamed
  <2>7. MadeKept' /\ Staging' /\ Committing'
    BY <1>1, <1>2, <1>4, <2>1 DEF MadeKept, Staging, Committing
  <2> QED
    BY <2>3, <2>4, <2>5, <2>6, <2>7
<1> QED
  BY <1>3, <1>4 DEF StartConfirm

(***************************************************************************)
(* Confirm writes a chunk: the next one.                                   *)
(***************************************************************************)
LEMMA ConfirmWriteS ==
  ASSUME StageInv, ConfirmWrite
  PROVE  StageInv'
<1> USE DEF StageInv
<1> DEFINE q == pipe.q
           n == conf.n
<1>1. WInv /\ StageTypeOK /\ conf.at = "confirm" /\ n < Chunks /\ P!Write(n + 1)
  BY DEF ConfirmWrite
<1>2. UNCHANGED <<writerVars, gone, stager, recipe, outcome, made, rejected>> /\ conf' = [conf EXCEPT !.n = @ + 1]
  BY DEF ConfirmWrite
<1>3. n \in 0..Chunks /\ Chunks \in Nat /\ n + 1 \in 1..Chunks
  BY <1>1, StageAssumption DEF StageTypeOK, Confs
<1>4. conf'.at = conf.at /\ conf'.n = n + 1 /\ conf'.cerr = conf.cerr /\ conf' \in Confs
  <2>1. n + 1 \in 0..Chunks
    BY <1>3
  <2> QED
    BY <1>1, <1>2, <2>1 DEF StageTypeOK, Confs
<1>5. q \in Seq(1..Chunks) /\ pipe' = [pipe EXCEPT !.q = Append(q, n + 1)]
  BY <1>1 DEF P!Write, StageTypeOK, Pipes
<1>6. /\ Append(q, n + 1) \in Seq(1..Chunks) /\ Len(Append(q, n + 1)) = Len(q) + 1 /\ Len(q) \in Nat
      /\ \A i \in 1..Len(q) : Append(q, n + 1)[i] = q[i]
      /\ Append(q, n + 1)[Len(q) + 1] = n + 1
  BY <1>3, <1>5, AppendProperties, LenProperties
<1>7. /\ pipe' \in Pipes /\ pipe'.q = Append(q, n + 1) /\ pipe'.ended = pipe.ended /\ pipe'.werr = pipe.werr
  BY <1>1, <1>5, <1>6 DEF StageTypeOK, Pipes
<1>8. WInv' /\ UNCHANGED <<w, pc, todo, ret, pack, accepted>>
  BY <1>1, <1>2, StillW
<1>9. StageTypeOK'
  BY <1>1, <1>2, <1>4, <1>7 DEF StageTypeOK
<1>10. Turns' /\ Blamed'
  BY <1>1, <1>2, <1>4 DEF Turns, Blamed
<1>11. InOrder'
  <2>1. ASSUME stager.err = Nil, stager.at \in {"start", "read", "recipe", "blob", "blobbed"}
        PROVE  n + 1 = stager.n + Len(pipe'.q) /\ \A i \in 1..Len(pipe'.q) : pipe'.q[i] = stager.n + i
    <3>1. n = stager.n + Len(q) /\ \A i \in 1..Len(q) : q[i] = stager.n + i
      BY <2>1 DEF InOrder
    <3>2. stager.n \in Nat
      BY <1>1, StageAssumption DEF StageTypeOK, Stagers
    <3> HIDE DEF q, n
    <3>3. Len(pipe'.q) = Len(q) + 1
      BY <1>6, <1>7
    <3>4. ASSUME NEW i \in 1..(Len(q) + 1) PROVE pipe'.q[i] = stager.n + i
      <4>1. CASE i \in 1..Len(q)
        BY <1>6, <1>7, <3>1, <4>1
      <4>2. CASE i = Len(q) + 1
        BY <1>6, <1>7, <3>1, <3>2, <4>2
      <4> QED
        BY <1>6, <4>1, <4>2
    <3> QED
      BY <1>3, <1>6, <3>1, <3>2, <3>3, <3>4
  <2> QED
    BY <1>1, <1>2, <1>4, <1>7, <2>1 DEF InOrder
<1>12. MadeKept'
  BY <1>2, <1>8 DEF MadeKept, Offering
<1>13. Staging' /\ Committing'
  BY <1>1, <1>2, <1>4, <1>8 DEF Staging, Committing, ClosingUp, PackKeys, Offering
<1> QED
  BY <1>8, <1>9, <1>10, <1>11, <1>12, <1>13

(***************************************************************************)
(* Confirm returns and the stager's stream is ended with its error.        *)
(***************************************************************************)
LEMMA ConfirmEndsS ==
  ASSUME StageInv, ConfirmEnds
  PROVE  StageInv'
<1> USE DEF StageInv
<1>1. WInv /\ StageTypeOK /\ conf.at = "confirm"
  BY DEF ConfirmEnds
<1>2. UNCHANGED <<writerVars, gone, stager, recipe, outcome, made, rejected>>
  BY DEF ConfirmEnds
<1>3. PICK cerr \in {Nil, "notrepro", "context", "failed"} :
        /\ cerr = Nil => conf.n = Chunks
        /\ P!CloseWrite(cerr)
        /\ conf' = [conf EXCEPT !.at = "collect", !.cerr = cerr]
  BY DEF ConfirmEnds
<1>4. conf'.at = "collect" /\ conf'.n = conf.n /\ conf'.cerr = cerr /\ conf' \in Confs
  BY <1>1, <1>3 DEF StageTypeOK, Confs, StreamErrors
<1>5. pipe' \in Pipes /\ pipe'.q = pipe.q /\ pipe'.ended /\ pipe'.werr = cerr
  BY <1>1, <1>3 DEF P!CloseWrite, StageTypeOK, Pipes, StreamErrors
<1>6. WInv' /\ UNCHANGED <<w, pc, todo, ret, pack, accepted>>
  BY <1>1, <1>2, StillW
<1>7. StageTypeOK'
  BY <1>1, <1>2, <1>4, <1>5 DEF StageTypeOK
<1>8. Turns' /\ Blamed'
  BY <1>1, <1>2, <1>4 DEF Turns, Blamed
<1>9. InOrder'
  BY <1>1, <1>2, <1>3, <1>4, <1>5 DEF InOrder
<1>10. MadeKept'
  BY <1>2, <1>6 DEF MadeKept, Offering
<1>11. outcome = Nil /\ Nil # "prism"
  BY <1>1, StageAssumption DEF Turns
<1>12. Staging' /\ Committing'
  BY <1>1, <1>2, <1>4, <1>6, <1>11 DEF Staging, Committing, ClosingUp
<1> QED
  BY <1>6, <1>7, <1>8, <1>9, <1>10, <1>12

-----------------------------------------------------------------------------
(***************************************************************************)
(* A step of the stager or of the recipe's goroutine that does not call    *)
(* the Writer.                                                             *)
(***************************************************************************)
LEMMA StagerGoesOn ==
  ASSUME StageInv, stager.at \notin {"start", "done"}, UNCHANGED writerVars, UNCHANGED <<conf, outcome>>,
         StageTypeOK', Turns', InOrder', Blamed', MadeKept', stager'.at \notin {"close", "done"}
  PROVE  StageInv'
<1>1. WInv
  BY DEF StageInv
<1>2. WInv' /\ UNCHANGED w
  BY <1>1, StillW
<1>3. Staging' /\ Committing'
  BY <1>2, StagerFrame
<1> QED
  BY <1>2, <1>3 DEF StageInv

(***************************************************************************)
(* The stager reads: the next chunk, the end of a confirmed stream, or an  *)
(* archive tar-prism rejects.                                              *)
(***************************************************************************)
LEMMA StagerReadS ==
  ASSUME StageInv, StagerRead
  PROVE  StageInv'
<1>1. /\ WInv /\ StageTypeOK /\ Turns /\ InOrder /\ Blamed /\ MadeKept /\ stager.at = "read"
      /\ pipe \in Pipes /\ stager \in Stagers
  BY DEF StageInv, StageTypeOK, StagerRead
<1>2. UNCHANGED <<writerVars, gone, conf, recipe, outcome, made>>
  BY DEF StagerRead
<1>3. conf.at \in {"confirm", "collect"} /\ outcome = Nil
  BY <1>1, StagerRuns
<1>4. stager.n \in Nat /\ Chunks \in Nat
  BY <1>1, StageAssumption DEF Stagers
<1>5. UNCHANGED <<w, pc, todo, ret, pack, accepted>>
  BY <1>1, <1>2, StillW
<1>6. ASSUME pipe' \in Pipes, pipe'.ended = pipe.ended, pipe'.werr = pipe.werr, stager' \in Stagers,
             stager'.at \in {"recipe", "blob", "index", "closing"},
             stager'.err = stager.err \/ stager'.err \in {"tar", "read"},
             rejected' = rejected \/ rejected' = TRUE, stager'.err = "tar" => rejected' \/ stager.err = "tar",
             stager'.err = Nil /\ stager'.at \in {"recipe", "blob"} =>
               conf.n = stager'.n + Len(pipe'.q) /\ \A i \in 1..Len(pipe'.q) : pipe'.q[i] = stager'.n + i,
             stager'.err = Nil /\ stager'.at \in {"index", "closing"} => stager'.n = Chunks
      PROVE  StageInv'
  <2>1. StageTypeOK'
    BY <1>1, <1>2, <1>6 DEF StageTypeOK
  <2>2. Turns'
    BY <1>1, <1>2, <1>3, <1>6 DEF Turns
  <2>3. InOrder'
    BY <1>1, <1>2, <1>3, <1>6 DEF InOrder
  <2>4. Blamed'
    BY <1>1, <1>2, <1>6 DEF Blamed, Turns
  <2>5. MadeKept'
    <3>1. stager'.err = Nil => stager.err = Nil
      BY <1>6, StageAssumption
    <3> QED
      BY <1>1, <1>2, <1>5, <3>1 DEF MadeKept, Offering
  <2> QED
    BY <1>1, <1>2, <1>6, <2>1, <2>2, <2>3, <2>4, <2>5, StagerGoesOn
<1>7. ASSUME NEW i \in 1..Chunks, P!Read(i), UNCHANGED rejected,
             stager' = [stager EXCEPT !.at = IF i % 2 = 1 THEN "recipe" ELSE "blob", !.n = i]
      PROVE  StageInv'
  <2>1. /\ pipe' \in Pipes /\ pipe'.ended = pipe.ended /\ pipe'.werr = pipe.werr
        /\ Len(pipe.q) \in Nat /\ Len(pipe.q) >= 1 /\ i = pipe.q[1]
        /\ Len(pipe'.q) = Len(pipe.q) - 1
        /\ \A j \in 1..Len(pipe'.q) : pipe'.q[j] = pipe.q[j + 1]
    BY <1>1, <1>7, PipeReads
  <2> DEFINE at == IF i % 2 = 1 THEN "recipe" ELSE "blob"
  <2>2. at \in {"recipe", "blob"} /\ stager' = [stager EXCEPT !.at = at, !.n = i] /\ i \in 0..Chunks
    BY <1>4, <1>7
  <2> HIDE DEF at
  <2>3. stager' \in Stagers /\ stager'.at = at /\ stager'.n = i /\ stager'.err = stager.err
    BY <1>1, <2>2 DEF Stagers
  <2>4. ASSUME stager'.err = Nil
        PROVE  conf.n = i + Len(pipe'.q) /\ \A j \in 1..Len(pipe'.q) : pipe'.q[j] = i + j
    <3>1. conf.n = stager.n + Len(pipe.q) /\ \A j \in 1..Len(pipe.q) : pipe.q[j] = stager.n + j
      BY <1>1, <2>3, <2>4 DEF InOrder
    <3>2. i = stager.n + 1
      BY <2>1, <3>1
    <3>3. ASSUME NEW j \in 1..Len(pipe'.q) PROVE pipe'.q[j] = i + j
      <4>1. j + 1 \in 1..Len(pipe.q) /\ j \in Nat
        BY <2>1
      <4>2. pipe'.q[j] = stager.n + (j + 1)
        BY <2>1, <3>1, <4>1
      <4>3. ASSUME NEW a \in Nat, NEW b \in Nat PROVE a + (b + 1) = (a + 1) + b
        OBVIOUS
      <4>4. stager.n + (j + 1) = (stager.n + 1) + j
        BY <1>4, <4>1, <4>3
      <4> QED
        BY <3>2, <4>2, <4>4
    <3>4. ASSUME NEW a \in Nat, NEW b \in Nat, b >= 1 PROVE a + b = (a + 1) + (b - 1)
      OBVIOUS
    <3>5. stager.n + Len(pipe.q) = (stager.n + 1) + (Len(pipe.q) - 1)
      BY <1>4, <2>1, <3>4
    <3> QED
      BY <2>1, <3>1, <3>2, <3>3, <3>5
  <2> QED
    BY <1>6, <1>7, <2>1, <2>2, <2>3, <2>4
<1>8. CASE P!ReadEnd(Nil) /\ StagerTo("index") /\ UNCHANGED rejected
  <2>1. pipe' = pipe /\ pipe.ended /\ pipe.werr = Nil /\ Len(pipe.q) = 0
    BY <1>1, <1>8, PipeEnds
  <2>2. stager' \in Stagers /\ stager'.at = "index" /\ stager'.n = stager.n /\ stager'.err = stager.err
    BY <1>1, <1>8 DEF StagerTo, Stagers
  <2>3. stager.err = Nil => stager.n = Chunks
    BY <1>1, <1>4, <2>1 DEF InOrder
  <2> QED
    BY <1>1, <1>6, <1>8, <2>1, <2>2, <2>3
<1>9. ASSUME NEW e \in {"tar", "read"}, StagerFails(e)
      PROVE  stager' \in Stagers /\ stager'.at = "closing" /\ stager'.err = e /\ e # Nil
  BY <1>1, <1>9, StageAssumption DEF StagerFails, Stagers, StagerErrors
<1>10. CASE /\ (\E i \in 1..Chunks : P!Read(i)) \/ P!ReadEnd(Nil)
            /\ StagerFails("tar") /\ rejected' = TRUE
  <2>1. pipe' \in Pipes /\ pipe'.ended = pipe.ended /\ pipe'.werr = pipe.werr
    BY <1>1, <1>10, PipeReads, PipeEnds
  <2>2. stager' \in Stagers /\ stager'.at = "closing" /\ stager'.err = "tar" /\ "tar" # Nil
    BY <1>9, <1>10
  <2> QED
    BY <1>6, <1>10, <2>1, <2>2
<1>11. CASE /\ \E err \in {"notrepro", "context", "failed"} : P!ReadEnd(err)
            /\ StagerFails("read") /\ UNCHANGED rejected
  <2>1. pipe' = pipe
    BY <1>1, <1>11, PipeEnds
  <2>2. stager' \in Stagers /\ stager'.at = "closing" /\ stager'.err = "read" /\ "read" # Nil
    BY <1>9, <1>11
  <2> QED
    BY <1>1, <1>6, <1>11, <2>1, <2>2
<1> QED
  BY <1>7, <1>8, <1>10, <1>11 DEF StagerRead

(***************************************************************************)
(* A piece of the recipe goes to the recipe's goroutine; its stream is     *)
(* ended; a put of the stager is over.                                     *)
(***************************************************************************)
LEMMA RecipeWriteS ==
  ASSUME StageInv, RecipeWrite \/ closeRecipe \/ StagerPutDone
  PROVE  StageInv'
<1>1. /\ WInv /\ StageTypeOK /\ Turns /\ InOrder /\ Blamed /\ MadeKept /\ stager \in Stagers
      /\ stager.at \in {"recipe", "closing", "blobbed", "indexed"}
  BY DEF StageInv, StageTypeOK, RecipeWrite, closeRecipe, StagerPutDone
<1>2. UNCHANGED <<writerVars, pipe, gone, conf, outcome, made, rejected>>
  BY DEF RecipeWrite, closeRecipe, StagerPutDone
<1>3. conf.at \in {"confirm", "collect"} /\ outcome = Nil
  BY <1>1, StagerRuns
<1>4. UNCHANGED <<w, pc, todo, ret, pack, accepted>>
  BY <1>1, <1>2, StillW
<1>5. ASSUME NEW at \in {"read", "closing", "drain"}, StagerTo(at)
      PROVE  stager' \in Stagers /\ stager'.at = at /\ stager'.err = stager.err /\ stager'.n = stager.n
  BY <1>1, <1>5 DEF StagerTo, Stagers
<1>6. ASSUME StagerFails("sink")
      PROVE  stager' \in Stagers /\ stager'.at = "closing" /\ stager'.err = "sink" /\ "sink" # Nil
  BY <1>1, <1>6, StageAssumption DEF StagerFails, Stagers, StagerErrors
<1>7. CASE StagerFails("sink") /\ UNCHANGED recipe
  <2>1. stager' \in Stagers /\ stager'.at = "closing" /\ stager'.err = "sink" /\ "sink" # Nil
    BY <1>6, <1>7
  <2>2. StageTypeOK' /\ Turns' /\ InOrder' /\ Blamed' /\ MadeKept'
    <3>1. StageTypeOK'
      BY <1>1, <1>2, <1>7, <2>1 DEF StageTypeOK
    <3>2. Turns'
      BY <1>1, <1>2, <1>3, <1>7, <2>1 DEF Turns
    <3>3. InOrder' /\ Blamed' /\ MadeKept'
      BY <1>1, <1>2, <1>3, <2>1 DEF InOrder, Blamed, MadeKept
    <3> QED
      BY <3>1, <3>2, <3>3
  <2> QED
    BY <1>1, <1>2, <2>1, <2>2, StagerGoesOn
<1>8. CASE \/ /\ stager.at = "recipe" /\ recipe = "reading" /\ recipe' = "put" /\ StagerTo("read")
           \/ /\ stager.at = "blobbed" /\ pc[Main] = "idle" /\ ret[Main] /\ UNCHANGED recipe /\ StagerTo("read")
           \/ /\ stager.at = "indexed" /\ pc[Main] = "idle" /\ ret[Main] /\ UNCHANGED recipe /\ StagerTo("closing")
           \/ /\ stager.at = "closing" /\ recipe = "reading" /\ recipe' = "eof" /\ UNCHANGED stager
           \/ /\ stager.at = "closing" /\ recipe \in {"stored", "failed"} /\ StagerTo("drain") /\ UNCHANGED recipe
  <2>1. /\ stager' \in Stagers /\ stager'.err = stager.err /\ stager'.n = stager.n
        /\ stager.at \in {"recipe", "blobbed"} => stager'.at = "read"
        /\ stager.at = "indexed" => stager'.at = "closing"
        /\ stager.at = "closing" => stager'.at = "closing" \/ (stager'.at = "drain" /\ recipe \in {"stored", "failed"})
        /\ stager'.at = "drain" => recipe' = recipe
    BY <1>1, <1>5, <1>8
  <2>2. /\ recipe' = recipe \/ (recipe = "reading" /\ recipe' \in {"put", "eof"})
        /\ stager.at \in {"blobbed", "indexed"} => pc[Main] = "idle" /\ ret[Main] /\ recipe' = recipe
    BY <1>8
  <2>3. stager'.at \in {"read", "closing", "drain"}
    BY <1>1, <2>1
  <2>4. StageTypeOK'
    BY <1>1, <1>2, <2>1, <2>2 DEF StageTypeOK
  <2>5. Turns'
    BY <1>1, <1>2, <1>3, <2>1, <2>2, <2>3 DEF Turns
  <2>6. InOrder' /\ Blamed'
    BY <1>1, <1>2, <1>3, <2>1, <2>3 DEF InOrder, Blamed
  <2>7. MadeKept'
    <3> SUFFICES ASSUME stager.err = Nil, NEW k \in made
                 PROVE  \/ k \in accepted.keys
                        \/ recipe' \in {"putting", "ending"} /\ Offering(Recipe, k)'
                        \/ recipe' = "failed"
      BY <1>2, <1>4, <2>1 DEF MadeKept
    <3>1. \/ k \in accepted.keys
          \/ stager.at \in {"blobbed", "indexed"} /\ Offering(Main, k)
          \/ recipe \in {"putting", "ending"} /\ Offering(Recipe, k)
          \/ recipe = "failed"
      BY <1>1 DEF MadeKept
    <3>2. CASE stager.at \in {"blobbed", "indexed"} /\ Offering(Main, k)
      BY <2>2, <3>2 DEF Offering
    <3>3. CASE recipe \in {"putting", "ending"} /\ Offering(Recipe, k)
      <4>1. recipe' = recipe
        BY <2>2, <3>3
      <4> QED
        BY <1>4, <3>3, <4>1 DEF Offering
    <3>4. CASE recipe = "failed"
      BY <2>2, <3>4
    <3> QED
      BY <3>1, <3>2, <3>3, <3>4
  <2> QED
    BY <1>1, <1>2, <2>3, <2>4, <2>5, <2>6, <2>7, StagerGoesOn
<1> QED
  BY <1>7, <1>8 DEF RecipeWrite, closeRecipe, StagerPutDone

(***************************************************************************)
(* The rest of the stream is read.                                         *)
(***************************************************************************)
LEMMA DrainS ==
  ASSUME StageInv, Drain
  PROVE  StageInv'
<1>1. /\ WInv /\ StageTypeOK /\ Turns /\ InOrder /\ Blamed /\ MadeKept /\ stager \in Stagers /\ pipe \in Pipes
      /\ stager.at = "drain"
  BY DEF StageInv, StageTypeOK, Drain
<1>2. UNCHANGED <<writerVars, gone, conf, recipe, outcome, made, rejected>>
  BY DEF Drain
<1>3. conf.at \in {"confirm", "collect"} /\ outcome = Nil
  BY <1>1, StagerRuns
<1>4. UNCHANGED <<w, pc, todo, ret, pack, accepted>>
  BY <1>1, <1>2, StillW
<1>5. pipe' \in Pipes /\ pipe'.ended = pipe.ended /\ pipe'.werr = pipe.werr
  BY <1>1, PipeReads, PipeEnds DEF Drain
<1>6. stager' \in Stagers /\ stager'.err = stager.err /\ stager'.n = stager.n /\ stager'.at \in {"drain", "finish"}
  BY <1>1 DEF Drain, StagerTo, Stagers
<1>7. StageTypeOK'
  BY <1>1, <1>2, <1>5, <1>6 DEF StageTypeOK
<1>8. Turns'
  BY <1>1, <1>2, <1>3, <1>6 DEF Turns
<1>9. InOrder' /\ Blamed'
  BY <1>1, <1>2, <1>3, <1>5, <1>6 DEF InOrder, Blamed
<1>10. MadeKept'
  BY <1>1, <1>2, <1>4, <1>6 DEF MadeKept, Offering
<1> QED
  BY <1>1, <1>2, <1>6, <1>7, <1>8, <1>9, <1>10, StagerGoesOn

(***************************************************************************)
(* An offer of one object.                                                 *)
(***************************************************************************)
LEMMA OneItem ==
  ASSUME NEW k \in Key
  PROVE  <<Object(k)>> \in Seq(Item) /\ <<Object(k)>> # <<>> /\ k \in Keys(<<Object(k)>>)
<1>1. Object(k) \in Item /\ Object(k).key = k
  BY DEF Object, Item
<1> HIDE DEF Object
<1>2. <<Object(k)>> \in Seq(Item) /\ Len(<<Object(k)>>) = 1 /\ <<Object(k)>>[1] = Object(k)
  BY <1>1
<1>3. 1 \in 1..Len(<<Object(k)>>)
  BY <1>2
<1>4. <<Object(k)>>[1].key \in Keys(<<Object(k)>>)
  BY <1>3 DEF Keys
<1> QED
  BY <1>1, <1>2, <1>4

(***************************************************************************)
(* The stager puts a blob or the index.                                    *)
(***************************************************************************)
LEMMA StagerPutS ==
  ASSUME StageInv, StagerPut
  PROVE  StageInv'
<1>1. /\ WInv /\ StageTypeOK /\ Turns /\ InOrder /\ Blamed /\ MadeKept /\ stager \in Stagers
      /\ stager.at \in {"blob", "index"} /\ made \subseteq Key
  BY DEF StageInv, StageTypeOK, StagerPut
<1>2. UNCHANGED <<pipe, gone, conf, recipe, outcome, rejected>>
  BY DEF StagerPut
<1>3. conf.at \in {"confirm", "collect"} /\ outcome = Nil
  BY <1>1, StagerRuns
<1>4. PICK key \in Key : Offer(Main, <<Object(key)>>) /\ made' = made \cup {key}
  BY StageAssumption DEF StagerPut
<1>5. Main \in Client /\ Recipe \in Client \ {Main}
  BY StageAssumption
<1>6. <<Object(key)>> \in Seq(Item) /\ <<Object(key)>> # <<>> /\ key \in Keys(<<Object(key)>>)
  BY OneItem
<1>7. /\ WInv' /\ pc'[Main] = "rlock" /\ todo'[Main] = <<Object(key)>> /\ \A d \in Client \ {Main} : Untouched(d)
      /\ UNCHANGED <<w, pack, accepted>>
  BY <1>1, <1>4, <1>5, <1>6, OfferW
<1>8. /\ stager' \in Stagers /\ stager'.err = stager.err /\ stager'.n = stager.n
      /\ stager.at = "blob" => stager'.at = "blobbed"
      /\ stager.at = "index" => stager'.at = "indexed"
  BY <1>1 DEF StagerPut, StagerTo, Stagers
<1>9. StageTypeOK'
  BY <1>1, <1>2, <1>4, <1>8 DEF StageTypeOK
<1>10. Turns'
  BY <1>1, <1>2, <1>3, <1>8 DEF Turns
<1>11. InOrder' /\ Blamed'
  BY <1>1, <1>2, <1>3, <1>8 DEF InOrder, Blamed
<1>12. MadeKept'
  <2> SUFFICES ASSUME stager.err = Nil, NEW k \in made \cup {key}
               PROVE  \/ k \in accepted.keys
                      \/ Offering(Main, k)'
                      \/ recipe \in {"putting", "ending"} /\ Offering(Recipe, k)'
                      \/ recipe = "failed"
    BY <1>1, <1>2, <1>4, <1>7, <1>8 DEF MadeKept
  <2>1. CASE k = key
    BY <1>6, <1>7, <2>1 DEF Offering
  <2>2. CASE k \in made
    <3>1. Offering(Recipe, k) => Offering(Recipe, k)'
      BY <1>5, <1>7, CallsStay
    <3> QED
      BY <1>1, <2>2, <3>1 DEF MadeKept
  <2> QED
    BY <2>1, <2>2
<1>13. Staging' /\ Committing'
  BY <1>1, <1>2, <1>7, <1>8, StagerFrame
<1> QED
  BY <1>7, <1>9, <1>10, <1>11, <1>12, <1>13 DEF StageInv

(***************************************************************************)
(* finish reports a failed recipe; the pack writer is closed or aborted.   *)
(***************************************************************************)
LEMMA StagerFinishS ==
  ASSUME StageInv, StagerFinish
  PROVE  StageInv'
<1>1. /\ WInv /\ StageTypeOK /\ Turns /\ InOrder /\ Blamed /\ MadeKept /\ stager \in Stagers
      /\ stager.at = "finish" /\ recipe \in {"stored", "failed"} /\ stager.err \in {Nil, "tar", "read", "sink"}
  BY DEF StageInv, StageTypeOK, StagerFinish, Turns
<1>2. UNCHANGED <<pipe, gone, conf, recipe, outcome, made, rejected>>
  BY DEF StagerFinish
<1>3. conf.at \in {"confirm", "collect"} /\ outcome = Nil
  BY <1>1, StagerRuns
<1>4. Main \in Client /\ Nil # "sink"
  BY StageAssumption
<1> DEFINE err == IF stager.err = Nil /\ recipe = "failed" THEN "sink" ELSE stager.err
<1>5. /\ stager' = [stager EXCEPT !.at = IF err = Nil THEN "close" ELSE "abort", !.err = err]
      /\ Close(Main) \/ Abort(Main)
  BY DEF StagerFinish
<1>6. /\ err \in {Nil, "tar", "read", "sink"} /\ (err = Nil => stager.err = Nil /\ recipe = "stored")
      /\ err \in {"tar", "decompose"} => err = stager.err
  BY <1>1, <1>4
<1> HIDE DEF err
<1>7. /\ WInv' /\ pc'[Main] = "lock" /\ \A d \in Client \ {Main} : Untouched(d)
      /\ w'.backend = w.backend /\ w'.rerr = w.rerr /\ UNCHANGED <<pack, accepted>>
  BY <1>1, <1>4, <1>5, CloseW
<1>8. /\ stager' \in Stagers /\ stager'.err = err /\ stager'.n = stager.n
      /\ err = Nil => stager'.at = "close"
      /\ err # Nil => stager'.at = "abort"
  BY <1>1, <1>5, <1>6 DEF Stagers, StagerErrors
<1>9. StageTypeOK'
  BY <1>1, <1>2, <1>8 DEF StageTypeOK
<1>10. Turns'
  BY <1>1, <1>2, <1>3, <1>6, <1>8 DEF Turns
<1>11. InOrder' /\ Blamed'
  BY <1>1, <1>2, <1>3, <1>6, <1>8 DEF InOrder, Blamed
<1>12. MadeKept'
  <2> SUFFICES ASSUME stager.err = Nil, recipe = "stored", NEW k \in made PROVE k \in accepted.keys
    BY <1>2, <1>6, <1>7, <1>8 DEF MadeKept
  <2> QED
    BY <1>1 DEF MadeKept
<1>13. Staging' /\ Committing'
  <2>1. stager'.at # "done" /\ ClosingUp(Main)'
    BY <1>7, <1>8 DEF ClosingUp
  <2> QED
    BY <1>1, <1>2, <1>7, <2>1, StagerFrame
<1> QED
  BY <1>7, <1>9, <1>10, <1>11, <1>12, <1>13 DEF StageInv

(***************************************************************************)
(* The stager ends, with what Close of the pack writer reported.           *)
(***************************************************************************)
LEMMA StagerEndsS ==
  ASSUME StageInv, StagerEnds
  PROVE  StageInv'
<1>1. /\ WInv /\ StageTypeOK /\ Turns /\ InOrder /\ Blamed /\ MadeKept /\ stager \in Stagers
      /\ stager.at \in {"close", "abort"} /\ recipe \in {"stored", "failed"} /\ stager.err \in {Nil, "tar", "read", "sink"}
      /\ stager.at = "abort" => stager.err # Nil
      /\ pc[Main] = "idle" /\ gone \in BOOLEAN
  BY DEF StageInv, StageTypeOK, StagerEnds, Turns
<1>2. UNCHANGED <<pipe, gone, conf, recipe, outcome, made, rejected>>
  BY DEF StagerEnds
<1>3. conf.at \in {"confirm", "collect"} /\ outcome = Nil
  BY <1>1, StagerRuns
<1>4. Main \in Client /\ Nil # "sink" /\ Nil \notin {"context", "tar", "read", "decompose"}
  BY StageAssumption
<1>5. CASE /\ stager' = [stager EXCEPT !.at = "abort", !.err = "sink"] /\ Abort(Main)
  <2>1. /\ WInv' /\ w'.backend = w.backend
    BY <1>1, <1>4, <1>5, CloseW
  <2>2. stager' \in Stagers /\ stager'.at = "abort" /\ stager'.err = "sink" /\ stager'.n = stager.n
    BY <1>1, <1>5 DEF Stagers, StagerErrors
  <2>3. StageTypeOK'
    BY <1>1, <1>2, <2>2 DEF StageTypeOK
  <2>4. Turns'
    BY <1>1, <1>2, <1>3, <1>4, <2>2 DEF Turns
  <2>5. InOrder' /\ Blamed' /\ MadeKept'
    BY <1>1, <1>2, <1>3, <1>4, <2>2 DEF InOrder, Blamed, MadeKept
  <2>6. Staging' /\ Committing'
    BY <1>1, <1>2, <2>1, <2>2, StagerFrame
  <2> QED
    BY <2>1, <2>3, <2>4, <2>5, <2>6 DEF StageInv
<1>6. CASE /\ ~(stager.at = "close" /\ ~ret[Main])
           /\ stager' = [stager EXCEPT !.at = "done",
                           !.err = IF @ = Nil THEN Nil ELSE classifyDecomposeError(@)]
           /\ UNCHANGED <<streamVars, clientVars, backendVars, accepted>>
  <2> DEFINE err == IF stager.err = Nil THEN Nil ELSE classifyDecomposeError(stager.err)
  <2>1. /\ err \in StagerErrors \cup {Nil} /\ (err = Nil => stager.err = Nil)
        /\ err \in {"tar", "decompose"} => stager.err = "tar"
    BY <1>1, <1>4 DEF classifyDecomposeError, StagerErrors
  <2>2. stager' = [stager EXCEPT !.at = "done", !.err = err]
    BY <1>6
  <2> HIDE DEF err
  <2>3. stager' \in Stagers /\ stager'.at = "done" /\ stager'.err = err /\ stager'.n = stager.n
    BY <1>1, <2>1, <2>2 DEF Stagers
  <2>4. UNCHANGED <<w, ch, pc, todo, ret, work, bfail, objects, pack, stats, accepted>>
    BY <1>6 DEF streamVars, clientVars, backendVars
  <2>5. WInv'
    <3>1. ClientsOK' /\ w' \in Writers /\ pack' \in PackFiles
      BY <1>1, <2>4 DEF WInv, ClientsOK, BackendOK
    <3> QED
      BY <1>1, <2>4, <3>1, QuietStep
  <2>6. StageTypeOK'
    BY <1>1, <1>2, <2>3 DEF StageTypeOK
  <2>7. Turns'
    BY <1>1, <1>2, <1>3, <2>1, <2>3 DEF Turns
  <2>8. InOrder' /\ Blamed' /\ MadeKept'
    BY <1>1, <1>2, <1>3, <2>1, <2>3 DEF InOrder, Blamed, MadeKept
  <2>9. ASSUME err = Nil PROVE w.rerr = "ok" /\ made \subseteq accepted.keys
    <3>1. stager.err = Nil /\ stager.at = "close" /\ ret[Main] /\ recipe = "stored"
      BY <1>1, <1>6, <2>1, <2>9 DEF Turns
    <3>2. w.rerr = "ok"
      BY <1>1, <3>1 DEF StageInv, Staging, ClosingUp
    <3>3. made \subseteq accepted.keys
      BY <1>1, <3>1 DEF MadeKept
    <3> QED
      BY <3>2, <3>3
  <2>10. Staging' /\ Committing'
    <3>1. stager'.at = "done" /\ stager'.err = Nil => w'.rerr = "ok" /\ made' \subseteq accepted'.keys
      BY <1>2, <2>3, <2>4, <2>9
    <3> QED
      BY <1>1, <1>2, <2>3, <2>4, <3>1, StagerFrame
  <2> QED
    BY <2>5, <2>6, <2>7, <2>8, <2>10 DEF StageInv
<1> QED
  BY <1>5, <1>6 DEF StagerEnds

(***************************************************************************)
(* The recipe's goroutine puts what it was given.                          *)
(***************************************************************************)
LEMMA RecipePutS ==
  ASSUME StageInv, RecipePut
  PROVE  StageInv'
<1>1. /\ WInv /\ StageTypeOK /\ Turns /\ InOrder /\ Blamed /\ MadeKept /\ recipe \in {"put", "eof"}
      /\ made \subseteq Key
  BY DEF StageInv, StageTypeOK, RecipePut
<1>2. UNCHANGED <<pipe, gone, conf, stager, outcome, rejected>>
  BY DEF RecipePut
<1>3. stager.at \notin {"start", "drain", "finish", "close", "abort", "done"}
  BY <1>1 DEF Turns
<1>4. conf.at \in {"confirm", "collect"} /\ outcome = Nil
  BY <1>3, StagerRuns
<1>5. PartKey \in Key /\ Recipe \in Client /\ Main \in Client \ {Recipe}
  BY StageAssumption
<1>6. Offer(Recipe, <<Object(PartKey)>>) /\ made' = made \cup {PartKey} /\ recipe' \in {"putting", "ending"}
  BY DEF RecipePut
<1>7. <<Object(PartKey)>> \in Seq(Item) /\ <<Object(PartKey)>> # <<>> /\ PartKey \in Keys(<<Object(PartKey)>>)
  BY <1>5, OneItem
<1>8. /\ WInv' /\ pc'[Recipe] = "rlock" /\ todo'[Recipe] = <<Object(PartKey)>> /\ \A d \in Client \ {Recipe} : Untouched(d)
      /\ UNCHANGED <<w, pack, accepted>>
  BY <1>1, <1>5, <1>6, <1>7, OfferW
<1>9. StageTypeOK'
  BY <1>1, <1>2, <1>5, <1>6 DEF StageTypeOK
<1>10. Turns'
  BY <1>1, <1>2, <1>3, <1>4, <1>6 DEF Turns
<1>11. InOrder' /\ Blamed'
  BY <1>1, <1>2 DEF InOrder, Blamed
<1>12. MadeKept'
  <2> SUFFICES ASSUME stager.err = Nil, NEW k \in made \cup {PartKey}
               PROVE  \/ k \in accepted.keys
                      \/ stager.at \in {"blobbed", "indexed"} /\ Offering(Main, k)'
                      \/ Offering(Recipe, k)'
    BY <1>2, <1>6, <1>8 DEF MadeKept
  <2>1. CASE k = PartKey
    BY <1>7, <1>8, <2>1 DEF Offering
  <2>2. CASE k \in made
    <3>1. Offering(Main, k) => Offering(Main, k)'
      BY <1>5, <1>8, CallsStay
    <3> QED
      BY <1>1, <1>3, <2>2, <3>1 DEF MadeKept
  <2> QED
    BY <2>1, <2>2
<1>13. Staging' /\ Committing'
  BY <1>2, <1>3, <1>8, StagerFrame
<1> QED
  BY <1>8, <1>9, <1>10, <1>11, <1>12, <1>13 DEF StageInv

(***************************************************************************)
(* The put of the recipe's goroutine has returned.                         *)
(***************************************************************************)
LEMMA RecipePutDoneS ==
  ASSUME StageInv, RecipePutDone
  PROVE  StageInv'
<1>1. /\ WInv /\ StageTypeOK /\ Turns /\ InOrder /\ Blamed /\ MadeKept /\ recipe \in {"putting", "ending"}
      /\ pc[Recipe] = "idle"
  BY DEF StageInv, RecipePutDone
<1>2. UNCHANGED <<writerVars, pipe, gone, conf, stager, outcome, made, rejected>>
  BY DEF RecipePutDone
<1>3. stager.at \notin {"start", "drain", "finish", "close", "abort", "done"}
  BY <1>1 DEF Turns
<1>4. conf.at \in {"confirm", "collect"} /\ outcome = Nil
  BY <1>3, StagerRuns
<1>5. recipe' \in {"failed", "reading", "stored"} /\ (~ret[Recipe] => recipe' = "failed")
  BY DEF RecipePutDone
<1>6. UNCHANGED <<w, pc, todo, ret, pack, accepted>>
  BY <1>1, <1>2, StillW
<1>7. StageTypeOK'
  BY <1>1, <1>2, <1>5 DEF StageTypeOK
<1>8. Turns'
  BY <1>1, <1>2, <1>3, <1>4, <1>5 DEF Turns
<1>9. InOrder' /\ Blamed'
  BY <1>1, <1>2 DEF InOrder, Blamed
<1>10. MadeKept'
  <2> SUFFICES ASSUME stager.err = Nil, NEW k \in made
               PROVE  \/ k \in accepted.keys
                      \/ stager.at \in {"blobbed", "indexed"} /\ Offering(Main, k)'
                      \/ recipe' = "failed"
    BY <1>2, <1>6 DEF MadeKept
  <2>1. Offering(Main, k) => Offering(Main, k)'
    BY <1>6 DEF Offering
  <2>2. Offering(Recipe, k) => k \in accepted.keys \/ ~ret[Recipe]
    BY <1>1 DEF Offering
  <2> QED
    BY <1>1, <1>3, <1>5, <2>1, <2>2 DEF MadeKept
<1> QED
  BY <1>2, <1>3, <1>7, <1>8, <1>9, <1>10, StagerGoesOn

-----------------------------------------------------------------------------
(***************************************************************************)
(* A step of finalizePrism after the stager was collected.                 *)
(***************************************************************************)
LEMMA CommitFrame ==
  ASSUME StageInv, stager.at = "done", UNCHANGED <<pipe, gone, stager, recipe, made, rejected>>,
         conf.at \notin {"start", "confirm"},
         conf' \in Confs, conf'.n = conf.n, conf'.cerr = conf.cerr,
         conf'.at \in {"commit", "adding", "comp", "closing", "aborting", "returned"},
         conf'.at # "returned" => stager.err = Nil /\ conf.cerr = Nil,
         outcome' \in Outcomes \cup {Nil}, outcome' # Nil => conf'.at = "returned",
         outcome' = "raw-decompose" => rejected,
         WInv', Committing'
  PROVE  StageInv'
<1> USE DEF StageInv
<1>1. StageTypeOK'
  BY DEF StageTypeOK
<1>2. Turns'
  BY DEF Turns
<1>3. InOrder'
  BY DEF InOrder
<1>4. Blamed' /\ MadeKept' /\ Staging'
  BY DEF Blamed, MadeKept, Staging
<1> QED
  BY <1>1, <1>2, <1>3, <1>4

(***************************************************************************)
(* The stager is collected.                                                *)
(***************************************************************************)
LEMMA CollectS ==
  ASSUME StageInv, Collect
  PROVE  StageInv'
<1>1. /\ WInv /\ StageTypeOK /\ Turns /\ Blamed /\ Staging /\ conf.at = "collect" /\ stager.at = "done"
      /\ conf \in Confs /\ stager \in Stagers /\ pack \in PackFiles
  BY DEF StageInv, StageTypeOK, Collect, WInv, BackendOK
<1>2. UNCHANGED <<pipe, gone, stager, recipe, made, rejected>>
  BY DEF Collect
<1>3. outcome = Nil /\ Nil \notin Outcomes
  BY <1>1, StageAssumption DEF Turns, Outcomes
<1>4. CASE conf.cerr # Nil \/ stager.err # Nil
  <2> DEFINE err == IF conf.cerr # Nil THEN conf.cerr ELSE stager.err
  <2>1. /\ outcome' = FinalOf(err) /\ conf' = [conf EXCEPT !.at = "returned"] /\ pack' = [pack EXCEPT !.open = FALSE]
        /\ UNCHANGED <<w, ch, pc, todo, ret, work, bfail, objects, stats, accepted>>
    BY <1>4 DEF Collect, streamVars, clientVars
  <2>2. /\ conf' \in Confs /\ conf'.at = "returned" /\ conf'.n = conf.n /\ conf'.cerr = conf.cerr
        /\ pack' \in PackFiles /\ pack'.records = pack.records /\ pack'.skipped = pack.skipped
    BY <1>1, <2>1 DEF Confs, PackFiles
  <2>3. WInv'
    <3>1. ClientsOK' /\ w' \in Writers
      BY <1>1, <2>1 DEF WInv, ClientsOK, BackendOK
    <3> QED
      BY <1>1, <2>1, <2>2, <3>1, QuietStep
  <2>4. err = "decompose" => rejected
    BY <1>1 DEF Blamed, Confs, StreamErrors
  <2> HIDE DEF err
  <2>5. outcome' \in Outcomes /\ outcome' # "prism" /\ (outcome' = "raw-decompose" => rejected)
    BY <2>1, <2>4 DEF FinalOf, Outcomes
  <2>6. Committing'
    BY <2>2, <2>5 DEF Committing
  <2> QED
    BY <1>1, <1>2, <2>2, <2>3, <2>5, <2>6, CommitFrame
<1>5. CASE ~(conf.cerr # Nil \/ stager.err # Nil)
  <2>1. Fresh("live") /\ conf' = [conf EXCEPT !.at = "commit"] /\ UNCHANGED <<outcome, pack>>
    BY <1>5 DEF Collect
  <2>2. conf' \in Confs /\ conf'.at = "commit" /\ conf'.n = conf.n /\ conf'.cerr = conf.cerr
    BY <1>1, <2>1 DEF Confs
  <2>3. WInv' /\ w'.backend = "live"
    BY <1>1, <2>1, FreshW
  <2>4. made \subseteq PackKeys
    <3>1. w.rerr = "ok" /\ made \subseteq accepted.keys /\ w.backend = "pack"
      BY <1>1, <1>5 DEF Staging
    <3>2. accepted.keys \subseteq Settled
      BY <1>1, <3>1, ClosedW
    <3> QED
      BY <3>1, <3>2 DEF Settled
  <2>5. Committing'
    BY <1>2, <1>3, <2>1, <2>2, <2>3, <2>4, StageAssumption DEF Committing, PackKeys
  <2>6. outcome' = Nil
    BY <1>3, <2>1
  <2>7. outcome' # "raw-decompose"
    BY <1>3, <2>6 DEF Outcomes
  <2> QED
    BY <1>1, <1>2, <1>5, <2>2, <2>3, <2>5, <2>6, <2>7, CommitFrame
<1> QED
  BY <1>4, <1>5

(***************************************************************************)
(* The pack, comp.json and the Close of the live writer.                   *)
(***************************************************************************)
LEMMA CommitS ==
  ASSUME StageInv, Commit
  PROVE  StageInv'
<1>1. /\ WInv /\ StageTypeOK /\ Turns /\ Committing /\ conf.at \in {"commit", "adding", "comp"} /\ conf \in Confs
      /\ pack \in PackFiles
  BY DEF StageInv, StageTypeOK, Commit, WInv, BackendOK
<1>2. UNCHANGED <<pipe, gone, stager, recipe, outcome, made, rejected>>
  BY DEF Commit
<1>3. stager.at = "done" /\ stager.err = Nil /\ conf.cerr = Nil /\ outcome = Nil /\ w.backend = "live"
  BY <1>1 DEF Turns, Committing
<1>4. Main \in Client /\ Nil \notin Outcomes /\ PartKey \in Key
  BY StageAssumption DEF Outcomes
<1>5. ASSUME WInv', Committing', NEW at \in {"adding", "comp", "closing", "aborting"}, conf' = [conf EXCEPT !.at = at]
      PROVE  StageInv'
  <2>1. conf' \in Confs /\ conf'.at = at /\ conf'.n = conf.n /\ conf'.cerr = conf.cerr
    BY <1>1, <1>5 DEF Confs
  <2>2. outcome' = Nil /\ outcome' # "raw-decompose"
    BY <1>2, <1>3, <1>4 DEF Outcomes
  <2> QED
    BY <1>1, <1>2, <1>3, <1>5, <2>1, <2>2, CommitFrame
<1>6. outcome' # "prism"
  BY <1>2, <1>3, <1>4 DEF Outcomes
<1>7. CASE conf.at = "commit" /\ AddPack(Main) /\ conf' = [conf EXCEPT !.at = "adding"]
  <2>1. /\ WInv' /\ UNCHANGED <<w, accepted>>
        /\ \/ pc'[Main] = "idle" /\ ~ret'[Main]
           \/ pc'[Main] = "idle" /\ Keys(PackItems(pack)) = {}
           \/ pc'[Main] = "rlock" /\ todo'[Main] = PackItems(pack)
    BY <1>1, <1>4, <1>7, AddPackW
  <2>2. made \subseteq Keys(PackItems(pack))
    <3>1. Keys(PackItems(pack)) = Range(pack.records) \cup Range(pack.skipped)
      BY <1>1, PackItemsOK
    <3> QED
      BY <1>1, <1>7, <3>1 DEF Committing, PackKeys
  <2>3. \A k \in made : Offering(Main, k)'
    BY <2>1, <2>2 DEF Offering
  <2>4. conf'.at = "adding"
    BY <1>1, <1>7 DEF Confs
  <2>5. Committing'
    BY <1>2, <1>3, <1>6, <2>1, <2>3, <2>4 DEF Committing
  <2> QED
    BY <1>5, <1>7, <2>1, <2>5
<1>8. ASSUME conf.at \in {"adding", "comp"}, pc[Main] = "idle", ret[Main]
      PROVE  made \subseteq accepted.keys
  BY <1>1, <1>8 DEF Committing, Offering
<1>9. CASE /\ conf.at = "adding" /\ pc[Main] = "idle" /\ ret[Main]
           /\ Offer(Main, <<Object(PartKey)>>) /\ conf' = [conf EXCEPT !.at = "comp"]
  <2>1. <<Object(PartKey)>> \in Seq(Item) /\ <<Object(PartKey)>> # <<>>
    BY <1>4, OneItem
  <2>2. WInv' /\ UNCHANGED <<w, accepted>>
    BY <1>1, <1>4, <1>9, <2>1, OfferW
  <2>3. conf'.at = "comp"
    BY <1>1, <1>9 DEF Confs
  <2>4. Committing'
    BY <1>2, <1>3, <1>6, <1>8, <1>9, <2>2, <2>3 DEF Committing
  <2> QED
    BY <1>5, <1>9, <2>2, <2>4
<1>10. CASE /\ conf.at = "comp" /\ pc[Main] = "idle" /\ ret[Main]
            /\ Close(Main) /\ conf' = [conf EXCEPT !.at = "closing"]
  <2>1. WInv' /\ pc'[Main] = "lock" /\ w'.backend = w.backend /\ UNCHANGED accepted
    BY <1>1, <1>4, <1>10, CloseW
  <2>2. conf'.at = "closing" /\ ClosingUp(Main)'
    BY <1>1, <1>10, <2>1 DEF Confs, ClosingUp
  <2>3. Committing'
    BY <1>2, <1>3, <1>6, <1>8, <1>10, <2>1, <2>2 DEF Committing
  <2> QED
    BY <1>5, <1>10, <2>1, <2>3
<1>11. CASE Abort(Main) /\ conf' = [conf EXCEPT !.at = "aborting"]
  <2>1. WInv'
    BY <1>1, <1>4, <1>11, CloseW
  <2>2. conf'.at = "aborting"
    BY <1>1, <1>11 DEF Confs
  <2>3. Committing'
    BY <1>6, <2>2 DEF Committing
  <2> QED
    BY <1>5, <1>11, <2>1, <2>3
<1> QED
  BY <1>7, <1>9, <1>10, <1>11 DEF Commit

(***************************************************************************)
(* The live writer has returned.                                           *)
(***************************************************************************)
LEMMA CommittedS ==
  ASSUME StageInv, Committed
  PROVE  StageInv'
<1>1. /\ WInv /\ StageTypeOK /\ Turns /\ Committing /\ conf.at \in {"aborting", "closing"} /\ conf \in Confs
      /\ pack \in PackFiles /\ pc[Main] = "idle"
  BY DEF StageInv, StageTypeOK, Committed, WInv, BackendOK
<1>2. /\ UNCHANGED <<pipe, gone, stager, recipe, made, rejected>>
      /\ UNCHANGED <<w, ch, pc, todo, ret, work, bfail, objects, stats, accepted>>
      /\ conf' = [conf EXCEPT !.at = "returned"] /\ pack' = [pack EXCEPT !.open = FALSE]
  BY DEF Committed, streamVars, clientVars
<1>3. stager.at = "done" /\ stager.err = Nil /\ conf.cerr = Nil
  BY <1>1 DEF Turns
<1>4. /\ conf' \in Confs /\ conf'.at = "returned" /\ conf'.n = conf.n /\ conf'.cerr = conf.cerr
      /\ pack' \in PackFiles /\ pack'.records = pack.records /\ pack'.skipped = pack.skipped
  BY <1>1, <1>2 DEF Confs, PackFiles
<1>5. WInv'
  <2>1. ClientsOK' /\ w' \in Writers
    BY <1>1, <1>2 DEF WInv, ClientsOK, BackendOK
  <2> QED
    BY <1>1, <1>2, <1>4, <2>1, QuietStep
<1>6. /\ outcome' \in Outcomes /\ outcome' # "raw-decompose"
      /\ outcome' = "prism" => conf.at = "closing" /\ ret[Main]
  BY DEF Committed, FinalOf, Outcomes
<1>7. conf.at = "closing" /\ ret[Main] => w.backend = "live" /\ w.rerr = "ok" /\ made \subseteq accepted.keys
  BY <1>1 DEF Committing, ClosingUp
<1>8. Committing'
  BY <1>2, <1>3, <1>4, <1>6, <1>7 DEF Committing
<1> QED
  BY <1>1, <1>2, <1>3, <1>4, <1>5, <1>6, <1>8, CommitFrame

(***************************************************************************)
(* The client goes away; the Writer goes on by itself.                     *)
(***************************************************************************)
LEMMA RequestGoneS ==
  ASSUME StageInv, RequestGone
  PROVE  StageInv'
<1> USE DEF StageInv
<1>1. /\ w' = Cancelled("context") /\ gone' = TRUE /\ UNCHANGED <<ch, clientVars, backendVars, accepted>>
      /\ UNCHANGED <<pipe, conf, stager, recipe, outcome, made, rejected>> /\ "context" \in Error
  BY DEF RequestGone, Error
<1>2. WInv' /\ w'.backend = w.backend /\ w'.rerr = w.rerr
  BY <1>1, CancelW
<1>3. UNCHANGED <<pc, todo, ret, pack, accepted>>
  BY <1>1 DEF clientVars, backendVars
<1>4. StageTypeOK' /\ Turns' /\ InOrder' /\ Blamed'
  BY <1>1 DEF StageTypeOK, Turns, InOrder, Blamed
<1>5. MadeKept'
  BY <1>1, <1>3 DEF MadeKept, Offering
<1>6. Staging' /\ Committing'
  BY <1>1, <1>2, <1>3 DEF Staging, Committing, ClosingUp, Offering, PackKeys
<1> QED
  BY <1>2, <1>4, <1>5, <1>6

(***************************************************************************)
(* A step of the Writer itself.                                            *)
(***************************************************************************)
LEMMA WriterStepS ==
  ASSUME StageInv, WriterStep, UNCHANGED stageVars
  PROVE  StageInv'
<1> USE DEF StageInv
<1>1. WInv' /\ Advance
  BY WriterStepW
<1>2. UNCHANGED <<pipe, gone, conf, stager, recipe, outcome, made, rejected>>
  BY DEF stageVars
<1>3. /\ w'.backend = w.backend /\ (w.rerr = "ok" => w'.rerr = "ok") /\ accepted.keys \subseteq accepted'.keys
      /\ w.backend = "live" => PackKeys' = PackKeys
  BY <1>1, WriterAssumption DEF Advance, PackKeys
<1>4. /\ \A k : (Offering(Main, k) => Offering(Main, k)') /\ (Offering(Recipe, k) => Offering(Recipe, k)')
      /\ ClosingUp(Main) => ClosingUp(Main)'
  BY <1>1, StageAssumption, CallsGoOn
<1>5. StageTypeOK' /\ Turns' /\ InOrder' /\ Blamed'
  BY <1>2 DEF StageTypeOK, Turns, InOrder, Blamed
<1>6. MadeKept'
  <2> SUFFICES ASSUME stager.at \notin {"start", "done"}, stager.err = Nil, NEW k \in made
               PROVE  \/ k \in accepted'.keys
                      \/ stager.at \in {"blobbed", "indexed"} /\ Offering(Main, k)'
                      \/ recipe \in {"putting", "ending"} /\ Offering(Recipe, k)'
                      \/ recipe = "failed"
    BY <1>2 DEF MadeKept
  <2>1. \/ k \in accepted.keys
        \/ stager.at \in {"blobbed", "indexed"} /\ Offering(Main, k)
        \/ recipe \in {"putting", "ending"} /\ Offering(Recipe, k)
        \/ recipe = "failed"
    BY DEF MadeKept
  <2> QED
    BY <1>3, <1>4, <2>1
<1>7. Staging'
  BY <1>2, <1>3, <1>4 DEF Staging
<1>8. Committing'
  BY <1>2, <1>3, <1>4 DEF Committing
<1> QED
  BY <1>1, <1>5, <1>6, <1>7, <1>8

(***************************************************************************)
(* At the start nothing has been made.                                     *)
(***************************************************************************)
LEMMA InitS ==
  ASSUME StageInit
  PROVE  StageInv
<1>1. WInv
  <2>1. ClientsOK
    <3>1. <<>> \in Seq(Item)
      OBVIOUS
    <3> QED
      BY <3>1 DEF StageInit, ClientsOK, Places
  <2>2. w \in Writers /\ w.backend = "pack" /\ w.rerr = Nil /\ ~w.done
    BY DEF StageInit, NewWriter, Writers
  <2>3. pack \in PackFiles
    BY DEF StageInit, NewPack, PackFiles
  <2>4. /\ stats \in Counters /\ stats.logical = 0 /\ stats.stored = 0 /\ stats.deduped = 0 /\ stats.seen = {}
        /\ accepted \in [n : Nat, keys : SUBSET Key] /\ accepted.n = 0 /\ accepted.keys = {}
    BY DEF StageInit, NewStats, Counters
  <2>5. ch = <<>> /\ ch \in Seq(Item) /\ Len(ch) = 0 /\ bfail = Nil /\ objects \subseteq Key /\ work = Idle("pack")
    BY WriterAssumption DEF StageInit
  <2>6. /\ work \in [Encoder -> Item \cup {Nil, Gone}]
        /\ \A x \in Encoder : work[x] \notin Item
        /\ \A x \in Encoder : work[x] # Gone
    BY <2>5, IdleW
  <2>7. Hand = {} /\ Cardinality(Hand) = 0
    BY <2>6, FS_EmptySet DEF Hand
  <2>8. BackendOK
    BY <2>2, <2>3, <2>4, <2>5, <2>6 DEF BackendOK
  <2>9. Counted /\ Kept
    BY <2>4, <2>5, <2>7 DEF Counted, Kept
  <2>10. Seen /\ Leaves /\ Returned
    BY <2>2, <2>4, <2>6, WriterAssumption DEF Seen, Leaves, Returned
  <2> QED
    BY <2>1, <2>8, <2>9, <2>10 DEF WInv
<1>2. /\ pipe \in Pipes /\ Len(pipe.q) = 0 /\ ~pipe.ended
      /\ conf \in Confs /\ conf.at = "start" /\ conf.n = 0 /\ conf.cerr = Nil
      /\ stager \in Stagers /\ stager.at = "start" /\ stager.n = 0 /\ stager.err = Nil
  BY StageAssumption DEF StageInit, P!NewPipe, Pipes, Confs, Stagers
<1>3. /\ recipe = "start" /\ outcome = Nil /\ made = {} /\ gone = FALSE /\ rejected = FALSE
      /\ Nil \notin {"prism", "raw-decompose", "tar", "decompose"}
  BY StageAssumption DEF StageInit
<1>4. StageTypeOK /\ Turns
  BY <1>2, <1>3 DEF StageTypeOK, Turns
<1>5. InOrder /\ Blamed
  BY <1>2, <1>3 DEF InOrder, Blamed
<1>6. MadeKept /\ Staging /\ Committing
  BY <1>2, <1>3 DEF MadeKept, Staging, Committing
<1> QED
  BY <1>1, <1>4, <1>5, <1>6 DEF StageInv

(***************************************************************************)
(* Every step of finalizePrism.                                            *)
(***************************************************************************)
LEMMA NextS ==
  ASSUME StageInv, [StageNext]_prismVars
  PROVE  StageInv'
<1>1. CASE StagerStep
  BY <1>1, StagerReadS, RecipeWriteS, StagerPutS, DrainS, StagerFinishS, StagerEndsS DEF StagerStep
<1>2. CASE ConfirmStep
  BY <1>2, StartConfirmS, ConfirmWriteS, ConfirmEndsS, CollectS, CommitS, CommittedS DEF ConfirmStep
<1>3. CASE RecipeStep
  BY <1>3, RecipePutS, RecipePutDoneS DEF RecipeStep
<1>4. CASE RequestGone
  BY <1>4, RequestGoneS
<1>5. CASE WriterStep /\ UNCHANGED stageVars
  BY <1>5, WriterStepS
<1>6. CASE UNCHANGED prismVars
  <2>1. UNCHANGED writerVars /\ UNCHANGED <<pipe, gone, conf, stager, recipe, outcome, made, rejected>>
    BY <1>6 DEF prismVars, stageVars
  <2>2. WInv' /\ UNCHANGED <<w, pc, todo, ret, pack, accepted>>
    BY <2>1, StillW DEF StageInv
  <2>3. StageTypeOK' /\ Turns' /\ InOrder' /\ Blamed'
    BY <2>1 DEF StageInv, StageTypeOK, Turns, InOrder, Blamed
  <2>4. MadeKept' /\ Staging' /\ Committing'
    BY <2>1, <2>2 DEF StageInv, MadeKept, Staging, Committing, ClosingUp, Offering, PackKeys
  <2> QED
    BY <2>2, <2>3, <2>4 DEF StageInv
<1> QED
  BY <1>1, <1>2, <1>3, <1>4, <1>5, <1>6 DEF StageNext

-----------------------------------------------------------------------------
(***************************************************************************)
(* finalizePrism for a stream of any length: what was made is accepted,    *)
(* being offered or given up with an error; a pack that was closed holds   *)
(* all of it; the live writer is offered all of the pack.                  *)
(***************************************************************************)
THEOREM StageInvariant == StageSpec => []StageInv
<1>1. StageInit => StageInv
  BY InitS
<1>2. StageInv /\ [StageNext]_prismVars => StageInv'
  BY NextS
<1> QED
  BY <1>1, <1>2, PTL DEF StageSpec

(***************************************************************************)
(* What finalizePrism (src/blob/prism.go) reports is right: a prism was    *)
(* staged from the whole of a confirmed stream and all of its parts are in *)
(* the store, and only tar-prism's rejection makes it fall back to raw as  *)
(* decompose-failed.                                                       *)
(***************************************************************************)
THEOREM OutcomeIsRightHolds == StageSpec => []OutcomeIsRight
<1>1. StageInv => OutcomeIsRight
  <2> SUFFICES ASSUME StageInv PROVE OutcomeIsRight
    OBVIOUS
  <2>1. ASSUME outcome = "prism" PROVE conf.cerr = Nil /\ stager.n = Chunks /\ made \subseteq objects
    <3>1. /\ w.backend = "live" /\ w.rerr = "ok" /\ made \subseteq accepted.keys
          /\ conf.cerr = Nil /\ stager.at = "done" /\ stager.err = Nil
      BY <2>1 DEF StageInv, Committing
    <3>2. accepted.keys \subseteq Settled
      BY <3>1, ClosedW DEF StageInv
    <3>3. stats.seen \subseteq objects
      BY DEF StageInv, WInv, Seen
    <3>4. stager.n = Chunks
      BY <3>1 DEF StageInv, InOrder
    <3> QED
      BY <3>1, <3>2, <3>3, <3>4 DEF Settled
  <2>2. outcome = "raw-decompose" => rejected
    BY DEF StageInv, Blamed
  <2> QED
    BY <2>1, <2>2 DEF OutcomeIsRight, PrismIsWhole, OnlyRejectionGoesRaw
<1> QED
  BY <1>1, StageInvariant, PTL

-----------------------------------------------------------------------------
(***************************************************************************)
(* Blob.WriteTo for content of any length, a pipe of any size and any      *)
(* number of faults: the result is true.                                   *)
(*                                                                         *)
(* The three goroutines meet in the pipe, so the invariant says who may    *)
(* have closed it: its reading end only the watcher of a client that left, *)
(* or WriteTo once Recompress has ended; its writing end only the composer *)
(* with its own error.  A failed read in Recompress is then the composer's *)
(* store error or a client that left, never a pipe closed for another      *)
(* reason.                                                                 *)
(***************************************************************************)
PullChunks == 0..Parts
ComposerErrors == {"nil", "store", "closedpipe"}
Tubes == [q : Seq(PullChunks), ended : BOOLEAN, werr : ComposerErrors, rclosed : BOOLEAN]
Composers == [at : {"off", "compose", "close", "done"}, n : 0..Parts, err : ComposerErrors]
Pulls ==
  [kind : {"raw", "prism"}, at : {"open", "copy", "recompress", "stop", "collect", "returned"},
   n : Nat, rerr : {"nil", "context", "sink", "content", "read"}, whole : BOOLEAN]

PullTypeOK ==
  /\ tube \in Tubes /\ Len(tube.q) <= TubeSlots
  /\ composer \in Composers
  /\ pull \in Pulls
  /\ watcher \in {"off", "watch", "gone"}
  /\ client \in {"here", "gone"}
  /\ out \in Seq(Int)
  /\ pulled \in {"none", "ok", "mismatch", "failed", "cancelled", "compose", "recompress"}
  /\ pfaults \in Nat

\* The composer runs for a prism that has been opened.
ComposerServesPrism ==
  /\ pull.at = "open" => composer.at = "off"
  /\ composer.at \in {"compose", "close"} => pull.kind = "prism"

\* Who closes the pipe: the composer its own end, with its error; the other end only for a
\* client that left or when Recompress has ended.
PipeClosedByOwner ==
  /\ tube.ended <=> composer.at = "done" /\ pull.kind = "prism"
  /\ tube.ended => tube.werr = composer.err
  /\ tube.rclosed => client = "gone" \/ pull.at \in {"collect", "returned"}

\* Why the composer failed: the store, or a pipe that its reader had closed.
ComposerErrorHasCause ==
  /\ composer.at \in {"off", "compose"} => composer.err = "nil"
  /\ composer.err = "closedpipe" => tube.rclosed

\* Why Recompress failed.
RecompressErrorHasCause ==
  /\ pull.rerr = "context" => client = "gone"
  /\ pull.rerr = "read" => client = "gone" \/ (composer.err = "store" /\ composer.at = "done")

\* A result is WriteTo's last word.
ReturnedIsFinal ==
  /\ pulled # "none" => pull.at = "returned"
  /\ pulled \in {"compose", "recompress"} => composer.at = "done"

PullInv ==
  /\ PullTypeOK /\ ComposerServesPrism /\ PipeClosedByOwner /\ ComposerErrorHasCause
  /\ RecompressErrorHasCause /\ ReturnedIsFinal /\ PullIsHonest

-----------------------------------------------------------------------------
(***************************************************************************)
(* The invariant holds when a pull starts.                                 *)
(***************************************************************************)
LEMMA PullInitInv == PullInit => PullInv
<1> SUFFICES ASSUME PullInit PROVE PullInv
  OBVIOUS
<1>1. tube = [q |-> <<>>, ended |-> FALSE, werr |-> "nil", rclosed |-> FALSE]
  BY DEF PullInit, T!NewPipe
<1>2. PullTypeOK
  BY <1>1, PullAssumption
  DEF PullInit, PullTypeOK, Tubes, Composers, Pulls, ComposerErrors, PullChunks
<1>3. ComposerServesPrism /\ PipeClosedByOwner /\ ComposerErrorHasCause /\ RecompressErrorHasCause /\ ReturnedIsFinal
  BY <1>1 DEF PullInit, ComposerServesPrism, PipeClosedByOwner, ComposerErrorHasCause, RecompressErrorHasCause, ReturnedIsFinal
<1>4. PullIsHonest
  BY DEF PullInit, PullIsHonest, PullIsWhole, BlameIsRight
<1> QED
  BY <1>2, <1>3, <1>4 DEF PullInv

(***************************************************************************)
(* A fault is counted down to zero and no further.                         *)
(***************************************************************************)
LEMMA PullFaultOK ==
  ASSUME pfaults \in Nat, PullFault \/ UNCHANGED pfaults
  PROVE  pfaults' \in Nat
BY DEF PullFault

(***************************************************************************)
(* Opening a pull starts the goroutines, or returns before there are any.  *)
(***************************************************************************)
LEMMA OpenPullInv ==
  ASSUME PullInv, OpenPull
  PROVE  PullInv'
<1>1. PullTypeOK /\ pull.at = "open" /\ composer.at = "off" /\ pulled = "none" /\ UNCHANGED <<tube, client, out>>
  BY DEF PullInv, OpenPull, ComposerServesPrism, ReturnedIsFinal
<1>2. CASE /\ pull' = [pull EXCEPT !.at = IF pull.kind = "raw" THEN "copy" ELSE "recompress"]
           /\ composer' = [composer EXCEPT !.at = IF pull.kind = "raw" THEN "done" ELSE "compose"]
           /\ watcher' = (IF pull.kind = "raw" THEN "gone" ELSE "watch")
           /\ UNCHANGED <<pulled, pfaults>>
  <2>1. /\ pull' \in Pulls /\ pull'.kind = pull.kind /\ pull'.rerr = pull.rerr
        /\ pull'.at = IF pull.kind = "raw" THEN "copy" ELSE "recompress"
    BY <1>1, <1>2 DEF PullTypeOK, Pulls
  <2>2. /\ composer' \in Composers /\ composer'.err = composer.err
        /\ composer'.at = IF pull.kind = "raw" THEN "done" ELSE "compose"
    BY <1>1, <1>2 DEF PullTypeOK, Composers
  <2>3. PullTypeOK'
    BY <1>1, <1>2, <2>1, <2>2 DEF PullTypeOK
  <2>4. (ComposerServesPrism /\ PipeClosedByOwner /\ ComposerErrorHasCause /\ RecompressErrorHasCause /\ ReturnedIsFinal)'
    BY <1>1, <1>2, <2>1, <2>2, <2>3
    DEF PullInv, PullTypeOK, Pulls, ComposerServesPrism, PipeClosedByOwner, ComposerErrorHasCause, RecompressErrorHasCause, ReturnedIsFinal
  <2>5. PullIsHonest'
    BY <1>1, <1>2 DEF PullIsHonest, PullIsWhole, BlameIsRight
  <2> QED
    BY <2>3, <2>4, <2>5 DEF PullInv
<1>3. CASE PullFault /\ Ends("failed") /\ UNCHANGED <<composer, watcher>>
  <2>1. pull' \in Pulls /\ pull'.kind = pull.kind /\ pull'.rerr = pull.rerr /\ pull'.at = "returned" /\ pulled' = "failed"
    BY <1>1, <1>3 DEF PullTypeOK, Pulls, Ends
  <2>2. PullTypeOK'
    BY <1>1, <1>3, <2>1, PullFaultOK DEF PullTypeOK
  <2>3. (ComposerServesPrism /\ PipeClosedByOwner /\ ComposerErrorHasCause /\ RecompressErrorHasCause /\ ReturnedIsFinal)'
    BY <1>1, <1>3, <2>1 DEF PullInv, ComposerServesPrism, PipeClosedByOwner, ComposerErrorHasCause, RecompressErrorHasCause, ReturnedIsFinal
  <2>4. PullIsHonest'
    BY <2>1 DEF PullIsHonest, PullIsWhole, BlameIsRight
  <2> QED
    BY <2>2, <2>3, <2>4 DEF PullInv
<1> QED
  BY <1>2, <1>3 DEF OpenPull

(***************************************************************************)
(* WriteTo returning with a result keeps the invariant when the result is  *)
(* true.                                                                   *)
(***************************************************************************)
LEMMA ReturnInv ==
  ASSUME PullInv, NEW r \in {"ok", "mismatch", "failed", "cancelled", "compose", "recompress"}, Ends(r),
         pull.at \in {"copy", "collect"},
         UNCHANGED <<tube, composer, watcher, client, out>>, PullFault \/ UNCHANGED pfaults,
         r = "ok" => out = Content,
         r = "compose" => composer.err = "store" /\ client = "here" /\ composer.at = "done",
         r = "recompress" => pull.rerr \in {"sink", "content"} /\ client = "here" /\ composer.at = "done"
  PROVE  PullInv'
<1>1. /\ pull' \in Pulls /\ pull'.kind = pull.kind /\ pull'.rerr = pull.rerr /\ pull'.at = "returned"
      /\ pulled' = r
  BY DEF PullInv, PullTypeOK, Pulls, Ends
<1>2. PullTypeOK'
  BY <1>1, PullFaultOK DEF PullInv, PullTypeOK
<1>3. (ComposerServesPrism /\ PipeClosedByOwner /\ ComposerErrorHasCause /\ RecompressErrorHasCause /\ ReturnedIsFinal)'
  BY <1>1 DEF PullInv, ComposerServesPrism, PipeClosedByOwner, ComposerErrorHasCause, RecompressErrorHasCause, ReturnedIsFinal
<1>4. PullIsHonest'
  BY <1>1 DEF PullIsHonest, PullIsWhole, BlameIsRight, Content
<1> QED
  BY <1>2, <1>3, <1>4 DEF PullInv

(***************************************************************************)
(* The hash of what went out tells success from damage.                    *)
(***************************************************************************)
LEMMA VerifiedOK == Verified \in {"ok", "mismatch"} /\ (Verified = "ok" => out = Content)
BY DEF Verified

(***************************************************************************)
(* A raw copy goes on, breaks off or is verified.                          *)
(***************************************************************************)
LEMMA CopyRawInv ==
  ASSUME PullInv, CopyRaw
  PROVE  PullInv'
<1>1. pull.at = "copy" /\ UNCHANGED <<tube, composer, watcher, client>>
  BY DEF CopyRaw
<1>2. CASE \E r \in {"cancelled", "failed", Verified} : Ends(r) /\ UNCHANGED out /\ (PullFault \/ UNCHANGED pfaults)
  BY <1>1, <1>2, ReturnInv, VerifiedOK
<1>3. CASE /\ pull' = [pull EXCEPT !.n = @ + 1]
           /\ \/ out' = Append(out, pull.n + 1) /\ UNCHANGED pfaults
              \/ out' = Append(out, 0) /\ PullFault
           /\ UNCHANGED pulled
  <2>1. pull' \in Pulls /\ pull'.kind = pull.kind /\ pull'.rerr = pull.rerr /\ pull'.at = pull.at /\ pull.n \in Nat
    <3>1. pull \in Pulls /\ pull' = [pull EXCEPT !.n = @ + 1]
      BY <1>3 DEF PullInv, PullTypeOK
    <3> QED
      BY <3>1 DEF Pulls
  <2>2. out' \in Seq(Int)
    <3>1. PICK e \in Int : out' = Append(out, e)
      BY <1>3, <2>1
    <3> QED
      BY <3>1, AppendProperties DEF PullInv, PullTypeOK
  <2>3. PullTypeOK'
    BY <1>1, <1>3, <2>1, <2>2, PullFaultOK DEF PullInv, PullTypeOK
  <2>4. (ComposerServesPrism /\ PipeClosedByOwner /\ ComposerErrorHasCause /\ RecompressErrorHasCause /\ ReturnedIsFinal)'
    BY <1>1, <1>3, <2>1 DEF PullInv, ComposerServesPrism, PipeClosedByOwner, ComposerErrorHasCause, RecompressErrorHasCause, ReturnedIsFinal
  <2>5. pulled = "none" /\ PullIsHonest'
    BY <1>1, <1>3 DEF PullInv, ReturnedIsFinal, PullIsHonest, PullIsWhole, BlameIsRight
  <2> QED
    BY <2>3, <2>4, <2>5 DEF PullInv
<1> QED
  BY <1>2, <1>3 DEF CopyRaw

-----------------------------------------------------------------------------
(***************************************************************************)
(* What the composer does to the pipe and to itself: a chunk more in the   *)
(* pipe, or an error that has a cause.                                     *)
(***************************************************************************)
LEMMA ComposeMove ==
  ASSUME PullInv, Compose
  PROVE  /\ composer' \in Composers /\ composer'.at \in {"compose", "close"}
         /\ tube' \in Tubes /\ Len(tube'.q) <= TubeSlots
         /\ tube'.ended = tube.ended /\ tube'.werr = tube.werr /\ tube'.rclosed = tube.rclosed
         /\ composer'.at = "compose" => composer'.err = "nil"
         /\ composer'.err = "closedpipe" => tube.rclosed
         /\ pfaults' \in Nat
<1>1. composer \in Composers /\ composer.at = "compose" /\ composer.err = "nil" /\ tube \in Tubes /\ Len(tube.q) <= TubeSlots
  BY DEF PullInv, PullTypeOK, ComposerErrorHasCause, Compose
<1>2. pfaults' \in Nat
  BY PullFaultOK DEF PullInv, PullTypeOK, Compose
<1>3. ASSUME NEW x \in PullChunks, T!Write(x), composer.n < Parts, composer' = [composer EXCEPT !.n = @ + 1]
      PROVE  /\ composer' \in Composers /\ composer'.at = "compose" /\ composer'.err = "nil"
             /\ tube' \in Tubes /\ Len(tube'.q) <= TubeSlots
             /\ tube'.ended = tube.ended /\ tube'.werr = tube.werr /\ tube'.rclosed = tube.rclosed
  <2>1. composer' \in Composers /\ composer'.at = "compose" /\ composer'.err = "nil"
    BY <1>1, <1>3, PullAssumption DEF Composers
  <2>2. tube.q \in Seq(PullChunks) /\ Len(tube.q) < TubeSlots /\ tube' = [tube EXCEPT !.q = Append(@, x)]
    BY <1>1, <1>3 DEF Tubes, T!Write
  <2>3. Append(tube.q, x) \in Seq(PullChunks) /\ Len(Append(tube.q, x)) = Len(tube.q) + 1 /\ Len(tube.q) \in Nat
    BY <2>2, AppendProperties, LenProperties
  <2>4. Len(Append(tube.q, x)) <= TubeSlots
    BY <2>2, <2>3, PullAssumption
  <2> QED
    BY <1>1, <2>1, <2>2, <2>3, <2>4 DEF Tubes
<1>4. CASE /\ composer.n < Parts /\ T!WriteRefused
           /\ composer' = [composer EXCEPT !.at = "close", !.err = "closedpipe"]
  BY <1>1, <1>2, <1>4 DEF T!WriteRefused, Composers, ComposerErrors
<1>5. CASE composer' = [composer EXCEPT !.at = "close", !.err = "store"] /\ UNCHANGED tube
  BY <1>1, <1>2, <1>5 DEF Composers, ComposerErrors
<1>6. CASE composer' = [composer EXCEPT !.at = "close"] /\ UNCHANGED tube
  BY <1>1, <1>2, <1>6 DEF Composers
<1>7. ASSUME composer.n < Parts
      PROVE  composer.n + 1 \in PullChunks /\ 0 \in PullChunks
  BY <1>1, <1>7, PullAssumption DEF Composers, PullChunks
<1>8. CASE composer.n < Parts /\ (T!Write(composer.n + 1) \/ T!Write(0)) /\ composer' = [composer EXCEPT !.n = @ + 1]
  BY <1>1, <1>2, <1>3, <1>7, <1>8
<1> QED
  BY <1>4, <1>5, <1>6, <1>8 DEF Compose

(***************************************************************************)
(* A step of the composer keeps the invariant: it has not closed its end   *)
(* yet.                                                                    *)
(***************************************************************************)
LEMMA ComposeInv ==
  ASSUME PullInv, Compose
  PROVE  PullInv'
<1>1. /\ composer' \in Composers /\ composer'.at \in {"compose", "close"}
      /\ tube' \in Tubes /\ Len(tube'.q) <= TubeSlots
      /\ tube'.ended = tube.ended /\ tube'.werr = tube.werr /\ tube'.rclosed = tube.rclosed
      /\ composer'.at = "compose" => composer'.err = "nil"
      /\ composer'.err = "closedpipe" => tube.rclosed
      /\ pfaults' \in Nat
  BY ComposeMove
<1>2. composer.at = "compose" /\ UNCHANGED <<pull, watcher, client, out, pulled>>
  BY DEF Compose
<1>3. PullTypeOK'
  BY <1>1, <1>2 DEF PullInv, PullTypeOK
<1>4. (ComposerServesPrism /\ PipeClosedByOwner /\ ComposerErrorHasCause /\ RecompressErrorHasCause /\ ReturnedIsFinal)'
  BY <1>1, <1>2 DEF PullInv, ComposerServesPrism, PipeClosedByOwner, ComposerErrorHasCause, RecompressErrorHasCause, ReturnedIsFinal
<1>5. PullIsHonest'
  BY <1>2 DEF PullInv, ReturnedIsFinal, PullIsHonest, PullIsWhole, BlameIsRight
<1> QED
  BY <1>3, <1>4, <1>5 DEF PullInv

(***************************************************************************)
(* The composer closes its end with its own error.                         *)
(***************************************************************************)
LEMMA ComposeClosesInv ==
  ASSUME PullInv, ComposeCloses
  PROVE  PullInv'
<1>1. /\ composer \in Composers /\ composer.at = "close" /\ tube \in Tubes /\ Len(tube.q) <= TubeSlots
      /\ UNCHANGED <<pull, watcher, client, out, pulled, pfaults>>
  BY DEF PullInv, PullTypeOK, ComposeCloses
<1>2. tube' = [tube EXCEPT !.ended = TRUE, !.werr = composer.err] /\ composer' = [composer EXCEPT !.at = "done"]
  BY DEF ComposeCloses, T!CloseWrite
<1>3. composer' \in Composers /\ composer'.at = "done" /\ composer'.err = composer.err
  BY <1>1, <1>2 DEF Composers
<1>4. /\ tube' \in Tubes /\ tube'.q = tube.q /\ tube'.ended /\ tube'.werr = composer.err
      /\ tube'.rclosed = tube.rclosed
  BY <1>1, <1>2 DEF Tubes, Composers
<1>5. PullTypeOK'
  BY <1>1, <1>3, <1>4 DEF PullInv, PullTypeOK
<1>6. (ComposerServesPrism /\ PipeClosedByOwner /\ ComposerErrorHasCause /\ RecompressErrorHasCause /\ ReturnedIsFinal)'
  BY <1>1, <1>3, <1>4 DEF PullInv, ComposerServesPrism, PipeClosedByOwner, ComposerErrorHasCause, RecompressErrorHasCause, ReturnedIsFinal
<1>7. PullIsHonest'
  BY <1>1, <1>3 DEF PullInv, PullIsHonest, PullIsWhole, BlameIsRight
<1> QED
  BY <1>5, <1>6, <1>7 DEF PullInv

(***************************************************************************)
(* Closing the reading end for a client that left, or after Recompress has *)
(* ended, keeps the invariant; so does a watcher or a client that goes.    *)
(***************************************************************************)
LEMMA CloseReadInv ==
  ASSUME PullInv, UNCHANGED <<composer, out, pulled, pfaults>>,
         watcher' \in {"off", "watch", "gone"}, client' = client \/ client' = "gone",
         pull' = pull \/ (pull.at = "stop" /\ pull' = [pull EXCEPT !.at = "collect"]),
         tube' = tube \/ (T!CloseRead /\ (client' = "gone" \/ pull'.at \in {"collect", "returned"})),
         client' = client \/ pull.at # "returned"
  PROVE  PullInv'
<1>1. tube \in Tubes /\ pull \in Pulls
  BY DEF PullInv, PullTypeOK
<1>2. tube' \in Tubes /\ tube'.q = tube.q /\ tube'.ended = tube.ended /\ tube'.werr = tube.werr
      /\ (tube'.rclosed => tube.rclosed \/ client' = "gone" \/ pull'.at \in {"collect", "returned"})
      /\ (tube.rclosed => tube'.rclosed)
  BY <1>1 DEF T!CloseRead, Tubes
<1>3. pull' \in Pulls /\ pull'.kind = pull.kind /\ pull'.rerr = pull.rerr
      /\ (pull'.at = pull.at \/ (pull.at = "stop" /\ pull'.at = "collect"))
  BY <1>1 DEF Pulls
<1>4. PullTypeOK'
  BY <1>2, <1>3 DEF PullInv, PullTypeOK
<1>5. (ComposerServesPrism /\ PipeClosedByOwner /\ ComposerErrorHasCause /\ RecompressErrorHasCause /\ ReturnedIsFinal)'
  BY <1>2, <1>3 DEF PullInv, ComposerServesPrism, PipeClosedByOwner, ComposerErrorHasCause, RecompressErrorHasCause, ReturnedIsFinal
<1>6. PullIsHonest'
  BY <1>3 DEF PullInv, ReturnedIsFinal, PullIsHonest, PullIsWhole, BlameIsRight
<1> QED
  BY <1>4, <1>5, <1>6 DEF PullInv

(***************************************************************************)
(* Recompress reads and writes, or ends with an error that has a cause: a  *)
(* read fails only because the composer's store failed or the client left. *)
(***************************************************************************)
LEMMA RecompressInv ==
  ASSUME PullInv, Recompress
  PROVE  PullInv'
<1>1. pull.at = "recompress" /\ pulled = "none" /\ UNCHANGED <<composer, watcher, client, pulled>>
  BY DEF PullInv, ReturnedIsFinal, Recompress
<1>2. tube \in Tubes /\ Len(tube.q) <= TubeSlots /\ pull \in Pulls /\ out \in Seq(Int)
  BY DEF PullInv, PullTypeOK
<1>3. /\ tube' \in Tubes /\ Len(tube'.q) <= TubeSlots
      /\ tube'.ended = tube.ended /\ tube'.werr = tube.werr /\ tube'.rclosed = tube.rclosed
  <2>1. ASSUME NEW i \in PullChunks, T!Read(i)
        PROVE  <1>3
    <3>1. tube.q \in Seq(PullChunks) /\ tube.q # <<>> /\ tube' = [tube EXCEPT !.q = Tail(@)]
      BY <1>2, <2>1 DEF T!Read, Tubes
    <3>2. Tail(tube.q) \in Seq(PullChunks) /\ Len(Tail(tube.q)) <= Len(tube.q)
      BY <3>1
    <3>3. Len(Tail(tube.q)) <= TubeSlots
      BY <1>2, <3>1, <3>2, PullAssumption, LenProperties
    <3> QED
      BY <1>2, <3>1, <3>2, <3>3 DEF Tubes
  <2>2. CASE UNCHANGED tube
    BY <1>2, <2>2
  <2> QED
    BY <2>1, <2>2 DEF Recompress, PullChunks, T!ReadEnd, T!ReadRefused
<1>4. /\ pull' \in Pulls /\ pull'.kind = pull.kind /\ out' \in Seq(Int) /\ pfaults' \in Nat
      /\ \/ pull'.at = "recompress" /\ pull'.rerr = pull.rerr
         \/ pull'.at = "stop" /\ pull'.rerr \in {"nil", "sink", "content"}
         \/ pull'.at = "stop" /\ pull'.rerr = "context" /\ client = "gone"
         \/ pull'.at = "stop" /\ pull'.rerr = "read" /\ (client = "gone" \/ (composer.err = "store" /\ composer.at = "done"))
  <2>1. pfaults' \in Nat
    BY PullFaultOK DEF PullInv, PullTypeOK, Recompress
  <2>2. ASSUME NEW e \in {"nil", "context", "sink", "content", "read"}, RecompressEnds(e)
        PROVE  pull' \in Pulls /\ pull'.kind = pull.kind /\ pull'.at = "stop" /\ pull'.rerr = e
    BY <1>2, <2>2 DEF RecompressEnds, Pulls
  <2>3. ASSUME NEW i \in 0..Parts, pull' = [pull EXCEPT !.n = @ + 1, !.whole = @ /\ i # 0],
               out' = Append(out, i) \/ out' = Append(out, -i)
        PROVE  <1>4
    <3>1. pull' \in Pulls /\ pull'.kind = pull.kind /\ pull'.at = "recompress" /\ pull'.rerr = pull.rerr
      <4>1. pull.n + 1 \in Nat /\ (pull.whole /\ i # 0) \in BOOLEAN
        BY <1>2 DEF Pulls
      <4> QED
        BY <1>1, <1>2, <2>3, <4>1 DEF Pulls
    <3>2. out' \in Seq(Int)
      <4>1. i \in Int /\ -i \in Int
        BY PullAssumption
      <4>2. out \in Seq(Int)
        BY <1>2
      <4>3. Append(out, i) \in Seq(Int) /\ Append(out, -i) \in Seq(Int)
        <5> DEFINE j == -i
        <5>1. j \in Int
          BY <4>1
        <5> HIDE DEF j
        <5>2. Append(out, i) \in Seq(Int) /\ Append(out, j) \in Seq(Int)
          BY <4>1, <4>2, <5>1, AppendProperties
        <5> QED
          BY <5>2 DEF j
      <4> QED
        BY <2>3, <4>3
    <3> QED
      BY <2>1, <3>1, <3>2
  <2>4. CASE client # "here" /\ RecompressEnds("context") /\ UNCHANGED out
    BY <1>2, <2>1, <2>2, <2>4 DEF PullInv, PullTypeOK
  <2>5. CASE RecompressEnds("sink") /\ UNCHANGED out
    BY <1>2, <2>1, <2>2, <2>5
  <2>6. CASE \E e \in {"nil", "content"} : RecompressEnds(e) /\ UNCHANGED out
    BY <1>2, <2>1, <2>2, <2>6
  <2>7. CASE /\ T!ReadEnd("store") \/ T!ReadEnd("closedpipe") \/ T!ReadRefused
             /\ RecompressEnds("read") /\ UNCHANGED out
    <3>1. client = "gone" \/ (composer.err = "store" /\ composer.at = "done")
      BY <1>1, <2>7 DEF PullInv, PipeClosedByOwner, ComposerErrorHasCause, T!ReadEnd, T!ReadRefused
    <3> QED
      BY <1>2, <2>1, <2>2, <2>7, <3>1
  <2> QED
    BY <2>3, <2>4, <2>5, <2>6, <2>7 DEF Recompress
<1>5. PullTypeOK'
  BY <1>1, <1>3, <1>4 DEF PullInv, PullTypeOK
<1>6. (ComposerServesPrism /\ PipeClosedByOwner /\ ComposerErrorHasCause /\ RecompressErrorHasCause /\ ReturnedIsFinal)'
  BY <1>1, <1>3, <1>4 DEF PullInv, ComposerServesPrism, PipeClosedByOwner, ComposerErrorHasCause, RecompressErrorHasCause, ReturnedIsFinal
<1>7. PullIsHonest'
  BY <1>1 DEF PullIsHonest, PullIsWhole, BlameIsRight
<1> QED
  BY <1>5, <1>6, <1>7 DEF PullInv

(***************************************************************************)
(* Whoever is blamed is at fault.                                          *)
(***************************************************************************)
LEMMA CollectInv ==
  ASSUME PullInv, CollectComposer
  PROVE  PullInv'
<1>1. /\ pull.at = "collect" /\ composer.at = "done" /\ Ends(Blame)
      /\ UNCHANGED <<tube, composer, watcher, client, out, pfaults>>
  BY DEF CollectComposer
<1>2. /\ composer.err \in ComposerErrors /\ pull.rerr \in {"nil", "context", "sink", "content", "read"}
      /\ client \in {"here", "gone"}
  BY DEF PullInv, PullTypeOK, Composers, Pulls
<1>3. /\ Blame \in {"ok", "mismatch", "cancelled", "compose", "recompress"}
      /\ Blame = "ok" => out = Content
      /\ Blame = "compose" => composer.err = "store" /\ client = "here"
      /\ Blame = "recompress" => pull.rerr \in {"sink", "content"} /\ client = "here"
  <2>1. CASE (pull.rerr # "nil" \/ composer.err # "nil") /\ client # "here"
    BY <2>1 DEF Blame
  <2>2. CASE client = "here" /\ composer.err = "store"
    BY <2>2 DEF Blame
  <2>3. CASE client = "here" /\ composer.err # "store" /\ pull.rerr # "nil"
    BY <1>2, <2>3 DEF Blame, PullInv, RecompressErrorHasCause, ComposerErrors
  <2>4. CASE pull.rerr = "nil" /\ composer.err \in {"nil", "closedpipe"} /\ (client = "here" \/ composer.err = "nil")
    <3>1. Blame = Verified
      BY <2>4 DEF Blame
    <3> QED
      BY <3>1, VerifiedOK
  <2> QED
    BY <1>2, <2>1, <2>2, <2>3, <2>4 DEF ComposerErrors
<1> QED
  BY <1>1, <1>3, ReturnInv

-----------------------------------------------------------------------------
(***************************************************************************)
(* Every step of a pull keeps the invariant.                               *)
(***************************************************************************)
LEMMA PullNextInv == PullInv /\ [PullNext]_pullVars => PullInv'
<1> SUFFICES ASSUME PullInv, [PullNext]_pullVars PROVE PullInv'
  OBVIOUS
<1>0. watcher \in {"off", "watch", "gone"} /\ client \in {"here", "gone"} /\ pull \in Pulls
  BY DEF PullInv, PullTypeOK
<1>1. CASE Watch
  BY <1>0, <1>1, CloseReadInv DEF Watch
<1>2. CASE StopComposer
  <2>1. pull.at = "stop" /\ pull' = [pull EXCEPT !.at = "collect"] /\ pull'.at = "collect"
    BY <1>0, <1>2 DEF StopComposer, Pulls
  <2> QED
    BY <1>0, <1>2, <2>1, CloseReadInv DEF StopComposer
<1>3. CASE ClientGone
  BY <1>0, <1>3, CloseReadInv DEF ClientGone
<1>4. CASE UNCHANGED pullVars
  BY <1>0, <1>4, CloseReadInv DEF pullVars
<1> QED
  BY <1>1, <1>2, <1>3, <1>4, ComposeInv, ComposeClosesInv, OpenPullInv, CopyRawInv, RecompressInv, CollectInv
  DEF PullNext, ComposerStep, PullStep

(***************************************************************************)
(* The invariant holds throughout a pull, for content of any length and    *)
(* any number of faults.                                                   *)
(***************************************************************************)
THEOREM PullInvariant == PullSpec => []PullInv
BY PullInitInv, PullNextInv, PTL DEF PullSpec

(***************************************************************************)
(* WriteTo's result is true: success means the client got exactly the      *)
(* content, and an error names the goroutine that failed, never one whose  *)
(* pipe was closed under it, and nobody for a client that left.            *)
(***************************************************************************)
THEOREM PullIsHonestHolds == PullSpec => []PullIsHonest
<1>1. PullInv => PullIsHonest
  BY DEF PullInv
<1> QED
  BY <1>1, PullInvariant, PTL
=============================================================================
