--------------------------- MODULE CommandProofs ---------------------------
(***************************************************************************)
(* The commands that work beside others: docker save, with its stager, the *)
(* browser, with its loads, and docker load, with its pools of workers.    *)
(*                                                                         *)
(* A save, for any plan, any number of workers and any number of faults:   *)
(* the staged files are bounded and the outcome is told truthfully.  The   *)
(* writer takes blobs from the queue without looking at which they are, so *)
(* the archive is in order only because the queue always holds the next    *)
(* blobs, in order and without a gap, from the writer's entry on:          *)
(* QueueInOrder.  A staged file is bounded by the queue only because a     *)
(* worker is never still busy with a blob that the writer is done with:    *)
(* WorkIsQueued.                                                           *)
(*                                                                         *)
(* The browser, for any number of frames and failed loads: no screen waits *)
(* for a result that never comes.  That a screen whose link was followed   *)
(* is still served when the link leads nowhere needs FrameOK: a link is    *)
(* followed only from a frame that has been loaded, and no frame gets an   *)
(* id that a late message still carries.                                   *)
(*                                                                         *)
(* An import, for any plan, any number of workers and any number of        *)
(* faults: it tells the truth.  ImportInv follows every blob and every     *)
(* publication from its place in the list of work (its turn is to come, or *)
(* a worker has it, or the pool is broken by an error that is kept) to the *)
(* store: BlobsOK, ImagesOK. That the lists hold everything the plan asks   *)
(* for is InOrderIsSorted: sorting loses nothing.                          *)
(***************************************************************************)
EXTENDS Importer, DockerSave, Browser, OrderedProofs, SequenceTheorems

End == Len(SaveEntries) + 1
Errs == {"none", "fault", "cancel"}
Writing == {"entry", "wait"}

Writers == [pc : {"entry", "wait", "close", "closing", "flush", "done"}, at : 1..End, held : BlobIds \cup {0}, err : Errs]
Feeders == [pc : {"queue", "hand", "exit"}, i : BlobIds \cup {End}]
Builders == [pc : {"idle", "got", "build", "exit"}, blob : BlobIds \cup {0}]
StagedBlobs == [done : BOOLEAN, err : Errs, sized : BOOLEAN]

SaveTypeOK ==
  /\ writer \in Writers
  /\ feeder \in Feeders
  /\ queue \in Seq(BlobIds) /\ Len(queue) <= QueueCap
  /\ builders \in [SaveWorkers -> Builders]
  /\ staged \in [BlobIds -> StagedBlobs]
  /\ files \subseteq BlobIds
  /\ inner \in BOOLEAN /\ souter \in BOOLEAN
  /\ serr \in Errs
  /\ output \in {"partial", "whole", "removed"}
  /\ sfaults \in Nat

\* The writer's place in the archive, and the first blob it has still to take.
Wanted == IF writer.pc = "entry" THEN writer.at ELSE writer.at + 1

Queued(b) == \E k \in 1..Len(queue) : queue[k] = b

\* The queue rises without a gap from the blob the writer wants next to the feeder's.
QueueInOrder ==
  writer.pc \in Writing =>
    /\ \A k \in 1..Len(queue) : Wanted <= queue[k]
    /\ \A j, k \in 1..Len(queue) : j < k => queue[j] < queue[k]
    /\ \A k \in 1..Len(queue) : \A b \in BlobIds : Wanted <= b /\ b < queue[k] => Queued(b)
    /\ feeder.pc = "queue" => /\ Wanted <= feeder.i
                              /\ \A k \in 1..Len(queue) : queue[k] < feeder.i
                              /\ \A b \in BlobIds : Wanted <= b /\ b < feeder.i => Queued(b)
    /\ feeder.pc = "hand" => /\ \A k \in 1..Len(queue) : queue[k] <= feeder.i
                             /\ Wanted <= feeder.i + 1
                             /\ \A b \in BlobIds : Wanted <= b /\ b <= feeder.i => Queued(b)

Busy(w) == builders[w].pc \in {"got", "build"}

\* A blob that a worker has, or is about to get, or that has a file, waits in the queue or is held.
WorkIsQueued ==
  /\ feeder.pc = "hand" => feeder.i \in BlobIds /\ (Queued(feeder.i) \/ writer.held = feeder.i)
  /\ \A w \in SaveWorkers : Busy(w) => builders[w].blob \in BlobIds /\ (Queued(builders[w].blob) \/ writer.held = builders[w].blob)
  /\ \A b \in files : Queued(b) \/ writer.held = b
  /\ writer.pc \in {"flush", "done"} => files = {} /\ \A w \in SaveWorkers : builders[w].pc = "exit"

\* A blob is handed out once, in order, and done when its worker is through with it.
HandedOnce ==
  /\ \A w \in SaveWorkers : Busy(w) => ~staged[builders[w].blob].done
  /\ \A w \in SaveWorkers : Busy(w) /\ feeder.pc # "exit" => builders[w].blob < feeder.i
  /\ \A v, w \in SaveWorkers : Busy(v) /\ Busy(w) /\ v # w => builders[v].blob # builders[w].blob
  /\ \A b \in BlobIds : staged[b].done /\ feeder.pc # "exit" => b < feeder.i

\* What the writer holds is the entry it is at; when it has moved on, nobody works on it.
HeldIsCurrent ==
  /\ writer.pc = "wait" => writer.at \in BlobIds /\ writer.held = writer.at
  /\ writer.pc = "entry" =>
       /\ writer.held < writer.at /\ writer.held \notin files
       /\ feeder.pc = "hand" => feeder.i # writer.held
       /\ \A w \in SaveWorkers : Busy(w) => builders[w].blob # writer.held

\* Nobody reports a cancellation that the caller did not ask for or a failure did not cause.
CancelHasCause ==
  /\ writer.pc \in Writing =>
       /\ inner => serr # "none"
       /\ serr = "cancel" => souter
       /\ \A b \in BlobIds : staged[b].err = "cancel" => souter \/ serr # "none"
  /\ writer.err = "cancel" => souter

Written(n) == [i \in 1..n |-> i]

\* The archive holds the entries before the writer's, in order, and all of them after a success.
ArchiveInOrder ==
  /\ writer.pc \in Writing => archive = Written(writer.at - 1) /\ writer.err = "none"
  /\ writer.err = "none" /\ writer.pc \notin Writing => archive = Written(Len(SaveEntries))
  /\ writer.pc = "done" => output = IF writer.err = "none" THEN "whole" ELSE "removed"

SaveInv ==
  /\ SaveTypeOK /\ QueueInOrder /\ WorkIsQueued /\ HandedOnce /\ HeldIsCurrent
  /\ CancelHasCause /\ ArchiveInOrder

-----------------------------------------------------------------------------
(***************************************************************************)
(* Blobs are numbered by their place among the entries.                    *)
(***************************************************************************)
LEMMA BlobIdsNat ==
  /\ Len(SaveEntries) \in Nat /\ End \in Nat /\ EntryIds = 1..Len(SaveEntries)
  /\ BlobIds \subseteq 1..Len(SaveEntries) /\ BlobIds \subseteq Nat \ {0}
  /\ QueueCap \in Nat
<1>1. Cardinality(SaveWorkers) \in Nat
  BY SaveAssumption, FS_CardinalityType
<1>2. SaveEntries \in Seq({"blob", "manifest"})
  BY SaveAssumption
<1> QED
  BY <1>1, <1>2, LenProperties DEF BlobIds, EntryIds, End, QueueCap

(***************************************************************************)
(* What arithmetic needs of that.                                          *)
(***************************************************************************)
LEMMA BlobNat ==
  /\ End \in Nat /\ 0 < End /\ QueueCap \in Nat
  /\ \A b \in BlobIds : b \in Nat /\ 0 < b /\ b < End
BY BlobIdsNat DEF End

(***************************************************************************)
(* NextBlob is the least blob after i, or the end.                         *)
(***************************************************************************)
LEMMA NextBlobOK ==
  ASSUME NEW i \in Nat, i < End
  PROVE  /\ NextBlob(i) \in BlobIds \cup {End} /\ i < NextBlob(i)
         /\ \A b \in BlobIds : i < b => NextBlob(i) <= b
<1>1. CASE \E j \in BlobIds : j > i
  <2> DEFINE S == {j \in BlobIds : j > i}
  <2>1. S \in SUBSET Nat /\ S # {}
    BY <1>1, BlobIdsNat
  <2>2. PICK m \in S : \A n \in S : m <= n
    BY <2>1, MinNat
  <2>3. \E j \in BlobIds : j > i /\ \A k \in BlobIds : k > i => j <= k
    BY <2>2
  <2>4. NextBlob(i) = CHOOSE j \in BlobIds : j > i /\ \A k \in BlobIds : k > i => j <= k
    BY <1>1 DEF NextBlob
  <2>5. NextBlob(i) \in BlobIds /\ NextBlob(i) > i /\ \A k \in BlobIds : k > i => NextBlob(i) <= k
    BY <2>3, <2>4
  <2> QED
    BY <2>5, BlobIdsNat
<1>2. CASE ~\E j \in BlobIds : j > i
  BY <1>2, BlobIdsNat DEF NextBlob, End
<1> QED
  BY <1>1, <1>2

(***************************************************************************)
(* Writing one entry more.                                                 *)
(***************************************************************************)
LEMMA WrittenAppend ==
  ASSUME NEW n \in Nat
  PROVE  Written(n) \in Seq(Nat) /\ Append(Written(n), n + 1) = Written(n + 1)
<1>1. Written(n) \in Seq(Nat) /\ Len(Written(n)) = n
  BY DEF Written
<1> QED
  BY <1>1 DEF Written

(***************************************************************************)
(* The invariant holds when a save starts.                                 *)
(***************************************************************************)
LEMMA SaveInitInv == SaveInit => SaveInv
<1> SUFFICES ASSUME SaveInit PROVE SaveInv
  OBVIOUS
<1>1. /\ NextBlob(0) \in BlobIds \cup {End} /\ 0 < NextBlob(0)
      /\ \A b \in BlobIds : NextBlob(0) <= b
  BY BlobIdsNat, NextBlobOK DEF End
<1>2. Len(queue) = 0 /\ queue = <<>>
  BY DEF SaveInit
<1>3. SaveTypeOK
  <2>1. writer \in Writers /\ feeder \in Feeders
    BY <1>1, BlobNat DEF SaveInit, Writers, Feeders, Errs
  <2>2. queue \in Seq(BlobIds) /\ Len(queue) <= QueueCap
    BY <1>2, BlobNat
  <2>3. builders \in [SaveWorkers -> Builders] /\ staged \in [BlobIds -> StagedBlobs]
    BY DEF SaveInit, Builders, StagedBlobs, Errs
  <2> QED
    BY <2>1, <2>2, <2>3, SaveAssumption DEF SaveInit, SaveTypeOK, Errs
<1>4. QueueInOrder
  <2>1. Wanted = 1 /\ feeder.pc = "queue" /\ feeder.i = NextBlob(0)
    BY DEF SaveInit, Wanted
  <2>2. 1 <= feeder.i /\ \A b \in BlobIds : ~(b < feeder.i)
    BY <1>1, <2>1, BlobNat
  <2> QED
    BY <1>2, <2>1, <2>2 DEF QueueInOrder
<1>5. WorkIsQueued /\ HandedOnce /\ HeldIsCurrent
  BY DEF SaveInit, WorkIsQueued, HandedOnce, HeldIsCurrent, Busy
<1>6. CancelHasCause
  BY DEF SaveInit, CancelHasCause
<1>7. ArchiveInOrder
  <2>1. Written(0) = <<>>
    BY DEF Written
  <2> QED
    BY <2>1 DEF SaveInit, ArchiveInOrder, Writing
<1> QED
  BY <1>3, <1>4, <1>5, <1>6, <1>7 DEF SaveInv

-----------------------------------------------------------------------------
(***************************************************************************)
(* The feeder queues the next blob behind the others.                      *)
(***************************************************************************)
LEMMA FeederQueuesInv ==
  ASSUME SaveInv, feederQueues
  PROVE  SaveInv'
<1>1. /\ feeder.pc = "queue" /\ Len(queue) < QueueCap /\ queue' = Append(queue, feeder.i)
      /\ feeder \in Feeders /\ queue \in Seq(BlobIds) /\ Len(queue) \in Nat
      /\ UNCHANGED <<writer, builders, staged, files, inner, souter, serr, archive, output, sfaults>>
  BY LenProperties DEF SaveInv, SaveTypeOK, feederQueues, FeederOnly
<1>2. feeder.i \in BlobIds
  BY <1>1, BlobIdsNat DEF feederQueues, Feeders, End
<1>3. feeder' \in Feeders /\ feeder'.pc = "hand" /\ feeder'.i = feeder.i
  BY <1>1 DEF feederQueues, Feeders
<1>4. /\ queue' \in Seq(BlobIds) /\ Len(queue') = Len(queue) + 1
      /\ \A k \in 1..Len(queue) : queue'[k] = queue[k]
      /\ queue'[Len(queue) + 1] = feeder.i
  BY <1>1, <1>2, AppendProperties
<1>5. \A b : Queued(b)' <=> Queued(b) \/ b = feeder.i
  BY <1>1, <1>4 DEF Queued
<1>6. SaveTypeOK'
  BY <1>1, <1>3, <1>4, BlobIdsNat DEF SaveInv, SaveTypeOK
<1>7. QueueInOrder'
  <2> SUFFICES ASSUME writer.pc \in Writing PROVE QueueInOrder'
    BY <1>1 DEF QueueInOrder
  <2>1. Wanted' = Wanted /\ Wanted \in Nat
    BY <1>1, BlobIdsNat DEF Wanted, SaveInv, SaveTypeOK, Writers
  <2>2. /\ \A k \in 1..Len(queue) : Wanted <= queue[k] /\ queue[k] < feeder.i /\ queue[k] \in Nat
        /\ \A j, k \in 1..Len(queue) : j < k => queue[j] < queue[k]
        /\ \A k \in 1..Len(queue) : \A b \in BlobIds : Wanted <= b /\ b < queue[k] => Queued(b)
        /\ Wanted <= feeder.i
        /\ \A b \in BlobIds : Wanted <= b /\ b < feeder.i => Queued(b)
    BY <1>1, BlobIdsNat, ElementOfSeq DEF SaveInv, QueueInOrder
  <2>3. \A k \in 1..Len(queue') : k \in 1..Len(queue) \/ k = Len(queue) + 1
    BY <1>1, <1>4
  <2>4. \A k \in 1..Len(queue') : Wanted <= queue'[k] /\ queue'[k] <= feeder.i
    <3>1. feeder.i \in Nat
      BY <1>2, BlobNat
    <3>2. ASSUME NEW k \in 1..Len(queue)
          PROVE  Wanted <= queue'[k] /\ queue'[k] <= feeder.i
      <4>1. queue'[k] = queue[k] /\ queue[k] \in Nat /\ Wanted <= queue[k] /\ queue[k] < feeder.i
        BY <1>4, <2>2
      <4> QED
        BY <3>1, <4>1
    <3>3. Wanted <= queue'[Len(queue) + 1] /\ queue'[Len(queue) + 1] <= feeder.i
      BY <1>4, <2>2, <3>1
    <3> QED
      BY <2>3, <3>2, <3>3
  <2>5. \A j, k \in 1..Len(queue') : j < k => queue'[j] < queue'[k]
    BY <1>1, <1>4, <2>2, <2>3
  <2>6. \A k \in 1..Len(queue') : \A b \in BlobIds : Wanted <= b /\ b < queue'[k] => Queued(b)'
    BY <1>4, <1>5, <2>2, <2>3
  <2>7. \A b \in BlobIds : Wanted <= b /\ b <= feeder.i => Queued(b)'
    BY <1>2, <1>5, <2>1, <2>2, BlobNat
  <2>8. Wanted <= feeder.i + 1
    BY <1>2, <2>1, <2>2, BlobNat
  <2> QED
    BY <1>3, <2>1, <2>4, <2>5, <2>6, <2>7, <2>8 DEF QueueInOrder
<1>8. WorkIsQueued' /\ HandedOnce' /\ HeldIsCurrent'
  <2>1. WorkIsQueued'
    BY <1>1, <1>2, <1>3, <1>5 DEF SaveInv, WorkIsQueued, Busy
  <2>2. HandedOnce'
    BY <1>1, <1>3 DEF SaveInv, HandedOnce, Busy
  <2>3. HeldIsCurrent'
    <3>1. ASSUME writer.pc = "entry"
          PROVE  feeder.i # writer.held
      <4>1. writer.held < writer.at /\ writer.at <= feeder.i /\ writer.held \in Nat /\ writer.at \in Nat /\ feeder.i \in Nat
        <5>1. writer.held \in Nat /\ writer.at \in Nat /\ feeder.i \in Nat
          BY <1>2, BlobNat DEF SaveInv, SaveTypeOK, Writers
        <5>2. Wanted = writer.at /\ Wanted <= feeder.i
          BY <1>1, <3>1 DEF SaveInv, QueueInOrder, Wanted, Writing
        <5> QED
          BY <3>1, <5>1, <5>2 DEF SaveInv, HeldIsCurrent
      <4> QED
        BY <4>1
    <3> QED
      BY <1>1, <1>3, <3>1 DEF SaveInv, HeldIsCurrent, Busy
  <2> QED
    BY <2>1, <2>2, <2>3
<1>9. CancelHasCause' /\ ArchiveInOrder'
  BY <1>1 DEF SaveInv, CancelHasCause, ArchiveInOrder
<1> QED
  BY <1>6, <1>7, <1>8, <1>9 DEF SaveInv

(***************************************************************************)
(* The feeder hands the blob it has queued to an idle worker and looks for *)
(* the next one.                                                           *)
(***************************************************************************)
LEMMA FeederHandsInv ==
  ASSUME SaveInv, NEW w \in SaveWorkers, feederHands(w)
  PROVE  SaveInv'
<1>1. /\ feeder.pc = "hand" /\ builders[w].pc = "idle"
      /\ builders' = [builders EXCEPT ![w] = [pc |-> "got", blob |-> feeder.i]]
      /\ feeder' = [pc |-> "queue", i |-> NextBlob(feeder.i)]
      /\ builders \in [SaveWorkers -> Builders]
      /\ UNCHANGED <<writer, queue, staged, files, inner, souter, serr, archive, output, sfaults>>
  BY DEF SaveInv, SaveTypeOK, feederHands, FeederOnly
<1>2. feeder.i \in BlobIds /\ (Queued(feeder.i) \/ writer.held = feeder.i)
  BY <1>1 DEF SaveInv, WorkIsQueued
<1>3. /\ NextBlob(feeder.i) \in BlobIds \cup {End} /\ feeder.i < NextBlob(feeder.i)
      /\ \A b \in BlobIds : feeder.i < b => NextBlob(feeder.i) <= b
  BY <1>2, BlobNat, NextBlobOK
<1>0. feeder.i \in Nat /\ NextBlob(feeder.i) \in Nat
  BY <1>2, <1>3, BlobNat
<1>4. feeder' \in Feeders /\ feeder'.pc = "queue" /\ feeder'.i = NextBlob(feeder.i)
  BY <1>1, <1>3 DEF Feeders
<1>5. /\ builders' \in [SaveWorkers -> Builders]
      /\ builders'[w].pc = "got" /\ builders'[w].blob = feeder.i
      /\ \A v \in SaveWorkers : v # w => builders'[v] = builders[v]
  BY <1>1, <1>2 DEF Builders
<1>6. /\ \A v \in SaveWorkers : Busy(v)' <=> v = w \/ Busy(v)
      /\ ~Busy(w)
  BY <1>1, <1>5 DEF Busy
<1>7. SaveTypeOK'
  BY <1>1, <1>4, <1>5 DEF SaveInv, SaveTypeOK
<1>8. QueueInOrder'
  <2> SUFFICES ASSUME writer.pc \in Writing PROVE QueueInOrder'
    BY <1>1 DEF QueueInOrder
  <2>1. Wanted' = Wanted /\ Wanted \in Nat /\ (\A b : Queued(b)' <=> Queued(b))
    BY <1>1, BlobIdsNat DEF Wanted, Queued, SaveInv, SaveTypeOK, Writers
  <2>2. /\ \A k \in 1..Len(queue) : Wanted <= queue[k] /\ queue[k] <= feeder.i /\ queue[k] \in Nat
        /\ \A j, k \in 1..Len(queue) : j < k => queue[j] < queue[k]
        /\ \A k \in 1..Len(queue) : \A b \in BlobIds : Wanted <= b /\ b < queue[k] => Queued(b)
        /\ Wanted <= feeder.i + 1
        /\ \A b \in BlobIds : Wanted <= b /\ b <= feeder.i => Queued(b)
    BY <1>1, BlobIdsNat, ElementOfSeq DEF SaveInv, SaveTypeOK, QueueInOrder
  <2>3. feeder.i \in Nat /\ feeder'.i \in Nat /\ feeder.i < feeder'.i
    BY <1>2, <1>3, <1>4, BlobIdsNat
  <2>4. Wanted <= feeder'.i /\ \A k \in 1..Len(queue) : queue[k] < feeder'.i
    BY <2>1, <2>2, <2>3
  <2>5. \A b \in BlobIds : Wanted <= b /\ b < feeder'.i => Queued(b)
    BY <1>3, <1>4, <2>2, <2>3, BlobIdsNat
  <2> QED
    BY <1>1, <1>4, <2>1, <2>2, <2>4, <2>5 DEF QueueInOrder
<1>9. WorkIsQueued'
  <2>1. \A b : Queued(b)' <=> Queued(b)
    BY <1>1 DEF Queued
  <2>2. writer.pc \notin {"flush", "done"}
    BY <1>1 DEF SaveInv, WorkIsQueued
  <2>3. \A v \in SaveWorkers : Busy(v)' => builders'[v].blob \in BlobIds /\ (Queued(builders'[v].blob) \/ writer.held = builders'[v].blob)
    BY <1>2, <1>5, <1>6 DEF SaveInv, WorkIsQueued
  <2> QED
    BY <1>1, <1>4, <2>1, <2>2, <2>3 DEF SaveInv, WorkIsQueued
<1>10. HandedOnce'
  <2>1. ~staged[feeder.i].done /\ \A v \in SaveWorkers : Busy(v) => builders[v].blob < feeder.i /\ builders[v].blob \in BlobIds
    BY <1>0, <1>1, <1>2 DEF SaveInv, HandedOnce, WorkIsQueued
  <2>2. \A v \in SaveWorkers : Busy(v)' => ~staged[builders'[v].blob].done /\ builders'[v].blob < feeder'.i
    BY <1>0, <1>2, <1>3, <1>4, <1>5, <1>6, <2>1, BlobNat DEF SaveInv, HandedOnce
  <2>3. \A v, u \in SaveWorkers : Busy(v)' /\ Busy(u)' /\ v # u => builders'[v].blob # builders'[u].blob
    BY <1>0, <1>2, <1>5, <1>6, <2>1, BlobNat DEF SaveInv, HandedOnce
  <2>4. \A b \in BlobIds : staged[b].done => b < feeder'.i
    BY <1>0, <1>1, <1>2, <1>3, <1>4, BlobNat DEF SaveInv, HandedOnce
  <2> QED
    BY <1>1, <2>2, <2>3, <2>4 DEF HandedOnce
<1>11. HeldIsCurrent'
  BY <1>1, <1>4, <1>5, <1>6 DEF SaveInv, HeldIsCurrent
<1>12. CancelHasCause' /\ ArchiveInOrder'
  BY <1>1 DEF SaveInv, CancelHasCause, ArchiveInOrder
<1> QED
  BY <1>7, <1>8, <1>9, <1>10, <1>11, <1>12 DEF SaveInv

(***************************************************************************)
(* A feeder that stops hands out nothing more.                             *)
(***************************************************************************)
LEMMA FeederStopsInv ==
  ASSUME SaveInv, feederStops
  PROVE  SaveInv'
<1>1. /\ feeder \in Feeders /\ feeder' = [feeder EXCEPT !.pc = "exit"]
      /\ UNCHANGED <<writer, queue, builders, staged, files, inner, souter, serr, archive, output, sfaults>>
  BY DEF SaveInv, SaveTypeOK, feederStops, FeederOnly
<1>2. feeder' \in Feeders /\ feeder'.pc = "exit"
  BY <1>1 DEF Feeders
<1>3. SaveTypeOK'
  BY <1>1, <1>2 DEF SaveInv, SaveTypeOK
<1>4. QueueInOrder' /\ WorkIsQueued'
  BY <1>1, <1>2 DEF SaveInv, QueueInOrder, WorkIsQueued, Wanted, Queued, Busy
<1>5. HandedOnce' /\ HeldIsCurrent' /\ CancelHasCause' /\ ArchiveInOrder'
  BY <1>1, <1>2 DEF SaveInv, HandedOnce, HeldIsCurrent, CancelHasCause, ArchiveInOrder, Busy
<1> QED
  BY <1>3, <1>4, <1>5 DEF SaveInv

-----------------------------------------------------------------------------
(***************************************************************************)
(* A worker that moves to another place of its loop, its blob the same.    *)
(***************************************************************************)
LEMMA BuilderMoves ==
  ASSUME SaveTypeOK, NEW w \in SaveWorkers, NEW p \in {"idle", "build", "exit"},
         builders' = [builders EXCEPT ![w].pc = p]
  PROVE  /\ builders' \in [SaveWorkers -> Builders]
         /\ builders'[w].pc = p /\ builders'[w].blob = builders[w].blob
         /\ \A v \in SaveWorkers : v # w => builders'[v] = builders[v]
BY DEF SaveTypeOK, Builders

(***************************************************************************)
(* A worker that is through with its blob marks it done; what it reports   *)
(* has a cause.                                                            *)
(***************************************************************************)
LEMMA BuilderEndsInv ==
  ASSUME SaveInv, NEW w \in SaveWorkers, Busy(w),
         builders' = [builders EXCEPT ![w].pc = "idle"],
         staged' \in [BlobIds -> StagedBlobs],
         \A b \in BlobIds : b # builders[w].blob => staged'[b] = staged[b],
         files' \subseteq files, inner' \in BOOLEAN, serr' \in Errs, sfaults' \in Nat,
         writer.pc \in Writing => /\ inner' => serr' # "none"
                                  /\ serr' = "cancel" => souter
                                  /\ serr # "none" => serr' # "none"
                                  /\ staged'[builders[w].blob].err = "cancel" => souter \/ serr' # "none",
         UNCHANGED <<writer, feeder, queue, souter, archive, output>>
  PROVE  SaveInv'
<1>1. /\ builders' \in [SaveWorkers -> Builders]
      /\ builders'[w].pc = "idle" /\ builders'[w].blob = builders[w].blob
      /\ \A v \in SaveWorkers : v # w => builders'[v] = builders[v]
  BY BuilderMoves DEF SaveInv
<1>2. \A v \in SaveWorkers : Busy(v)' <=> v # w /\ Busy(v)
  BY <1>1 DEF Busy
<1>3. SaveTypeOK'
  BY <1>1 DEF SaveInv, SaveTypeOK
<1>4. QueueInOrder'
  BY DEF SaveInv, QueueInOrder, Wanted, Queued
<1>5. \A b : Queued(b)' <=> Queued(b)
  BY DEF Queued
<1>6. WorkIsQueued'
  <2>1. writer.pc \notin {"flush", "done"}
    BY DEF SaveInv, WorkIsQueued, Busy
  <2> QED
    BY <1>1, <1>2, <1>5, <2>1 DEF SaveInv, WorkIsQueued
<1>7. HandedOnce'
  <2>1. builders[w].blob \in BlobIds /\ (feeder.pc # "exit" => builders[w].blob < feeder.i)
    BY DEF SaveInv, WorkIsQueued, HandedOnce
  <2>2. \A v \in SaveWorkers : Busy(v)' => builders'[v].blob \in BlobIds /\ builders'[v].blob # builders[w].blob
    BY <1>1, <1>2 DEF SaveInv, WorkIsQueued, HandedOnce
  <2>3. \A v \in SaveWorkers : Busy(v)' => ~staged'[builders'[v].blob].done
    BY <1>1, <1>2, <2>2 DEF SaveInv, HandedOnce
  <2>4. \A b \in BlobIds : staged'[b].done /\ feeder.pc # "exit" => b < feeder.i
    BY <2>1 DEF SaveInv, HandedOnce
  <2> QED
    BY <1>1, <1>2, <2>3, <2>4 DEF SaveInv, HandedOnce
<1>8. HeldIsCurrent'
  BY <1>1, <1>2 DEF SaveInv, HeldIsCurrent
<1>9. CancelHasCause' /\ ArchiveInOrder'
  BY DEF SaveInv, CancelHasCause, ArchiveInOrder
<1> QED
  BY <1>3, <1>4, <1>6, <1>7, <1>8, <1>9 DEF SaveInv

(***************************************************************************)
(* A worker that creates its file or leaves its loop.                      *)
(***************************************************************************)
LEMMA BuilderGoesOnInv ==
  ASSUME SaveInv, NEW w \in SaveWorkers,
         \/ /\ builders[w].pc = "got" /\ builders' = [builders EXCEPT ![w].pc = "build"]
            /\ files' = files \cup {builders[w].blob}
         \/ /\ builders[w].pc = "idle" /\ builders' = [builders EXCEPT ![w].pc = "exit"]
            /\ files' = files,
         UNCHANGED <<writer, feeder, queue, staged, inner, souter, serr, archive, output, sfaults>>
  PROVE  SaveInv'
<1>1. /\ builders' \in [SaveWorkers -> Builders]
      /\ builders'[w].blob = builders[w].blob
      /\ \/ builders[w].pc = "got" /\ builders'[w].pc = "build"
         \/ builders[w].pc = "idle" /\ builders'[w].pc = "exit"
      /\ \A v \in SaveWorkers : v # w => builders'[v] = builders[v]
  <2>1. CASE builders[w].pc = "got" /\ builders' = [builders EXCEPT ![w].pc = "build"]
    BY <2>1, BuilderMoves DEF SaveInv
  <2>2. CASE builders[w].pc = "idle" /\ builders' = [builders EXCEPT ![w].pc = "exit"]
    BY <2>2, BuilderMoves DEF SaveInv
  <2> QED
    BY <2>1, <2>2
<1>2. \A v \in SaveWorkers : (Busy(v)' <=> Busy(v)) /\ builders'[v].blob = builders[v].blob
  BY <1>1 DEF Busy
<1>3. files' \subseteq files \cup (IF Busy(w) THEN {builders[w].blob} ELSE {})
  BY DEF Busy
<1>4. Busy(w) => builders[w].blob \in BlobIds /\ (Queued(builders[w].blob) \/ writer.held = builders[w].blob)
  BY DEF SaveInv, WorkIsQueued
<1>5. SaveTypeOK'
  BY <1>1, <1>3, <1>4 DEF SaveInv, SaveTypeOK
<1>6. QueueInOrder' /\ \A b : Queued(b)' <=> Queued(b)
  BY DEF SaveInv, QueueInOrder, Wanted, Queued
<1>7. WorkIsQueued'
  <2>1. writer.pc \notin {"flush", "done"}
    BY <1>1 DEF SaveInv, WorkIsQueued
  <2> QED
    BY <1>2, <1>3, <1>4, <1>6, <2>1 DEF SaveInv, WorkIsQueued
<1>8. HandedOnce'
  BY <1>2 DEF SaveInv, HandedOnce
<1>9. HeldIsCurrent'
  BY <1>2, <1>3 DEF SaveInv, HeldIsCurrent
<1>10. CancelHasCause' /\ ArchiveInOrder'
  BY DEF SaveInv, CancelHasCause, ArchiveInOrder
<1> QED
  BY <1>5, <1>6, <1>7, <1>8, <1>9, <1>10 DEF SaveInv

(***************************************************************************)
(* Every step of a worker keeps the invariant.                             *)
(***************************************************************************)
LEMMA BuilderInv ==
  ASSUME SaveInv, NEW w \in SaveWorkers, BuilderStep(w)
  PROVE  SaveInv'
<1> DEFINE b == builders[w].blob
<1>0. /\ staged \in [BlobIds -> StagedBlobs] /\ files \subseteq BlobIds /\ inner \in BOOLEAN /\ serr \in Errs /\ sfaults \in Nat
      /\ Busy(w) => b \in BlobIds
  BY DEF SaveInv, SaveTypeOK, WorkIsQueued
<1>1. writer.pc \in Writing =>
        /\ inner => serr # "none"
        /\ serr = "cancel" => souter
        /\ \A x \in BlobIds : staged[x].err = "cancel" => souter \/ serr # "none"
  BY DEF SaveInv, CancelHasCause
<1>2. ASSUME Busy(w), BuilderOnly, NEW e \in {"fault", "cancel"}, Failed(w, e), SaveFault \/ UNCHANGED sfaults,
             e = "cancel" => Cancelled
      PROVE  SaveInv'
  <2>1. /\ staged' \in [BlobIds -> StagedBlobs] /\ staged'[b].err = e
        /\ \A x \in BlobIds : x # b => staged'[x] = staged[x]
    <3> DEFINE r == [staged[b] EXCEPT !.done = TRUE, !.err = e]
    <3>1. r \in StagedBlobs /\ r.err = e
      BY <1>0, <1>2 DEF StagedBlobs, Errs
    <3>2. staged' = [staged EXCEPT ![b] = r]
      BY <1>0, <1>2 DEF Failed
    <3> HIDE DEF r
    <3> QED
      BY <1>0, <1>2, <3>1, <3>2
  <2>2. /\ builders' = [builders EXCEPT ![w].pc = "idle"] /\ files' \subseteq files /\ inner' = TRUE
        /\ serr' = (IF serr = "none" THEN e ELSE serr)
        /\ UNCHANGED <<writer, feeder, queue, souter, archive, output>>
    BY <1>2 DEF Failed, BuilderOnly
  <2>3. sfaults' \in Nat
    BY <1>0, <1>2 DEF SaveFault
  <2>4. serr' \in Errs /\ serr' # "none" /\ (writer.pc \in Writing /\ serr' = "cancel" => souter)
    BY <1>0, <1>1, <1>2, <2>2 DEF Errs, Cancelled
  <2> QED
    BY <1>2, <2>1, <2>2, <2>3, <2>4, BuilderEndsInv
<1>3. ASSUME Busy(w), BuilderOnly, NEW s \in StagedBlobs, staged' = [staged EXCEPT ![b] = s],
             s.err = "cancel" => Cancelled \/ staged[b].err = "cancel",
             builders' = [builders EXCEPT ![w].pc = "idle"], UNCHANGED <<files, inner, serr>>,
             SaveFault \/ UNCHANGED sfaults
      PROVE  SaveInv'
  <2>1. /\ staged' \in [BlobIds -> StagedBlobs] /\ staged'[b] = s
        /\ \A x \in BlobIds : x # b => staged'[x] = staged[x]
    BY <1>0, <1>3
  <2>2. sfaults' \in Nat
    BY <1>0, <1>3 DEF SaveFault
  <2>3. writer.pc \in Writing => (s.err = "cancel" => souter \/ serr # "none")
    BY <1>0, <1>1, <1>3 DEF Cancelled
  <2>4. UNCHANGED <<writer, feeder, queue, souter, archive, output>>
    BY <1>3 DEF BuilderOnly
  <2> QED
    BY <1>0, <1>1, <1>3, <2>1, <2>2, <2>3, <2>4, BuilderEndsInv
<1>4. CASE runStarts(w)
  <2>1. Busy(w) /\ BuilderOnly /\ staged[b] \in StagedBlobs
    BY <1>0, <1>4 DEF runStarts, Busy
  <2>2. CASE /\ Cancelled
             /\ staged' = [staged EXCEPT ![b].done = TRUE, ![b].err = "cancel"]
             /\ builders' = [builders EXCEPT ![w].pc = "idle"]
             /\ UNCHANGED <<files, inner, serr, sfaults>>
    <3> DEFINE s == [staged[b] EXCEPT !.done = TRUE, !.err = "cancel"]
    <3>1. s \in StagedBlobs /\ staged' = [staged EXCEPT ![b] = s]
      BY <1>0, <2>1, <2>2 DEF StagedBlobs, Errs
    <3> HIDE DEF s
    <3> QED
      BY <1>3, <2>1, <2>2, <3>1
  <2>3. CASE /\ ~Cancelled
             /\ files' = files \cup {b}
             /\ builders' = [builders EXCEPT ![w].pc = "build"]
             /\ UNCHANGED <<staged, inner, serr, sfaults>>
    BY <1>4, <2>1, <2>3, BuilderGoesOnInv DEF BuilderOnly, runStarts
  <2>4. CASE ~Cancelled /\ SaveFault /\ Failed(w, "fault")
    BY <1>2, <2>1, <2>4
  <2> QED
    BY <1>4, <2>2, <2>3, <2>4 DEF runStarts
<1>5. CASE rebuild(w)
  <2>1. Busy(w) /\ BuilderOnly /\ staged[b] \in StagedBlobs
    BY <1>0, <1>5 DEF rebuild, Busy
  <2>2. CASE /\ staged' = [staged EXCEPT ![b].done = TRUE]
             /\ builders' = [builders EXCEPT ![w].pc = "idle"]
             /\ UNCHANGED <<files, inner, serr, sfaults>>
    <3> DEFINE s == [staged[b] EXCEPT !.done = TRUE]
    <3>1. s \in StagedBlobs /\ staged' = [staged EXCEPT ![b] = s] /\ s.err = staged[b].err
      BY <1>0, <2>1, <2>2 DEF StagedBlobs, Errs
    <3> HIDE DEF s
    <3> QED
      BY <1>3, <2>1, <2>2, <3>1
  <2>3. CASE /\ SaveFault
             /\ staged' = [staged EXCEPT ![b].done = TRUE, ![b].sized = FALSE]
             /\ builders' = [builders EXCEPT ![w].pc = "idle"]
             /\ UNCHANGED <<files, inner, serr>>
    <3> DEFINE s == [staged[b] EXCEPT !.done = TRUE, !.sized = FALSE]
    <3>1. s \in StagedBlobs /\ staged' = [staged EXCEPT ![b] = s] /\ s.err = staged[b].err
      BY <1>0, <2>1, <2>3 DEF StagedBlobs, Errs
    <3> HIDE DEF s
    <3> QED
      BY <1>3, <2>1, <2>3, <3>1
  <2>4. CASE SaveFault /\ Failed(w, "fault")
    BY <1>2, <2>1, <2>4
  <2>5. CASE Cancelled /\ Failed(w, "cancel") /\ UNCHANGED sfaults
    BY <1>2, <2>1, <2>5
  <2> QED
    BY <1>5, <2>2, <2>3, <2>4, <2>5 DEF rebuild
<1>6. CASE builderExits(w)
  BY <1>6, BuilderGoesOnInv DEF builderExits, BuilderOnly
<1> QED
  BY <1>4, <1>5, <1>6 DEF BuilderStep

-----------------------------------------------------------------------------
(***************************************************************************)
(* The writer gives up or ends: its error has a cause, and there is none   *)
(* only when everything is written.                                        *)
(***************************************************************************)
LEMMA ReturnsInv ==
  ASSUME SaveInv, NEW e \in Errs, Returns(e), writer.pc \in Writing,
         e = "cancel" => souter, e = "none" => writer.at = End,
         sfaults' \in Nat,
         UNCHANGED <<feeder, queue, builders, staged, files, inner, souter, serr, archive, output>>
  PROVE  SaveInv'
<1>1. writer \in Writers /\ writer' = [writer EXCEPT !.pc = "close", !.err = e]
  BY DEF SaveInv, SaveTypeOK, Returns
<1>2. writer' \in Writers /\ writer'.pc = "close" /\ writer'.err = e /\ writer'.held = writer.held
  BY <1>1 DEF Writers
<1>3. SaveTypeOK'
  BY <1>2 DEF SaveInv, SaveTypeOK
<1>4. QueueInOrder' /\ HeldIsCurrent' /\ CancelHasCause'
  BY <1>2 DEF SaveInv, QueueInOrder, HeldIsCurrent, CancelHasCause, Writing
<1>5. WorkIsQueued' /\ HandedOnce'
  BY <1>2 DEF SaveInv, WorkIsQueued, HandedOnce, Queued, Busy
<1>6. ArchiveInOrder'
  BY <1>2, BlobIdsNat DEF SaveInv, ArchiveInOrder, Writing, End
<1> QED
  BY <1>3, <1>4, <1>5, <1>6 DEF SaveInv

(***************************************************************************)
(* The error the writer returns for a cancellation is one only when the    *)
(* caller cancelled.                                                       *)
(***************************************************************************)
LEMMA FailureOK ==
  ASSUME SaveInv, writer.pc \in Writing, NEW e \in {"fault", "cancel"},
         e = "cancel" => Cancelled \/ \E b \in BlobIds : staged[b].err = "cancel"
  PROVE  failure(e) \in Errs /\ failure(e) # "none" /\ (failure(e) = "cancel" => souter)
<1>1. /\ inner => serr # "none"
      /\ serr = "cancel" => souter
      /\ \A b \in BlobIds : staged[b].err = "cancel" => souter \/ serr # "none"
      /\ serr \in Errs
  BY DEF SaveInv, SaveTypeOK, CancelHasCause
<1> QED
  BY <1>1 DEF failure, Errs, Cancelled

(***************************************************************************)
(* The writer goes on to the next entry when it has written the one it is  *)
(* at and nobody works on what it held.                                    *)
(***************************************************************************)
LEMMA AdvanceInv ==
  ASSUME SaveInv, Advance, writer.pc \in Writing, writer.at \in EntryIds,
         writer.pc = "entry" => writer.at \notin BlobIds,
         writer.pc = "wait" => staged[writer.held].done,
         archive' = Append(archive, writer.at),
         files' = files \ {writer.held},
         UNCHANGED <<feeder, queue, builders, staged, inner, souter, serr, output, sfaults>>
  PROVE  SaveInv'
<1>0. writer \in Writers /\ writer.at \in Nat /\ writer.at < End /\ writer.at - 1 \in Nat /\ writer.held \in Nat
  <2>1. writer \in Writers /\ writer.held \in Nat
    BY BlobNat DEF SaveInv, SaveTypeOK, Writers
  <2>2. Len(SaveEntries) \in Nat /\ writer.at \in 1..Len(SaveEntries)
    BY BlobIdsNat
  <2> QED
    BY <2>1, <2>2 DEF End
<1>1. writer' \in Writers /\ writer'.pc = "entry" /\ writer'.at = writer.at + 1 /\ writer'.held = writer.held /\ writer'.err = writer.err
  <2>1. writer.at + 1 \in 1..End
    BY <1>0, BlobNat
  <2> QED
    BY <1>0, <2>1 DEF Advance, Writers
<1>2. Wanted' = writer.at + 1 /\ (writer.pc = "entry" => Wanted = writer.at) /\ (writer.pc = "wait" => Wanted = writer.at + 1)
  BY <1>1 DEF Wanted
<1>3. SaveTypeOK'
  BY <1>1 DEF SaveInv, SaveTypeOK
<1>4. QueueInOrder'
  <2>1. /\ \A k \in 1..Len(queue) : Wanted <= queue[k] /\ queue[k] \in BlobIds
        /\ \A j, k \in 1..Len(queue) : j < k => queue[j] < queue[k]
        /\ \A k \in 1..Len(queue) : \A b \in BlobIds : Wanted <= b /\ b < queue[k] => Queued(b)
        /\ feeder.pc = "queue" => /\ Wanted <= feeder.i
                                  /\ \A k \in 1..Len(queue) : queue[k] < feeder.i
                                  /\ \A b \in BlobIds : Wanted <= b /\ b < feeder.i => Queued(b)
        /\ feeder.pc = "hand" => /\ \A k \in 1..Len(queue) : queue[k] <= feeder.i
                                 /\ Wanted <= feeder.i + 1
                                 /\ \A b \in BlobIds : Wanted <= b /\ b <= feeder.i => Queued(b)
        /\ feeder.i \in BlobIds \cup {End} /\ (feeder.pc = "hand" => feeder.i \in BlobIds)
    BY ElementOfSeq DEF SaveInv, SaveTypeOK, Feeders, QueueInOrder, WorkIsQueued
  <2>2. CASE writer.pc = "wait"
    BY <1>1, <1>2, <2>1, <2>2 DEF QueueInOrder, Queued
  <2>3. CASE writer.pc = "entry"
    <3>1. \A k \in 1..Len(queue) : writer.at + 1 <= queue[k]
      BY <1>0, <1>2, <2>1, <2>3, BlobNat
    <3>2. feeder.pc = "queue" => writer.at + 1 <= feeder.i
      <4> SUFFICES ASSUME feeder.pc = "queue" PROVE writer.at + 1 <= feeder.i
        OBVIOUS
      <4>1. writer.at <= feeder.i
        BY <1>2, <2>1, <2>3
      <4>2. feeder.i \in Nat
        BY <2>1, BlobNat
      <4>3. writer.at # feeder.i
        BY <1>0, <2>1, <2>3
      <4> QED
        BY <1>0, <4>1, <4>2, <4>3
    <3>3. feeder.pc = "hand" => writer.at + 1 <= feeder.i + 1
      <4>1. feeder.pc = "hand" => Queued(feeder.i)
        BY <2>3 DEF SaveInv, WorkIsQueued, HeldIsCurrent
      <4> QED
        BY <1>0, <1>2, <2>1, <2>3, <4>1, <3>1, BlobNat DEF Queued
    <3>4. \A b \in BlobIds : writer.at + 1 <= b => writer.at <= b
      BY <1>0, BlobNat
    <3> QED
      BY <1>1, <1>2, <2>1, <2>3, <3>1, <3>2, <3>3, <3>4 DEF QueueInOrder, Queued
  <2> QED
    BY <2>2, <2>3 DEF Writing
<1>5. WorkIsQueued' /\ HandedOnce'
  BY <1>1 DEF SaveInv, WorkIsQueued, HandedOnce, Queued, Busy
<1>6. HeldIsCurrent'
  <2>1. writer.held < writer.at + 1
    BY <1>0 DEF SaveInv, HeldIsCurrent, Writing
  <2>2. /\ feeder.pc = "hand" => feeder.i # writer.held
        /\ \A w \in SaveWorkers : Busy(w) => builders[w].blob # writer.held
    <3>1. CASE writer.pc = "entry"
      BY <3>1 DEF SaveInv, HeldIsCurrent
    <3>2. CASE writer.pc = "wait"
      <4>1. writer.held \in BlobIds /\ (feeder.pc # "exit" => writer.held < feeder.i)
        BY <3>2 DEF SaveInv, HeldIsCurrent, HandedOnce
      <4> QED
        BY <3>2, <4>1, BlobNat DEF SaveInv, HandedOnce
    <3> QED
      BY <3>1, <3>2 DEF Writing
  <2> QED
    BY <1>1, <2>1, <2>2 DEF HeldIsCurrent, Busy
<1>7. CancelHasCause'
  BY <1>1 DEF SaveInv, CancelHasCause, Writing
<1>8. ArchiveInOrder'
  <2>1. archive = Written(writer.at - 1) /\ writer.err = "none"
    BY DEF SaveInv, ArchiveInOrder
  <2>2. archive' = Written((writer.at - 1) + 1)
    <3>1. (writer.at - 1) + 1 = writer.at
      BY <1>0
    <3> QED
      BY <1>0, <2>1, <3>1, WrittenAppend
  <2>3. (writer.at - 1) + 1 = (writer.at + 1) - 1
    BY <1>0
  <2> QED
    BY <1>1, <2>1, <2>2, <2>3 DEF ArchiveInOrder, Writing
<1> QED
  BY <1>3, <1>4, <1>5, <1>6, <1>7, <1>8 DEF SaveInv

(***************************************************************************)
(* What the writer takes from the queue is the blob it is at.              *)
(***************************************************************************)
LEMMA TakeInv ==
  ASSUME SaveInv, writer.pc = "entry", writer.at \in BlobIds, queue # <<>>,
         writer' = [writer EXCEPT !.pc = "wait", !.held = Head(queue)],
         queue' = Tail(queue),
         UNCHANGED <<feeder, builders, staged, files, inner, souter, serr, archive, output, sfaults>>
  PROVE  SaveInv'
<1>0. /\ writer \in Writers /\ queue \in Seq(BlobIds) /\ Len(queue) \in Nat /\ Len(queue) <= QueueCap
      /\ \A k \in 1..Len(queue) : queue[k] \in BlobIds /\ queue[k] \in Nat
      /\ writer.at \in Nat /\ feeder.i \in Nat
  BY BlobNat, ElementOfSeq, LenProperties DEF SaveInv, SaveTypeOK, Feeders
<1>1. /\ queue' \in Seq(BlobIds) /\ Len(queue') = Len(queue) - 1 /\ Len(queue) > 0
      /\ \A k \in 1..Len(queue') : queue'[k] = queue[k + 1] /\ k + 1 \in 1..Len(queue)
      /\ Head(queue) = queue[1] /\ 1 \in 1..Len(queue)
  BY <1>0
<1>2. /\ \A k \in 1..Len(queue) : writer.at <= queue[k]
      /\ \A j, k \in 1..Len(queue) : j < k => queue[j] < queue[k]
      /\ \A k \in 1..Len(queue) : \A b \in BlobIds : writer.at <= b /\ b < queue[k] => Queued(b)
      /\ feeder.pc = "queue" => /\ writer.at <= feeder.i
                                /\ \A k \in 1..Len(queue) : queue[k] < feeder.i
                                /\ \A b \in BlobIds : writer.at <= b /\ b < feeder.i => Queued(b)
      /\ feeder.pc = "hand" => /\ \A k \in 1..Len(queue) : queue[k] <= feeder.i
                               /\ writer.at <= feeder.i + 1
                               /\ \A b \in BlobIds : writer.at <= b /\ b <= feeder.i => Queued(b)
  BY DEF SaveInv, QueueInOrder, Wanted, Writing
<1>3. queue[1] = writer.at
  <2> SUFFICES ASSUME writer.at < queue[1] PROVE FALSE
    BY <1>0, <1>1, <1>2
  <2>1. PICK j \in 1..Len(queue) : queue[j] = writer.at
    BY <1>0, <1>1, <1>2 DEF Queued
  <2>2. j = 1 \/ 1 < j
    BY <1>0
  <2> QED
    BY <1>0, <1>1, <1>2, <2>1, <2>2
<1>4. writer' \in Writers /\ writer'.pc = "wait" /\ writer'.at = writer.at /\ writer'.held = writer.at /\ writer'.err = writer.err
  BY <1>0, <1>1, <1>3 DEF Writers
<1>5. ASSUME NEW b \in BlobIds
      PROVE  /\ Queued(b)' => Queued(b)
             /\ Queued(b) => Queued(b)' \/ b = writer.at
  <2>1. Queued(b)' => Queued(b)
    BY <1>1 DEF Queued
  <2>2. ASSUME Queued(b), b # writer.at
        PROVE  Queued(b)'
    <3>1. PICK k \in 1..Len(queue) : queue[k] = b
      BY <2>2 DEF Queued
    <3>2. k # 1
      BY <1>3, <2>2, <3>1
    <3>3. k - 1 \in 1..Len(queue') /\ (k - 1) + 1 = k
      BY <1>0, <1>1, <3>2
    <3>4. queue'[k - 1] = b
      BY <1>1, <3>1, <3>3
    <3> QED
      BY <3>3, <3>4 DEF Queued
  <2> QED
    BY <2>1, <2>2
<1>6. SaveTypeOK'
  BY <1>0, <1>1, <1>4, BlobNat DEF SaveInv, SaveTypeOK
<1>7. QueueInOrder'
  <2>1. Wanted' = writer.at + 1
    BY <1>4 DEF Wanted
  <2>2. \A k \in 1..Len(queue') : writer.at + 1 <= queue'[k]
    <3> TAKE k \in 1..Len(queue')
    <3>1. queue[1] < queue[k + 1] /\ queue'[k] = queue[k + 1] /\ queue[k + 1] \in Nat
      BY <1>0, <1>1, <1>2
    <3> QED
      BY <1>0, <1>3, <3>1
  <2>3. \A j, k \in 1..Len(queue') : j < k => queue'[j] < queue'[k]
    <3> TAKE j, k \in 1..Len(queue')
    <3>1. j < k => j + 1 < k + 1
      BY <1>0, <1>1
    <3> QED
      BY <1>1, <1>2, <3>1
  <2>4. \A b \in BlobIds : writer.at + 1 <= b => writer.at <= b /\ b # writer.at
    BY <1>0, BlobNat
  <2>5. \A k \in 1..Len(queue') : \A b \in BlobIds : writer.at + 1 <= b /\ b < queue'[k] => Queued(b)'
    BY <1>1, <1>2, <1>5, <2>4
  <2>6. feeder.pc = "queue" => /\ writer.at + 1 <= feeder.i
                               /\ \A k \in 1..Len(queue') : queue'[k] < feeder.i
                               /\ \A b \in BlobIds : writer.at + 1 <= b /\ b < feeder.i => Queued(b)'
    <3>1. feeder.pc = "queue" => writer.at + 1 <= feeder.i
      BY <1>0, <1>1, <1>2, <1>3
    <3> QED
      BY <1>1, <1>2, <1>5, <2>4, <3>1
  <2>7. feeder.pc = "hand" => /\ \A k \in 1..Len(queue') : queue'[k] <= feeder.i
                              /\ writer.at + 1 <= feeder.i + 1
                              /\ \A b \in BlobIds : writer.at + 1 <= b /\ b <= feeder.i => Queued(b)'
    <3>1. feeder.pc = "hand" => writer.at + 1 <= feeder.i + 1
      BY <1>0, <1>1, <1>2, <1>3
    <3> QED
      BY <1>1, <1>2, <1>5, <2>4, <3>1
  <2> QED
    BY <2>1, <2>2, <2>3, <2>5, <2>6, <2>7 DEF QueueInOrder
<1>8. WorkIsQueued'
  <2>1. /\ feeder.pc = "hand" => feeder.i \in BlobIds /\ Queued(feeder.i)
        /\ \A w \in SaveWorkers : Busy(w) => builders[w].blob \in BlobIds /\ Queued(builders[w].blob)
        /\ \A b \in files : b \in BlobIds /\ Queued(b)
    BY DEF SaveInv, SaveTypeOK, WorkIsQueued, HeldIsCurrent
  <2> QED
    BY <1>4, <1>5, <2>1 DEF WorkIsQueued, Busy
<1>9. HandedOnce' /\ HeldIsCurrent'
  BY <1>4 DEF SaveInv, HandedOnce, HeldIsCurrent, Busy
<1>10. CancelHasCause' /\ ArchiveInOrder'
  BY <1>4 DEF SaveInv, CancelHasCause, ArchiveInOrder, Writing
<1> QED
  BY <1>6, <1>7, <1>8, <1>9, <1>10 DEF SaveInv

(***************************************************************************)
(* Every step of the writer through the archive keeps the invariant.       *)
(***************************************************************************)
LEMMA WritingInv ==
  ASSUME SaveInv, writeManifest \/ nextTakes \/ copyStaged \/ nextStops \/ writeTail
  PROVE  SaveInv'
<1>0. /\ UNCHANGED <<feeder, builders, staged, inner, souter, serr, output>>
      /\ writer.pc \in Writing
  BY DEF writeManifest, nextTakes, copyStaged, nextStops, writeTail, WriterOnly, Writing
<1>1. sfaults \in Nat /\ (SaveFault \/ UNCHANGED sfaults => sfaults' \in Nat)
  BY DEF SaveInv, SaveTypeOK, SaveFault
<1>2. writer.at \in EntryIds \/ writer.at = End
  BY BlobIdsNat DEF SaveInv, SaveTypeOK, Writers, End
<1>3. ASSUME Returns("fault"), UNCHANGED <<queue, archive, files>>, SaveFault \/ UNCHANGED sfaults
      PROVE  SaveInv'
  BY <1>0, <1>1, <1>3, ReturnsInv DEF Errs
<1>4. ASSUME NEW e \in {"fault", "cancel"}, Returns(failure(e)), UNCHANGED <<queue, archive, files, sfaults>>,
             e = "cancel" => Cancelled \/ \E b \in BlobIds : staged[b].err = "cancel"
      PROVE  SaveInv'
  <2>1. failure(e) \in Errs /\ failure(e) # "none" /\ (failure(e) = "cancel" => souter)
    BY <1>0, <1>4, FailureOK
  <2> QED
    BY <1>0, <1>1, <1>4, <2>1, ReturnsInv
<1>5. CASE writeManifest
  <2>1. writer.pc = "entry" /\ writer.at \in EntryIds \ BlobIds /\ UNCHANGED <<queue, files>>
    BY <1>5 DEF writeManifest
  <2>2. CASE archive' = Append(archive, writer.at) /\ Advance /\ UNCHANGED sfaults
    <3>1. files' = files \ {writer.held}
      BY <2>1 DEF SaveInv, HeldIsCurrent
    <3> QED
      BY <1>0, <2>1, <2>2, <3>1, AdvanceInv
  <2>3. CASE SaveFault /\ Returns("fault") /\ UNCHANGED archive
    BY <1>3, <2>1, <2>3
  <2> QED
    BY <1>5, <2>2, <2>3 DEF writeManifest
<1>6. CASE nextTakes
  <2>1. writer.pc = "entry" /\ writer.at \in BlobIds /\ UNCHANGED <<archive, files, sfaults>>
    BY <1>6 DEF nextTakes
  <2>2. CASE /\ queue # <<>>
             /\ writer' = [writer EXCEPT !.pc = "wait", !.held = Head(queue)]
             /\ queue' = Tail(queue)
    BY <1>0, <2>1, <2>2, TakeInv
  <2>3. CASE Cancelled /\ Returns(failure("cancel")) /\ UNCHANGED queue
    BY <1>4, <2>1, <2>3
  <2> QED
    BY <1>6, <2>2, <2>3 DEF nextTakes
<1>7. CASE copyStaged
  <2> DEFINE s == staged[writer.held]
  <2>1. /\ writer.pc = "wait" /\ s.done /\ UNCHANGED queue
        /\ writer.held = writer.at /\ writer.held \in BlobIds /\ s.err \in Errs
    BY <1>7 DEF copyStaged, SaveInv, SaveTypeOK, StagedBlobs, HeldIsCurrent
  <2>2. CASE s.err # "none" /\ Returns(failure(s.err)) /\ UNCHANGED <<archive, files, sfaults>>
    BY <1>4, <2>1, <2>2 DEF Errs
  <2>3. CASE Returns("fault") /\ UNCHANGED <<archive, files>> /\ (SaveFault \/ UNCHANGED sfaults)
    BY <1>3, <2>1, <2>3
  <2>4. CASE archive' = Append(archive, writer.held) /\ files' = files \ {writer.held} /\ Advance /\ UNCHANGED sfaults
    <3>1. writer.at \in EntryIds
      BY <2>1 DEF BlobIds
    <3> QED
      BY <1>0, <2>1, <2>4, <3>1, AdvanceInv
  <2> QED
    BY <1>7, <2>2, <2>3, <2>4 DEF copyStaged
<1>8. CASE nextStops
  BY <1>4, <1>8 DEF nextStops
<1>9. CASE writeTail
  <2>1. /\ UNCHANGED <<queue, archive, files>> /\ (SaveFault \/ UNCHANGED sfaults)
        /\ writer.at = End
    BY <1>2, <1>9, BlobIdsNat DEF writeTail
  <2>2. CASE Returns("none")
    BY <1>0, <1>1, <2>1, <2>2, ReturnsInv DEF Errs
  <2>3. CASE Returns("fault")
    BY <1>3, <2>1, <2>3
  <2> QED
    BY <1>9, <2>2, <2>3 DEF writeTail
<1> QED
  BY <1>5, <1>6, <1>7, <1>8, <1>9

(***************************************************************************)
(* Closing the stager cancels, waits for everybody and removes what is     *)
(* staged; the output is then kept or removed.                             *)
(***************************************************************************)
LEMMA ClosingInv ==
  ASSUME SaveInv, closeStager \/ finishOutput
  PROVE  SaveInv'
<1>1. /\ writer \in Writers /\ writer.pc \notin Writing
      /\ UNCHANGED <<feeder, queue, builders, staged, souter, serr, archive>>
  BY DEF SaveInv, SaveTypeOK, closeStager, finishOutput, Writing
<1>2. /\ writer' \in Writers /\ writer'.held = writer.held
      /\ \/ writer'.pc = "closing" /\ writer'.err = writer.err /\ UNCHANGED <<files, output, sfaults>> /\ inner' = TRUE
         \/ /\ writer'.pc = "flush" /\ writer'.err = writer.err /\ files' = {} /\ UNCHANGED <<inner, output, sfaults>>
            /\ \A w \in SaveWorkers : builders[w].pc = "exit"
         \/ /\ writer.pc = "flush" /\ writer'.pc = "done" /\ UNCHANGED <<files, inner>> /\ sfaults' \in Nat
            /\ output' = IF writer'.err = "none" THEN "whole" ELSE "removed"
            /\ writer'.err = writer.err \/ writer'.err = "fault"
  <2>1. CASE closeStager
    BY <1>1, <2>1 DEF closeStager, Writers
  <2>2. CASE finishOutput
    <3>1. writer.pc = "flush" /\ sfaults' \in Nat /\ UNCHANGED <<files, inner>>
      BY <2>2 DEF finishOutput, SaveInv, SaveTypeOK, SaveFault
    <3>2. CASE writer' = [writer EXCEPT !.pc = "done"] /\ output' = IF writer.err = "none" THEN "whole" ELSE "removed"
      BY <1>1, <3>1, <3>2 DEF Writers
    <3>3. CASE writer' = [writer EXCEPT !.pc = "done", !.err = "fault"] /\ output' = "removed"
      BY <1>1, <3>1, <3>3 DEF Writers, Errs
    <3> QED
      BY <2>2, <3>2, <3>3 DEF finishOutput
  <2> QED
    BY <2>1, <2>2
<1>3. writer'.pc \in {"closing", "flush", "done"}
  BY <1>2
<1>4. SaveTypeOK'
  BY <1>1, <1>2 DEF SaveInv, SaveTypeOK
<1>5. QueueInOrder' /\ HeldIsCurrent'
  BY <1>3 DEF QueueInOrder, HeldIsCurrent, Writing
<1>6. WorkIsQueued'
  BY <1>1, <1>2 DEF SaveInv, WorkIsQueued, Queued, Busy
<1>7. HandedOnce'
  BY <1>1 DEF SaveInv, HandedOnce, Busy
<1>8. CancelHasCause'
  BY <1>1, <1>2 DEF SaveInv, CancelHasCause, Writing
<1>9. ArchiveInOrder'
  BY <1>1, <1>2 DEF SaveInv, ArchiveInOrder, Writing
<1> QED
  BY <1>4, <1>5, <1>6, <1>7, <1>8, <1>9 DEF SaveInv

(***************************************************************************)
(* The caller's cancellation, and steps of others, change nothing else.    *)
(***************************************************************************)
LEMMA CancelledInv ==
  ASSUME SaveInv, souter' \in {souter, TRUE},
         UNCHANGED <<writer, feeder, queue, builders, staged, files, inner, serr, archive, output, sfaults>>
  PROVE  SaveInv'
<1>1. SaveTypeOK'
  BY DEF SaveInv, SaveTypeOK
<1>2. QueueInOrder' /\ WorkIsQueued'
  BY DEF SaveInv, QueueInOrder, WorkIsQueued, Wanted, Queued, Busy
<1>3. HandedOnce' /\ HeldIsCurrent' /\ ArchiveInOrder'
  BY DEF SaveInv, HandedOnce, HeldIsCurrent, ArchiveInOrder, Busy
<1>4. CancelHasCause'
  BY DEF SaveInv, CancelHasCause
<1> QED
  BY <1>1, <1>2, <1>3, <1>4 DEF SaveInv

-----------------------------------------------------------------------------
(***************************************************************************)
(* Every step of a save keeps the invariant.                               *)
(***************************************************************************)
LEMMA SaveNextInv == SaveInv /\ [SaveNext]_saveVars => SaveInv'
<1> SUFFICES ASSUME SaveInv, [SaveNext]_saveVars PROVE SaveInv'
  OBVIOUS
<1>1. CASE FeederStep
  BY <1>1, FeederQueuesInv, FeederHandsInv, FeederStopsInv DEF FeederStep
<1>2. CASE WriterStep
  BY <1>2, WritingInv, ClosingInv DEF WriterStep
<1>3. CASE saveCancelled
  BY <1>3, CancelledInv DEF saveCancelled
<1>4. CASE UNCHANGED saveVars
  BY <1>4, CancelledInv DEF saveVars
<1> QED
  BY <1>1, <1>2, <1>3, <1>4, BuilderInv DEF SaveNext

(***************************************************************************)
(* A sequence has at most as many elements as it is long.                  *)
(***************************************************************************)
LEMMA ElementsBounded ==
  ASSUME NEW S, NEW q \in Seq(S)
  PROVE  IsFiniteSet(ToSet(q)) /\ Cardinality(ToSet(q)) <= Len(q) /\ Cardinality(ToSet(q)) \in Nat
<1>1. Len(q) \in Nat /\ DOMAIN q = 1..Len(q) /\ q \in [1..Len(q) -> S]
  BY LenProperties
<1>2. IsFiniteSet(1..Len(q)) /\ Cardinality(1..Len(q)) = Len(q)
  <2>1. /\ IsFiniteSet(1..Len(q))
        /\ Cardinality(1..Len(q)) = IF 1 > Len(q) THEN 0 ELSE Len(q) - 1 + 1
    BY <1>1, FS_Interval
  <2> QED
    BY <1>1, <2>1
<1>3. q \in Surjection(1..Len(q), ToSet(q))
  BY <1>1 DEF Surjection, ToSet
<1>4. IsFiniteSet(ToSet(q)) /\ Cardinality(ToSet(q)) <= Cardinality(1..Len(q))
  BY <1>2, <1>3, FS_Surjection
<1> QED
  BY <1>2, <1>4, FS_CardinalityType

(***************************************************************************)
(* The invariant bounds what is staged.                                    *)
(***************************************************************************)
LEMMA InvStagingBounded == SaveInv => StagingBounded
<1> SUFFICES ASSUME SaveInv PROVE StagingBounded
  OBVIOUS
<1>1. queue \in Seq(BlobIds) /\ Len(queue) \in Nat /\ Len(queue) <= QueueCap /\ DOMAIN queue = 1..Len(queue)
  BY LenProperties DEF SaveInv, SaveTypeOK
<1>2. files \subseteq ToSet(queue) \cup {writer.held}
  BY <1>1 DEF SaveInv, WorkIsQueued, Queued, ToSet
<1>3. Cardinality(files) <= QueueCap + 1
  <2>1. IsFiniteSet(ToSet(queue)) /\ Cardinality(ToSet(queue)) <= Len(queue) /\ Cardinality(ToSet(queue)) \in Nat
    BY <1>1, ElementsBounded
  <2> DEFINE S == ToSet(queue) \cup {writer.held}
  <2>2. IsFiniteSet(S) /\ Cardinality(S) = IF writer.held \in ToSet(queue) THEN Cardinality(ToSet(queue)) ELSE Cardinality(ToSet(queue)) + 1
    BY <2>1, FS_AddElement
  <2>3. files \in SUBSET S
    BY <1>2
  <2> HIDE DEF S
  <2>4. IsFiniteSet(files) /\ Cardinality(files) <= Cardinality(S)
    BY <2>2, <2>3, FS_Subset
  <2>5. Cardinality(files) \in Nat /\ Cardinality(S) \in Nat
    BY <2>2, <2>4, FS_CardinalityType
  <2> QED
    BY <1>1, <2>1, <2>2, <2>4, <2>5, BlobNat
<1> QED
  BY <1>2, <1>3 DEF SaveInv, WorkIsQueued, StagingBounded

(***************************************************************************)
(* The invariant makes the outcome true.                                   *)
(***************************************************************************)
LEMMA InvTellsTheTruth == SaveInv => SaveTellsTheTruth
BY BlobIdsNat DEF SaveInv, ArchiveInOrder, CancelHasCause, SaveTellsTheTruth, Written, Writing

(***************************************************************************)
(* The invariant holds throughout a save, for any plan, any number of      *)
(* workers and any number of faults.                                       *)
(***************************************************************************)
THEOREM SaveInvariant == SaveSpec => []SaveInv
BY SaveInitInv, SaveNextInv, PTL DEF SaveSpec

(***************************************************************************)
(* The comment of stager: however far the workers run ahead, the staged    *)
(* files are those of the queue plus the one the writer holds, at most 2 * *)
(* workers + 1, and none is left nor can be made when Write has returned.  *)
(***************************************************************************)
THEOREM StagingBoundedHolds == SaveSpec => []StagingBounded
BY SaveInvariant, InvStagingBounded, PTL

(***************************************************************************)
(* A save that succeeds has written every entry once and in order; a       *)
(* failed one leaves no output, and says it was cancelled only when the    *)
(* caller did cancel.                                                      *)
(***************************************************************************)
THEOREM SaveTellsTheTruthHolds == SaveSpec => []SaveTellsTheTruth
BY SaveInvariant, InvTellsTheTruth, PTL

-----------------------------------------------------------------------------
(* The browser *)

\* What a frame, an image group and a message are.
Node == [kind : Listers \cup Openers, im : Nat]
Frame == [id : Nat, node : Node, loaded : BOOLEAN, loading : BOOLEAN, resolving : BOOLEAN]
Group ==
  [in : BOOLEAN, active : {"storage", "fs"}, storage : Seq(Frame), fs : Seq(Frame),
   fsNil : BOOLEAN, fsRoot : Nat]
Mail == [kind : {"load", "resolve"}, id : Nat]

\* A frame that waits is owed the message it waits for.
Owed(f, mail) ==
  /\ f.loading => [kind |-> "load", id |-> f.id] \in mail
  /\ f.resolving => [kind |-> "resolve", id |-> f.id] \in mail

\* A frame in which a symlink is followed has been loaded; ids are not given out twice.
FrameOK(f, mail, n) ==
  /\ f.id <= n
  /\ Owed(f, mail)
  /\ [kind |-> "resolve", id |-> f.id] \in mail => f.loaded

\* Stacks b and g, the mail on its way and the last id n agree.
StateOK(b, g, mail, n) ==
  /\ b \in Seq(Frame) /\ g \in Group /\ n \in Nat
  /\ mail \subseteq Mail /\ \A m \in mail : m.id <= n
  /\ \A f \in Frames(b, g) : FrameOK(f, mail, n)

\* The frame on screen is served.
TopOK(b, g) == HasTop(b, g) => Top(b, g).loaded \/ Top(b, g).loading

BrowserInv == StateOK(base, img, inflight, nextID) /\ TopOK(base, img)

(***************************************************************************)
(* The frames of a stack.                                                  *)
(***************************************************************************)
LEMMA StackFrames ==
  ASSUME NEW s \in Seq(Frame)
  PROVE  /\ DOMAIN s = 1..Len(s) /\ Len(s) \in Nat
         /\ ToSet(s) \subseteq Frame
         /\ \A i \in 1..Len(s) : s[i] \in ToSet(s)
         /\ s # <<>> => Last(s) \in ToSet(s)
  BY LenProperties, ElementOfSeq DEF ToSet, Last

(***************************************************************************)
(* A frame that is replaced is where it was.                               *)
(***************************************************************************)
LEMMA ReplaceOK ==
  ASSUME NEW s \in Seq(Frame), NEW f \in Frame
  PROVE  /\ Replace(s, f) \in Seq(Frame) /\ Len(Replace(s, f)) = Len(s)
         /\ \A x \in ToSet(Replace(s, f)) : x = f \/ (x \in ToSet(s) /\ x.id # f.id)
         /\ s # <<>> => Last(Replace(s, f)) = IF Last(s).id = f.id THEN f ELSE Last(s)
<1> DEFINE r == Replace(s, f)
<1>1. DOMAIN s = 1..Len(s) /\ Len(s) \in Nat /\ \A i \in 1..Len(s) : s[i] \in Frame
  BY LenProperties, ElementOfSeq
<1>2. r \in [1..Len(s) -> Frame] /\ \A i \in 1..Len(s) : r[i] = IF s[i].id = f.id THEN f ELSE s[i]
  BY <1>1 DEF Replace
<1>3. r \in Seq(Frame) /\ Len(r) = Len(s)
  <2> HIDE DEF r
  <2> QED
    BY <1>1, <1>2, SeqDef, LenProperties
<1>4. s # <<>> => Len(s) \in 1..Len(s)
  BY <1>1, EmptySeq
<1> HIDE DEF r
<1>5. \A x \in ToSet(r) : x = f \/ (x \in ToSet(s) /\ x.id # f.id)
  BY <1>1, <1>2, <1>3 DEF ToSet
<1>6. s # <<>> => Last(r) = IF Last(s).id = f.id THEN f ELSE Last(s)
  BY <1>2, <1>3, <1>4 DEF Last
<1> QED
  BY <1>3, <1>5, <1>6 DEF r

(***************************************************************************)
(* Replacing a frame in both stacks of a group.                            *)
(***************************************************************************)
LEMMA ReplaceInOK ==
  ASSUME NEW b \in Seq(Frame), NEW g \in Group, NEW f \in Frame
  PROVE  /\ Replace(b, f) \in Seq(Frame) /\ ReplaceIn(g, f) \in Group
         /\ \A x \in Frames(Replace(b, f), ReplaceIn(g, f)) : x = f \/ (x \in Frames(b, g) /\ x.id # f.id)
         /\ HasTop(Replace(b, f), ReplaceIn(g, f)) <=> HasTop(b, g)
         /\ HasTop(b, g) => Top(Replace(b, f), ReplaceIn(g, f)) = IF Top(b, g).id = f.id THEN f ELSE Top(b, g)
<1> DEFINE h == ReplaceIn(g, f)
<1>1. g.storage \in Seq(Frame) /\ g.fs \in Seq(Frame)
  BY DEF Group
<1>2. Replace(b, f) \in Seq(Frame) /\ Replace(g.storage, f) \in Seq(Frame) /\ Replace(g.fs, f) \in Seq(Frame)
  BY <1>1, ReplaceOK
<1>3. h \in Group /\ h.storage = Replace(g.storage, f) /\ h.fs = Replace(g.fs, f) /\ h.in = g.in /\ h.active = g.active
  BY <1>2 DEF ReplaceIn, Group
<1> HIDE DEF h
<1>4. \A x \in Frames(Replace(b, f), h) : x = f \/ (x \in Frames(b, g) /\ x.id # f.id)
  BY <1>1, <1>3, ReplaceOK DEF Frames
<1>5. Stack(Replace(b, f), h) = Replace(Stack(b, g), f) /\ Stack(b, g) \in Seq(Frame)
  BY <1>1, <1>3 DEF Stack, activeStack
<1>6. Len(Replace(Stack(b, g), f)) = Len(Stack(b, g)) /\ Replace(Stack(b, g), f) \in Seq(Frame)
  BY <1>5, ReplaceOK
<1>7. Stack(Replace(b, f), h) # <<>> <=> Stack(b, g) # <<>>
  BY <1>5, <1>6, EmptySeq
<1>8. Stack(b, g) # <<>> => Last(Stack(Replace(b, f), h)) = IF Last(Stack(b, g)).id = f.id THEN f ELSE Last(Stack(b, g))
  BY <1>5, ReplaceOK
<1> QED
  BY <1>2, <1>3, <1>4, <1>7, <1>8 DEF h, HasTop, Top

(***************************************************************************)
(* The frame on screen is one of the frames.                               *)
(***************************************************************************)
LEMMA TopIsFrame ==
  ASSUME NEW b \in Seq(Frame), NEW g \in Group, HasTop(b, g)
  PROVE  Top(b, g) \in Frames(b, g) /\ Top(b, g) \in Frame
<1>1. g.storage \in Seq(Frame) /\ g.fs \in Seq(Frame)
  BY DEF Group
<1>2. Stack(b, g) \in Seq(Frame) /\ ToSet(Stack(b, g)) \subseteq Frames(b, g)
  BY <1>1 DEF Stack, activeStack, Frames
<1> QED
  BY <1>2, StackFrames DEF HasTop, Top

(***************************************************************************)
(* Frames are frames.                                                      *)
(***************************************************************************)
LEMMA FramesAre ==
  ASSUME NEW b \in Seq(Frame), NEW g \in Group
  PROVE  Frames(b, g) \subseteq Frame
  BY StackFrames DEF Frames, Group

(***************************************************************************)
(* Messages are told apart by their kind and by their id.                  *)
(***************************************************************************)
LEMMA MailFields ==
  ASSUME NEW i \in Nat
  PROVE  /\ [kind |-> "load", id |-> i] \in Mail /\ [kind |-> "load", id |-> i].id = i
         /\ [kind |-> "resolve", id |-> i] \in Mail /\ [kind |-> "resolve", id |-> i].id = i
         /\ \A j : [kind |-> "load", id |-> i] # [kind |-> "resolve", id |-> j]
         /\ \A j : [kind |-> "resolve", id |-> j] = [kind |-> "resolve", id |-> i] <=> j = i
         /\ \A j : [kind |-> "load", id |-> j] = [kind |-> "load", id |-> i] <=> j = i
<1>1. \A j : [kind |-> "load", id |-> i].kind # [kind |-> "resolve", id |-> j].kind
  OBVIOUS
<1>2. \A j : [kind |-> "resolve", id |-> j].id = j /\ [kind |-> "load", id |-> j].id = j
  OBVIOUS
<1> QED
  BY <1>1, <1>2 DEF Mail

(***************************************************************************)
(* ensureLoaded leaves a good state with the frame on screen served.       *)
(***************************************************************************)
LEMMA EnsureLoadedOK ==
  ASSUME NEW b, NEW g, NEW n, NEW mail, StateOK(b, g, mail, n), ensureLoaded(b, g, n, mail)
  PROVE  BrowserInv'
<1>1. /\ b \in Seq(Frame) /\ g \in Group /\ n \in Nat /\ mail \subseteq Mail
      /\ \A m \in mail : m.id <= n
      /\ \A f \in Frames(b, g) : FrameOK(f, mail, n)
  BY DEF StateOK
<1> DEFINE f == Top(b, g)
           loads == HasTop(b, g) /\ ~f.loaded /\ ~f.loading
           r == [f EXCEPT !.loading = TRUE]
           letter == [kind |-> "load", id |-> f.id]
<1>2. CASE ~loads
  <2>1. base' = b /\ img' = g /\ inflight' = mail /\ nextID' = n
    BY <1>2 DEF ensureLoaded
  <2>2. TopOK(b, g)
    BY <1>2 DEF TopOK
  <2> QED
    BY <2>1, <2>2 DEF BrowserInv, StateOK, TopOK
<1>3. CASE loads
  <2>1. base' = Replace(b, r) /\ img' = ReplaceIn(g, r) /\ inflight' = mail \cup {letter} /\ nextID' = n
    BY <1>3 DEF ensureLoaded
  <2>2. f \in Frames(b, g) /\ f \in Frame
    BY <1>1, <1>3, TopIsFrame
  <2> HIDE DEF f
  <2>3. r \in Frame /\ r.id = f.id /\ r.loading /\ r.loaded = f.loaded /\ r.resolving = f.resolving
    BY <2>2 DEF Frame
  <2> HIDE DEF r
  <2>4. f.id \in Nat /\ f.id <= n /\ FrameOK(f, mail, n) /\ ~f.loaded
    BY <1>1, <1>3, <2>2 DEF FrameOK, Frame
  <2>5. letter \in Mail /\ letter.id = f.id /\ \A j : letter # [kind |-> "resolve", id |-> j]
    BY <2>4, MailFields
  <2> DEFINE nmail == mail \cup {letter}
  <2>6. nmail \subseteq Mail /\ \A m \in nmail : m.id <= n
    BY <1>1, <2>4, <2>5
  <2>7. FrameOK(r, nmail, n)
    <3>1. [kind |-> "load", id |-> r.id] \in nmail
      BY <2>3
    <3> HIDE DEF letter
    <3> QED
      BY <2>3, <2>4, <2>5, <3>1 DEF FrameOK, Owed
  <2>8. ASSUME NEW x \in Frames(b, g)
        PROVE  FrameOK(x, nmail, n)
    <3> HIDE DEF letter
    <3> QED
      BY <1>1, <2>5 DEF FrameOK, Owed
  <2> HIDE DEF letter, nmail
  <2>9. StateOK(base', img', inflight', nextID')
    <3>1. base' \in Seq(Frame) /\ img' \in Group
      BY <1>1, <2>1, <2>3, ReplaceInOK
    <3>2. \A x \in Frames(base', img') : x = r \/ x \in Frames(b, g)
      BY <1>1, <2>1, <2>3, ReplaceInOK
    <3> QED
      BY <1>1, <2>1, <2>6, <2>7, <2>8, <3>1, <3>2 DEF StateOK, nmail
  <2>10. TopOK(base', img')
    <3>1. Top(base', img') = r
      BY <1>1, <1>3, <2>1, <2>3, ReplaceInOK DEF f
    <3> QED
      BY <2>3, <3>1 DEF TopOK
  <2> QED
    BY <2>9, <2>10 DEF BrowserInv, StateOK, TopOK, Frames, HasTop, Top, Stack, activeStack
<1> QED
  BY <1>2, <1>3

(***************************************************************************)
(* A frame that is taken out leaves the others.                            *)
(***************************************************************************)
LEMMA WithoutOK ==
  ASSUME NEW s \in Seq(Frame), NEW f
  PROVE  Without(s, f) \in Seq(Frame) /\ ToSet(Without(s, f)) \subseteq ToSet(s)
<1> DEFINE places == {i \in DOMAIN s : s[i].id = f.id}
           k == CHOOSE i \in places : TRUE
<1>1. CASE places = {}
  BY <1>1 DEF Without
<1>2. CASE places # {}
  <2>1. k \in 1..Len(s) /\ Len(s) \in Nat /\ Without(s, f) = RemoveAt(s, k)
    <3>1. k \in places
      BY <1>2
    <3> QED
      BY <1>2, <3>1, LenProperties DEF Without
  <2> HIDE DEF k, places
  <2> DEFINE x == SubSeq(s, 1, k - 1)  y == SubSeq(s, k + 1, Len(s))
  <2>2. x \in Seq(Frame) /\ y \in Seq(Frame) /\ Len(x) \in Nat /\ Len(y) \in Nat
    BY <2>1, SubSeqProperties, LenProperties
  <2>3. /\ Len(x) = k - 1 /\ \A i \in 1..Len(x) : x[i] = s[i] /\ i \in 1..Len(s)
        /\ \A i \in 1..Len(y) : y[i] = s[k + i] /\ k + i \in 1..Len(s)
    <3>1. Len(x) = k - 1 /\ \A i \in 1..(k - 1) : x[i] = s[i]
      BY <2>1, SubSeqProperties
    <3>2. Len(y) = Len(s) - k /\ \A i \in 1..(Len(s) - k) : y[i] = s[k + i]
      BY <2>1, SubSeqProperties
    <3> HIDE DEF x, y
    <3> QED
      BY <2>1, <3>1, <3>2
  <2> HIDE DEF x, y
  <2>4. x \o y \in Seq(Frame) /\ DOMAIN (x \o y) = 1..(Len(x) + Len(y))
        /\ \A i \in 1..(Len(x) + Len(y)) : (x \o y)[i] = IF i <= Len(x) THEN x[i] ELSE y[i - Len(x)]
    BY <2>2, ConcatProperties, LenProperties
  <2>5. ASSUME NEW i \in 1..(Len(x) + Len(y))
        PROVE  (x \o y)[i] \in ToSet(s)
    <3>1. CASE i <= Len(x)
      <4>1. i \in 1..Len(x)
        BY <2>2, <3>1
      <4> QED
        BY <2>3, <2>4, <3>1, <4>1, StackFrames
    <3>2. CASE ~(i <= Len(x))
      <4>1. i - Len(x) \in 1..Len(y)
        BY <2>2, <3>2
      <4> QED
        BY <2>3, <2>4, <3>2, <4>1, StackFrames
    <3> QED
      BY <3>1, <3>2
  <2> QED
    BY <2>1, <2>4, <2>5 DEF RemoveAt, x, y, ToSet
<1> QED
  BY <1>1, <1>2

(***************************************************************************)
(* Outside an image both of its stacks are empty.                          *)
(***************************************************************************)
LEMMA NoImageOK ==
  NoImage \in Group /\ NoImage.storage = <<>> /\ NoImage.fs = <<>>
  BY DEF NoImage, Group

(***************************************************************************)
(* A popped frame leaves good stacks with fewer frames.                    *)
(***************************************************************************)
LEMMA PoppedOK ==
  ASSUME NEW b \in Seq(Frame), NEW g \in Group, NEW f
  PROVE  /\ PoppedBase(b, g, f) \in Seq(Frame) /\ PoppedGroup(g, f) \in Group
         /\ Frames(PoppedBase(b, g, f), PoppedGroup(g, f)) \subseteq Frames(b, g)
<1>1. PoppedBase(b, g, f) \in Seq(Frame) /\ ToSet(PoppedBase(b, g, f)) \subseteq ToSet(b)
  BY WithoutOK DEF PoppedBase
<1>2. g.storage \in Seq(Frame) /\ g.fs \in Seq(Frame)
  BY DEF Group
<1> DEFINE st == Without(g.storage, f)  fs == Without(g.fs, f)
           r == [g EXCEPT !.storage = st, !.fs = fs]
           q == [r EXCEPT !.active = "storage", !.fsRoot = 0]
           t == IF r.fs = <<>> /\ r.active = "fs" THEN q ELSE r
<1>3. /\ st \in Seq(Frame) /\ fs \in Seq(Frame)
      /\ ToSet(st) \subseteq ToSet(g.storage) /\ ToSet(fs) \subseteq ToSet(g.fs)
  BY <1>2, WithoutOK
<1>4. PoppedImage(g, f) = IF t.storage = <<>> THEN NoImage ELSE t
  BY DEF PoppedImage
<1> HIDE DEF st, fs
<1>5. r \in Group /\ r.storage = st /\ r.fs = fs
  BY <1>3 DEF Group
<1> HIDE DEF r
<1>6. q \in Group /\ q.storage = st /\ q.fs = fs
  BY <1>5 DEF Group
<1> HIDE DEF q
<1>7. t \in Group /\ t.storage = st /\ t.fs = fs
  BY <1>5, <1>6
<1> HIDE DEF t
<1>8. PoppedImage(g, f) \in Group /\ ToSet(PoppedImage(g, f).storage) \subseteq ToSet(g.storage)
      /\ ToSet(PoppedImage(g, f).fs) \subseteq ToSet(g.fs)
  <2>1. ToSet(<<>>) = {}
    BY DEF ToSet
  <2> QED
    BY <1>3, <1>4, <1>7, <2>1, NoImageOK
<1>9. PoppedGroup(g, f) \in Group /\ ToSet(PoppedGroup(g, f).storage) \subseteq ToSet(g.storage)
      /\ ToSet(PoppedGroup(g, f).fs) \subseteq ToSet(g.fs)
  BY <1>8 DEF PoppedGroup
<1> QED
  BY <1>1, <1>9 DEF Frames

(***************************************************************************)
(* Fewer frames are owed no more.                                          *)
(***************************************************************************)
LEMMA PoppedStateOK ==
  ASSUME NEW b, NEW g, NEW mail, NEW n, StateOK(b, g, mail, n), NEW f
  PROVE  StateOK(PoppedBase(b, g, f), PoppedGroup(g, f), mail, n)
<1>1. b \in Seq(Frame) /\ g \in Group
  BY DEF StateOK
<1> QED
  BY <1>1, PoppedOK DEF StateOK

(***************************************************************************)
(* A frame is replaced by one that is owed no more than the mail holds.    *)
(***************************************************************************)
LEMMA ReplacedStateOK ==
  ASSUME NEW b, NEW g, NEW mail, NEW n, StateOK(b, g, mail, n), NEW f \in Frame,
         NEW nmail, nmail \subseteq Mail, \A m \in nmail : m.id <= n,
         FrameOK(f, nmail, n),
         \A x \in Frames(b, g) : x.id # f.id => FrameOK(x, nmail, n)
  PROVE  StateOK(Replace(b, f), ReplaceIn(g, f), nmail, n)
<1>1. b \in Seq(Frame) /\ g \in Group /\ n \in Nat
  BY DEF StateOK
<1>2. Replace(b, f) \in Seq(Frame) /\ ReplaceIn(g, f) \in Group
  BY <1>1, ReplaceInOK
<1>3. \A x \in Frames(Replace(b, f), ReplaceIn(g, f)) : x = f \/ (x \in Frames(b, g) /\ x.id # f.id)
  BY <1>1, ReplaceInOK
<1> QED
  BY <1>1, <1>2, <1>3 DEF StateOK

(***************************************************************************)
(* A new frame has an id nobody has written to.                            *)
(***************************************************************************)
LEMMA NewFrameOK ==
  ASSUME NEW mail \in SUBSET Mail, NEW n \in Nat, \A m \in mail : m.id <= n, NEW node \in Node
  PROVE  newFrame(node, n + 1) \in Frame /\ FrameOK(newFrame(node, n + 1), mail, n + 1)
<1> DEFINE f == newFrame(node, n + 1)
<1>1. f \in Frame /\ f.id = n + 1 /\ ~f.loading /\ ~f.resolving
  BY DEF newFrame, Frame
<1>2. [kind |-> "resolve", id |-> n + 1] \notin mail
  <2>1. [kind |-> "resolve", id |-> n + 1].id = n + 1
    OBVIOUS
  <2> QED
    BY <2>1
<1> HIDE DEF f
<1>3. FrameOK(f, mail, n + 1)
  BY <1>1, <1>2 DEF FrameOK, Owed
<1> QED
  BY <1>1, <1>3 DEF f

(***************************************************************************)
(* Other frames are as before when the next id is given out.               *)
(***************************************************************************)
LEMMA NextIdOK ==
  ASSUME NEW b, NEW g, NEW mail, NEW n, StateOK(b, g, mail, n)
  PROVE  StateOK(b, g, mail, n + 1)
<1>1. b \in Seq(Frame) /\ g \in Group /\ n \in Nat /\ mail \subseteq Mail
  BY DEF StateOK
<1>2. \A f \in Frames(b, g) : f \in Frame /\ f.id \in Nat
  BY <1>1, FramesAre DEF Frame
<1>3. \A m \in mail : m.id \in Nat
  BY <1>1 DEF Mail
<1> QED
  BY <1>1, <1>2, <1>3 DEF StateOK, FrameOK

(***************************************************************************)
(* A stack with another frame on top.                                      *)
(***************************************************************************)
LEMMA AppendOK ==
  ASSUME NEW s \in Seq(Frame), NEW f \in Frame
  PROVE  Append(s, f) \in Seq(Frame) /\ ToSet(Append(s, f)) \subseteq ToSet(s) \cup {f}
<1>1. /\ Append(s, f) \in Seq(Frame) /\ Len(Append(s, f)) = Len(s) + 1 /\ Len(s) \in Nat
      /\ \A i \in 1..Len(s) : Append(s, f)[i] = s[i] /\ Append(s, f)[Len(s) + 1] = f
  BY AppendProperties, LenProperties
<1>2. DOMAIN Append(s, f) = 1..(Len(s) + 1)
  BY <1>1, LenProperties
<1>3. ASSUME NEW i \in 1..(Len(s) + 1)
      PROVE  Append(s, f)[i] \in ToSet(s) \cup {f}
  <2>1. i \in 1..Len(s) \/ i = Len(s) + 1
    BY <1>1
  <2>2. Append(s, f)[Len(s) + 1] = f
    BY AppendProperties
  <2> QED
    BY <1>1, <2>1, <2>2, StackFrames
<1> QED
  BY <1>1, <1>2, <1>3 DEF ToSet

(***************************************************************************)
(* A stack of one frame.                                                   *)
(***************************************************************************)
LEMMA SingleOK ==
  ASSUME NEW f \in Frame
  PROVE  <<f>> \in Seq(Frame) /\ ToSet(<<f>>) = {f}
<1>1. <<f>> \in Seq(Frame) /\ DOMAIN <<f>> = {1} /\ <<f>>[1] = f
  OBVIOUS
<1> QED
  BY <1>1 DEF ToSet

(***************************************************************************)
(* What the rows of a listing open are nodes, or a link to follow.         *)
(***************************************************************************)
LEMMA RowsOK ==
  ASSUME NEW node \in Node, NEW n \in Rows(node), n.kind # "fslink"
  PROVE  n \in Node
<1> USE DEF N
<1>1. node.kind \in Listers \cup Openers /\ node.im \in Nat /\ node.im + 1 \in Nat
  BY DEF Node
<1>2. \A im \in Nat : \A k \in Listers \cup Openers : N(k, im) \in Node
  BY DEF Node
<1>3. \A im \in Nat : fsRootFor(im) \in Node
  BY <1>2 DEF fsRootFor, Listers
<1>4. CASE node.kind = "repos"
  BY <1>2, <1>4 DEF Rows, ReposRows, Listers
<1>5. CASE node.kind = "repo"
  BY <1>2, <1>5 DEF Rows, RepoRows, Listers
<1>6. CASE node.kind = "image"
  <2>1. Rows(node) = ImageRows(node.im)
    BY <1>6 DEF Rows
  <2>2. n \in {N("sfile", node.im), N("manifests", node.im), N("sdir", node.im)}
    BY <2>1 DEF ImageRows
  <2> QED
    BY <1>1, <1>2, <2>2 DEF Listers, Openers
<1>7. CASE node.kind = "manifests"
  BY <1>1, <1>2, <1>7 DEF Rows, ManifestsRows, Listers
<1>8. CASE node.kind = "sdir"
  BY <1>1, <1>2, <1>8 DEF Rows, DirRows, Listers, Openers
<1>9. CASE node.kind = "chooser"
  BY <1>1, <1>3, <1>9 DEF Rows, ChooserRows
<1>10. CASE node.kind = "fsdir"
  <2>1. Rows(node) = FsDirRows(node.im)
    BY <1>10 DEF Rows
  <2>2. N("fslink", node.im).kind = "fslink"
    OBVIOUS
  <2>3. n = N("fsdir", node.im) \/ n = N("fsfile", node.im)
    BY <2>1, <2>2 DEF FsDirRows
  <2> QED
    BY <1>1, <1>2, <2>3 DEF Listers, Openers
<1>11. CASE node.kind \in Openers
  <2>1. node.kind \notin {"repos", "repo", "image", "manifests", "sdir", "chooser", "fsdir"}
    BY <1>11 DEF Openers
  <2> QED
    BY <1>11, <2>1 DEF Rows
<1> QED
  BY <1>1, <1>4, <1>5, <1>6, <1>7, <1>8, <1>9, <1>10, <1>11 DEF Listers

(***************************************************************************)
(* The image a stack is in.                                                *)
(***************************************************************************)
LEMMA RootOfOK ==
  ASSUME NEW s \in Seq(Frame)
  PROVE  RootOf(s) \in Nat
<1> DEFINE places == {i \in DOMAIN s : s[i].node.kind = "image"}
<1>1. Len(s) \in Nat /\ DOMAIN s = 1..Len(s) /\ \A i \in 1..Len(s) : s[i].node.im \in Nat
  <2>1. Len(s) \in Nat /\ DOMAIN s = 1..Len(s) /\ \A i \in 1..Len(s) : s[i] \in Frame
    BY LenProperties, ElementOfSeq
  <2> QED
    BY <2>1 DEF Frame, Node
<1>2. CASE places = {}
  BY <1>2 DEF RootOf
<1>3. CASE places # {}
  <2> DEFINE S == {Len(s) - i : i \in places}
  <2>1. S \in SUBSET Nat /\ S # {}
    BY <1>1, <1>3
  <2>2. PICK m \in S : \A n \in S : m <= n
    BY <2>1, MinNat
  <2>3. PICK i \in places : m = Len(s) - i
    BY <2>2
  <2>4. \A j \in places : j <= i
    <3> SUFFICES ASSUME NEW j \in places PROVE j <= i
      OBVIOUS
    <3>1. Len(s) - j \in S /\ i \in Int /\ j \in Int
      BY <1>1
    <3>2. Len(s) - i <= Len(s) - j
      BY <2>2, <2>3, <3>1
    <3> HIDE DEF S, places
    <3> QED
      BY <1>1, <3>1, <3>2
  <2> DEFINE k == CHOOSE x \in places : \A j \in places : j <= x
  <2>5. k \in places
    BY <2>3, <2>4
  <2>6. RootOf(s) = s[k].node.im
    BY <1>3 DEF RootOf
  <2> HIDE DEF k
  <2> QED
    BY <1>1, <2>5, <2>6
<1> QED
  BY <1>2, <1>3

(***************************************************************************)
(* push opens a frame, unless there is a link to follow first.             *)
(***************************************************************************)
LEMMA PushOK ==
  ASSUME NEW n \in Node, NEW from, NEW b, NEW g, NEW mail, StateOK(b, g, mail, nextID),
         n.kind # "fslink", push(n, from, b, g, mail)
  PROVE  BrowserInv'
<1> DEFINE f == newFrame(n, nextID + 1)
<1>1. /\ b \in Seq(Frame) /\ g \in Group /\ nextID \in Nat /\ mail \in SUBSET Mail /\ \A m \in mail : m.id <= nextID
      /\ StateOK(b, g, mail, nextID + 1)
  BY NextIdOK DEF StateOK
<1>2. f \in Frame /\ FrameOK(f, mail, nextID + 1)
  BY <1>1, NewFrameOK
<1>3. /\ g.in => ensureLoaded(b, setActiveStack(g, Append(Stack(b, g), f)), nextID + 1, mail)
      /\ ~g.in /\ n.kind = "image" => ensureLoaded(b, InImage(f), nextID + 1, mail)
      /\ ~g.in /\ n.kind # "image" => ensureLoaded(Append(b, f), g, nextID + 1, mail)
  BY DEF push
<1> HIDE DEF f
<1>4. ASSUME NEW c \in Seq(Frame), NEW h \in Group, Frames(c, h) \subseteq Frames(b, g) \cup {f}
      PROVE  StateOK(c, h, mail, nextID + 1)
  BY <1>1, <1>2, <1>4 DEF StateOK
<1>5. g.storage \in Seq(Frame) /\ g.fs \in Seq(Frame)
  BY <1>1 DEF Group
<1>6. CASE g.in
  <2> DEFINE s == Append(Stack(b, g), f)
             h == setActiveStack(g, s)
  <2>1. Stack(b, g) = IF g.active = "fs" THEN g.fs ELSE g.storage
    BY <1>6 DEF Stack, activeStack
  <2>2. s \in Seq(Frame) /\ ToSet(s) \subseteq ToSet(Stack(b, g)) \cup {f}
    BY <1>2, <1>5, <2>1, AppendOK
  <2> HIDE DEF s
  <2>3. h \in Group /\ h.storage = (IF g.active = "fs" THEN g.storage ELSE s) /\ h.fs = (IF g.active = "fs" THEN s ELSE g.fs)
    BY <1>1, <2>2 DEF setActiveStack, Group
  <2>4. ensureLoaded(b, h, nextID + 1, mail)
    BY <1>3, <1>6 DEF s
  <2> HIDE DEF h
  <2>5. Frames(b, h) \subseteq Frames(b, g) \cup {f}
    BY <2>1, <2>2, <2>3 DEF Frames
  <2> QED
    BY <1>1, <1>4, <2>3, <2>4, <2>5, EnsureLoadedOK
<1>7. CASE ~g.in /\ n.kind = "image"
  <2> DEFINE h == InImage(f)
  <2>1. <<f>> \in Seq(Frame) /\ ToSet(<<f>>) = {f}
    BY <1>2, SingleOK
  <2>2. h \in Group /\ h.storage = <<f>> /\ h.fs = <<>>
    <3> DEFINE s == <<f>>
    <3>1. s \in Seq(Frame)
      BY <2>1
    <3> HIDE DEF s
    <3>2. [NoImage EXCEPT !.in = TRUE, !.storage = s] \in Group
          /\ [NoImage EXCEPT !.in = TRUE, !.storage = s].storage = s
          /\ [NoImage EXCEPT !.in = TRUE, !.storage = s].fs = NoImage.fs
      BY <3>1, NoImageOK DEF Group
    <3> QED
      BY <3>2, NoImageOK DEF InImage, s
  <2>3. ensureLoaded(b, h, nextID + 1, mail)
    BY <1>3, <1>7
  <2> HIDE DEF h
  <2>4. Frames(b, h) \subseteq Frames(b, g) \cup {f}
    <3>1. ToSet(<<>>) = {}
      BY DEF ToSet
    <3> QED
      BY <2>1, <2>2, <3>1 DEF Frames
  <2> QED
    BY <1>1, <1>4, <2>2, <2>3, <2>4, EnsureLoadedOK
<1>8. CASE ~g.in /\ n.kind # "image"
  <2> DEFINE c == Append(b, f)
  <2>1. c \in Seq(Frame) /\ ToSet(c) \subseteq ToSet(b) \cup {f}
    BY <1>1, <1>2, AppendOK
  <2>2. ensureLoaded(c, g, nextID + 1, mail)
    BY <1>3, <1>8
  <2> HIDE DEF c
  <2>3. Frames(c, g) \subseteq Frames(b, g) \cup {f}
    BY <2>1 DEF Frames
  <2> QED
    BY <1>1, <1>4, <2>1, <2>2, <2>3, EnsureLoadedOK
<1> QED
  BY <1>6, <1>7, <1>8

(***************************************************************************)
(* Following a link leaves the frame on screen, with a message on its way. *)
(***************************************************************************)
LEMMA FollowOK ==
  ASSUME BrowserInv, HasTop(base, img), NEW n, n.kind = "fslink", Top(base, img).loaded,
         push(n, Top(base, img), base, img, inflight)
  PROVE  BrowserInv'
<1> DEFINE f == Top(base, img)
           r == [f EXCEPT !.resolving = TRUE]
           letter == [kind |-> "resolve", id |-> f.id]
           nmail == inflight \cup {letter}
<1>1. /\ base \in Seq(Frame) /\ img \in Group /\ nextID \in Nat /\ inflight \subseteq Mail
      /\ \A m \in inflight : m.id <= nextID
      /\ \A x \in Frames(base, img) : FrameOK(x, inflight, nextID)
      /\ StateOK(base, img, inflight, nextID)
  BY DEF BrowserInv, StateOK
<1>2. base' = Replace(base, r) /\ img' = ReplaceIn(img, r) /\ inflight' = nmail /\ nextID' = nextID
  BY DEF push
<1>3. f \in Frames(base, img) /\ f \in Frame
  BY <1>1, TopIsFrame
<1> HIDE DEF f
<1>4. r \in Frame /\ r.id = f.id /\ r.resolving /\ r.loaded = f.loaded /\ r.loading = f.loading
  BY <1>3 DEF Frame
<1> HIDE DEF r
<1>5. f.id \in Nat /\ f.id <= nextID /\ FrameOK(f, inflight, nextID) /\ f.loaded
  BY <1>1, <1>3 DEF FrameOK, Frame, f
<1>6. letter \in Mail /\ letter.id = f.id
      /\ (\A j : [kind |-> "resolve", id |-> j] = letter <=> j = f.id)
  BY <1>5, MailFields
<1>7. nmail \subseteq Mail /\ \A m \in nmail : m.id <= nextID
  BY <1>1, <1>5, <1>6
<1>8. FrameOK(r, nmail, nextID)
  <2>1. [kind |-> "resolve", id |-> r.id] \in nmail
    BY <1>4
  <2> HIDE DEF letter
  <2> QED
    BY <1>4, <1>5, <2>1 DEF FrameOK, Owed
<1>9. \A x \in Frames(base, img) : x.id # r.id => FrameOK(x, nmail, nextID)
  <2> HIDE DEF letter
  <2> QED
    BY <1>1, <1>4, <1>6 DEF FrameOK, Owed
<1> HIDE DEF letter, nmail
<1>10. StateOK(Replace(base, r), ReplaceIn(img, r), nmail, nextID)
  BY <1>1, <1>4, <1>7, <1>8, <1>9, ReplacedStateOK
<1>11. Top(Replace(base, r), ReplaceIn(img, r)) = r
  BY <1>1, <1>4, ReplaceInOK DEF f
<1>12. TopOK(Replace(base, r), ReplaceIn(img, r))
  BY <1>4, <1>5, <1>11 DEF TopOK
<1> QED
  BY <1>2, <1>10, <1>12 DEF BrowserInv, StateOK, TopOK

(***************************************************************************)
(* enter opens a row of the frame on screen.                               *)
(***************************************************************************)
LEMMA OpenOK ==
  ASSUME BrowserInv, open
  PROVE  BrowserInv'
<1> DEFINE f == Top(base, img)
<1>1. HasTop(base, img) /\ f.loaded
  BY DEF open
<1>2. PICK n \in Rows(f.node) : push(n, f, base, img, inflight)
  BY DEF open
<1>3. CASE n.kind = "fslink"
  BY <1>1, <1>2, <1>3, FollowOK
<1>4. CASE n.kind # "fslink"
  <2>1. base \in Seq(Frame) /\ img \in Group /\ StateOK(base, img, inflight, nextID)
    BY DEF BrowserInv, StateOK
  <2>2. f.node \in Node
    <3>1. f \in Frame
      BY <1>1, <2>1, TopIsFrame
    <3> HIDE DEF f
    <3> QED
      BY <3>1 DEF Frame
  <2>3. n \in Node
    BY <1>2, <1>4, <2>2, RowsOK
  <2> QED
    BY <1>2, <1>4, <2>1, <2>3, PushOK
<1> QED
  BY <1>3, <1>4

(***************************************************************************)
(* esc pops the frame on screen.                                           *)
(***************************************************************************)
LEMMA BackOK ==
  ASSUME BrowserInv, back
  PROVE  BrowserInv'
<1> DEFINE f == Top(base, img)
<1>1. ensureLoaded(PoppedBase(base, img, f), PoppedGroup(img, f), nextID, inflight)
  BY DEF back
<1>2. StateOK(PoppedBase(base, img, f), PoppedGroup(img, f), inflight, nextID)
  BY PoppedStateOK DEF BrowserInv
<1> QED
  BY <1>1, <1>2, EnsureLoadedOK

(***************************************************************************)
(* f changes to the other view, with a new stack when there is none.       *)
(***************************************************************************)
LEMMA ToggleOK ==
  ASSUME BrowserInv, toggleView
  PROVE  BrowserInv'
<1> DEFINE root == RootOf(img.storage)
           keep == ~img.fsNil /\ img.fsRoot = root
           f == newFrame(fsRootFor(root), nextID + 1)
<1>1. /\ base \in Seq(Frame) /\ img \in Group /\ nextID \in Nat /\ inflight \in SUBSET Mail
      /\ \A m \in inflight : m.id <= nextID
      /\ StateOK(base, img, inflight, nextID) /\ StateOK(base, img, inflight, nextID + 1)
  BY NextIdOK DEF BrowserInv, StateOK
<1>2. img.storage \in Seq(Frame) /\ img.fs \in Seq(Frame)
  BY <1>1 DEF Group
<1>3. ASSUME NEW a \in {"storage", "fs"}, ensureLoaded(base, [img EXCEPT !.active = a], nextID, inflight)
      PROVE  BrowserInv'
  <2> DEFINE h == [img EXCEPT !.active = a]
  <2>1. h \in Group /\ h.storage = img.storage /\ h.fs = img.fs
    BY <1>1 DEF Group
  <2> HIDE DEF h
  <2>2. StateOK(base, h, inflight, nextID)
    BY <1>1, <2>1 DEF StateOK, Frames
  <2> QED
    BY <1>3, <2>2, EnsureLoadedOK DEF h
<1>4. CASE img.active = "fs"
  BY <1>3, <1>4 DEF toggleView
<1>5. CASE img.active # "fs" /\ keep
  <2>1. ensureLoaded(base, [img EXCEPT !.active = "fs"], nextID, inflight)
    BY <1>5 DEF toggleView
  <2> QED
    BY <1>3, <2>1
<1>6. CASE img.active # "fs" /\ ~keep
  <2>1. ensureLoaded(base, [img EXCEPT !.active = "fs", !.fsNil = FALSE, !.fsRoot = root, !.fs = <<f>>], nextID + 1, inflight)
    BY <1>6 DEF toggleView
  <2>2. root \in Nat
    BY <1>2, RootOfOK
  <2> HIDE DEF root
  <2>3. fsRootFor(root) \in Node
    BY <2>2 DEF fsRootFor, N, Node, Listers
  <2>4. f \in Frame /\ FrameOK(f, inflight, nextID + 1)
    BY <1>1, <2>3, NewFrameOK
  <2> HIDE DEF f
  <2> DEFINE s == <<f>>
             h == [img EXCEPT !.active = "fs", !.fsNil = FALSE, !.fsRoot = root, !.fs = s]
  <2>5. s \in Seq(Frame) /\ ToSet(s) = {f}
    BY <2>4, SingleOK
  <2>6. ensureLoaded(base, h, nextID + 1, inflight)
    BY <2>1
  <2> HIDE DEF s
  <2>7. h \in Group /\ h.storage = img.storage /\ h.fs = s
    BY <1>1, <2>2, <2>5 DEF Group
  <2> HIDE DEF h
  <2>8. StateOK(base, h, inflight, nextID + 1)
    <3>1. Frames(base, h) \subseteq Frames(base, img) \cup {f}
      BY <2>5, <2>7 DEF Frames
    <3> QED
      BY <1>1, <2>4, <2>7, <3>1 DEF StateOK
  <2> QED
    BY <2>6, <2>8, EnsureLoadedOK
<1> QED
  BY <1>4, <1>5, <1>6

(***************************************************************************)
(* A letter is its kind and its id, and is taken out alone.                *)
(***************************************************************************)
LEMMA TakenOK ==
  ASSUME BrowserInv, NEW m \in inflight
  PROVE  /\ inflight \ {m} \subseteq Mail /\ \A x \in inflight \ {m} : x.id <= nextID
         /\ \A f \in Frames(base, img) : f.id # m.id => FrameOK(f, inflight \ {m}, nextID)
         /\ m = [kind |-> m.kind, id |-> m.id] /\ m.kind \in {"load", "resolve"} /\ m.id \in Nat
<1>1. inflight \subseteq Mail /\ \A x \in inflight : x.id <= nextID
  BY DEF BrowserInv, StateOK
<1>2. \A f \in Frames(base, img) : FrameOK(f, inflight, nextID)
  BY DEF BrowserInv, StateOK
<1>3. m = [kind |-> m.kind, id |-> m.id] /\ m.kind \in {"load", "resolve"} /\ m.id \in Nat
  BY <1>1 DEF Mail
<1>4. ASSUME NEW f \in Frames(base, img), f.id # m.id
      PROVE  FrameOK(f, inflight \ {m}, nextID)
  <2>1. [kind |-> "load", id |-> f.id] # m /\ [kind |-> "resolve", id |-> f.id] # m
    <3>1. [kind |-> "load", id |-> f.id].id = f.id /\ [kind |-> "resolve", id |-> f.id].id = f.id
      OBVIOUS
    <3> QED
      BY <1>4, <3>1
  <2> QED
    BY <1>2, <2>1 DEF FrameOK, Owed
<1> QED
  BY <1>1, <1>3, <1>4

(***************************************************************************)
(* A result nobody waits for goes away.                                    *)
(***************************************************************************)
LEMMA DroppedOK ==
  ASSUME BrowserInv, NEW m \in inflight, Dropped(m)
  PROVE  BrowserInv'
<1>1. inflight' = inflight \ {m} /\ base' = base /\ img' = img /\ nextID' = nextID
      /\ \A f \in Frames(base, img) : f.id # m.id
  BY DEF Dropped
<1>2. StateOK(base, img, inflight \ {m}, nextID)
  BY <1>1, TakenOK DEF BrowserInv, StateOK
<1> QED
  BY <1>1, <1>2 DEF BrowserInv, StateOK, TopOK

(***************************************************************************)
(* The frame a result is for, without what it was waiting for.             *)
(***************************************************************************)
LEMMA AnsweredOK ==
  ASSUME BrowserInv, NEW m \in inflight, NEW f \in Frames(base, img), f.id = m.id,
         NEW h \in Frame, h.id = f.id, f.loaded => h.loaded,
         m.kind = "load" => ~h.loading /\ h.resolving = f.resolving,
         m.kind = "resolve" => ~h.resolving /\ h.loading = f.loading
  PROVE  StateOK(Replace(base, h), ReplaceIn(img, h), inflight \ {m}, nextID)
<1>1. StateOK(base, img, inflight, nextID) /\ FrameOK(f, inflight, nextID)
  BY DEF BrowserInv, StateOK
<1>2. /\ inflight \ {m} \subseteq Mail /\ \A x \in inflight \ {m} : x.id <= nextID
      /\ \A x \in Frames(base, img) : x.id # h.id => FrameOK(x, inflight \ {m}, nextID)
      /\ m = [kind |-> m.kind, id |-> m.id] /\ m.kind \in {"load", "resolve"} /\ m.id \in Nat
  BY TakenOK
<1>3. [kind |-> "load", id |-> h.id] # [kind |-> "resolve", id |-> h.id]
  BY <1>2, MailFields
<1>4. FrameOK(h, inflight \ {m}, nextID)
  <2> DEFINE a == [kind |-> "load", id |-> h.id]  b == [kind |-> "resolve", id |-> h.id]
  <2>1. a # b /\ (m.kind = "load" => m = a) /\ (m.kind = "resolve" => m = b)
    BY <1>2, <1>3
  <2>2. (f.loading => a \in inflight) /\ (f.resolving => b \in inflight) /\ (b \in inflight => f.loaded) /\ h.id <= nextID
    BY <1>1 DEF FrameOK, Owed
  <2>3. (h.loading => a \in inflight \ {m}) /\ (h.resolving => b \in inflight \ {m})
        /\ (b \in inflight \ {m} => h.loaded)
    <3> HIDE DEF a, b
    <3>1. CASE m.kind = "load"
      BY <2>1, <2>2, <3>1
    <3>2. CASE m.kind = "resolve"
      BY <2>1, <2>2, <3>2
    <3> QED
      BY <1>2, <3>1, <3>2
  <2> QED
    BY <2>2, <2>3 DEF FrameOK, Owed
<1> QED
  BY <1>1, <1>2, <1>4, ReplacedStateOK

(***************************************************************************)
(* The frame on screen is still served when an answered frame is.          *)
(***************************************************************************)
LEMMA AnsweredTop ==
  ASSUME BrowserInv, NEW h \in Frame, h.loaded
  PROVE  TopOK(Replace(base, h), ReplaceIn(img, h))
<1>1. base \in Seq(Frame) /\ img \in Group /\ TopOK(base, img)
  BY DEF BrowserInv, StateOK
<1> QED
  BY <1>1, ReplaceInOK DEF TopOK

(***************************************************************************)
(* A load that is answered.                                                *)
(***************************************************************************)
LEMMA LoadedOK ==
  ASSUME BrowserInv, NEW m \in inflight, onLoaded(m)
  PROVE  BrowserInv'
<1>1. PICK f \in Frames(base, img) :
        /\ f.id = m.id
        /\ base' = Replace(base, [f EXCEPT !.loading = FALSE, !.loaded = TRUE])
        /\ img' = ReplaceIn(img, [f EXCEPT !.loading = FALSE, !.loaded = TRUE])
  BY DEF onLoaded
<1>2. inflight' = inflight \ {m} /\ nextID' = nextID /\ m.kind = "load"
  BY DEF onLoaded
<1>3. f \in Frame
  BY FramesAre DEF BrowserInv, StateOK
<1> DEFINE h == [f EXCEPT !.loading = FALSE, !.loaded = TRUE]
<1>4. h \in Frame /\ h.id = f.id /\ h.loaded /\ ~h.loading /\ h.resolving = f.resolving
  BY <1>3 DEF Frame
<1>5. base' = Replace(base, h) /\ img' = ReplaceIn(img, h)
  BY <1>1
<1> HIDE DEF h
<1>6. StateOK(Replace(base, h), ReplaceIn(img, h), inflight \ {m}, nextID)
  BY <1>1, <1>2, <1>4, AnsweredOK
<1>7. TopOK(Replace(base, h), ReplaceIn(img, h))
  BY <1>4, AnsweredTop
<1> QED
  BY <1>2, <1>5, <1>6, <1>7 DEF BrowserInv, StateOK, TopOK

(***************************************************************************)
(* A load that fails pops its frame, and the one below is served.          *)
(***************************************************************************)
LEMMA LoadFailedOK ==
  ASSUME BrowserInv, NEW m \in inflight, onLoadFailed(m)
  PROVE  BrowserInv'
<1>1. PICK f \in Frames(base, img) :
        /\ f.id = m.id
        /\ LET h == [f EXCEPT !.loading = FALSE]
               b == Replace(base, h)
               i == ReplaceIn(img, h) IN
           ensureLoaded(PoppedBase(b, i, h), PoppedGroup(i, h), nextID, inflight \ {m})
  BY DEF onLoadFailed
<1>2. m.kind = "load"
  BY DEF onLoadFailed
<1>3. f \in Frame
  BY FramesAre DEF BrowserInv, StateOK
<1> DEFINE h == [f EXCEPT !.loading = FALSE]
           b == Replace(base, h)
           i == ReplaceIn(img, h)
<1>4. h \in Frame /\ h.id = f.id /\ h.loaded = f.loaded /\ ~h.loading /\ h.resolving = f.resolving
  BY <1>3 DEF Frame
<1>5. ensureLoaded(PoppedBase(b, i, h), PoppedGroup(i, h), nextID, inflight \ {m})
  BY <1>1
<1> HIDE DEF h
<1>6. StateOK(b, i, inflight \ {m}, nextID)
  BY <1>1, <1>2, <1>4, AnsweredOK
<1> HIDE DEF b, i
<1>7. StateOK(PoppedBase(b, i, h), PoppedGroup(i, h), inflight \ {m}, nextID)
  BY <1>6, PoppedStateOK
<1> QED
  BY <1>5, <1>7, EnsureLoadedOK

(***************************************************************************)
(* A followed symlink opens its target, or is given up.                    *)
(***************************************************************************)
LEMMA ResolvedOK ==
  ASSUME BrowserInv, NEW m \in inflight, onResolved(m)
  PROVE  BrowserInv'
<1>1. PICK f \in Frames(base, img) :
        /\ f.id = m.id
        /\ LET h == [f EXCEPT !.resolving = FALSE]
               b == Replace(base, h)
               i == ReplaceIn(img, h) IN
           \/ \E n \in Resolve(f.node) : push(n, h, b, i, inflight \ {m})
           \/ base' = b /\ img' = i /\ inflight' = inflight \ {m} /\ nextID' = nextID
  BY DEF onResolved
<1>2. m.kind = "resolve"
  BY DEF onResolved
<1>3. f \in Frame
  BY FramesAre DEF BrowserInv, StateOK
<1> DEFINE h == [f EXCEPT !.resolving = FALSE]
           b == Replace(base, h)
           i == ReplaceIn(img, h)
<1>4. h \in Frame /\ h.id = f.id /\ h.loaded = f.loaded /\ ~h.resolving /\ h.loading = f.loading
  BY <1>3 DEF Frame
<1>5. \/ \E n \in Resolve(f.node) : push(n, h, b, i, inflight \ {m})
      \/ base' = b /\ img' = i /\ inflight' = inflight \ {m} /\ nextID' = nextID
  BY <1>1
<1> HIDE DEF h
<1>6. StateOK(b, i, inflight \ {m}, nextID)
  BY <1>1, <1>2, <1>4, AnsweredOK
<1>7. h.loaded
  <2>1. m = [kind |-> "resolve", id |-> f.id]
    BY <1>1, <1>2, TakenOK
  <2>2. FrameOK(f, inflight, nextID)
    BY DEF BrowserInv, StateOK
  <2> QED
    BY <1>4, <2>1, <2>2 DEF FrameOK
<1>8. TopOK(b, i)
  BY <1>4, <1>7, AnsweredTop
<1> HIDE DEF b, i
<1>9. CASE base' = b /\ img' = i /\ inflight' = inflight \ {m} /\ nextID' = nextID
  BY <1>6, <1>8, <1>9 DEF BrowserInv, StateOK, TopOK
<1>10. CASE \E n \in Resolve(f.node) : push(n, h, b, i, inflight \ {m})
  <2>1. PICK n \in Resolve(f.node) : push(n, h, b, i, inflight \ {m})
    BY <1>10
  <2>2. n \in Node /\ n.kind # "fslink"
    <3>1. f.node.im \in Nat
      BY <1>3 DEF Frame, Node
    <3> QED
      BY <3>1 DEF Resolve, N, Node, Listers, Openers
  <2> QED
    BY <1>6, <2>1, <2>2, PushOK
<1> QED
  BY <1>5, <1>9, <1>10

(***************************************************************************)
(* newModel starts with frames that wait for nothing but the one it loads. *)
(***************************************************************************)
LEMMA BrowserStart ==
  ASSUME BrowserInit
  PROVE  BrowserInv
<1> DEFINE repos == newFrame(N("repos", 1), 1)
           repo == newFrame(N("repo", 1), 2)
           image == newFrame(N("image", 1), 3)
           loading(f) == [f EXCEPT !.loading = TRUE]
           load(id) == {[kind |-> "load", id |-> id]}
<1>1. \/ base = <<loading(repos)>> /\ img = NoImage /\ inflight = load(1) /\ nextID = 1
      \/ base = <<repos, loading(repo)>> /\ img = NoImage /\ inflight = load(2) /\ nextID = 2
      \/ base = <<repos, repo>> /\ img = InImage(loading(image)) /\ inflight = load(3) /\ nextID = 3
  BY DEF BrowserInit
<1>2. \A id \in Nat : load(id) \subseteq Mail /\ (\A m \in load(id) : m.id <= id)
        /\ \A j : [kind |-> "resolve", id |-> j] \notin load(id)
  <2> SUFFICES ASSUME NEW id \in Nat
               PROVE  load(id) \subseteq Mail /\ (\A m \in load(id) : m.id <= id)
                        /\ \A j : [kind |-> "resolve", id |-> j] \notin load(id)
    OBVIOUS
  <2> DEFINE letter == [kind |-> "load", id |-> id]
  <2>1. letter \in Mail /\ letter.id = id /\ \A j : letter # [kind |-> "resolve", id |-> j]
    BY MailFields
  <2>2. load(id) = {letter}
    OBVIOUS
  <2> HIDE DEF letter, load
  <2>3. letter.id <= id
    BY <2>1
  <2> QED
    BY <2>1, <2>2, <2>3
<1>3. /\ repos \in Frame /\ repos.id = 1 /\ ~repos.loading /\ ~repos.resolving
      /\ repo \in Frame /\ repo.id = 2 /\ ~repo.loading /\ ~repo.resolving
      /\ image \in Frame /\ image.id = 3 /\ ~image.loading /\ ~image.resolving
  BY DEF newFrame, N, Frame, Node, Listers
<1> HIDE DEF repos, repo, image
<1>4. ASSUME NEW f \in Frame
      PROVE  loading(f) \in Frame /\ loading(f).id = f.id /\ loading(f).loading /\ loading(f).resolving = f.resolving
  BY DEF Frame
<1>5. ASSUME NEW f \in Frame, NEW n \in Nat, f.id = n, ~f.resolving
      PROVE  loading(f) \in Frame /\ loading(f).loading /\ FrameOK(loading(f), load(n), n)
  <2> DEFINE h == loading(f)
  <2>1. h \in Frame /\ h.id = n /\ h.loading /\ ~h.resolving
    BY <1>4, <1>5
  <2> HIDE DEF h
  <2>2. FrameOK(h, load(n), n)
    BY <1>2, <2>1 DEF FrameOK, Owed
  <2> QED
    BY <2>1, <2>2 DEF h
<1>6. ASSUME NEW f \in Frame, NEW n \in Nat, f.id <= n, ~f.loading, ~f.resolving
      PROVE  FrameOK(f, load(n), n)
  BY <1>2, <1>6 DEF FrameOK, Owed
<1> DEFINE lrepos == loading(repos)
           lrepo == loading(repo)
           limage == loading(image)
<1>7. /\ lrepos \in Frame /\ lrepos.loading /\ FrameOK(lrepos, load(1), 1)
      /\ lrepo \in Frame /\ lrepo.loading /\ FrameOK(lrepo, load(2), 2)
      /\ limage \in Frame /\ limage.loading /\ FrameOK(limage, load(3), 3)
  BY <1>3, <1>5
<1>8. FrameOK(repos, load(2), 2) /\ FrameOK(repos, load(3), 3) /\ FrameOK(repo, load(3), 3)
  BY <1>3, <1>6
<1>9. ToSet(<<>>) = {}
  BY DEF ToSet
<1> HIDE DEF load, lrepos, lrepo, limage
<1>10. ASSUME NEW x \in Frame, NEW y \in Frame
       PROVE  <<x, y>> \in Seq(Frame) /\ ToSet(<<x, y>>) = {x, y} /\ Last(<<x, y>>) = y /\ <<x, y>> # <<>>
  <2>1. <<x, y>> \in Seq(Frame) /\ DOMAIN <<x, y>> = 1..2 /\ <<x, y>>[1] = x /\ <<x, y>>[2] = y /\ Len(<<x, y>>) = 2
    OBVIOUS
  <2> QED
    BY <2>1, EmptySeq DEF ToSet, Last
<1>11. ASSUME NEW x \in Frame
       PROVE  <<x>> \in Seq(Frame) /\ ToSet(<<x>>) = {x} /\ Last(<<x>>) = x /\ <<x>> # <<>>
  <2>1. <<x>> \in Seq(Frame) /\ <<x>>[1] = x /\ Len(<<x>>) = 1
    OBVIOUS
  <2> QED
    BY <2>1, SingleOK, EmptySeq DEF Last
<1>12. NoImage.in = FALSE
  BY DEF NoImage
<1>13. CASE base = <<lrepos>> /\ img = NoImage /\ inflight = load(1) /\ nextID = 1
  <2> DEFINE s == <<lrepos>>
  <2>1. s \in Seq(Frame) /\ ToSet(s) = {lrepos} /\ Last(s) = lrepos
    BY <1>7, <1>11
  <2>2. base = s
    BY <1>13
  <2> HIDE DEF s
  <2>3. StateOK(base, img, inflight, nextID)
    BY <1>2, <1>7, <1>9, <1>13, <2>1, <2>2, NoImageOK DEF StateOK, Frames
  <2>4. Top(base, img) = lrepos
    BY <1>12, <1>13, <2>1, <2>2 DEF Top, Stack
  <2> QED
    BY <1>7, <2>3, <2>4 DEF BrowserInv, TopOK
<1>14. CASE base = <<repos, lrepo>> /\ img = NoImage /\ inflight = load(2) /\ nextID = 2
  <2> DEFINE s == <<repos, lrepo>>
  <2>1. s \in Seq(Frame) /\ ToSet(s) = {repos, lrepo} /\ Last(s) = lrepo
    BY <1>3, <1>7, <1>10
  <2>2. base = s
    BY <1>14
  <2> HIDE DEF s
  <2>3. StateOK(base, img, inflight, nextID)
    BY <1>2, <1>7, <1>8, <1>9, <1>14, <2>1, <2>2, NoImageOK DEF StateOK, Frames
  <2>4. Top(base, img) = lrepo
    BY <1>12, <1>14, <2>1, <2>2 DEF Top, Stack
  <2> QED
    BY <1>7, <2>3, <2>4 DEF BrowserInv, TopOK
<1>15. CASE base = <<repos, repo>> /\ img = InImage(limage) /\ inflight = load(3) /\ nextID = 3
  <2> DEFINE s == <<repos, repo>>
             q == <<limage>>
             g == [NoImage EXCEPT !.in = TRUE, !.storage = q]
  <2>1. s \in Seq(Frame) /\ ToSet(s) = {repos, repo}
    BY <1>3, <1>10
  <2>2. q \in Seq(Frame) /\ ToSet(q) = {limage} /\ Last(q) = limage
    BY <1>7, <1>11
  <2>3. base = s /\ img = g
    BY <1>15 DEF InImage
  <2> HIDE DEF s, q
  <2>4. g \in Group /\ g.storage = q /\ g.fs = <<>> /\ g.in
    BY <2>2, NoImageOK DEF Group
  <2>5. g.active = "storage"
    BY DEF NoImage
  <2> HIDE DEF g
  <2>6. StateOK(base, img, inflight, nextID)
    BY <1>2, <1>7, <1>8, <1>9, <1>15, <2>1, <2>2, <2>3, <2>4 DEF StateOK, Frames
  <2>7. Top(base, img) = limage
    BY <2>2, <2>3, <2>4, <2>5 DEF Top, Stack, activeStack
  <2> QED
    BY <1>7, <2>6, <2>7 DEF BrowserInv, TopOK
<1> QED
  BY <1>1, <1>13, <1>14, <1>15 DEF lrepos, lrepo, limage

(***************************************************************************)
(* Every key and every message, in any order, leaves the browser with its  *)
(* frames owed what they wait for and the one on screen served.            *)
(***************************************************************************)
LEMMA BrowserStep ==
  ASSUME BrowserInv, [BrowserNext]_browserVars
  PROVE  BrowserInv'
<1>1. CASE open
  BY <1>1, OpenOK
<1>2. CASE back
  BY <1>2, BackOK
<1>3. CASE toggleView
  BY <1>3, ToggleOK
<1>4. CASE Messages
  <2>1. PICK m \in inflight : Message(m)
    BY <1>4 DEF Messages
  <2> QED
    BY <2>1, DroppedOK, LoadedOK, LoadFailedOK, ResolvedOK DEF Message
<1>5. CASE UNCHANGED browserVars
  BY <1>5 DEF browserVars, BrowserInv, StateOK, TopOK
<1> QED
  BY <1>1, <1>2, <1>3, <1>4, <1>5 DEF BrowserNext, Keys

(***************************************************************************)
(* The browser's inductive invariant (model.go Update and its handlers):   *)
(* its frames, its mail and the frame on screen agree after any keys and   *)
(* any results.                                                            *)
(***************************************************************************)
THEOREM BrowserInvariant == BrowserSpec => []BrowserInv
<1>1. BrowserInit => BrowserInv
  BY BrowserStart
<1>2. BrowserInv /\ [BrowserNext]_browserVars => BrowserInv'
  BY BrowserStep
<1> QED
  BY <1>1, <1>2, PTL DEF BrowserSpec

(***************************************************************************)
(* Whatever keys are pressed and whatever comes back late, dropped, failed *)
(* or out of order, the frame on screen is loaded or being loaded and a    *)
(* waiting frame is owed its message (model.go ensureLoaded, Update).      *)
(***************************************************************************)
THEOREM ScreenIsServedHolds == BrowserSpec => []ScreenIsServed
<1>1. BrowserInv => ScreenIsServed
  BY DEF BrowserInv, StateOK, TopOK, FrameOK, Owed, ScreenIsServed
<1> QED
  BY <1>1, BrowserInvariant, PTL

-----------------------------------------------------------------------------
(* The importer *)

Phases == {"check", "blobs", "open", "images", "indexes", "done"}
Pooled == {"blobs", "images"}
ImportErrs == {"none", "fault", "cancel"}
PoolWorkers == [pc : {"idle", "run", "fail", "exit"}, item : Nat, ref : Nat, err : ImportErrs]
Pools == [closed : BOOLEAN, err : ImportErrs, cancelled : BOOLEAN, workers : [ImportWorkers -> PoolWorkers]]
RowStates == {"pending", "inflight", "done", "present", "failed"}

ImportTypeOK ==
  /\ phase \in Phases
  /\ at \in Nat \ {0}
  /\ pool \in Pools
  /\ outer \in BOOLEAN
  /\ rows \in [Digests -> [state : RowStates, sawStage : BOOLEAN]]
  /\ mrows \in [Manifests -> {"pending", "inflight", "done"}]
  /\ iresult \in [err : ImportErrs \cup {"running", "missing"}, present : Nat, processed : Nat]

Running(w) == Worker(w).pc = "run"
Broken == pool.err # "none" \/ \E w \in ImportWorkers : Worker(w).pc = "fail"

\* Every cancellation has its cause: the pool's is an error that is kept, and
\* a worker's call that was cancelled was so by the user or by that error.
ImportCancelHasCause ==
  /\ pool.cancelled <=> pool.err # "none"
  /\ pool.err = "cancel" => outer
  /\ \A w \in ImportWorkers : Worker(w).pc = "fail" =>
       /\ Worker(w).err # "none"
       /\ Worker(w).err = "cancel" => outer \/ pool.err # "none"
  /\ iresult.err = "cancel" => outer

\* Outside the two pools nobody works; inside, a worker has an item that was
\* fed, leaves only when there is nothing more to take, and feeding ends early
\* only when the pool is cancelled.
PoolOK ==
  /\ phase \notin Pooled => \A w \in ImportWorkers : Worker(w).pc \in {"idle", "exit"}
  /\ phase \notin Pooled \cup {"done"} => pool = NewPool
  /\ phase \in Pooled /\ pool.closed => at > Len(Items) \/ PoolCancelled
  /\ phase \in Pooled => at <= Len(Items) + 1
  /\ \A w \in ImportWorkers : Running(w) => Worker(w).item \in 1..(at - 1)

\* A blob is in the store with its row settled, or its turn is still to come,
\* or a worker has it, or the pool is broken.
Settled(d) == d \in stored /\ rows[d].state \in {"done", "present"}
BlobWaits(d, from) == \E k \in from..Len(absentLargestFirst) : absentLargestFirst[k].digest = d
BlobInWork(d) == \E w \in ImportWorkers : Running(w) /\ absentLargestFirst[Worker(w).item].digest = d
BlobsOK ==
  /\ phase = "check" => \A d \in Digests : Settled(d) \/ BlobWaits(d, 1)
  /\ phase = "blobs" => Broken \/ \A d \in Digests : Settled(d) \/ BlobWaits(d, at) \/ BlobInWork(d)
  /\ phase \in {"open", "images", "indexes"} \/ iresult.err = "none" => \A d \in Digests : Settled(d)
  /\ published # {} => Digests \subseteq stored
  /\ phase \in {"check", "blobs", "open"} => published = {}

\* The first n references of a job are in the image store.
PutUpTo(j, n) ==
  /\ n > 0 => <<j.repo, j.manifest>> \in published
  /\ \A i \in 1..n : j.refs[i] = j.manifest \/ <<j.repo, j.refs[i]>> \in tagged
JobDone(j) == PutUpTo(j, Len(j.refs))
JobInWork(k) == \E w \in ImportWorkers : Running(w) /\ Worker(w).item = k
ManifestInWork(m) == \E w \in ImportWorkers : Running(w) /\ ImageJobs[Worker(w).item].manifest = m
ImagesOK ==
  /\ phase = "images" =>
       /\ \A w \in ImportWorkers : Running(w) => LET j == ImageJobs[Worker(w).item] IN
            Worker(w).ref \in 1..Len(j.refs) /\ PutUpTo(j, Worker(w).ref - 1)
       /\ \A k \in 1..(at - 1) : Broken \/ JobInWork(k) \/ JobDone(ImageJobs[k])
       /\ \A k \in 1..(at - 1) :
            LET m == ImageJobs[k].manifest IN Broken \/ ManifestInWork(m) \/ mrows[m] = "done"
  /\ phase = "indexes" \/ iresult.err = "none" =>
       \A k \in 1..Len(ImageJobs) : JobDone(ImageJobs[k]) /\ mrows[ImageJobs[k].manifest] = "done"

IndexesOK ==
  /\ phase = "indexes" =>
       \A k \in 1..(at - 1) : k <= Len(IndexJobs) => JobDone(IndexJobs[k]) /\ mrows[IndexJobs[k].manifest] = "done"
  /\ iresult.err = "none" =>
       \A k \in 1..Len(IndexJobs) : JobDone(IndexJobs[k]) /\ mrows[IndexJobs[k].manifest] = "done"

ResultOK ==
  /\ iresult.err = "running" <=> phase # "done"
  /\ iresult.err = "missing" => ~PlanIsClosed
  /\ iresult.err = "none" => iresult.present + iresult.processed = Cardinality(Digests)

ImportInv == ImportTypeOK /\ ImportCancelHasCause /\ PoolOK /\ BlobsOK /\ ImagesOK /\ IndexesOK /\ ResultOK
-----------------------------------------------------------------------------
(* The lists that the phases go through *)

(***************************************************************************)
(* A list made from a finite set in order has the set's elements, each at  *)
(* a place of its own, those before it in the order at earlier places.     *)
(***************************************************************************)
LEMMA ListFromSet ==
  ASSUME NEW S, IsFiniteSet(S), NEW R, StrictlyOrders(R, S)
  PROVE  LET s == InOrder(S, R) IN
         /\ Cardinality(S) \in Nat
         /\ DOMAIN s = 1..Cardinality(S)
         /\ \A k \in 1..Cardinality(S) : s[k] \in S
         /\ \A x \in S : \E k \in 1..Cardinality(S) : s[k] = x
         /\ \A x, y \in S : <<x, y>> \in R =>
              \A k \in 1..Cardinality(S) : s[k] = y => \E i \in 1..(k - 1) : s[i] = x
<1> DEFINE s == InOrder(S, R)
           n == Cardinality(S)
<1>1. /\ n \in Nat /\ s \in [1..n -> S]
      /\ \A x \in S : \E k \in 1..n : s[k] = x
      /\ \A i, j \in 1..n : i < j => <<s[i], s[j]>> \in R
  BY InOrderIsSorted
<1>2. ASSUME NEW x \in S, NEW y \in S, <<x, y>> \in R, NEW k \in 1..n, s[k] = y
      PROVE  \E i \in 1..(k - 1) : s[i] = x
  <2> HIDE DEF s, n
  <2>1. PICK i \in 1..n : s[i] = x
    BY <1>1
  <2>2. ~(<<y, x>> \in R) /\ x # y
    BY <1>2 DEF StrictlyOrders
  <2>3. i # k /\ ~(k < i)
    BY <1>1, <1>2, <2>1, <2>2
  <2> QED
    BY <1>1, <2>1, <2>3
<1> HIDE DEF s, n
<1> QED
  BY <1>1, <1>2 DEF s, n

(***************************************************************************)
(* A function over 1..n is a sequence of length n.                         *)
(***************************************************************************)
LEMMA LengthOfList ==
  ASSUME NEW n \in Nat, NEW f, f = [k \in 1..n |-> f[k]]
  PROVE  Len(f) = n
<1>1. f \in Seq({f[k] : k \in 1..n})
  BY SMT
<1> QED
  BY <1>1, LenProperties

(***************************************************************************)
(* The plan's sequences have natural positions.                            *)
(***************************************************************************)
LEMMA SequenceDomain ==
  ASSUME NEW s, IsSequence(s)
  PROVE  Len(s) \in Nat /\ DOMAIN s = 1..Len(s) /\ IsFiniteSet(DOMAIN s)
<1>1. Len(s) \in Nat /\ DOMAIN s = 1..Len(s)
  BY LenProperties DEF IsSequence
<1> QED
  BY <1>1, FS_Interval

(***************************************************************************)
(* absentLargestFirst has every absent blob of the plan and no other.      *)
(***************************************************************************)
LEMMA AbsentList ==
  /\ Len(absentLargestFirst) \in Nat
  /\ \A k \in 1..Len(absentLargestFirst) : absentLargestFirst[k].digest \in Digests
  /\ \A i \in AbsentAt : \E k \in 1..Len(absentLargestFirst) : absentLargestFirst[k] = PlanBlobs[i]
<1>1. /\ Len(PlanBlobs) \in Nat /\ DOMAIN PlanBlobs = 1..Len(PlanBlobs) /\ IsFiniteSet(DOMAIN PlanBlobs)
      /\ \A i \in DOMAIN PlanBlobs : PlanBlobs[i].size \in Nat
  BY PlanAssumption, SequenceDomain
<1>2. IsFiniteSet(AbsentAt) /\ AbsentAt \subseteq DOMAIN PlanBlobs
  BY <1>1, FS_Subset DEF AbsentAt
<1>3. StrictlyOrders(LargerFirst, AbsentAt)
  <2> DEFINE size(i) == PlanBlobs[i].size
  <2>1. \A i \in AbsentAt : i \in Nat /\ size(i) \in Nat
    BY <1>1, <1>2
  <2>2. \A i, j \in AbsentAt : <<i, j>> \in LargerFirst <=> (size(i) > size(j) \/ (size(i) = size(j) /\ i < j))
    BY DEF LargerFirst
  <2> HIDE DEF size
  <2> QED
    BY <2>1, <2>2 DEF StrictlyOrders
<1> DEFINE s == InOrder(AbsentAt, LargerFirst)
           n == Cardinality(AbsentAt)
           f == absentLargestFirst
<1>4. /\ n \in Nat /\ DOMAIN s = 1..n
      /\ \A k \in 1..n : s[k] \in AbsentAt
      /\ \A i \in AbsentAt : \E k \in 1..n : s[k] = i
  BY <1>2, <1>3, ListFromSet
<1>5. f = [k \in 1..n |-> PlanBlobs[s[k]]]
  BY <1>4 DEF absentLargestFirst
<1> HIDE DEF s, n, f
<1>6. f = [k \in 1..n |-> f[k]] /\ \A k \in 1..n : f[k] = PlanBlobs[s[k]]
  BY <1>5
<1>7. Len(f) = n
  BY <1>4, <1>6, LengthOfList
<1>8. \A k \in 1..n : f[k].digest \in Digests
  BY <1>2, <1>4, <1>6 DEF Digests
<1>9. \A i \in AbsentAt : \E k \in 1..n : f[k] = PlanBlobs[i]
  BY <1>4, <1>6
<1> QED
  BY <1>4, <1>7, <1>8, <1>9 DEF f

(***************************************************************************)
(* The positions of publish's jobs are finitely many, and plan order is a  *)
(* strict order on them.                                                   *)
(***************************************************************************)
LEMMA PlacesOfJobs ==
  /\ IsFiniteSet(JobPlaces)
  /\ StrictlyOrders(InPlanOrder, JobPlaces)
  /\ \A p : p \in JobPlaces <=>
       \E i \in DOMAIN PlanEntries : \E r \in DOMAIN PlanEntries[i].repos : \E m \in DOMAIN PlanEntries[i].manifests :
         p = <<i, r, m>>
<1> DEFINE Box(i) == {i} \X (DOMAIN PlanEntries[i].repos) \X (DOMAIN PlanEntries[i].manifests)
           Boxes == {Box(i) : i \in DOMAIN PlanEntries}
<1>1. /\ DOMAIN PlanEntries = 1..Len(PlanEntries) /\ IsFiniteSet(DOMAIN PlanEntries) /\ DOMAIN PlanEntries \subseteq Nat
      /\ \A i \in DOMAIN PlanEntries : IsSequence(PlanEntries[i].repos) /\ IsSequence(PlanEntries[i].manifests)
  BY PlanAssumption, SequenceDomain
<1>2. \A i \in DOMAIN PlanEntries :
        /\ IsFiniteSet(DOMAIN PlanEntries[i].repos) /\ DOMAIN PlanEntries[i].repos \subseteq Nat
        /\ IsFiniteSet(DOMAIN PlanEntries[i].manifests) /\ DOMAIN PlanEntries[i].manifests \subseteq Nat
  <2> SUFFICES ASSUME NEW i \in DOMAIN PlanEntries
               PROVE  /\ IsFiniteSet(DOMAIN PlanEntries[i].repos) /\ DOMAIN PlanEntries[i].repos \subseteq Nat
                      /\ IsFiniteSet(DOMAIN PlanEntries[i].manifests) /\ DOMAIN PlanEntries[i].manifests \subseteq Nat
    OBVIOUS
  <2>1. IsSequence(PlanEntries[i].repos) /\ IsSequence(PlanEntries[i].manifests)
    BY <1>1
  <2>2. IsFiniteSet(DOMAIN PlanEntries[i].repos) /\ DOMAIN PlanEntries[i].repos \subseteq Nat
    BY <2>1, SequenceDomain
  <2>3. IsFiniteSet(DOMAIN PlanEntries[i].manifests) /\ DOMAIN PlanEntries[i].manifests \subseteq Nat
    BY <2>1, SequenceDomain
  <2> QED
    BY <2>2, <2>3
<1>3. ASSUME NEW p
      PROVE  p \in JobPlaces <=> \E i \in DOMAIN PlanEntries : p \in Box(i)
  BY DEF JobPlaces
<1>4. \A p : p \in JobPlaces <=>
        \E i \in DOMAIN PlanEntries : \E r \in DOMAIN PlanEntries[i].repos : \E m \in DOMAIN PlanEntries[i].manifests :
          p = <<i, r, m>>
  <2>1. \A p : \A i : p \in Box(i) <=>
          \E r \in DOMAIN PlanEntries[i].repos : \E m \in DOMAIN PlanEntries[i].manifests : p = <<i, r, m>>
    OBVIOUS
  <2> HIDE DEF Box
  <2> QED
    BY <1>3, <2>1
<1>5. ASSUME NEW i \in DOMAIN PlanEntries
      PROVE  IsFiniteSet(Box(i))
  <2> DEFINE A == DOMAIN PlanEntries[i].repos
             B == DOMAIN PlanEntries[i].manifests
  <2>1. IsFiniteSet(A \X B)
    BY <1>2, FS_Product
  <2> DEFINE g == [q \in A \X B |-> <<i, q[1], q[2]>>]
  <2>2. g \in Surjection(A \X B, Box(i))
    <3>1. \A q \in A \X B : g[q] \in Box(i)
      OBVIOUS
    <3>2. ASSUME NEW p \in Box(i)
          PROVE  \E q \in A \X B : g[q] = p
      <4>1. PICK r \in A, m \in B : p = <<i, r, m>>
        BY <3>2
      <4>2. <<r, m>> \in A \X B /\ g[<<r, m>>] = p
        BY <4>1
      <4> QED
        BY <4>2
    <3> HIDE DEF Box
    <3> QED
      BY <3>1, <3>2 DEF Surjection
  <2> QED
    BY <2>1, <2>2, FS_Surjection DEF ExistsSurjection
<1>6. IsFiniteSet(JobPlaces)
  <2> DEFINE g == [i \in DOMAIN PlanEntries |-> Box(i)]
  <2>1. g \in Surjection(DOMAIN PlanEntries, Boxes)
    <3> HIDE DEF Box
    <3> QED
      BY DEF Surjection
  <2>2. IsFiniteSet(Boxes)
    BY <1>1, <2>1, FS_Surjection DEF ExistsSurjection
  <2>3. \A b \in Boxes : IsFiniteSet(b)
    <3> HIDE DEF Box
    <3> QED
      BY <1>5
  <2>4. JobPlaces = UNION Boxes
    BY DEF JobPlaces
  <2> HIDE DEF Boxes
  <2> QED
    BY <2>2, <2>3, <2>4, FS_UNION
<1>7. StrictlyOrders(InPlanOrder, JobPlaces)
  <2>1. \A p \in JobPlaces : p[1] \in Nat /\ p[2] \in Nat /\ p[3] \in Nat /\ p = <<p[1], p[2], p[3]>>
    <3>1. ASSUME NEW i \in DOMAIN PlanEntries, NEW r \in DOMAIN PlanEntries[i].repos,
                 NEW m \in DOMAIN PlanEntries[i].manifests
          PROVE  i \in Nat /\ r \in Nat /\ m \in Nat
      BY <1>1, <1>2
    <3> QED
      BY <1>4, <3>1
  <2>2. \A a, b \in JobPlaces : <<a, b>> \in InPlanOrder <=>
          \/ a[1] < b[1]
          \/ a[1] = b[1] /\ a[2] < b[2]
          \/ a[1] = b[1] /\ a[2] = b[2] /\ a[3] < b[3]
    BY DEF InPlanOrder
  <2>3. \A a \in JobPlaces : <<a, a>> \notin InPlanOrder
    BY <2>1, <2>2
  <2>4. ASSUME NEW a \in JobPlaces, NEW b \in JobPlaces, NEW c \in JobPlaces,
               <<a, b>> \in InPlanOrder, <<b, c>> \in InPlanOrder
        PROVE  <<a, c>> \in InPlanOrder
    <3>1. /\ a[1] \in Nat /\ a[2] \in Nat /\ a[3] \in Nat
          /\ b[1] \in Nat /\ b[2] \in Nat /\ b[3] \in Nat
          /\ c[1] \in Nat /\ c[2] \in Nat /\ c[3] \in Nat
      BY <2>1
    <3> QED
      BY <2>2, <2>4, <3>1
  <2>5. ASSUME NEW a \in JobPlaces, NEW b \in JobPlaces
        PROVE  a = b \/ <<a, b>> \in InPlanOrder \/ <<b, a>> \in InPlanOrder
    <3>1. /\ a[1] \in Nat /\ a[2] \in Nat /\ a[3] \in Nat /\ a = <<a[1], a[2], a[3]>>
          /\ b[1] \in Nat /\ b[2] \in Nat /\ b[3] \in Nat /\ b = <<b[1], b[2], b[3]>>
      BY <2>1
    <3>2. a[1] = b[1] /\ a[2] = b[2] /\ a[3] = b[3] => a = b
      BY <3>1
    <3> QED
      BY <2>2, <3>1, <3>2
  <2> QED
    BY <2>3, <2>4, <2>5 DEF StrictlyOrders
<1> QED
  BY <1>4, <1>6, <1>7

(***************************************************************************)
(* The jobs at a set of positions: one for each, in plan order.            *)
(***************************************************************************)
LEMMA JobList ==
  ASSUME NEW S \in SUBSET JobPlaces
  PROVE  /\ Len(JobsAt(S)) \in Nat
         /\ \A k \in 1..Len(JobsAt(S)) : \E p \in S :
              /\ JobsAt(S)[k] = JobAt(p)
              /\ \A q \in S : <<q, p>> \in InPlanOrder => \E c \in 1..(k - 1) : JobsAt(S)[c] = JobAt(q)
         /\ \A p \in S : \E k \in 1..Len(JobsAt(S)) : JobsAt(S)[k] = JobAt(p)
<1> DEFINE s == InOrder(S, InPlanOrder)
           n == Cardinality(S)
           f == JobsAt(S)
<1>1. IsFiniteSet(S)
  BY PlacesOfJobs, FS_Subset
<1>2. StrictlyOrders(InPlanOrder, S)
  BY PlacesOfJobs DEF StrictlyOrders
<1>3. /\ n \in Nat /\ DOMAIN s = 1..n
      /\ \A k \in 1..n : s[k] \in S
      /\ \A p \in S : \E k \in 1..n : s[k] = p
      /\ \A q, p \in S : <<q, p>> \in InPlanOrder =>
           \A k \in 1..n : s[k] = p => \E c \in 1..(k - 1) : s[c] = q
  BY <1>1, <1>2, ListFromSet
<1>4. f = [k \in 1..n |-> JobAt(s[k])]
  BY <1>3 DEF JobsAt
<1> HIDE DEF s, n, f
<1>5. f = [k \in 1..n |-> f[k]] /\ \A k \in 1..n : f[k] = JobAt(s[k])
  BY <1>4
<1>6. Len(f) = n
  BY <1>3, <1>5, LengthOfList
<1>7. ASSUME NEW k \in 1..n
      PROVE  \E p \in S : /\ f[k] = JobAt(p)
                          /\ \A q \in S : <<q, p>> \in InPlanOrder => \E c \in 1..(k - 1) : f[c] = JobAt(q)
  <2>1. s[k] \in S /\ f[k] = JobAt(s[k])
    BY <1>3, <1>5
  <2>2. ASSUME NEW q \in S, <<q, s[k]>> \in InPlanOrder
        PROVE  \E c \in 1..(k - 1) : f[c] = JobAt(q)
    <3>1. PICK c \in 1..(k - 1) : s[c] = q
      BY <1>3, <2>1, <2>2
    <3>2. c \in 1..n
      BY <1>3
    <3> QED
      BY <1>5, <3>1, <3>2
  <2> QED
    BY <2>1, <2>2
<1>8. \A p \in S : \E k \in 1..n : f[k] = JobAt(p)
  BY <1>3, <1>5
<1> QED
  BY <1>3, <1>6, <1>7, <1>8 DEF f

(***************************************************************************)
(* What a job needs: references to put it under; an image its blobs alone, *)
(* an index of a closed plan besides them only what is published before it *)
(* in its own repository.  And no manifest of an entry is without its job. *)
(***************************************************************************)
LEMMA JobAtPlace ==
  ASSUME NEW p \in JobPlaces
  PROVE  LET e == PlanEntries[p[1]]
             j == JobAt(p) IN
         /\ p[1] \in DOMAIN PlanEntries /\ p[2] \in DOMAIN e.repos /\ p[3] \in DOMAIN e.manifests
         /\ p = <<p[1], p[2], p[3]>>
         /\ j.repo = e.repos[p[2]] /\ j.manifest = e.manifests[p[3]] /\ j.manifest \in Manifests
         /\ j.refs = IF j.manifest = e.digest THEN e.tags[j.repo] ELSE <<j.manifest>>
         /\ Len(j.refs) \in Nat \ {0}
         /\ \A n \in Needs[j.manifest] :
              \/ n \in Digests
              \/ /\ j.manifest \in PlanIndexes
                 /\ PlanIsClosed => \E c \in 1..(p[3] - 1) : e.manifests[c] = n
<1> DEFINE e == PlanEntries[p[1]]
           r == p[2]
           m == p[3]
           j == JobAt(p)
<1>1. /\ p[1] \in DOMAIN PlanEntries /\ r \in DOMAIN e.repos /\ m \in DOMAIN e.manifests
      /\ p = <<p[1], p[2], p[3]>>
  BY PlacesOfJobs
<1>2. /\ j.repo = e.repos[r] /\ j.manifest = e.manifests[m]
      /\ j.refs = IF j.manifest = e.digest THEN e.tags[j.repo] ELSE <<j.manifest>>
  BY DEF JobAt, refsFor
<1>3. j.manifest \in Manifests
  BY <1>1, <1>2 DEF Manifests, ToSet
<1>4. /\ IsSequence(e.tags[e.repos[r]]) /\ e.tags[e.repos[r]] # <<>>
      /\ \A n \in Needs[e.manifests[m]] :
           \/ n \in Digests
           \/ /\ e.manifests[m] \in PlanIndexes
              /\ PlanIsClosed => \E c \in 1..(m - 1) : e.manifests[c] = n
  <2>1. /\ IsSequence(e.tags[e.repos[r]]) /\ e.tags[e.repos[r]] # <<>>
        /\ e.manifests[m] \notin PlanIndexes => Needs[e.manifests[m]] \subseteq Digests
    BY <1>1, PlanAssumption DEF ToSet
  <2>2. PlanIsClosed =>
          \A n \in Needs[e.manifests[m]] : n \in Digests \/ \E c \in 1..(m - 1) : e.manifests[c] = n
    BY <1>1 DEF PlanIsClosed
  <2> QED
    BY <2>1, <2>2
<1> HIDE DEF e, j, r, m
<1>5. Len(e.tags[e.repos[r]]) \in Nat \ {0}
  BY <1>4, EmptySeq, LenProperties DEF IsSequence
<1>6. Len(j.refs) \in Nat \ {0}
  BY <1>2, <1>5
<1> QED
  BY <1>1, <1>2, <1>3, <1>4, <1>6 DEF e, j, r, m

LEMMA ImageJobFacts ==
  /\ Len(ImageJobs) \in Nat
  /\ \A k \in 1..Len(ImageJobs) :
       /\ ImageJobs[k].manifest \in Manifests
       /\ Len(ImageJobs[k].refs) \in Nat \ {0}
       /\ Needs[ImageJobs[k].manifest] \subseteq Digests
<1> DEFINE S == {p \in JobPlaces : JobAt(p).manifest \notin PlanIndexes}
<1>1. ImageJobs = JobsAt(S) /\ S \in SUBSET JobPlaces
  BY DEF ImageJobs
<1>2. /\ Len(ImageJobs) \in Nat
      /\ \A k \in 1..Len(ImageJobs) : \E p \in S : ImageJobs[k] = JobAt(p)
  BY <1>1, JobList
<1>3. ASSUME NEW p \in S
      PROVE  /\ JobAt(p).manifest \in Manifests
             /\ Len(JobAt(p).refs) \in Nat \ {0}
             /\ Needs[JobAt(p).manifest] \subseteq Digests
  <2>1. p \in JobPlaces /\ JobAt(p).manifest \notin PlanIndexes
    OBVIOUS
  <2> QED
    BY <2>1, JobAtPlace
<1> QED
  BY <1>2, <1>3

LEMMA IndexJobFacts ==
  /\ Len(IndexJobs) \in Nat
  /\ \A k \in 1..Len(IndexJobs) :
       /\ IndexJobs[k].manifest \in Manifests
       /\ Len(IndexJobs[k].refs) \in Nat \ {0}
       /\ PlanIsClosed => \A n \in Needs[IndexJobs[k].manifest] :
            \/ n \in Digests
            \/ \E c \in 1..Len(ImageJobs) : ImageJobs[c].repo = IndexJobs[k].repo /\ ImageJobs[c].manifest = n
            \/ \E c \in 1..(k - 1) : IndexJobs[c].repo = IndexJobs[k].repo /\ IndexJobs[c].manifest = n
<1> DEFINE S == {p \in JobPlaces : JobAt(p).manifest \in PlanIndexes}
<1>1. IndexJobs = JobsAt(S) /\ S \in SUBSET JobPlaces
  BY DEF IndexJobs
<1>2. /\ Len(IndexJobs) \in Nat
      /\ \A k \in 1..Len(IndexJobs) : \E p \in S :
           /\ IndexJobs[k] = JobAt(p)
           /\ \A q \in S : <<q, p>> \in InPlanOrder => \E c \in 1..(k - 1) : IndexJobs[c] = JobAt(q)
  BY <1>1, JobList
<1> SUFFICES ASSUME NEW k \in 1..Len(IndexJobs)
             PROVE  /\ IndexJobs[k].manifest \in Manifests
                    /\ Len(IndexJobs[k].refs) \in Nat \ {0}
                    /\ PlanIsClosed => \A n \in Needs[IndexJobs[k].manifest] :
                         \/ n \in Digests
                         \/ \E c \in 1..Len(ImageJobs) : ImageJobs[c].repo = IndexJobs[k].repo /\ ImageJobs[c].manifest = n
                         \/ \E c \in 1..(k - 1) : IndexJobs[c].repo = IndexJobs[k].repo /\ IndexJobs[c].manifest = n
  BY <1>2
<1>3. PICK p \in S : /\ IndexJobs[k] = JobAt(p)
                     /\ \A q \in S : <<q, p>> \in InPlanOrder => \E c \in 1..(k - 1) : IndexJobs[c] = JobAt(q)
  BY <1>2
<1>4. p \in JobPlaces /\ S \subseteq JobPlaces
  OBVIOUS
<1> DEFINE e == PlanEntries[p[1]]
           m == p[3]
<1>5. /\ p[1] \in DOMAIN PlanEntries /\ p[2] \in DOMAIN e.repos /\ m \in DOMAIN e.manifests
      /\ p = <<p[1], p[2], m>>
      /\ JobAt(p).repo = e.repos[p[2]]
  BY <1>4, JobAtPlace
<1>6. /\ JobAt(p).manifest \in Manifests
      /\ Len(JobAt(p).refs) \in Nat \ {0}
      /\ PlanIsClosed =>
           \A n \in Needs[JobAt(p).manifest] : n \in Digests \/ \E c \in 1..(m - 1) : e.manifests[c] = n
  BY <1>4, JobAtPlace
<1>7. ASSUME NEW n, NEW c \in 1..(m - 1), e.manifests[c] = n
      PROVE  \/ \E d \in 1..Len(ImageJobs) : ImageJobs[d].repo = JobAt(p).repo /\ ImageJobs[d].manifest = n
             \/ \E d \in 1..(k - 1) : IndexJobs[d].repo = JobAt(p).repo /\ IndexJobs[d].manifest = n
  <2>1. IsSequence(e.manifests)
    BY <1>5, PlanAssumption
  <2>2. m \in Nat /\ c \in DOMAIN e.manifests /\ c < m
    BY <1>5, <2>1, SequenceDomain
  <2> DEFINE q == <<p[1], p[2], c>>
  <2>3. q \in JobPlaces /\ q[1] = p[1] /\ q[2] = p[2] /\ q[3] = c
    BY <1>5, <2>2, PlacesOfJobs
  <2>4. <<q, p>> \in InPlanOrder
    BY <1>4, <2>2, <2>3 DEF InPlanOrder
  <2> HIDE DEF q
  <2>7. JobAt(q).repo = JobAt(p).repo /\ JobAt(q).manifest = n
    BY <1>5, <1>7, <2>3, JobAtPlace
  <2>5. CASE n \in PlanIndexes
    <3>1. q \in S
      BY <2>3, <2>5, <2>7
    <3>2. PICK d \in 1..(k - 1) : IndexJobs[d] = JobAt(q)
      BY <1>3, <2>4, <3>1
    <3> QED
      BY <2>7, <3>2
  <2>6. CASE n \notin PlanIndexes
    <3> DEFINE T == {x \in JobPlaces : JobAt(x).manifest \notin PlanIndexes}
    <3>1. q \in T /\ T \in SUBSET JobPlaces /\ ImageJobs = JobsAt(T)
      BY <2>3, <2>6, <2>7 DEF ImageJobs
    <3>2. PICK d \in 1..Len(ImageJobs) : ImageJobs[d] = JobAt(q)
      BY <3>1, JobList
    <3> QED
      BY <2>7, <3>2
  <2> QED
    BY <2>5, <2>6
<1> HIDE DEF S, e, m
<1> QED
  BY <1>3, <1>6, <1>7

LEMMA EveryPlaceHasItsJob ==
  \A p \in JobPlaces : \/ \E k \in 1..Len(ImageJobs) : ImageJobs[k] = JobAt(p)
                       \/ \E k \in 1..Len(IndexJobs) : IndexJobs[k] = JobAt(p)
<1> DEFINE S == {p \in JobPlaces : JobAt(p).manifest \in PlanIndexes}
           T == {p \in JobPlaces : JobAt(p).manifest \notin PlanIndexes}
<1>1. /\ IndexJobs = JobsAt(S) /\ S \in SUBSET JobPlaces
      /\ ImageJobs = JobsAt(T) /\ T \in SUBSET JobPlaces
      /\ \A p \in JobPlaces : p \in S \/ p \in T
  BY DEF IndexJobs, ImageJobs
<1> HIDE DEF S, T
<1>2. \A p \in S : \E k \in 1..Len(IndexJobs) : IndexJobs[k] = JobAt(p)
  BY <1>1, JobList
<1>3. \A p \in T : \E k \in 1..Len(ImageJobs) : ImageJobs[k] = JobAt(p)
  BY <1>1, JobList
<1> QED
  BY <1>1, <1>2, <1>3


-----------------------------------------------------------------------------
(* The plan's blobs *)

(***************************************************************************)
(* A digest names one blob of the plan, so there are as many digests as    *)
(* blobs, and a blob that was not there has its place in the list.         *)
(***************************************************************************)
LEMMA BlobOfDigest ==
  ASSUME NEW i \in DOMAIN PlanBlobs
  PROVE  BlobOf(PlanBlobs[i].digest) = PlanBlobs[i]
BY PlanAssumption DEF BlobOf

LEMMA AsManyDigests ==
  IsFiniteSet(Digests) /\ Cardinality(Digests) = Len(PlanBlobs)
<1>1. Len(PlanBlobs) \in Nat /\ DOMAIN PlanBlobs = 1..Len(PlanBlobs) /\ IsFiniteSet(DOMAIN PlanBlobs)
  BY PlanAssumption, SequenceDomain
<1> DEFINE g == [i \in DOMAIN PlanBlobs |-> PlanBlobs[i].digest]
<1>2. g \in Bijection(DOMAIN PlanBlobs, Digests)
  <2>1. g \in [DOMAIN PlanBlobs -> Digests] /\ \A d \in Digests : \E i \in DOMAIN PlanBlobs : g[i] = d
    BY DEF Digests
  <2>2. \A i, j \in DOMAIN PlanBlobs : g[i] = g[j] => i = j
    BY PlanAssumption
  <2> HIDE DEF g
  <2> QED
    BY <2>1, <2>2 DEF Bijection, Injection, Surjection, IsInjective
<1>3. ExistsBijection(DOMAIN PlanBlobs, Digests)
  BY <1>2 DEF ExistsBijection
<1>4. IsFiniteSet(Digests) /\ Cardinality(Digests) = Cardinality(DOMAIN PlanBlobs)
  BY <1>1, <1>3, FS_Bijection
<1> DEFINE n == Len(PlanBlobs)
<1> HIDE DEF n
<1>5. n \in Nat /\ DOMAIN PlanBlobs = 1..n
  BY <1>1 DEF n
<1>6. Cardinality(1..n) = n
  BY <1>5, FS_Interval
<1> QED
  BY <1>4, <1>5, <1>6 DEF n

LEMMA AbsentWaits ==
  ASSUME NEW d \in Digests
  PROVE  BlobOf(d).present \/ BlobWaits(d, 1)
<1>1. PICK i \in DOMAIN PlanBlobs : PlanBlobs[i].digest = d
  BY DEF Digests
<1>2. BlobOf(d) = PlanBlobs[i]
  BY <1>1, BlobOfDigest
<1>3. CASE i \in AbsentAt
  BY <1>1, <1>3, AbsentList DEF BlobWaits
<1>4. CASE i \notin AbsentAt
  BY <1>2, <1>4, PlanAssumption DEF AbsentAt
<1> QED
  BY <1>3, <1>4

LEMMA CountsAddUp ==
  /\ BlobCounts.err = "none" /\ BlobCounts.present \in Nat /\ BlobCounts.processed \in Nat
  /\ BlobCounts \in [err : {"none"}, present : Nat, processed : Nat]
  /\ BlobCounts.present + BlobCounts.processed = Cardinality(Digests)
<1> DEFINE there == {d \in Digests : BlobOf(d).present \/ rows[d].state = "present"}
<1>1. IsFiniteSet(Digests) /\ IsFiniteSet(there) /\ there \subseteq Digests
  BY AsManyDigests, FS_Subset
<1>2. IsFiniteSet(Digests \ there) /\ Cardinality(Digests \ there) = Cardinality(Digests) - Cardinality(Digests \cap there)
  BY <1>1, FS_Difference
<1>3. Digests \cap there = there
  BY <1>1
<1>4. Cardinality(Digests) \in Nat /\ Cardinality(there) \in Nat /\ Cardinality(Digests \ there) \in Nat
  BY <1>1, <1>2, FS_CardinalityType
<1>5. BlobCounts = [err |-> "none", present |-> Cardinality(there), processed |-> Cardinality(Digests \ there)]
  BY DEF BlobCounts
<1>6. Cardinality(Digests \ there) = Cardinality(Digests) - Cardinality(there)
  BY <1>2, <1>3
<1> HIDE DEF there
<1>7. BlobCounts.present = Cardinality(there) /\ BlobCounts.processed = Cardinality(Digests \ there) /\ BlobCounts.err = "none"
  BY <1>5
<1>8. BlobCounts \in [err : {"none"}, present : Nat, processed : Nat]
  BY <1>4, <1>5
<1> QED
  BY <1>4, <1>6, <1>7, <1>8

-----------------------------------------------------------------------------
(* The import, step by step *)

LEMMA IdleIsAWorker ==
  /\ IdleWorker \in PoolWorkers /\ IdleWorker.pc = "idle"
  /\ NewPool \in Pools /\ NewPool.closed = FALSE /\ NewPool.cancelled = FALSE /\ NewPool.err = "none"
  /\ \A w \in ImportWorkers : NewPool.workers[w].pc = "idle"
BY DEF IdleWorker, NewPool, PoolWorkers, Pools, ImportErrs

LEMMA ImportInitOK ==
  ImportInit => ImportInv
<1> SUFFICES ASSUME ImportInit PROVE ImportInv
  OBVIOUS
<1>1. /\ phase = "check" /\ at = 1 /\ pool = NewPool /\ outer = FALSE /\ published = {}
      /\ iresult.err = "running"
  BY DEF ImportInit
<1>2. ImportTypeOK
  <2>1. rows \in [Digests -> [state : RowStates, sawStage : BOOLEAN]]
    BY DEF ImportInit, RowStates
  <2>2. mrows \in [Manifests -> {"pending", "inflight", "done"}]
    BY DEF ImportInit
  <2>3. iresult \in [err : ImportErrs \cup {"running"}, present : Nat, processed : Nat]
    BY DEF ImportInit
  <2>4. pool \in Pools
    BY <1>1, IdleIsAWorker
  <2>6. outer \in BOOLEAN
    BY DEF ImportInit
  <2>7. at \in Nat \ {0}
    BY <1>1
  <2>5. phase \in Phases
    BY <1>1 DEF Phases
  <2> QED
    BY <2>1, <2>2, <2>3, <2>4, <2>5, <2>6, <2>7 DEF ImportTypeOK
<1>3. ImportCancelHasCause
  BY <1>1, IdleIsAWorker DEF ImportCancelHasCause, Worker
<1>4. PoolOK
  BY <1>1, IdleIsAWorker DEF PoolOK, Worker, Pooled, Running
<1>5. BlobsOK
  <2>1. ASSUME NEW d \in Digests
        PROVE  Settled(d) \/ BlobWaits(d, 1)
    <3>1. CASE BlobOf(d).present
      BY <3>1 DEF Settled, ImportInit
    <3> QED
      BY <3>1, AbsentWaits
  <2> QED
    BY <1>1, <2>1 DEF BlobsOK
<1> QED
  BY <1>1, <1>2, <1>3, <1>4, <1>5 DEF ImportInv, ImagesOK, IndexesOK, ResultOK

(***************************************************************************)
(* The end with an error: true of any phase in which nobody works, and     *)
(* with any cause but a cancellation that the user did not ask for and a   *)
(* lacking child in a closed plan.                                         *)
(***************************************************************************)
LEMMA FailsOK ==
  ASSUME ImportInv, NEW e \in {"fault", "cancel", "missing"}, phase # "done",
         e = "cancel" => outer, e = "missing" => ~PlanIsClosed, Finish(e), UNCHANGED <<outer, rows, stored>>,
         mrows' \in [Manifests -> {"pending", "inflight", "done"}],
         published' # {} => Digests \subseteq stored,
         \A w \in ImportWorkers : Worker(w).pc \in {"idle", "exit"}
  PROVE  ImportInv'
<1>1. /\ phase' = "done" /\ at' = 1 /\ pool' = pool /\ outer' = outer /\ rows' = rows /\ stored' = stored
      /\ iresult' = [err |-> e, present |-> 0, processed |-> 0] /\ iresult'.err = e
  BY DEF Finish
<1>2. ImportTypeOK'
  <2>1. iresult' \in [err : ImportErrs \cup {"running", "missing"}, present : Nat, processed : Nat]
    BY <1>1 DEF ImportErrs
  <2> QED
    BY <1>1, <2>1 DEF ImportInv, ImportTypeOK, Phases
<1>3. ImportCancelHasCause'
  <2>1. ImportCancelHasCause
    BY DEF ImportInv
  <2> QED
    BY <1>1, <2>1 DEF ImportCancelHasCause, Worker
<1>4. PoolOK'
  BY <1>1 DEF PoolOK, Worker, Pooled, Running
<1>5. BlobsOK' /\ ImagesOK' /\ IndexesOK' /\ ResultOK'
  BY <1>1 DEF BlobsOK, ImagesOK, IndexesOK, ResultOK
<1> QED
  BY <1>2, <1>3, <1>4, <1>5 DEF ImportInv

(***************************************************************************)
(* The next phase, with a new pool.                                        *)
(***************************************************************************)
LEMMA NewPhaseOK ==
  ASSUME ImportInv, NEW p \in {"blobs", "open", "images", "indexes"}, phase # "done",
         NewPhase(p), StoreUnchanged, RowsUnchanged, UNCHANGED <<outer, iresult>>,
         p = "blobs" => \A d \in Digests : Settled(d) \/ BlobWaits(d, 1),
         p # "blobs" => \A d \in Digests : Settled(d),
         p \in {"blobs", "open"} => published = {},
         p = "indexes" => \A k \in 1..Len(ImageJobs) : JobDone(ImageJobs[k]) /\ mrows[ImageJobs[k].manifest] = "done"
  PROVE  ImportInv'
<1>1. /\ phase' = p /\ at' = 1 /\ pool' = NewPool /\ outer' = outer /\ iresult' = iresult
      /\ stored' = stored /\ published' = published /\ tagged' = tagged /\ rows' = rows /\ mrows' = mrows
  BY DEF NewPhase, StoreUnchanged, RowsUnchanged
<1>2. iresult.err = "running"
  BY DEF ImportInv, ResultOK
<1>3. ImportTypeOK'
  BY <1>1, IdleIsAWorker DEF ImportInv, ImportTypeOK, Phases
<1>4. ImportCancelHasCause' /\ ResultOK'
  BY <1>1, <1>2, IdleIsAWorker DEF ImportCancelHasCause, Worker, ResultOK
<1>5. PoolOK'
  <2>1. Len(Items') \in Nat
    BY <1>1, AbsentList, ImageJobFacts DEF Items
  <2> QED
    BY <1>1, <2>1, IdleIsAWorker DEF PoolOK, Worker, Pooled, Running
<1>6. BlobsOK'
  <2>1. \A d \in Digests : Settled(d)' = Settled(d)
    BY <1>1 DEF Settled
  <2>2. published # {} => Digests \subseteq stored
    BY DEF ImportInv, BlobsOK
  <2> QED
    BY <1>1, <1>2, <2>1, <2>2 DEF BlobsOK, BlobWaits
<1>7. ImagesOK'
  <2>1. \A j : JobDone(j)' = JobDone(j)
    BY <1>1 DEF JobDone, PutUpTo
  <2>2. \A w \in ImportWorkers : ~Running(w)'
    BY <1>1, IdleIsAWorker DEF Running, Worker
  <2> QED
    BY <1>1, <1>2, <2>1, <2>2 DEF ImagesOK
<1>8. IndexesOK'
  BY <1>1, <1>2 DEF IndexesOK
<1> QED
  BY <1>3, <1>4, <1>5, <1>6, <1>7, <1>8 DEF ImportInv

(***************************************************************************)
(* The two phases without a pool before the manifests.                     *)
(***************************************************************************)
LEMMA NextPlaceOK ==
  ASSUME ImportInv, phase \in {"check", "open"}, at' = at + 1, StoreUnchanged, RowsUnchanged,
         UNCHANGED <<outer, phase, pool, iresult>>
  PROVE  ImportInv'
<1>1. /\ phase' = phase /\ pool' = pool /\ outer' = outer /\ iresult' = iresult /\ at' = at + 1
      /\ stored' = stored /\ published' = published /\ tagged' = tagged /\ rows' = rows /\ mrows' = mrows
  BY DEF StoreUnchanged, RowsUnchanged
<1>2. iresult.err = "running" /\ \A w \in ImportWorkers : Worker(w).pc \in {"idle", "exit"}
  BY DEF ImportInv, ResultOK, PoolOK, Pooled
<1>3. ImportTypeOK'
  BY <1>1 DEF ImportInv, ImportTypeOK
<1>4. ImportCancelHasCause' /\ ResultOK'
  BY <1>1 DEF ImportInv, ImportCancelHasCause, Worker, ResultOK
<1>5. PoolOK'
  BY <1>1, <1>2 DEF ImportInv, PoolOK, Worker, Pooled, Running
<1>6. BlobsOK'
  BY <1>1, <1>2 DEF ImportInv, BlobsOK, Settled, BlobWaits
<1>7. ImagesOK' /\ IndexesOK'
  BY <1>1, <1>2 DEF ImagesOK, IndexesOK
<1> QED
  BY <1>3, <1>4, <1>5, <1>6, <1>7 DEF ImportInv

LEMMA CheckOK ==
  ASSUME ImportInv, check
  PROVE  ImportInv'
<1>1. /\ phase = "check" /\ phase # "done" /\ phase \notin Pooled
      /\ StoreUnchanged /\ RowsUnchanged /\ outer' = outer /\ published = {}
      /\ \A d \in Digests : Settled(d) \/ BlobWaits(d, 1)
  BY DEF check, ImportInv, BlobsOK, Pooled
<1>2. /\ \A w \in ImportWorkers : Worker(w).pc \in {"idle", "exit"}
      /\ mrows' \in [Manifests -> {"pending", "inflight", "done"}] /\ published' = {}
      /\ rows' = rows /\ stored' = stored
  BY <1>1 DEF ImportInv, PoolOK, ImportTypeOK, StoreUnchanged, RowsUnchanged
<1>3. \/ NewPhase("blobs") /\ UNCHANGED iresult
      \/ at' = at + 1 /\ UNCHANGED <<phase, pool, iresult>>
      \/ Finish("fault")
      \/ Finish("cancel") /\ outer
  BY DEF check
<1>4. CASE NewPhase("blobs") /\ UNCHANGED iresult
  BY <1>1, <1>4, NewPhaseOK
<1>5. CASE at' = at + 1 /\ UNCHANGED <<phase, pool, iresult>>
  BY <1>1, <1>5, NextPlaceOK
<1>6. CASE Finish("fault")
  BY <1>1, <1>2, <1>6, FailsOK
<1>7. CASE Finish("cancel") /\ outer
  BY <1>1, <1>2, <1>7, FailsOK
<1> QED
  BY <1>3, <1>4, <1>5, <1>6, <1>7

LEMMA OpenPresentOK ==
  ASSUME ImportInv, openPresent
  PROVE  ImportInv'
<1>1. /\ phase = "open" /\ phase # "done" /\ phase \notin Pooled
      /\ StoreUnchanged /\ RowsUnchanged /\ outer' = outer /\ published = {}
      /\ \A d \in Digests : Settled(d)
  BY DEF openPresent, ImportInv, BlobsOK, Pooled
<1>2. /\ \A w \in ImportWorkers : Worker(w).pc \in {"idle", "exit"}
      /\ mrows' \in [Manifests -> {"pending", "inflight", "done"}] /\ published' = {}
      /\ rows' = rows /\ stored' = stored
  BY <1>1 DEF ImportInv, PoolOK, ImportTypeOK, StoreUnchanged, RowsUnchanged
<1>3. \/ NewPhase("images") /\ UNCHANGED iresult
      \/ at' = at + 1 /\ UNCHANGED <<phase, pool, iresult>>
      \/ Finish("fault")
  BY DEF openPresent
<1>4. CASE NewPhase("images") /\ UNCHANGED iresult
  BY <1>1, <1>4, NewPhaseOK
<1>5. CASE at' = at + 1 /\ UNCHANGED <<phase, pool, iresult>>
  BY <1>1, <1>5, NextPlaceOK
<1>6. CASE Finish("fault")
  BY <1>1, <1>2, <1>6, FailsOK
<1> QED
  BY <1>3, <1>4, <1>5, <1>6

(***************************************************************************)
(* A step of one worker leaves the pool's other fields and the other       *)
(* workers as they are.                                                    *)
(***************************************************************************)
LEMMA WorkerSet ==
  ASSUME pool \in Pools, NEW w \in ImportWorkers, NEW r \in PoolWorkers, SetWorker(w, r)
  PROVE  /\ pool' \in Pools
         /\ pool'.closed = pool.closed /\ pool'.err = pool.err /\ pool'.cancelled = pool.cancelled
         /\ Worker(w)' = r
         /\ \A v \in ImportWorkers : v # w => Worker(v)' = Worker(v)
<1>1. pool' = [pool EXCEPT !.workers = [pool.workers EXCEPT ![w] = r]]
  BY DEF SetWorker, Pools
<1>2. pool.workers \in [ImportWorkers -> PoolWorkers]
  BY DEF Pools
<1> DEFINE ws == [pool.workers EXCEPT ![w] = r]
<1>3. ws \in [ImportWorkers -> PoolWorkers] /\ ws[w] = r /\ \A v \in ImportWorkers : v # w => ws[v] = pool.workers[v]
  BY <1>2
<1> HIDE DEF ws
<1>4. /\ pool' \in Pools /\ pool'.workers = ws
      /\ pool'.closed = pool.closed /\ pool'.err = pool.err /\ pool'.cancelled = pool.cancelled
  BY <1>1, <1>3 DEF Pools, ws
<1> QED
  BY <1>3, <1>4 DEF Worker

(***************************************************************************)
(* What a worker's step does to the pool keeps the causes and the pool in  *)
(* order, whatever it does to the stores and the rows.                     *)
(***************************************************************************)
LEMMA WorkerStepPool ==
  ASSUME ImportInv, NEW w \in ImportWorkers, NEW r \in PoolWorkers, SetWorker(w, r), phase \in Pooled,
         at' \in {at, at + 1}, at' # at => at <= Len(Items),
         UNCHANGED <<phase, outer, iresult>>,
         r.pc = "run" => r.item \in 1..(at' - 1),
         r.pc = "fail" => r.err \in {"fault", "cancel"} /\ (r.err = "cancel" => PoolCancelled),
         pool.closed => at' = at
  PROVE  ImportCancelHasCause' /\ PoolOK' /\ ResultOK' /\ pool' \in Pools /\ at' \in Nat \ {0}
<1>1. /\ pool' \in Pools
      /\ pool'.closed = pool.closed /\ pool'.err = pool.err /\ pool'.cancelled = pool.cancelled
      /\ Worker(w)' = r
      /\ \A v \in ImportWorkers : v # w => Worker(v)' = Worker(v)
  BY WorkerSet DEF ImportInv, ImportTypeOK
<1>2. phase' = phase /\ outer' = outer /\ iresult' = iresult /\ phase # "done" /\ Items' = Items
      /\ at \in Nat \ {0} /\ at' \in Nat \ {0} /\ at <= at'
  BY DEF Pooled, Items, ImportInv, ImportTypeOK
<1>3. ImportCancelHasCause /\ PoolOK /\ ResultOK
  BY DEF ImportInv
<1>4. ImportCancelHasCause'
  <2>1. PoolCancelled => outer \/ pool.err # "none"
    BY <1>3 DEF ImportCancelHasCause, PoolCancelled
  <2> QED
    BY <1>1, <1>2, <1>3, <2>1 DEF ImportCancelHasCause
<1>5. PoolOK'
  <2>1. /\ pool.closed => at > Len(Items) \/ PoolCancelled
        /\ at <= Len(Items) + 1
        /\ \A v \in ImportWorkers : Running(v) => Worker(v).item \in 1..(at - 1)
    BY <1>3 DEF PoolOK
  <2>2. PoolCancelled' = PoolCancelled
    BY <1>1, <1>2 DEF PoolCancelled
  <2>3. pool'.closed => at' > Len(Items) \/ PoolCancelled
    BY <1>1, <2>1
  <2>4. at' <= Len(Items) + 1
    <3>1. Len(Items) \in Nat
      BY AbsentList, ImageJobFacts DEF Items, Pooled
    <3> QED
      BY <1>2, <2>1, <3>1
  <2>5. \A v \in ImportWorkers : Running(v)' => Worker(v)'.item \in 1..(at' - 1)
    <3>1. ASSUME NEW v \in ImportWorkers, v # w, Running(v)'
          PROVE  Worker(v)'.item \in 1..(at' - 1)
      BY <1>1, <1>2, <2>1, <3>1 DEF Running
    <3> QED
      BY <1>1, <3>1 DEF Running
  <2> QED
    BY <1>2, <2>2, <2>3, <2>4, <2>5 DEF PoolOK, Pooled
<1>6. ResultOK'
  BY <1>2, <1>3 DEF ResultOK
<1> QED
  BY <1>1, <1>2, <1>4, <1>5, <1>6

(***************************************************************************)
(* The pool is as broken after a worker's step as before it, but for a     *)
(* worker that failed.                                                     *)
(***************************************************************************)
LEMMA WorkerStepBroken ==
  ASSUME pool \in Pools, NEW w \in ImportWorkers, NEW r \in PoolWorkers, SetWorker(w, r), Worker(w).pc # "fail"
  PROVE  /\ Broken => Broken'
         /\ r.pc = "fail" => Broken'
<1>1. /\ pool'.err = pool.err /\ Worker(w)' = r
      /\ \A v \in ImportWorkers : v # w => Worker(v)' = Worker(v)
  BY WorkerSet
<1> QED
  BY <1>1 DEF Broken

LEMMA FeedOK ==
  ASSUME ImportInv, NEW w \in ImportWorkers, feed(w)
  PROVE  ImportInv'
<1> DEFINE r == [Worker(w) EXCEPT !.pc = "run", !.item = at, !.ref = 1]
<1>1. /\ phase \in Pooled /\ phase # "done" /\ ~pool.closed /\ at <= Len(Items) /\ Worker(w).pc = "idle"
      /\ SetWorker(w, r) /\ at' = at + 1
      /\ phase' = phase /\ outer' = outer /\ iresult' = iresult
      /\ stored' = stored /\ published' = published /\ tagged' = tagged
  BY DEF feed, Pooled, StoreUnchanged
<1>2. /\ pool \in Pools /\ at \in Nat \ {0} /\ Worker(w) \in PoolWorkers
      /\ rows \in [Digests -> [state : RowStates, sawStage : BOOLEAN]]
      /\ mrows \in [Manifests -> {"pending", "inflight", "done"}]
      /\ iresult.err = "running"
  BY <1>1 DEF ImportInv, ImportTypeOK, Pools, Worker, ResultOK
<1>3. r \in PoolWorkers /\ r.pc = "run" /\ r.item = at /\ r.ref = 1
  BY <1>2 DEF PoolWorkers
<1> HIDE DEF r
<1>4. ImportCancelHasCause' /\ PoolOK' /\ ResultOK' /\ pool' \in Pools /\ at' \in Nat \ {0}
  BY <1>1, <1>2, <1>3, WorkerStepPool
<1>5. Worker(w)' = r /\ \A v \in ImportWorkers : v # w => Worker(v)' = Worker(v)
  BY <1>1, <1>2, <1>3, WorkerSet
<1>6. Broken => Broken'
  BY <1>1, <1>2, <1>3, WorkerStepBroken
<1>7. Running(w)' /\ Worker(w)'.item = at /\ ~Running(w) /\ \A v \in ImportWorkers : v # w => Running(v)' = Running(v)
  BY <1>1, <1>3, <1>5 DEF Running
<1>8. CASE phase = "blobs"
  <2> DEFINE f == absentLargestFirst
  <2>0. PICK d0 : d0 = f[at].digest
    OBVIOUS
  <2>1. Items = f /\ at \in 1..Len(f) /\ Len(f) \in Nat /\ d0 \in Digests
    BY <1>1, <1>2, <1>8, <2>0, AbsentList DEF Items
  <2>2. rows' = [rows EXCEPT ![d0].state = "inflight"] /\ mrows' = mrows
    BY <1>8, <2>0, <2>1 DEF feed
  <2>3. rows' \in [Digests -> [state : RowStates, sawStage : BOOLEAN]]
    BY <1>2, <2>1, <2>2 DEF RowStates
  <2>4. ImportTypeOK'
    BY <1>1, <1>4, <2>2, <2>3 DEF ImportInv, ImportTypeOK
  <2>5. ASSUME NEW d \in Digests, ~Broken'
        PROVE  Settled(d)' \/ BlobWaits(d, at') \/ BlobInWork(d)'
    <3> HIDE DEF f
    <3>1. Settled(d) \/ BlobWaits(d, at) \/ BlobInWork(d)
      BY <1>6, <1>8, <2>5 DEF ImportInv, BlobsOK
    <3>2. BlobInWork(d0)'
      BY <1>7, <2>0 DEF BlobInWork, f
    <3>3. CASE Settled(d) /\ d # d0
      BY <1>1, <1>2, <2>1, <2>2, <3>3 DEF Settled
    <3>4. CASE BlobWaits(d, at)
      <4>1. PICK k \in at..Len(f) : f[k].digest = d
        BY <3>4 DEF BlobWaits, f
      <4>2. CASE k = at
        BY <2>0, <3>2, <4>1, <4>2
      <4>3. CASE k # at
        <5>1. k \in at'..Len(f)
          BY <1>1, <1>2, <2>1, <4>3
        <5> QED
          BY <4>1, <5>1 DEF BlobWaits, f
      <4> QED
        BY <4>2, <4>3
    <3>5. CASE BlobInWork(d)
      BY <1>5, <1>7, <3>5 DEF BlobInWork
    <3> QED
      BY <3>1, <3>2, <3>3, <3>4, <3>5
  <2>6. BlobsOK'
    <3>1. published = {}
      BY <1>8 DEF ImportInv, BlobsOK
    <3> QED
      BY <1>1, <1>2, <1>8, <2>5, <3>1 DEF BlobsOK
  <2>7. ImagesOK' /\ IndexesOK'
    BY <1>1, <1>2, <1>8 DEF ImagesOK, IndexesOK
  <2> QED
    BY <1>4, <2>4, <2>6, <2>7 DEF ImportInv
<1>9. CASE phase = "images"
  <2> DEFINE j == ImageJobs[at]
  <2>0. PICK m : m = ImageJobs[at].manifest
    OBVIOUS
  <2>1. Items = ImageJobs /\ at \in 1..Len(ImageJobs) /\ Len(ImageJobs) \in Nat /\ m \in Manifests /\ Len(j.refs) \in Nat \ {0}
    BY <1>1, <1>2, <1>9, <2>0, ImageJobFacts DEF Items
  <2>2. mrows' = [mrows EXCEPT ![m] = "inflight"] /\ rows' = rows
    BY <1>9, <2>0, <2>1 DEF feed
  <2>3. mrows' \in [Manifests -> {"pending", "inflight", "done"}]
    BY <1>2, <2>1, <2>2
  <2>4. ImportTypeOK'
    BY <1>1, <1>4, <2>2, <2>3 DEF ImportInv, ImportTypeOK
  <2>5. BlobsOK'
    BY <1>1, <1>2, <1>9, <2>2 DEF ImportInv, BlobsOK, Settled
  <2>6. \A i, n : PutUpTo(i, n)' = PutUpTo(i, n)
    BY <1>1 DEF PutUpTo
  <2>7. ASSUME NEW v \in ImportWorkers, Running(v)'
        PROVE  (Worker(v).ref \in 1..Len(ImageJobs[Worker(v).item].refs)
                 /\ PutUpTo(ImageJobs[Worker(v).item], Worker(v).ref - 1))'
    <3>1. CASE v = w
      <4>1. PutUpTo(j, 0)
        BY DEF PutUpTo
      <4>2. Worker(v)'.ref = 1 /\ Worker(v)'.item = at
        BY <1>3, <1>5, <3>1
      <4> HIDE DEF j
      <4> QED
        BY <2>1, <2>6, <4>1, <4>2 DEF j
    <3>2. CASE v # w
      BY <1>5, <1>7, <1>9, <2>6, <2>7, <3>2 DEF ImportInv, ImagesOK
    <3> QED
      BY <3>1, <3>2
  <2>8. ASSUME NEW k \in 1..(at' - 1), ~Broken'
        PROVE  JobInWork(k)' \/ JobDone(ImageJobs[k])'
    <3>1. CASE k = at
      BY <1>7, <3>1 DEF JobInWork
    <3>2. CASE k # at
      <4>1. k \in 1..(at - 1)
        BY <1>1, <1>2, <3>2
      <4>2. JobInWork(k) \/ JobDone(ImageJobs[k])
        BY <1>6, <1>9, <2>8, <4>1 DEF ImportInv, ImagesOK
      <4>3. JobInWork(k) => JobInWork(k)'
        BY <1>5, <1>7 DEF JobInWork
      <4> QED
        BY <2>6, <4>2, <4>3 DEF JobDone
    <3> QED
      BY <3>1, <3>2
  <2>9. ASSUME NEW k \in 1..(at' - 1), ~Broken'
        PROVE  ManifestInWork(ImageJobs[k].manifest)' \/ mrows'[ImageJobs[k].manifest] = "done"
    <3>1. ManifestInWork(m)'
      BY <1>7, <2>0 DEF ManifestInWork
    <3>2. CASE k = at
      BY <2>0, <3>1, <3>2
    <3>3. CASE k # at
      <4> DEFINE mk == ImageJobs[k].manifest
      <4>1. k \in 1..(at - 1)
        BY <1>1, <1>2, <3>3
      <4>2. ManifestInWork(mk) \/ mrows[mk] = "done"
        BY <1>6, <1>9, <2>9, <4>1 DEF ImportInv, ImagesOK
      <4>3. ManifestInWork(mk) => ManifestInWork(mk)'
        BY <1>5, <1>7 DEF ManifestInWork
      <4>4. mk \in Manifests
        BY <1>2, <2>1, <4>1, ImageJobFacts
      <4> HIDE DEF mk
      <4>5. mk = m \/ mrows'[mk] = mrows[mk]
        BY <1>2, <2>1, <2>2, <4>4
      <4>6. ManifestInWork(mk)' \/ mrows'[mk] = "done"
        BY <3>1, <4>2, <4>3, <4>5
      <4> QED
        BY <4>6 DEF mk
    <3> QED
      BY <3>2, <3>3
  <2>10. ImagesOK'
    BY <1>1, <1>2, <1>9, <2>7, <2>8, <2>9 DEF ImagesOK
  <2>11. IndexesOK'
    BY <1>1, <1>2, <1>9 DEF IndexesOK
  <2> QED
    BY <1>4, <2>4, <2>5, <2>10, <2>11 DEF ImportInv
<1> QED
  BY <1>1, <1>8, <1>9 DEF Pooled

LEMMA BlobStageOK ==
  ASSUME ImportInv, NEW w \in ImportWorkers, BlobStage(w)
  PROVE  ImportInv'
<1>1. /\ phase = "blobs" /\ phase' = phase /\ at' = at /\ pool' = pool /\ outer' = outer
      /\ mrows' = mrows /\ iresult' = iresult
      /\ stored' = stored /\ published' = published /\ tagged' = tagged
  BY DEF BlobStage, StoreUnchanged
<1>2. PICK d : d = Items[Worker(w).item].digest /\ rows' = [rows EXCEPT ![d].sawStage = TRUE]
  BY DEF BlobStage
<1>3. rows \in [Digests -> [state : RowStates, sawStage : BOOLEAN]] /\ iresult.err = "running"
  BY <1>1 DEF ImportInv, ImportTypeOK, ResultOK
<1>4. rows' \in [Digests -> [state : RowStates, sawStage : BOOLEAN]] /\ \A x \in Digests : rows'[x].state = rows[x].state
  BY <1>2, <1>3
<1>5. ImportTypeOK'
  BY <1>1, <1>4 DEF ImportInv, ImportTypeOK
<1>6. ImportCancelHasCause' /\ ResultOK'
  BY <1>1 DEF ImportInv, ImportCancelHasCause, Worker, ResultOK
<1>7. PoolOK'
  BY <1>1 DEF ImportInv, PoolOK, Worker, Running, Items, PoolCancelled
<1>8. BlobsOK'
  <2>1. \A x \in Digests : Settled(x)' = Settled(x)
    BY <1>1, <1>4 DEF Settled
  <2>2. Broken' = Broken /\ \A x : BlobInWork(x)' = BlobInWork(x)
    BY <1>1 DEF Broken, BlobInWork, Worker, Running
  <2>3. BlobsOK
    BY DEF ImportInv
  <2> QED
    BY <1>1, <1>3, <2>1, <2>2, <2>3 DEF BlobsOK, BlobWaits
<1>9. ImagesOK' /\ IndexesOK'
  BY <1>1, <1>3 DEF ImagesOK, IndexesOK
<1> QED
  BY <1>5, <1>6, <1>7, <1>8, <1>9 DEF ImportInv

LEMMA PutBlobOK ==
  ASSUME ImportInv, NEW w \in ImportWorkers, putBlob(w)
  PROVE  ImportInv'
<1>1. /\ phase = "blobs" /\ phase \in Pooled /\ Running(w) /\ phase' = phase /\ at' = at /\ outer' = outer
      /\ mrows' = mrows /\ iresult' = iresult /\ published' = published /\ tagged' = tagged
  BY DEF putBlob, Running, Pooled
<1>2. /\ pool \in Pools /\ at \in Nat \ {0} /\ Worker(w) \in PoolWorkers
      /\ rows \in [Digests -> [state : RowStates, sawStage : BOOLEAN]]
      /\ iresult.err = "running" /\ published = {}
      /\ Worker(w).item \in 1..(at - 1) /\ at <= Len(Items) + 1
  BY <1>1 DEF ImportInv, ImportTypeOK, Pools, Worker, ResultOK, BlobsOK, PoolOK
<1>3. PICK d : d = absentLargestFirst[Worker(w).item].digest
  OBVIOUS
<1>4. d \in Digests /\ d = Items[Worker(w).item].digest
  BY <1>1, <1>2, <1>3, AbsentList DEF Items
<1>5. Worker(w).pc # "fail" /\ Worker(w).pc = "run"
  BY <1>1 DEF Running
<1>6. ImagesOK' /\ IndexesOK'
  BY <1>1, <1>2 DEF ImagesOK, IndexesOK
<1>7. CASE /\ stored' = stored \cup {d}
           /\ rows' = [rows EXCEPT ![d].state = IF rows[d].sawStage THEN "done" ELSE "present"]
           /\ SetWorker(w, IdleWorker)
  <2>1. IdleWorker \in PoolWorkers /\ IdleWorker.pc = "idle"
    BY IdleIsAWorker
  <2>2. ImportCancelHasCause' /\ PoolOK' /\ ResultOK' /\ pool' \in Pools
    BY <1>1, <1>7, <2>1, WorkerStepPool
  <2>3. /\ rows' \in [Digests -> [state : RowStates, sawStage : BOOLEAN]]
        /\ rows'[d].state \in {"done", "present"} /\ \A x \in Digests : x # d => rows'[x] = rows[x]
    BY <1>2, <1>4, <1>7 DEF RowStates
  <2>4. ImportTypeOK'
    BY <1>1, <2>2, <2>3 DEF ImportInv, ImportTypeOK
  <2>5. Broken => Broken'
    BY <1>2, <1>5, <1>7, <2>1, WorkerStepBroken
  <2>6. \A v \in ImportWorkers : v # w => Worker(v)' = Worker(v)
    BY <1>2, <1>7, <2>1, WorkerSet
  <2>7. ASSUME NEW x \in Digests, ~Broken'
        PROVE  Settled(x)' \/ BlobWaits(x, at') \/ BlobInWork(x)'
    <3>1. Settled(x) \/ BlobWaits(x, at) \/ BlobInWork(x)
      BY <1>1, <2>5, <2>7 DEF ImportInv, BlobsOK
    <3>2. CASE x = d
      BY <1>7, <2>3, <3>2 DEF Settled
    <3>3. CASE x # d
      <4>1. Settled(x) => Settled(x)'
        BY <1>7, <2>3, <3>3 DEF Settled
      <4>2. BlobInWork(x) => BlobInWork(x)'
        BY <1>3, <2>6, <3>3 DEF BlobInWork, Running
      <4> QED
        BY <1>1, <3>1, <4>1, <4>2 DEF BlobWaits
    <3> QED
      BY <3>2, <3>3
  <2>8. BlobsOK'
    BY <1>1, <1>2, <2>7 DEF BlobsOK
  <2> QED
    BY <1>6, <2>2, <2>4, <2>8 DEF ImportInv
<1>8. CASE \E e \in {"fault", "cancel"} :
             /\ CallFails(e)
             /\ rows' = [rows EXCEPT ![d].state = "failed"]
             /\ SetWorker(w, [Worker(w) EXCEPT !.pc = "fail", !.err = e])
             /\ UNCHANGED stored
  <2>1. PICK e \in {"fault", "cancel"} :
             /\ CallFails(e)
             /\ rows' = [rows EXCEPT ![d].state = "failed"]
             /\ SetWorker(w, [Worker(w) EXCEPT !.pc = "fail", !.err = e])
    BY <1>8
  <2> DEFINE r == [Worker(w) EXCEPT !.pc = "fail", !.err = e]
  <2>2. r \in PoolWorkers /\ r.pc = "fail" /\ r.err = e /\ SetWorker(w, r)
    BY <1>2, <2>1 DEF PoolWorkers, ImportErrs
  <2> HIDE DEF r
  <2>3. e = "cancel" => PoolCancelled
    BY <2>1 DEF CallFails
  <2>4. ImportCancelHasCause' /\ PoolOK' /\ ResultOK' /\ pool' \in Pools
    BY <1>1, <2>2, <2>3, WorkerStepPool
  <2>5. rows' \in [Digests -> [state : RowStates, sawStage : BOOLEAN]]
    BY <1>2, <2>1 DEF RowStates
  <2>6. ImportTypeOK'
    BY <1>1, <2>4, <2>5 DEF ImportInv, ImportTypeOK
  <2>7. Broken'
    BY <1>2, <1>5, <2>2, WorkerStepBroken
  <2>8. BlobsOK'
    BY <1>1, <1>2, <2>7 DEF BlobsOK
  <2> QED
    BY <1>6, <2>4, <2>6, <2>8 DEF ImportInv
<1> QED
  BY <1>4, <1>7, <1>8 DEF putBlob

(***************************************************************************)
(* Once all blobs are in the store, an image manifest finds what it names. *)
(***************************************************************************)
LEMMA ImageFindsItsBlobs ==
  ASSUME ImportInv, phase = "images", NEW k \in 1..Len(ImageJobs)
  PROVE  Found(ImageJobs[k])
<1>1. Digests \subseteq stored
  BY DEF ImportInv, BlobsOK, Settled
<1>2. Needs[ImageJobs[k].manifest] \subseteq Digests
  BY ImageJobFacts
<1> QED
  BY <1>1, <1>2 DEF Found

(***************************************************************************)
(* What was put stays put, and putting one more reference is that.         *)
(***************************************************************************)
LEMMA PutMore ==
  ASSUME published \subseteq published', tagged \subseteq tagged', NEW j, NEW n, PutUpTo(j, n)
  PROVE  PutUpTo(j, n)'
BY DEF PutUpTo

LEMMA PutNext ==
  ASSUME NEW j, NEW n \in Nat \ {0}, PutUpTo(j, n - 1), PutImage(j, n)
  PROVE  PutUpTo(j, n)' /\ published \subseteq published' /\ tagged \subseteq tagged'
<1>1. <<j.repo, j.manifest>> \in published' /\ published \subseteq published' /\ tagged \subseteq tagged'
  BY DEF PutImage
<1>2. j.refs[n] = j.manifest \/ <<j.repo, j.refs[n]>> \in tagged'
  BY DEF PutImage
<1>3. \A i \in 1..n : i = n \/ i \in 1..(n - 1)
  OBVIOUS
<1> QED
  BY <1>1, <1>2, <1>3 DEF PutUpTo

LEMMA PutManifestOK ==
  ASSUME ImportInv, NEW w \in ImportWorkers, putManifest(w)
  PROVE  ImportInv'
<1>1. /\ phase = "images" /\ phase \in Pooled /\ Running(w) /\ phase' = phase /\ at' = at /\ outer' = outer
      /\ rows' = rows /\ iresult' = iresult /\ stored' = stored
  BY DEF putManifest, Running, Pooled
<1>2. /\ pool \in Pools /\ at \in Nat \ {0} /\ Worker(w) \in PoolWorkers
      /\ mrows \in [Manifests -> {"pending", "inflight", "done"}]
      /\ iresult.err = "running" /\ Digests \subseteq stored /\ \A d \in Digests : Settled(d)
      /\ Worker(w).item \in 1..(at - 1) /\ at <= Len(Items) + 1
  BY <1>1 DEF ImportInv, ImportTypeOK, Pools, Worker, ResultOK, BlobsOK, Settled, PoolOK
<1>3. PICK q : q = Worker(w).item
  OBVIOUS
<1>4. PICK n : n = Worker(w).ref
  OBVIOUS
<1> DEFINE j == ImageJobs[q]
<1>5. /\ Items = ImageJobs /\ q \in 1..Len(ImageJobs) /\ Len(ImageJobs) \in Nat
      /\ Len(j.refs) \in Nat \ {0} /\ j.manifest \in Manifests /\ Found(j)
  BY <1>1, <1>2, <1>3, ImageJobFacts, ImageFindsItsBlobs DEF Items
<1>6. n \in 1..Len(j.refs) /\ PutUpTo(j, n - 1)
  BY <1>1, <1>3, <1>4 DEF ImportInv, ImagesOK
<1> HIDE DEF j
<1>7. Worker(w).pc # "fail" /\ Worker(w).pc = "run"
  BY <1>1 DEF Running
<1>8. /\ \A k \in 1..(at - 1) : Broken \/ JobInWork(k) \/ JobDone(ImageJobs[k])
      /\ \A k \in 1..(at - 1) :
           Broken \/ ManifestInWork(ImageJobs[k].manifest) \/ mrows[ImageJobs[k].manifest] = "done"
      /\ \A v \in ImportWorkers : Running(v) =>
           /\ Worker(v).ref \in 1..Len(ImageJobs[Worker(v).item].refs)
           /\ PutUpTo(ImageJobs[Worker(v).item], Worker(v).ref - 1)
  BY <1>1 DEF ImportInv, ImagesOK
<1>9. BlobsOK' /\ IndexesOK'
  BY <1>1, <1>2 DEF BlobsOK, IndexesOK, Settled
<1>10. CASE /\ PutImage(j, n)
            /\ mrows' = [mrows EXCEPT ![j.manifest] = IF n < Len(j.refs) THEN "inflight" ELSE "done"]
            /\ SetWorker(w, IF n < Len(j.refs) THEN [Worker(w) EXCEPT !.ref = n + 1] ELSE IdleWorker)
  <2> DEFINE r == IF n < Len(j.refs) THEN [Worker(w) EXCEPT !.ref = n + 1] ELSE IdleWorker
  <2>1. /\ r \in PoolWorkers
        /\ n < Len(j.refs) => r.pc = "run" /\ r.item = q /\ r.ref = n + 1
        /\ ~(n < Len(j.refs)) => r.pc = "idle"
    <3>1. n \in Nat
      BY <1>5, <1>6
    <3>2. CASE n < Len(j.refs)
      BY <1>2, <1>3, <1>7, <3>1, <3>2 DEF PoolWorkers
    <3>3. CASE ~(n < Len(j.refs))
      BY <3>3, IdleIsAWorker
    <3> QED
      BY <3>2, <3>3
  <2>2. SetWorker(w, r)
    BY <1>10
  <2> HIDE DEF r
  <2>3. ImportCancelHasCause' /\ PoolOK' /\ ResultOK' /\ pool' \in Pools
    <3>1. r.pc = "run" => r.item \in 1..(at' - 1)
      BY <1>1, <1>2, <1>3, <2>1
    <3>2. r.pc # "fail"
      BY <2>1
    <3> QED
      BY <1>1, <2>1, <2>2, <3>1, <3>2, WorkerStepPool
  <2>4. /\ mrows' \in [Manifests -> {"pending", "inflight", "done"}]
        /\ \A m \in Manifests : m # j.manifest => mrows'[m] = mrows[m]
        /\ ~(n < Len(j.refs)) => mrows'[j.manifest] = "done"
    BY <1>2, <1>5, <1>10
  <2>5. ImportTypeOK'
    BY <1>1, <2>3, <2>4 DEF ImportInv, ImportTypeOK
  <2>6. Broken => Broken'
    BY <1>2, <1>7, <2>1, <2>2, WorkerStepBroken
  <2>7. Worker(w)' = r /\ \A v \in ImportWorkers : v # w => Worker(v)' = Worker(v)
    BY <1>2, <2>1, <2>2, WorkerSet
  <2>8. PutUpTo(j, n)' /\ published \subseteq published' /\ tagged \subseteq tagged'
    BY <1>5, <1>6, <1>10, PutNext
  <2>9. ASSUME NEW v \in ImportWorkers, Running(v)'
        PROVE  (Worker(v).ref \in 1..Len(ImageJobs[Worker(v).item].refs)
                 /\ PutUpTo(ImageJobs[Worker(v).item], Worker(v).ref - 1))'
    <3>1. CASE v = w
      <4>1. n < Len(j.refs) /\ Worker(v)'.item = q /\ Worker(v)'.ref = n + 1
        BY <2>1, <2>7, <2>9, <3>1 DEF Running
      <4>2. n + 1 \in 1..Len(j.refs) /\ (n + 1) - 1 = n
        BY <1>5, <1>6, <4>1
      <4>3. PutUpTo(j, (n + 1) - 1)'
        BY <2>8, <4>2
      <4> QED
        BY <4>1, <4>2, <4>3 DEF j
    <3>2. CASE v # w
      <4>1. PICK k, c : k = Worker(v).item /\ c = Worker(v).ref - 1
        OBVIOUS
      <4>2. Running(v) /\ Worker(v)' = Worker(v) /\ PutUpTo(ImageJobs[k], c)
        BY <1>8, <2>7, <2>9, <3>2, <4>1 DEF Running
      <4>3. PutUpTo(ImageJobs[k], c)'
        BY <2>8, <4>2, PutMore
      <4> QED
        BY <1>8, <4>1, <4>2, <4>3
    <3> QED
      BY <3>1, <3>2
  <2>10. ASSUME NEW k \in 1..(at - 1), ~Broken'
         PROVE  JobInWork(k)' \/ JobDone(ImageJobs[k])'
    <3>1. JobInWork(k) \/ JobDone(ImageJobs[k])
      BY <1>8, <2>6, <2>10
    <3>2. CASE k = q
      <4>1. CASE n < Len(j.refs)
        BY <2>1, <2>7, <3>2, <4>1 DEF JobInWork, Running
      <4>2. CASE ~(n < Len(j.refs))
        <5>1. n = Len(j.refs)
          BY <1>5, <1>6, <4>2
        <5> QED
          BY <2>8, <3>2, <5>1 DEF JobDone, j
      <4> QED
        BY <4>1, <4>2
    <3>3. CASE k # q
      <4>1. JobInWork(k) => JobInWork(k)'
        BY <1>3, <2>7, <3>3 DEF JobInWork, Running
      <4>2. JobDone(ImageJobs[k]) => JobDone(ImageJobs[k])'
        BY <2>8, PutMore DEF JobDone
      <4> QED
        BY <3>1, <4>1, <4>2
    <3> QED
      BY <3>2, <3>3
  <2>11. ASSUME NEW k \in 1..(at - 1), ~Broken'
         PROVE  ManifestInWork(ImageJobs[k].manifest)' \/ mrows'[ImageJobs[k].manifest] = "done"
    <3> DEFINE m == ImageJobs[k].manifest
    <3>1. ManifestInWork(m) \/ mrows[m] = "done"
      BY <1>8, <2>6, <2>11
    <3>2. m \in Manifests
      BY <1>2, <1>5, ImageJobFacts
    <3> HIDE DEF m
    <3>3. CASE m = j.manifest
      <4>1. CASE n < Len(j.refs)
        <5>1. Running(w)' /\ Worker(w)'.item = q
          BY <2>1, <2>7, <4>1 DEF Running
        <5> QED
          BY <3>3, <5>1 DEF ManifestInWork, j, m
      <4> QED
        BY <2>4, <3>3, <4>1 DEF m
    <3>4. CASE m # j.manifest
      <4>1. ManifestInWork(m) => ManifestInWork(m)'
        BY <1>3, <2>7, <3>4 DEF ManifestInWork, Running, j
      <4> QED
        BY <2>4, <3>1, <3>2, <3>4, <4>1 DEF m
    <3> QED
      BY <3>3, <3>4
  <2>12. ImagesOK'
    BY <1>1, <1>2, <2>9, <2>10, <2>11 DEF ImagesOK
  <2> QED
    BY <1>9, <2>3, <2>5, <2>12 DEF ImportInv
<1>11. CASE \E e \in {"fault", "cancel", "missing"} :
              /\ CallFails(e) \/ (e = "missing" /\ ~Found(j) /\ UNCHANGED ifaults)
              /\ SetWorker(w, [Worker(w) EXCEPT !.pc = "fail", !.err = e])
              /\ UNCHANGED <<published, tagged, mrows>>
  <2>1. PICK e \in {"fault", "cancel"} :
              /\ CallFails(e)
              /\ SetWorker(w, [Worker(w) EXCEPT !.pc = "fail", !.err = e])
    BY <1>5, <1>11 DEF CallFails
  <2>2. published' = published /\ tagged' = tagged /\ mrows' = mrows
    BY <1>11
  <2> DEFINE r == [Worker(w) EXCEPT !.pc = "fail", !.err = e]
  <2>3. r \in PoolWorkers /\ r.pc = "fail" /\ r.err = e /\ SetWorker(w, r)
    BY <1>2, <2>1 DEF PoolWorkers, ImportErrs
  <2> HIDE DEF r
  <2>4. e = "cancel" => PoolCancelled
    BY <2>1 DEF CallFails
  <2>5. ImportCancelHasCause' /\ PoolOK' /\ ResultOK' /\ pool' \in Pools
    BY <1>1, <2>3, <2>4, WorkerStepPool
  <2>6. ImportTypeOK'
    BY <1>1, <2>2, <2>5 DEF ImportInv, ImportTypeOK
  <2>7. Broken'
    BY <1>2, <1>7, <2>3, WorkerStepBroken
  <2>8. Worker(w)' = r /\ \A v \in ImportWorkers : v # w => Worker(v)' = Worker(v)
    BY <1>2, <2>3, WorkerSet
  <2>9. ASSUME NEW v \in ImportWorkers, Running(v)'
        PROVE  (Worker(v).ref \in 1..Len(ImageJobs[Worker(v).item].refs)
                 /\ PutUpTo(ImageJobs[Worker(v).item], Worker(v).ref - 1))'
    <3>1. v # w /\ Running(v) /\ Worker(v)' = Worker(v)
      BY <2>3, <2>8, <2>9 DEF Running
    <3> QED
      BY <1>8, <2>2, <3>1 DEF PutUpTo
  <2>10. ImagesOK'
    BY <1>1, <1>2, <2>7, <2>9 DEF ImagesOK
  <2> QED
    BY <1>9, <2>5, <2>6, <2>10 DEF ImportInv
<1>12. Items[Worker(w).item] = j /\ Worker(w).ref = n
  BY <1>3, <1>4, <1>5 DEF j
<1> QED
  BY <1>10, <1>11, <1>12 DEF putManifest

(***************************************************************************)
(* Steps that change nothing but the pool's own fields or the user's       *)
(* context, in which whoever ran runs on.                                  *)
(***************************************************************************)
LEMMA OnlyPoolOK ==
  ASSUME ImportInv, ImportTypeOK', ImportCancelHasCause', PoolOK',
         UNCHANGED <<phase, at, stored, published, tagged, rows, mrows, iresult>>,
         Broken => Broken',
         \A w \in ImportWorkers : Running(w)' = Running(w) /\ (Running(w) => Worker(w)' = Worker(w))
  PROVE  ImportInv'
<1>1. \A d \in Digests : Settled(d)' = Settled(d)
  BY DEF Settled
<1>2. \A j, n : PutUpTo(j, n)' = PutUpTo(j, n)
  BY DEF PutUpTo
<1>3. \A j : JobDone(j)' = JobDone(j)
  BY <1>2 DEF JobDone
<1>4. /\ \A d : BlobInWork(d) => BlobInWork(d)'
      /\ \A k : JobInWork(k) => JobInWork(k)'
      /\ \A m : ManifestInWork(m) => ManifestInWork(m)'
  BY DEF BlobInWork, JobInWork, ManifestInWork
<1>5. BlobsOK'
  <2>1. BlobsOK
    BY DEF ImportInv
  <2> QED
    BY <1>1, <1>4, <2>1 DEF BlobsOK, BlobWaits
<1>6. ImagesOK'
  <2>1. ImagesOK
    BY DEF ImportInv
  <2>2. ASSUME phase = "images", NEW w \in ImportWorkers, Running(w)'
        PROVE  (Worker(w).ref \in 1..Len(ImageJobs[Worker(w).item].refs)
                 /\ PutUpTo(ImageJobs[Worker(w).item], Worker(w).ref - 1))'
    <3>1. Running(w) /\ Worker(w)' = Worker(w)
      BY <2>2
    <3> QED
      BY <2>1, <2>2, <3>1 DEF ImagesOK, PutUpTo
  <2> QED
    BY <1>3, <1>4, <2>1, <2>2 DEF ImagesOK
<1>7. IndexesOK' /\ ResultOK'
  BY <1>3 DEF ImportInv, IndexesOK, ResultOK
<1> QED
  BY <1>5, <1>6, <1>7 DEF ImportInv

LEMMA StopFeedingOK ==
  ASSUME ImportInv, stopFeeding
  PROVE  ImportInv'
<1>1. /\ phase \in Pooled /\ (at > Len(Items) \/ PoolCancelled)
      /\ pool' = [pool EXCEPT !.closed = TRUE]
      /\ UNCHANGED <<phase, at, outer, iresult, stored, published, tagged, rows, mrows>>
  BY DEF stopFeeding, Pooled, StoreUnchanged, RowsUnchanged
<1>2. pool \in Pools
  BY DEF ImportInv, ImportTypeOK
<1>3. /\ pool' \in Pools /\ pool'.err = pool.err /\ pool'.cancelled = pool.cancelled /\ pool'.workers = pool.workers
  BY <1>1, <1>2 DEF Pools
<1>4. \A w : Worker(w)' = Worker(w)
  BY <1>3 DEF Worker
<1>5. ImportTypeOK'
  BY <1>1, <1>3 DEF ImportInv, ImportTypeOK
<1>6. ImportCancelHasCause'
  BY <1>1, <1>3, <1>4 DEF ImportInv, ImportCancelHasCause
<1>7. PoolOK'
  BY <1>1, <1>3, <1>4 DEF ImportInv, PoolOK, Running, Items, PoolCancelled, Pooled
<1>8. Broken' = Broken /\ \A w \in ImportWorkers : Running(w)' = Running(w)
  BY <1>3, <1>4 DEF Broken, Running
<1> QED
  BY <1>1, <1>4, <1>5, <1>6, <1>7, <1>8, OnlyPoolOK

LEMMA UserCancelsOK ==
  ASSUME ImportInv, userCancels
  PROVE  ImportInv'
<1>1. /\ outer' = TRUE
      /\ UNCHANGED <<phase, at, pool, iresult, stored, published, tagged, rows, mrows>>
  BY DEF userCancels
<1>2. \A w : Worker(w)' = Worker(w)
  BY <1>1 DEF Worker
<1>3. outer' \in BOOLEAN
  BY DEF userCancels
<1>4. ImportTypeOK'
  BY <1>1, <1>3 DEF ImportInv, ImportTypeOK
<1>5. ImportCancelHasCause'
  BY <1>1, <1>2 DEF ImportInv, ImportCancelHasCause
<1>6. PoolOK'
  BY <1>1, <1>2 DEF ImportInv, PoolOK, Running, Items, PoolCancelled
<1>7. Broken' = Broken /\ \A w \in ImportWorkers : Running(w)' = Running(w)
  BY <1>1, <1>2 DEF Broken, Running
<1> QED
  BY <1>1, <1>2, <1>4, <1>5, <1>6, <1>7, OnlyPoolOK

LEMMA RecordErrorOK ==
  ASSUME ImportInv, NEW w \in ImportWorkers, recordError(w)
  PROVE  ImportInv'
<1>1. /\ Worker(w).pc = "fail"
      /\ pool' = [pool EXCEPT !.err = IF pool.err = "none" THEN Worker(w).err ELSE pool.err,
                              !.cancelled = TRUE, !.workers[w] = IdleWorker]
      /\ UNCHANGED <<phase, at, outer, iresult, stored, published, tagged, rows, mrows>>
  BY DEF recordError, StoreUnchanged, RowsUnchanged
<1>2. pool \in Pools /\ Worker(w) \in PoolWorkers /\ pool.workers \in [ImportWorkers -> PoolWorkers]
  BY DEF ImportInv, ImportTypeOK, Pools, Worker
<1> DEFINE e == IF pool.err = "none" THEN Worker(w).err ELSE pool.err
           ws == [pool.workers EXCEPT ![w] = IdleWorker]
<1>3. e \in ImportErrs /\ e # "none" /\ (e = "cancel" => outer)
  <2>1. ImportCancelHasCause
    BY DEF ImportInv
  <2>2. e \in ImportErrs
    BY <1>2 DEF Pools, PoolWorkers
  <2>3. e # "none"
    BY <1>1, <2>1 DEF ImportCancelHasCause
  <2>4. e = "cancel" => outer
    BY <1>1, <2>1 DEF ImportCancelHasCause
  <2> QED
    BY <2>2, <2>3, <2>4
<1>4. /\ ws \in [ImportWorkers -> PoolWorkers] /\ ws[w].pc = "idle"
      /\ \A v \in ImportWorkers : v # w => ws[v] = pool.workers[v]
  BY <1>2, IdleIsAWorker
<1>5. pool' = [pool EXCEPT !.err = e, !.cancelled = TRUE, !.workers = ws]
  BY <1>1, <1>2 DEF Pools
<1> HIDE DEF e, ws
<1>6. /\ pool' \in Pools /\ pool'.closed = pool.closed /\ pool'.err = e /\ pool'.cancelled = TRUE /\ pool'.workers = ws
  BY <1>2, <1>3, <1>4, <1>5 DEF Pools
<1>7. Worker(w)'.pc = "idle" /\ \A v \in ImportWorkers : v # w => Worker(v)' = Worker(v)
  BY <1>4, <1>6 DEF Worker
<1>8. ImportTypeOK'
  BY <1>1, <1>6 DEF ImportInv, ImportTypeOK
<1>9. ImportCancelHasCause'
  BY <1>1, <1>3, <1>6, <1>7 DEF ImportInv, ImportCancelHasCause
<1>10. phase \in Pooled
  BY <1>1 DEF ImportInv, PoolOK
<1>11. \A v \in ImportWorkers : Running(v)' = Running(v) /\ (Running(v) => Worker(v)' = Worker(v))
  BY <1>1, <1>7 DEF Running
<1>12. PoolOK'
  BY <1>1, <1>6, <1>10, <1>11 DEF ImportInv, PoolOK, Items, PoolCancelled, Pooled
<1>13. Broken'
  BY <1>3, <1>6 DEF Broken
<1> QED
  BY <1>1, <1>8, <1>9, <1>11, <1>12, <1>13, OnlyPoolOK

LEMMA WorkerExitsOK ==
  ASSUME ImportInv, NEW w \in ImportWorkers, workerExits(w)
  PROVE  ImportInv'
<1> DEFINE r == [Worker(w) EXCEPT !.pc = "exit"]
<1>1. /\ pool.closed /\ Worker(w).pc = "idle" /\ SetWorker(w, r)
      /\ UNCHANGED <<phase, at, outer, iresult, stored, published, tagged, rows, mrows>>
  BY DEF workerExits, StoreUnchanged, RowsUnchanged
<1>2. pool \in Pools /\ Worker(w) \in PoolWorkers
  BY DEF ImportInv, ImportTypeOK, Pools, Worker
<1>3. r \in PoolWorkers /\ r.pc = "exit"
  BY <1>2 DEF PoolWorkers
<1> HIDE DEF r
<1>4. /\ pool' \in Pools
      /\ pool'.closed = pool.closed /\ pool'.err = pool.err /\ pool'.cancelled = pool.cancelled
      /\ Worker(w)' = r
      /\ \A v \in ImportWorkers : v # w => Worker(v)' = Worker(v)
  BY <1>1, <1>2, <1>3, WorkerSet
<1>5. ImportTypeOK'
  BY <1>1, <1>4 DEF ImportInv, ImportTypeOK
<1>6. ImportCancelHasCause'
  BY <1>1, <1>3, <1>4 DEF ImportInv, ImportCancelHasCause
<1>7. \A v \in ImportWorkers : Running(v)' = Running(v) /\ (Running(v) => Worker(v)' = Worker(v))
  BY <1>1, <1>3, <1>4 DEF Running
<1>8. phase \in Pooled \cup {"done"}
  BY <1>1, IdleIsAWorker DEF ImportInv, PoolOK
<1>9. PoolOK'
  <2>1. phase \notin Pooled => \A v \in ImportWorkers : Worker(v)'.pc \in {"idle", "exit"}
    BY <1>3, <1>4 DEF ImportInv, PoolOK
  <2> QED
    BY <1>1, <1>4, <1>7, <1>8, <2>1 DEF ImportInv, PoolOK, Items, PoolCancelled
<1>10. Broken => Broken'
  BY <1>1, <1>2, <1>3, WorkerStepBroken
<1> QED
  BY <1>1, <1>5, <1>6, <1>7, <1>9, <1>10, OnlyPoolOK

(***************************************************************************)
(* each returns: without an error, nobody runs and nothing was left to     *)
(* feed, so the list is done.                                              *)
(***************************************************************************)
LEMMA EachReturnsOK ==
  ASSUME ImportInv, eachReturns
  PROVE  ImportInv'
<1>1. /\ phase \in Pooled /\ phase # "done" /\ pool.closed /\ Waited
      /\ StoreUnchanged /\ RowsUnchanged /\ outer' = outer
      /\ rows' = rows /\ stored' = stored /\ mrows' = mrows /\ published' = published
  BY DEF eachReturns, Pooled, StoreUnchanged, RowsUnchanged
<1>2. \A w \in ImportWorkers : Worker(w).pc = "exit" /\ ~Running(w)
  BY <1>1 DEF Waited, Running
<1>3. pool.err \in ImportErrs /\ ImportCancelHasCause /\ mrows \in [Manifests -> {"pending", "inflight", "done"}]
      /\ (published # {} => Digests \subseteq stored)
  BY DEF ImportInv, ImportTypeOK, Pools, BlobsOK
<1>4. CASE pool.err # "none"
  <2>1. Finish(pool.err)
    BY <1>4 DEF eachReturns
  <2>2. pool.err \in {"fault", "cancel"} /\ (pool.err = "cancel" => outer)
    BY <1>3, <1>4 DEF ImportErrs, ImportCancelHasCause
  <2>3. PICK e \in {"fault", "cancel"} : e = pool.err
    BY <2>2
  <2> QED
    BY <1>1, <1>2, <1>3, <2>1, <2>2, <2>3, FailsOK
<1>5. CASE pool.err = "none" /\ PoolCancelled
  <2>1. Finish("cancel")
    BY <1>5 DEF eachReturns
  <2>2. outer
    BY <1>3, <1>5 DEF PoolCancelled, ImportCancelHasCause
  <2> QED
    BY <1>1, <1>2, <1>3, <2>1, <2>2, FailsOK
<1>6. CASE pool.err = "none" /\ ~PoolCancelled
  <2>1. NewPhase(IF phase = "blobs" THEN "open" ELSE "indexes") /\ UNCHANGED iresult
    BY <1>6 DEF eachReturns
  <2>2. at > Len(Items) /\ at <= Len(Items) + 1 /\ at \in Nat
    BY <1>1, <1>6 DEF ImportInv, PoolOK, ImportTypeOK
  <2>3. ~Broken
    BY <1>2, <1>6 DEF Broken
  <2>4. CASE phase = "blobs"
    <3>1. Items = absentLargestFirst
      BY <2>4 DEF Items
    <3>2. \A d \in Digests : ~BlobWaits(d, at) /\ ~BlobInWork(d)
      BY <1>2, <2>2, <3>1, AbsentList DEF BlobWaits, BlobInWork
    <3>3. (\A d \in Digests : Settled(d)) /\ published = {}
      BY <2>3, <2>4, <3>2 DEF ImportInv, BlobsOK
    <3>4. NewPhase("open")
      BY <2>1, <2>4
    <3> QED
      BY <1>1, <2>1, <3>3, <3>4, NewPhaseOK
  <2>5. CASE phase = "images"
    <3>1. Items = ImageJobs
      BY <2>5 DEF Items
    <3>2. \A k \in 1..Len(ImageJobs) : k \in 1..(at - 1) /\ ~JobInWork(k) /\ ~ManifestInWork(ImageJobs[k].manifest)
      BY <1>2, <2>2, <3>1, ImageJobFacts DEF JobInWork, ManifestInWork
    <3>3. \A k \in 1..Len(ImageJobs) : JobDone(ImageJobs[k]) /\ mrows[ImageJobs[k].manifest] = "done"
      BY <2>3, <2>5, <3>2 DEF ImportInv, ImagesOK
    <3>4. \A d \in Digests : Settled(d)
      BY <2>5 DEF ImportInv, BlobsOK
    <3>5. NewPhase("indexes")
      BY <2>1, <2>5
    <3> QED
      BY <1>1, <2>1, <3>3, <3>4, <3>5, NewPhaseOK
  <2> QED
    BY <1>1, <2>4, <2>5 DEF Pooled
<1> QED
  BY <1>4, <1>5, <1>6

(***************************************************************************)
(* When its turn comes an index of a closed plan finds its children: the   *)
(* images are all published, and the indexes before it in its repository.  *)
(***************************************************************************)
LEMMA IndexFindsItsChildren ==
  ASSUME ImportInv, PlanIsClosed, phase = "indexes", at <= Len(IndexJobs)
  PROVE  Found(IndexJobs[at])
<1>1. at \in 1..Len(IndexJobs) /\ Len(IndexJobs) \in Nat
  BY IndexJobFacts DEF ImportInv, ImportTypeOK
<1>2. Digests \subseteq stored
  BY DEF ImportInv, BlobsOK, Settled
<1>3. \A c \in 1..Len(ImageJobs) : <<ImageJobs[c].repo, ImageJobs[c].manifest>> \in published
  <2>1. \A c \in 1..Len(ImageJobs) : JobDone(ImageJobs[c]) /\ Len(ImageJobs[c].refs) \in Nat \ {0}
    BY ImageJobFacts DEF ImportInv, ImagesOK
  <2> QED
    BY <2>1 DEF JobDone, PutUpTo
<1>4. \A c \in 1..(at - 1) : <<IndexJobs[c].repo, IndexJobs[c].manifest>> \in published
  <2>1. \A c \in 1..(at - 1) : c \in 1..Len(IndexJobs) /\ c <= Len(IndexJobs)
    BY <1>1
  <2>2. \A c \in 1..(at - 1) : JobDone(IndexJobs[c]) /\ Len(IndexJobs[c].refs) \in Nat \ {0}
    BY <2>1, IndexJobFacts DEF ImportInv, IndexesOK
  <2> QED
    BY <2>2 DEF JobDone, PutUpTo
<1>5. ASSUME NEW n \in Needs[IndexJobs[at].manifest]
      PROVE  n \in stored \/ <<IndexJobs[at].repo, n>> \in published
  <2>1. \/ n \in Digests
        \/ \E c \in 1..Len(ImageJobs) : ImageJobs[c].repo = IndexJobs[at].repo /\ ImageJobs[c].manifest = n
        \/ \E c \in 1..(at - 1) : IndexJobs[c].repo = IndexJobs[at].repo /\ IndexJobs[c].manifest = n
    BY <1>1, IndexJobFacts
  <2> QED
    BY <1>2, <1>3, <1>4, <2>1
<1> QED
  BY <1>5 DEF Found

LEMMA JobRefsDomain ==
  ASSUME NEW k \in 1..Len(IndexJobs)
  PROVE  DOMAIN IndexJobs[k].refs = 1..Len(IndexJobs[k].refs)
<1> DEFINE S == {p \in JobPlaces : JobAt(p).manifest \in PlanIndexes}
<1>1. IndexJobs = JobsAt(S) /\ S \in SUBSET JobPlaces
  BY DEF IndexJobs
<1>2. PICK p \in S : IndexJobs[k] = JobAt(p)
  BY <1>1, JobList
<1>3. p \in JobPlaces
  OBVIOUS
<1> DEFINE e == PlanEntries[p[1]]
           j == JobAt(p)
<1>4. /\ p[1] \in DOMAIN PlanEntries /\ p[2] \in DOMAIN e.repos /\ j.repo = e.repos[p[2]]
      /\ j.refs = IF j.manifest = e.digest THEN e.tags[j.repo] ELSE <<j.manifest>>
  BY <1>3, JobAtPlace
<1>5. IsSequence(e.tags[j.repo])
  BY <1>4, PlanAssumption DEF ToSet
<1> HIDE DEF e, j
<1>6. DOMAIN e.tags[j.repo] = 1..Len(e.tags[j.repo])
  BY <1>5, SequenceDomain
<1>7. DOMAIN j.refs = 1..Len(j.refs)
  <2>1. CASE j.manifest = e.digest
    BY <1>4, <1>6, <2>1
  <2>2. CASE j.manifest # e.digest
    <3>1. j.refs = <<j.manifest>> /\ <<j.manifest>> \in Seq({j.manifest})
      BY <1>4, <2>2
    <3> QED
      BY <3>1, LenProperties
  <2> QED
    BY <2>1, <2>2
<1> QED
  BY <1>2, <1>7 DEF j

LEMMA PublishIndexesOK ==
  ASSUME ImportInv, publishIndexes
  PROVE  ImportInv'
<1>1. phase = "indexes" /\ phase # "done" /\ phase \notin Pooled /\ outer' = outer /\ at \in Nat \ {0}
  BY DEF publishIndexes, Pooled, ImportInv, ImportTypeOK
<1>2. /\ pool = NewPool /\ (\A w \in ImportWorkers : Worker(w).pc \in {"idle", "exit"})
      /\ (\A d \in Digests : Settled(d)) /\ Digests \subseteq stored
      /\ mrows \in [Manifests -> {"pending", "inflight", "done"}]
      /\ iresult.err = "running"
      /\ \A k \in 1..Len(ImageJobs) : JobDone(ImageJobs[k]) /\ mrows[ImageJobs[k].manifest] = "done"
      /\ \A k \in 1..(at - 1) : k <= Len(IndexJobs) => JobDone(IndexJobs[k]) /\ mrows[IndexJobs[k].manifest] = "done"
  BY <1>1 DEF ImportInv, PoolOK, Pooled, BlobsOK, Settled, ImportTypeOK, ResultOK, ImagesOK, IndexesOK
<1>3. Len(IndexJobs) \in Nat
  BY IndexJobFacts
<1>4. CASE at > Len(IndexJobs)
  <2>1. Finish("none") /\ UNCHANGED <<stored, published, tagged, rows, mrows>>
    BY <1>4 DEF publishIndexes, StoreUnchanged, RowsUnchanged
  <2>2. phase' = "done" /\ at' = 1 /\ pool' = pool /\ iresult' = BlobCounts
    BY <2>1 DEF Finish
  <2>3. /\ iresult'.err = "none" /\ iresult'.present + iresult'.processed = Cardinality(Digests)
        /\ iresult' \in [err : {"none"}, present : Nat, processed : Nat]
    BY <2>2, CountsAddUp
  <2>4. ImportTypeOK'
    <3>1. iresult' \in [err : ImportErrs \cup {"running", "missing"}, present : Nat, processed : Nat]
      BY <2>3 DEF ImportErrs
    <3> QED
      BY <1>1, <2>1, <2>2, <3>1 DEF ImportInv, ImportTypeOK, Phases
  <2>5. ImportCancelHasCause' /\ PoolOK'
    <3>1. \A w : Worker(w)' = Worker(w)
      BY <2>2 DEF Worker
    <3> QED
      BY <1>1, <1>2, <2>2, <2>3, <3>1 DEF ImportInv, ImportCancelHasCause, PoolOK, Pooled, Running
  <2>6. BlobsOK' /\ ResultOK'
    BY <1>2, <2>1, <2>2, <2>3 DEF BlobsOK, ResultOK, Settled
  <2>7. \A j : JobDone(j)' = JobDone(j)
    BY <2>1 DEF JobDone, PutUpTo
  <2>8. \A k \in 1..Len(IndexJobs) : JobDone(IndexJobs[k]) /\ mrows[IndexJobs[k].manifest] = "done"
    <3>1. \A k \in 1..Len(IndexJobs) : k \in 1..(at - 1) /\ k <= Len(IndexJobs)
      BY <1>1, <1>3, <1>4
    <3> QED
      BY <1>2, <3>1
  <2>9. ImagesOK' /\ IndexesOK'
    BY <1>2, <2>1, <2>2, <2>7, <2>8 DEF ImagesOK, IndexesOK
  <2> QED
    BY <2>4, <2>5, <2>6, <2>9 DEF ImportInv
<1>5. CASE ~(at > Len(IndexJobs))
  <2>0. PICK j : j = IndexJobs[at]
    OBVIOUS
  <2>1. /\ at \in 1..Len(IndexJobs) /\ j.manifest \in Manifests /\ Len(j.refs) \in Nat \ {0}
        /\ PlanIsClosed => Found(j)
    <3>1. at \in 1..Len(IndexJobs) /\ at <= Len(IndexJobs)
      BY <1>1, <1>3, <1>5
    <3> QED
      BY <1>1, <2>0, <3>1, IndexJobFacts, IndexFindsItsChildren
  <2>2. CASE /\ published' = published \cup {<<j.repo, j.manifest>>}
             /\ tagged' = tagged \cup {<<j.repo, t>> : t \in ToSet(j.refs) \ {j.manifest}}
             /\ mrows' = [mrows EXCEPT ![j.manifest] = "done"]
             /\ at' = at + 1
             /\ UNCHANGED <<phase, pool, stored, rows, iresult>>
    <3>1. /\ mrows' \in [Manifests -> {"pending", "inflight", "done"}] /\ mrows'[j.manifest] = "done"
          /\ \A m \in Manifests : mrows[m] = "done" => mrows'[m] = "done"
      BY <1>2, <2>1, <2>2
    <3>2. published \subseteq published' /\ tagged \subseteq tagged'
      BY <2>2
    <3>3. \A i : JobDone(i) => JobDone(i)'
      BY <3>2, PutMore DEF JobDone
    <3>4. JobDone(j)'
      <4>1. <<j.repo, j.manifest>> \in published'
        BY <2>2
      <4>2. ASSUME NEW i \in 1..Len(j.refs)
            PROVE  j.refs[i] = j.manifest \/ <<j.repo, j.refs[i]>> \in tagged'
        <5>1. i \in DOMAIN j.refs
          BY <2>0, <2>1, JobRefsDomain
        <5> QED
          BY <2>2, <5>1 DEF ToSet
      <4> QED
        BY <4>1, <4>2 DEF JobDone, PutUpTo
    <3>5. ImportTypeOK'
      BY <1>1, <2>2, <3>1 DEF ImportInv, ImportTypeOK
    <3>6. ImportCancelHasCause' /\ PoolOK' /\ ResultOK'
      <4>1. \A w : Worker(w)' = Worker(w)
        BY <2>2 DEF Worker
      <4> QED
        BY <1>1, <1>2, <2>2, <4>1 DEF ImportInv, ImportCancelHasCause, PoolOK, Pooled, Running, ResultOK, NewPool
    <3>7. BlobsOK'
      BY <1>1, <1>2, <2>2 DEF BlobsOK, Settled
    <3>8. ImagesOK'
      <4>1. \A k \in 1..Len(ImageJobs) : ImageJobs[k].manifest \in Manifests
        BY ImageJobFacts
      <4> QED
        BY <1>1, <1>2, <2>2, <3>1, <3>3, <4>1 DEF ImagesOK
    <3>9. IndexesOK'
      <4>1. \A k \in 1..Len(IndexJobs) : IndexJobs[k].manifest \in Manifests
        BY IndexJobFacts
      <4>2. ASSUME NEW k \in 1..(at' - 1), k <= Len(IndexJobs)
            PROVE  JobDone(IndexJobs[k])' /\ mrows'[IndexJobs[k].manifest] = "done"
        <5>1. CASE k = at
          BY <2>0, <3>1, <3>4, <5>1
        <5>2. CASE k # at
          <6>1. k \in 1..(at - 1) /\ k \in 1..Len(IndexJobs)
            BY <1>1, <1>3, <2>2, <4>2, <5>2
          <6> QED
            BY <1>2, <3>1, <3>3, <4>1, <4>2, <6>1
        <5> QED
          BY <5>1, <5>2
      <4> QED
        BY <1>1, <1>2, <2>2, <4>2 DEF IndexesOK
    <3> QED
      BY <3>5, <3>6, <3>7, <3>8, <3>9 DEF ImportInv
  <2>3. CASE \E e \in {"fault", "cancel", "missing"}, k \in 0..(Len(j.refs) - 1) :
               /\ CallFails(e) \/ (e = "missing" /\ ~Found(j) /\ UNCHANGED ifaults)
               /\ mrows' = [mrows EXCEPT ![j.manifest] = "inflight"]
               /\ Finish(e)
               /\ UNCHANGED <<stored, rows>>
    <3>1. PICK e \in {"fault", "cancel", "missing"} :
            (CallFails(e) \/ (e = "missing" /\ ~Found(j))) /\ Finish(e)
      BY <2>3
    <3>2. rows' = rows /\ stored' = stored /\ mrows' \in [Manifests -> {"pending", "inflight", "done"}]
      BY <1>2, <2>3
    <3>3. e = "cancel" => outer
      BY <1>2, <3>1, IdleIsAWorker DEF CallFails, PoolCancelled
    <3>4. e = "missing" => ~PlanIsClosed
      BY <2>1, <3>1 DEF CallFails
    <3> QED
      BY <1>1, <1>2, <3>1, <3>2, <3>3, <3>4, FailsOK
  <2> QED
    BY <1>5, <2>0, <2>2, <2>3 DEF publishIndexes
<1> QED
  BY <1>4, <1>5

(***************************************************************************)
(* The import's invariant holds in every state, for any plan that Plan can *)
(* return, any number of workers and any number of faults: also for one    *)
(* with an index that lists a child it does not plan, whose import ends    *)
(* with that error and no other plan's does.                               *)
(***************************************************************************)
THEOREM ImportInvariant ==
  ImportSpec => []ImportInv
<1>1. ImportInit => ImportInv
  BY ImportInitOK
<1>2. ImportInv /\ [ImportNext]_importVars => ImportInv'
  <2> SUFFICES ASSUME ImportInv, [ImportNext]_importVars
               PROVE  ImportInv'
    OBVIOUS
  <2>1. ASSUME UNCHANGED importVars
        PROVE  ImportInv'
    <3>1. UNCHANGED <<phase, at, pool, outer, stored, published, tagged, rows, mrows, iresult>>
      BY <2>1 DEF importVars
    <3>2. \A w : Worker(w)' = Worker(w)
      BY <3>1 DEF Worker
    <3>3. ImportTypeOK' /\ ImportCancelHasCause'
      BY <3>1, <3>2 DEF ImportInv, ImportTypeOK, ImportCancelHasCause
    <3>4. PoolOK'
      BY <3>1, <3>2 DEF ImportInv, PoolOK, Running, Items, PoolCancelled
    <3>5. Broken' = Broken /\ \A w \in ImportWorkers : Running(w)' = Running(w)
      BY <3>1, <3>2 DEF Broken, Running
    <3> QED
      BY <3>1, <3>2, <3>3, <3>4, <3>5, OnlyPoolOK
  <2>2. ASSUME MainStep
        PROVE  ImportInv'
    BY <2>2, CheckOK, OpenPresentOK, StopFeedingOK, EachReturnsOK, PublishIndexesOK DEF MainStep
  <2>3. ASSUME NEW w \in ImportWorkers, WorkerStep(w)
        PROVE  ImportInv'
    BY <2>3, FeedOK, BlobStageOK, PutBlobOK, PutManifestOK, RecordErrorOK, WorkerExitsOK DEF WorkerStep
  <2> QED
    BY <2>1, <2>2, <2>3, UserCancelsOK DEF ImportNext
<1> QED
  BY <1>1, <1>2, PTL DEF ImportSpec

(***************************************************************************)
(* All jobs done is every entry under each of its names, with every        *)
(* manifest of the plan settled.                                           *)
(***************************************************************************)
LEMMA JobsAreThePlan ==
  ASSUME \A k \in 1..Len(ImageJobs) : JobDone(ImageJobs[k]) /\ mrows[ImageJobs[k].manifest] = "done",
         \A k \in 1..Len(IndexJobs) : JobDone(IndexJobs[k]) /\ mrows[IndexJobs[k].manifest] = "done",
         NEW i \in DOMAIN PlanEntries, NEW r \in ToSet(PlanEntries[i].repos)
  PROVE  LET e == PlanEntries[i] IN
         /\ \A m \in ToSet(e.manifests) : <<r, m>> \in published /\ mrows[m] = "done"
         /\ \A t \in ToSet(e.tags[r]) : <<r, t>> \in tagged
<1> DEFINE e == PlanEntries[i]
<1>1. PICK c \in DOMAIN e.repos : e.repos[c] = r
  BY DEF ToSet
<1>2. ASSUME NEW x \in DOMAIN e.manifests
      PROVE  /\ <<r, e.manifests[x]>> \in published /\ mrows[e.manifests[x]] = "done"
             /\ e.manifests[x] = e.digest => \A t \in ToSet(e.tags[r]) : <<r, t>> \in tagged
  <2> DEFINE p == <<i, c, x>>
             j == JobAt(p)
  <2>1. p \in JobPlaces /\ p[1] = i /\ p[2] = c /\ p[3] = x
    BY <1>1, <1>2, PlacesOfJobs
  <2> HIDE DEF p
  <2>2. /\ j.repo = r /\ j.manifest = e.manifests[x] /\ j.manifest \in Manifests
        /\ j.refs = IF j.manifest = e.digest THEN e.tags[j.repo] ELSE <<j.manifest>>
        /\ Len(j.refs) \in Nat \ {0}
    BY <1>1, <2>1, JobAtPlace
  <2>3. JobDone(j) /\ mrows[j.manifest] = "done"
    BY <2>1, EveryPlaceHasItsJob
  <2> HIDE DEF j
  <2>4. <<r, e.manifests[x]>> \in published
    BY <2>2, <2>3 DEF JobDone, PutUpTo
  <2>5. ASSUME e.manifests[x] = e.digest, NEW t \in ToSet(e.tags[r])
        PROVE  <<r, t>> \in tagged
    <3>1. j.refs = e.tags[r]
      BY <2>2, <2>5
    <3>2. IsSequence(e.tags[r]) /\ ToSet(e.tags[r]) \cap Manifests = {}
      BY PlanAssumption
    <3>3. PICK k \in DOMAIN e.tags[r] : e.tags[r][k] = t
      BY DEF ToSet
    <3>4. k \in 1..Len(j.refs) /\ j.refs[k] = t /\ t # j.manifest
      BY <2>2, <3>1, <3>2, <3>3, SequenceDomain
    <3> QED
      BY <2>2, <2>3, <3>4 DEF JobDone, PutUpTo
  <2> QED
    BY <2>2, <2>3, <2>4, <2>5
<1>3. e.digest \in ToSet(e.manifests)
  BY PlanAssumption
<1> HIDE DEF e
<1> QED
  BY <1>2, <1>3 DEF ToSet, e

(***************************************************************************)
(* What Run returns is true: a cancellation is the caller's, a manifest    *)
(* lacks something only where the plan itself does not close over what its *)
(* indexes list, success means all of the plan, and nobody works after the *)
(* end (Run and each in importer.go).                                      *)
(***************************************************************************)
THEOREM ImportIsTruthful ==
  ImportSpec => []ImportTellsTheTruth
<1>1. ImportInv => ImportTellsTheTruth
  <2> SUFFICES ASSUME ImportInv PROVE ImportTellsTheTruth
    OBVIOUS
  <2>1. ImportBlamesCause
    BY DEF ImportInv, ImportCancelHasCause, ResultOK, ImportBlamesCause
  <2>2. phase = "done" => \A w \in ImportWorkers : Worker(w).pc \in {"idle", "exit"}
    BY DEF ImportInv, PoolOK, Pooled
  <2>3. published # {} => Digests \subseteq stored
    BY DEF ImportInv, BlobsOK
  <2>4. ASSUME iresult.err = "none"
        PROVE  /\ \A i \in DOMAIN PlanEntries : LET e == PlanEntries[i] IN
                    \A r \in ToSet(e.repos) :
                      /\ \A m \in ToSet(e.manifests) : <<r, m>> \in published
                      /\ \A t \in ToSet(e.tags[r]) : <<r, t>> \in tagged
               /\ \A m \in Manifests : mrows[m] = "done"
               /\ \A d \in Digests : rows[d].state \in {"done", "present"}
               /\ iresult.present + iresult.processed = Len(PlanBlobs)
    <3>1. /\ \A k \in 1..Len(ImageJobs) : JobDone(ImageJobs[k]) /\ mrows[ImageJobs[k].manifest] = "done"
          /\ \A k \in 1..Len(IndexJobs) : JobDone(IndexJobs[k]) /\ mrows[IndexJobs[k].manifest] = "done"
          /\ \A d \in Digests : Settled(d)
          /\ iresult.present + iresult.processed = Cardinality(Digests)
      BY <2>4 DEF ImportInv, ImagesOK, IndexesOK, BlobsOK, ResultOK
    <3>2. ASSUME NEW i \in DOMAIN PlanEntries, NEW r \in ToSet(PlanEntries[i].repos)
          PROVE  /\ \A m \in ToSet(PlanEntries[i].manifests) : <<r, m>> \in published /\ mrows[m] = "done"
                 /\ \A t \in ToSet(PlanEntries[i].tags[r]) : <<r, t>> \in tagged
      BY <3>1, JobsAreThePlan
    <3>3. ASSUME NEW m \in Manifests
          PROVE  mrows[m] = "done"
      <4>1. PICK i \in DOMAIN PlanEntries : m \in ToSet(PlanEntries[i].manifests)
        BY DEF Manifests
      <4>2. PICK r : r \in ToSet(PlanEntries[i].repos)
        <5>1. IsSequence(PlanEntries[i].repos) /\ PlanEntries[i].repos # <<>>
          BY PlanAssumption
        <5>2. Len(PlanEntries[i].repos) \in Nat \ {0} /\ DOMAIN PlanEntries[i].repos = 1..Len(PlanEntries[i].repos)
          BY <5>1, EmptySeq, LenProperties DEF IsSequence
        <5>3. PlanEntries[i].repos[1] \in ToSet(PlanEntries[i].repos)
          BY <5>2 DEF ToSet
        <5> QED
          BY <5>3
      <4> QED
        BY <3>2, <4>1, <4>2
    <3> QED
      BY <3>1, <3>2, <3>3, AsManyDigests DEF Settled
  <2> QED
    BY <2>1, <2>2, <2>3, <2>4 DEF ImportTellsTheTruth, ImportIsComplete
<1> QED
  BY <1>1, ImportInvariant, PTL
=============================================================================
