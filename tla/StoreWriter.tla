----------------------------- MODULE StoreWriter -----------------------------
(***************************************************************************)
(* store.Writer: objects offered by any number of goroutines go through a  *)
(* bounded channel to a backend, which appends them to the store (live) or *)
(* stages them in a pack file (pack).  Close and Abort end the stream and  *)
(* collect the result; a live Writer's AddPack inserts a staged pack.      *)
(*                                                                         *)
(* An object is its key and counts for one logical byte.  A call that      *)
(* offers several objects (PutStream, PutBytes, AddPack) emits them one by *)
(* one and stops at the first error.  packstore.WriteParallel is external: *)
(* it stores what the iterator yields, or fails and stops reading it.      *)
(***************************************************************************)
EXTENDS Integers, Sequences, FiniteSets, Functions

CONSTANTS Client,       \* goroutines that use the Writer
          Encoder,      \* goroutines of the pack backend
          Key,          \* object keys
          Offers,       \* what one call may offer: sequences of keys
          Holdings,     \* what the store may hold at the start: sets of keys
          Packs,        \* packs staged earlier, for AddPack
          EmitBuffer,   \* emitBuffer
          WriterCalls,  \* bound: calls made on the Writer
          WriterFaults, \* bound: failing reads and writes
          Nil, Gone

Error == {"aborted", "closed", "context", "backend", "missing", "malformed", "used"}
Item == [key : Key, skipped : BOOLEAN]
Object(k) == [key |-> k, skipped |-> FALSE]
Skipped(k) == [key |-> k, skipped |-> TRUE]

\* Even an empty stream is one object: a call offers at least one.
ASSUME WriterAssumption ==
  /\ Encoder # {} /\ IsFiniteSet(Encoder)
  /\ Offers \subseteq Seq(Key) \ {<<>>}
  /\ Holdings \subseteq SUBSET Key
  /\ Packs \subseteq [records : Seq(Key), skipped : Seq(Key), open : BOOLEAN, used : BOOLEAN]
  /\ EmitBuffer \in Nat \ {0}
  /\ {WriterCalls, WriterFaults} \subseteq Nat
  /\ Nil # Gone /\ Nil \notin Item /\ Gone \notin Item
  /\ Nil \notin Error \cup {"ok"}

VARIABLES
  w,         \* the Writer: backend, closed, cause of its context, done, werr, rerr
  ch,        \* w.ch: items on their way to the backend
  pc,        \* where each client is in its call
  todo,      \* items its call has still to offer
  ret,       \* whether its last call succeeded
  work,      \* the backend's goroutines: the item in hand, Nil, or Gone
  bfail,     \* the first failure of the backend
  objects,   \* keys the store holds
  pack,      \* the pack: its records, the keys it skipped, its file, used
  stats,     \* w.seen, and the logical, stored and deduplicated objects so far
  accepted,  \* history: how many items emit has accepted, and their keys
  wbudget    \* calls and faults still to come

streamVars == <<w, ch>>
clientVars == <<pc, todo, ret>>
backendVars == <<work, bfail, objects, pack, stats>>
writerVars == <<streamVars, clientVars, backendVars, accepted, wbudget>>

NewStats == [seen |-> {}, logical |-> 0, stored |-> 0, deduped |-> 0]
NewPack == [records |-> <<>>, skipped |-> <<>>, open |-> TRUE, used |-> FALSE]
NewWriter(backend) ==
  [backend |-> backend, closed |-> FALSE, cause |-> Nil, done |-> FALSE,
   werr |-> Nil, rerr |-> Nil]

\* run has one accounting iterator, stage writers() encoders.
Iterator == CHOOSE x \in Encoder : TRUE
Idle(backend) ==
  [x \in Encoder |-> IF backend = "pack" \/ x = Iterator THEN Nil ELSE Gone]

Or(err, other) == IF err # Nil THEN err ELSE other

\* Cancelling a context keeps the first cause.
Cancelled(err) == [w EXCEPT !.cause = Or(@, err)]
stoppedErr == Or(w.cause, "closed")

Fault ==
  /\ wbudget.faults > 0
  /\ wbudget' = [wbudget EXCEPT !.faults = @ - 1]

Returns(c, r) ==
  /\ pc' = [pc EXCEPT ![c] = "idle"]
  /\ todo' = [todo EXCEPT ![c] = <<>>]
  /\ ret' = [ret EXCEPT ![c] = (r = "ok")]

-----------------------------------------------------------------------------
(* Emit, PutStream, PutBytes, AddPack *)

Offer(c, items) ==
  /\ pc[c] = "idle"
  /\ pc' = [pc EXCEPT ![c] = "rlock"]
  /\ todo' = [todo EXCEPT ![c] = items]
  /\ UNCHANGED <<streamVars, ret, backendVars, accepted>>

\* The pack's records are offered as objects, then its skipped keys.
PackItems(p) ==
  [i \in DOMAIN p.records |-> Object(p.records[i])] \o
  [i \in DOMAIN p.skipped |-> Skipped(p.skipped[i])]

AddPack(c) ==
  /\ pc[c] = "idle"
  /\ IF w.backend = "pack" \/ pack.used
     THEN /\ Returns(c, "used")
          /\ UNCHANGED pack
     ELSE /\ pack' = [pack EXCEPT !.used = TRUE]
          /\ pc' = [pc EXCEPT ![c] = IF PackItems(pack) = <<>> THEN "idle" ELSE "rlock"]
          /\ todo' = [todo EXCEPT ![c] = PackItems(pack)]
          /\ ret' = [ret EXCEPT ![c] = TRUE]
  /\ UNCHANGED <<streamVars, work, bfail, objects, stats, accepted>>

\* A record that cannot be read poisons the Writer.
AddPackFails(c) ==
  /\ Fault
  /\ pc[c] = "rlock"
  /\ w.backend = "live" /\ pack.used
  /\ ~Head(todo[c]).skipped
  /\ w' = Cancelled("malformed")
  /\ Returns(c, "malformed")
  /\ UNCHANGED <<ch, backendVars, accepted>>

\* RLock waits for a closeStream that holds or awaits the lock.
EmitLock(c) ==
  /\ pc[c] = "rlock"
  /\ \A d \in Client : pc[d] # "lock"
  /\ IF w.closed \/ w.cause # Nil
     THEN Returns(c, IF w.closed THEN stoppedErr ELSE w.cause)
     ELSE /\ pc' = [pc EXCEPT ![c] = "send"]
          /\ UNCHANGED <<todo, ret>>
  /\ UNCHANGED <<streamVars, backendVars, accepted, wbudget>>

\* A send on the closed channel panics, and the goroutine is gone for good.
EmitSend(c) ==
  /\ pc[c] = "send"
  /\ IF w.closed
     THEN /\ pc' = [pc EXCEPT ![c] = "panic"]
          /\ UNCHANGED <<ch, todo, ret, accepted>>
     ELSE /\ Len(ch) < EmitBuffer
          /\ ch' = Append(ch, Head(todo[c]))
          /\ accepted' = [n |-> accepted.n + 1, keys |-> accepted.keys \cup {Head(todo[c]).key}]
          /\ IF Len(todo[c]) = 1
             THEN Returns(c, "ok")
             ELSE /\ pc' = [pc EXCEPT ![c] = "rlock"]
                  /\ todo' = [todo EXCEPT ![c] = Tail(@)]
                  /\ UNCHANGED ret
  /\ UNCHANGED <<w, backendVars, wbudget>>

\* Mutant of EmitStops: emit does not watch the backend.
EmitWatchesContext(c) ==
  /\ pc[c] = "send"
  /\ w.cause # Nil
  /\ Returns(c, w.cause)
  /\ UNCHANGED <<streamVars, backendVars, accepted, wbudget>>

\* The other arms of the select: the context, or a backend that has returned.
EmitStops(c) ==
  /\ pc[c] = "send"
  /\ \/ /\ w.cause # Nil
        /\ Returns(c, w.cause)
     \/ /\ w.done
        /\ Returns(c, Or(w.werr, stoppedErr))
  /\ UNCHANGED <<streamVars, backendVars, accepted, wbudget>>

-----------------------------------------------------------------------------
(* Close, Abort *)

Close(c) ==
  /\ pc[c] = "idle"
  /\ pc' = [pc EXCEPT ![c] = "lock"]
  /\ UNCHANGED <<streamVars, todo, ret, backendVars, accepted>>

Abort(c) ==
  /\ pc[c] = "idle"
  /\ w' = Cancelled("aborted")
  /\ pc' = [pc EXCEPT ![c] = "lock"]
  /\ UNCHANGED <<ch, todo, ret, backendVars, accepted>>

closeStream(c) ==
  /\ pc[c] = "lock"
  /\ \A d \in Client : pc[d] # "send"
  /\ w' = [w EXCEPT !.closed = TRUE]
  /\ pc' = [pc EXCEPT ![c] = "wait"]
  /\ UNCHANGED <<ch, todo, ret, backendVars, accepted, wbudget>>

finish == Or(w.werr, w.cause)

\* The first of Close and Abort to get here computes the result: an error
\* releases the pack file; the live backend may fail on StoredSize.
settle(c) ==
  /\ pc[c] = "wait"
  /\ w.done
  /\ IF w.rerr # Nil
     THEN /\ Returns(c, w.rerr)
          /\ UNCHANGED <<w, pack, wbudget>>
     ELSE \E r \in {Or(finish, "ok"), "backend"} :
            /\ IF r = Or(finish, "ok") THEN UNCHANGED wbudget
               ELSE Fault /\ w.backend = "live" /\ finish = Nil
            /\ w' = [Cancelled("closed") EXCEPT !.rerr = r]
            /\ pack' = [pack EXCEPT !.open = @ /\ (w.backend = "live" \/ r = "ok")]
            /\ Returns(c, r)
  /\ UNCHANGED <<ch, work, bfail, objects, stats, accepted>>

-----------------------------------------------------------------------------
(* The backends *)

Receive(x) ==
  /\ work[x] = Nil
  /\ ch # <<>>
  /\ work' = [work EXCEPT ![x] = Head(ch)]
  /\ ch' = Tail(ch)
  /\ UNCHANGED <<w, clientVars, bfail, objects, pack, stats, accepted, wbudget>>

\* The context ended, or the channel is closed and drained.
StopReceiving(x) ==
  /\ work[x] = Nil
  /\ w.cause # Nil \/ (w.closed /\ ch = <<>>)
  /\ work' = [work EXCEPT ![x] = Gone]
  /\ bfail' = Or(bfail, w.cause)
  /\ UNCHANGED <<streamVars, clientVars, objects, pack, stats, accepted, wbudget>>

\* stage: an object the store holds is remembered by its key, any other is
\* appended to the pack file.
Stage(x) ==
  LET k == work[x].key IN
  /\ w.backend = "pack"
  /\ work[x] \in Item
  /\ pack' = IF k \in objects THEN [pack EXCEPT !.skipped = Append(@, k)]
             ELSE [pack EXCEPT !.records = Append(@, k)]
  /\ stats' = [stats EXCEPT !.logical = @ + 1]
  /\ work' = [work EXCEPT ![x] = Nil]
  /\ UNCHANGED <<streamVars, clientVars, bfail, objects, accepted, wbudget>>

\* account, and WriteParallel storing the object unless the store has it.
Store(x) ==
  LET k == work[x].key IN
  /\ w.backend = "live"
  /\ work[x] \in Item
  /\ ~work[x].skipped
  /\ objects' = objects \cup {k}
  /\ stats' = [stats EXCEPT !.seen = @ \cup {k},
                            !.logical = @ + 1,
                            !.stored = IF k \in objects THEN @ ELSE @ + 1,
                            !.deduped = IF k \in objects THEN @ + 1 ELSE @]
  /\ work' = [work EXCEPT ![x] = Nil]
  /\ UNCHANGED <<streamVars, clientVars, bfail, pack, accepted, wbudget>>

\* Mutant of accountSkipped: the answer given when the pack was staged is
\* trusted.
TrustSkipped(x) ==
  /\ w.backend = "live"
  /\ work[x] \in Item
  /\ work[x].skipped
  /\ stats' = [stats EXCEPT !.logical = @ + 1, !.deduped = @ + 1]
  /\ work' = [work EXCEPT ![x] = Nil]
  /\ UNCHANGED <<streamVars, clientVars, bfail, objects, pack, accepted, wbudget>>

\* A skipped key is looked up again; one that is gone fails the Writer.
accountSkipped(x) ==
  /\ w.backend = "live"
  /\ work[x] \in Item
  /\ work[x].skipped
  /\ IF work[x].key \in objects
     THEN /\ stats' = [stats EXCEPT !.seen = @ \cup {work[x].key},
                                    !.logical = @ + 1, !.deduped = @ + 1]
          /\ work' = [work EXCEPT ![x] = Nil]
          /\ UNCHANGED bfail
     ELSE /\ work' = [work EXCEPT ![x] = Gone]
          /\ bfail' = Or(bfail, "missing")
          /\ UNCHANGED stats
  /\ UNCHANGED <<streamVars, clientVars, objects, pack, accepted, wbudget>>

\* Has, EncodeRecord, AddRecord or WriteParallel fails.  The pack backend
\* poisons the Writer at once; the live one only stops.
BackendFails(x) ==
  /\ Fault
  /\ work[x] \in Item
  /\ work' = [work EXCEPT ![x] = Gone]
  /\ bfail' = Or(bfail, "backend")
  /\ w' = IF w.backend = "pack" THEN Cancelled("backend") ELSE w
  /\ UNCHANGED <<ch, clientVars, objects, pack, stats, accepted>>

\* Every goroutine of the backend has returned; done is closed.  Writing the
\* pack's end marker, or WriteParallel's last flush, may still fail.
BackendReturns ==
  /\ ~w.done
  /\ \A x \in Encoder : work[x] = Gone
  /\ \/ /\ w' = [w EXCEPT !.done = TRUE,
                          !.werr = IF w.backend = "pack" THEN Or(bfail, w.cause) ELSE bfail]
        /\ UNCHANGED wbudget
     \/ /\ Fault
        /\ bfail = Nil
        /\ w' = [w EXCEPT !.done = TRUE, !.werr = "backend"]
  /\ UNCHANGED <<ch, clientVars, backendVars, accepted>>

-----------------------------------------------------------------------------
(* The environment *)

\* The context the Writer is bound to ends.
ContextEnds ==
  /\ w.cause = Nil
  /\ w' = Cancelled("context")
  /\ UNCHANGED <<ch, clientVars, backendVars, accepted, wbudget>>

\* An object the store held is collected: not one the live backend has
\* observed, which the collector keeps.
ObjectLost(k) ==
  /\ Fault
  /\ k \in objects \ stats.seen
  /\ objects' = objects \ {k}
  /\ UNCHANGED <<streamVars, clientVars, work, bfail, pack, stats, accepted>>

-----------------------------------------------------------------------------

WriterInit ==
  /\ w \in {NewWriter("live"), NewWriter("pack")}
  /\ ch = <<>>
  /\ pc = [c \in Client |-> "idle"]
  /\ todo = [c \in Client |-> <<>>]
  /\ ret = [c \in Client |-> TRUE]
  /\ work = Idle(w.backend)
  /\ bfail = Nil
  /\ objects \in Holdings
  /\ pack \in IF w.backend = "pack" THEN {NewPack} ELSE Packs
  /\ stats = NewStats
  /\ accepted = [n |-> 0, keys |-> {}]
  /\ wbudget = [calls |-> WriterCalls, faults |-> WriterFaults]

Calls(c) ==
  /\ wbudget.calls > 0
  /\ wbudget' = [wbudget EXCEPT !.calls = @ - 1]
  /\ \/ \E offer \in Offers : Offer(c, [i \in DOMAIN offer |-> Object(offer[i])])
     \/ AddPack(c)
     \/ Close(c)
     \/ Abort(c)

ClientStep(c) ==
  EmitLock(c) \/ EmitSend(c) \/ EmitStops(c) \/ closeStream(c) \/ settle(c)
BackendStep(x) == Receive(x) \/ StopReceiving(x) \/ Stage(x) \/ Store(x) \/ accountSkipped(x)

WriterNext ==
  \/ \E c \in Client : Calls(c) \/ ClientStep(c) \/ AddPackFails(c)
  \/ \E x \in Encoder : BackendStep(x) \/ BackendFails(x)
  \/ BackendReturns
  \/ ContextEnds
  \/ \E k \in Key : ObjectLost(k)

\* A goroutine that can run is run: each client's and encoder's next step,
\* and the return of the backend.
WriterFairness ==
  /\ \A c \in Client : WF_writerVars(ClientStep(c))
  /\ \A x \in Encoder : WF_writerVars(BackendStep(x))
  /\ WF_writerVars(BackendReturns)

WriterSpec == WriterInit /\ [][WriterNext]_writerVars

-----------------------------------------------------------------------------
(* Properties *)

Held(k) ==
  \/ k \in objects
  \/ w.backend = "pack" /\ k \in Range(pack.records) \cup Range(pack.skipped)

\* The promise a caller publishes a root on: when Close reports success every
\* object any emit accepted, in whatever order the calls overlapped, has been
\* stored (or staged, or found still present), each is accounted for exactly
\* once, and a pack's file is still open for AddPack.
ClosedIsWhole ==
  w.rerr = "ok" =>
    /\ ch = <<>>
    /\ stats.logical = accepted.n
    /\ \A k \in accepted.keys : Held(k)
    /\ w.backend = "live" => stats.stored + stats.deduped = stats.logical
    /\ w.backend = "pack" => pack.open

\* No caller is left blocked: an Emit on a full queue whose reader has
\* stopped, a Close waiting for emitters, and an Abort all return, and no
\* emit ever sends on the channel Close has closed.
WriterCallsReturn == \A c \in Client : pc[c] # "idle" ~> pc[c] = "idle"

=============================================================================
