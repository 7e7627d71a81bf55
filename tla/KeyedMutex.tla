----------------------------- MODULE KeyedMutex -----------------------------
(***************************************************************************)
(* keyedmutex.Mutex: a mutex per key whose rows are reference counted.     *)
(*                                                                         *)
(* A step is what the code does under m.mu, or one operation on an entry's *)
(* own mutex: Lock registers its reference under m.mu, blocks on the entry *)
(* with m.mu free, and the unlock function frees the entry before it takes *)
(* m.mu again to drop the reference.                                       *)
(***************************************************************************)
EXTENDS Integers, FiniteSets

CONSTANTS Proc,    \* goroutines
          Key,     \* the keys they lock
          Entry,   \* addresses a new *entry may be given
          None     \* nil

ASSUME NoneAssumption == None \notin Proc \cup Key \cup Entry
ASSUME ProcAssumption == IsFiniteSet(Proc)

VARIABLES pc,      \* where each goroutine is in Lock and its unlock function
          key,     \* the key it asked for
          ent,     \* its local variable e
          locks,   \* m.locks, None where the map has no row
          refs,    \* e.refs
          mu       \* the goroutine that holds e.mu

vars == <<pc, key, ent, locks, refs, mu>>

Init ==
  /\ pc = [p \in Proc |-> "idle"]
  /\ key = [p \in Proc |-> None]
  /\ ent = [p \in Proc |-> None]
  /\ locks = [k \in Key |-> None]
  /\ refs = [e \in Entry |-> 0]
  /\ mu = [e \in Entry |-> None]

(***************************************************************************)
(* Memory nothing refers to: what &entry{} may be given.                   *)
(***************************************************************************)
Unreachable(e) ==
  /\ \A k \in Key : locks[k] # e
  /\ \A p \in Proc : ent[p] # e

Enter(p, k, e) ==
  /\ pc' = [pc EXCEPT ![p] = "waiting"]
  /\ key' = [key EXCEPT ![p] = k]
  /\ ent' = [ent EXCEPT ![p] = e]

(***************************************************************************)
(* Lock up to m.mu.Unlock: find the key's row, or make one, and count the  *)
(* reference before blocking.                                              *)
(***************************************************************************)
LockFound(p, k) ==
  /\ pc[p] = "idle"
  /\ locks[k] # None
  /\ Enter(p, k, locks[k])
  /\ refs' = [refs EXCEPT ![locks[k]] = @ + 1]
  /\ UNCHANGED <<locks, mu>>

LockNew(p, k, e) ==
  /\ pc[p] = "idle"
  /\ locks[k] = None
  /\ Unreachable(e)
  /\ Enter(p, k, e)
  /\ locks' = [locks EXCEPT ![k] = e]
  /\ refs' = [refs EXCEPT ![e] = 1]
  /\ mu' = [mu EXCEPT ![e] = None]

(***************************************************************************)
(* e.mu.Lock() returns, and with it Lock.                                  *)
(***************************************************************************)
Acquire(p) ==
  /\ pc[p] = "waiting"
  /\ mu[ent[p]] = None
  /\ mu' = [mu EXCEPT ![ent[p]] = p]
  /\ pc' = [pc EXCEPT ![p] = "held"]
  /\ UNCHANGED <<key, ent, locks, refs>>

\* Mutant of Unlock: the entry's mutex stays locked.
UnlockKeepsMutex(p) ==
  /\ pc[p] = "held"
  /\ pc' = [pc EXCEPT ![p] = "dropping"]
  /\ UNCHANGED <<key, ent, locks, refs, mu>>

\* Mutants of Drop: the row goes with every user, or not even with the last.
DropRowAlways(p) ==
  /\ pc[p] = "dropping"
  /\ refs' = [refs EXCEPT ![ent[p]] = @ - 1]
  /\ locks' = [locks EXCEPT ![key[p]] = None]
  /\ pc' = [pc EXCEPT ![p] = "idle"]
  /\ key' = [key EXCEPT ![p] = None]
  /\ ent' = [ent EXCEPT ![p] = None]
  /\ UNCHANGED mu

DropRowNever(p) ==
  /\ pc[p] = "dropping"
  /\ refs' = [refs EXCEPT ![ent[p]] = @ - 1]
  /\ locks' = IF refs[ent[p]] = 0 THEN [locks EXCEPT ![key[p]] = None] ELSE locks
  /\ pc' = [pc EXCEPT ![p] = "idle"]
  /\ key' = [key EXCEPT ![p] = None]
  /\ ent' = [ent EXCEPT ![p] = None]
  /\ UNCHANGED mu

(***************************************************************************)
(* The unlock function, called once as its contract demands: e.mu.Unlock   *)
(* first, then, under m.mu, the reference and with the last one the row.   *)
(***************************************************************************)
Unlock(p) ==
  /\ pc[p] = "held"
  /\ mu' = [mu EXCEPT ![ent[p]] = None]
  /\ pc' = [pc EXCEPT ![p] = "dropping"]
  /\ UNCHANGED <<key, ent, locks, refs>>

Drop(p) ==
  /\ pc[p] = "dropping"
  /\ refs' = [refs EXCEPT ![ent[p]] = @ - 1]
  /\ locks' = IF refs[ent[p]] = 1 THEN [locks EXCEPT ![key[p]] = None] ELSE locks
  /\ pc' = [pc EXCEPT ![p] = "idle"]
  /\ key' = [key EXCEPT ![p] = None]
  /\ ent' = [ent EXCEPT ![p] = None]
  /\ UNCHANGED mu

Next ==
  \E p \in Proc :
    \/ \E k \in Key : LockFound(p, k)
    \/ \E k \in Key, e \in Entry : LockNew(p, k, e)
    \/ Acquire(p)
    \/ Unlock(p)
    \/ Drop(p)

Spec == Init /\ [][Next]_vars

(***************************************************************************)
(* Goroutines that hold a key release it (every caller defers the unlock), *)
(* the scheduler runs them, and a waiter on a sync.Mutex that is freed     *)
(* again and again gets it: Go's starvation mode hands it over after 1ms.  *)
(***************************************************************************)
Fairness ==
  \A p \in Proc : SF_vars(Acquire(p)) /\ WF_vars(Unlock(p)) /\ WF_vars(Drop(p))

FairSpec == Spec /\ Fairness
-----------------------------------------------------------------------------
TypeOK ==
  /\ pc \in [Proc -> {"idle", "waiting", "held", "dropping"}]
  /\ key \in [Proc -> Key \cup {None}]
  /\ ent \in [Proc -> Entry \cup {None}]
  /\ locks \in [Key -> Entry \cup {None}]
  /\ refs \in [Entry -> Nat]
  /\ mu \in [Entry -> Proc \cup {None}]

(***************************************************************************)
(* Two goroutines whose Lock calls on one key have both returned are one   *)
(* goroutine.  keyedmutex.Lock "blocks until k is free"; the danger is a   *)
(* row dropped under a waiter, so that a newcomer locks a second entry.    *)
(***************************************************************************)
MutualExclusion ==
  \A p, q \in Proc : pc[p] = "held" /\ pc[q] = "held" /\ key[p] = key[q] => p = q

(***************************************************************************)
(* The map has a row for a key exactly while some goroutine holds the key, *)
(* awaits it or is still on its way out of the unlock function: Len counts *)
(* keys "held or awaited right now, never the number of keys ever seen".   *)
(***************************************************************************)
RowsAreInUse ==
  \A k \in Key : (locks[k] # None) <=> \E p \in Proc : key[p] = k

(***************************************************************************)
(* Users(e) are the goroutines that will still read or write entry e.      *)
(***************************************************************************)
Users(e) == {p \in Proc : ent[p] = e}

(***************************************************************************)
(* The inductive strengthening of the two: a goroutine in Lock or unlock   *)
(* is on its key's current row, no entry serves two keys, a row's count is *)
(* the number of its users and is not zero, an entry's mutex is held by    *)
(* the goroutine that is in its critical section.                          *)
(***************************************************************************)
OnTheRow ==
  \A p \in Proc :
    IF pc[p] = "idle"
    THEN key[p] = None /\ ent[p] = None
    ELSE key[p] \in Key /\ ent[p] \in Entry /\ locks[key[p]] = ent[p]

OneKeyPerEntry ==
  \A k, l \in Key : locks[k] = locks[l] /\ locks[k] # None => k = l

RefsCountUsers ==
  \A e \in Entry :
    /\ (\A k \in Key : locks[k] # e) \/ refs[e] # 0
    /\ (\E k \in Key : locks[k] = e) => refs[e] = Cardinality(Users(e))

HolderIsInside ==
  \A e \in Entry, p \in Proc : (ent[p] = e /\ pc[p] = "held") => mu[e] = p

IInv == TypeOK /\ OnTheRow /\ OneKeyPerEntry /\ RefsCountUsers /\ HolderIsInside

(***************************************************************************)
(* Every goroutine that calls Lock returns from it.                        *)
(***************************************************************************)
WaiterGetsKey == \A p \in Proc : pc[p] = "waiting" ~> pc[p] = "held"

(***************************************************************************)
(* The counted rows implement the abstract lock table: a goroutine that    *)
(* has freed the entry but not yet dropped its reference no longer has the *)
(* key.                                                                    *)
(***************************************************************************)
Abs == INSTANCE KeyLocks WITH
         wants <- [p \in Proc |-> IF pc[p] \in {"waiting", "held"} THEN key[p] ELSE None],
         holding <- {p \in Proc : pc[p] = "held"}

ImplementsKeyLocks == Abs!Spec
=============================================================================
