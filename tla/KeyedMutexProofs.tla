-------------------------- MODULE KeyedMutexProofs --------------------------
(***************************************************************************)
(* keyedmutex.Mutex for any number of goroutines and keys: the row of a    *)
(* key is never dropped under a waiter, so the counted rows exclude each   *)
(* other's goroutines exactly as one lock per key would.                   *)
(***************************************************************************)
EXTENDS KeyedMutex, FiniteSetTheorems, TLAPS

(***************************************************************************)
(* An entry has finitely many users: the goroutines are finitely many.     *)
(***************************************************************************)
LEMMA UsersFinite ==
  ASSUME NEW e PROVE IsFiniteSet(Users(e)) /\ Cardinality(Users(e)) \in Nat
<1>1. Users(e) \subseteq Proc
  BY DEF Users
<1>2. IsFiniteSet(Users(e))
  BY <1>1, ProcAssumption, FS_Subset
<1> QED
  BY <1>2, FS_CardinalityType

(***************************************************************************)
(* A goroutine that takes entry e as its own adds one to e's users (Lock's *)
(* e.refs++).                                                              *)
(***************************************************************************)
LEMMA UserComes ==
  ASSUME NEW p \in Proc, NEW e, ent \in [Proc -> Entry \cup {None}],
         ent[p] # e, ent' = [ent EXCEPT ![p] = e]
  PROVE  Cardinality(Users(e)') = Cardinality(Users(e)) + 1
<1>1. Users(e)' = Users(e) \cup {p} /\ p \notin Users(e)
  BY DEF Users
<1> QED
  BY <1>1, UsersFinite, FS_AddElement

(***************************************************************************)
(* A goroutine that gives entry e up takes one from e's users (the unlock  *)
(* function's e.refs--).                                                   *)
(***************************************************************************)
LEMMA UserLeaves ==
  ASSUME NEW p \in Proc, NEW e, NEW f, ent \in [Proc -> Entry \cup {None}],
         ent[p] = e, e # f, ent' = [ent EXCEPT ![p] = f]
  PROVE  Cardinality(Users(e)') = Cardinality(Users(e)) - 1
<1>1. Users(e)' = Users(e) \ {p} /\ p \in Users(e)
  BY DEF Users
<1> QED
  BY <1>1, UsersFinite, FS_RemoveElement

(***************************************************************************)
(* A goroutine that moves between other entries leaves e's users alone.    *)
(***************************************************************************)
LEMMA OtherUsersStay ==
  ASSUME NEW p \in Proc, NEW e, NEW f, ent \in [Proc -> Entry \cup {None}],
         ent[p] # e, e # f, ent' = [ent EXCEPT ![p] = f]
  PROVE  Users(e)' = Users(e)
BY DEF Users

(***************************************************************************)
(* An entry no goroutine is on counts no users: what a fresh &entry{} has. *)
(***************************************************************************)
LEMMA NoUsersCountZero ==
  ASSUME NEW e, \A p \in Proc : ent[p] # e
  PROVE  Cardinality(Users(e)) = 0
<1>1. Users(e) = {}
  BY DEF Users
<1> QED
  BY <1>1, FS_EmptySet

(***************************************************************************)
(* Of an entry with one user, two goroutines on it are the same: the       *)
(* goroutine whose e.refs-- reaches zero is alone.                         *)
(***************************************************************************)
LEMMA SoleUser ==
  ASSUME NEW e, NEW p \in Proc, NEW q \in Proc, ent[p] = e, ent[q] = e,
         Cardinality(Users(e)) = 1
  PROVE  p = q
<1>1. p \in Users(e) /\ q \in Users(e)
  BY DEF Users
<1>2. PICK x : Users(e) = {x}
  BY UsersFinite, FS_Singleton
<1> QED
  BY <1>1, <1>2

(***************************************************************************)
(* An entry whose count is not zero has a goroutine on it.                 *)
(***************************************************************************)
LEMMA SomeUser ==
  ASSUME NEW e, Cardinality(Users(e)) # 0
  PROVE  \E p \in Proc : ent[p] = e
<1>1. Users(e) # {}
  BY FS_EmptySet
<1> QED
  BY <1>1 DEF Users
-----------------------------------------------------------------------------
(***************************************************************************)
(* The empty Mutex, New's or the zero value, satisfies the inductive       *)
(* invariant.                                                              *)
(***************************************************************************)
LEMMA InitIInv == Init => IInv
BY NoneAssumption DEF Init, IInv, TypeOK, OnTheRow, OneKeyPerEntry, RefsCountUsers, HolderIsInside

(***************************************************************************)
(* Taking a reference to the row that is there.                            *)
(***************************************************************************)
LEMMA LockFoundIInv ==
  ASSUME IInv, NEW p \in Proc, NEW k \in Key, LockFound(p, k)
  PROVE  IInv'
<1> PICK e : e = locks[k]
  OBVIOUS
<1> USE NoneAssumption DEF IInv, LockFound, Enter
<1>1. e \in Entry /\ ent[p] = None
  BY DEF TypeOK, OnTheRow
<1>2. TypeOK'
  BY <1>1 DEF TypeOK
<1>3. OnTheRow'
  BY <1>1 DEF TypeOK, OnTheRow
<1>4. OneKeyPerEntry'
  BY DEF OneKeyPerEntry
<1>5. RefsCountUsers'
  <2> SUFFICES ASSUME NEW f \in Entry
               PROVE  /\ (\A l \in Key : locks[l] # f) \/ refs'[f] # 0
                      /\ (\E l \in Key : locks[l] = f) => refs'[f] = Cardinality(Users(f)')
    BY DEF RefsCountUsers
  <2>1. CASE f = e
    <3>1. Cardinality(Users(e)') = Cardinality(Users(e)) + 1
      BY <1>1, UserComes DEF TypeOK
    <3> QED
      BY <2>1, <3>1, <1>1 DEF TypeOK, RefsCountUsers
  <2>2. CASE f # e
    <3>1. Users(f)' = Users(f)
      BY <2>2, <1>1, OtherUsersStay DEF TypeOK
    <3> QED
      BY <2>2, <3>1, <1>1 DEF TypeOK, RefsCountUsers
  <2> QED
    BY <2>1, <2>2
<1>6. HolderIsInside'
  BY <1>1 DEF TypeOK, HolderIsInside
<1> QED
  BY <1>2, <1>3, <1>4, <1>5, <1>6

(***************************************************************************)
(* A key's first user gets memory that nothing else refers to.             *)
(***************************************************************************)
LEMMA LockNewIInv ==
  ASSUME IInv, NEW p \in Proc, NEW k \in Key, NEW e \in Entry, LockNew(p, k, e)
  PROVE  IInv'
<1> USE NoneAssumption DEF IInv, LockNew, Enter, Unreachable
<1>1. ent[p] = None /\ \A q \in Proc : ent[q] # e
  BY DEF TypeOK, OnTheRow
<1>2. TypeOK'
  BY DEF TypeOK
<1>3. OnTheRow'
  BY <1>1 DEF TypeOK, OnTheRow
<1>4. OneKeyPerEntry'
  BY DEF OneKeyPerEntry, TypeOK
<1>5. RefsCountUsers'
  <2> SUFFICES ASSUME NEW f \in Entry
               PROVE  /\ (\A l \in Key : locks'[l] # f) \/ refs'[f] # 0
                      /\ (\E l \in Key : locks'[l] = f) => refs'[f] = Cardinality(Users(f)')
    BY DEF RefsCountUsers
  <2>1. CASE f = e
    <3>1. Cardinality(Users(e)') = Cardinality(Users(e)) + 1
      BY <1>1, UserComes DEF TypeOK
    <3>2. Cardinality(Users(e)) = 0
      BY <1>1, NoUsersCountZero
    <3> QED
      BY <2>1, <3>1, <3>2 DEF TypeOK
  <2>2. CASE f # e
    <3>1. Users(f)' = Users(f)
      BY <2>2, <1>1, OtherUsersStay DEF TypeOK
    <3> QED
      BY <2>2, <3>1 DEF TypeOK, RefsCountUsers
  <2> QED
    BY <2>1, <2>2
<1>6. HolderIsInside'
  BY <1>1 DEF TypeOK, HolderIsInside
<1> QED
  BY <1>2, <1>3, <1>4, <1>5, <1>6

(***************************************************************************)
(* e.mu.Lock returning keeps the invariant: its caller was the only one    *)
(* let in.                                                                 *)
(***************************************************************************)
LEMMA AcquireIInv ==
  ASSUME IInv, NEW p \in Proc, Acquire(p)
  PROVE  IInv'
<1> USE DEF IInv, Acquire
<1>1. ent[p] \in Entry
  BY DEF OnTheRow
<1>2. TypeOK' /\ OnTheRow' /\ OneKeyPerEntry'
  BY <1>1 DEF TypeOK, OnTheRow, OneKeyPerEntry
<1>3. RefsCountUsers'
  BY DEF RefsCountUsers, Users
<1>4. HolderIsInside'
  BY <1>1, NoneAssumption DEF HolderIsInside, TypeOK
<1> QED
  BY <1>2, <1>3, <1>4

(***************************************************************************)
(* e.mu.Unlock keeps the invariant: the caller still counts as a user of   *)
(* its row.                                                                *)
(***************************************************************************)
LEMMA UnlockIInv ==
  ASSUME IInv, NEW p \in Proc, Unlock(p)
  PROVE  IInv'
<1> USE DEF IInv, Unlock
<1>1. ent[p] \in Entry /\ mu[ent[p]] = p
  BY DEF OnTheRow, HolderIsInside
<1>2. TypeOK' /\ OnTheRow' /\ OneKeyPerEntry'
  BY <1>1 DEF TypeOK, OnTheRow, OneKeyPerEntry
<1>3. RefsCountUsers'
  BY DEF RefsCountUsers, Users
<1>4. HolderIsInside'
  BY <1>1, NoneAssumption DEF HolderIsInside, TypeOK
<1> QED
  BY <1>2, <1>3, <1>4

(***************************************************************************)
(* The crux: the row goes only with its last user.                         *)
(***************************************************************************)
LEMMA DropIInv ==
  ASSUME IInv, NEW p \in Proc, Drop(p)
  PROVE  IInv'
<1> PICK e, k : e = ent[p] /\ k = key[p]
  OBVIOUS
<1> USE NoneAssumption DEF IInv, Drop
<1>1. e \in Entry /\ k \in Key /\ locks[k] = e
  BY DEF OnTheRow
<1>2. refs[e] = Cardinality(Users(e)) /\ refs[e] # 0 /\ refs[e] \in Nat
  BY <1>1 DEF RefsCountUsers, TypeOK
<1>3. TypeOK'
  BY <1>1, <1>2 DEF TypeOK
<1>4. ASSUME refs[e] = 1, NEW q \in Proc, ent[q] = e PROVE q = p
  BY <1>2, <1>4, SoleUser
<1>5. ASSUME NEW q \in Proc, q # p, pc[q] # "idle" PROVE locks'[key[q]] = ent[q]
  <2>1. key[q] \in Key /\ ent[q] \in Entry /\ locks[key[q]] = ent[q]
    BY <1>5 DEF OnTheRow
  <2>2. CASE refs[e] = 1
    <3>1. ent[q] # e
      BY <1>4, <1>5, <2>2
    <3>2. key[q] # k
      BY <3>1, <2>1, <1>1
    <3> QED
      BY <3>2, <2>1 DEF TypeOK
  <2>3. CASE refs[e] # 1
    BY <2>3, <2>1
  <2> QED
    BY <2>2, <2>3
<1>6. OnTheRow'
  BY <1>5 DEF OnTheRow, TypeOK
<1>7. OneKeyPerEntry'
  BY <1>1 DEF OneKeyPerEntry, TypeOK
<1>8. RefsCountUsers'
  <2> SUFFICES ASSUME NEW f \in Entry
               PROVE  /\ (\A l \in Key : locks'[l] # f) \/ refs'[f] # 0
                      /\ (\E l \in Key : locks'[l] = f) => refs'[f] = Cardinality(Users(f)')
    BY DEF RefsCountUsers
  <2>1. CASE f = e
    <3>1. Cardinality(Users(e)') = Cardinality(Users(e)) - 1
      BY <1>1, UserLeaves DEF TypeOK
    <3>2. refs'[e] = Cardinality(Users(e)')
      BY <3>1, <1>1, <1>2 DEF TypeOK
    <3>3. refs[e] = 1 => \A l \in Key : locks'[l] # e
      BY <1>1 DEF OneKeyPerEntry, TypeOK
    <3>4. refs[e] # 1 => refs'[e] # 0
      BY <1>1, <1>2 DEF TypeOK
    <3> QED
      BY <2>1, <3>2, <3>3, <3>4
  <2>2. CASE f # e
    <3>1. Users(f)' = Users(f)
      BY <2>2, OtherUsersStay DEF TypeOK
    <3>2. refs'[f] = refs[f]
      BY <2>2 DEF TypeOK
    <3>3. \A l \in Key : locks'[l] = f => locks[l] = f
      BY DEF TypeOK
    <3>4. ((\A l \in Key : locks'[l] # f) \/ refs[f] # 0)
      BY <3>3, <1>1, <2>2 DEF TypeOK, RefsCountUsers
    <3> QED
      BY <3>1, <3>2, <3>3, <3>4 DEF RefsCountUsers
  <2> QED
    BY <2>1, <2>2
<1>9. HolderIsInside'
  <2> SUFFICES ASSUME NEW f \in Entry, NEW q \in Proc, ent'[q] = f, pc'[q] = "held"
               PROVE  mu[f] = q
    BY DEF HolderIsInside
  <2>1. q # p /\ ent[q] = f /\ pc[q] = "held"
    BY DEF TypeOK
  <2> QED
    BY <2>1 DEF HolderIsInside
<1> QED
  BY <1>3, <1>6, <1>7, <1>8, <1>9
-----------------------------------------------------------------------------
(***************************************************************************)
(* Every step of Lock and of the unlock function keeps the inductive       *)
(* invariant.                                                              *)
(***************************************************************************)
LEMMA NextIInv == IInv /\ [Next]_vars => IInv'
<1> SUFFICES ASSUME IInv, [Next]_vars PROVE IInv'
  OBVIOUS
<1>1. CASE UNCHANGED vars
  <2> USE <1>1 DEF vars, IInv
  <2>1. TypeOK' /\ OnTheRow' /\ OneKeyPerEntry' /\ HolderIsInside'
    BY DEF TypeOK, OnTheRow, OneKeyPerEntry, HolderIsInside
  <2>2. RefsCountUsers'
    BY DEF RefsCountUsers, Users
  <2> QED
    BY <2>1, <2>2
<1>2. CASE Next
  BY <1>2, LockFoundIInv, LockNewIInv, AcquireIInv, UnlockIInv, DropIInv DEF Next
<1> QED
  BY <1>1, <1>2

(***************************************************************************)
(* The inductive invariant holds throughout: a goroutine inside Lock or    *)
(* unlock is on its key's current row, which counts it.                    *)
(***************************************************************************)
THEOREM Invariance == Spec => []IInv
BY InitIInv, NextIInv, PTL DEF Spec

(***************************************************************************)
(* Lock excludes: however many goroutines come and go, two that have been  *)
(* let in on one key are the same goroutine.                               *)
(***************************************************************************)
THEOREM MutualExclusionHolds == Spec => []MutualExclusion
<1>1. IInv => MutualExclusion
  BY NoneAssumption DEF IInv, OnTheRow, HolderIsInside, MutualExclusion
<1> QED
  BY <1>1, Invariance, PTL

(***************************************************************************)
(* The map has a row for exactly the keys in use, so it is as small as Len *)
(* says.                                                                   *)
(***************************************************************************)
THEOREM RowsAreInUseHolds == Spec => []RowsAreInUse
<1>1. IInv => RowsAreInUse
  <2> SUFFICES ASSUME IInv, NEW k \in Key
               PROVE  (locks[k] # None) <=> \E p \in Proc : key[p] = k
    BY DEF RowsAreInUse
  <2> USE NoneAssumption DEF IInv
  <2>1. ASSUME NEW p \in Proc, key[p] = k PROVE locks[k] # None
    BY <2>1 DEF OnTheRow
  <2>2. ASSUME locks[k] # None PROVE \E p \in Proc : key[p] = k
    <3>1. locks[k] \in Entry
      BY <2>2 DEF TypeOK
    <3>2. Cardinality(Users(locks[k])) # 0
      BY <3>1 DEF RefsCountUsers
    <3>3. PICK p \in Proc : ent[p] = locks[k]
      BY <3>2, SomeUser
    <3>4. key[p] \in Key /\ locks[key[p]] = locks[k]
      BY <3>1, <3>3 DEF OnTheRow
    <3> QED
      BY <2>2, <3>4 DEF OneKeyPerEntry
  <2> QED
    BY <2>1, <2>2
<1> QED
  BY <1>1, Invariance, PTL
-----------------------------------------------------------------------------
(***************************************************************************)
(* The abstract view of a step: what a goroutine wants and who holds.      *)
(***************************************************************************)
Wants == [p \in Proc |-> IF pc[p] \in {"waiting", "held"} THEN key[p] ELSE None]
Holding == {p \in Proc : pc[p] = "held"}

(***************************************************************************)
(* The empty Mutex is the empty lock table.                                *)
(***************************************************************************)
LEMMA AbsInit == Init => Abs!Init
BY DEF Init, Abs!Init

(***************************************************************************)
(* Each step of the counted rows is a step of the lock table, or shows     *)
(* nothing of itself: registering a reference asks for the key, e.mu.Lock  *)
(* grants it, e.mu.Unlock releases it, and dropping the row is invisible.  *)
(***************************************************************************)
LEMMA AbsStep == IInv /\ IInv' /\ [Next]_vars => [Abs!Next]_(Abs!vars)
<1> SUFFICES ASSUME IInv, IInv', [Next]_vars
             PROVE  Abs!Next \/ (Wants' = Wants /\ Holding' = Holding)
  BY DEF Abs!vars, Wants, Holding
<1> USE NoneAssumption DEF IInv
<1>1. ASSUME NEW p \in Proc, NEW k \in Key, NEW e, pc[p] = "idle", Enter(p, k, e)
      PROVE  Abs!Request(p, k)
  <2>1. Wants[p] = None /\ Wants' = [Wants EXCEPT ![p] = k]
    BY <1>1 DEF Enter, TypeOK, Wants
  <2>2. Holding' = Holding
    BY <1>1 DEF Enter, TypeOK, Holding
  <2> QED
    BY <2>1, <2>2 DEF Abs!Request, Wants, Holding
<1>2. ASSUME NEW p \in Proc, Acquire(p) PROVE Abs!Grant(p)
  <2> USE <1>2 DEF Acquire
  <2>1. Wants[p] = key[p] /\ key[p] # None /\ Wants' = Wants
    BY DEF TypeOK, OnTheRow, Wants
  <2>2. Holding' = Holding \cup {p}
    BY DEF TypeOK, Holding
  <2>3. ASSUME NEW q \in Holding PROVE Wants[q] # Wants[p]
    <3>1. q \in Proc /\ pc[q] = "held" /\ Wants[q] = key[q]
      BY DEF Holding, Wants
    <3>2. mu[ent[q]] = q /\ ent[q] = locks[key[q]] /\ ent[p] = locks[key[p]]
      BY <3>1 DEF OnTheRow, HolderIsInside
    <3> QED
      BY <2>1, <3>1, <3>2
  <2> QED
    BY <2>1, <2>2, <2>3 DEF Abs!Grant, Wants, Holding
<1>3. ASSUME NEW p \in Proc, Unlock(p) PROVE Abs!Release(p)
  <2>1. p \in Holding /\ Holding' = Holding \ {p}
    BY <1>3 DEF Unlock, TypeOK, Holding
  <2>2. Wants' = [Wants EXCEPT ![p] = None]
    BY <1>3 DEF Unlock, TypeOK, Wants
  <2> QED
    BY <2>1, <2>2 DEF Abs!Release, Wants, Holding
<1>4. ASSUME NEW p \in Proc, Drop(p) PROVE Wants' = Wants /\ Holding' = Holding
  BY <1>4 DEF Drop, TypeOK, Wants, Holding
<1>5. CASE UNCHANGED vars
  BY <1>5 DEF vars, Wants, Holding
<1>6. ASSUME NEW p \in Proc, NEW k \in Key, LockFound(p, k) \/ \E e \in Entry : LockNew(p, k, e)
      PROVE  Abs!Request(p, k)
  BY <1>1, <1>6 DEF LockFound, LockNew
<1> QED
  BY <1>2, <1>3, <1>4, <1>5, <1>6 DEF Next, Abs!Next

(***************************************************************************)
(* The counted rows implement one lock per key: callers of Lock and unlock *)
(* cannot tell the two apart.                                              *)
(***************************************************************************)
THEOREM Refinement == Spec => ImplementsKeyLocks
BY AbsInit, AbsStep, Invariance, PTL DEF Spec, Abs!Spec, ImplementsKeyLocks
=============================================================================
