------------------------------ MODULE KeyLocks ------------------------------
(***************************************************************************)
(* What keyedmutex.Mutex promises its callers: one lock per key, granted   *)
(* to one goroutine at a time, and no trace of a key that nobody holds or  *)
(* awaits.  The abstract state says who has asked for which key and who    *)
(* has been granted it; there is no map, no reference count and no entry.  *)
(* KeyedMutex implements this specification.                               *)
(***************************************************************************)
CONSTANTS Proc, Key, None

VARIABLES wants,     \* wants[p]: the key p holds or awaits, or None
          holding    \* the goroutines whose Lock call has returned

vars == <<wants, holding>>

Init ==
  /\ wants = [p \in Proc |-> None]
  /\ holding = {}

Request(p, k) ==
  /\ wants[p] = None
  /\ wants' = [wants EXCEPT ![p] = k]
  /\ UNCHANGED holding

Grant(p) ==
  /\ wants[p] # None
  /\ \A q \in holding : wants[q] # wants[p]
  /\ holding' = holding \cup {p}
  /\ UNCHANGED wants

Release(p) ==
  /\ p \in holding
  /\ holding' = holding \ {p}
  /\ wants' = [wants EXCEPT ![p] = None]

Next ==
  \E p \in Proc :
    \/ \E k \in Key : Request(p, k)
    \/ Grant(p)
    \/ Release(p)

Spec == Init /\ [][Next]_vars
=============================================================================
