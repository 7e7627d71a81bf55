------------------------------- MODULE BlobMap -------------------------------
(***************************************************************************)
(* What blob.Store promises: a set of stored digests under Put and Delete. *)
(* A call that succeeds took effect at one instant between its start and   *)
(* its return; a call that fails had no effect at all.  There is no lock,  *)
(* no finalize slot, no analysis and no object here.                       *)
(***************************************************************************)
CONSTANTS Proc, Digest

VARIABLES stored,   \* digests whose blob is published
          op        \* the call each goroutine is in, and what it has come to

vars == <<stored, op>>

Idle == [name |-> "none", d |-> "none", result |-> "none"]

Init ==
  /\ stored = {}
  /\ op = [p \in Proc |-> Idle]

Call(p, name, d) ==
  /\ op[p] = Idle
  /\ op' = [op EXCEPT ![p] = [name |-> name, d |-> d, result |-> "none"]]
  /\ UNCHANGED stored

Answer(p, result) ==
  /\ op[p] # Idle /\ op[p].result = "none"
  /\ op' = [op EXCEPT ![p].result = result]

(***************************************************************************)
(* Put stores its digest, or finds it stored.                              *)
(***************************************************************************)
PutTakesEffect(p) ==
  /\ op[p].name = "put"
  /\ Answer(p, "ok")
  /\ stored' = stored \cup {op[p].d}

DeleteTakesEffect(p) ==
  /\ op[p].name = "delete"
  /\ op[p].d \in stored
  /\ Answer(p, "ok")
  /\ stored' = stored \ {op[p].d}

Fails(p) ==
  /\ Answer(p, "error")
  /\ UNCHANGED stored

Return(p) ==
  /\ op[p].result # "none"
  /\ op' = [op EXCEPT ![p] = Idle]
  /\ UNCHANGED stored

(***************************************************************************)
(* The process dies with every call in it.                                 *)
(***************************************************************************)
Die ==
  /\ op' = [p \in Proc |-> Idle]
  /\ UNCHANGED stored

Next ==
  \/ \E p \in Proc :
       \/ \E name \in {"put", "delete"}, d \in Digest : Call(p, name, d)
       \/ PutTakesEffect(p) \/ DeleteTakesEffect(p) \/ Fails(p) \/ Return(p)
  \/ Die

Spec == Init /\ [][Next]_vars
=============================================================================
