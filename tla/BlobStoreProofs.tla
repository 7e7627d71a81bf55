--------------------------- MODULE BlobStoreProofs ---------------------------
(***************************************************************************)
(* blob.Store for any number of goroutines, blobs, shared objects, slots,  *)
(* calls and faults: what is published is whole although the collector     *)
(* runs at any moment, and a published root is never replaced.             *)
(*                                                                         *)
(* A step of one goroutine moves it to another place; MoveIInv says which  *)
(* moves keep the invariant whatever else they do, so that only the steps  *)
(* that lock, pin, publish, delete, collect or crash need an argument.     *)
(***************************************************************************)
EXTENDS BlobStore, FiniteSetTheorems, TLAPS

PlaceOK ==
  /\ pc \in [Proc -> Places]
  /\ result \in [Proc -> {"none", "ok", "error", "refused"}]

(***************************************************************************)
(* Goto keeps the types of pc and result.                                  *)
(***************************************************************************)
LEMMA GotoOK ==
  ASSUME TypeOK, NEW p \in Proc, NEW w \in Places, Goto(p, w)
  PROVE  PlaceOK' /\ pc' = [pc EXCEPT ![p] = w]
BY DEF TypeOK, PlaceOK, Goto

(***************************************************************************)
(* So does the end of a call.                                              *)
(***************************************************************************)
LEMMA EndsOK ==
  ASSUME TypeOK, NEW p \in Proc, NEW r \in {"ok", "error", "refused"}, Ends(p, r)
  PROVE  PlaceOK' /\ pc' = [pc EXCEPT ![p] = "return"]
BY DEF TypeOK, PlaceOK, Ends, Places

(***************************************************************************)
(* Faults are counted down to zero and no further.                         *)
(***************************************************************************)
LEMMA FaultOK ==
  ASSUME TypeOK, Fault \/ UNCHANGED faults
  PROVE  faults' \in 0..MaxFaults
BY BlobAssumption DEF TypeOK, Fault

(***************************************************************************)
(* An error keeps the types of pc, result and faults.                      *)
(***************************************************************************)
LEMMA BreaksOK ==
  ASSUME TypeOK, NEW p \in Proc, Breaks(p)
  PROVE  PlaceOK' /\ pc' = [pc EXCEPT ![p] = "return"] /\ faults' \in 0..MaxFaults
<1>1. Ends(p, "error") /\ (Fault \/ UNCHANGED faults)
  BY DEF Breaks
<1> QED
  BY <1>1, EndsOK, FaultOK

(***************************************************************************)
(* refuseRaw sends the call to the raw path with a meta of its own, or     *)
(* ends it and leaves the meta alone.                                      *)
(***************************************************************************)
LEMMA RefuseOK ==
  ASSUME TypeOK, NEW p \in Proc, NEW r \in Reasons, refuseRaw(p, r)
  PROVE  /\ PlaceOK'
         /\ meta' \in [Proc -> Meta \cup {None}]
         /\ \A q \in Proc : q # p => meta'[q] = meta[q]
         /\ \/ pc' = [pc EXCEPT ![p] = "raw"] /\ meta'[p] \in Meta
            \/ pc' = [pc EXCEPT ![p] = "return"]
<1>1. Raw(r) \in Meta
  BY DEF Raw, Meta
<1>2. CASE Become(p, Raw(r)) /\ Goto(p, "raw")
  <2>1. "raw" \in Places
    BY DEF Places, Slotted
  <2>2. PlaceOK' /\ pc' = [pc EXCEPT ![p] = "raw"]
    BY <1>2, <2>1, GotoOK
  <2> QED
    BY <1>1, <1>2, <2>2 DEF TypeOK, Become
<1>3. CASE Ends(p, "refused") /\ UNCHANGED meta
  <2>1. PlaceOK' /\ pc' = [pc EXCEPT ![p] = "return"]
    BY <1>3, EndsOK
  <2> QED
    BY <1>3, <2>1 DEF TypeOK
<1> QED
  BY <1>2, <1>3 DEF refuseRaw

(***************************************************************************)
(* What a root reaches are objects.                                        *)
(***************************************************************************)
LEMMA TreeObj ==
  ASSUME NEW d \in Digest, NEW m \in Meta
  PROVE  /\ Tree(d, m) \subseteq Obj
         /\ RootObj(d, m) \in Obj /\ RawObj(d) \in Obj /\ Parts[d] \subseteq Obj
BY BlobAssumption DEF Tree, Obj
-----------------------------------------------------------------------------
(***************************************************************************)
(* A goroutine that moves to a place, with the references, the locks, the  *)
(* pins and the arguments as they are and no object lost, keeps the        *)
(* invariant if it was finalizing before it is finalizing, has a meta      *)
(* where it needs one, and does not enter the gap of a publication.        *)
(***************************************************************************)
LEMMA MoveIInv ==
  ASSUME IInv, TypeOK', NEW p \in Proc, NEW w \in Places,
         pc' = [pc EXCEPT ![p] = w],
         UNCHANGED <<refs, holder, pins, arg>>,
         objects \subseteq objects',
         pc[p] # "idle" /\ w # "refput",
         w \in Finalizing => pc[p] \in Finalizing,
         \A q \in Proc : q # p => meta'[q] = meta[q],
         w \in Slotted \ {"analyze", "record"} => meta'[p] \in Meta
  PROVE  IInv'
<1>1. pc \in [Proc -> Places] /\ \A q \in Proc : q # p => pc'[q] = pc[q]
  BY DEF IInv, TypeOK
<1>2. pc'[p] = w
  BY <1>1
<1>3. CallsHaveArguments'
  BY <1>1, <1>2 DEF IInv, CallsHaveArguments
<1>4. FinalizersExclude'
  BY <1>1, <1>2 DEF IInv, FinalizersExclude
<1>5. PinsHold'
  BY <1>1, <1>2 DEF IInv, PinsHold
<1>6. RefsAreWhole'
  BY DEF IInv, RefsAreWhole
<1> QED
  BY <1>3, <1>4, <1>5, <1>6 DEF IInv
-----------------------------------------------------------------------------
(***************************************************************************)
(* Initially nothing is published, locked or pinned.                       *)
(***************************************************************************)
LEMMA InitIInv == Init => IInv
<1> SUFFICES ASSUME Init PROVE IInv
  OBVIOUS
<1>1. TypeOK
  BY BlobAssumption DEF Init, TypeOK, NoPack, Places, Unlocked
<1>2. CallsHaveArguments /\ FinalizersExclude /\ PinsHold /\ RefsAreWhole
  BY DEF Init, CallsHaveArguments, FinalizersExclude, PinsHold, RefsAreWhole, Slotted, Finalizing
<1> QED
  BY <1>1, <1>2 DEF IInv

(***************************************************************************)
(* A call that starts is not finalizing.                                   *)
(***************************************************************************)
LEMMA CallIInv ==
  ASSUME IInv, NEW p \in Proc, NEW name \in {"put", "delete", "reuse"}, NEW d \in Digest,
         Call(p, name, d)
  PROVE  IInv'
<1>1. TypeOK /\ pc[p] = "idle"
  BY DEF IInv, Call, At
<1>2. name \in Places /\ name \notin Finalizing /\ name \notin Slotted
  BY DEF Places, Unlocked, Finalizing, Slotted
<1>3. PlaceOK' /\ pc' = [pc EXCEPT ![p] = name]
  BY <1>1, <1>2, GotoOK DEF Call
<1>4. TypeOK'
  BY <1>1, <1>3, BlobAssumption
  DEF TypeOK, PlaceOK, Call, Config, storeVars, tableVars
<1>5. arg' = [arg EXCEPT ![p] = d] /\ UNCHANGED <<refs, objects, pins, holder, meta>>
  BY DEF Call, storeVars
<1>6. CallsHaveArguments'
  BY <1>1, <1>2, <1>3, <1>5 DEF IInv, CallsHaveArguments, TypeOK
<1>7. FinalizersExclude'
  BY <1>1, <1>2, <1>3, <1>5 DEF IInv, FinalizersExclude, TypeOK
<1>8. PinsHold'
  BY <1>1, <1>2, <1>3, <1>5 DEF IInv, PinsHold, TypeOK, Slotted
<1>9. RefsAreWhole'
  BY <1>5 DEF IInv, RefsAreWhole
<1> QED
  BY <1>4, <1>6, <1>7, <1>8, <1>9 DEF IInv

(***************************************************************************)
(* Steps that touch neither places nor the store.                          *)
(***************************************************************************)
LEMMA QuietIInv ==
  ASSUME IInv, TypeOK', UNCHANGED <<refs, objects, pins, holder, pc, arg, meta>>
  PROVE  IInv'
BY DEF IInv, CallsHaveArguments, FinalizersExclude, PinsHold, RefsAreWhole

(***************************************************************************)
(* The end of a client and the table of recent uploads are such steps.     *)
(***************************************************************************)
LEMMA AsideIInv ==
  ASSUME IInv,
         \/ \E p \in Proc : Cancel(p)
         \/ \E d \in Digest : TakeRecent(d) \/ purgeRecent(d)
         \/ UNCHANGED vars
  PROVE  IInv'
<1>0. TypeOK
  BY DEF IInv
<1>1. ASSUME NEW p \in Proc, Cancel(p) PROVE IInv'
  <2>1. TypeOK'
    BY <1>0, <1>1 DEF TypeOK, Cancel, Config, storeVars, tableVars
  <2> QED
    BY <1>1, <2>1, QuietIInv DEF Cancel, storeVars
<1>2. ASSUME NEW d \in Digest, TakeRecent(d) PROVE IInv'
  <2>1. recent' \in [Digest -> {"new", "dedup", None}] /\ charged' \in [Digest -> Nat]
    BY <1>0, <1>2 DEF TypeOK, TakeRecent
  <2>2. TypeOK'
    BY <1>0, <1>2, <2>1 DEF TypeOK, TakeRecent, Config, storeVars, procVars
  <2> QED
    BY <1>2, <2>2, QuietIInv DEF TakeRecent, storeVars, procVars
<1>3. ASSUME NEW d \in Digest, purgeRecent(d) PROVE IInv'
  <2>1. TypeOK'
    BY <1>0, <1>3 DEF TypeOK, purgeRecent, Config, storeVars, procVars
  <2> QED
    BY <1>3, <2>1, QuietIInv DEF purgeRecent, storeVars, procVars
<1>4. ASSUME UNCHANGED vars PROVE IInv'
  <2>1. TypeOK'
    BY <1>0, <1>4 DEF TypeOK, vars, storeVars, tableVars, procVars
  <2> QED
    BY <1>4, <2>1, QuietIInv DEF vars, storeVars, procVars
<1> QED
  BY <1>1, <1>2, <1>3, <1>4
-----------------------------------------------------------------------------
(***************************************************************************)
(* What every step of a finalization needs of the invariant.               *)
(***************************************************************************)
LEMMA Within ==
  ASSUME IInv, NEW p \in Proc, pc[p] \in Slotted \ {"analyze", "record"}
  PROVE  TypeOK /\ pc[p] # "idle" /\ pc[p] \in Finalizing /\ arg[p] \in Digest /\ meta[p] \in Meta
BY DEF IInv, CallsHaveArguments, Slotted, Finalizing

(***************************************************************************)
(* Whoever finalizes has a digest.                                         *)
(***************************************************************************)
LEMMA FinalizerArg ==
  ASSUME IInv, NEW p \in Proc, pc[p] \in Finalizing
  PROVE  pc[p] # "idle" /\ arg[p] \in Digest
<1>1. pc[p] # "idle"
  BY DEF Finalizing, Slotted
<1> QED
  BY <1>1 DEF IInv, CallsHaveArguments

(***************************************************************************)
(* A slot is taken, or not waited for.                                     *)
(***************************************************************************)
LEMMA SlotIInv ==
  ASSUME IInv, NEW p \in Proc, TakeSlot(p) \/ SlotCancelled(p)
  PROVE  IInv'
<1>1. TypeOK /\ pc[p] = "slot"
  BY DEF IInv, TakeSlot, SlotCancelled, At
<1>2. "analyze" \in Places /\ "return" \in Places /\ "return" \notin Finalizing
      /\ "slot" \in Finalizing /\ "return" \notin Slotted
  BY DEF Places, Slotted, Finalizing
<1>3. CASE TakeSlot(p)
  <2>1. PlaceOK' /\ pc' = [pc EXCEPT ![p] = "analyze"]
    BY <1>1, <1>2, <1>3, GotoOK DEF TakeSlot
  <2>2. TypeOK'
    BY <1>1, <1>3, <2>1 DEF TypeOK, PlaceOK, TakeSlot, Config, storeVars, tableVars
  <2> QED
    BY <1>1, <1>2, <1>3, <2>1, <2>2, MoveIInv DEF TakeSlot, storeVars
<1>4. CASE SlotCancelled(p)
  <2>1. PlaceOK' /\ pc' = [pc EXCEPT ![p] = "return"]
    BY <1>1, <1>4, EndsOK DEF SlotCancelled
  <2>2. TypeOK'
    BY <1>1, <1>4, <2>1 DEF TypeOK, PlaceOK, SlotCancelled, Config, storeVars, tableVars
  <2> QED
    BY <1>1, <1>2, <1>4, <2>1, <2>2, MoveIInv DEF SlotCancelled, storeVars
<1> QED
  BY <1>3, <1>4

-----------------------------------------------------------------------------
(***************************************************************************)
(* A step of a finalization, as far as places and metas go.                *)
(***************************************************************************)
Moves(p) ==
  /\ PlaceOK' /\ faults' \in 0..MaxFaults /\ meta' \in [Proc -> Meta \cup {None}]
  /\ \A q \in Proc : q # p => meta'[q] = meta[q]
  /\ \E w \in Places \ {"refput"} :
       /\ pc' = [pc EXCEPT ![p] = w]
       /\ w \in Slotted \ {"analyze", "record"} => meta'[p] \in Meta

(***************************************************************************)
(* Such a step keeps the invariant if it loses no object.                  *)
(***************************************************************************)
LEMMA MovesIInv ==
  ASSUME IInv, TypeOK', NEW p \in Proc, Moves(p),
         UNCHANGED <<refs, holder, pins, arg>>, objects \subseteq objects',
         pc[p] # "idle", pc[p] \in Finalizing
  PROVE  IInv'
<1>1. PICK w \in Places \ {"refput"} :
        /\ pc' = [pc EXCEPT ![p] = w]
        /\ w \in Slotted \ {"analyze", "record"} => meta'[p] \in Meta
  BY DEF Moves
<1>2. \A q \in Proc : q # p => meta'[q] = meta[q]
  BY DEF Moves
<1> QED
  BY <1>1, <1>2, MoveIInv

(***************************************************************************)
(* Going on with a meta that stays, a prism decision, an error and         *)
(* refuseRaw are moves.                                                    *)
(***************************************************************************)
LEMMA GotoMoves ==
  ASSUME TypeOK, NEW p \in Proc, NEW w \in Places \ {"refput"}, Goto(p, w),
         meta[p] \in Meta, UNCHANGED meta, faults' \in 0..MaxFaults
  PROVE  Moves(p)
<1>1. PlaceOK' /\ pc' = [pc EXCEPT ![p] = w]
  BY GotoOK
<1> QED
  BY <1>1 DEF Moves, TypeOK

(***************************************************************************)
(* See GotoMoves.                                                          *)
(***************************************************************************)
LEMMA EndsMoves ==
  ASSUME TypeOK, NEW p \in Proc, NEW r \in {"ok", "error", "refused"}, Ends(p, r),
         UNCHANGED meta, faults' \in 0..MaxFaults
  PROVE  Moves(p)
<1>1. PlaceOK' /\ pc' = [pc EXCEPT ![p] = "return"]
  BY EndsOK
<1>2. "return" \in Places \ {"refput"} /\ "return" \notin Slotted
  BY DEF Places, Slotted
<1> QED
  BY <1>1, <1>2 DEF Moves, TypeOK

(***************************************************************************)
(* See GotoMoves.                                                          *)
(***************************************************************************)
LEMMA BreaksMoves ==
  ASSUME TypeOK, NEW p \in Proc, Breaks(p), UNCHANGED meta
  PROVE  Moves(p)
<1>1. Ends(p, "error") /\ faults' \in 0..MaxFaults
  BY BreaksOK DEF Breaks
<1> QED
  BY <1>1, EndsMoves

(***************************************************************************)
(* See GotoMoves.                                                          *)
(***************************************************************************)
LEMMA RefuseMoves ==
  ASSUME TypeOK, NEW p \in Proc, NEW r \in Reasons, refuseRaw(p, r), faults' \in 0..MaxFaults
  PROVE  Moves(p)
<1>1. /\ PlaceOK' /\ meta' \in [Proc -> Meta \cup {None}]
      /\ \A q \in Proc : q # p => meta'[q] = meta[q]
      /\ \/ pc' = [pc EXCEPT ![p] = "raw"] /\ meta'[p] \in Meta
         \/ pc' = [pc EXCEPT ![p] = "return"]
  BY RefuseOK
<1>2. "return" \in Places \ {"refput"} /\ "return" \notin Slotted /\ "raw" \in Places \ {"refput"}
  BY DEF Places, Slotted
<1> QED
  BY <1>1, <1>2 DEF Moves
-----------------------------------------------------------------------------
(***************************************************************************)
(* analyze keeps the invariant.                                            *)
(***************************************************************************)
LEMMA analyzeIInv ==
  ASSUME IInv, NEW p \in Proc, analyze(p)
  PROVE  IInv'
<1>1. TypeOK /\ pc[p] = "analyze" /\ pc[p] \in Finalizing
  BY DEF IInv, analyze, At, Finalizing, Slotted
<1>2. Moves(p) /\ tmp' \subseteq Proc
  <2>1. CASE Breaks(p) /\ UNCHANGED <<meta, tmp>>
    BY <1>1, <2>1, BreaksMoves DEF TypeOK
  <2>2. ASSUME NEW r \in Reasons, Live(p), UNCHANGED tmp, refuseRaw(p, r)
        PROVE  Moves(p) /\ tmp' \subseteq Proc
    BY <1>1, <2>2, RefuseMoves DEF TypeOK, Live
  <2>3. CASE Live(p) /\ tmp' = tmp \cup {p} /\ Become(p, Prism) /\ Goto(p, "pack")
    <3>1. Prism \in Meta /\ "pack" \in Places \ {"refput"}
      BY DEF Meta, Places, Slotted
    <3>2. PlaceOK' /\ pc' = [pc EXCEPT ![p] = "pack"]
      BY <1>1, <2>3, <3>1, GotoOK
    <3>3. meta' \in [Proc -> Meta \cup {None}] /\ meta'[p] \in Meta /\ tmp' \subseteq Proc
          /\ (\A q \in Proc : q # p => meta'[q] = meta[q]) /\ faults' \in 0..MaxFaults
      BY <1>1, <2>3, <3>1 DEF TypeOK, Become, Live
    <3> QED
      BY <3>1, <3>2, <3>3 DEF Moves
  <2> QED
    BY <2>1, <2>2, <2>3 DEF analyze, Reasons
<1>3. TypeOK'
  BY <1>1, <1>2 DEF TypeOK, Moves, PlaceOK, analyze, Config, storeVars, tableVars
<1> QED
  BY <1>1, <1>2, <1>3, MovesIInv DEF analyze, storeVars

Pack == [open : BOOLEAN, skipped : SUBSET Part, err : {"none", "sink", "decompose"}]
PackOK == pack \in [Proc -> Pack]

(***************************************************************************)
(* The pack that finalizePrism releases, opens, fills or fails is a pack.  *)
(***************************************************************************)
LEMMA NoPackOK == NoPack \in Pack
BY Zenon DEF NoPack, Pack

(***************************************************************************)
(* See NoPackOK.                                                           *)
(***************************************************************************)
LEMMA OpenOK == \A r \in Pack : [r EXCEPT !.open = TRUE] \in Pack
BY DEF Pack

(***************************************************************************)
(* See NoPackOK.                                                           *)
(***************************************************************************)
LEMMA SkippedOK == \A r \in Pack, s \in SUBSET Part : [r EXCEPT !.skipped = s] \in Pack
BY DEF Pack

(***************************************************************************)
(* See NoPackOK.                                                           *)
(***************************************************************************)
LEMMA ErrOK == \A r \in Pack, e \in {"sink", "decompose"} : [r EXCEPT !.err = e] \in Pack
BY DEF Pack

(***************************************************************************)
(* A released pack is a pack.                                              *)
(***************************************************************************)
LEMMA ReleaseOK ==
  ASSUME TypeOK, NEW p \in Proc, Release(p) \/ UNCHANGED pack
  PROVE  PackOK'
<1>1. PackOK
  BY DEF TypeOK, PackOK, Pack
<1> QED
  BY <1>1, NoPackOK DEF PackOK, Release

(***************************************************************************)
(* The places finalizePrism and finalizeRaw go on to.                      *)
(***************************************************************************)
LEMMA Onward ==
  {"stage", "confirm", "commit", "verify", "root", "publish", "raw"} \subseteq Places \ {"refput"}
BY DEF Places, Slotted

(***************************************************************************)
(* So does NewPackWriter.                                                  *)
(***************************************************************************)
LEMMA NewPackWriterIInv ==
  ASSUME IInv, NEW p \in Proc, NewPackWriter(p)
  PROVE  IInv'
<1>0. pc[p] = "pack" /\ pc[p] \in Slotted \ {"analyze", "record"}
  BY DEF NewPackWriter, At, Slotted
<1>1. TypeOK /\ pc[p] # "idle" /\ pc[p] \in Finalizing /\ arg[p] \in Digest /\ meta[p] \in Meta
  BY <1>0, Within
<1>2. Moves(p)
  <2>1. CASE Ends(p, "error") /\ Fault
    BY <1>1, <2>1, EndsMoves, FaultOK DEF NewPackWriter
  <2>2. CASE Goto(p, "stage") /\ UNCHANGED faults
    BY <1>1, <2>2, GotoMoves, FaultOK, Onward DEF NewPackWriter
  <2> QED
    BY <2>1, <2>2 DEF NewPackWriter
<1>3. PackOK'
  <2>1. PackOK
    BY <1>1 DEF TypeOK, PackOK, Pack
  <2> QED
    BY <2>1, OpenOK DEF NewPackWriter, PackOK
<1>4. TypeOK'
  BY <1>1, <1>2, <1>3 DEF TypeOK, Moves, PlaceOK, NewPackWriter, Config, storeVars, tableVars, PackOK, Pack
<1> QED
  BY <1>1, <1>2, <1>3, <1>4, MovesIInv DEF NewPackWriter, storeVars

(***************************************************************************)
(* So does the stager.                                                     *)
(***************************************************************************)
LEMMA stageIInv ==
  ASSUME IInv, NEW p \in Proc, stage(p)
  PROVE  IInv'
<1>0. pc[p] = "stage" /\ pc[p] \in Slotted \ {"analyze", "record"}
  BY DEF stage, At, Slotted
<1>1. TypeOK /\ pc[p] # "idle" /\ pc[p] \in Finalizing /\ arg[p] \in Digest /\ meta[p] \in Meta
  BY <1>0, Within
<1>2. Moves(p)
  <2>1. Goto(p, "confirm") /\ UNCHANGED meta /\ (Fault \/ UNCHANGED faults)
    BY DEF stage
  <2> QED
    BY <1>1, <2>1, GotoMoves, FaultOK, Onward
<1>3. PackOK'
  <2>0. PackOK
    BY <1>1 DEF TypeOK, PackOK, Pack
  <2>1. Parts[arg[p]] \cap objects \in SUBSET Part
    BY <1>1, BlobAssumption
  <2>2. CASE pack' = [pack EXCEPT ![p].skipped = Parts[arg[p]] \cap objects]
    BY <2>0, <2>1, <2>2, SkippedOK DEF PackOK
  <2>3. ASSUME NEW e \in {"sink", "decompose"}, pack' = [pack EXCEPT ![p] = [NoPack EXCEPT !.err = e]]
        PROVE  PackOK'
    BY <2>0, <2>3, ErrOK, NoPackOK DEF PackOK
  <2> QED
    BY <2>2, <2>3 DEF stage
<1>4. TypeOK'
  BY <1>1, <1>2, <1>3 DEF TypeOK, Moves, PlaceOK, stage, Config, storeVars, tableVars, PackOK, Pack
<1> QED
  BY <1>1, <1>2, <1>3, <1>4, MovesIInv DEF stage, storeVars

(***************************************************************************)
(* So does the end of the confirming pass.                                 *)
(***************************************************************************)
LEMMA ConfirmIInv ==
  ASSUME IInv, NEW p \in Proc, Confirm(p)
  PROVE  IInv'
<1>0. pc[p] = "confirm" /\ pc[p] \in Slotted \ {"analyze", "record"}
  BY DEF Confirm, At, Slotted
<1>1. TypeOK /\ pc[p] # "idle" /\ pc[p] \in Finalizing /\ arg[p] \in Digest /\ meta[p] \in Meta
  BY <1>0, Within
<1>2. Moves(p)
  <2>1. CASE Breaks(p) /\ UNCHANGED meta
    BY <1>1, <2>1, BreaksMoves
  <2>2. ASSUME NEW r \in Reasons, refuseRaw(p, r), Live(p) PROVE Moves(p)
    BY <1>1, <2>2, RefuseMoves, FaultOK DEF Live
  <2>3. CASE Live(p) /\ Ends(p, "error") /\ UNCHANGED meta
    BY <1>1, <2>3, EndsMoves, FaultOK DEF Live
  <2>4. CASE Live(p) /\ Goto(p, "commit") /\ UNCHANGED meta
    BY <1>1, <2>4, GotoMoves, FaultOK, Onward DEF Live
  <2> QED
    BY <2>1, <2>2, <2>3, <2>4 DEF Confirm, Reasons
<1>3. PackOK'
  BY <1>1, ReleaseOK DEF Confirm
<1>4. TypeOK'
  BY <1>1, <1>2, <1>3 DEF TypeOK, Moves, PlaceOK, Confirm, Config, storeVars, tableVars, PackOK, Pack
<1> QED
  BY <1>1, <1>2, <1>3, <1>4, MovesIInv DEF Confirm, storeVars

(***************************************************************************)
(* So does commit, which only adds objects.                                *)
(***************************************************************************)
LEMMA commitIInv ==
  ASSUME IInv, NEW p \in Proc, commit(p)
  PROVE  IInv'
<1>0. pc[p] = "commit" /\ pc[p] \in Slotted \ {"analyze", "record"}
  BY DEF commit, At, Slotted
<1>1. TypeOK /\ pc[p] # "idle" /\ pc[p] \in Finalizing /\ arg[p] \in Digest /\ meta[p] \in Meta
  BY <1>0, Within
<1>2. Moves(p) /\ PackOK'
  <2>0. UNCHANGED meta
    BY DEF commit
  <2>1. CASE Live(p) /\ AfterCommit(p)
    BY <1>1, <2>0, <2>1, GotoMoves, FaultOK, Onward, ReleaseOK DEF Live, AfterCommit
  <2>2. CASE Breaks(p) /\ Release(p)
    BY <1>1, <2>0, <2>2, BreaksMoves, ReleaseOK
  <2>3. CASE Ends(p, "error") /\ UNCHANGED faults /\ Release(p)
    BY <1>1, <2>0, <2>3, EndsMoves, FaultOK, ReleaseOK
  <2> QED
    BY <2>1, <2>2, <2>3 DEF commit
<1>3. objects' \subseteq Obj /\ objects \subseteq objects'
  <2>1. Parts[arg[p]] \subseteq Obj
    BY <1>1, TreeObj
  <2>2. objects' = objects \/ AddPack(p)
    BY DEF commit
  <2> QED
    BY <1>1, <2>1, <2>2 DEF AddPack, TypeOK
<1>4. TypeOK'
  BY <1>1, <1>2, <1>3 DEF TypeOK, Moves, PlaceOK, commit, Config, storeVars, tableVars, PackOK, Pack
<1> QED
  BY <1>1, <1>2, <1>3, <1>4, MovesIInv DEF commit, storeVars

(***************************************************************************)
(* So does the round-trip check.                                           *)
(***************************************************************************)
LEMMA VerifyIInv ==
  ASSUME IInv, NEW p \in Proc, Verify(p)
  PROVE  IInv'
<1>0. pc[p] = "verify" /\ pc[p] \in Slotted \ {"analyze", "record"}
  BY DEF Verify, At, Slotted
<1>1. TypeOK /\ pc[p] # "idle" /\ pc[p] \in Finalizing /\ arg[p] \in Digest /\ meta[p] \in Meta
  BY <1>0, Within
<1>2. Moves(p)
  <2>1. CASE Breaks(p) /\ UNCHANGED meta
    BY <1>1, <2>1, BreaksMoves
  <2>2. CASE Ends(p, "error") /\ UNCHANGED <<meta, faults>>
    BY <1>1, <2>2, EndsMoves, FaultOK
  <2>3. CASE Live(p) /\ Goto(p, "root") /\ UNCHANGED meta
    BY <1>1, <2>3, GotoMoves, FaultOK, Onward DEF Live
  <2>4. CASE refuseRaw(p, "roundtrip-failed") /\ (UNCHANGED faults \/ Fault)
    <3>1. "roundtrip-failed" \in Reasons
      BY DEF Reasons
    <3> QED
      BY <1>1, <2>4, <3>1, RefuseMoves, FaultOK
  <2> QED
    BY <2>1, <2>2, <2>3, <2>4 DEF Verify
<1>3. PackOK'
  BY <1>1, ReleaseOK DEF Verify
<1>4. TypeOK'
  BY <1>1, <1>2, <1>3 DEF TypeOK, Moves, PlaceOK, Verify, Config, storeVars, tableVars, PackOK, Pack
<1> QED
  BY <1>1, <1>2, <1>3, <1>4, MovesIInv DEF Verify, storeVars

(***************************************************************************)
(* So does the raw path.                                                   *)
(***************************************************************************)
LEMMA ingestRawIInv ==
  ASSUME IInv, NEW p \in Proc, ingestRaw(p)
  PROVE  IInv'
<1>0. pc[p] = "raw" /\ pc[p] \in Slotted \ {"analyze", "record"}
  BY DEF ingestRaw, At, Slotted
<1>1. TypeOK /\ pc[p] # "idle" /\ pc[p] \in Finalizing /\ arg[p] \in Digest /\ meta[p] \in Meta
  BY <1>0, Within
<1>2. Moves(p)
  <2>0. UNCHANGED meta
    BY DEF ingestRaw
  <2>1. CASE Live(p) /\ Goto(p, "root")
    BY <1>1, <2>0, <2>1, GotoMoves, FaultOK, Onward DEF Live
  <2>2. CASE Breaks(p)
    BY <1>1, <2>0, <2>2, BreaksMoves
  <2> QED
    BY <2>1, <2>2 DEF ingestRaw
<1>3. objects' \subseteq Obj /\ objects \subseteq objects'
  <2>1. RawObj(arg[p]) \in Obj
    BY <1>1, TreeObj
  <2>2. objects' = objects \/ objects' = objects \cup {RawObj(arg[p])}
    BY DEF ingestRaw
  <2> QED
    BY <1>1, <2>1, <2>2 DEF TypeOK
<1>4. TypeOK'
  BY <1>1, <1>2, <1>3 DEF TypeOK, Moves, PlaceOK, ingestRaw, Config, storeVars, tableVars, PackOK, Pack
<1> QED
  BY <1>1, <1>2, <1>3, <1>4, MovesIInv DEF ingestRaw, storeVars

(***************************************************************************)
(* So does the root.                                                       *)
(***************************************************************************)
LEMMA writeRootIInv ==
  ASSUME IInv, NEW p \in Proc, writeRoot(p)
  PROVE  IInv'
<1>0. pc[p] = "root" /\ pc[p] \in Slotted \ {"analyze", "record"}
  BY DEF writeRoot, At, Slotted
<1>1. TypeOK /\ pc[p] # "idle" /\ pc[p] \in Finalizing /\ arg[p] \in Digest /\ meta[p] \in Meta
  BY <1>0, Within
<1>2. Moves(p)
  <2>0. UNCHANGED meta
    BY DEF writeRoot
  <2>1. CASE Live(p) /\ Goto(p, "publish")
    BY <1>1, <2>0, <2>1, GotoMoves, FaultOK, Onward DEF Live
  <2>2. CASE Breaks(p)
    BY <1>1, <2>0, <2>2, BreaksMoves
  <2> QED
    BY <2>1, <2>2 DEF writeRoot
<1>3. objects' \subseteq Obj /\ objects \subseteq objects'
  <2>1. RootObj(arg[p], meta[p]) \in Obj
    BY <1>1, TreeObj
  <2>2. objects' = objects \/ objects' = objects \cup {RootObj(arg[p], meta[p])}
    BY DEF writeRoot
  <2> QED
    BY <1>1, <2>1, <2>2 DEF TypeOK
<1>4. TypeOK'
  BY <1>1, <1>2, <1>3 DEF TypeOK, Moves, PlaceOK, writeRoot, Config, storeVars, tableVars, PackOK, Pack
<1> QED
  BY <1>1, <1>2, <1>3, <1>4, MovesIInv DEF writeRoot, storeVars
-----------------------------------------------------------------------------
(***************************************************************************)
(* The places that are outside a finalization.                             *)
(***************************************************************************)
LEMMA Outside ==
  ASSUME NEW w \in {"idle", "put", "delete", "reuse", "reused", "hit", "unspool", "return"}
  PROVE  w \in Places /\ w \notin Slotted /\ w \notin Finalizing /\ w # "refput"
BY DEF Places, Unlocked, Slotted, Finalizing

(***************************************************************************)
(* A goroutine of a call that goes outside keeps the invariant.            *)
(***************************************************************************)
LEMMA OutIInv ==
  ASSUME IInv, TypeOK', NEW p \in Proc, NEW w \in {"reused", "unspool", "return"}, pc[p] # "idle",
         pc' = [pc EXCEPT ![p] = w],
         UNCHANGED <<refs, objects, holder, pins, arg, meta>>
  PROVE  IInv'
<1>1. w \in Places /\ w \notin Slotted /\ w \notin Finalizing /\ w # "refput"
  BY Outside
<1> QED
  BY <1>1, MoveIInv

(***************************************************************************)
(* A row of the recent table is a row.                                     *)
(***************************************************************************)
LEMMA recordRecentOK ==
  ASSUME TypeOK, NEW d \in Digest, NEW row \in {"new", "dedup"}, recordRecent(d, row)
  PROVE  /\ recent' \in [Digest -> {"new", "dedup", None}]
         /\ minted' \in [Digest -> Nat] /\ charged' \in [Digest -> Nat]
BY DEF TypeOK, recordRecent

(***************************************************************************)
(* The ends of Put and of Reuse.                                           *)
(***************************************************************************)
LEMMA EndingIInv ==
  ASSUME IInv, NEW p \in Proc, Record(p) \/ RemoveSpool(p) \/ Reuse(p) \/ ReuseHit(p)
  PROVE  IInv'
<1>1. TypeOK /\ pc[p] # "idle" /\ arg[p] \in Digest
  BY DEF IInv, CallsHaveArguments, Record, RemoveSpool, Reuse, ReuseHit, At
<1>2. "unspool" \in Places /\ "reused" \in Places
  BY Outside
<1>3. CASE Record(p)
  <2>1. PlaceOK' /\ pc' = [pc EXCEPT ![p] = "unspool"]
    BY <1>1, <1>2, <1>3, GotoOK DEF Record
  <2>2. /\ recent' \in [Digest -> {"new", "dedup", None}]
        /\ minted' \in [Digest -> Nat] /\ charged' \in [Digest -> Nat]
    BY <1>1, <1>3, recordRecentOK DEF Record
  <2>3. TypeOK'
    BY <1>1, <1>3, <2>1, <2>2 DEF TypeOK, PlaceOK, Record, Config, storeVars
  <2> QED
    BY <1>1, <1>3, <2>1, <2>3, OutIInv DEF Record, storeVars
<1>4. CASE RemoveSpool(p)
  <2>1. PlaceOK' /\ pc' = [pc EXCEPT ![p] = "return"]
    BY <1>1, <1>4, EndsOK DEF RemoveSpool
  <2>2. faults' \in 0..MaxFaults /\ spool' \subseteq Proc
    BY <1>1, <1>4, FaultOK DEF RemoveSpool, TypeOK
  <2>3. TypeOK'
    BY <1>1, <1>4, <2>1, <2>2 DEF TypeOK, PlaceOK, RemoveSpool, Config, storeVars, tableVars
  <2> QED
    BY <1>1, <1>4, <2>1, <2>3, OutIInv DEF RemoveSpool, storeVars
<1>5. CASE Reuse(p)
  <2>1. PlaceOK' /\ \E w \in {"reused", "return"} : pc' = [pc EXCEPT ![p] = w]
    BY <1>1, <1>2, <1>5, GotoOK, EndsOK DEF Reuse
  <2>2. TypeOK'
    BY <1>1, <1>5, <2>1 DEF TypeOK, PlaceOK, Reuse, Config, storeVars, tableVars
  <2> QED
    BY <1>1, <1>5, <2>1, <2>2, OutIInv DEF Reuse, storeVars
<1>6. CASE ReuseHit(p)
  <2>1. PlaceOK' /\ pc' = [pc EXCEPT ![p] = "return"]
    BY <1>1, <1>6, EndsOK DEF ReuseHit
  <2>2. /\ recent' \in [Digest -> {"new", "dedup", None}]
        /\ minted' \in [Digest -> Nat] /\ charged' \in [Digest -> Nat]
    BY <1>1, <1>6, recordRecentOK DEF ReuseHit
  <2>3. TypeOK'
    BY <1>1, <1>6, <2>1, <2>2 DEF TypeOK, PlaceOK, ReuseHit, Config, storeVars
  <2> QED
    BY <1>1, <1>6, <2>1, <2>3, OutIInv DEF ReuseHit, storeVars
<1> QED
  BY <1>3, <1>4, <1>5, <1>6
-----------------------------------------------------------------------------
(***************************************************************************)
(* A Put that gets the lock has it alone, and goes on to finalize only     *)
(* what has no reference.                                                  *)
(***************************************************************************)
LEMMA LockDigestIInv ==
  ASSUME IInv, NEW p \in Proc, LockDigest(p)
  PROVE  IInv'
<1>1. /\ TypeOK /\ pc[p] = "put" /\ arg[p] \in Digest /\ holder[arg[p]] = None
      /\ holder' = [holder EXCEPT ![arg[p]] = p]
      /\ UNCHANGED <<refs, objects, pins, arg, meta>>
  BY DEF IInv, CallsHaveArguments, LockDigest, At, storeVars
<1>2. /\ "slot" \in Places /\ "slot" \notin Slotted
      /\ "hit" \in Places /\ "hit" \notin Slotted /\ "hit" \notin Finalizing
      /\ "return" \in Places /\ "return" \notin Slotted /\ "return" \notin Finalizing
  BY DEF Places, Slotted, Finalizing
<1>3. /\ PlaceOK' /\ faults' \in 0..MaxFaults
      /\ \E w \in {"hit", "slot", "return"} :
           pc' = [pc EXCEPT ![p] = w] /\ (w = "slot" => refs[arg[p]] = None)
  <2>1. CASE Breaks(p)
    BY <1>1, <2>1, BreaksOK
  <2>2. CASE Live(p) /\ Open(arg[p]) /\ Goto(p, "hit")
    BY <1>1, <1>2, <2>2, GotoOK, FaultOK DEF Live
  <2>3. CASE Live(p) /\ ~Open(arg[p]) /\ Goto(p, "slot")
    BY <1>1, <1>2, <2>3, GotoOK, FaultOK DEF Live, Open
  <2> QED
    BY <2>1, <2>2, <2>3 DEF LockDigest
<1>4. PICK w \in {"hit", "slot", "return"} :
        pc' = [pc EXCEPT ![p] = w] /\ (w = "slot" => refs[arg[p]] = None)
  BY <1>3
<1>5. pc \in [Proc -> Places] /\ holder \in [Digest -> Proc \cup {None}]
  BY <1>1 DEF TypeOK
<1>6. pc'[p] = w /\ \A q \in Proc : q # p => pc'[q] = pc[q]
  BY <1>4, <1>5
<1>7. TypeOK'
  BY <1>1, <1>3 DEF TypeOK, PlaceOK, LockDigest, Config, storeVars, tableVars
<1>8. CallsHaveArguments'
  BY <1>1, <1>2, <1>6 DEF IInv, CallsHaveArguments
<1>9. FinalizersExclude'
  <2> SUFFICES ASSUME NEW q \in Proc, pc'[q] \in Finalizing
               PROVE  holder'[arg[q]] = q /\ refs[arg[q]] = None
    BY <1>1 DEF FinalizersExclude
  <2>1. CASE q = p
    BY <1>1, <1>2, <1>4, <1>5, <1>6, <2>1
  <2>2. CASE q # p
    <3>1. holder[arg[q]] = q /\ refs[arg[q]] = None
      BY <1>6, <2>2 DEF IInv, FinalizersExclude
    <3>2. arg[q] # arg[p]
      BY <1>1, <3>1, BlobAssumption
    <3> QED
      BY <1>1, <1>5, <3>1, <3>2
  <2> QED
    BY <2>1, <2>2
<1>10. PinsHold'
  BY <1>1, <1>6 DEF IInv, PinsHold
<1>11. RefsAreWhole'
  BY <1>1 DEF IInv, RefsAreWhole
<1> QED
  BY <1>7, <1>8, <1>9, <1>10, <1>11 DEF IInv
-----------------------------------------------------------------------------
(***************************************************************************)
(* PrepareRef pins a tree that it has found whole, or ends the call.       *)
(***************************************************************************)
LEMMA PrepareRefIInv ==
  ASSUME IInv, NEW p \in Proc, PrepareRef(p)
  PROVE  IInv'
<1>0. pc[p] = "publish" /\ pc[p] \in Slotted \ {"analyze", "record"}
  BY DEF PrepareRef, At, Slotted
<1>1. TypeOK /\ pc[p] # "idle" /\ pc[p] \in Finalizing /\ arg[p] \in Digest /\ meta[p] \in Meta
  BY <1>0, Within
<1>2. UNCHANGED <<refs, objects, holder, arg, meta>>
  BY DEF PrepareRef
<1>3. CASE Ends(p, "error") /\ (Fault \/ UNCHANGED faults) /\ UNCHANGED pins
  <2>1. PlaceOK' /\ pc' = [pc EXCEPT ![p] = "return"] /\ faults' \in 0..MaxFaults
    BY <1>1, <1>3, EndsOK, FaultOK
  <2>2. TypeOK'
    BY <1>1, <1>3, <2>1 DEF TypeOK, PlaceOK, PrepareRef, Config, tableVars
  <2> QED
    BY <1>1, <1>2, <1>3, <2>1, <2>2, OutIInv
<1>4. CASE /\ Tree(arg[p], meta[p]) \subseteq objects
           /\ pins' = [pins EXCEPT ![p] = Tree(arg[p], meta[p])]
           /\ Goto(p, "refput") /\ UNCHANGED faults
  <2>1. "refput" \in Places
    BY DEF Places, Slotted
  <2>2. PlaceOK' /\ pc' = [pc EXCEPT ![p] = "refput"]
    BY <1>1, <1>4, <2>1, GotoOK
  <2>3. pc \in [Proc -> Places] /\ pins \in [Proc -> SUBSET Obj]
    BY <1>1 DEF TypeOK
  <2>4. pins' \in [Proc -> SUBSET Obj]
    BY <1>1, <1>4, <2>3, TreeObj
  <2>5. TypeOK'
    BY <1>1, <1>4, <2>2, <2>4 DEF TypeOK, PlaceOK, PrepareRef, Config, tableVars
  <2>6. CallsHaveArguments'
    BY <1>1, <1>2, <2>2, <2>3 DEF IInv, CallsHaveArguments
  <2>7. FinalizersExclude'
    BY <1>1, <1>2, <2>2, <2>3 DEF IInv, FinalizersExclude
  <2>8. PinsHold'
    <3>1. \A q \in Proc : q # p => pins'[q] = pins[q] /\ pc'[q] = pc[q]
      BY <1>4, <2>2, <2>3
    <3>2. pins'[p] = Tree(arg[p], meta[p])
      BY <1>4, <2>3
    <3> QED
      BY <1>2, <1>4, <3>1, <3>2 DEF IInv, PinsHold
  <2>9. RefsAreWhole'
    BY <1>2 DEF IInv, RefsAreWhole
  <2> QED
    BY <2>5, <2>6, <2>7, <2>8, <2>9 DEF IInv
<1> QED
  BY <1>3, <1>4 DEF PrepareRef

(***************************************************************************)
(* The reference is put over a tree that is pinned, for a digest nobody    *)
(* else is finalizing.                                                     *)
(***************************************************************************)
LEMMA PutRefIInv ==
  ASSUME IInv, NEW p \in Proc, PutRef(p)
  PROVE  IInv'
<1>0. pc[p] = "refput" /\ pc[p] \in Slotted \ {"analyze", "record"}
  BY DEF PutRef, At, Slotted
<1>1. TypeOK /\ pc[p] # "idle" /\ pc[p] \in Finalizing /\ arg[p] \in Digest /\ meta[p] \in Meta
  BY <1>0, Within
<1>2. UNCHANGED <<objects, holder, arg, meta>> /\ pins' = [pins EXCEPT ![p] = {}]
  BY DEF PutRef
<1>3. /\ PlaceOK' /\ faults' \in 0..MaxFaults
      /\ \E w \in {"record", "return"} : pc' = [pc EXCEPT ![p] = w]
  <2>1. "record" \in Places
    BY DEF Places, Slotted
  <2>2. CASE Goto(p, "record") /\ UNCHANGED faults
    BY <1>1, <2>1, <2>2, GotoOK, FaultOK
  <2>3. CASE Ends(p, "error") /\ Fault
    BY <1>1, <2>3, EndsOK, FaultOK
  <2> QED
    BY <2>2, <2>3 DEF PutRef
<1>4. PICK w \in {"record", "return"} : pc' = [pc EXCEPT ![p] = w]
  BY <1>3
<1>5. /\ w \notin Finalizing /\ w # "refput" /\ w # "idle"
      /\ w \notin Slotted \ {"analyze", "record"}
  BY DEF Finalizing, Slotted
<1>6. refs' = refs \/ refs' = [refs EXCEPT ![arg[p]] = meta[p]]
  BY DEF PutRef
<1>7. /\ pc \in [Proc -> Places] /\ pins \in [Proc -> SUBSET Obj]
      /\ refs \in [Digest -> Meta \cup {None}]
  BY <1>1 DEF TypeOK
<1>8. /\ pc'[p] = w /\ pins'[p] = {}
      /\ \A q \in Proc : q # p => pc'[q] = pc[q] /\ pins'[q] = pins[q]
  BY <1>2, <1>4, <1>7
<1>9. TypeOK'
  <2>1. refs' \in [Digest -> Meta \cup {None}] /\ pins' \in [Proc -> SUBSET Obj]
    BY <1>1, <1>2, <1>6, <1>7
  <2> QED
    BY <1>1, <1>3, <2>1 DEF TypeOK, PlaceOK, PutRef, Config, tableVars
<1>10. CallsHaveArguments'
  BY <1>1, <1>2, <1>5, <1>8 DEF IInv, CallsHaveArguments
<1>11. FinalizersExclude'
  <2> SUFFICES ASSUME NEW q \in Proc, pc'[q] \in Finalizing
               PROVE  holder[arg[q]] = q /\ refs'[arg[q]] = None
    BY <1>2 DEF FinalizersExclude
  <2>1. q # p /\ pc[q] \in Finalizing
    BY <1>5, <1>8
  <2>2. holder[arg[q]] = q /\ refs[arg[q]] = None /\ holder[arg[p]] = p
    BY <1>1, <2>1 DEF IInv, FinalizersExclude
  <2>3. arg[q] # arg[p]
    BY <2>1, <2>2
  <2>4. arg[q] \in Digest
    BY <2>1, FinalizerArg
  <2> QED
    BY <1>1, <1>6, <1>7, <2>2, <2>3, <2>4
<1>12. PinsHold'
  BY <1>2, <1>5, <1>8 DEF IInv, PinsHold
<1>13. RefsAreWhole'
  <2>1. Tree(arg[p], meta[p]) \subseteq objects
    BY <1>0 DEF IInv, PinsHold
  <2>2. \A d \in Digest : refs'[d] = refs[d] \/ (d = arg[p] /\ refs'[d] = meta[p])
    BY <1>1, <1>6, <1>7
  <2> QED
    BY <1>2, <2>1, <2>2 DEF IInv, RefsAreWhole
<1> QED
  BY <1>9, <1>10, <1>11, <1>12, <1>13 DEF IInv

(***************************************************************************)
(* Delete has the lock when it takes the reference away.                   *)
(***************************************************************************)
LEMMA DeleteIInv ==
  ASSUME IInv, NEW p \in Proc, Delete(p)
  PROVE  IInv'
<1>1. /\ TypeOK /\ pc[p] = "delete" /\ arg[p] \in Digest /\ holder[arg[p]] = None
      /\ holder' = [holder EXCEPT ![arg[p]] = p]
      /\ UNCHANGED <<objects, pins, arg, meta>>
  BY DEF IInv, CallsHaveArguments, Delete, At
<1>2. "return" \notin Slotted /\ "return" \notin Finalizing /\ "refput" \in Slotted
  BY DEF Slotted, Finalizing
<1>3. PlaceOK' /\ pc' = [pc EXCEPT ![p] = "return"] /\ faults' \in 0..MaxFaults
  BY <1>1, EndsOK, FaultOK DEF Delete
<1>4. /\ pc \in [Proc -> Places] /\ holder \in [Digest -> Proc \cup {None}]
      /\ refs \in [Digest -> Meta \cup {None}]
  BY <1>1 DEF TypeOK
<1>5. pc'[p] = "return" /\ \A q \in Proc : q # p => pc'[q] = pc[q]
  BY <1>3, <1>4
<1>6. refs' = refs \/ refs' = [refs EXCEPT ![arg[p]] = None]
  BY DEF Delete
<1>7. TypeOK'
  <2>1. refs' \in [Digest -> Meta \cup {None}] /\ holder' \in [Digest -> Proc \cup {None}]
    BY <1>1, <1>4, <1>6
  <2> QED
    BY <1>1, <1>3, <2>1 DEF TypeOK, PlaceOK, Delete, Config, tableVars
<1>8. CallsHaveArguments'
  BY <1>1, <1>2, <1>5 DEF IInv, CallsHaveArguments
<1>9. FinalizersExclude'
  <2> SUFFICES ASSUME NEW q \in Proc, pc'[q] \in Finalizing
               PROVE  holder'[arg[q]] = q /\ refs'[arg[q]] = None
    BY <1>1 DEF FinalizersExclude
  <2>1. q # p /\ holder[arg[q]] = q /\ refs[arg[q]] = None
    BY <1>2, <1>5 DEF IInv, FinalizersExclude
  <2>2. arg[q] # arg[p]
    BY <1>1, <2>1, BlobAssumption
  <2>3. arg[q] \in Digest
    BY <1>5, <2>1, FinalizerArg
  <2> QED
    BY <1>1, <1>4, <1>6, <2>1, <2>2, <2>3
<1>10. PinsHold'
  BY <1>1, <1>5 DEF IInv, PinsHold
<1>11. RefsAreWhole'
  <2>1. \A d \in Digest : refs'[d] = refs[d] \/ refs'[d] = None
    BY <1>1, <1>4, <1>6
  <2> QED
    BY <1>1, <2>1 DEF IInv, RefsAreWhole
<1> QED
  BY <1>7, <1>8, <1>9, <1>10, <1>11 DEF IInv

(***************************************************************************)
(* A call that returns gives back only what it holds itself.               *)
(***************************************************************************)
LEMMA ReturnIInv ==
  ASSUME IInv, NEW p \in Proc, Return(p)
  PROVE  IInv'
<1>1. /\ TypeOK /\ pc[p] = "return"
      /\ holder' = [d \in Digest |-> IF holder[d] = p THEN None ELSE holder[d]]
      /\ pc' = [pc EXCEPT ![p] = "idle"] /\ result' = [result EXCEPT ![p] = "none"]
      /\ op' = [op EXCEPT ![p] = None]
      /\ arg' = [arg EXCEPT ![p] = None] /\ meta' = [meta EXCEPT ![p] = None]
      /\ UNCHANGED <<refs, objects, pins>>
  BY DEF IInv, Return, At, storeVars
<1>2. "idle" \in Places /\ "idle" \notin Slotted /\ "idle" \notin Finalizing /\ "idle" # "refput"
  BY Outside
<1>3. /\ pc \in [Proc -> Places] /\ arg \in [Proc -> Digest \cup {None}]
      /\ meta \in [Proc -> Meta \cup {None}] /\ holder \in [Digest -> Proc \cup {None}]
      /\ op \in [Proc -> {"put", "delete", "reuse", None}]
      /\ result \in [Proc -> {"none", "ok", "error", "refused"}]
  BY <1>1 DEF TypeOK
<1>4. /\ pc'[p] = "idle"
      /\ \A q \in Proc : q # p => pc'[q] = pc[q] /\ arg'[q] = arg[q] /\ meta'[q] = meta[q]
  BY <1>1, <1>3
<1>5. TypeOK'
  <2>1. /\ pc' \in [Proc -> Places] /\ arg' \in [Proc -> Digest \cup {None}]
        /\ meta' \in [Proc -> Meta \cup {None}] /\ holder' \in [Digest -> Proc \cup {None}]
        /\ op' \in [Proc -> {"put", "delete", "reuse", None}]
        /\ result' \in [Proc -> {"none", "ok", "error", "refused"}]
    BY <1>1, <1>2, <1>3
  <2> QED
    BY <1>1, <2>1 DEF TypeOK, Return, Config, storeVars, tableVars
<1>6. CallsHaveArguments'
  BY <1>2, <1>4 DEF IInv, CallsHaveArguments
<1>7. FinalizersExclude'
  <2> SUFFICES ASSUME NEW q \in Proc, pc'[q] \in Finalizing
               PROVE  holder'[arg'[q]] = q /\ refs[arg'[q]] = None
    BY <1>1 DEF FinalizersExclude
  <2>1. q # p /\ pc[q] \in Finalizing /\ arg'[q] = arg[q]
    BY <1>2, <1>4
  <2>2. holder[arg[q]] = q /\ refs[arg[q]] = None /\ arg[q] \in Digest
    BY <2>1, FinalizerArg DEF IInv, FinalizersExclude
  <2> QED
    BY <1>1, <2>1, <2>2
<1>8. PinsHold'
  BY <1>1, <1>2, <1>4 DEF IInv, PinsHold
<1>9. RefsAreWhole'
  BY <1>1 DEF IInv, RefsAreWhole
<1> QED
  BY <1>5, <1>6, <1>7, <1>8, <1>9 DEF IInv

(***************************************************************************)
(* The collector takes nothing that a reference reaches or a publication   *)
(* has pinned.                                                             *)
(***************************************************************************)
LEMMA CollectIInv ==
  ASSUME IInv, NEW o \in Obj, Collect(o)
  PROVE  IInv'
<1>1. /\ TypeOK /\ objects' = objects \ {o} /\ o \notin Reachable
      /\ \A p \in Proc : o \notin pins[p]
      /\ UNCHANGED <<refs, pins, holder, pc, arg, meta>>
  BY DEF IInv, Collect, procVars
<1>2. TypeOK'
  BY <1>1 DEF TypeOK, Collect, Config, tableVars, procVars
<1>3. CallsHaveArguments' /\ FinalizersExclude'
  BY <1>1 DEF IInv, CallsHaveArguments, FinalizersExclude
<1>4. PinsHold'
  BY <1>1 DEF IInv, PinsHold
<1>5. RefsAreWhole'
  <2>1. \A d \in Digest : refs[d] # None => o \notin Tree(d, refs[d])
    BY <1>1 DEF Reachable
  <2> QED
    BY <1>1, <2>1 DEF IInv, RefsAreWhole
<1> QED
  BY <1>2, <1>3, <1>4, <1>5 DEF IInv

(***************************************************************************)
(* After a restart the references and the objects are as they were.        *)
(***************************************************************************)
LEMMA CrashIInv ==
  ASSUME IInv, Crash
  PROVE  IInv'
<1>1. TypeOK
  BY DEF IInv
<1>2. "idle" \in Places /\ "idle" \notin Slotted /\ "idle" \notin Finalizing /\ "idle" # "refput"
  BY Outside
<1>3. /\ UNCHANGED <<refs, objects>> /\ faults' \in 0..MaxFaults
      /\ pins' = [p \in Proc |-> {}] /\ pc' = [p \in Proc |-> "idle"]
      /\ pack' \in [Proc -> Pack]
  BY <1>1, FaultOK, NoPackOK DEF Crash
<1>4. TypeOK'
  BY <1>1, <1>2, <1>3 DEF TypeOK, Crash, Config, Pack
<1>5. CallsHaveArguments' /\ FinalizersExclude' /\ PinsHold'
  BY <1>2, <1>3 DEF CallsHaveArguments, FinalizersExclude, PinsHold
<1>6. RefsAreWhole'
  BY <1>3 DEF IInv, RefsAreWhole
<1> QED
  BY <1>4, <1>5, <1>6 DEF IInv
-----------------------------------------------------------------------------
(***************************************************************************)
(* Every step keeps the invariant.                                         *)
(***************************************************************************)
LEMMA NextIInv == IInv /\ [Next]_vars => IInv'
<1> SUFFICES ASSUME IInv, [Next]_vars PROVE IInv'
  OBVIOUS
<1>1. ASSUME NEW p \in Proc, Step(p) PROVE IInv'
  BY <1>1, analyzeIInv, NewPackWriterIInv, stageIInv, ConfirmIInv, commitIInv, VerifyIInv,
     ingestRawIInv, writeRootIInv, PrepareRefIInv, PutRefIInv, EndingIInv, ReturnIInv DEF Step
<1>2. ASSUME NEW p \in Proc,
             \/ \E name \in {"put", "delete", "reuse"}, d \in Digest : Call(p, name, d)
             \/ LockDigest(p) \/ TakeSlot(p) \/ SlotCancelled(p) \/ Delete(p)
      PROVE  IInv'
  BY <1>2, CallIInv, LockDigestIInv, SlotIInv, DeleteIInv
<1> QED
  BY <1>1, <1>2, AsideIInv, CollectIInv, CrashIInv DEF Next

(***************************************************************************)
(* The inductive invariant of blob.Store.                                  *)
(***************************************************************************)
THEOREM Invariant == Spec => []IInv
BY InitIInv, NextIInv, PTL DEF Spec

(***************************************************************************)
(* Whatever is published is whole, at every moment, with any number of     *)
(* goroutines finalizing and deleting blobs that share objects, any        *)
(* failure, any crash and a collector that runs at will.                   *)
(***************************************************************************)
THEOREM PublishedIsWhole == Spec => []RefsAreWhole
<1>1. IInv => RefsAreWhole
  BY DEF IInv
<1> QED
  BY <1>1, Invariant, PTL

(***************************************************************************)
(* The reference of a blob that is there is never pointed at another root. *)
(***************************************************************************)
THEOREM PublishedStays == Spec => NeverOverwritten
<1>1. ASSUME IInv, [Next]_vars
      PROVE  [\A d \in Digest : refs[d] # None => refs'[d] \in {refs[d], None}]_vars
  <2> SUFFICES ASSUME NEW d \in Digest, Next, refs[d] # None
               PROVE  refs'[d] \in {refs[d], None}
    BY <1>1
  <2>1. refs \in [Digest -> Meta \cup {None}]
    BY <1>1 DEF IInv, TypeOK
  <2>2. ASSUME NEW p \in Proc, PutRef(p) PROVE refs'[d] \in {refs[d], None}
    <3>1. pc[p] \in Finalizing
      BY <2>2 DEF PutRef, At, Finalizing, Slotted
    <3>2. arg[p] # d
      BY <1>1, <3>1 DEF IInv, FinalizersExclude
    <3> QED
      BY <2>1, <2>2, <3>2 DEF PutRef
  <2>3. ASSUME NEW p \in Proc, Delete(p) PROVE refs'[d] \in {refs[d], None}
    BY <2>1, <2>3 DEF Delete
  <2>4. ASSUME NEW p \in Proc, Step(p), ~PutRef(p) PROVE UNCHANGED refs
    BY <2>4 DEF Step, analyze, NewPackWriter, stage, Confirm, commit, Verify, ingestRaw, writeRoot,
       PrepareRef, Record, RemoveSpool, Reuse, ReuseHit, Return, storeVars
  <2>5. ASSUME NEW p \in Proc,
               \/ \E name \in {"put", "delete", "reuse"}, e \in Digest : Call(p, name, e)
               \/ Cancel(p) \/ LockDigest(p) \/ TakeSlot(p) \/ SlotCancelled(p)
        PROVE  UNCHANGED refs
    BY <2>5 DEF Call, Cancel, LockDigest, TakeSlot, SlotCancelled, storeVars
  <2>6. ASSUME \/ \E e \in Digest : TakeRecent(e) \/ purgeRecent(e)
               \/ \E o \in Obj : Collect(o)
               \/ Crash
        PROVE  UNCHANGED refs
    BY <2>6 DEF TakeRecent, purgeRecent, Collect, Crash, storeVars
  <2> QED
    BY <2>2, <2>3, <2>4, <2>5, <2>6 DEF Next
<1> QED
  BY <1>1, Invariant, PTL DEF Spec, NeverOverwritten
-----------------------------------------------------------------------------
(***************************************************************************)
(* What a call has come to, and what it holds, at each of its places.      *)
(* StoredAsAllowed, PathsOut, ChargedOnce and the refinement of BlobMap    *)
(* rest on it.                                                             *)
(***************************************************************************)
PutPlaces == Slotted \cup {"put", "slot", "hit", "unspool"}
PrismPlaces == {"pack", "stage", "confirm", "commit", "verify"}

OpHere(p) ==
  /\ pc[p] = "idle" => op[p] = None
  /\ pc[p] \in PutPlaces => op[p] = "put"
  /\ pc[p] = "delete" => op[p] = "delete"
  /\ pc[p] \in {"reuse", "reused"} => op[p] = "reuse"

RawAllowed(p) ==
  /\ meta[p].kind = "raw"
  /\ opts.allowRaw \/ (meta[p].reason = "not-tar" /\ nature[arg[p]] = "not-tar")

PrismGood(p) ==
  /\ meta[p] = Prism
  /\ nature[arg[p]] = "prism" \/ (nature[arg[p]] = "unfaithful" /\ ~opts.verify)

Decided(p) ==
  /\ pc[p] \in PrismPlaces =>
       meta[p] = Prism /\ nature[arg[p]] \in {"unconfirmed", "undecomposable", "unfaithful", "prism"}
  /\ pc[p] = "confirm" /\ pack[p].err = "none" => nature[arg[p]] # "undecomposable"
  /\ pc[p] \in {"commit", "verify"} => nature[arg[p]] \in {"unfaithful", "prism"}
  /\ pc[p] = "raw" => RawAllowed(p)
  /\ pc[p] \in {"root", "publish", "refput"} => RawAllowed(p) \/ PrismGood(p)

Keeps(p) ==
  /\ pack[p].open => pc[p] \in {"stage", "confirm", "commit", "verify"}
  /\ pc[p] \in Slotted => p \in slots
  /\ p \in slots => pc[p] \in Slotted \cup {"unspool", "return"}
  /\ p \in tmp => p \in slots
  /\ pc[p] \in Unlocked => \A d \in Digest : holder[d] # p
  /\ op[p] = "put" /\ p \notin spool => pc[p] = "return" /\ result[p] = "ok"

CallOK(p) == OpHere(p) /\ Decided(p) /\ Keeps(p)

SlotsBound == Cardinality(slots) <= Slots

JInv == StoredAsAllowed /\ ChargedOnce /\ SlotsBound /\ \A p \in Proc : CallOK(p)

\* A step of p leaves the other calls alone; it may give locks back.
Aside(p) ==
  /\ UNCHANGED <<opts, nature>>
  /\ \A q \in Proc \ {p} :
       /\ pc'[q] = pc[q] /\ op'[q] = op[q] /\ arg'[q] = arg[q] /\ meta'[q] = meta[q]
       /\ pack'[q] = pack[q] /\ result'[q] = result[q]
       /\ q \in slots' <=> q \in slots
       /\ q \in tmp' <=> q \in tmp
       /\ q \in spool' <=> q \in spool
       /\ \A d \in Digest : holder'[d] = q => holder[d] = q

(***************************************************************************)
(* What the other calls have come to survives a step of p.                 *)
(***************************************************************************)
LEMMA OthersCallOK ==
  ASSUME JInv, NEW p \in Proc, Aside(p), NEW q \in Proc, q # p
  PROVE  CallOK(q)'
<1>1. CallOK(q)
  BY DEF JInv
<1>2. /\ UNCHANGED <<opts, nature>>
      /\ pc'[q] = pc[q] /\ op'[q] = op[q] /\ arg'[q] = arg[q] /\ meta'[q] = meta[q]
      /\ pack'[q] = pack[q] /\ result'[q] = result[q]
      /\ q \in slots' <=> q \in slots
      /\ q \in tmp' <=> q \in tmp
      /\ q \in spool' <=> q \in spool
      /\ \A d \in Digest : holder'[d] = q => holder[d] = q
  BY DEF Aside
<1>3. OpHere(q)'
  BY <1>1, <1>2 DEF CallOK, OpHere
<1>4. Decided(q)'
  BY <1>1, <1>2 DEF CallOK, Decided, RawAllowed, PrismGood
<1>5. Keeps(q)'
  BY <1>1, <1>2 DEF CallOK, Keeps
<1> QED
  BY <1>3, <1>4, <1>5 DEF CallOK

(***************************************************************************)
(* There are never more slots taken after giving some back.                *)
(***************************************************************************)
LEMMA SlotsBoundOK ==
  ASSUME TypeOK, SlotsBound, slots' \subseteq slots
  PROVE  SlotsBound'
<1>1. IsFiniteSet(slots)
  BY BlobAssumption, FS_Subset DEF TypeOK
<1>2. Cardinality(slots') \in Nat /\ Cardinality(slots) \in Nat /\ Cardinality(slots') <= Cardinality(slots)
  BY <1>1, FS_Subset, FS_CardinalityType
<1> QED
  BY <1>2, BlobAssumption DEF SlotsBound

(***************************************************************************)
(* A step of p that leaves the references and the table of recent uploads  *)
(* alone.                                                                  *)
(***************************************************************************)
LEMMA StepJ ==
  ASSUME TypeOK, JInv, NEW p \in Proc, Aside(p), CallOK(p)', UNCHANGED <<refs, tableVars>>, slots' \subseteq slots
  PROVE  JInv'
<1>1. \A q \in Proc : CallOK(q)'
  BY OthersCallOK
<1>2. SlotsBound'
  BY SlotsBoundOK DEF JInv
<1>3. StoredAsAllowed'
  BY DEF JInv, StoredAsAllowed, RawNeedsConsent, PrismsReproduce, Aside
<1>4. ChargedOnce'
  BY DEF JInv, ChargedOnce, tableVars
<1> QED
  BY <1>1, <1>2, <1>3, <1>4 DEF JInv

(***************************************************************************)
(* A step of a finalization from one place to the next, or out.            *)
(***************************************************************************)
LEMMA FinalCalls ==
  ASSUME TypeOK, JInv, NEW p \in Proc, pc[p] \in Slotted, NEW w \in Slotted \cup {"return"},
         pc' = [pc EXCEPT ![p] = w],
         UNCHANGED <<opts, nature, holder, slots, op, arg, spool>>,
         tmp' = tmp \/ tmp' = tmp \cup {p},
         \A q \in Proc \ {p} : meta'[q] = meta[q] /\ pack'[q] = pack[q] /\ result'[q] = result[q],
         Decided(p)', pack'[p].open => w \in {"stage", "confirm", "commit", "verify"}
  PROVE  Aside(p) /\ CallOK(p)'
<1>1. pc'[p] = w /\ \A q \in Proc \ {p} : pc'[q] = pc[q]
  BY DEF TypeOK
<1>2. Aside(p)
  BY <1>1 DEF Aside
<1>3. OpHere(p) /\ Keeps(p) /\ op[p] = "put" /\ p \in slots
  BY DEF JInv, CallOK, OpHere, Keeps, PutPlaces
<1>4. pc[p] # "return" /\ w # "idle" /\ w # "delete" /\ w \notin {"reuse", "reused"} /\ w \notin Unlocked
  BY DEF Slotted, Unlocked
<1>5. OpHere(p)'
  BY <1>1, <1>3, <1>4 DEF OpHere
<1>6. Keeps(p)'
  BY <1>1, <1>3, <1>4 DEF Keeps
<1> QED
  BY <1>2, <1>5, <1>6 DEF CallOK

(***************************************************************************)
(* See FinalCalls.                                                         *)
(***************************************************************************)
LEMMA FinalStep ==
  ASSUME TypeOK, JInv, NEW p \in Proc, pc[p] \in Slotted, NEW w \in Slotted \cup {"return"},
         pc' = [pc EXCEPT ![p] = w],
         UNCHANGED <<opts, nature, refs, tableVars, holder, slots, op, arg, spool>>,
         tmp' = tmp \/ tmp' = tmp \cup {p},
         \A q \in Proc \ {p} : meta'[q] = meta[q] /\ pack'[q] = pack[q] /\ result'[q] = result[q],
         Decided(p)', pack'[p].open => w \in {"stage", "confirm", "commit", "verify"}
  PROVE  JInv'
  BY FinalCalls, StepJ

(***************************************************************************)
(* A finalization that ends has nothing more to decide.                    *)
(***************************************************************************)
LEMMA NothingDecided ==
  ASSUME NEW p \in Proc, pc'[p] \in {"idle", "put", "delete", "reuse", "reused", "slot", "hit", "analyze", "record", "unspool", "return"}
  PROVE  Decided(p)'
  BY DEF Decided, PrismPlaces

(***************************************************************************)
(* A finalization that ends with an error and no pack.                     *)
(***************************************************************************)
LEMMA FinalEnds ==
  ASSUME TypeOK, JInv, NEW p \in Proc, pc[p] \in Slotted, NEW r \in {"ok", "error", "refused"}, Ends(p, r),
         UNCHANGED <<opts, nature, refs, tableVars, holder, slots, op, arg, spool, tmp>>,
         \A q \in Proc \ {p} : meta'[q] = meta[q] /\ pack'[q] = pack[q],
         ~pack'[p].open
  PROVE  JInv'
<1>1. pc' = [pc EXCEPT ![p] = "return"] /\ pc'[p] = "return" /\ \A q \in Proc \ {p} : result'[q] = result[q]
  BY DEF TypeOK, Ends
<1>2. Decided(p)'
  BY <1>1, NothingDecided
<1> QED
  BY <1>1, <1>2, FinalStep

(***************************************************************************)
(* What refuseRaw stores as raw is allowed, if the reason is true.         *)
(***************************************************************************)
LEMMA RefuseRaw ==
  ASSUME TypeOK, JInv, NEW p \in Proc, pc[p] \in Slotted, NEW r \in Reasons, refuseRaw(p, r),
         r = "not-tar" => nature[arg[p]] = "not-tar",
         UNCHANGED <<opts, nature, refs, tableVars, holder, slots, op, arg, spool, tmp>>,
         \A q \in Proc \ {p} : pack'[q] = pack[q],
         ~pack'[p].open
  PROVE  JInv'
<1>1. CASE (r = "not-tar" \/ opts.allowRaw) /\ Become(p, Raw(r)) /\ Goto(p, "raw")
  <2>1. pc' = [pc EXCEPT ![p] = "raw"] /\ pc'[p] = "raw" /\ UNCHANGED result /\ "raw" \in Slotted
    BY <1>1 DEF TypeOK, Goto, Slotted
  <2>2. meta'[p] = Raw(r) /\ \A q \in Proc \ {p} : meta'[q] = meta[q]
    BY <1>1 DEF TypeOK, Become
  <2>3. Raw(r).kind = "raw" /\ Raw(r).reason = r
    BY DEF Raw
  <2>4. RawAllowed(p)'
    BY <1>1, <2>2, <2>3 DEF RawAllowed
  <2>5. Decided(p)'
    BY <2>1, <2>4 DEF Decided, PrismPlaces
  <2> QED
    BY <2>1, <2>2, <2>5, FinalStep
<1>2. CASE Ends(p, "refused") /\ UNCHANGED meta
  BY <1>2, FinalEnds
<1> QED
  BY <1>1, <1>2 DEF refuseRaw

-----------------------------------------------------------------------------
(***************************************************************************)
(* What is known of a finalization at its places.                          *)
(***************************************************************************)
LEMMA FinalFacts ==
  ASSUME IInv, JInv, NEW p \in Proc, pc[p] \in Slotted
  PROVE  /\ TypeOK /\ arg[p] \in Digest /\ Decided(p) /\ Keeps(p)
         /\ nature[arg[p]] \in AllNatures /\ pack[p] \in Pack
<1>1. arg[p] \in Digest
  BY DEF IInv, CallsHaveArguments, Slotted
<1> QED
  BY <1>1 DEF IInv, JInv, CallOK, TypeOK, Pack

(***************************************************************************)
(* analyze decides by what the blob is.                                    *)
(***************************************************************************)
LEMMA analyzeJ ==
  ASSUME IInv, JInv, NEW p \in Proc, analyze(p)
  PROVE  JInv'
<1>1. pc[p] = "analyze" /\ pc[p] \in Slotted
  BY DEF analyze, At, Slotted
<1>2. TypeOK /\ arg[p] \in Digest /\ Keeps(p) /\ ~pack[p].open
  BY <1>1, FinalFacts DEF Keeps
<1>3. UNCHANGED <<opts, nature, refs, tableVars, holder, slots, op, arg, spool, pack>>
  BY DEF analyze, Config, storeVars
<1>4. CASE Breaks(p) /\ UNCHANGED <<meta, tmp>>
  BY <1>1, <1>2, <1>3, <1>4, FinalEnds DEF Breaks
<1>5. ASSUME NEW r \in Reasons, refuseRaw(p, r), r = "not-tar" => nature[arg[p]] = "not-tar", UNCHANGED tmp
      PROVE  JInv'
  BY <1>1, <1>2, <1>3, <1>5, RefuseRaw
<1>6. CASE nature[arg[p]] \in {"unconfirmed", "undecomposable", "unfaithful", "prism"} /\ tmp' = tmp \cup {p} /\ Become(p, Prism) /\ Goto(p, "pack")
  <2>1. pc' = [pc EXCEPT ![p] = "pack"] /\ pc'[p] = "pack" /\ UNCHANGED result /\ "pack" \in Slotted
    BY <1>2, <1>6 DEF TypeOK, Goto, Slotted
  <2>2. meta'[p] = Prism /\ \A q \in Proc \ {p} : meta'[q] = meta[q]
    BY <1>2, <1>6 DEF TypeOK, Become
  <2>3. Decided(p)'
    BY <1>3, <1>6, <2>1, <2>2 DEF Decided
  <2> QED
    BY <1>1, <1>2, <1>3, <1>6, <2>1, <2>2, <2>3, FinalStep
<1> QED
  BY <1>4, <1>5, <1>6 DEF analyze, Reasons

(***************************************************************************)
(* NewPackWriter opens the pack or fails.                                  *)
(***************************************************************************)
LEMMA NewPackWriterJ ==
  ASSUME IInv, JInv, NEW p \in Proc, NewPackWriter(p)
  PROVE  JInv'
<1>1. pc[p] = "pack" /\ pc[p] \in Slotted
  BY DEF NewPackWriter, At, Slotted
<1>2. TypeOK /\ arg[p] \in Digest /\ Decided(p) /\ ~pack[p].open
  BY <1>1, FinalFacts DEF Keeps
<1>3. UNCHANGED <<opts, nature, refs, tableVars, holder, slots, op, arg, spool, meta, tmp>>
  BY DEF NewPackWriter, Config, storeVars
<1>4. CASE Ends(p, "error") /\ UNCHANGED pack
  BY <1>1, <1>2, <1>3, <1>4, FinalEnds
<1>5. CASE pack' = [pack EXCEPT ![p].open = TRUE] /\ Goto(p, "stage")
  <2>1. pc' = [pc EXCEPT ![p] = "stage"] /\ pc'[p] = "stage" /\ UNCHANGED result /\ "stage" \in Slotted
    BY <1>2, <1>5 DEF TypeOK, Goto, Slotted
  <2>2. \A q \in Proc \ {p} : pack'[q] = pack[q]
    BY <1>2, <1>5 DEF TypeOK
  <2>3. Decided(p)'
    BY <1>1, <1>2, <1>3, <2>1 DEF Decided, PrismPlaces
  <2> QED
    BY <1>1, <1>2, <1>3, <2>1, <2>2, <2>3, FinalStep
<1> QED
  BY <1>4, <1>5 DEF NewPackWriter

(***************************************************************************)
(* The stager reports an archive that tar-prism rejects.                   *)
(***************************************************************************)
LEMMA stageJ ==
  ASSUME IInv, JInv, NEW p \in Proc, stage(p)
  PROVE  JInv'
<1>1. pc[p] = "stage" /\ pc[p] \in Slotted
  BY DEF stage, At, Slotted
<1>2. TypeOK /\ arg[p] \in Digest /\ Decided(p)
  BY <1>1, FinalFacts
<1>3. UNCHANGED <<opts, nature, refs, tableVars, holder, slots, op, arg, spool, meta, tmp>>
  BY DEF stage, Config, storeVars
<1>4. pc' = [pc EXCEPT ![p] = "confirm"] /\ pc'[p] = "confirm" /\ UNCHANGED result /\ "confirm" \in Slotted
  BY <1>2 DEF stage, TypeOK, Goto, Slotted
<1>5. (\A q \in Proc \ {p} : pack'[q] = pack[q]) /\ (pack'[p].err = "none" => nature[arg[p]] # "undecomposable")
  <2>1. CASE nature[arg[p]] # "undecomposable"
    BY <1>2, <2>1 DEF stage, TypeOK
  <2>2. CASE nature[arg[p]] = "undecomposable"
    <3>1. PICK e \in {"decompose", "sink"} : pack' = [pack EXCEPT ![p] = [NoPack EXCEPT !.err = e]]
      BY <2>2 DEF stage
    <3>2. [NoPack EXCEPT !.err = e].err = e
      BY DEF NoPack
    <3> QED
      BY <1>2, <3>1, <3>2 DEF TypeOK
  <2> QED
    BY <2>1, <2>2
<1>6. Decided(p)'
  BY <1>1, <1>2, <1>3, <1>4, <1>5 DEF Decided, PrismPlaces
<1> QED
  BY <1>1, <1>2, <1>3, <1>4, <1>5, <1>6, FinalStep

(***************************************************************************)
(* A released pack is not open.                                            *)
(***************************************************************************)
LEMMA Released ==
  ASSUME TypeOK, NEW p \in Proc, Release(p)
  PROVE  ~pack'[p].open /\ \A q \in Proc \ {p} : pack'[q] = pack[q]
  BY DEF TypeOK, Release, NoPack

(***************************************************************************)
(* Only what Confirm and tar-prism accept goes on to the commit.           *)
(***************************************************************************)
LEMMA ConfirmJ ==
  ASSUME IInv, JInv, NEW p \in Proc, Confirm(p)
  PROVE  JInv'
<1>1. pc[p] = "confirm" /\ pc[p] \in Slotted
  BY DEF Confirm, At, Slotted
<1>2. TypeOK /\ arg[p] \in Digest /\ Decided(p)
  BY <1>1, FinalFacts
<1>3. UNCHANGED <<opts, nature, refs, tableVars, holder, slots, op, arg, spool, tmp>>
  BY DEF Confirm, Config, storeVars
<1>4. ASSUME Release(p), UNCHANGED meta, NEW r \in {"error"}, Ends(p, r)
      PROVE  JInv'
  BY <1>1, <1>2, <1>3, <1>4, Released, FinalEnds
<1>5. ASSUME NEW r \in Reasons, refuseRaw(p, r), r # "not-tar", Release(p)
      PROVE  JInv'
  BY <1>1, <1>2, <1>3, <1>5, Released, RefuseRaw
<1>6. CASE nature[arg[p]] # "unconfirmed" /\ pack[p].err = "none" /\ Goto(p, "commit") /\ UNCHANGED <<meta, pack>>
  <2>1. pc' = [pc EXCEPT ![p] = "commit"] /\ pc'[p] = "commit" /\ UNCHANGED result /\ "commit" \in Slotted
    BY <1>2, <1>6 DEF TypeOK, Goto, Slotted
  <2>2. Decided(p)'
    BY <1>1, <1>2, <1>3, <1>6, <2>1 DEF Decided, PrismPlaces
  <2> QED
    BY <1>1, <1>2, <1>3, <1>6, <2>1, <2>2, FinalStep
<1> QED
  BY <1>4, <1>5, <1>6 DEF Confirm, Breaks, Reasons

(***************************************************************************)
(* A prism goes on to its root from the commit only when the operator asks *)
(* for no check.                                                           *)
(***************************************************************************)
LEMMA commitJ ==
  ASSUME IInv, JInv, NEW p \in Proc, commit(p)
  PROVE  JInv'
<1>1. pc[p] = "commit" /\ pc[p] \in Slotted
  BY DEF commit, At, Slotted
<1>2. TypeOK /\ arg[p] \in Digest /\ Decided(p)
  BY <1>1, FinalFacts
<1>3. UNCHANGED <<opts, nature, refs, tableVars, holder, slots, op, arg, spool, tmp, meta>>
  BY DEF commit, Config
<1>4. ASSUME Release(p), Ends(p, "error")
      PROVE  JInv'
  BY <1>1, <1>2, <1>3, <1>4, Released, FinalEnds
<1>5. CASE opts.verify /\ Goto(p, "verify") /\ UNCHANGED pack
  <2>1. pc' = [pc EXCEPT ![p] = "verify"] /\ pc'[p] = "verify" /\ UNCHANGED result /\ "verify" \in Slotted
    BY <1>2, <1>5 DEF TypeOK, Goto, Slotted
  <2>2. Decided(p)'
    BY <1>1, <1>2, <1>3, <2>1 DEF Decided, PrismPlaces
  <2> QED
    BY <1>1, <1>2, <1>3, <1>5, <2>1, <2>2, FinalStep
<1>6. CASE ~opts.verify /\ Goto(p, "root") /\ Release(p)
  <2>1. pc' = [pc EXCEPT ![p] = "root"] /\ pc'[p] = "root" /\ UNCHANGED result /\ "root" \in Slotted
    BY <1>2, <1>6 DEF TypeOK, Goto, Slotted
  <2>2. PrismGood(p)'
    BY <1>1, <1>2, <1>3, <1>6 DEF Decided, PrismPlaces, PrismGood
  <2>3. Decided(p)'
    BY <2>1, <2>2 DEF Decided, PrismPlaces
  <2> QED
    BY <1>1, <1>2, <1>3, <1>6, <2>1, <2>3, Released, FinalStep
<1> QED
  BY <1>4, <1>5, <1>6 DEF commit, AfterCommit, Breaks

(***************************************************************************)
(* With the check only a faithful prism goes on.                           *)
(***************************************************************************)
LEMMA VerifyJ ==
  ASSUME IInv, JInv, NEW p \in Proc, Verify(p)
  PROVE  JInv'
<1>1. pc[p] = "verify" /\ pc[p] \in Slotted
  BY DEF Verify, At, Slotted
<1>2. TypeOK /\ arg[p] \in Digest /\ Decided(p)
  BY <1>1, FinalFacts
<1>3. UNCHANGED <<opts, nature, refs, tableVars, holder, slots, op, arg, spool, tmp>> /\ Release(p)
  BY DEF Verify, Config, storeVars
<1>4. CASE Ends(p, "error") /\ UNCHANGED meta
  BY <1>1, <1>2, <1>3, <1>4, Released, FinalEnds
<1>5. CASE refuseRaw(p, "roundtrip-failed")
  <2>1. "roundtrip-failed" \in Reasons
    BY DEF Reasons
  <2> QED
    BY <1>1, <1>2, <1>3, <1>5, <2>1, Released, RefuseRaw
<1>6. CASE nature[arg[p]] # "unfaithful" /\ Goto(p, "root") /\ UNCHANGED meta
  <2>1. pc' = [pc EXCEPT ![p] = "root"] /\ pc'[p] = "root" /\ UNCHANGED result /\ "root" \in Slotted
    BY <1>2, <1>6 DEF TypeOK, Goto, Slotted
  <2>2. PrismGood(p)'
    BY <1>1, <1>2, <1>3, <1>6 DEF Decided, PrismPlaces, PrismGood
  <2>3. Decided(p)'
    BY <2>1, <2>2 DEF Decided, PrismPlaces
  <2> QED
    BY <1>1, <1>2, <1>3, <1>6, <2>1, <2>3, Released, FinalStep
<1> QED
  BY <1>4, <1>5, <1>6 DEF Verify, Breaks

(***************************************************************************)
(* From the raw bytes or the root to the publication nothing is decided    *)
(* anew.                                                                   *)
(***************************************************************************)
LEMMA OnwardJ ==
  ASSUME IInv, JInv, NEW p \in Proc, ingestRaw(p) \/ writeRoot(p) \/ PrepareRef(p)
  PROVE  JInv'
<1>1. pc[p] \in {"raw", "root", "publish"} /\ pc[p] \in Slotted
  BY DEF ingestRaw, writeRoot, PrepareRef, At, Slotted
<1>2. TypeOK /\ arg[p] \in Digest /\ Decided(p) /\ ~pack[p].open
  BY <1>1, FinalFacts DEF Keeps
<1>3. UNCHANGED <<opts, nature, refs, tableVars, holder, slots, op, arg, spool, tmp, meta, pack>>
  BY DEF ingestRaw, writeRoot, PrepareRef, Config
<1>4. CASE Ends(p, "error")
  BY <1>1, <1>2, <1>3, <1>4, FinalEnds
<1>5. ASSUME NEW w \in {"root", "publish", "refput"}, Goto(p, w)
      PROVE  JInv'
  <2>1. pc' = [pc EXCEPT ![p] = w] /\ pc'[p] = w /\ UNCHANGED result /\ w \in Slotted
    BY <1>2, <1>5 DEF TypeOK, Goto, Slotted
  <2>2. (RawAllowed(p) \/ PrismGood(p)) => (RawAllowed(p) \/ PrismGood(p))'
    BY <1>3 DEF RawAllowed, PrismGood
  <2>3. RawAllowed(p) \/ PrismGood(p)
    BY <1>1, <1>2 DEF Decided
  <2>4. Decided(p)'
    BY <2>1, <2>2, <2>3 DEF Decided, PrismPlaces
  <2> QED
    BY <1>1, <1>2, <1>3, <2>1, <2>4, FinalStep
<1> QED
  BY <1>4, <1>5 DEF ingestRaw, writeRoot, PrepareRef, Breaks

(***************************************************************************)
(* The reference is put to what was decided.                               *)
(***************************************************************************)
LEMMA PutRefJ ==
  ASSUME IInv, JInv, NEW p \in Proc, PutRef(p)
  PROVE  JInv'
<1>1. pc[p] = "refput" /\ pc[p] \in Slotted
  BY DEF PutRef, At, Slotted
<1>2. TypeOK /\ arg[p] \in Digest /\ Decided(p) /\ ~pack[p].open
  BY <1>1, FinalFacts DEF Keeps
<1>3. UNCHANGED <<opts, nature, tableVars, holder, slots, op, arg, spool, tmp, meta, pack>>
  BY DEF PutRef, Config
<1>4. CASE Ends(p, "error") /\ UNCHANGED refs
  BY <1>1, <1>2, <1>3, <1>4, FinalEnds
<1>5. CASE refs' = [refs EXCEPT ![arg[p]] = meta[p]] /\ Goto(p, "record")
  <2>1. pc' = [pc EXCEPT ![p] = "record"] /\ pc'[p] = "record" /\ UNCHANGED result /\ "record" \in Slotted
    BY <1>2, <1>5 DEF TypeOK, Goto, Slotted
  <2>2. Decided(p)'
    BY <2>1, NothingDecided
  <2>3. Aside(p) /\ CallOK(p)'
    BY <1>1, <1>2, <1>3, <2>1, <2>2, FinalCalls
  <2>4. SlotsBound' /\ ChargedOnce'
    BY <1>3 DEF JInv, SlotsBound, ChargedOnce, tableVars
  <2>5. refs'[arg[p]] = meta[p] /\ \A d \in Digest : d # arg[p] => refs'[d] = refs[d]
    BY <1>2, <1>5 DEF TypeOK
  <2>6. RawAllowed(p) \/ PrismGood(p)
    BY <1>1, <1>2 DEF Decided
  <2>7. Prism.kind = "prism"
    BY DEF Prism
  <2>8. StoredAsAllowed'
    <3>1. RawNeedsConsent /\ PrismsReproduce
      BY DEF JInv, StoredAsAllowed
    <3>2. RawNeedsConsent'
      BY <1>3, <2>5, <2>6, <2>7, <3>1 DEF RawNeedsConsent, RawAllowed, PrismGood
    <3>3. PrismsReproduce'
      BY <1>3, <2>5, <2>6, <2>7, <3>1 DEF PrismsReproduce, RawAllowed, PrismGood
    <3> QED
      BY <3>2, <3>3 DEF StoredAsAllowed
  <2> QED
    BY <2>3, <2>4, <2>8, OthersCallOK DEF JInv
<1> QED
  BY <1>4, <1>5 DEF PutRef

-----------------------------------------------------------------------------
(***************************************************************************)
(* Outside the finalization: p goes from one place to another, and its     *)
(* pack stays closed.                                                      *)
(***************************************************************************)
LEMMA OutStep ==
  ASSUME IInv, JInv, NEW p \in Proc, NEW w \in {"put", "delete", "reuse", "reused", "slot", "hit", "analyze", "unspool", "return"},
         pc' = [pc EXCEPT ![p] = w],
         UNCHANGED <<opts, nature, refs, tableVars, meta, pack>>,
         \A q \in Proc \ {p} : op'[q] = op[q] /\ arg'[q] = arg[q] /\ result'[q] = result[q]
                               /\ (q \in spool' <=> q \in spool) /\ \A d \in Digest : holder'[d] = q => holder[d] = q,
         UNCHANGED <<slots, tmp>>,
         OpHere(p)', Keeps(p)'
  PROVE  JInv'
<1>1. pc'[p] = w /\ (\A q \in Proc \ {p} : pc'[q] = pc[q]) /\ TypeOK
  BY DEF IInv, TypeOK
<1>2. Aside(p)
  BY <1>1 DEF Aside
<1>3. Decided(p)'
  BY <1>1, NothingDecided
<1> QED
  BY <1>1, <1>2, <1>3, StepJ DEF CallOK

(***************************************************************************)
(* A call starts with nothing in its hands.                                *)
(***************************************************************************)
LEMMA CallJ ==
  ASSUME IInv, JInv, NEW p \in Proc, NEW name \in {"put", "delete", "reuse"}, NEW d \in Digest, Call(p, name, d)
  PROVE  JInv'
<1>1. TypeOK /\ pc[p] = "idle" /\ Keeps(p) /\ pc' = [pc EXCEPT ![p] = name] /\ UNCHANGED result
  BY DEF IInv, JInv, CallOK, Call, At, Goto
<1>2. UNCHANGED <<opts, nature, refs, tableVars, meta, pack, holder, slots, tmp>>
  BY DEF Call, Config, storeVars
<1>3. /\ pc'[p] = name /\ op'[p] = name
      /\ \A q \in Proc \ {p} : op'[q] = op[q] /\ arg'[q] = arg[q] /\ (q \in spool' <=> q \in spool)
      /\ name = "put" => p \in spool'
  BY <1>1 DEF Call, TypeOK
<1>4. OpHere(p)'
  BY <1>3 DEF OpHere, PutPlaces, Slotted
<1>5. /\ ~pack[p].open /\ p \notin slots /\ p \notin tmp /\ \A e \in Digest : holder[e] # p
      /\ name \notin Slotted /\ name \in Unlocked
  BY <1>1 DEF Keeps, Unlocked, Slotted
<1>6. Keeps(p)'
  BY <1>2, <1>3, <1>5 DEF Keeps
<1> QED
  BY <1>1, <1>2, <1>3, <1>4, <1>6, OutStep

(***************************************************************************)
(* Where p is and what it returns does not depend on its context.          *)
(***************************************************************************)
LEMMA QuietJ ==
  ASSUME JInv, UNCHANGED <<opts, nature, refs, holder, slots, tableVars, pc, op, arg, meta, pack, tmp, spool, result>>
  PROVE  JInv'
<1>1. StoredAsAllowed' /\ ChargedOnce' /\ SlotsBound'
  BY DEF JInv, StoredAsAllowed, RawNeedsConsent, PrismsReproduce, ChargedOnce, SlotsBound, tableVars
<1>2. ASSUME NEW q \in Proc PROVE CallOK(q)'
  <2>1. CallOK(q)
    BY DEF JInv
  <2> QED
    BY <2>1 DEF CallOK, OpHere, Decided, RawAllowed, PrismGood, Keeps
<1> QED
  BY <1>1, <1>2 DEF JInv

(***************************************************************************)
(* A Put that gets its digest's lock.                                      *)
(***************************************************************************)
LEMMA LockDigestJ ==
  ASSUME IInv, JInv, NEW p \in Proc, LockDigest(p)
  PROVE  JInv'
<1>1. TypeOK /\ pc[p] = "put" /\ Keeps(p) /\ OpHere(p) /\ arg[p] \in Digest
  BY DEF IInv, CallsHaveArguments, JInv, CallOK, LockDigest, At
<1>2. UNCHANGED <<opts, nature, refs, tableVars, meta, pack, slots, tmp, op, arg, spool>>
  BY DEF LockDigest, Config, storeVars
<1>3. \A q \in Proc \ {p}, d \in Digest : holder'[d] = q => holder[d] = q
  BY <1>1 DEF LockDigest, TypeOK
<1>4. PICK w \in {"hit", "slot", "return"} : pc' = [pc EXCEPT ![p] = w] /\ \A q \in Proc \ {p} : result'[q] = result[q]
  BY <1>1 DEF LockDigest, Breaks, Ends, Goto, TypeOK
<1>5. pc'[p] = w /\ op[p] = "put"
  BY <1>1, <1>4 DEF TypeOK, OpHere, PutPlaces
<1>6. OpHere(p)'
  BY <1>2, <1>5 DEF OpHere
<1>7. ~pack[p].open /\ p \notin slots /\ p \notin tmp /\ p \in spool /\ w \notin Slotted /\ w \notin Unlocked
  BY <1>1, <1>5 DEF Keeps, Unlocked, Slotted
<1>8. Keeps(p)'
  BY <1>2, <1>5, <1>7 DEF Keeps
<1> QED
  BY <1>2, <1>3, <1>4, <1>6, <1>8, OutStep

(***************************************************************************)
(* A slot is taken only when one is free.                                  *)
(***************************************************************************)
LEMMA TakeSlotJ ==
  ASSUME IInv, JInv, NEW p \in Proc, TakeSlot(p)
  PROVE  JInv'
<1>1. TypeOK /\ pc[p] = "slot" /\ Keeps(p) /\ OpHere(p) /\ pc' = [pc EXCEPT ![p] = "analyze"] /\ UNCHANGED result
  BY DEF IInv, JInv, CallOK, TakeSlot, At, Goto
<1>2. UNCHANGED <<opts, nature, refs, tableVars, meta, pack, holder, tmp, op, arg, spool>> /\ slots' = slots \cup {p}
  BY DEF TakeSlot, Config, storeVars
<1>3. pc'[p] = "analyze" /\ (\A q \in Proc \ {p} : pc'[q] = pc[q]) /\ op[p] = "put"
  BY <1>1 DEF TypeOK, OpHere, PutPlaces
<1>4. Aside(p)
  BY <1>1, <1>2, <1>3 DEF Aside
<1>5. OpHere(p)'
  BY <1>2, <1>3 DEF OpHere
<1>6. ~pack[p].open /\ p \in spool /\ p \notin slots /\ p \notin tmp /\ "analyze" \in Slotted /\ "analyze" \notin Unlocked
  BY <1>1, <1>3 DEF Keeps, Unlocked, Slotted
<1>7. Keeps(p)'
  BY <1>2, <1>3, <1>6 DEF Keeps
<1>8. Decided(p)'
  BY <1>3, NothingDecided
<1>9. SlotsBound'
  <2>1. IsFiniteSet(slots)
    BY <1>1, BlobAssumption, FS_Subset DEF TypeOK
  <2>2. Cardinality(slots') = Cardinality(slots) + 1 /\ Cardinality(slots) \in Nat
    BY <2>1, <1>2, <1>6, FS_AddElement, FS_CardinalityType
  <2>3. Cardinality(slots) < Slots
    BY DEF TakeSlot
  <2> QED
    BY <2>2, <2>3, BlobAssumption DEF SlotsBound
<1>10. StoredAsAllowed' /\ ChargedOnce'
  BY <1>2 DEF JInv, StoredAsAllowed, RawNeedsConsent, PrismsReproduce, ChargedOnce, tableVars
<1> QED
  BY <1>4, <1>5, <1>7, <1>8, <1>9, <1>10, OthersCallOK DEF JInv, CallOK

(***************************************************************************)
(* A Put that gives up waiting for a slot.                                 *)
(***************************************************************************)
LEMMA SlotCancelledJ ==
  ASSUME IInv, JInv, NEW p \in Proc, SlotCancelled(p)
  PROVE  JInv'
<1>1. TypeOK /\ pc[p] = "slot" /\ Keeps(p) /\ OpHere(p) /\ pc' = [pc EXCEPT ![p] = "return"]
  BY DEF IInv, JInv, CallOK, SlotCancelled, At, Ends
<1>2. UNCHANGED <<opts, nature, refs, tableVars, meta, pack, holder, slots, tmp, op, arg, spool>>
  BY DEF SlotCancelled, Config, storeVars
<1>3. pc'[p] = "return" /\ \A q \in Proc \ {p} : result'[q] = result[q]
  BY <1>1 DEF TypeOK, SlotCancelled, Ends
<1>4. OpHere(p)' /\ op[p] = "put"
  BY <1>1, <1>3 DEF OpHere, PutPlaces, Slotted
<1>5. ~pack[p].open /\ p \notin slots /\ p \notin tmp /\ p \in spool /\ "return" \notin Slotted /\ "return" \notin Unlocked
  BY <1>1, <1>4 DEF Keeps, Unlocked, Slotted
<1>6. Keeps(p)'
  BY <1>2, <1>3, <1>5 DEF Keeps
<1> QED
  BY <1>1, <1>2, <1>3, <1>4, <1>6, OutStep

(***************************************************************************)
(* A row for new bytes comes with the bytes; a row for a dedup hit         *)
(* replaces it.                                                            *)
(***************************************************************************)
LEMMA recordRecentJ ==
  ASSUME TypeOK, ChargedOnce, NEW d \in Digest, NEW row \in {"new", "dedup"}, recordRecent(d, row)
  PROVE  ChargedOnce'
<1> SUFFICES ASSUME NEW e \in Digest
             PROVE  charged'[e] + (IF recent'[e] = "new" THEN 1 ELSE 0) <= minted'[e]
  BY DEF ChargedOnce
<1>1. charged[e] \in Nat /\ minted[e] \in Nat /\ charged'[e] = charged[e]
  BY DEF TypeOK, recordRecent
<1>2. charged[e] + (IF recent[e] = "new" THEN 1 ELSE 0) <= minted[e]
  BY DEF ChargedOnce
<1>3. CASE e = d
  <2>1. recent'[e] = row /\ minted'[e] = minted[e] + (IF row = "new" THEN 1 ELSE 0)
    BY <1>3 DEF TypeOK, recordRecent
  <2> QED
    BY <1>1, <1>2, <2>1
<1>4. CASE e # d
  <2>1. recent'[e] = recent[e] /\ minted'[e] = minted[e]
    BY <1>4 DEF TypeOK, recordRecent
  <2> QED
    BY <1>1, <1>2, <2>1
<1> QED
  BY <1>3, <1>4

(***************************************************************************)
(* Put and Reuse record what they did.                                     *)
(***************************************************************************)
LEMMA RecordJ ==
  ASSUME IInv, JInv, NEW p \in Proc, Record(p) \/ ReuseHit(p)
  PROVE  JInv'
<1>1. TypeOK /\ pc[p] \in {"record", "hit", "reused"} /\ Keeps(p) /\ OpHere(p) /\ arg[p] \in Digest /\ ChargedOnce
  BY DEF IInv, CallsHaveArguments, JInv, CallOK, Record, ReuseHit, At
<1>2. UNCHANGED <<opts, nature, refs, meta, pack, holder, slots, tmp, op, arg, spool>>
  BY DEF Record, ReuseHit, Config, storeVars
<1>3. PICK w \in {"unspool", "return"} :
        /\ pc' = [pc EXCEPT ![p] = w] /\ (\A q \in Proc \ {p} : result'[q] = result[q])
        /\ w = "unspool" => pc[p] \in {"record", "hit"}
        /\ w = "return" => pc[p] = "reused"
  BY <1>1 DEF Record, ReuseHit, At, Goto, Ends, TypeOK
<1>4. pc'[p] = w /\ \A q \in Proc \ {p} : pc'[q] = pc[q]
  BY <1>1, <1>3 DEF TypeOK
<1>5. Aside(p)
  BY <1>2, <1>3, <1>4 DEF Aside
<1>6. w = "unspool" => op[p] = "put"
  BY <1>1, <1>3 DEF OpHere, PutPlaces, Slotted
<1>7. OpHere(p)'
  BY <1>2, <1>4, <1>6 DEF OpHere, PutPlaces, Slotted
<1>8. ~pack[p].open /\ w \notin Slotted /\ w \notin Unlocked
  BY <1>1 DEF Keeps, Unlocked, Slotted
<1>9. op[p] = "put" => p \in spool
  BY <1>1 DEF Keeps
<1>10. Keeps(p)'
  BY <1>1, <1>2, <1>4, <1>8, <1>9 DEF Keeps
<1>11. Decided(p)'
  BY <1>4, NothingDecided
<1>12. SlotsBound' /\ StoredAsAllowed'
  BY <1>2 DEF JInv, StoredAsAllowed, RawNeedsConsent, PrismsReproduce, SlotsBound
<1>13. ChargedOnce'
  BY <1>1, recordRecentJ DEF Record, ReuseHit
<1> QED
  BY <1>5, <1>7, <1>10, <1>11, <1>12, <1>13, OthersCallOK DEF JInv, CallOK

(***************************************************************************)
(* The spool goes with success only.                                       *)
(***************************************************************************)
LEMMA RemoveSpoolJ ==
  ASSUME IInv, JInv, NEW p \in Proc, RemoveSpool(p)
  PROVE  JInv'
<1>1. TypeOK /\ pc[p] = "unspool" /\ Keeps(p) /\ OpHere(p) /\ pc' = [pc EXCEPT ![p] = "return"]
  BY DEF IInv, JInv, CallOK, RemoveSpool, At, Ends
<1>2. UNCHANGED <<opts, nature, refs, tableVars, meta, pack, holder, slots, tmp, op, arg>>
  BY DEF RemoveSpool, Config, storeVars
<1>3. /\ pc'[p] = "return" /\ result'[p] = "ok"
      /\ \A q \in Proc \ {p} : result'[q] = result[q] /\ (q \in spool' <=> q \in spool)
  BY <1>1 DEF TypeOK, RemoveSpool, Ends
<1>4. OpHere(p)'
  BY <1>3 DEF OpHere, PutPlaces, Slotted
<1>5. ~pack[p].open /\ "return" \notin Slotted /\ "return" \notin Unlocked /\ (p \in tmp => p \in slots)
  BY <1>1 DEF Keeps, Unlocked, Slotted
<1>6. Keeps(p)'
  BY <1>2, <1>3, <1>5 DEF Keeps
<1> QED
  BY <1>1, <1>2, <1>3, <1>4, <1>6, OutStep

(***************************************************************************)
(* Reuse looks the blob up and holds nothing.                              *)
(***************************************************************************)
LEMMA ReuseJ ==
  ASSUME IInv, JInv, NEW p \in Proc, Reuse(p)
  PROVE  JInv'
<1>1. TypeOK /\ pc[p] = "reuse" /\ Keeps(p) /\ OpHere(p)
  BY DEF IInv, JInv, CallOK, Reuse, At
<1>2. UNCHANGED <<opts, nature, refs, tableVars, meta, pack, holder, slots, tmp, op, arg, spool>>
  BY DEF Reuse, Config, storeVars
<1>3. PICK w \in {"reused", "return"} : pc' = [pc EXCEPT ![p] = w] /\ \A q \in Proc \ {p} : result'[q] = result[q]
  BY <1>1 DEF Reuse, Ends, Goto, TypeOK
<1>4. pc'[p] = w /\ op[p] = "reuse"
  BY <1>1, <1>3 DEF TypeOK, OpHere
<1>5. OpHere(p)'
  BY <1>2, <1>4 DEF OpHere, PutPlaces, Slotted
<1>6. ~pack[p].open /\ p \notin slots /\ p \notin tmp /\ w \notin Slotted /\ \A d \in Digest : holder[d] # p
  BY <1>1 DEF Keeps, Unlocked, Slotted
<1>7. Keeps(p)'
  BY <1>2, <1>4, <1>6 DEF Keeps
<1> QED
  BY <1>2, <1>3, <1>5, <1>7, OutStep

(***************************************************************************)
(* Delete takes a reference away and stores nothing.                       *)
(***************************************************************************)
LEMMA DeleteJ ==
  ASSUME IInv, JInv, NEW p \in Proc, Delete(p)
  PROVE  JInv'
<1>1. TypeOK /\ pc[p] = "delete" /\ Keeps(p) /\ OpHere(p) /\ arg[p] \in Digest
  BY DEF IInv, CallsHaveArguments, JInv, CallOK, Delete, At
<1>2. UNCHANGED <<opts, nature, tableVars, meta, pack, slots, tmp, op, arg, spool>>
  BY DEF Delete, Config
<1>3. \A q \in Proc \ {p}, d \in Digest : holder'[d] = q => holder[d] = q
  BY <1>1 DEF Delete, TypeOK
<1>4. pc' = [pc EXCEPT ![p] = "return"] /\ \A q \in Proc \ {p} : result'[q] = result[q]
  BY <1>1 DEF Delete, Ends, TypeOK
<1>5. pc'[p] = "return" /\ op[p] = "delete" /\ \A q \in Proc \ {p} : pc'[q] = pc[q]
  BY <1>1, <1>4 DEF TypeOK, OpHere
<1>6. OpHere(p)'
  BY <1>5 DEF OpHere, PutPlaces, Slotted
<1>7. ~pack[p].open /\ p \notin slots /\ p \notin tmp /\ "return" \notin Slotted /\ "return" \notin Unlocked
  BY <1>1 DEF Keeps, Unlocked, Slotted
<1>8. Keeps(p)'
  BY <1>2, <1>5, <1>7 DEF Keeps
<1>9. Aside(p)
  BY <1>2, <1>3, <1>4, <1>5 DEF Aside
<1>10. Decided(p)'
  BY <1>5, NothingDecided
<1>11. SlotsBound' /\ ChargedOnce'
  BY <1>2 DEF JInv, ChargedOnce, SlotsBound, tableVars
<1>12. \A d \in Digest : refs'[d] \in {refs[d], None}
  BY <1>1 DEF Delete, TypeOK
<1>13. StoredAsAllowed'
  <2>1. None # Prism
    BY BlobAssumption DEF Meta
  <2> QED
    BY <1>2, <1>12, <2>1 DEF JInv, StoredAsAllowed, RawNeedsConsent, PrismsReproduce
<1> QED
  BY <1>6, <1>8, <1>9, <1>10, <1>11, <1>13, OthersCallOK DEF JInv, CallOK

(***************************************************************************)
(* The deferred functions give everything back.                            *)
(***************************************************************************)
LEMMA ReturnJ ==
  ASSUME IInv, JInv, NEW p \in Proc, Return(p)
  PROVE  JInv'
<1>1. TypeOK /\ pc[p] = "return" /\ Keeps(p)
  BY DEF IInv, JInv, CallOK, Return, At
<1>2. UNCHANGED <<opts, nature, refs, tableVars, pack>>
  BY DEF Return, Config, storeVars
<1>3. \A q \in Proc \ {p} : /\ pc'[q] = pc[q] /\ op'[q] = op[q] /\ arg'[q] = arg[q] /\ meta'[q] = meta[q]
                            /\ result'[q] = result[q]
                            /\ (q \in slots' <=> q \in slots) /\ (q \in tmp' <=> q \in tmp) /\ (q \in spool' <=> q \in spool)
  BY <1>1 DEF Return, TypeOK
<1>4. \A q \in Proc \ {p}, d \in Digest : holder'[d] = q => holder[d] = q
  BY BlobAssumption DEF Return
<1>5. Aside(p)
  BY <1>2, <1>3, <1>4 DEF Aside
<1>6. /\ pc'[p] = "idle" /\ op'[p] = None /\ p \notin slots' /\ p \notin tmp' /\ slots' \subseteq slots
  BY <1>1 DEF Return, TypeOK
<1>7. \A d \in Digest : holder'[d] # p
  BY BlobAssumption DEF Return
<1>8. OpHere(p)'
  BY <1>6 DEF OpHere, PutPlaces, Slotted
<1>9. Decided(p)'
  BY <1>6, NothingDecided
<1>10. "idle" \notin Slotted /\ ~pack[p].open /\ None # "put"
  BY <1>1, BlobAssumption DEF Slotted, Keeps
<1>11. Keeps(p)'
  BY <1>2, <1>6, <1>7, <1>10 DEF Keeps
<1> QED
  BY <1>1, <1>2, <1>5, <1>6, <1>8, <1>9, <1>11, StepJ DEF CallOK

(***************************************************************************)
(* A row of the recent table is used up, or dropped.                       *)
(***************************************************************************)
LEMMA RecentJ ==
  ASSUME IInv, JInv, NEW d \in Digest, TakeRecent(d) \/ purgeRecent(d)
  PROVE  JInv'
<1>1. TypeOK /\ ChargedOnce
  BY DEF IInv, JInv
<1>2. UNCHANGED <<opts, nature, refs, holder, slots, pc, op, arg, meta, pack, tmp, spool, result>>
  BY DEF TakeRecent, purgeRecent, Config, storeVars, procVars
<1>3. StoredAsAllowed' /\ SlotsBound'
  BY <1>2 DEF JInv, StoredAsAllowed, RawNeedsConsent, PrismsReproduce, SlotsBound
<1>4. ASSUME NEW q \in Proc PROVE CallOK(q)'
  <2>1. CallOK(q)
    BY DEF JInv
  <2> QED
    BY <1>2, <2>1 DEF CallOK, OpHere, Decided, RawAllowed, PrismGood, Keeps
<1>5. ASSUME NEW e \in Digest
      PROVE  charged'[e] + (IF recent'[e] = "new" THEN 1 ELSE 0) <= minted'[e]
  <2>1. charged[e] \in Nat /\ minted[e] \in Nat /\ minted' = minted
    BY <1>1 DEF TypeOK, TakeRecent, purgeRecent
  <2>2. charged[e] + (IF recent[e] = "new" THEN 1 ELSE 0) <= minted[e]
    BY <1>1 DEF ChargedOnce
  <2>3. None # "new"
    BY BlobAssumption
  <2>4. CASE e = d
    <3>1. recent'[e] = None /\ (charged'[e] = charged[e] \/ charged'[e] = charged[e] + (IF recent[e] = "new" THEN 1 ELSE 0))
      BY <1>1, <2>4 DEF TypeOK, TakeRecent, purgeRecent
    <3> QED
      BY <2>1, <2>2, <2>3, <3>1
  <2>5. CASE e # d
    <3>1. recent'[e] = recent[e] /\ charged'[e] = charged[e]
      BY <1>1, <2>5 DEF TypeOK, TakeRecent, purgeRecent
    <3> QED
      BY <2>1, <2>2, <3>1
  <2> QED
    BY <2>4, <2>5
<1> QED
  BY <1>3, <1>4, <1>5 DEF JInv, ChargedOnce

(***************************************************************************)
(* A new process holds nothing.                                            *)
(***************************************************************************)
LEMMA CrashJ ==
  ASSUME IInv, JInv, Crash
  PROVE  JInv'
<1>1. TypeOK /\ ChargedOnce /\ UNCHANGED <<opts, nature, refs, minted, charged>>
  BY DEF IInv, JInv, Crash, Config
<1>2. StoredAsAllowed'
  BY <1>1 DEF JInv, StoredAsAllowed, RawNeedsConsent, PrismsReproduce
<1>3. SlotsBound'
  BY FS_EmptySet, BlobAssumption DEF Crash, SlotsBound
<1>4. ASSUME NEW e \in Digest
      PROVE  charged'[e] + (IF recent'[e] = "new" THEN 1 ELSE 0) <= minted'[e]
  <2>1. charged[e] \in Nat /\ minted[e] \in Nat /\ recent'[e] = None /\ None # "new"
    BY <1>1, BlobAssumption DEF TypeOK, Crash
  <2>2. charged[e] + (IF recent[e] = "new" THEN 1 ELSE 0) <= minted[e]
    BY <1>1 DEF ChargedOnce
  <2> QED
    BY <1>1, <2>1, <2>2
<1>5. ASSUME NEW q \in Proc PROVE CallOK(q)'
  <2>1. /\ pc'[q] = "idle" /\ op'[q] = None /\ pack'[q] = NoPack /\ slots' = {} /\ tmp' = {}
        /\ \A d \in Digest : holder'[d] # q
    BY BlobAssumption DEF Crash
  <2>2. OpHere(q)'
    BY <2>1 DEF OpHere, PutPlaces, Slotted
  <2>3. Decided(q)'
    BY <2>1, NothingDecided
  <2>4. "idle" \notin Slotted /\ ~NoPack.open /\ None # "put"
    BY BlobAssumption DEF Slotted, NoPack
  <2>5. Keeps(q)'
    BY <2>1, <2>4 DEF Keeps
  <2> QED
    BY <2>2, <2>3, <2>5 DEF CallOK
<1> QED
  BY <1>2, <1>3, <1>4, <1>5 DEF JInv, ChargedOnce

(***************************************************************************)
(* New starts with nothing stored and no call.                             *)
(***************************************************************************)
LEMMA InitJ == Init => JInv
<1> SUFFICES ASSUME Init PROVE JInv
  OBVIOUS
<1>1. None # Prism /\ None # "new" /\ None # "put"
  BY BlobAssumption DEF Meta
<1>2. StoredAsAllowed
  BY <1>1 DEF Init, StoredAsAllowed, RawNeedsConsent, PrismsReproduce
<1>3. ChargedOnce
  BY <1>1 DEF Init, ChargedOnce
<1>4. SlotsBound
  BY FS_EmptySet, BlobAssumption DEF Init, SlotsBound
<1>5. ASSUME NEW q \in Proc PROVE CallOK(q)
  <2>1. /\ pc[q] = "idle" /\ op[q] = None /\ pack[q] = NoPack /\ slots = {} /\ tmp = {}
        /\ \A d \in Digest : holder[d] # q
    BY BlobAssumption DEF Init
  <2>2. OpHere(q)
    BY <2>1 DEF OpHere, PutPlaces, Slotted
  <2>3. Decided(q)
    BY <2>1 DEF Decided, PrismPlaces
  <2>4. "idle" \notin Slotted /\ ~NoPack.open
    BY DEF Slotted, NoPack
  <2>5. Keeps(q)
    BY <1>1, <2>1, <2>4 DEF Keeps
  <2> QED
    BY <2>2, <2>3, <2>5 DEF CallOK
<1> QED
  BY <1>2, <1>3, <1>4, <1>5 DEF JInv

(***************************************************************************)
(* Every step keeps what the calls have come to.                           *)
(***************************************************************************)
LEMMA NextJ == IInv /\ JInv /\ [Next]_vars => JInv'
<1> SUFFICES ASSUME IInv, JInv, [Next]_vars PROVE JInv'
  OBVIOUS
<1>1. ASSUME NEW p \in Proc, Step(p) PROVE JInv'
  BY <1>1, analyzeJ, NewPackWriterJ, stageJ, ConfirmJ, commitJ, VerifyJ, OnwardJ, PutRefJ, RecordJ, RemoveSpoolJ,
     ReuseJ, ReturnJ DEF Step
<1>2. ASSUME NEW p \in Proc, Cancel(p) PROVE JInv'
  BY <1>2, QuietJ DEF Cancel, Config, storeVars
<1>3. ASSUME NEW o \in Obj, Collect(o) PROVE JInv'
  BY <1>3, QuietJ DEF Collect, Config, procVars
<1>4. CASE UNCHANGED vars
  BY <1>4, QuietJ DEF vars, procVars, storeVars
<1> QED
  BY <1>1, <1>2, <1>3, <1>4, CallJ, LockDigestJ, TakeSlotJ, SlotCancelledJ, DeleteJ, RecentJ, CrashJ DEF Next

(***************************************************************************)
(* The places of every call determine what it has decided and what it      *)
(* holds, for any number of goroutines, digests and slots.                 *)
(***************************************************************************)
THEOREM CallInvariant == Spec => []JInv
<1>1. Init => JInv
  BY InitJ
<1>2. IInv /\ JInv /\ [Next]_vars => JInv'
  BY NextJ
<1> QED
  BY <1>1, <1>2, Invariant, PTL DEF Spec

(***************************************************************************)
(* A layer is stored raw only if it is no tar or the operator allows it,   *)
(* and as a prism only if it can be served, whichever of analyze, the      *)
(* confirming pass, the stager and the round-trip check found out.         *)
(***************************************************************************)
THEOREM StoredAsAllowedHolds == Spec => []StoredAsAllowed
<1>1. JInv => StoredAsAllowed
  BY DEF JInv
<1> QED
  BY <1>1, CallInvariant, PTL

(***************************************************************************)
(* The bytes that recordRecent notes as new are charged to one image at    *)
(* most.                                                                   *)
(***************************************************************************)
THEOREM ChargedOnceHolds == Spec => []ChargedOnce
<1>1. JInv => ChargedOnce
  BY DEF JInv
<1> QED
  BY <1>1, CallInvariant, PTL

(***************************************************************************)
(* No path out of Put keeps a pack, a slot, a spool file of zrecipe's or a *)
(* lock, and the upload's spool outlives every failure.                    *)
(***************************************************************************)
THEOREM PathsOutHolds == Spec => []PathsOut
<1>1. IInv /\ JInv => PathsOut
  <2> SUFFICES ASSUME IInv, JInv PROVE PathsOut
    OBVIOUS
  <2>1. \A p \in Proc : Keeps(p)
    BY DEF JInv, CallOK
  <2>2. SpoolOutlivesFailure
    BY <2>1 DEF SpoolOutlivesFailure, Keeps
  <2>3. \A p \in Proc :
          /\ pack[p].open => pc[p] \in {"stage", "confirm", "commit", "verify"}
          /\ p \in slots => pc[p] \in Slotted \cup {"unspool", "return"}
          /\ pc[p] \in Unlocked => \A d \in Digest : holder[d] # p
    BY <2>1 DEF Keeps
  <2>4. tmp \subseteq slots /\ slots \subseteq Proc
    BY <2>1 DEF Keeps, IInv, TypeOK
  <2>5. {p \in Proc : pack[p].open} \subseteq slots
    BY <2>1 DEF Keeps, Slotted
  <2>6. Cardinality({p \in Proc : pack[p].open} \cup tmp) <= Slots
    <3> DEFINE S == {p \in Proc : pack[p].open} \cup tmp
    <3>1. S \subseteq slots
      BY <2>4, <2>5
    <3> HIDE DEF S
    <3>2. IsFiniteSet(slots)
      BY <2>4, BlobAssumption, FS_Subset
    <3>3. Cardinality(S) <= Cardinality(slots) /\ Cardinality(S) \in Nat /\ Cardinality(slots) \in Nat
      BY <3>1, <3>2, FS_Subset, FS_CardinalityType
    <3>4. Cardinality(S) <= Slots
      BY <3>3, BlobAssumption DEF JInv, SlotsBound
    <3> QED
      BY <3>4 DEF S
  <2> QED
    BY <2>2, <2>3, <2>4, <2>6 DEF PathsOut, NothingLeaks
<1> QED
  BY <1>1, Invariant, CallInvariant, PTL

(***************************************************************************)
(* Nobody waits in a circle, for any number of goroutines, digests and     *)
(* slots: the holder of a digest's lock is past waiting for a digest, and  *)
(* the holder of a slot is past waiting for a slot.                        *)
(***************************************************************************)
THEOREM NoCircularWaitHolds == Spec => []NoCircularWait
<1>1. IInv /\ JInv => NoCircularWait
  <2> SUFFICES ASSUME IInv, JInv, NEW p \in Proc, NEW q \in WaitsFor(p), NEW r \in WaitsFor(q)
               PROVE  WaitsFor(r) = {}
    BY DEF NoCircularWait
  <2>1. \A x \in Proc : /\ x \in slots => pc[x] \notin {"put", "delete", "slot"}
                        /\ \A d \in Digest : holder[d] = x => pc[x] \notin {"put", "delete"}
    BY DEF JInv, CallOK, Keeps, Slotted, Unlocked
  <2>2. /\ slots \subseteq Proc /\ holder \in [Digest -> Proc \cup {None}]
        /\ \A x \in Proc : pc[x] # "idle" => arg[x] \in Digest
    BY DEF IInv, TypeOK, CallsHaveArguments
  <2>3. \A x \in Proc : \A y \in WaitsFor(x) :
          \/ pc[x] \in {"put", "delete"} /\ y \in Proc /\ pc[y] \notin {"put", "delete"}
          \/ pc[x] = "slot" /\ y \in slots
    BY <2>1, <2>2 DEF WaitsFor
  <2>4. q \in Proc /\ pc[q] \notin {"put", "delete"}
    BY <2>1, <2>2, <2>3
  <2>5. r \in slots
    BY <2>3, <2>4
  <2> QED
    BY <2>1, <2>2, <2>5 DEF WaitsFor
<1> QED
  BY <1>1, Invariant, CallInvariant, PTL

-----------------------------------------------------------------------------
(***************************************************************************)
(* The abstract view of a state: the digests that are stored, and the call *)
(* each goroutine is in with what it has come to.                          *)
(***************************************************************************)
Stored == {d \in Digest : refs[d] # None}
NoCall == [name |-> "none", d |-> "none", result |-> "none"]
InMap(p) == op[p] \in {"put", "delete"}
View(p) == IF InMap(p) THEN [name |-> op[p], d |-> arg[p], result |-> Concluded(p)] ELSE NoCall
AbsOp == [p \in Proc |-> View(p)]
AbsSame == Stored' = Stored /\ AbsOp' = AbsOp

\* Only p's view changes.
Others(p) ==
  \A q \in Proc \ {p} : pc'[q] = pc[q] /\ op'[q] = op[q] /\ arg'[q] = arg[q] /\ result'[q] = result[q]

(***************************************************************************)
(* A step of p changes p's view alone.                                     *)
(***************************************************************************)
LEMMA ViewStep ==
  ASSUME NEW p \in Proc, Others(p)
  PROVE  AbsOp' = [AbsOp EXCEPT ![p] = View(p)']
<1>1. ASSUME NEW q \in Proc, q # p PROVE View(q)' = View(q)
  <2>1. pc'[q] = pc[q] /\ op'[q] = op[q] /\ arg'[q] = arg[q] /\ result'[q] = result[q]
    BY <1>1 DEF Others
  <2>2. Concluded(q)' = Concluded(q)
    BY <2>1 DEF Concluded
  <2> QED
    BY <2>1, <2>2 DEF View, InMap
<1>2. AbsOp' = [q \in Proc |-> View(q)'] /\ AbsOp = [q \in Proc |-> View(q)]
  BY DEF AbsOp
<1> HIDE DEF View
<1> QED
  BY <1>1, <1>2

(***************************************************************************)
(* A step of p that changes neither its call nor its conclusion shows      *)
(* nothing.                                                                *)
(***************************************************************************)
LEMMA ViewStays ==
  ASSUME NEW p \in Proc, Others(p), op'[p] = op[p], arg'[p] = arg[p], InMap(p) => Concluded(p)' = Concluded(p), UNCHANGED refs
  PROVE  AbsSame
<1>1. View(p)' = View(p)
  BY DEF View, InMap
<1>2. AbsOp' = [AbsOp EXCEPT ![p] = View(p)']
  BY ViewStep
<1>3. AbsOp[p] = View(p)
  BY DEF AbsOp
<1>4. AbsOp' = AbsOp
  <2> HIDE DEF View
  <2>1. AbsOp = [q \in Proc |-> AbsOp[q]]
    BY DEF AbsOp
  <2> QED
    BY <1>1, <1>2, <1>3, <2>1
<1> QED
  BY <1>4 DEF AbsSame, Stored

(***************************************************************************)
(* A step of p that concludes a call of Put or Delete answers it.          *)
(***************************************************************************)
LEMMA ViewAnswers ==
  ASSUME NEW p \in Proc, Others(p), op'[p] = op[p], arg'[p] = arg[p], InMap(p), Concluded(p) = "none",
         NEW r \in {"ok", "error"}, Concluded(p)' = r
  PROVE  /\ AbsOp[p] = [name |-> op[p], d |-> arg[p], result |-> "none"]
         /\ AbsOp[p] # NoCall /\ AbsOp[p].result = "none"
         /\ AbsOp' = [AbsOp EXCEPT ![p].result = r]
<1>1. AbsOp' = [AbsOp EXCEPT ![p] = View(p)']
  BY ViewStep
<1>2. AbsOp[p] = [name |-> op[p], d |-> arg[p], result |-> "none"]
  BY DEF AbsOp, View
<1>3. View(p)' = [name |-> op[p], d |-> arg[p], result |-> r]
  BY DEF View, InMap
<1>4. AbsOp[p] # NoCall /\ AbsOp[p].result = "none"
  BY <1>2 DEF NoCall, InMap
<1>5. [AbsOp[p] EXCEPT !.result = r] = [name |-> op[p], d |-> arg[p], result |-> r]
  BY <1>2
<1>6. [AbsOp EXCEPT ![p].result = r] = [AbsOp EXCEPT ![p] = [AbsOp[p] EXCEPT !.result = r]]
  OBVIOUS
<1> QED
  BY <1>1, <1>2, <1>3, <1>4, <1>5, <1>6

(***************************************************************************)
(* A call of Put or Delete that fails had no effect.                       *)
(***************************************************************************)
LEMMA AbsFails ==
  ASSUME IInv, NEW p \in Proc, UNCHANGED <<op, arg, refs>>, InMap(p), Concluded(p) = "none",
         NEW r \in {"error", "refused"}, Ends(p, r)
  PROVE  Abs!Fails(p)
<1>1. pc'[p] = "return" /\ result'[p] = r /\ Others(p)
  BY DEF IInv, TypeOK, Ends, Others
<1>2. Concluded(p)' = "error"
  BY <1>1 DEF Concluded
<1>3. AbsOp[p] # NoCall /\ AbsOp[p].result = "none" /\ AbsOp' = [AbsOp EXCEPT ![p].result = "error"] /\ Stored' = Stored
  BY <1>1, <1>2, ViewAnswers DEF Stored
<1> QED
  BY <1>3 DEF Abs!Fails, Abs!Answer, Abs!Idle, AbsOp, Stored, NoCall, View, InMap

(***************************************************************************)
(* A Put takes effect when its digest is stored and it has come to         *)
(* success.                                                                *)
(***************************************************************************)
LEMMA AbsPut ==
  ASSUME NEW p \in Proc, Others(p), op'[p] = op[p], arg'[p] = arg[p], op[p] = "put", Concluded(p) = "none",
         Concluded(p)' = "ok", Stored' = Stored \cup {arg[p]}
  PROVE  Abs!PutTakesEffect(p)
<1>1. InMap(p)
  BY DEF InMap
<1>2. /\ AbsOp[p] = [name |-> op[p], d |-> arg[p], result |-> "none"]
      /\ AbsOp[p] # NoCall /\ AbsOp[p].result = "none"
      /\ AbsOp' = [AbsOp EXCEPT ![p].result = "ok"]
  BY <1>1, ViewAnswers
<1>3. AbsOp[p].name = "put" /\ AbsOp[p].d = arg[p]
  BY <1>2
<1> QED
  BY <1>2, <1>3 DEF Abs!PutTakesEffect, Abs!Answer, Abs!Idle, AbsOp, Stored, NoCall, View, InMap

(***************************************************************************)
(* A Delete takes effect when it takes the reference away.                 *)
(***************************************************************************)
LEMMA AbsDelete ==
  ASSUME NEW p \in Proc, Others(p), op'[p] = op[p], arg'[p] = arg[p], op[p] = "delete", Concluded(p) = "none",
         Concluded(p)' = "ok", arg[p] \in Stored, Stored' = Stored \ {arg[p]}
  PROVE  Abs!DeleteTakesEffect(p)
<1>1. InMap(p)
  BY DEF InMap
<1>2. /\ AbsOp[p] = [name |-> op[p], d |-> arg[p], result |-> "none"]
      /\ AbsOp[p] # NoCall /\ AbsOp[p].result = "none"
      /\ AbsOp' = [AbsOp EXCEPT ![p].result = "ok"]
  BY <1>1, ViewAnswers
<1>3. AbsOp[p].name = "delete" /\ AbsOp[p].d = arg[p]
  BY <1>2
<1> QED
  BY <1>2, <1>3 DEF Abs!DeleteTakesEffect, Abs!Answer, Abs!Idle, AbsOp, Stored, NoCall, View, InMap

(***************************************************************************)
(* A call of Put or Delete starts; one of Reuse is not seen.               *)
(***************************************************************************)
LEMMA AbsCall ==
  ASSUME IInv, JInv, NEW p \in Proc, NEW name \in {"put", "delete", "reuse"}, NEW d \in Digest, Call(p, name, d)
  PROVE  (name \in {"put", "delete"} /\ Abs!Call(p, name, d)) \/ AbsSame
<1>1. TypeOK /\ pc[p] = "idle" /\ op[p] = None /\ UNCHANGED refs
  BY DEF IInv, JInv, CallOK, OpHere, Call, At, storeVars
<1>2. Others(p) /\ pc'[p] = name /\ op'[p] = name /\ arg'[p] = d
  BY <1>1 DEF Call, TypeOK, Goto, Others
<1>3. AbsOp[p] = NoCall
  BY <1>1, BlobAssumption DEF AbsOp, View, InMap
<1>4. AbsOp' = [AbsOp EXCEPT ![p] = View(p)'] /\ Stored' = Stored
  BY <1>1, <1>2, ViewStep DEF Stored
<1>5. CASE name = "reuse"
  <2>1. View(p)' = NoCall
    BY <1>2, <1>5 DEF View, InMap
  <2>2. AbsOp = [q \in Proc |-> AbsOp[q]]
    BY DEF AbsOp
  <2>3. AbsOp' = AbsOp
    BY <1>3, <1>4, <2>1, <2>2
  <2> QED
    BY <1>4, <2>3 DEF AbsSame
<1>6. CASE name \in {"put", "delete"}
  <2>1. View(p)' = [name |-> name, d |-> d, result |-> "none"]
    <3>1. Concluded(p)' = "none"
      BY <1>2, <1>6 DEF Concluded
    <3> QED
      BY <1>2, <1>6, <3>1 DEF View, InMap
  <2>2. Abs!Call(p, name, d)
    BY <1>3, <1>4, <2>1 DEF Abs!Call, Abs!Idle, AbsOp, Stored, NoCall, View, InMap
  <2> QED
    BY <1>6, <2>2
<1> QED
  BY <1>5, <1>6

(***************************************************************************)
(* Up to the reference a Put has no effect: it goes on unseen, or fails.   *)
(***************************************************************************)
Before == (Slotted \ {"record"}) \cup {"put", "slot"}

LEMMA AbsBefore ==
  ASSUME IInv, JInv, NEW p \in Proc, pc[p] \in Before
  PROVE  op[p] = "put" /\ InMap(p) /\ Concluded(p) = "none" /\ arg[p] \in Digest
<1>1. op[p] = "put"
  BY DEF JInv, CallOK, OpHere, PutPlaces, Before
<1>2. pc[p] \notin {"hit", "record", "unspool"} /\ pc[p] # "return" /\ pc[p] # "idle"
  BY DEF Before, Slotted
<1> QED
  BY <1>1, <1>2 DEF InMap, Concluded, IInv, CallsHaveArguments

(***************************************************************************)
(* See AbsBefore.                                                          *)
(***************************************************************************)
LEMMA AbsGoesOn ==
  ASSUME IInv, JInv, NEW p \in Proc, pc[p] \in Before, UNCHANGED <<op, arg, refs>>, NEW w \in Before, Goto(p, w)
  PROVE  AbsSame
<1>1. pc'[p] = w /\ Others(p)
  BY DEF IInv, TypeOK, Goto, Others
<1>2. w \notin {"hit", "record", "unspool"} /\ w # "return"
  BY DEF Before, Slotted
<1>3. Concluded(p)' = "none" /\ Concluded(p) = "none"
  BY <1>1, <1>2, AbsBefore DEF Concluded
<1> QED
  BY <1>1, <1>3, ViewStays

(***************************************************************************)
(* See AbsBefore.                                                          *)
(***************************************************************************)
LEMMA AbsRefuse ==
  ASSUME IInv, JInv, NEW p \in Proc, pc[p] \in Before, UNCHANGED <<op, arg, refs>>, NEW r \in Reasons, refuseRaw(p, r)
  PROVE  Abs!Fails(p) \/ AbsSame
<1>1. CASE Goto(p, "raw")
  <2>1. "raw" \in Before
    BY DEF Before, Slotted
  <2> QED
    BY <1>1, <2>1, AbsGoesOn
<1>2. CASE Ends(p, "refused")
  BY <1>2, AbsBefore, AbsFails
<1> QED
  BY <1>1, <1>2 DEF refuseRaw

(***************************************************************************)
(* The steps of a finalization before the reference.                       *)
(***************************************************************************)
LEMMA AbsFinalize ==
  ASSUME IInv, JInv, NEW p \in Proc,
         \/ analyze(p) \/ NewPackWriter(p) \/ stage(p) \/ Confirm(p) \/ commit(p) \/ Verify(p)
         \/ ingestRaw(p) \/ writeRoot(p) \/ PrepareRef(p) \/ TakeSlot(p) \/ SlotCancelled(p)
  PROVE  Abs!Fails(p) \/ AbsSame
<1>1. pc[p] \in Before
  BY DEF analyze, NewPackWriter, stage, Confirm, commit, Verify, ingestRaw, writeRoot, PrepareRef, TakeSlot,
     SlotCancelled, At, Before, Slotted
<1>2. UNCHANGED <<op, arg, refs>>
  BY DEF analyze, NewPackWriter, stage, Confirm, commit, Verify, ingestRaw, writeRoot, PrepareRef, TakeSlot,
     SlotCancelled, storeVars
<1>3. \/ Ends(p, "error")
      \/ \E r \in Reasons : refuseRaw(p, r)
      \/ \E w \in {"pack", "stage", "confirm", "commit", "verify", "raw", "root", "publish", "refput", "analyze"} : Goto(p, w)
  <2>1. CASE analyze(p)
    <3>1. \A n \in {"not-tar", "unsupported", "corrupt", "not-reproducible", "analyze-timeout"} : n \in Reasons
      BY DEF Reasons
    <3> QED
      BY <2>1, <3>1 DEF analyze, Breaks
  <2>2. CASE Confirm(p)
    <3>1. "not-reproducible" \in Reasons /\ "decompose-failed" \in Reasons
      BY DEF Reasons
    <3> QED
      BY <2>2, <3>1 DEF Confirm, Breaks
  <2>3. CASE Verify(p)
    <3>1. "roundtrip-failed" \in Reasons
      BY DEF Reasons
    <3> QED
      BY <2>3, <3>1 DEF Verify, Breaks
  <2>4. CASE NewPackWriter(p) \/ stage(p)
    BY <2>4 DEF NewPackWriter, stage
  <2>6. CASE commit(p)
    BY <2>6 DEF commit, Breaks, AfterCommit
  <2>5. CASE ingestRaw(p) \/ writeRoot(p) \/ PrepareRef(p) \/ TakeSlot(p) \/ SlotCancelled(p)
    BY <2>5 DEF ingestRaw, writeRoot, PrepareRef, TakeSlot, SlotCancelled, Breaks
  <2> QED
    BY <2>1, <2>2, <2>3, <2>4, <2>5, <2>6
<1>4. {"pack", "stage", "confirm", "commit", "verify", "raw", "root", "publish", "refput", "analyze"} \subseteq Before
  BY DEF Before, Slotted
<1>5. CASE Ends(p, "error")
  BY <1>1, <1>2, <1>5, AbsBefore, AbsFails
<1> QED
  BY <1>1, <1>2, <1>3, <1>4, <1>5, AbsRefuse, AbsGoesOn

(***************************************************************************)
(* Put takes effect when Open finds the blob under the lock.               *)
(***************************************************************************)
LEMMA AbsLock ==
  ASSUME IInv, JInv, NEW p \in Proc, LockDigest(p)
  PROVE  Abs!PutTakesEffect(p) \/ Abs!Fails(p) \/ AbsSame
<1>1. pc[p] \in Before /\ "slot" \in Before
  BY DEF LockDigest, At, Before
<1>2. UNCHANGED <<op, arg, refs>>
  BY DEF LockDigest, storeVars
<1>3. op[p] = "put" /\ InMap(p) /\ Concluded(p) = "none" /\ arg[p] \in Digest
  BY <1>1, AbsBefore
<1>4. CASE Ends(p, "error")
  BY <1>1, <1>2, <1>3, <1>4, AbsFails
<1>5. CASE Goto(p, "slot")
  BY <1>1, <1>2, <1>5, AbsGoesOn
<1>6. CASE Open(arg[p]) /\ Goto(p, "hit")
  <2>1. pc'[p] = "hit" /\ Others(p)
    BY <1>2, <1>6 DEF IInv, TypeOK, Goto, Others
  <2>2. Concluded(p)' = "ok"
    BY <2>1 DEF Concluded
  <2>3. Stored' = Stored \cup {arg[p]}
    BY <1>2, <1>3, <1>6 DEF Stored, Open
  <2> QED
    BY <1>2, <1>3, <2>1, <2>2, <2>3, AbsPut
<1> QED
  BY <1>4, <1>5, <1>6 DEF LockDigest, Breaks

(***************************************************************************)
(* Put takes effect when the reference is put.                             *)
(***************************************************************************)
LEMMA AbsPutRef ==
  ASSUME IInv, JInv, NEW p \in Proc, PutRef(p)
  PROVE  Abs!PutTakesEffect(p) \/ Abs!Fails(p)
<1>1. pc[p] \in Before /\ meta[p] \in Meta
  BY DEF PutRef, At, Before, Slotted, IInv, CallsHaveArguments
<1>2. UNCHANGED <<op, arg>>
  BY DEF PutRef
<1>3. op[p] = "put" /\ InMap(p) /\ Concluded(p) = "none" /\ arg[p] \in Digest
  BY <1>1, AbsBefore
<1>4. CASE Ends(p, "error") /\ UNCHANGED refs
  BY <1>1, <1>2, <1>3, <1>4, AbsFails
<1>5. CASE refs' = [refs EXCEPT ![arg[p]] = meta[p]] /\ Goto(p, "record")
  <2>1. pc'[p] = "record" /\ Others(p)
    BY <1>2, <1>5 DEF IInv, TypeOK, Goto, Others
  <2>2. Concluded(p)' = "ok"
    BY <2>1 DEF Concluded
  <2>3. meta[p] # None
    BY <1>1, BlobAssumption
  <2>4. refs'[arg[p]] # None /\ \A d \in Digest : d # arg[p] => refs'[d] = refs[d]
    BY <1>3, <1>5, <2>3 DEF IInv, TypeOK
  <2>5. Stored' = Stored \cup {arg[p]}
    BY <1>3, <2>4 DEF Stored
  <2> QED
    BY <1>2, <1>3, <2>1, <2>2, <2>5, AbsPut
<1> QED
  BY <1>4, <1>5 DEF PutRef

(***************************************************************************)
(* What comes after the effect is not seen, and neither is Reuse.          *)
(***************************************************************************)
LEMMA AbsAfter ==
  ASSUME IInv, JInv, NEW p \in Proc, Record(p) \/ RemoveSpool(p) \/ Reuse(p) \/ ReuseHit(p)
  PROVE  AbsSame
<1>1. TypeOK /\ OpHere(p) /\ UNCHANGED <<op, arg, refs>>
  BY DEF IInv, JInv, CallOK, Record, RemoveSpool, Reuse, ReuseHit, storeVars
<1>2. Others(p)
  BY <1>1 DEF TypeOK, Record, RemoveSpool, Reuse, ReuseHit, Goto, Ends, Others
<1>3. CASE Record(p)
  <2>1. pc[p] \in {"record", "hit"} /\ pc'[p] = "unspool"
    BY <1>1, <1>3 DEF Record, At, Goto, TypeOK
  <2>2. Concluded(p)' = Concluded(p)
    BY <2>1 DEF Concluded
  <2> QED
    BY <1>1, <1>2, <2>2, ViewStays
<1>4. CASE RemoveSpool(p)
  <2>1. pc[p] = "unspool" /\ pc'[p] = "return" /\ result'[p] = "ok"
    BY <1>1, <1>4 DEF RemoveSpool, At, Ends, TypeOK
  <2>2. Concluded(p)' = Concluded(p)
    BY <2>1 DEF Concluded
  <2> QED
    BY <1>1, <1>2, <2>2, ViewStays
<1>5. CASE Reuse(p) \/ ReuseHit(p)
  <2>1. op[p] = "reuse"
    BY <1>1, <1>5 DEF Reuse, ReuseHit, At, OpHere
  <2>2. ~InMap(p)
    BY <2>1 DEF InMap
  <2> QED
    BY <1>1, <1>2, <2>2, ViewStays
<1> QED
  BY <1>3, <1>4, <1>5

(***************************************************************************)
(* Delete takes effect with the reference, or fails.                       *)
(***************************************************************************)
LEMMA AbsDeletes ==
  ASSUME IInv, JInv, NEW p \in Proc, Delete(p)
  PROVE  Abs!DeleteTakesEffect(p) \/ Abs!Fails(p)
<1>1. TypeOK /\ pc[p] = "delete" /\ op[p] = "delete" /\ arg[p] \in Digest /\ UNCHANGED <<op, arg>>
  BY DEF IInv, CallsHaveArguments, JInv, CallOK, OpHere, Delete, At
<1>2. InMap(p) /\ Concluded(p) = "none"
  BY <1>1 DEF InMap, Concluded
<1>3. CASE Ends(p, "error") /\ UNCHANGED refs
  BY <1>1, <1>2, <1>3, AbsFails
<1>4. CASE refs[arg[p]] # None /\ refs' = [refs EXCEPT ![arg[p]] = None] /\ Ends(p, "ok")
  <2>1. pc'[p] = "return" /\ result'[p] = "ok" /\ Others(p)
    BY <1>1, <1>4 DEF TypeOK, Ends, Others
  <2>2. Concluded(p)' = "ok"
    BY <2>1 DEF Concluded
  <2>3. refs'[arg[p]] = None /\ \A d \in Digest : d # arg[p] => refs'[d] = refs[d]
    BY <1>1, <1>4 DEF TypeOK
  <2>4. arg[p] \in Stored /\ Stored' = Stored \ {arg[p]}
    BY <1>1, <1>4, <2>3 DEF Stored
  <2> QED
    BY <1>1, <1>2, <2>1, <2>2, <2>4, AbsDelete
<1> QED
  BY <1>3, <1>4 DEF Delete

(***************************************************************************)
(* A call returns what it has come to.                                     *)
(***************************************************************************)
LEMMA AbsReturn ==
  ASSUME IInv, JInv, NEW p \in Proc, Return(p)
  PROVE  Abs!Return(p) \/ AbsSame
<1>1. TypeOK /\ pc[p] = "return" /\ UNCHANGED refs
  BY DEF IInv, Return, At, storeVars
<1>2. Others(p) /\ op'[p] = None
  BY <1>1 DEF TypeOK, Return, Others
<1>3. View(p)' = NoCall
  BY <1>2, BlobAssumption DEF View, InMap
<1>4. AbsOp' = [AbsOp EXCEPT ![p] = NoCall] /\ Stored' = Stored
  BY <1>1, <1>2, <1>3, ViewStep DEF Stored
<1>5. CASE InMap(p)
  <2>1. AbsOp[p] = [name |-> op[p], d |-> arg[p], result |-> Concluded(p)]
    BY <1>5 DEF AbsOp, View
  <2>2. Concluded(p) # "none"
    BY <1>1 DEF Concluded
  <2>3. AbsOp[p].result # "none"
    BY <2>1, <2>2
  <2> QED
    BY <1>4, <2>3 DEF Abs!Return, Abs!Idle, AbsOp, Stored, NoCall, View, InMap
<1>6. CASE ~InMap(p)
  <2>1. AbsOp[p] = NoCall
    BY <1>6 DEF AbsOp, View
  <2>2. AbsOp = [q \in Proc |-> AbsOp[q]]
    BY DEF AbsOp
  <2>3. AbsOp' = AbsOp
    BY <1>4, <2>1, <2>2
  <2> QED
    BY <1>4, <2>3 DEF AbsSame
<1> QED
  BY <1>5, <1>6

(***************************************************************************)
(* The calls die with the process; what is stored stays.                   *)
(***************************************************************************)
LEMMA AbsCrash ==
  ASSUME IInv, Crash
  PROVE  Abs!Die
<1>1. UNCHANGED refs /\ \A p \in Proc : op'[p] = None
  BY DEF Crash
<1>2. \A p \in Proc : View(p)' = NoCall
  BY <1>1, BlobAssumption DEF View, InMap
<1>3. AbsOp' = [p \in Proc |-> NoCall]
  <2>1. AbsOp' = [p \in Proc |-> View(p)']
    BY DEF AbsOp
  <2> HIDE DEF View
  <2> QED
    BY <1>2, <2>1
<1>4. Stored' = Stored
  BY <1>1 DEF Stored
<1> QED
  BY <1>3, <1>4 DEF Abs!Die, Abs!Idle, AbsOp, Stored, NoCall, View, InMap

(***************************************************************************)
(* The empty store is the empty map.                                       *)
(***************************************************************************)
LEMMA AbsInit == Init => Abs!Init
<1> SUFFICES ASSUME Init PROVE Abs!Init
  OBVIOUS
<1>1. \A p \in Proc : op[p] \notin {"put", "delete"}
  BY BlobAssumption DEF Init
<1>2. {d \in Digest : refs[d] # None} = {}
  BY DEF Init
<1> QED
  BY <1>1, <1>2 DEF Abs!Init, Abs!Idle

(***************************************************************************)
(* Each step of the store is a step of the map, or shows nothing of        *)
(* itself.                                                                 *)
(***************************************************************************)
LEMMA AbsStep == IInv /\ JInv /\ [Next]_vars => [Abs!Next]_(Abs!vars)
<1> SUFFICES ASSUME IInv, JInv, [Next]_vars
             PROVE  Abs!Next \/ AbsSame
  BY DEF Abs!vars, AbsSame, AbsOp, Stored, View, InMap, NoCall
<1>1. ASSUME UNCHANGED <<refs, pc, op, arg, result>> PROVE AbsSame
  BY <1>1 DEF AbsSame, AbsOp, Stored, View, InMap, Concluded
<1>2. ASSUME NEW p \in Proc, NEW name \in {"put", "delete", "reuse"}, NEW d \in Digest, Call(p, name, d)
      PROVE  Abs!Next \/ AbsSame
  BY <1>2, AbsCall DEF Abs!Next
<1>3. ASSUME NEW p \in Proc, LockDigest(p) \/ TakeSlot(p) \/ SlotCancelled(p) \/ Delete(p) \/ Step(p)
      PROVE  Abs!Next \/ AbsSame
  <2>1. \/ AbsSame
        \/ Abs!PutTakesEffect(p) \/ Abs!DeleteTakesEffect(p) \/ Abs!Fails(p) \/ Abs!Return(p)
    BY <1>3, AbsLock, AbsFinalize, AbsPutRef, AbsAfter, AbsDeletes, AbsReturn DEF Step
  <2> QED
    BY <2>1 DEF Abs!Next
<1>4. ASSUME NEW p \in Proc, Cancel(p) PROVE AbsSame
  BY <1>1, <1>4 DEF Cancel, storeVars
<1>5. ASSUME \/ \E d \in Digest : TakeRecent(d) \/ purgeRecent(d)
             \/ \E o \in Obj : Collect(o)
      PROVE  AbsSame
  BY <1>1, <1>5 DEF TakeRecent, purgeRecent, Collect, storeVars, procVars
<1>6. CASE Crash
  BY <1>6, AbsCrash DEF Abs!Next
<1>7. CASE UNCHANGED vars
  BY <1>1, <1>7 DEF vars, storeVars, procVars
<1> QED
  BY <1>2, <1>3, <1>4, <1>5, <1>6, <1>7 DEF Next

(***************************************************************************)
(* blob.Store keeps the promise of BlobMap: a Put or Delete that succeeds  *)
(* took effect at one instant between its call and its return, one that    *)
(* fails had no effect, and a crash loses no stored blob. Digest locks,    *)
(* slots, analysis, packs and the collector cannot be told from outside.   *)
(***************************************************************************)
THEOREM Refinement == Spec => ImplementsBlobMap
BY AbsInit, AbsStep, Invariant, CallInvariant, PTL DEF Spec, Abs!Spec, ImplementsBlobMap
=============================================================================
