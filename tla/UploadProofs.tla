---------------------------- MODULE UploadProofs ----------------------------
(***************************************************************************)
(* Package upload for any number of callers, sessions, bodies, sizes and   *)
(* faults: UploadSafety holds in every reachable state.                    *)
(*                                                                         *)
(* The invariant is a conjunction of parts, one for each group of          *)
(* variables: who holds which session, what is registered and on disk,     *)
(* where a session's bytes are, what a spool was taken of, and how far the *)
(* sweeper and Close have got.  The bound MaxSize plays no role, so the    *)
(* contents are all sequences of chunks.                                   *)
(***************************************************************************)
EXTENDS RegistryUploads, SequenceTheorems, TLAPS

Bytes == Seq(Chunk)

Calls ==
  [op : {"none", "append", "copy", "spool", "close", "forget"}, sid : Sid \cup {None}, rest : Bytes]

Spools ==
  [sid : Sid \cup {None}, digest : Bytes, mem : Bytes, path : BOOLEAN, removed : BOOLEAN]

StateOK ==
  /\ up \in BOOLEAN
  /\ sessions \subseteq Sid /\ used \subseteq Sid /\ live \subseteq Sid
  /\ spilled \subseteq Sid /\ closed \subseteq Sid /\ removed \subseteq Sid
  /\ idle \subseteq Sid /\ stale \subseteq Sid /\ disk \subseteq Sid
  /\ buf \in [Sid -> Bytes] /\ file \in [Sid -> Bytes] /\ hash \in [Sid -> Bytes]
  /\ mu \in [Sid -> Caller \cup {None}]
  /\ call \in [Caller -> Calls]
  /\ spool \in [Caller -> Spools]
  /\ sweep \in [pc : {"rest", "next", "close", "forget", "stopped"}, expired : SUBSET Sid, cur : Sid \cup {None}]
  /\ shut \in [pc : {"open", "stop", "next", "forget", "closed"}, left : SUBSET Sid, cur : Sid \cup {None}]
  /\ faults \in Nat

\* A call is on a session object; a copy has it locked and open; only what is removed is forgotten.
CallsOK ==
  \A c \in Caller :
    /\ call[c].op # "none" => call[c].sid \in live
    /\ call[c].op = "copy" => call[c].sid \notin closed /\ mu[call[c].sid] = c
    /\ call[c].op = "forget" => call[c].sid \in removed

\* A session leaves the map closed, and unless Close took it out, without a file.
RegistryOK ==
  /\ sessions \subseteq live /\ live \subseteq used
  /\ live \ sessions \subseteq closed
  /\ removed \subseteq closed /\ removed \cap disk = {}
  /\ up => disk \subseteq live
  /\ (live \ sessions) \cap disk # {} => shut.pc \in {"forget", "next", "closed"}

\* The bytes of an open session are in its file once it has spilled, in its buffer before.
BytesOK ==
  \A s \in Sid \ closed : hash[s] = IF s \in spilled THEN file[s] ELSE buf[s]

Prefix(d, f) == Len(d) <= Len(f) /\ SubSeq(f, 1, Len(d)) = d

\* A file spool was taken of a prefix of the file, which cannot be started again.
SpoolOK(sp) ==
  /\ sp.path => /\ sp.sid \in Sid
                /\ Prefix(sp.digest, file[sp.sid])
                /\ sp.sid \in closed \cup spilled
  /\ ~sp.path /\ ~sp.removed => sp.mem = sp.digest

SpoolsOK == \A c \in Caller : SpoolOK(spool[c])

SweepOK ==
  /\ sweep.pc \in {"close", "forget"} => sweep.cur \in Sid
  /\ sweep.pc = "forget" => sweep.cur \in removed

\* Close has still to see every session that is open, and to forget every registered one.
ShutOK ==
  /\ shut.pc # "open" => live \ closed \subseteq shut.left
  /\ shut.pc \in {"stop", "next", "closed"} => sessions \subseteq shut.left
  /\ shut.pc = "forget" => shut.cur \in closed /\ sessions \subseteq shut.left \cup {shut.cur}
  /\ shut.pc = "closed" => shut.left = {}
  /\ shut.pc \in {"next", "forget", "closed"} => sweep.pc = "stopped"

IInv == StateOK /\ CallsOK /\ RegistryOK /\ BytesOK /\ SpoolsOK /\ SweepOK /\ ShutOK
-----------------------------------------------------------------------------
(***************************************************************************)
(* Appending a chunk to a content gives a content, and what was a prefix   *)
(* of it still is.                                                         *)
(***************************************************************************)
LEMMA AppendPrefix ==
  ASSUME NEW f \in Bytes, NEW d \in Bytes, NEW x \in Chunk
  PROVE  /\ Append(f, x) \in Bytes
         /\ Prefix(d, f) => Prefix(d, Append(f, x))
BY DEF Bytes, Prefix

(***************************************************************************)
(* A content is a prefix of itself.                                        *)
(***************************************************************************)
LEMMA PrefixSelf ==
  ASSUME NEW f \in Bytes
  PROVE  Prefix(f, f)
BY SubSeqFull DEF Bytes, Prefix

(***************************************************************************)
(* Bodies are contents, and so is what remains of one.                     *)
(***************************************************************************)
LEMMA RestOK ==
  ASSUME StateOK, NEW c \in Caller
  PROVE  /\ call[c] \in Calls /\ call[c].rest \in Bytes
         /\ call[c].rest # <<>> => Head(call[c].rest) \in Chunk /\ Tail(call[c].rest) \in Bytes
BY DEF StateOK, Calls, Bytes

(***************************************************************************)
(* The invariant holds initially.                                          *)
(***************************************************************************)
LEMMA InitIInv == Init => IInv
<1> SUFFICES ASSUME Init PROVE IInv
  OBVIOUS
<1>1. <<>> \in Bytes /\ NoCall \in Calls /\ NoSpool \in Spools
  BY DEF Bytes, NoCall, NoSpool, Calls, Spools
<1>2. StateOK
  BY <1>1, UploadAssumption DEF Init, StateOK, Resting, Serving
<1>3. CallsOK /\ RegistryOK /\ BytesOK /\ SweepOK /\ ShutOK
  BY DEF Init, NoCall, Resting, Serving, CallsOK, RegistryOK, BytesOK, SweepOK, ShutOK
<1>4. SpoolsOK
  BY DEF Init, NoSpool, SpoolsOK, SpoolOK
<1> QED
  BY <1>2, <1>3, <1>4 DEF IInv

-----------------------------------------------------------------------------
(***************************************************************************)
(* The passage of time and a touch change nothing the invariant is about.  *)
(***************************************************************************)
LEMMA TouchIInv ==
  ASSUME IInv, idle' \subseteq Sid, stale' \subseteq Sid, faults' \in Nat,
         UNCHANGED <<managerVars, sessionVars, mu, disk, call, spool, actorVars>>
  PROVE  IInv'
<1>1. StateOK'
  BY DEF IInv, StateOK, managerVars, sessionVars, actorVars
<1>2. CallsOK' /\ RegistryOK' /\ BytesOK'
  BY DEF IInv, CallsOK, RegistryOK, BytesOK, managerVars, sessionVars, actorVars
<1>3. SpoolsOK' /\ SweepOK' /\ ShutOK'
  BY DEF IInv, SpoolsOK, SpoolOK, SweepOK, ShutOK, managerVars, sessionVars, actorVars
<1> QED
  BY <1>1, <1>2, <1>3 DEF IInv

(***************************************************************************)
(* A caller that returns, or enters a method on a session object, keeps    *)
(* the invariant.                                                          *)
(***************************************************************************)
LEMMA CallIInv ==
  ASSUME IInv, NEW c \in Caller, NEW k \in Calls,
         call' = [call EXCEPT ![c] = k],
         k.op = "none" \/ (k.op \in {"append", "spool", "close"} /\ k.sid \in live),
         idle' \subseteq Sid, stale' \subseteq Sid, faults' \in Nat,
         UNCHANGED <<managerVars, sessionVars, mu, disk, spool, actorVars>>
  PROVE  IInv'
<1>1. StateOK'
  BY DEF IInv, StateOK, managerVars, sessionVars, actorVars
<1>2. CallsOK'
  BY DEF IInv, StateOK, CallsOK, managerVars, sessionVars
<1>3. RegistryOK' /\ BytesOK'
  BY DEF IInv, RegistryOK, BytesOK, managerVars, sessionVars, actorVars
<1>4. SpoolsOK' /\ SweepOK' /\ ShutOK'
  BY DEF IInv, SpoolsOK, SpoolOK, SweepOK, ShutOK, managerVars, sessionVars, actorVars
<1> QED
  BY <1>1, <1>2, <1>3, <1>4 DEF IInv

(***************************************************************************)
(* Create registers a session that nothing on disk belongs to, and only    *)
(* before Close.                                                           *)
(***************************************************************************)
LEMMA CreateIInv ==
  ASSUME IInv, NEW s \in Sid, Create(s)
  PROVE  IInv'
<1>1. StateOK'
  BY DEF IInv, StateOK, Create, sessionVars, timeVars, actorVars
<1>2. CallsOK' /\ BytesOK'
  BY DEF IInv, CallsOK, BytesOK, Create, sessionVars
<1>3. RegistryOK' /\ ShutOK'
  BY DEF IInv, RegistryOK, ShutOK, Create, sessionVars, actorVars
<1>4. SpoolsOK' /\ SweepOK'
  BY DEF IInv, SpoolsOK, SpoolOK, SweepOK, Create, sessionVars, actorVars
<1> QED
  BY <1>1, <1>2, <1>3, <1>4 DEF IInv

(***************************************************************************)
(* Append takes s.mu of a session that is open.                            *)
(***************************************************************************)
LEMMA AppendStartIInv ==
  ASSUME IInv, NEW c \in Caller, AppendStart(c)
  PROVE  IInv'
<1> DEFINE s == call[c].sid
<1>1. s \in live /\ s \in Sid /\ mu[s] = None /\ s \notin closed
  BY DEF IInv, StateOK, CallsOK, AppendStart, Free
<1>2. mu' = [mu EXCEPT ![s] = c] /\ call' = [call EXCEPT ![c].op = "copy"]
  BY DEF AppendStart
<1>3. /\ \A q \in Caller : call'[q] = IF q = c THEN [call[c] EXCEPT !.op = "copy"] ELSE call[q]
      /\ call[c] \in Calls /\ call' \in [Caller -> Calls]
  BY <1>2 DEF IInv, StateOK, Calls
<1>4. StateOK'
  BY <1>1, <1>2, <1>3 DEF IInv, StateOK, AppendStart, managerVars, sessionVars, timeVars, actorVars
<1>5. CallsOK'
  <2> SUFFICES ASSUME NEW q \in Caller
               PROVE  /\ call'[q].op # "none" => call'[q].sid \in live
                      /\ call'[q].op = "copy" => call'[q].sid \notin closed /\ mu'[call'[q].sid] = q
                      /\ call'[q].op = "forget" => call'[q].sid \in removed
    BY DEF CallsOK, AppendStart, managerVars, sessionVars
  <2>1. CASE q = c
    BY <1>1, <1>2, <1>3, <2>1 DEF IInv, StateOK, Calls
  <2>2. CASE q # c
    BY <1>1, <1>2, <1>3, <2>2, UploadAssumption DEF IInv, StateOK, CallsOK, Calls
  <2> QED
    BY <2>1, <2>2
<1>6. RegistryOK' /\ BytesOK'
  BY DEF IInv, RegistryOK, BytesOK, AppendStart, managerVars, sessionVars, actorVars
<1>7. SpoolsOK' /\ SweepOK' /\ ShutOK'
  BY DEF IInv, SpoolsOK, SpoolOK, SweepOK, ShutOK, AppendStart, managerVars, sessionVars, actorVars
<1> QED
  BY <1>4, <1>5, <1>6, <1>7 DEF IInv

(***************************************************************************)
(* What a write does: it adds the chunk to the bytes of an open session    *)
(* wherever they are, and starts a file only for a session that had not    *)
(* spilled.                                                                *)
(***************************************************************************)
LEMMA WriteOK ==
  ASSUME StateOK, BytesOK, NEW s \in Sid \ closed, NEW x \in Chunk, write(s, x), UNCHANGED closed
  PROVE  /\ buf' \in [Sid -> Bytes] /\ file' \in [Sid -> Bytes] /\ hash' \in [Sid -> Bytes]
         /\ spilled \subseteq spilled' /\ spilled' \subseteq spilled \cup {s}
         /\ disk \subseteq disk' /\ disk' \subseteq disk \cup {s}
         /\ \A t \in Sid \ {s} : file'[t] = file[t]
         /\ s \in spilled => file'[s] = Append(file[s], x)
         /\ BytesOK'
<1>1. Append(hash[s], x) \in Bytes /\ Append(file[s], x) \in Bytes /\ Append(buf[s], x) \in Bytes
  BY DEF StateOK, Bytes
<1>2. <<>> \in Bytes
  BY DEF Bytes
<1>3. hash' = [hash EXCEPT ![s] = Append(hash[s], x)]
  BY DEF write
<1>4. hash[s] = IF s \in spilled THEN file[s] ELSE buf[s]
  BY DEF BytesOK
<1>5. CASE s \in spilled /\ file' = [file EXCEPT ![s] = Append(file[s], x)] /\ UNCHANGED <<buf, spilled, disk>>
  BY <1>1, <1>3, <1>4, <1>5 DEF StateOK, BytesOK
<1>6. CASE /\ s \notin spilled
           /\ file' = [file EXCEPT ![s] = Append(buf[s], x)]
           /\ buf' = [buf EXCEPT ![s] = <<>>]
           /\ spilled' = spilled \cup {s}
           /\ disk' = disk \cup {s}
  BY <1>1, <1>2, <1>3, <1>4, <1>6 DEF StateOK, BytesOK
<1>7. CASE s \notin spilled /\ buf' = [buf EXCEPT ![s] = Append(buf[s], x)] /\ UNCHANGED <<file, spilled, disk>>
  BY <1>1, <1>3, <1>4, <1>7 DEF StateOK, BytesOK
<1> QED
  BY <1>5, <1>6, <1>7 DEF write, MustSpill

(***************************************************************************)
(* A write by the Append that holds s.mu keeps every spool a prefix of its *)
(* file: a file spool's session has spilled, so its file only grows.       *)
(***************************************************************************)
LEMMA AppendWriteIInv ==
  ASSUME IInv, NEW c \in Caller, AppendWrite(c)
  PROVE  IInv'
<1> DEFINE s == call[c].sid
<1> DEFINE x == Head(call[c].rest)
<1>1. s \in live /\ s \in Sid \ closed
  BY DEF IInv, StateOK, CallsOK, AppendWrite
<1>2. x \in Chunk /\ Tail(call[c].rest) \in Bytes
  BY RestOK DEF IInv, AppendWrite
<1>3. write(s, x) /\ call' = [call EXCEPT ![c].rest = Tail(@)]
      /\ UNCHANGED <<managerVars, closed, removed, mu, spool, actorVars, faults>>
  BY DEF AppendWrite
<1>4. /\ buf' \in [Sid -> Bytes] /\ file' \in [Sid -> Bytes] /\ hash' \in [Sid -> Bytes]
      /\ spilled \subseteq spilled' /\ spilled' \subseteq spilled \cup {s}
      /\ disk \subseteq disk' /\ disk' \subseteq disk \cup {s}
      /\ \A t \in Sid \ {s} : file'[t] = file[t]
      /\ s \in spilled => file'[s] = Append(file[s], x)
      /\ BytesOK'
  BY <1>1, <1>2, <1>3, WriteOK DEF IInv
<1>5. /\ call' \in [Caller -> Calls]
      /\ \A q \in Caller : call'[q].op = call[q].op /\ call'[q].sid = call[q].sid
  <2> DEFINE r == [call[c] EXCEPT !.rest = Tail(@)]
  <2>1. call \in [Caller -> Calls]
    BY DEF IInv, StateOK
  <2>2. r \in Calls /\ r.op = call[c].op /\ r.sid = call[c].sid
    BY <1>2, <2>1 DEF Calls
  <2>3. call' = [call EXCEPT ![c] = r]
    BY <1>3, <2>1
  <2> HIDE DEF r
  <2> QED
    BY <2>1, <2>2, <2>3
<1>6. StateOK'
  BY <1>1, <1>3, <1>4, <1>5 DEF IInv, StateOK, AppendWrite, touch, managerVars, actorVars
<1>7. CallsOK'
  BY <1>3, <1>5 DEF IInv, CallsOK, managerVars
<1>8. RegistryOK' /\ SweepOK' /\ ShutOK'
  BY <1>1, <1>3, <1>4 DEF IInv, RegistryOK, SweepOK, ShutOK, managerVars, actorVars
<1>9. SpoolsOK'
  <2> SUFFICES ASSUME NEW q \in Caller, spool[q].path
               PROVE  /\ Prefix(spool[q].digest, file'[spool[q].sid])
                      /\ spool[q].sid \in closed \cup spilled'
    BY <1>3 DEF IInv, SpoolsOK, SpoolOK
  <2>1. /\ spool[q].sid \in Sid /\ spool[q].digest \in Bytes
        /\ Prefix(spool[q].digest, file[spool[q].sid])
        /\ spool[q].sid \in closed \cup spilled
    BY DEF IInv, StateOK, Spools, SpoolsOK, SpoolOK
  <2>2. CASE spool[q].sid = s
    <3>1. file'[s] = Append(file[s], x) /\ file[s] \in Bytes
      BY <1>1, <1>4, <2>1, <2>2 DEF IInv, StateOK
    <3> QED
      BY <1>2, <1>4, <2>1, <2>2, <3>1, AppendPrefix
  <2>3. CASE spool[q].sid # s
    BY <1>4, <2>1, <2>3
  <2> QED
    BY <2>2, <2>3
<1> QED
  BY <1>4, <1>6, <1>7, <1>8, <1>9 DEF IInv

(***************************************************************************)
(* The end of an Append unlocks a session that no other caller has locked; *)
(* a file that a failed spill left behind is that of an open session.      *)
(***************************************************************************)
LEMMA AppendEndsIInv ==
  ASSUME IInv, NEW c \in Caller, call[c].op = "copy", AppendEnds(c), faults' \in Nat,
         disk' = disk \/ disk' = disk \cup {call[c].sid}
  PROVE  IInv'
<1> DEFINE s == call[c].sid
<1>1. s \in live /\ s \in Sid \ closed /\ mu[s] = c
  BY DEF IInv, StateOK, CallsOK
<1>2. mu' = [mu EXCEPT ![s] = None] /\ call' = [call EXCEPT ![c] = NoCall]
      /\ UNCHANGED <<managerVars, sessionVars, spool, actorVars>>
  BY DEF AppendEnds, Return
<1>3. NoCall \in Calls /\ NoCall.op = "none"
  BY DEF NoCall, Calls, Bytes
<1>4. StateOK'
  BY <1>1, <1>2, <1>3 DEF IInv, StateOK, AppendEnds, touch, managerVars, sessionVars, actorVars
<1>5. CallsOK'
  <2> SUFFICES ASSUME NEW q \in Caller
               PROVE  /\ call'[q].op # "none" => call'[q].sid \in live
                      /\ call'[q].op = "copy" => call'[q].sid \notin closed /\ mu'[call'[q].sid] = q
                      /\ call'[q].op = "forget" => call'[q].sid \in removed
    BY <1>2 DEF CallsOK, managerVars, sessionVars
  <2>1. CASE q = c
    BY <1>2, <1>3, <2>1 DEF IInv, StateOK
  <2>2. CASE q # c
    BY <1>1, <1>2, <2>2 DEF IInv, StateOK, CallsOK
  <2> QED
    BY <2>1, <2>2
<1>6. RegistryOK'
  BY <1>1, <1>2 DEF IInv, RegistryOK, managerVars, sessionVars, actorVars
<1>7. BytesOK' /\ SpoolsOK' /\ SweepOK' /\ ShutOK'
  BY <1>2 DEF IInv, BytesOK, SpoolsOK, SpoolOK, SweepOK, ShutOK, managerVars, sessionVars, actorVars
<1> QED
  BY <1>4, <1>5, <1>6, <1>7 DEF IInv

-----------------------------------------------------------------------------
(***************************************************************************)
(* A spool taken of an open session describes its bytes.                   *)
(***************************************************************************)
LEMMA SpoolIInv ==
  ASSUME IInv, NEW c \in Caller, Spool(c)
  PROVE  IInv'
<1> DEFINE s == call[c].sid
<1> DEFINE sp == [sid |-> s, digest |-> hash[s], mem |-> buf[s], path |-> s \in spilled, removed |-> FALSE]
<1>1. s \in live /\ s \in Sid \ closed
  BY DEF IInv, StateOK, CallsOK, Spool
<1>2. spool' = [spool EXCEPT ![c] = sp] /\ call' = [call EXCEPT ![c] = NoCall]
      /\ UNCHANGED <<managerVars, sessionVars, timeVars, mu, disk, actorVars, faults>>
  BY DEF Spool, Return
<1>3. NoCall \in Calls /\ NoCall.op = "none"
  BY DEF NoCall, Calls, Bytes
<1>4. hash[s] \in Bytes /\ buf[s] \in Bytes /\ hash[s] = IF s \in spilled THEN file[s] ELSE buf[s]
  BY <1>1 DEF IInv, StateOK, BytesOK
<1>5. sp \in Spools
  BY <1>1, <1>4 DEF Spools
<1>6. SpoolOK(sp)
  BY <1>1, <1>4, PrefixSelf DEF SpoolOK
<1>7. StateOK'
  BY <1>2, <1>3, <1>5 DEF IInv, StateOK, managerVars, sessionVars, timeVars, actorVars
<1>8. CallsOK'
  BY <1>2, <1>3 DEF IInv, StateOK, CallsOK, managerVars, sessionVars
<1>9. SpoolsOK'
  <2>1. \A q \in Caller : spool'[q] = IF q = c THEN sp ELSE spool[q]
    BY <1>2 DEF IInv, StateOK
  <2>2. \A q \in Caller : SpoolOK(spool'[q])
    BY <1>6, <2>1 DEF IInv, SpoolsOK
  <2> QED
    BY <1>2, <2>2 DEF SpoolsOK, SpoolOK, sessionVars
<1>10. RegistryOK' /\ BytesOK' /\ SweepOK' /\ ShutOK'
  BY <1>2 DEF IInv, RegistryOK, BytesOK, SweepOK, ShutOK, managerVars, sessionVars, actorVars
<1> QED
  BY <1>7, <1>8, <1>9, <1>10 DEF IInv

(***************************************************************************)
(* Removing a spool unlinks a file and captures nothing; dropping it less. *)
(***************************************************************************)
LEMMA RemoveSpoolIInv ==
  ASSUME IInv, NEW c \in Caller, RemoveSpool(c) \/ DropSpool(c)
  PROVE  IInv'
<1>1. UNCHANGED <<managerVars, sessionVars, timeVars, mu, call, actorVars>>
  BY DEF RemoveSpool, DropSpool
<1>2. disk' \subseteq disk /\ faults' \in Nat
  BY DEF IInv, StateOK, RemoveSpool, DropSpool, Fault
<1>3. spool[c] \in Spools /\ <<>> \in Bytes
  BY DEF IInv, StateOK, Bytes
<1>4. PICK sp \in Spools : spool' = [spool EXCEPT ![c] = sp] /\ SpoolOK(sp)
  <2>1. CASE DropSpool(c)
    <3>1. NoSpool \in Spools /\ SpoolOK(NoSpool)
      BY <1>3 DEF NoSpool, Spools, SpoolOK
    <3> QED
      BY <2>1, <3>1 DEF DropSpool
  <2>2. CASE RemoveSpool(c)
    <3> DEFINE sp == [spool[c] EXCEPT !.removed = TRUE, !.mem = <<>>]
    <3>1. spool' = [spool EXCEPT ![c] = sp]
      BY <2>2 DEF RemoveSpool, IInv, StateOK
    <3>2. sp \in Spools
      BY <1>3 DEF Spools
    <3>3. sp.path = spool[c].path /\ sp.sid = spool[c].sid /\ sp.digest = spool[c].digest /\ sp.removed
      BY <1>3 DEF Spools
    <3>4. SpoolOK(sp)
      BY <3>3 DEF IInv, SpoolsOK, SpoolOK
    <3> QED
      BY <3>1, <3>2, <3>4
  <2> QED
    BY <2>1, <2>2
<1>5. StateOK'
  BY <1>1, <1>2, <1>4 DEF IInv, StateOK, managerVars, sessionVars, timeVars, actorVars
<1>6. SpoolsOK'
  <2>1. \A q \in Caller : SpoolOK(spool'[q])
    BY <1>4 DEF IInv, StateOK, SpoolsOK
  <2> QED
    BY <1>1, <2>1 DEF SpoolsOK, SpoolOK, sessionVars
<1>7. CallsOK' /\ BytesOK' /\ SweepOK' /\ ShutOK'
  BY <1>1 DEF IInv, CallsOK, BytesOK, SweepOK, ShutOK, managerVars, sessionVars, actorVars
<1>8. RegistryOK'
  BY <1>1, <1>2 DEF IInv, RegistryOK, managerVars, sessionVars, actorVars
<1> QED
  BY <1>5, <1>6, <1>7, <1>8 DEF IInv

-----------------------------------------------------------------------------
(***************************************************************************)
(* Session.close, whatever it returns, closes for good a session nobody    *)
(* copies into; it counts as removed only without a file.                  *)
(***************************************************************************)
LEMMA CloseOK ==
  ASSUME IInv, NEW s \in Sid, CloseSucceeds(s) \/ CloseFails(s),
         UNCHANGED <<up, sessions, used, live, mu, spool>>, shut' = shut \/ shut'.pc = "forget"
  PROVE  /\ closed' = closed \cup {s} /\ removed \subseteq removed' /\ disk' \subseteq disk /\ mu[s] = None
         /\ CloseSucceeds(s) => s \in removed'
         /\ removed' \subseteq Sid /\ spilled' \subseteq Sid /\ buf' \in [Sid -> Bytes] /\ faults' \in Nat
         /\ UNCHANGED <<file, hash>>
         /\ RegistryOK' /\ BytesOK' /\ SpoolsOK'
<1>1. /\ closed' = closed \cup {s} /\ mu[s] = None
      /\ UNCHANGED <<file, hash>>
      /\ removed \subseteq removed' /\ removed' \subseteq removed \cup {s}
      /\ disk' \subseteq disk /\ (s \in removed' => s \notin disk')
      /\ spilled' \subseteq spilled /\ spilled \subseteq spilled' \cup {s}
      /\ CloseSucceeds(s) => s \in removed'
  BY DEF IInv, RegistryOK, CloseSucceeds, CloseFails, Free
<1>2. buf' \in [Sid -> Bytes] /\ \A t \in Sid \ {s} : buf'[t] = buf[t]
  <2>1. buf' = buf \/ buf' = [buf EXCEPT ![s] = <<>>]
    BY DEF CloseSucceeds, CloseFails
  <2>2. <<>> \in Bytes /\ buf \in [Sid -> Bytes]
    BY DEF IInv, StateOK, Bytes
  <2> QED
    BY <2>1, <2>2
<1>3. faults' \in Nat
  BY DEF IInv, StateOK, CloseSucceeds, CloseFails, Fault
<1>4. RegistryOK'
  BY <1>1 DEF IInv, RegistryOK
<1>5. BytesOK'
  BY <1>1, <1>2 DEF IInv, BytesOK
<1>6. SpoolsOK'
  BY <1>1 DEF IInv, SpoolsOK, SpoolOK
<1> QED
  BY <1>1, <1>2, <1>3, <1>4, <1>5, <1>6 DEF IInv, StateOK

(***************************************************************************)
(* A caller that closes a session goes on to forget it only if its file is *)
(* gone.                                                                   *)
(***************************************************************************)
LEMMA RemoveCloseIInv ==
  ASSUME IInv, NEW c \in Caller, RemoveClose(c) \/ RemoveFails(c)
  PROVE  IInv'
<1> DEFINE s == call[c].sid
<1>1. s \in live /\ s \in Sid /\ call[c].op = "close"
  BY DEF IInv, StateOK, CallsOK, RemoveClose, RemoveFails
<1>2. /\ CloseSucceeds(s) \/ CloseFails(s)
      /\ UNCHANGED <<up, sessions, used, live, idle, stale, mu, spool, sweep, shut>>
  BY DEF RemoveClose, RemoveFails, managerVars, timeVars, actorVars
<1>3. /\ closed' = closed \cup {s} /\ removed \subseteq removed' /\ disk' \subseteq disk /\ mu[s] = None
      /\ CloseSucceeds(s) => s \in removed'
      /\ removed' \subseteq Sid /\ spilled' \subseteq Sid /\ buf' \in [Sid -> Bytes] /\ faults' \in Nat
      /\ UNCHANGED <<file, hash>>
      /\ RegistryOK' /\ BytesOK' /\ SpoolsOK'
  BY <1>1, <1>2, CloseOK
<1>4. PICK k \in Calls : /\ call' = [call EXCEPT ![c] = k]
                         /\ k.op = "none" \/ (k.op = "forget" /\ k.sid = s /\ s \in removed')
  <2>1. CASE RemoveFails(c)
    <3>1. NoCall \in Calls /\ NoCall.op = "none"
      BY DEF NoCall, Calls, Bytes
    <3> QED
      BY <2>1, <3>1 DEF RemoveFails, Return
  <2>2. CASE RemoveClose(c)
    <3> DEFINE k == [call[c] EXCEPT !.op = "forget"]
    <3>1. call' = [call EXCEPT ![c] = k] /\ s \in removed'
      BY <1>3, <2>2 DEF RemoveClose, IInv, StateOK
    <3>2. k \in Calls /\ k.op = "forget" /\ k.sid = s
      BY DEF IInv, StateOK, Calls
    <3> QED
      BY <3>1, <3>2
  <2> QED
    BY <2>1, <2>2
<1>5. \A q \in Caller : call'[q] = IF q = c THEN k ELSE call[q]
  BY <1>4 DEF IInv, StateOK
<1>6. StateOK'
  BY <1>1, <1>2, <1>3, <1>4 DEF IInv, StateOK
<1>7. CallsOK'
  <2> SUFFICES ASSUME NEW q \in Caller
               PROVE  /\ call'[q].op # "none" => call'[q].sid \in live
                      /\ call'[q].op = "copy" => call'[q].sid \notin closed' /\ mu[call'[q].sid] = q
                      /\ call'[q].op = "forget" => call'[q].sid \in removed'
    BY <1>2 DEF CallsOK
  <2>1. CASE q = c
    BY <1>1, <1>4, <1>5, <2>1
  <2>2. CASE q # c
    BY <1>3, <1>5, <2>2, UploadAssumption DEF IInv, CallsOK
  <2> QED
    BY <2>1, <2>2
<1>8. SweepOK' /\ ShutOK'
  BY <1>2, <1>3 DEF IInv, SweepOK, ShutOK
<1> QED
  BY <1>3, <1>6, <1>7, <1>8 DEF IInv

(***************************************************************************)
(* The callers do not notice a session that somebody else closes.          *)
(***************************************************************************)
LEMMA CallsKeepClose ==
  ASSUME IInv, NEW s \in Sid, mu[s] = None, closed' = closed \cup {s}, removed \subseteq removed',
         UNCHANGED <<live, mu, call>>
  PROVE  CallsOK'
BY UploadAssumption DEF IInv, CallsOK

(***************************************************************************)
(* Remove forgets a session that is closed and has no file.                *)
(***************************************************************************)
LEMMA RemoveForgetIInv ==
  ASSUME IInv, NEW c \in Caller, RemoveForget(c)
  PROVE  IInv'
<1> DEFINE s == call[c].sid
<1>1. s \in removed /\ sessions' = sessions \ {s} /\ call' = [call EXCEPT ![c] = NoCall]
      /\ UNCHANGED <<up, used, live, sessionVars, timeVars, mu, disk, spool, actorVars, faults>>
  BY DEF IInv, CallsOK, RemoveForget, Forget, Return
<1>2. NoCall \in Calls /\ NoCall.op = "none"
  BY DEF NoCall, Calls, Bytes
<1>3. StateOK'
  BY <1>1, <1>2 DEF IInv, StateOK, sessionVars, timeVars, actorVars
<1>4. CallsOK'
  BY <1>1, <1>2 DEF IInv, StateOK, CallsOK, sessionVars
<1>5. RegistryOK'
  BY <1>1 DEF IInv, RegistryOK, sessionVars, actorVars
<1>6. BytesOK' /\ SpoolsOK' /\ SweepOK' /\ ShutOK'
  BY <1>1 DEF IInv, BytesOK, SpoolsOK, SpoolOK, SweepOK, ShutOK, sessionVars, actorVars
<1> QED
  BY <1>3, <1>4, <1>5, <1>6 DEF IInv

-----------------------------------------------------------------------------
(***************************************************************************)
(* The sweeper, once it has stopped, stays so: every step of it starts     *)
(* elsewhere.                                                              *)
(***************************************************************************)
LEMMA SweepIInv ==
  ASSUME IInv, SweepCollect \/ (\E s \in Sid : SweepCheck(s)) \/ SweepReturns
  PROVE  IInv'
<1>1. UNCHANGED <<managerVars, sessionVars, mu, disk, call, spool, shut, faults>>
  BY DEF SweepCollect, SweepCheck, SweepReturns, SweepUnchanged, managerVars
<1>2. /\ sweep' \in [pc : {"rest", "next", "close"}, expired : SUBSET Sid, cur : Sid \cup {None}]
      /\ sweep'.pc = "close" => sweep'.cur \in Sid
      /\ sweep.pc # "stopped" /\ idle' \subseteq Sid /\ stale' \subseteq Sid
  <2>1. CASE SweepCollect
    BY <2>1 DEF IInv, StateOK, SweepCollect
  <2>2. ASSUME NEW s \in Sid, SweepCheck(s)
        PROVE  <1>2
    BY <2>2 DEF IInv, StateOK, SweepCheck, timeVars
  <2>3. CASE SweepReturns
    BY <2>3 DEF IInv, StateOK, SweepReturns, Resting
  <2> QED
    BY <2>1, <2>2, <2>3
<1>3. StateOK' /\ SweepOK'
  BY <1>1, <1>2 DEF IInv, StateOK, SweepOK, managerVars, sessionVars
<1>4. CallsOK' /\ RegistryOK' /\ BytesOK'
  BY <1>1 DEF IInv, CallsOK, RegistryOK, BytesOK, managerVars, sessionVars
<1>5. SpoolsOK'
  BY <1>1 DEF IInv, SpoolsOK, SpoolOK, sessionVars
<1>6. ShutOK'
  BY <1>1, <1>2 DEF IInv, ShutOK, managerVars, sessionVars
<1> QED
  BY <1>3, <1>4, <1>5, <1>6 DEF IInv

(***************************************************************************)
(* The sweeper goes on to forget a session only if its file is gone.       *)
(***************************************************************************)
LEMMA SweepCloseIInv ==
  ASSUME IInv, SweepClose
  PROVE  IInv'
<1> DEFINE s == sweep.cur
<1>1. s \in Sid /\ sweep.pc = "close"
  BY DEF IInv, SweepOK, SweepClose
<1>2. /\ CloseSucceeds(s) \/ CloseFails(s)
      /\ UNCHANGED <<up, sessions, used, live, idle, stale, mu, call, spool, shut>>
  BY DEF SweepClose, SweepUnchanged, timeVars
<1>3. /\ closed' = closed \cup {s} /\ removed \subseteq removed' /\ disk' \subseteq disk /\ mu[s] = None
      /\ CloseSucceeds(s) => s \in removed'
      /\ removed' \subseteq Sid /\ spilled' \subseteq Sid /\ buf' \in [Sid -> Bytes] /\ faults' \in Nat
      /\ UNCHANGED <<file, hash>>
      /\ RegistryOK' /\ BytesOK' /\ SpoolsOK'
  BY <1>1, <1>2, CloseOK
<1>4. /\ sweep' \in [pc : {"next", "forget"}, expired : SUBSET Sid, cur : Sid \cup {None}]
      /\ sweep'.pc = "forget" => sweep'.cur = s /\ s \in removed'
  BY <1>1, <1>3 DEF IInv, StateOK, SweepClose
<1>5. StateOK'
  BY <1>1, <1>2, <1>3, <1>4 DEF IInv, StateOK
<1>6. CallsOK'
  BY <1>1, <1>2, <1>3, CallsKeepClose
<1>7. SweepOK' /\ ShutOK'
  BY <1>1, <1>2, <1>3, <1>4 DEF IInv, SweepOK, ShutOK
<1> QED
  BY <1>3, <1>5, <1>6, <1>7 DEF IInv

(***************************************************************************)
(* The sweeper forgets a session that is closed and has no file.           *)
(***************************************************************************)
LEMMA SweepForgetIInv ==
  ASSUME IInv, SweepForget
  PROVE  IInv'
<1>1. sweep.pc = "forget" /\ sweep.cur \in removed /\ sessions' = sessions \ {sweep.cur}
      /\ UNCHANGED <<up, used, live, sessionVars, timeVars, mu, disk, call, spool, shut, faults>>
  BY DEF IInv, SweepOK, SweepForget, SweepUnchanged, Forget
<1>2. sweep' \in [pc : {"next"}, expired : SUBSET Sid, cur : {None}]
  BY DEF IInv, StateOK, SweepForget
<1>3. StateOK' /\ SweepOK'
  BY <1>1, <1>2 DEF IInv, StateOK, SweepOK, sessionVars, timeVars
<1>4. CallsOK' /\ BytesOK'
  BY <1>1 DEF IInv, CallsOK, BytesOK, sessionVars
<1>5. RegistryOK'
  BY <1>1 DEF IInv, RegistryOK, sessionVars
<1>6. SpoolsOK' /\ ShutOK'
  BY <1>1 DEF IInv, SpoolsOK, SpoolOK, ShutOK, sessionVars
<1> QED
  BY <1>3, <1>4, <1>5, <1>6 DEF IInv

-----------------------------------------------------------------------------
(***************************************************************************)
(* Close begins with every open session on its list, waits for the sweeper *)
(* and returns when the list is empty.                                     *)
(***************************************************************************)
LEMMA ShutIInv ==
  ASSUME IInv, CloseBegin \/ CloseStop \/ CloseReturns
  PROVE  IInv'
<1>1. UNCHANGED <<managerVars, sessionVars, timeVars, mu, disk, call, spool, faults>>
  BY DEF CloseBegin, CloseStop, CloseReturns, ShutUnchanged, managerVars
<1>2. StateOK'
  BY <1>1 DEF IInv, StateOK, CloseBegin, CloseStop, CloseReturns, managerVars, sessionVars, timeVars
<1>3. CallsOK' /\ BytesOK' /\ SpoolsOK'
  BY <1>1 DEF IInv, CallsOK, BytesOK, SpoolsOK, SpoolOK, managerVars, sessionVars
<1>4. SweepOK'
  BY <1>1 DEF IInv, StateOK, SweepOK, CloseBegin, CloseStop, CloseReturns, sessionVars
<1>5. RegistryOK' /\ ShutOK'
  <2>1. CASE CloseBegin
    BY <1>1, <2>1 DEF IInv, StateOK, RegistryOK, ShutOK, CloseBegin, managerVars, sessionVars
  <2>2. CASE CloseStop
    BY <1>1, <2>2 DEF IInv, StateOK, RegistryOK, ShutOK, CloseStop, managerVars, sessionVars
  <2>3. CASE CloseReturns
    BY <1>1, <2>3 DEF IInv, StateOK, RegistryOK, ShutOK, CloseReturns, managerVars, sessionVars
  <2> QED
    BY <2>1, <2>2, <2>3
<1> QED
  BY <1>2, <1>3, <1>4, <1>5 DEF IInv

(***************************************************************************)
(* Close takes a session off its list when it has closed it.               *)
(***************************************************************************)
LEMMA CloseOneIInv ==
  ASSUME IInv, NEW s \in Sid, CloseOne(s)
  PROVE  IInv'
<1>1. /\ shut.pc = "next"
      /\ shut' = [shut EXCEPT !.pc = "forget", !.left = @ \ {s}, !.cur = s]
      /\ CloseSucceeds(s) \/ CloseFails(s)
      /\ UNCHANGED <<up, sessions, used, live, idle, stale, mu, call, spool, sweep>>
  BY DEF CloseOne, ShutUnchanged, timeVars
<1>2. /\ shut' \in [pc : {"forget"}, left : SUBSET Sid, cur : {s}]
      /\ shut'.left = shut.left \ {s}
  BY <1>1 DEF IInv, StateOK
<1>3. /\ closed' = closed \cup {s} /\ removed \subseteq removed' /\ disk' \subseteq disk /\ mu[s] = None
      /\ removed' \subseteq Sid /\ spilled' \subseteq Sid /\ buf' \in [Sid -> Bytes] /\ faults' \in Nat
      /\ UNCHANGED <<file, hash>>
      /\ RegistryOK' /\ BytesOK' /\ SpoolsOK'
  BY <1>1, <1>2, CloseOK
<1>4. StateOK'
  BY <1>1, <1>2, <1>3 DEF IInv, StateOK
<1>5. CallsOK'
  BY <1>1, <1>3, CallsKeepClose
<1>6. SweepOK' /\ ShutOK'
  BY <1>1, <1>2, <1>3 DEF IInv, SweepOK, ShutOK
<1> QED
  BY <1>3, <1>4, <1>5, <1>6 DEF IInv

(***************************************************************************)
(* Close forgets a session it has closed, with or without its file.        *)
(***************************************************************************)
LEMMA CloseForgetIInv ==
  ASSUME IInv, CloseForget
  PROVE  IInv'
<1>1. /\ shut.pc = "forget" /\ shut.cur \in closed /\ sessions' = sessions \ {shut.cur}
      /\ UNCHANGED <<up, used, live, sessionVars, timeVars, mu, disk, call, spool, sweep, faults>>
  BY DEF IInv, ShutOK, CloseForget, ShutUnchanged, Forget
<1>2. shut' \in [pc : {"next"}, left : SUBSET Sid, cur : {None}] /\ shut'.left = shut.left
  BY DEF IInv, StateOK, CloseForget
<1>3. StateOK'
  BY <1>1, <1>2 DEF IInv, StateOK, sessionVars, timeVars
<1>4. CallsOK' /\ BytesOK'
  BY <1>1 DEF IInv, CallsOK, BytesOK, sessionVars
<1>5. RegistryOK' /\ ShutOK'
  BY <1>1, <1>2 DEF IInv, RegistryOK, ShutOK, sessionVars
<1>6. SpoolsOK' /\ SweepOK'
  BY <1>1 DEF IInv, SpoolsOK, SpoolOK, SweepOK, sessionVars
<1> QED
  BY <1>3, <1>4, <1>5, <1>6 DEF IInv

(***************************************************************************)
(* A crash leaves a process without sessions, calls or spools.             *)
(***************************************************************************)
LEMMA CrashIInv ==
  ASSUME IInv, Crash
  PROVE  IInv'
<1>1. <<>> \in Bytes /\ NoCall \in Calls /\ NoSpool \in Spools
  BY DEF Bytes, NoCall, NoSpool, Calls, Spools
<1>2. StateOK'
  <2>1. faults' \in Nat /\ used' \subseteq Sid /\ disk' \subseteq Sid
    BY DEF IInv, StateOK, Crash, Fault
  <2> QED
    BY <1>1, <2>1 DEF StateOK, Crash, Resting, Serving
<1>3. CallsOK' /\ RegistryOK' /\ BytesOK' /\ SweepOK' /\ ShutOK'
  BY DEF IInv, StateOK, Crash, NoCall, Resting, Serving, CallsOK, RegistryOK, BytesOK, SweepOK, ShutOK
<1>4. SpoolsOK'
  BY DEF Crash, NoSpool, SpoolsOK, SpoolOK
<1> QED
  BY <1>2, <1>3, <1>4 DEF IInv

(***************************************************************************)
(* NewManager starts with an empty upload directory.                       *)
(***************************************************************************)
LEMMA NewManagerIInv ==
  ASSUME IInv, NewManager
  PROVE  IInv'
<1>1. StateOK'
  BY DEF IInv, StateOK, NewManager, sessionVars, timeVars, actorVars
<1>2. CallsOK' /\ RegistryOK' /\ BytesOK'
  BY DEF IInv, CallsOK, RegistryOK, BytesOK, NewManager, sessionVars, actorVars
<1>3. SpoolsOK' /\ SweepOK' /\ ShutOK'
  BY DEF IInv, SpoolsOK, SpoolOK, SweepOK, ShutOK, NewManager, sessionVars, actorVars
<1> QED
  BY <1>1, <1>2, <1>3 DEF IInv

-----------------------------------------------------------------------------
(***************************************************************************)
(* Every step of a caller keeps the invariant.                             *)
(***************************************************************************)
LEMMA CallerIInv ==
  ASSUME IInv, NEW c \in Caller, CallerNext(c)
  PROVE  IInv'
<1>0. StateOK /\ NoCall \in Calls /\ NoCall.op = "none" /\ <<>> \in Bytes
  BY DEF IInv, NoCall, Calls, Bytes
<1>1. ASSUME NEW s \in Sid, NEW body \in Bodies, AppendEnter(c, s, body)
      PROVE  IInv'
  <2>1. [op |-> "append", sid |-> s, rest |-> body] \in Calls
    BY UploadAssumption DEF Calls, Bytes
  <2> QED
    BY <1>0, <1>1, <2>1, CallIInv DEF AppendEnter, Enter, touch, StateOK
<1>2. ASSUME NEW s \in Sid, SpoolEnter(c, s)
      PROVE  IInv'
  <2>1. [op |-> "spool", sid |-> s, rest |-> <<>>] \in Calls
    BY <1>0 DEF Calls
  <2> QED
    BY <1>0, <1>2, <2>1, CallIInv DEF SpoolEnter, Enter, touch, StateOK
<1>3. ASSUME NEW s \in Sid, RemoveStart(c, s)
      PROVE  IInv'
  <2>1. [op |-> "close", sid |-> s, rest |-> <<>>] \in Calls
    BY <1>0 DEF Calls
  <2>2. s \in live
    BY <1>3 DEF IInv, RegistryOK, RemoveStart
  <2> QED
    BY <1>0, <1>3, <2>1, <2>2, CallIInv DEF RemoveStart, timeVars, StateOK
<1>4. CASE AppendUnknown(c) \/ SpoolUnknown(c)
  BY <1>0, <1>4, CallIInv DEF AppendUnknown, SpoolUnknown, Return, touch, timeVars, StateOK
<1>5. CASE AppendDone(c) \/ AppendFails(c)
  BY <1>0, <1>5, AppendEndsIInv DEF AppendDone, AppendFails, Fault, StateOK
<1>6. CASE OpenSpool(c)
  BY <1>0, <1>6, TouchIInv DEF OpenSpool, touch, StateOK
<1> QED
  BY <1>1, <1>2, <1>3, <1>4, <1>5, <1>6, AppendStartIInv, AppendWriteIInv, SpoolIInv,
     RemoveSpoolIInv, RemoveCloseIInv, RemoveForgetIInv
  DEF CallerNext

(***************************************************************************)
(* Every step keeps the invariant.                                         *)
(***************************************************************************)
LEMMA NextIInv == IInv /\ [Next]_vars => IInv'
<1> SUFFICES ASSUME IInv, [Next]_vars PROVE IInv'
  OBVIOUS
<1>0. StateOK
  BY DEF IInv
<1>1. ASSUME NEW s \in Sid, GetTouch(s) \/ TimePasses(s)
      PROVE  IInv'
  BY <1>0, <1>1, TouchIInv DEF GetTouch, TimePasses, touch, StateOK
<1>2. CASE SweeperNext
  BY <1>2, SweepIInv, SweepCloseIInv, SweepForgetIInv DEF SweeperNext
<1>3. CASE CloserNext
  BY <1>3, ShutIInv, CloseOneIInv, CloseForgetIInv DEF CloserNext, CloserProceeds
<1>4. CASE UNCHANGED vars
  BY <1>0, <1>4, TouchIInv DEF vars, timeVars, StateOK
<1> QED
  BY <1>1, <1>2, <1>3, <1>4, CallerIInv, CreateIInv, CrashIInv, NewManagerIInv DEF Next

(***************************************************************************)
(* The invariant implies what package upload promises to disk and readers. *)
(***************************************************************************)
LEMMA IInvSafety == IInv => UploadSafety
<1> SUFFICES ASSUME IInv PROVE UploadSafety
  OBVIOUS
<1>1. ForgottenLeavesNoFile
  BY DEF IInv, RegistryOK, ForgottenLeavesNoFile
<1>2. SpoolReadsItsDigest
  <2> SUFFICES ASSUME NEW c \in Caller, ~spool[c].removed
               PROVE  ReadSpool(spool[c]) = spool[c].digest
    BY DEF SpoolReadsItsDigest
  <2>1. SpoolOK(spool[c]) /\ spool[c] \in Spools
    BY DEF IInv, SpoolsOK, StateOK
  <2>2. CASE ~spool[c].path
    BY <2>1, <2>2 DEF SpoolOK, ReadSpool
  <2>3. CASE spool[c].path
    <3>1. Prefix(spool[c].digest, file[spool[c].sid]) /\ file[spool[c].sid] \in Bytes /\ spool[c].digest \in Bytes
      BY <2>1, <2>3 DEF SpoolOK, IInv, StateOK, Spools
    <3>2. ~(Len(file[spool[c].sid]) < Len(spool[c].digest))
      BY <3>1, LenProperties DEF Prefix, Bytes
    <3> QED
      BY <2>3, <3>1, <3>2 DEF Prefix, ReadSpool
  <2> QED
    BY <2>1, <2>2, <2>3 DEF Spools
<1>3. NoCopyIntoClosed
  BY DEF IInv, CallsOK, NoCopyIntoClosed
<1>4. ClosedManagerIsEmpty
  BY DEF IInv, ShutOK, ClosedManagerIsEmpty
<1> QED
  BY <1>1, <1>2, <1>3, <1>4 DEF UploadSafety

(***************************************************************************)
(* The invariant holds in every reachable state, for every set of callers, *)
(* sessions and bodies and every limit.                                    *)
(***************************************************************************)
THEOREM Invariant == Spec => []IInv
BY InitIInv, NextIInv, PTL DEF Spec

(***************************************************************************)
(* Package upload keeps its promises: a session that is gone from the map  *)
(* has left no file unless Close forgot it, a spool reads back the bytes   *)
(* its digest was taken of, nothing is copied into a closed session, and   *)
(* when Close has returned every session is closed and none is registered. *)
(***************************************************************************)
THEOREM UploadSafetyHolds == Spec => []UploadSafety
BY Invariant, IInvSafety, PTL

-----------------------------------------------------------------------------
(***************************************************************************)
(* The upload handlers for any number of handlers, sessions, bodies and    *)
(* faults: what package upload guarantees still holds of the server, a     *)
(* Content-Range that was accepted is where the bytes go, stored bytes     *)
(* have their digest, and sessions survive whole or end.                   *)
(*                                                                         *)
(* The argument is one of ownership.  A handler past the session's lock    *)
(* has the session to itself: it holds sessLocks[id], or it is a           *)
(* monolithic POST whose id nobody was told.  So between the look at the   *)
(* offset and the first write, and between the digest check and the last   *)
(* read, nobody else appends; only the sweeper and Close may come in       *)
(* between, and they do not change what a session's hash has seen.         *)
(***************************************************************************)
HandlerPlaces ==
  {"idle", "lock", "touch", "range", "append", "appending", "copy", "finalize", "spooling", "put",
   "storing", "published", "discard", "discarding", "unspool", "done"}

ReqType ==
  [op : {"none", "get", "delete", "patch", "put", "mono"}, sid : Sid \cup {None}, body : Bytes,
   start : {None} \cup Starts, want : Bytes]

TypesOK ==
  /\ hpc \in [Caller -> HandlerPlaces]
  /\ req \in [Caller -> ReqType]
  /\ sessLock \in [Sid -> Caller \cup {None}]
  /\ announced \subseteq used
  /\ spilled \subseteq live
  /\ ~up => live = {}
  /\ faults <= MaxFaults

Busy(h) == hpc[h] # "idle"
SidOf(h) == req[h].sid

\* Who may work on the session.
Owns(h) ==
  /\ ~Busy(h) => spool[h] = NoSpool
  /\ Busy(h) =>
       /\ up /\ SidOf(h) \in used
       /\ Monolithic(h) => SidOf(h) \in live \ announced /\ hpc[h] \notin {"lock", "touch", "range"}
       /\ ~Monolithic(h) => SidOf(h) \in announced
       /\ ~Monolithic(h) /\ hpc[h] # "lock" => sessLock[SidOf(h)] = h
  /\ spool[h] # NoSpool => spool[h].sid = SidOf(h)

\* The call of package upload a handler is in.
Calling(h) ==
  /\ hpc[h] = "appending" => call[h].op = "append" /\ call[h].sid = SidOf(h) /\ call[h].rest = req[h].body
  /\ hpc[h] = "copy" => call[h].op = "copy" /\ call[h].sid = SidOf(h)
  /\ hpc[h] = "spooling" => call[h].op = "spool" /\ call[h].sid = SidOf(h)
  /\ hpc[h] = "discarding" => call[h].op \in {"close", "forget"} /\ call[h].sid = SidOf(h)
  /\ hpc[h] \notin {"appending", "copy", "spooling", "discarding"} => call[h].op = "none"

\* From the accepted Content-Range on, the offset is where the range says.
Ranged(h) ==
  /\ req[h].op # "patch" => req[h].start = None
  /\ req[h].start # None =>
       /\ hpc[h] \in {"append", "appending"} =>
            req[h].start \in Nat /\ Len(hash[SidOf(h)]) = req[h].start
       /\ hpc[h] = "copy" =>
            /\ req[h].start \in Nat
            /\ Len(hash[SidOf(h)]) = req[h].start + Len(req[h].body) - Len(call[h].rest)

\* From the digest check to the publication the spool is the one that was checked.
Checked(h) ==
  hpc[h] \in {"put", "storing"} =>
    spool[h] # NoSpool /\ ~spool[h].removed /\ spool[h].digest = req[h].want

\* A session that was discarded is over.
Over(h) ==
  /\ hpc[h] = "unspool" => SidOf(h) \notin live \ closed
  /\ hpc[h] \in {"unspool", "done"} /\ Monolithic(h) =>
       SidOf(h) \in closed /\ (SidOf(h) \in sessions => faults < MaxFaults)

HandlerOK(h) == Owns(h) /\ Calling(h) /\ Ranged(h) /\ Checked(h) /\ Over(h)

\* No two monolithic POSTs have one session.
Apart ==
  \A g, h \in Caller :
    g # h /\ Busy(g) /\ Busy(h) /\ Monolithic(g) /\ Monolithic(h) => SidOf(g) # SidOf(h)

Discards(h, s) == SidOf(h) = s /\ hpc[h] \in {"discard", "discarding"}

\* An open session without its file is on its way out.
Survivors ==
  \A s \in live \ closed : s \in spilled \ disk => \E h \in Caller : Discards(h, s)

SInv ==
  /\ IInv /\ TypesOK /\ Apart /\ Survivors /\ BlobsMatchDigest
  /\ \A h \in Caller : HandlerOK(h)

-----------------------------------------------------------------------------
(***************************************************************************)
(* What a step of package upload may do to the sessions of others: only    *)
(* those in T get bytes, and only those in R lose a file they still need.  *)
(* A session is never reopened, and one that existed is never registered   *)
(* again.                                                                  *)
(***************************************************************************)
Frame(T, R) ==
  /\ up' = up
  /\ used \subseteq used' /\ live \subseteq live' /\ live' \cap used \subseteq live
  /\ sessions' \cap used \subseteq sessions
  /\ closed \subseteq closed'
  /\ spilled' \subseteq live'
  /\ faults' <= faults
  /\ \A s \in Sid \ T : hash'[s] = hash[s]
  /\ \A s \in live' \ closed' : s \in spilled' \ disk' => s \in R \/ (s \in live \ closed /\ s \in spilled \ disk)

(***************************************************************************)
(* Time, touches and the bookkeeping of calls.                             *)
(***************************************************************************)
LEMMA FrameQuiet ==
  ASSUME IInv, TypesOK, UNCHANGED <<managerVars, sessionVars, disk, faults>>
  PROVE  Frame({}, {})
<1>1. faults \in Nat
  BY DEF IInv, StateOK
<1> QED
  BY <1>1 DEF Frame, managerVars, sessionVars, TypesOK

(***************************************************************************)
(* Create.                                                                 *)
(***************************************************************************)
LEMMA FrameCreate ==
  ASSUME IInv, TypesOK, NEW s \in Sid, Create(s)
  PROVE  Frame({}, {})
<1>1. faults \in Nat /\ live \subseteq used
  BY DEF IInv, StateOK, RegistryOK
<1> QED
  BY <1>1 DEF Frame, Create, sessionVars, TypesOK

(***************************************************************************)
(* A write.                                                                *)
(***************************************************************************)
LEMMA FrameWrite ==
  ASSUME IInv, TypesOK, NEW c \in Caller, AppendWrite(c)
  PROVE  Frame({call[c].sid}, {})
<1>1. faults \in Nat /\ hash \in [Sid -> Bytes]
  BY DEF IInv, StateOK
<1>2. call[c].sid \in live
  BY DEF IInv, CallsOK, AppendWrite
<1>3. write(call[c].sid, Head(call[c].rest)) /\ UNCHANGED <<up, used, live, sessions, closed, faults>>
  BY DEF AppendWrite, managerVars
<1>4. \A t \in Sid \ {call[c].sid} : hash'[t] = hash[t]
  BY <1>1, <1>3 DEF write
<1>5. spilled' \ disk' \subseteq spilled \ disk /\ spilled' \subseteq spilled \cup {call[c].sid}
  BY <1>3 DEF write
<1> QED
  BY <1>1, <1>2, <1>3, <1>4, <1>5 DEF Frame, TypesOK

(***************************************************************************)
(* The end of an Append.                                                   *)
(***************************************************************************)
LEMMA FrameAppendEnds ==
  ASSUME IInv, TypesOK, NEW c \in Caller, AppendDone(c) \/ AppendFails(c)
  PROVE  Frame({}, {})
<1>1. faults \in Nat
  BY DEF IInv, StateOK
<1>2. faults' = faults \/ faults' = faults - 1
  BY DEF AppendDone, AppendFails, Fault
<1>3. disk \subseteq disk' /\ UNCHANGED <<up, used, live, sessions, closed, spilled, hash>>
  BY DEF AppendDone, AppendFails, AppendEnds, managerVars, sessionVars
<1> QED
  BY <1>1, <1>2, <1>3 DEF Frame, TypesOK

(***************************************************************************)
(* A spool removes its own session's file.                                 *)
(***************************************************************************)
LEMMA FrameRemoveSpool ==
  ASSUME IInv, TypesOK, NEW c \in Caller, RemoveSpool(c)
  PROVE  Frame({}, {spool[c].sid})
<1>1. faults \in Nat
  BY DEF IInv, StateOK
<1>2. faults' = faults \/ faults' = faults - 1
  BY DEF RemoveSpool, Fault
<1>3. disk \subseteq disk' \cup {spool[c].sid} /\ UNCHANGED <<up, used, live, sessions, closed, spilled, hash>>
  BY DEF RemoveSpool, managerVars, sessionVars
<1> QED
  BY <1>1, <1>2, <1>3 DEF Frame, TypesOK

(***************************************************************************)
(* Session.close closes what it takes a file from.                         *)
(***************************************************************************)
LEMMA FrameClose ==
  ASSUME IInv, TypesOK, NEW s \in Sid, CloseSucceeds(s) \/ CloseFails(s), UNCHANGED <<up, sessions, used, live>>
  PROVE  Frame({}, {}) /\ s \in closed' /\ (CloseFails(s) => faults' < faults)
<1>1. faults \in Nat
  BY DEF IInv, StateOK
<1>2. faults' = faults \/ faults' = faults - 1
  BY DEF CloseSucceeds, CloseFails, Fault
<1>3. /\ closed' = closed \cup {s} /\ UNCHANGED hash
      /\ disk \subseteq disk' \cup {s} /\ spilled' \subseteq spilled
  BY DEF CloseSucceeds, CloseFails
<1>4. CloseFails(s) => faults' = faults - 1
  BY DEF CloseFails, Fault
<1> QED
  BY <1>1, <1>2, <1>3, <1>4 DEF Frame, TypesOK

(***************************************************************************)
(* Forgetting a session.                                                   *)
(***************************************************************************)
LEMMA FrameForget ==
  ASSUME IInv, TypesOK, sessions' \subseteq sessions, UNCHANGED <<up, used, live, sessionVars, disk, faults>>
  PROVE  Frame({}, {})
<1>1. faults \in Nat
  BY DEF IInv, StateOK
<1> QED
  BY <1>1 DEF Frame, sessionVars, TypesOK

(***************************************************************************)
(* The sweeper, Close and time.                                            *)
(***************************************************************************)
LEMMA FrameBackground ==
  ASSUME IInv, TypesOK, SweeperNext \/ CloserNext \/ \E s \in Sid : TimePasses(s)
  PROVE  Frame({}, {}) /\ UNCHANGED <<call, spool, live>>
<1>1. ASSUME NEW s \in Sid, TimePasses(s) PROVE Frame({}, {}) /\ UNCHANGED <<call, spool, live>>
  BY <1>1, FrameQuiet DEF TimePasses, managerVars
<1>2. CASE SweepCollect \/ (\E s \in Sid : SweepCheck(s)) \/ SweepReturns
  <2>1. UNCHANGED <<managerVars, sessionVars, disk, faults, call, spool>>
    BY <1>2 DEF SweepCollect, SweepCheck, SweepReturns, SweepUnchanged, managerVars
  <2> QED
    BY <2>1, FrameQuiet DEF managerVars
<1>3. CASE SweepClose
  <2>1. sweep.cur \in Sid
    BY <1>3 DEF IInv, SweepOK, SweepClose
  <2>2. UNCHANGED <<up, sessions, used, live, call, spool>>
    BY <1>3 DEF SweepClose, SweepUnchanged
  <2>3. CloseSucceeds(sweep.cur) \/ CloseFails(sweep.cur)
    BY <1>3 DEF SweepClose
  <2> QED
    BY <2>1, <2>2, <2>3, FrameClose
<1>4. CASE SweepForget
  <2>1. sessions' \subseteq sessions /\ UNCHANGED <<up, used, live, sessionVars, disk, faults, call, spool>>
    BY <1>4 DEF SweepForget, Forget, SweepUnchanged
  <2> QED
    BY <2>1, FrameForget
<1>5. CASE CloseBegin \/ CloseStop \/ CloseReturns
  <2>1. UNCHANGED <<managerVars, sessionVars, disk, faults, call, spool>>
    BY <1>5 DEF CloseBegin, CloseStop, CloseReturns, ShutUnchanged, managerVars
  <2> QED
    BY <2>1, FrameQuiet DEF managerVars
<1>6. ASSUME NEW s \in Sid, CloseOne(s) PROVE Frame({}, {}) /\ UNCHANGED <<call, spool, live>>
  <2>1. UNCHANGED <<up, sessions, used, live, call, spool>> /\ (CloseSucceeds(s) \/ CloseFails(s))
    BY <1>6 DEF CloseOne, ShutUnchanged
  <2> QED
    BY <2>1, FrameClose
<1>7. CASE CloseForget
  <2>1. sessions' \subseteq sessions /\ UNCHANGED <<up, used, live, sessionVars, disk, faults, call, spool>>
    BY <1>7 DEF CloseForget, Forget, ShutUnchanged
  <2> QED
    BY <2>1, FrameForget
<1> QED
  BY <1>1, <1>2, <1>3, <1>4, <1>5, <1>6, <1>7 DEF SweeperNext, CloserNext, CloserProceeds

-----------------------------------------------------------------------------
(***************************************************************************)
(* A handler past the session's lock has the session to itself.            *)
(***************************************************************************)
Past(h) == hpc[h] \notin {"idle", "lock"}

LEMMA Ownership ==
  ASSUME SInv, NEW g \in Caller, NEW h \in Caller, g # h, Past(g), Past(h)
  PROVE  SidOf(g) # SidOf(h)
<1>1. Owns(g) /\ Owns(h) /\ Busy(g) /\ Busy(h) /\ hpc[g] # "lock" /\ hpc[h] # "lock" /\ Apart
  BY DEF SInv, HandlerOK, Past, Busy
<1>2. CASE Monolithic(g) /\ Monolithic(h)
  BY <1>1, <1>2 DEF Apart
<1>3. CASE Monolithic(g) /\ ~Monolithic(h)
  BY <1>1, <1>3 DEF Owns
<1>5. CASE ~Monolithic(g) /\ Monolithic(h)
  BY <1>1, <1>5 DEF Owns
<1>4. CASE ~Monolithic(g) /\ ~Monolithic(h)
  BY <1>1, <1>4 DEF Owns
<1> QED
  BY <1>2, <1>3, <1>4, <1>5

(***************************************************************************)
(* What a handler has come to survives a step of somebody else.            *)
(***************************************************************************)
LEMMA OtherHandler ==
  ASSUME IInv, IInv', TypesOK, NEW g \in Caller, HandlerOK(g), NEW T, NEW R, Frame(T, R),
         hpc'[g] = hpc[g], req'[g] = req[g], call'[g] = call[g], spool'[g] = spool[g],
         announced \subseteq announced', announced' \cap used \subseteq announced,
         Past(g) /\ sessLock[SidOf(g)] = g => sessLock'[SidOf(g)] = g,
         hpc[g] \in {"append", "appending", "copy"} => SidOf(g) \notin T
  PROVE  HandlerOK(g)'
<1>1. SidOf(g)' = SidOf(g) /\ Monolithic(g)' = Monolithic(g) /\ Busy(g)' = Busy(g)
  BY DEF SidOf, Monolithic, Busy
<1>2. Owns(g)'
  BY <1>1 DEF HandlerOK, Owns, Frame, Past, Busy
<1>3. Calling(g)'
  BY <1>1 DEF HandlerOK, Calling
<1>4. Ranged(g)'
  <2>1. hpc[g] \in {"append", "appending", "copy"} => hash'[SidOf(g)] = hash[SidOf(g)]
    <3>1. hpc[g] # "idle" => SidOf(g) \in Sid
      BY DEF HandlerOK, Owns, Busy, IInv, StateOK
    <3> QED
      BY <3>1 DEF Frame
  <2> QED
    BY <1>1, <2>1 DEF HandlerOK, Ranged
<1>5. Checked(g)'
  BY DEF HandlerOK, Checked
<1>6. Over(g)'
  <2>1. Busy(g) => SidOf(g) \in used
    BY DEF HandlerOK, Owns
  <2>2. faults < MaxFaults => faults' < MaxFaults
    BY UploadAssumption DEF Frame, IInv, StateOK
  <2>3. hpc[g] \in {"unspool", "done"} => Busy(g)
    BY DEF Busy
  <2>4. Over(g) /\ closed \subseteq closed' /\ live' \cap used \subseteq live /\ sessions' \cap used \subseteq sessions
    BY DEF HandlerOK, Frame
  <2> QED
    BY <1>1, <2>1, <2>2, <2>3, <2>4 DEF Over
<1> QED
  BY <1>2, <1>3, <1>4, <1>5, <1>6 DEF HandlerOK

(***************************************************************************)
(* Nobody but the handler that discards it works on a session that has     *)
(* lost its file.                                                          *)
(***************************************************************************)
LEMMA NotLost ==
  ASSUME SInv, NEW h \in Caller, Past(h), hpc[h] \notin {"discard", "discarding"}, SidOf(h) \in live \ closed
  PROVE  SidOf(h) \notin spilled \ disk
<1> SUFFICES ASSUME SidOf(h) \in spilled \ disk PROVE FALSE
  OBVIOUS
<1>1. PICK g \in Caller : Discards(g, SidOf(h))
  BY DEF SInv, Survivors
<1>2. g # h /\ Past(g) /\ SidOf(g) = SidOf(h)
  BY <1>1 DEF Discards, Past
<1> QED
  BY <1>2, Ownership

(***************************************************************************)
(* The sessions that have lost their file after a step of h.               *)
(***************************************************************************)
LEMMA SurvivorsStep ==
  ASSUME SInv, NEW h \in Caller, NEW T, NEW R, Frame(T, R),
         \A g \in Caller \ {h} : hpc'[g] = hpc[g] /\ req'[g] = req[g],
         \A s \in R : Discards(h, s)',
         \A s \in live' \ closed' : Discards(h, s) => Discards(h, s)'
  PROVE  Survivors'
<1> SUFFICES ASSUME NEW s \in live' \ closed', s \in spilled' \ disk'
             PROVE  \E g \in Caller : Discards(g, s)'
  BY DEF Survivors
<1>1. s \in R \/ (s \in live \ closed /\ s \in spilled \ disk)
  BY DEF Frame
<1>2. CASE s \in R
  BY <1>2
<1>3. CASE s \in live \ closed /\ s \in spilled \ disk
  <2>1. PICK g \in Caller : Discards(g, s)
    BY <1>3 DEF SInv, Survivors
  <2>2. CASE g = h
    BY <2>1, <2>2
  <2>3. CASE g # h
    <3>1. Discards(g, s)'
      BY <2>1, <2>3 DEF Discards, SidOf
    <3> QED
      BY <3>1
  <2> QED
    BY <2>2, <2>3
<1> QED
  BY <1>1, <1>2, <1>3

(***************************************************************************)
(* A step of a handler that has its session to itself.                     *)
(***************************************************************************)
LEMMA WorkStep ==
  ASSUME SInv, IInv', NEW h \in Caller, Past(h), NEW w \in HandlerPlaces \ {"idle", "lock", "touch"},
         hpc' = [hpc EXCEPT ![h] = w],
         UNCHANGED <<req, sessLock, announced>>, BlobsMatchDigest',
         NEW T \in SUBSET {SidOf(h)}, NEW R \in SUBSET {SidOf(h)}, Frame(T, R),
         \A g \in Caller \ {h} : call'[g] = call[g] /\ spool'[g] = spool[g],
         spool'[h] = NoSpool \/ spool'[h].sid = SidOf(h),
         w = "range" => ~Monolithic(h),
         R # {} => w = "discard",
         hpc[h] \in {"discard", "discarding"} => w \in {"discard", "discarding"} \/ SidOf(h) \notin live' \ closed',
         Calling(h)', Ranged(h)', Checked(h)', Over(h)'
  PROVE  SInv'
<1>1. IInv /\ TypesOK /\ Apart /\ Survivors /\ HandlerOK(h)
  BY DEF SInv
<1>2. hpc'[h] = w /\ \A g \in Caller \ {h} : hpc'[g] = hpc[g]
  BY <1>1 DEF TypesOK
<1>3. ASSUME NEW g \in Caller PROVE SidOf(g)' = SidOf(g) /\ Monolithic(g)' = Monolithic(g) /\ Busy(g)' = Busy(g)
  <2>1. Busy(g)' = Busy(g)
    BY <1>2 DEF Busy, Past
  <2> QED
    BY <2>1 DEF SidOf, Monolithic
<1>4. Busy(h) /\ hpc[h] # "lock" /\ w # "lock" /\ w # "touch"
  BY DEF Busy, Past
<1>5. Owns(h)'
  BY <1>1, <1>2, <1>3, <1>4 DEF HandlerOK, Owns, Frame
<1>6. HandlerOK(h)'
  BY <1>5 DEF HandlerOK
<1>7. ASSUME NEW g \in Caller, g # h PROVE HandlerOK(g)'
  <2>1. HandlerOK(g)
    BY DEF SInv
  <2>2. hpc[g] \in {"append", "appending", "copy"} => SidOf(g) \notin T
    BY <1>7, Ownership DEF Past
  <2> QED
    BY <1>1, <1>2, <1>7, <2>1, <2>2, OtherHandler
<1>8. Apart'
  BY <1>1, <1>3 DEF Apart
<1>9. Survivors'
  <2>1. \A s \in R : Discards(h, s)'
    BY <1>2, <1>3 DEF Discards
  <2>2. \A s \in live' \ closed' : Discards(h, s) => Discards(h, s)'
    BY <1>2, <1>3 DEF Discards
  <2> QED
    BY <1>2, <2>1, <2>2, SurvivorsStep
<1>10. TypesOK'
  <2>1. up /\ up'
    BY <1>1, <1>4 DEF HandlerOK, Owns, Frame
  <2>2. hpc' \in [Caller -> HandlerPlaces]
    BY <1>1 DEF TypesOK
  <2>3. faults' <= MaxFaults
    BY <1>1, UploadAssumption DEF Frame, TypesOK, IInv, StateOK
  <2>4. announced' \subseteq used' /\ spilled' \subseteq live'
    BY <1>1 DEF Frame, TypesOK
  <2> QED
    BY <1>1, <2>1, <2>2, <2>3, <2>4 DEF TypesOK
<1> QED
  BY <1>6, <1>7, <1>8, <1>9, <1>10 DEF SInv

(***************************************************************************)
(* A step of the sweeper, Close or time.                                   *)
(***************************************************************************)
LEMMA BackStep ==
  ASSUME SInv, IInv', Frame({}, {}), UNCHANGED <<handlerVars, call, spool, live>>
  PROVE  SInv'
<1>1. IInv /\ TypesOK /\ Apart /\ Survivors /\ BlobsMatchDigest
  BY DEF SInv
<1>2. UNCHANGED <<hpc, req, sessLock, blobs, announced>>
  BY DEF handlerVars
<1>3. ASSUME NEW g \in Caller PROVE HandlerOK(g)'
  <2>1. HandlerOK(g)
    BY DEF SInv
  <2> QED
    BY <1>1, <1>2, <2>1, OtherHandler
<1>4. Apart' /\ BlobsMatchDigest'
  BY <1>1, <1>2 DEF Apart, BlobsMatchDigest, Busy, Monolithic, SidOf
<1>5. Survivors'
  <2>1. \A s : \A g \in Caller : Discards(g, s)' <=> Discards(g, s)
    BY <1>2 DEF Discards, SidOf
  <2> QED
    BY <1>1, <2>1 DEF Survivors, Frame
<1>6. TypesOK'
  <2>1. faults' <= MaxFaults
    BY <1>1, UploadAssumption DEF Frame, TypesOK, IInv, StateOK
  <2>2. announced' \subseteq used' /\ spilled' \subseteq live'
    BY <1>1, <1>2 DEF Frame, TypesOK
  <2>3. ~up' => live' = {}
    BY <1>1 DEF TypesOK, Frame
  <2> QED
    BY <1>1, <1>2, <2>1, <2>2, <2>3 DEF TypesOK
<1> QED
  BY <1>3, <1>4, <1>5, <1>6 DEF SInv

-----------------------------------------------------------------------------
(***************************************************************************)
(* What a handler does to package upload keeps that package's invariant;   *)
(* the bound MaxSize is not needed for it.                                 *)
(***************************************************************************)
LEMMA UploadIInv ==
  ASSUME IInv, NEW h \in Caller,
         \/ \E s \in Sid : GetTouch(s) \/ SpoolEnter(h, s) \/ RemoveStart(h, s) \/ Create(s)
         \/ \E s \in Sid, body \in Bytes : AppendEnter(h, s, body)
         \/ AppendStart(h) \/ AppendUnknown(h) \/ Spool(h) \/ SpoolUnknown(h)
         \/ AppendWrite(h) \/ AppendDone(h) \/ AppendFails(h)
         \/ OpenSpool(h) \/ RemoveSpool(h) \/ DropSpool(h)
         \/ RemoveClose(h) \/ RemoveFails(h) \/ RemoveForget(h)
         \/ UNCHANGED vars
  PROVE  IInv'
<1>1. ASSUME NEW s \in Sid, NEW body \in Bytes, AppendEnter(h, s, body)
      PROVE  IInv'
  <2>1. [op |-> "append", sid |-> s, rest |-> body] \in Calls
    BY DEF Calls
  <2> QED
    BY <1>1, <2>1, CallIInv DEF AppendEnter, Enter, touch, IInv, StateOK
<1>2. ASSUME NEW s \in Sid, GetTouch(s) \/ Create(s)
      PROVE  IInv'
  BY <1>2, NextIInv DEF Next
<1>3. CASE UNCHANGED vars
  BY <1>3, NextIInv
<1>4. ASSUME CallerNext(h) PROVE IInv'
  BY <1>4, CallerIInv
<1> QED
  BY <1>1, <1>2, <1>3, <1>4 DEF CallerNext

(***************************************************************************)
(* The session of a handler that is past its lock, and the request.        *)
(***************************************************************************)
LEMMA WorkFacts ==
  ASSUME SInv, NEW h \in Caller, Past(h)
  PROVE  /\ IInv /\ TypesOK /\ HandlerOK(h) /\ BlobsMatchDigest
         /\ Busy(h) /\ up /\ SidOf(h) \in Sid /\ SidOf(h) \in used
         /\ req[h] \in ReqType /\ req[h].body \in Bytes /\ req[h].want \in Bytes
         /\ call[h] \in Calls /\ spool[h] \in Spools
         /\ spool[h] = NoSpool \/ spool[h].sid = SidOf(h)
         /\ hash[SidOf(h)] \in Bytes
<1>1. IInv /\ TypesOK /\ HandlerOK(h) /\ BlobsMatchDigest
  BY DEF SInv
<1>2. Busy(h)
  BY DEF Past, Busy
<1>3. SidOf(h) \in used /\ up
  BY <1>1, <1>2 DEF HandlerOK, Owns
<1>4. used \subseteq Sid /\ hash \in [Sid -> Bytes] /\ call \in [Caller -> Calls] /\ spool \in [Caller -> Spools]
  BY <1>1 DEF IInv, StateOK
<1>5. req[h] \in ReqType
  BY <1>1 DEF TypesOK
<1>6. req[h].body \in Bytes /\ req[h].want \in Bytes
  BY <1>5 DEF ReqType
<1>7. spool[h] = NoSpool \/ spool[h].sid = SidOf(h)
  BY <1>1 DEF HandlerOK, Owns
<1> QED
  BY <1>1, <1>2, <1>3, <1>4, <1>5, <1>6, <1>7

(***************************************************************************)
(* A handler that answers and leaves the session as it is.                 *)
(***************************************************************************)
LEMMA AnswerStep ==
  ASSUME SInv, IInv', NEW h \in Caller, Past(h), hpc[h] \notin {"discard", "discarding"}, ~Monolithic(h),
         NEW code, Answer(h, code), UNCHANGED <<req, sessLock, announced, blobs>>, Frame({}, {}),
         call'[h].op = "none", UNCHANGED spool,
         \A g \in Caller \ {h} : call'[g] = call[g]
  PROVE  SInv'
<1>1. /\ IInv /\ TypesOK /\ HandlerOK(h) /\ BlobsMatchDigest
      /\ spool[h] = NoSpool \/ spool[h].sid = SidOf(h)
  BY WorkFacts
<1>2. hpc' = [hpc EXCEPT ![h] = "done"] /\ hpc'[h] = "done" /\ "done" \in HandlerPlaces \ {"idle", "lock", "touch"}
  BY <1>1 DEF Answer, TypesOK, HandlerPlaces
<1>3. Calling(h)' /\ Checked(h)'
  BY <1>2 DEF Calling, Checked
<1>4. Ranged(h)'
  BY <1>1, <1>2 DEF Ranged, HandlerOK
<1>5. ~Monolithic(h)' /\ BlobsMatchDigest'
  BY <1>1 DEF Monolithic, BlobsMatchDigest
<1>6. Over(h)'
  BY <1>2, <1>5 DEF Over
<1> QED
  BY <1>1, <1>2, <1>3, <1>4, <1>5, <1>6, WorkStep

(***************************************************************************)
(* A handler that goes on to discard the session.                          *)
(***************************************************************************)
LEMMA DiscardStep ==
  ASSUME SInv, IInv', NEW h \in Caller, Past(h), NEW R \in SUBSET {SidOf(h)}, Frame({}, R),
         NEW code, DiscardThenAnswer(h, code), UNCHANGED <<req, sessLock, announced, blobs>>,
         call'[h].op = "none", spool'[h] = NoSpool \/ spool'[h].sid = SidOf(h),
         \A g \in Caller \ {h} : call'[g] = call[g] /\ spool'[g] = spool[g]
  PROVE  SInv'
<1>1. IInv /\ TypesOK /\ HandlerOK(h) /\ BlobsMatchDigest
  BY WorkFacts
<1>2. hpc' = [hpc EXCEPT ![h] = "discard"] /\ hpc'[h] = "discard" /\ "discard" \in HandlerPlaces \ {"idle", "lock", "touch"}
  BY <1>1 DEF DiscardThenAnswer, TypesOK, HandlerPlaces
<1>3. Calling(h)' /\ Checked(h)' /\ Over(h)'
  BY <1>2 DEF Calling, Checked, Over
<1>4. Ranged(h)'
  BY <1>1, <1>2 DEF Ranged, HandlerOK
<1>5. BlobsMatchDigest'
  BY <1>1 DEF BlobsMatchDigest
<1> QED
  BY <1>1, <1>2, <1>3, <1>4, <1>5, WorkStep

(***************************************************************************)
(* A step that failed.                                                     *)
(***************************************************************************)
LEMMA FailStep ==
  ASSUME SInv, IInv', NEW h \in Caller, Past(h), hpc[h] \notin {"discard", "discarding"}, Frame({}, {}),
         NEW code, FailWith(h, code), UNCHANGED <<req, sessLock, announced, blobs, spool>>, call'[h].op = "none",
         \A g \in Caller \ {h} : call'[g] = call[g]
  PROVE  SInv'
<1>1. spool[h] = NoSpool \/ spool[h].sid = SidOf(h)
  BY WorkFacts
<1>2. CASE Monolithic(h) /\ DiscardThenAnswer(h, code)
  BY <1>1, <1>2, DiscardStep
<1>3. CASE ~Monolithic(h) /\ Answer(h, code)
  BY <1>1, <1>3, AnswerStep
<1> QED
  BY <1>2, <1>3 DEF FailWith

(***************************************************************************)
(* A step from one place of the work to the next.                          *)
(***************************************************************************)
LEMMA GoStep ==
  ASSUME SInv, IInv', NEW h \in Caller, Past(h), hpc[h] \notin {"discard", "discarding"},
         NEW w \in {"range", "append", "appending", "copy", "finalize", "spooling", "put", "storing", "published"},
         Goto(h, w), w = "range" => ~Monolithic(h),
         UNCHANGED <<req, sessLock, announced>>, BlobsMatchDigest',
         NEW T \in SUBSET {SidOf(h)}, Frame(T, {}),
         \A g \in Caller \ {h} : call'[g] = call[g] /\ spool'[g] = spool[g],
         spool'[h] = NoSpool \/ spool'[h].sid = SidOf(h),
         Calling(h)', Ranged(h)', Checked(h)'
  PROVE  SInv'
<1>1. TypesOK
  BY WorkFacts
<1>2. hpc' = [hpc EXCEPT ![h] = w] /\ hpc'[h] = w /\ w \in HandlerPlaces \ {"idle", "lock", "touch"}
  BY <1>1 DEF Goto, TypesOK, HandlerPlaces
<1>3. Over(h)'
  BY <1>2 DEF Over
<1> QED
  BY <1>2, <1>3, WorkStep

-----------------------------------------------------------------------------
(***************************************************************************)
(* Manager.Get's touch and what follows.                                   *)
(***************************************************************************)
LEMMA TouchSessionS ==
  ASSUME SInv, NEW h \in Caller, TouchSession(h)
  PROVE  SInv'
<1>1. Past(h) /\ hpc[h] = "touch"
  BY DEF TouchSession, Past
<1>2. /\ IInv /\ TypesOK /\ HandlerOK(h) /\ BlobsMatchDigest /\ Busy(h) /\ SidOf(h) \in Sid
      /\ spool[h] = NoSpool \/ spool[h].sid = SidOf(h)
  BY <1>1, WorkFacts
<1>3. GetTouch(SidOf(h))
  BY DEF TouchSession, SidOf
<1>4. UNCHANGED <<managerVars, sessionVars, disk, call, spool, faults>>
  BY <1>3 DEF GetTouch
<1>5. IInv' /\ Frame({}, {})
  BY <1>2, <1>3, <1>4, UploadIInv, FrameQuiet
<1>6. ~Monolithic(h) /\ call[h].op = "none"
  BY <1>1, <1>2 DEF HandlerOK, Owns, Calling
<1>7. UNCHANGED <<req, sessLock, announced, blobs>>
  BY DEF TouchSession
<1>8. BlobsMatchDigest'
  BY <1>2, <1>7 DEF BlobsMatchDigest
<1>9. ASSUME NEW code, Answer(h, code) PROVE SInv'
  BY <1>1, <1>4, <1>5, <1>6, <1>7, <1>9, AnswerStep
<1>10. ASSUME NEW code, DiscardThenAnswer(h, code) PROVE SInv'
  BY <1>1, <1>2, <1>4, <1>5, <1>6, <1>7, <1>10, DiscardStep
<1>11. ASSUME NEW w \in {"append", "range"}, Goto(h, w), w = "append" => req[h].start = None PROVE SInv'
  <2>1. hpc'[h] = w
    BY <1>2, <1>11 DEF Goto, TypesOK
  <2>2. Calling(h)' /\ Checked(h)'
    BY <1>4, <1>6, <2>1 DEF Calling, Checked
  <2>3. Ranged(h)'
    BY <1>2, <1>7, <1>11, <2>1 DEF Ranged, HandlerOK
  <2> QED
    BY <1>1, <1>2, <1>4, <1>5, <1>6, <1>7, <1>8, <1>11, <2>2, <2>3, GoStep
<1>12. req[h].op = "put" => req[h].start = None
  BY <1>2 DEF HandlerOK, Ranged
<1> QED
  BY <1>9, <1>10, <1>11, <1>12 DEF TouchSession

(***************************************************************************)
(* The Content-Range is compared with the offset.                          *)
(***************************************************************************)
LEMMA CheckRangeS ==
  ASSUME SInv, NEW h \in Caller, CheckRange(h)
  PROVE  SInv'
<1>1. Past(h) /\ hpc[h] = "range"
  BY DEF CheckRange, Past
<1>2. /\ IInv /\ TypesOK /\ HandlerOK(h) /\ BlobsMatchDigest /\ Busy(h) /\ hash[SidOf(h)] \in Bytes
      /\ spool[h] = NoSpool \/ spool[h].sid = SidOf(h)
  BY <1>1, WorkFacts
<1>3. UNCHANGED vars
  BY DEF CheckRange, UploadUnchanged
<1>4. UNCHANGED <<managerVars, sessionVars, disk, call, spool, faults>>
  BY <1>3 DEF vars
<1>5. IInv' /\ Frame({}, {})
  BY <1>2, <1>3, <1>4, UploadIInv, FrameQuiet
<1>6. ~Monolithic(h) /\ call[h].op = "none"
  BY <1>1, <1>2 DEF HandlerOK, Owns, Calling
<1>7. UNCHANGED <<req, sessLock, announced, blobs>>
  BY DEF CheckRange
<1>8. BlobsMatchDigest'
  BY <1>2, <1>7 DEF BlobsMatchDigest
<1>9. CASE Answer(h, 416)
  BY <1>1, <1>4, <1>5, <1>6, <1>7, <1>9, AnswerStep
<1>10. CASE Goto(h, "append") /\ req[h].start = Len(hash[req[h].sid])
  <2>1. hpc'[h] = "append"
    BY <1>2, <1>10 DEF Goto, TypesOK
  <2>2. Calling(h)' /\ Checked(h)'
    BY <1>4, <1>6, <2>1 DEF Calling, Checked
  <2>3. Len(hash[SidOf(h)]) \in Nat /\ UNCHANGED hash
    BY <1>2, <1>4, LenProperties DEF Bytes, sessionVars
  <2>4. Ranged(h)'
    BY <1>2, <1>7, <1>10, <2>1, <2>3 DEF Ranged, HandlerOK, SidOf
  <2> QED
    BY <1>1, <1>2, <1>4, <1>5, <1>6, <1>7, <1>8, <1>10, <2>2, <2>4, GoStep
<1> QED
  BY <1>9, <1>10 DEF CheckRange

(***************************************************************************)
(* Append is entered with the request's body.                              *)
(***************************************************************************)
LEMMA EnterAppendS ==
  ASSUME SInv, NEW h \in Caller, EnterAppend(h)
  PROVE  SInv'
<1>1. Past(h) /\ hpc[h] = "append"
  BY DEF EnterAppend, Past
<1>2. /\ IInv /\ TypesOK /\ HandlerOK(h) /\ BlobsMatchDigest /\ Busy(h) /\ SidOf(h) \in Sid /\ req[h].body \in Bytes
      /\ spool[h] = NoSpool \/ spool[h].sid = SidOf(h)
  BY <1>1, WorkFacts
<1>3. AppendEnter(h, SidOf(h), req[h].body)
  BY DEF EnterAppend, SidOf
<1>4. UNCHANGED <<managerVars, sessionVars, disk, spool, faults>>
  BY <1>3 DEF AppendEnter, Enter
<1>5. IInv' /\ Frame({}, {})
  BY <1>2, <1>3, <1>4, UploadIInv, FrameQuiet
<1>6. /\ call'[h] = [op |-> "append", sid |-> SidOf(h), rest |-> req[h].body]
      /\ \A g \in Caller \ {h} : call'[g] = call[g]
  BY <1>2, <1>3 DEF AppendEnter, Enter, IInv, StateOK
<1>7. UNCHANGED <<req, sessLock, announced, blobs>>
  BY DEF EnterAppend
<1>8. BlobsMatchDigest'
  BY <1>2, <1>7 DEF BlobsMatchDigest
<1>9. hpc'[h] = "appending" /\ Goto(h, "appending")
  BY <1>2 DEF EnterAppend, Goto, TypesOK
<1>10. Calling(h)' /\ Checked(h)'
  BY <1>6, <1>7, <1>9 DEF Calling, Checked, SidOf
<1>11. Ranged(h)'
  BY <1>1, <1>2, <1>4, <1>7, <1>9 DEF Ranged, HandlerOK, SidOf, sessionVars
<1> QED
  BY <1>1, <1>2, <1>4, <1>5, <1>6, <1>7, <1>8, <1>9, <1>10, <1>11, GoStep

(***************************************************************************)
(* Append has s.mu: the offset is still the one that was compared.         *)
(***************************************************************************)
LEMMA AppendBodyS ==
  ASSUME SInv, NEW h \in Caller, AppendBody(h)
  PROVE  SInv'
<1>1. Past(h) /\ hpc[h] = "appending"
  BY DEF AppendBody, Past
<1>2. /\ IInv /\ TypesOK /\ HandlerOK(h) /\ BlobsMatchDigest /\ Busy(h) /\ req[h].body \in Bytes /\ call[h] \in Calls
      /\ spool[h] = NoSpool \/ spool[h].sid = SidOf(h)
  BY <1>1, WorkFacts
<1>3. AppendStart(h)
  BY DEF AppendBody
<1>4. UNCHANGED <<managerVars, sessionVars, disk, spool, faults>>
  BY <1>3 DEF AppendStart
<1>5. IInv' /\ Frame({}, {})
  BY <1>2, <1>3, <1>4, UploadIInv, FrameQuiet
<1>6. /\ call'[h].op = "copy" /\ call'[h].sid = call[h].sid /\ call'[h].rest = call[h].rest
      /\ \A g \in Caller \ {h} : call'[g] = call[g]
  BY <1>2, <1>3 DEF AppendStart, IInv, StateOK, Calls
<1>7. UNCHANGED <<req, sessLock, announced, blobs>>
  BY DEF AppendBody
<1>8. BlobsMatchDigest'
  BY <1>2, <1>7 DEF BlobsMatchDigest
<1>9. hpc'[h] = "copy" /\ Goto(h, "copy")
  BY <1>2 DEF AppendBody, Goto, TypesOK
<1>10. call[h].sid = SidOf(h) /\ call[h].rest = req[h].body
  BY <1>1, <1>2 DEF HandlerOK, Calling
<1>11. Calling(h)' /\ Checked(h)'
  BY <1>6, <1>7, <1>9, <1>10 DEF Calling, Checked, SidOf
<1>12. Ranged(h)'
  <2>1. Len(req[h].body) \in Nat
    BY <1>2, LenProperties DEF Bytes
  <2>2. UNCHANGED hash
    BY <1>4 DEF sessionVars
  <2>3. req[h].op # "patch" => req[h].start = None
    BY <1>2 DEF HandlerOK, Ranged
  <2>4. req[h].start # None => req[h].start \in Nat /\ Len(hash[SidOf(h)]) = req[h].start
    BY <1>1, <1>2 DEF HandlerOK, Ranged
  <2>5. req[h].start # None => Len(hash[SidOf(h)]) = req[h].start + Len(req[h].body) - Len(req[h].body)
    BY <2>1, <2>4
  <2> QED
    BY <1>6, <1>7, <1>9, <1>10, <2>2, <2>3, <2>4, <2>5 DEF Ranged, SidOf
<1> QED
  BY <1>1, <1>2, <1>4, <1>5, <1>6, <1>7, <1>8, <1>9, <1>11, <1>12, GoStep

(***************************************************************************)
(* One more chunk: the offset grows by what the body loses.                *)
(***************************************************************************)
LEMMA CopyBodyS ==
  ASSUME SInv, NEW h \in Caller, CopyBody(h)
  PROVE  SInv'
<1>1. Past(h) /\ hpc[h] = "copy"
  BY DEF CopyBody, Past
<1>2. /\ IInv /\ TypesOK /\ HandlerOK(h) /\ BlobsMatchDigest /\ Busy(h) /\ req[h].body \in Bytes /\ call[h] \in Calls
      /\ SidOf(h) \in Sid /\ hash[SidOf(h)] \in Bytes
      /\ spool[h] = NoSpool \/ spool[h].sid = SidOf(h)
  BY <1>1, WorkFacts
<1>3. AppendWrite(h)
  BY DEF CopyBody
<1>4. call[h].sid = SidOf(h) /\ call[h].op = "copy"
  BY <1>1, <1>2 DEF HandlerOK, Calling
<1>5. IInv' /\ Frame({SidOf(h)}, {}) /\ UNCHANGED spool
  BY <1>2, <1>3, <1>4, UploadIInv, FrameWrite DEF AppendWrite
<1>6. /\ call'[h].op = "copy" /\ call'[h].sid = call[h].sid /\ call'[h].rest = Tail(call[h].rest)
      /\ \A g \in Caller \ {h} : call'[g] = call[g]
  BY <1>2, <1>3, <1>4 DEF AppendWrite, IInv, StateOK, Calls
<1>7. UNCHANGED <<hpc, req, sessLock, announced, blobs>>
  BY DEF CopyBody, handlerVars
<1>8. BlobsMatchDigest'
  BY <1>2, <1>7 DEF BlobsMatchDigest
<1>9. hpc'[h] = "copy" /\ Goto(h, "copy")
  BY <1>1, <1>2, <1>7 DEF Goto, TypesOK
<1>11. Calling(h)' /\ Checked(h)'
  BY <1>4, <1>6, <1>7, <1>9 DEF Calling, Checked, SidOf
<1>12. Ranged(h)'
  <2>1. call[h].rest \in Seq(Chunk) /\ call[h].rest # <<>>
    BY <1>2, <1>3 DEF Calls, Bytes, AppendWrite
  <2>2. Head(call[h].rest) \in Chunk /\ Len(Tail(call[h].rest)) = Len(call[h].rest) - 1 /\ Len(call[h].rest) \in Nat
    BY <2>1, HeadTailProperties, LenProperties
  <2>3. hash'[SidOf(h)] = Append(hash[SidOf(h)], Head(call[h].rest))
    BY <1>2, <1>3, <1>4 DEF AppendWrite, write, IInv, StateOK
  <2>4. Len(hash'[SidOf(h)]) = Len(hash[SidOf(h)]) + 1 /\ Len(hash[SidOf(h)]) \in Nat
    BY <1>2, <2>2, <2>3, AppendProperties, LenProperties DEF Bytes
  <2>5. req[h].op # "patch" => req[h].start = None
    BY <1>2 DEF HandlerOK, Ranged
  <2>6. req[h].start # None => req[h].start \in Nat /\ Len(hash[SidOf(h)]) = req[h].start + Len(req[h].body) - Len(call[h].rest)
    BY <1>1, <1>2 DEF HandlerOK, Ranged
  <2>7. Len(req[h].body) \in Nat
    BY <1>2, LenProperties DEF Bytes
  <2>8. ASSUME NEW n, NEW m \in Nat, NEW a \in Nat, NEW b \in Nat, NEW r \in Nat, NEW t,
               n = m + 1, t = r - 1, m = a + b - r
        PROVE  n = a + b - t
    BY <2>8
  <2>9. req[h].start # None => Len(hash'[SidOf(h)]) = req[h].start + Len(req[h].body) - Len(Tail(call[h].rest))
    <3> DEFINE n == Len(hash'[SidOf(h)])
               m == Len(hash[SidOf(h)])
               b == Len(req[h].body)
               r == Len(call[h].rest)
               t == Len(Tail(call[h].rest))
    <3>1. n = m + 1 /\ t = r - 1 /\ m \in Nat /\ b \in Nat /\ r \in Nat
      BY <2>2, <2>4, <2>7
    <3>2. req[h].start # None => req[h].start \in Nat /\ m = req[h].start + b - r
      BY <2>6
    <3> HIDE DEF n, m, b, r, t
    <3>3. req[h].start # None => n = req[h].start + b - t
      BY <2>8, <3>1, <3>2
    <3> QED
      BY <3>3 DEF n, b, t
  <2> QED
    BY <1>6, <1>7, <1>9, <2>5, <2>6, <2>9 DEF Ranged, SidOf
<1> QED
  BY <1>1, <1>2, <1>5, <1>6, <1>7, <1>8, <1>9, <1>11, <1>12, GoStep

(***************************************************************************)
(* Append was told that the session is closed.                             *)
(***************************************************************************)
LEMMA AppendRefusedS ==
  ASSUME SInv, NEW h \in Caller, AppendRefused(h)
  PROVE  SInv'
<1>1. Past(h) /\ hpc[h] = "appending"
  BY DEF AppendRefused, Past
<1>2. /\ IInv /\ TypesOK /\ HandlerOK(h) /\ BlobsMatchDigest /\ Busy(h) /\ SidOf(h) \in Sid /\ call[h] \in Calls
      /\ spool[h] = NoSpool \/ spool[h].sid = SidOf(h)
  BY <1>1, WorkFacts
<1>3. AppendUnknown(h) /\ FailWith(h, 404) /\ UNCHANGED <<req, sessLock, announced, blobs>>
  BY DEF AppendRefused
<1>4. UNCHANGED <<managerVars, sessionVars, disk, spool, faults>>
  BY <1>3 DEF AppendUnknown
<1>5. IInv' /\ Frame({}, {})
  BY <1>2, <1>3, <1>4, UploadIInv, FrameQuiet
<1>6. call'[h].op = "none" /\ \A g \in Caller \ {h} : call'[g] = call[g]
  BY <1>2, <1>3 DEF AppendUnknown, Return, NoCall, IInv, StateOK
<1> QED
  BY <1>1, <1>3, <1>4, <1>5, <1>6, FailStep

(***************************************************************************)
(* The end of an Append.                                                   *)
(***************************************************************************)
LEMMA AppendEndsS ==
  ASSUME SInv, NEW h \in Caller, Past(h), call[h].op = "copy", AppendDone(h) \/ AppendFails(h)
  PROVE  /\ IInv' /\ Frame({}, {}) /\ UNCHANGED spool
         /\ call'[h].op = "none" /\ \A g \in Caller \ {h} : call'[g] = call[g]
<1>1. IInv /\ TypesOK
  BY WorkFacts
<1>2. IInv' /\ Frame({}, {})
  BY <1>1, UploadIInv, FrameAppendEnds
<1>3. Return(h) /\ UNCHANGED spool
  BY DEF AppendDone, AppendFails, AppendEnds
<1> QED
  BY <1>1, <1>2, <1>3 DEF Return, NoCall, IInv, StateOK

(***************************************************************************)
(* The whole body has been appended.                                       *)
(***************************************************************************)
LEMMA BodyAppendedS ==
  ASSUME SInv, NEW h \in Caller, BodyAppended(h)
  PROVE  SInv'
<1>1. Past(h) /\ hpc[h] = "copy"
  BY DEF BodyAppended, Past
<1>2. /\ IInv /\ TypesOK /\ HandlerOK(h) /\ BlobsMatchDigest /\ Busy(h) /\ SidOf(h) \in Sid /\ call[h] \in Calls
      /\ spool[h] = NoSpool \/ spool[h].sid = SidOf(h)
  BY <1>1, WorkFacts
<1>3. AppendDone(h) /\ UNCHANGED <<req, sessLock, announced, blobs>>
  BY DEF BodyAppended
<1>4. /\ IInv' /\ Frame({}, {}) /\ UNCHANGED spool
      /\ call'[h].op = "none" /\ \A g \in Caller \ {h} : call'[g] = call[g]
  BY <1>1, <1>3, AppendEndsS DEF AppendDone
<1>5. CASE req[h].op = "patch" /\ Answer(h, 202)
  <2>1. ~Monolithic(h)
    BY <1>5 DEF Monolithic
  <2> QED
    BY <1>1, <1>3, <1>4, <1>5, <2>1, AnswerStep
<1>6. CASE Goto(h, "finalize")
  <2>1. hpc'[h] = "finalize"
    BY <1>2, <1>6 DEF Goto, TypesOK
  <2>2. Calling(h)' /\ Checked(h)' /\ BlobsMatchDigest'
    BY <1>2, <1>3, <1>4, <2>1 DEF Calling, Checked, BlobsMatchDigest
  <2>3. Ranged(h)'
    BY <1>2, <1>3, <2>1 DEF Ranged, HandlerOK
  <2> QED
    BY <1>1, <1>2, <1>3, <1>4, <1>6, <2>2, <2>3, GoStep
<1> QED
  BY <1>5, <1>6 DEF BodyAppended

(***************************************************************************)
(* The body broke off, or a write failed.                                  *)
(***************************************************************************)
LEMMA BodyFailedS ==
  ASSUME SInv, NEW h \in Caller, BodyFailed(h)
  PROVE  SInv'
<1>1. Past(h) /\ hpc[h] = "copy"
  BY DEF BodyFailed, Past
<1>2. /\ IInv /\ TypesOK /\ HandlerOK(h) /\ BlobsMatchDigest /\ Busy(h) /\ SidOf(h) \in Sid /\ call[h] \in Calls
      /\ spool[h] = NoSpool \/ spool[h].sid = SidOf(h)
  BY <1>1, WorkFacts
<1>3. AppendFails(h) /\ FailWith(h, 500) /\ UNCHANGED <<req, sessLock, announced, blobs>>
  BY DEF BodyFailed
<1>4. /\ IInv' /\ Frame({}, {}) /\ UNCHANGED spool
      /\ call'[h].op = "none" /\ \A g \in Caller \ {h} : call'[g] = call[g]
  BY <1>1, <1>3, AppendEndsS DEF AppendFails
<1> QED
  BY <1>1, <1>3, <1>4, FailStep

-----------------------------------------------------------------------------
(***************************************************************************)
(* finalize asks for the spool.                                            *)
(***************************************************************************)
LEMMA FinalizeS ==
  ASSUME SInv, NEW h \in Caller, Finalize(h)
  PROVE  SInv'
<1>1. Past(h) /\ hpc[h] = "finalize"
  BY DEF Finalize, Past
<1>2. /\ IInv /\ TypesOK /\ HandlerOK(h) /\ BlobsMatchDigest /\ Busy(h) /\ SidOf(h) \in Sid /\ call[h] \in Calls
      /\ spool[h] = NoSpool \/ spool[h].sid = SidOf(h)
  BY <1>1, WorkFacts
<1>3. SpoolEnter(h, SidOf(h)) /\ UNCHANGED <<req, sessLock, announced, blobs>> /\ Goto(h, "spooling")
  BY DEF Finalize, SidOf
<1>4. UNCHANGED <<managerVars, sessionVars, disk, spool, faults>>
  BY <1>3 DEF SpoolEnter, Enter
<1>5. IInv' /\ Frame({}, {})
  BY <1>2, <1>3, <1>4, UploadIInv, FrameQuiet
<1>6. /\ call'[h] = [op |-> "spool", sid |-> SidOf(h), rest |-> <<>>]
      /\ \A g \in Caller \ {h} : call'[g] = call[g]
  BY <1>2, <1>3 DEF SpoolEnter, Enter, IInv, StateOK
<1>7. hpc'[h] = "spooling"
  BY <1>2, <1>3 DEF Goto, TypesOK
<1>8. Calling(h)' /\ Checked(h)' /\ BlobsMatchDigest'
  BY <1>2, <1>3, <1>6, <1>7 DEF Calling, Checked, BlobsMatchDigest, SidOf
<1>9. Ranged(h)'
  BY <1>2, <1>3, <1>7 DEF Ranged, HandlerOK
<1> QED
  BY <1>1, <1>2, <1>3, <1>4, <1>5, <1>6, <1>8, <1>9, GoStep

(***************************************************************************)
(* finalize has the spool and compares the digests.                        *)
(***************************************************************************)
LEMMA FinalizeSpoolS ==
  ASSUME SInv, NEW h \in Caller, FinalizeSpool(h)
  PROVE  SInv'
<1>1. Past(h) /\ hpc[h] = "spooling"
  BY DEF FinalizeSpool, Past
<1>2. /\ IInv /\ TypesOK /\ HandlerOK(h) /\ BlobsMatchDigest /\ Busy(h) /\ SidOf(h) \in Sid /\ call[h] \in Calls
      /\ spool[h] = NoSpool \/ spool[h].sid = SidOf(h)
  BY <1>1, WorkFacts
<1>3. Spool(h) /\ UNCHANGED <<req, sessLock, announced, blobs>>
  BY DEF FinalizeSpool
<1>4. UNCHANGED <<managerVars, sessionVars, disk, faults>>
  BY <1>3 DEF Spool
<1>5. IInv' /\ Frame({}, {})
  BY <1>2, <1>3, <1>4, UploadIInv, FrameQuiet
<1>6. call[h].sid = SidOf(h)
  BY <1>1, <1>2 DEF HandlerOK, Calling
<1>7. /\ call'[h].op = "none" /\ spool'[h].sid = SidOf(h) /\ ~spool'[h].removed /\ spool'[h].digest = hash[SidOf(h)]
      /\ \A g \in Caller \ {h} : call'[g] = call[g] /\ spool'[g] = spool[g]
  BY <1>2, <1>3, <1>6 DEF Spool, Return, NoCall, IInv, StateOK
<1>8. CASE DiscardThenAnswer(h, 400)
  BY <1>1, <1>3, <1>5, <1>7, <1>8, DiscardStep
<1>9. CASE hash[SidOf(h)] = req[h].want /\ Goto(h, "put")
  <2>1. hpc'[h] = "put"
    BY <1>2, <1>9 DEF Goto, TypesOK
  <2>2. spool'[h] # NoSpool
    BY <1>2, <1>7, UploadAssumption DEF NoSpool
  <2>3. Calling(h)' /\ BlobsMatchDigest'
    BY <1>2, <1>3, <1>7, <2>1 DEF Calling, BlobsMatchDigest
  <2>4. Checked(h)'
    BY <1>3, <1>7, <1>9, <2>2 DEF Checked
  <2>5. Ranged(h)'
    BY <1>2, <1>3, <2>1 DEF Ranged, HandlerOK
  <2> QED
    BY <1>1, <1>2, <1>3, <1>5, <1>7, <1>9, <2>3, <2>4, <2>5, GoStep
<1> QED
  BY <1>8, <1>9 DEF FinalizeSpool, SidOf

(***************************************************************************)
(* The session was closed before finalize could have the spool.            *)
(***************************************************************************)
LEMMA FinalizeUnknownS ==
  ASSUME SInv, NEW h \in Caller, FinalizeUnknown(h)
  PROVE  SInv'
<1>1. Past(h) /\ hpc[h] = "spooling"
  BY DEF FinalizeUnknown, Past
<1>2. /\ IInv /\ TypesOK /\ HandlerOK(h) /\ BlobsMatchDigest /\ Busy(h) /\ SidOf(h) \in Sid /\ call[h] \in Calls
      /\ spool[h] = NoSpool \/ spool[h].sid = SidOf(h)
  BY <1>1, WorkFacts
<1>3. SpoolUnknown(h) /\ FailWith(h, 404) /\ UNCHANGED <<req, sessLock, announced, blobs>>
  BY DEF FinalizeUnknown
<1>4. UNCHANGED <<managerVars, sessionVars, disk, spool, faults>>
  BY <1>3 DEF SpoolUnknown
<1>5. IInv' /\ Frame({}, {})
  BY <1>2, <1>3, <1>4, UploadIInv, FrameQuiet
<1>6. call'[h].op = "none" /\ \A g \in Caller \ {h} : call'[g] = call[g]
  BY <1>2, <1>3 DEF SpoolUnknown, Return, NoCall, IInv, StateOK
<1> QED
  BY <1>1, <1>3, <1>4, <1>5, <1>6, FailStep

(***************************************************************************)
(* The blob store opens the spool.                                         *)
(***************************************************************************)
LEMMA PutOpenS ==
  ASSUME SInv, NEW h \in Caller, PutOpen(h)
  PROVE  SInv'
<1>1. Past(h) /\ hpc[h] \in {"put", "storing"}
  BY DEF PutOpen, Past
<1>2. /\ IInv /\ TypesOK /\ HandlerOK(h) /\ BlobsMatchDigest /\ Busy(h) /\ SidOf(h) \in Sid
      /\ spool[h] = NoSpool \/ spool[h].sid = SidOf(h)
  BY <1>1, WorkFacts
<1>3. OpenSpool(h) /\ UNCHANGED <<req, sessLock, announced, blobs>>
  BY DEF PutOpen
<1>4. UNCHANGED <<managerVars, sessionVars, disk, call, spool, faults>>
  BY <1>3 DEF OpenSpool
<1>5. IInv' /\ Frame({}, {})
  BY <1>2, <1>3, <1>4, UploadIInv, FrameQuiet
<1>6. call[h].op = "none"
  BY <1>1, <1>2 DEF HandlerOK, Calling
<1>7. CASE FailWith(h, 500)
  BY <1>1, <1>3, <1>4, <1>5, <1>6, <1>7, FailStep
<1>8. CASE Goto(h, "storing")
  <2>1. hpc'[h] = "storing"
    BY <1>2, <1>8 DEF Goto, TypesOK
  <2>2. Calling(h)' /\ BlobsMatchDigest'
    BY <1>2, <1>3, <1>4, <1>6, <2>1 DEF Calling, BlobsMatchDigest
  <2>3. Checked(h)'
    BY <1>1, <1>2, <1>3, <1>4 DEF HandlerOK, Checked
  <2>4. Ranged(h)'
    BY <1>2, <1>3, <2>1 DEF Ranged, HandlerOK
  <2> QED
    BY <1>1, <1>2, <1>3, <1>4, <1>5, <1>8, <2>2, <2>3, <2>4, GoStep
<1> QED
  BY <1>7, <1>8 DEF PutOpen

(***************************************************************************)
(* The blob store publishes what it read from the spool that was checked.  *)
(***************************************************************************)
LEMMA PutPublishS ==
  ASSUME SInv, NEW h \in Caller, PutPublish(h)
  PROVE  SInv'
<1>1. Past(h) /\ hpc[h] \in {"put", "storing"}
  BY DEF PutPublish, Past
<1>2. /\ IInv /\ TypesOK /\ HandlerOK(h) /\ BlobsMatchDigest /\ Busy(h) /\ SidOf(h) \in Sid
      /\ spool[h] = NoSpool \/ spool[h].sid = SidOf(h)
  BY <1>1, WorkFacts
<1>3. UNCHANGED vars /\ UNCHANGED <<req, sessLock, announced>> /\ Goto(h, "published")
  BY DEF PutPublish, UploadUnchanged
<1>4. UNCHANGED <<managerVars, sessionVars, disk, call, spool, faults>>
  BY <1>3 DEF vars
<1>5. IInv' /\ Frame({}, {})
  BY <1>2, <1>3, <1>4, UploadIInv, FrameQuiet
<1>6. call[h].op = "none"
  BY <1>1, <1>2 DEF HandlerOK, Calling
<1>7. hpc'[h] = "published"
  BY <1>2, <1>3 DEF Goto, TypesOK
<1>8. BlobsMatchDigest'
  <2>1. spool[h] # NoSpool /\ ~spool[h].removed
    BY <1>1, <1>2 DEF HandlerOK, Checked
  <2>2. ReadSpool(spool[h]) = spool[h].digest
    BY <1>2, <2>1, IInvSafety DEF UploadSafety, SpoolReadsItsDigest
  <2> QED
    BY <1>2, <2>2 DEF PutPublish, BlobsMatchDigest
<1>9. Calling(h)' /\ Checked(h)'
  BY <1>4, <1>6, <1>7 DEF Calling, Checked
<1>10. Ranged(h)'
  BY <1>2, <1>3, <1>7 DEF Ranged, HandlerOK
<1> QED
  BY <1>1, <1>2, <1>3, <1>4, <1>5, <1>8, <1>9, <1>10, GoStep

(***************************************************************************)
(* After the publication the store removes the spool, and the session      *)
(* goes.                                                                   *)
(***************************************************************************)
LEMMA PutRemovesSpoolS ==
  ASSUME SInv, NEW h \in Caller, PutRemovesSpool(h)
  PROVE  SInv'
<1>1. Past(h) /\ hpc[h] = "published"
  BY DEF PutRemovesSpool, Past
<1>2. /\ IInv /\ TypesOK /\ HandlerOK(h) /\ BlobsMatchDigest /\ Busy(h) /\ SidOf(h) \in Sid /\ call[h] \in Calls
      /\ spool[h] = NoSpool \/ spool[h].sid = SidOf(h)
  BY <1>1, WorkFacts
<1>3. RemoveSpool(h) /\ UNCHANGED <<req, sessLock, announced, blobs>> /\ DiscardThenAnswer(h, 201)
  BY DEF PutRemovesSpool
<1>4. spool[h].sid = SidOf(h)
  BY <1>2, <1>3 DEF RemoveSpool
<1>5. IInv' /\ Frame({}, {SidOf(h)})
  BY <1>2, <1>3, <1>4, UploadIInv, FrameRemoveSpool
<1>6. call[h].op = "none" /\ UNCHANGED call
  BY <1>1, <1>2, <1>3 DEF HandlerOK, Calling, RemoveSpool
<1>7. spool'[h].sid = spool[h].sid /\ \A g \in Caller \ {h} : spool'[g] = spool[g]
  BY <1>2, <1>3 DEF RemoveSpool, IInv, StateOK, Spools
<1> QED
  BY <1>1, <1>3, <1>4, <1>5, <1>6, <1>7, DiscardStep

(***************************************************************************)
(* The blob store failed, or refused the bytes.                            *)
(***************************************************************************)
LEMMA PutFailsS ==
  ASSUME SInv, NEW h \in Caller, PutFails(h) \/ PutRefuses(h)
  PROVE  SInv'
<1>1. Past(h) /\ hpc[h] \in {"put", "storing"}
  BY DEF PutFails, PutRefuses, Past
<1>2. /\ IInv /\ TypesOK /\ HandlerOK(h) /\ BlobsMatchDigest
      /\ spool[h] = NoSpool \/ spool[h].sid = SidOf(h)
  BY <1>1, WorkFacts
<1>3. UNCHANGED vars /\ UNCHANGED <<req, sessLock, announced, blobs>>
  BY DEF PutFails, PutRefuses, UploadUnchanged
<1>4. UNCHANGED <<managerVars, sessionVars, disk, call, spool, faults>>
  BY <1>3 DEF vars
<1>5. IInv' /\ Frame({}, {})
  BY <1>2, <1>3, <1>4, UploadIInv, FrameQuiet
<1>6. call[h].op = "none"
  BY <1>1, <1>2 DEF HandlerOK, Calling
<1>7. CASE FailWith(h, 500)
  BY <1>1, <1>3, <1>4, <1>5, <1>6, <1>7, FailStep
<1>8. CASE DiscardThenAnswer(h, 400)
  BY <1>1, <1>2, <1>3, <1>4, <1>5, <1>6, <1>8, DiscardStep
<1> QED
  BY <1>7, <1>8 DEF PutFails, PutRefuses

-----------------------------------------------------------------------------
(***************************************************************************)
(* Manager.Remove has returned: whatever it returned, the session is over. *)
(***************************************************************************)
LEMMA AfterDiscardStep ==
  ASSUME SInv, IInv', NEW h \in Caller, hpc[h] \in {"discard", "discarding"}, Frame({}, {}),
         NEW code, AfterDiscard(h, code), UNCHANGED <<req, sessLock, announced, blobs, spool>>,
         call'[h].op = "none", \A g \in Caller \ {h} : call'[g] = call[g],
         SidOf(h) \notin live' \ closed', SidOf(h) \in sessions' => faults' < MaxFaults
  PROVE  SInv'
<1>1. Past(h)
  BY DEF Past
<1>2. /\ IInv /\ TypesOK /\ HandlerOK(h) /\ BlobsMatchDigest /\ Busy(h)
      /\ spool[h] = NoSpool \/ spool[h].sid = SidOf(h)
  BY <1>1, WorkFacts
<1>3. BlobsMatchDigest' /\ SidOf(h)' = SidOf(h) /\ Monolithic(h)' = Monolithic(h)
  BY <1>2 DEF BlobsMatchDigest, SidOf, Monolithic
<1>4. Monolithic(h) => SidOf(h) \in closed'
  BY <1>2 DEF HandlerOK, Owns, Frame
<1>5. ASSUME NEW w \in {"unspool", "done"}, hpc' = [hpc EXCEPT ![h] = w] PROVE SInv'
  <2>1. hpc'[h] = w /\ w \in HandlerPlaces \ {"idle", "lock", "touch"}
    BY <1>2, <1>5 DEF TypesOK, HandlerPlaces
  <2>2. Calling(h)' /\ Checked(h)'
    BY <2>1 DEF Calling, Checked
  <2>3. Ranged(h)'
    BY <1>2, <2>1 DEF Ranged, HandlerOK
  <2>4. Over(h)'
    BY <1>3, <1>4 DEF Over
  <2> QED
    BY <1>1, <1>2, <1>3, <1>5, <2>1, <2>2, <2>3, <2>4, WorkStep
<1>6. hpc' = [hpc EXCEPT ![h] = "done"] \/ hpc' = [hpc EXCEPT ![h] = "unspool"]
  BY DEF AfterDiscard, Answer, Goto
<1> QED
  BY <1>5, <1>6

(***************************************************************************)
(* Manager.Remove begins, or does not know the session.                    *)
(***************************************************************************)
LEMMA DiscardS ==
  ASSUME SInv, NEW h \in Caller, Discard(h)
  PROVE  SInv'
<1>1. Past(h) /\ hpc[h] = "discard"
  BY DEF Discard, Past
<1>2. /\ IInv /\ TypesOK /\ HandlerOK(h) /\ BlobsMatchDigest /\ Busy(h) /\ SidOf(h) \in Sid /\ call[h] \in Calls
      /\ spool[h] = NoSpool \/ spool[h].sid = SidOf(h)
  BY <1>1, WorkFacts
<1>3. UNCHANGED <<req, sessLock, announced, blobs>>
  BY DEF Discard
<1>4. CASE RemoveStart(h, SidOf(h)) /\ Goto(h, "discarding")
  <2>1. UNCHANGED <<managerVars, sessionVars, disk, spool, faults>>
    BY <1>4 DEF RemoveStart
  <2>2. IInv' /\ Frame({}, {})
    BY <1>2, <1>4, <2>1, UploadIInv, FrameQuiet
  <2>3. /\ call'[h] = [op |-> "close", sid |-> SidOf(h), rest |-> <<>>]
        /\ \A g \in Caller \ {h} : call'[g] = call[g]
    BY <1>2, <1>4 DEF RemoveStart, IInv, StateOK
  <2>4. /\ hpc' = [hpc EXCEPT ![h] = "discarding"] /\ hpc'[h] = "discarding"
        /\ "discarding" \in HandlerPlaces \ {"idle", "lock", "touch"}
    BY <1>2, <1>4 DEF Goto, TypesOK, HandlerPlaces
  <2>5. Calling(h)' /\ Checked(h)' /\ BlobsMatchDigest' /\ Over(h)'
    BY <1>2, <1>3, <2>3, <2>4 DEF Calling, Checked, BlobsMatchDigest, SidOf, Over
  <2>6. Ranged(h)'
    BY <1>2, <1>3, <2>4 DEF Ranged, HandlerOK
  <2> QED
    BY <1>1, <1>2, <1>3, <2>1, <2>2, <2>3, <2>4, <2>5, <2>6, WorkStep
<1>5. CASE SidOf(h) \notin sessions /\ AfterDiscard(h, 404) /\ UNCHANGED vars
  <2>1. UNCHANGED <<managerVars, sessionVars, disk, call, spool, faults>>
    BY <1>5 DEF vars
  <2>2. IInv' /\ Frame({}, {})
    BY <1>2, <1>5, <2>1, UploadIInv, FrameQuiet
  <2>3. call[h].op = "none"
    BY <1>1, <1>2 DEF HandlerOK, Calling
  <2>4. SidOf(h) \notin live' \ closed' /\ SidOf(h) \notin sessions'
    BY <1>2, <1>5, <2>1 DEF IInv, RegistryOK, managerVars, sessionVars
  <2> QED
    BY <1>1, <1>3, <1>5, <2>1, <2>2, <2>3, <2>4, AfterDiscardStep
<1> QED
  BY <1>4, <1>5 DEF Discard, UploadUnchanged, SidOf

(***************************************************************************)
(* Manager.Remove closes the session and forgets it, or fails.             *)
(***************************************************************************)
LEMMA DiscardingS ==
  ASSUME SInv, NEW h \in Caller, Discarding(h)
  PROVE  SInv'
<1>1. Past(h) /\ hpc[h] = "discarding"
  BY DEF Discarding, Past
<1>2. /\ IInv /\ TypesOK /\ HandlerOK(h) /\ BlobsMatchDigest /\ Busy(h) /\ SidOf(h) \in Sid /\ call[h] \in Calls
      /\ spool[h] = NoSpool \/ spool[h].sid = SidOf(h)
  BY <1>1, WorkFacts
<1>3. UNCHANGED <<req, sessLock, announced, blobs>>
  BY DEF Discarding
<1>4. call[h].sid = SidOf(h)
  BY <1>1, <1>2 DEF HandlerOK, Calling
<1>5. CASE RemoveClose(h) /\ UNCHANGED <<hpc, status>>
  <2>1. CloseSucceeds(SidOf(h)) /\ UNCHANGED <<up, sessions, used, live, spool>>
    BY <1>4, <1>5 DEF RemoveClose, managerVars
  <2>2. IInv' /\ Frame({}, {})
    BY <1>2, <1>5, <2>1, UploadIInv, FrameClose
  <2>3. call'[h].op = "forget" /\ call'[h].sid = SidOf(h) /\ \A g \in Caller \ {h} : call'[g] = call[g]
    BY <1>2, <1>4, <1>5 DEF RemoveClose, IInv, StateOK, Calls
  <2>4. /\ hpc' = [hpc EXCEPT ![h] = "discarding"] /\ hpc'[h] = "discarding"
        /\ "discarding" \in HandlerPlaces \ {"idle", "lock", "touch"}
    BY <1>1, <1>2, <1>5 DEF TypesOK, HandlerPlaces
  <2>5. Calling(h)' /\ Checked(h)' /\ BlobsMatchDigest' /\ Over(h)'
    BY <1>2, <1>3, <2>3, <2>4 DEF Calling, Checked, BlobsMatchDigest, SidOf, Over
  <2>6. Ranged(h)'
    BY <1>2, <1>3, <2>4 DEF Ranged, HandlerOK
  <2> QED
    BY <1>1, <1>2, <1>3, <2>1, <2>2, <2>3, <2>4, <2>5, <2>6, WorkStep
<1>6. CASE RemoveFails(h) /\ AfterDiscard(h, 500)
  <2>1. CloseFails(SidOf(h)) /\ UNCHANGED <<up, sessions, used, live, spool>>
    BY <1>4, <1>6 DEF RemoveFails, managerVars
  <2>2. IInv' /\ Frame({}, {}) /\ SidOf(h) \in closed' /\ faults' < faults
    BY <1>2, <1>6, <2>1, UploadIInv, FrameClose
  <2>3. call'[h].op = "none" /\ \A g \in Caller \ {h} : call'[g] = call[g]
    BY <1>2, <1>6 DEF RemoveFails, Return, NoCall, IInv, StateOK
  <2>4. faults' < MaxFaults
    <3>1. faults \in Nat /\ faults' \in Nat /\ faults <= MaxFaults /\ MaxFaults \in Nat
      BY <1>2, <2>2, UploadAssumption DEF IInv, StateOK, TypesOK
    <3> QED
      BY <2>2, <3>1
  <2> QED
    BY <1>1, <1>3, <1>6, <2>1, <2>2, <2>3, <2>4, AfterDiscardStep
<1>7. CASE RemoveForget(h) /\ AfterDiscard(h, 204)
  <2>1. /\ sessions' = sessions \ {SidOf(h)}
        /\ UNCHANGED <<up, used, live, sessionVars, disk, faults, spool>>
    BY <1>4, <1>7 DEF RemoveForget, Forget
  <2>2. IInv' /\ Frame({}, {})
    BY <1>2, <1>7, <2>1, UploadIInv, FrameForget
  <2>3. call'[h].op = "none" /\ \A g \in Caller \ {h} : call'[g] = call[g]
    BY <1>2, <1>7 DEF RemoveForget, Return, NoCall, IInv, StateOK
  <2>4. SidOf(h) \in closed'
    BY <1>2, <1>4, <1>7, <2>1 DEF RemoveForget, IInv, CallsOK, RegistryOK, sessionVars
  <2> QED
    BY <1>1, <1>3, <1>7, <2>1, <2>2, <2>3, <2>4, AfterDiscardStep
<1> QED
  BY <1>5, <1>6, <1>7 DEF Discarding

(***************************************************************************)
(* removeSpool: the session is over, so no file that is needed is lost.    *)
(***************************************************************************)
LEMMA UnspoolS ==
  ASSUME SInv, NEW h \in Caller, Unspool(h)
  PROVE  SInv'
<1>1. Past(h) /\ hpc[h] = "unspool"
  BY DEF Unspool, Past
<1>2. /\ IInv /\ TypesOK /\ HandlerOK(h) /\ BlobsMatchDigest /\ Busy(h) /\ SidOf(h) \in Sid /\ call[h] \in Calls
      /\ spool[h] = NoSpool \/ spool[h].sid = SidOf(h)
  BY <1>1, WorkFacts
<1>3. UNCHANGED <<req, sessLock, announced, blobs>> /\ hpc' = [hpc EXCEPT ![h] = "done"]
  BY DEF Unspool, Goto
<1>4. SidOf(h) \notin live \ closed
  BY <1>1, <1>2 DEF HandlerOK, Over
<1>5. /\ IInv' /\ Frame({}, {}) /\ UNCHANGED <<call, live, closed, sessions>>
      /\ spool'[h] = NoSpool \/ spool'[h].sid = SidOf(h)
      /\ \A g \in Caller \ {h} : spool'[g] = spool[g]
  <2>1. CASE RemoveSpool(h)
    <3>1. spool[h].sid = SidOf(h) /\ UNCHANGED <<call, live, closed, sessions>>
      BY <1>2, <2>1 DEF RemoveSpool, managerVars, sessionVars
    <3>2. IInv' /\ Frame({}, {SidOf(h)})
      BY <1>2, <2>1, <3>1, UploadIInv, FrameRemoveSpool
    <3>3. Frame({}, {})
      BY <1>4, <3>1, <3>2 DEF Frame
    <3>4. spool'[h].sid = spool[h].sid /\ \A g \in Caller \ {h} : spool'[g] = spool[g]
      BY <1>2, <2>1 DEF RemoveSpool, IInv, StateOK, Spools
    <3> QED
      BY <3>1, <3>2, <3>3, <3>4
  <2>2. CASE UNCHANGED vars
    <3>1. UNCHANGED <<managerVars, sessionVars, disk, call, spool, faults>>
      BY <2>2 DEF vars
    <3>2. IInv' /\ Frame({}, {})
      BY <1>2, <2>2, <3>1, UploadIInv, FrameQuiet
    <3> QED
      BY <1>2, <3>1, <3>2 DEF managerVars, sessionVars
  <2> QED
    BY <2>1, <2>2 DEF Unspool, UploadUnchanged
<1>6. hpc'[h] = "done" /\ "done" \in HandlerPlaces \ {"idle", "lock", "touch"}
  BY <1>2, <1>3 DEF TypesOK, HandlerPlaces
<1>7. Calling(h)' /\ Checked(h)' /\ BlobsMatchDigest'
  BY <1>1, <1>2, <1>3, <1>5, <1>6 DEF HandlerOK, Calling, Checked, BlobsMatchDigest
<1>8. Ranged(h)'
  BY <1>2, <1>3, <1>6 DEF Ranged, HandlerOK
<1>9. Over(h)'
  <2>1. Monolithic(h) => SidOf(h) \in closed /\ (SidOf(h) \in sessions => faults < MaxFaults)
    BY <1>1, <1>2 DEF HandlerOK, Over
  <2>2. faults < MaxFaults => faults' < MaxFaults
    BY <1>2, <1>5, UploadAssumption DEF Frame, IInv, StateOK
  <2> QED
    BY <1>3, <1>5, <1>6, <2>1, <2>2 DEF Over, SidOf, Monolithic
<1> QED
  BY <1>1, <1>3, <1>5, <1>6, <1>7, <1>8, <1>9, WorkStep

-----------------------------------------------------------------------------
(***************************************************************************)
(* A step in which h takes up a request, gets the lock, or is through.     *)
(***************************************************************************)
LEMMA ComeAndGo ==
  ASSUME SInv, IInv', NEW h \in Caller, hpc[h] \notin {"discard", "discarding"}, NEW w \in HandlerPlaces,
         hpc' = [hpc EXCEPT ![h] = w], Frame({}, {}), up',
         req' \in [Caller -> ReqType], sessLock' \in [Sid -> Caller \cup {None}], UNCHANGED <<announced, blobs>>,
         \A g \in Caller \ {h} : req'[g] = req[g] /\ call'[g] = call[g] /\ spool'[g] = spool[g],
         \A g \in Caller \ {h}, s \in Sid : sessLock[s] = g => sessLock'[s] = g,
         \A g \in Caller \ {h} : Busy(g) /\ Monolithic(g) /\ Busy(h)' /\ Monolithic(h)' => SidOf(g) # SidOf(h)',
         HandlerOK(h)'
  PROVE  SInv'
<1>1. IInv /\ TypesOK /\ Apart /\ Survivors /\ BlobsMatchDigest
  BY DEF SInv
<1>2. hpc'[h] = w /\ \A g \in Caller \ {h} : hpc'[g] = hpc[g]
  BY <1>1 DEF TypesOK
<1>3. ASSUME NEW g \in Caller, g # h
      PROVE  HandlerOK(g)' /\ SidOf(g)' = SidOf(g) /\ Monolithic(g)' = Monolithic(g) /\ Busy(g)' = Busy(g)
  <2>1. HandlerOK(g)
    BY DEF SInv
  <2>2. Past(g) => SidOf(g) \in Sid
    BY WorkFacts
  <2>3. HandlerOK(g)'
    BY <1>1, <1>2, <1>3, <2>1, <2>2, OtherHandler
  <2> QED
    BY <1>2, <1>3, <2>3 DEF SidOf, Monolithic, Busy
<1>4. Apart'
  <2> SUFFICES ASSUME NEW f \in Caller, NEW g \in Caller, f # g,
                      Busy(f)', Busy(g)', Monolithic(f)', Monolithic(g)'
               PROVE  SidOf(f)' # SidOf(g)'
    BY DEF Apart
  <2>1. CASE f = h
    BY <1>3, <2>1
  <2>2. CASE g = h
    BY <1>3, <2>2
  <2>3. CASE f # h /\ g # h
    BY <1>1, <1>3, <2>3 DEF Apart
  <2> QED
    BY <2>1, <2>2, <2>3
<1>5. Survivors'
  <2>1. \A s : ~Discards(h, s)
    BY DEF Discards
  <2> QED
    BY <1>2, <2>1, SurvivorsStep
<1>6. TypesOK'
  <2>1. hpc' \in [Caller -> HandlerPlaces]
    BY <1>1 DEF TypesOK
  <2>2. faults' <= MaxFaults
    BY <1>1, UploadAssumption DEF Frame, TypesOK, IInv, StateOK
  <2>3. announced' \subseteq used' /\ spilled' \subseteq live'
    BY <1>1 DEF Frame, TypesOK
  <2> QED
    BY <2>1, <2>2, <2>3 DEF TypesOK
<1>7. BlobsMatchDigest'
  BY <1>1 DEF BlobsMatchDigest
<1> QED
  BY <1>3, <1>4, <1>5, <1>6, <1>7 DEF SInv

(***************************************************************************)
(* Bodies and digests of requests are contents.                            *)
(***************************************************************************)
LEMMA RequestTypes ==
  /\ Bodies \subseteq Bytes /\ <<>> \in Bytes
  /\ NoReq \in ReqType
  /\ \A r \in Requests : /\ r \in ReqType /\ r.op # "mono"
                         /\ r.op # "patch" => r.start = None
<1>1. Bodies \subseteq Bytes /\ <<>> \in Bytes
  BY UploadAssumption DEF Bytes
<1>2. NoReq \in ReqType
  BY <1>1 DEF NoReq, ReqType
<1>3. ASSUME NEW r \in Requests PROVE r \in ReqType /\ r.op # "mono" /\ (r.op # "patch" => r.start = None)
  <2>1. CASE r \in [op : {"get", "delete"}, sid : Sid, body : {<<>>}, start : {None}, want : {<<>>}]
    BY <1>1, <2>1 DEF ReqType
  <2>2. CASE r \in [op : {"patch"}, sid : Sid, body : Bodies, start : {None} \cup Starts, want : {<<>>}]
    BY <1>1, <2>2 DEF ReqType
  <2>3. CASE r \in [op : {"put"}, sid : Sid, body : Bodies, start : {None}, want : Bodies]
    BY <1>1, <2>3 DEF ReqType
  <2> QED
    BY <1>3, <2>1, <2>2, <2>3 DEF Requests
<1> QED
  BY <1>1, <1>2, <1>3

(***************************************************************************)
(* A handler that is idle has no call and no spool.                        *)
(***************************************************************************)
LEMMA IdleFacts ==
  ASSUME SInv, NEW h \in Caller
  PROVE  /\ IInv /\ TypesOK /\ HandlerOK(h)
         /\ ~Busy(h) => call[h].op = "none" /\ spool[h] = NoSpool
BY DEF SInv, HandlerOK, Owns, Calling, Busy

(***************************************************************************)
(* A request on a session arrives.                                         *)
(***************************************************************************)
LEMMA ArriveS ==
  ASSUME SInv, NEW h \in Caller, NEW r \in Requests, Arrive(h, r)
  PROVE  SInv'
<1>1. hpc[h] = "idle" /\ ~Busy(h) /\ up
  BY DEF Arrive, Busy
<1>2. IInv /\ TypesOK /\ HandlerOK(h) /\ call[h].op = "none" /\ spool[h] = NoSpool
  BY <1>1, IdleFacts
<1>3. /\ UNCHANGED vars /\ UNCHANGED <<sessLock, announced, blobs>>
      /\ req' = [req EXCEPT ![h] = r] /\ hpc' = [hpc EXCEPT ![h] = "lock"] /\ r.sid \in announced
  BY DEF Arrive, UploadUnchanged, Goto
<1>4. UNCHANGED <<managerVars, sessionVars, disk, call, spool, faults>>
  BY <1>3 DEF vars
<1>5. IInv' /\ Frame({}, {}) /\ up'
  BY <1>1, <1>2, <1>3, <1>4, UploadIInv, FrameQuiet DEF managerVars
<1>6. hpc'[h] = "lock" /\ "lock" \in HandlerPlaces /\ req'[h] = r /\ \A g \in Caller \ {h} : req'[g] = req[g]
  BY <1>2, <1>3 DEF TypesOK, HandlerPlaces
<1>7. r \in ReqType /\ r.op # "mono" /\ (r.op # "patch" => r.start = None)
  BY RequestTypes
<1>8. ~Monolithic(h)'
  BY <1>6, <1>7 DEF Monolithic
<1>9. req' \in [Caller -> ReqType] /\ sessLock' \in [Sid -> Caller \cup {None}]
  BY <1>2, <1>3, <1>7 DEF TypesOK
<1>10. HandlerOK(h)'
  <2>1. Owns(h)'
    BY <1>2, <1>3, <1>4, <1>5, <1>6, <1>8 DEF Owns, SidOf, Busy, TypesOK, managerVars
  <2>2. Calling(h)' /\ Checked(h)' /\ Over(h)'
    BY <1>2, <1>4, <1>6 DEF Calling, Checked, Over
  <2>3. Ranged(h)'
    BY <1>6, <1>7 DEF Ranged
  <2> QED
    BY <2>1, <2>2, <2>3 DEF HandlerOK
<1> QED
  BY <1>1, <1>3, <1>4, <1>5, <1>6, <1>8, <1>9, <1>10, ComeAndGo

(***************************************************************************)
(* A handler gets its session's lock: nobody else has it.                  *)
(***************************************************************************)
LEMMA LockSessionS ==
  ASSUME SInv, NEW h \in Caller, LockSession(h)
  PROVE  SInv'
<1>1. hpc[h] = "lock" /\ Busy(h)
  BY DEF LockSession, Busy
<1>2. IInv /\ TypesOK /\ HandlerOK(h)
  BY IdleFacts
<1>3. /\ UNCHANGED vars /\ UNCHANGED <<req, announced, blobs>>
      /\ sessLock[SidOf(h)] = None /\ sessLock' = [sessLock EXCEPT ![SidOf(h)] = h]
  BY DEF LockSession, UploadUnchanged, SidOf
<1>4. UNCHANGED <<managerVars, sessionVars, disk, call, spool, faults>>
  BY <1>3 DEF vars
<1>5. IInv' /\ Frame({}, {})
  BY <1>2, <1>3, <1>4, UploadIInv, FrameQuiet
<1>6. up /\ SidOf(h) \in used /\ SidOf(h) \in Sid /\ ~Monolithic(h) /\ SidOf(h) \in announced /\ call[h].op = "none"
  BY <1>1, <1>2 DEF HandlerOK, Owns, Calling, IInv, StateOK
<1>7. sessLock'[SidOf(h)] = h /\ sessLock' \in [Sid -> Caller \cup {None}]
  BY <1>2, <1>3, <1>6 DEF TypesOK
<1>8. \A g \in Caller \ {h}, s \in Sid : sessLock[s] = g => sessLock'[s] = g
  BY <1>2, <1>3, UploadAssumption DEF TypesOK
<1>9. ASSUME NEW w \in {"discard", "touch", "done"}, hpc' = [hpc EXCEPT ![h] = w] PROVE SInv'
  <2>1. hpc'[h] = w /\ w \in HandlerPlaces /\ req' \in [Caller -> ReqType]
    BY <1>2, <1>3, <1>9 DEF TypesOK, HandlerPlaces
  <2>2. SidOf(h)' = SidOf(h) /\ Monolithic(h)' = Monolithic(h) /\ Busy(h)' /\ up'
    BY <1>3, <1>4, <1>6, <2>1 DEF SidOf, Monolithic, Busy, managerVars
  <2>3. Owns(h)'
    BY <1>2, <1>3, <1>4, <1>6, <1>7, <2>2 DEF HandlerOK, Owns, managerVars
  <2>4. Calling(h)' /\ Checked(h)' /\ Over(h)'
    BY <1>4, <1>6, <2>1, <2>2 DEF Calling, Checked, Over
  <2>5. Ranged(h)'
    BY <1>2, <1>3, <2>1 DEF HandlerOK, Ranged
  <2>6. HandlerOK(h)'
    BY <2>3, <2>4, <2>5 DEF HandlerOK
  <2> QED
    BY <1>1, <1>3, <1>4, <1>5, <1>6, <1>7, <1>8, <1>9, <2>1, <2>2, <2>6, ComeAndGo
<1>10. \E w \in {"discard", "touch", "done"} : hpc' = [hpc EXCEPT ![h] = w]
  BY DEF LockSession, Goto, Answer
<1> QED
  BY <1>9, <1>10

(***************************************************************************)
(* The response and the deferred unlock.                                   *)
(***************************************************************************)
LEMMA RespondS ==
  ASSUME SInv, NEW h \in Caller, Respond(h)
  PROVE  SInv'
<1>1. hpc[h] = "done" /\ Past(h)
  BY DEF Respond, Past
<1>2. IInv /\ TypesOK /\ HandlerOK(h)
  BY IdleFacts
<1>3. /\ DropSpool(h) /\ UNCHANGED <<announced, blobs>> /\ req' = [req EXCEPT ![h] = NoReq]
      /\ hpc' = [hpc EXCEPT ![h] = "idle"]
      /\ sessLock' = [s \in Sid |-> IF sessLock[s] = h THEN None ELSE sessLock[s]]
  BY DEF Respond, Goto
<1>4. UNCHANGED <<managerVars, sessionVars, disk, call, faults>> /\ up
  BY <1>3 DEF DropSpool
<1>5. IInv' /\ Frame({}, {}) /\ up'
  BY <1>2, <1>3, <1>4, UploadIInv, FrameQuiet DEF managerVars
<1>6. spool'[h] = NoSpool /\ \A g \in Caller \ {h} : spool'[g] = spool[g]
  BY <1>2, <1>3 DEF DropSpool, IInv, StateOK
<1>7. hpc'[h] = "idle" /\ "idle" \in HandlerPlaces /\ req'[h] = NoReq /\ \A g \in Caller \ {h} : req'[g] = req[g]
  BY <1>2, <1>3 DEF TypesOK, HandlerPlaces
<1>8. req' \in [Caller -> ReqType] /\ sessLock' \in [Sid -> Caller \cup {None}]
  BY <1>2, <1>3, RequestTypes DEF TypesOK
<1>9. \A g \in Caller \ {h}, s \in Sid : sessLock[s] = g => sessLock'[s] = g
  BY <1>3
<1>10. ~Busy(h)' /\ call[h].op = "none"
  BY <1>1, <1>2, <1>7 DEF Busy, HandlerOK, Calling
<1>11. HandlerOK(h)'
  <2>1. Owns(h)'
    BY <1>6, <1>10 DEF Owns
  <2>2. Calling(h)' /\ Checked(h)' /\ Over(h)'
    BY <1>4, <1>7, <1>10 DEF Calling, Checked, Over
  <2>3. Ranged(h)'
    BY <1>7 DEF Ranged, NoReq
  <2> QED
    BY <2>1, <2>2, <2>3 DEF HandlerOK
<1> QED
  BY <1>1, <1>3, <1>4, <1>5, <1>6, <1>7, <1>8, <1>9, <1>10, <1>11, ComeAndGo

(***************************************************************************)
(* A monolithic POST makes a session of its own, whose id is new.          *)
(***************************************************************************)
LEMMA PostMonolithicS ==
  ASSUME SInv, NEW h \in Caller, NEW s \in Sid, NEW body \in Bodies, NEW want \in Bodies,
         PostMonolithic(h, s, body, want)
  PROVE  SInv'
<1> DEFINE r == [op |-> "mono", sid |-> s, body |-> body, start |-> None, want |-> want]
<1>1. hpc[h] = "idle" /\ ~Busy(h)
  BY DEF PostMonolithic, Busy
<1>2. IInv /\ TypesOK /\ HandlerOK(h) /\ call[h].op = "none" /\ spool[h] = NoSpool
  BY <1>1, IdleFacts
<1>3. /\ Create(s) /\ UNCHANGED <<sessLock, announced, blobs>>
      /\ req' = [req EXCEPT ![h] = r] /\ hpc' = [hpc EXCEPT ![h] = "append"]
  BY DEF PostMonolithic, Goto
<1>4. s \notin used /\ s \in used' /\ s \in live' /\ up /\ up' /\ UNCHANGED <<call, spool>>
  BY <1>3 DEF Create
<1>5. IInv' /\ Frame({}, {})
  BY <1>2, <1>3, UploadIInv, FrameCreate
<1>6. r \in ReqType /\ r.op = "mono" /\ r.sid = s /\ r.start = None
  BY RequestTypes DEF ReqType
<1> HIDE DEF r
<1>7. hpc'[h] = "append" /\ "append" \in HandlerPlaces /\ req'[h] = r /\ \A g \in Caller \ {h} : req'[g] = req[g]
  BY <1>2, <1>3 DEF TypesOK, HandlerPlaces
<1>8. Monolithic(h)' /\ SidOf(h)' = s /\ Busy(h)'
  BY <1>6, <1>7 DEF Monolithic, SidOf, Busy
<1>9. req' \in [Caller -> ReqType] /\ sessLock' \in [Sid -> Caller \cup {None}]
  BY <1>2, <1>3, <1>6 DEF TypesOK
<1>10. \A g \in Caller : Busy(g) => SidOf(g) # s
  BY <1>4 DEF SInv, HandlerOK, Owns
<1>11. s \notin announced'
  BY <1>2, <1>3, <1>4 DEF TypesOK
<1>12. HandlerOK(h)'
  <2>1. Owns(h)'
    BY <1>2, <1>4, <1>7, <1>8, <1>11 DEF Owns
  <2>2. Calling(h)' /\ Checked(h)' /\ Over(h)'
    BY <1>2, <1>4, <1>7 DEF Calling, Checked, Over
  <2>3. Ranged(h)'
    BY <1>6, <1>7 DEF Ranged
  <2> QED
    BY <2>1, <2>2, <2>3 DEF HandlerOK
<1> QED
  BY <1>1, <1>3, <1>4, <1>5, <1>7, <1>8, <1>9, <1>10, <1>12, ComeAndGo

-----------------------------------------------------------------------------
(***************************************************************************)
(* A new session is announced: no handler works on it yet.                 *)
(***************************************************************************)
LEMMA PostSessionS ==
  ASSUME SInv, NEW s \in Sid, PostSession(s)
  PROVE  SInv'
<1>1. IInv /\ TypesOK /\ Apart /\ Survivors /\ BlobsMatchDigest
  BY DEF SInv
<1>2. Create(s) /\ UNCHANGED <<hpc, req, sessLock, blobs>> /\ announced' = announced \cup {s}
  BY DEF PostSession
<1>3. s \notin used /\ s \in used' /\ up /\ up' /\ UNCHANGED <<call, spool, closed, spilled, disk>>
  BY <1>2 DEF Create, sessionVars
<1>4. IInv' /\ Frame({}, {})
  <2>1. IInv'
    BY <1>1, <1>2, NextIInv DEF Next
  <2> QED
    BY <1>1, <1>2, <2>1, FrameCreate
<1>5. ASSUME NEW g \in Caller PROVE HandlerOK(g)'
  <2>1. HandlerOK(g)
    BY DEF SInv
  <2> QED
    BY <1>1, <1>2, <1>3, <1>4, <2>1, OtherHandler
<1>6. Apart' /\ BlobsMatchDigest'
  BY <1>1, <1>2 DEF Apart, BlobsMatchDigest, Busy, Monolithic, SidOf
<1>7. Survivors'
  <2>1. \A t : \A g \in Caller : Discards(g, t)' <=> Discards(g, t)
    BY <1>2 DEF Discards, SidOf
  <2> QED
    BY <1>1, <1>4, <2>1 DEF Survivors, Frame
<1>8. TypesOK'
  <2>1. faults' <= MaxFaults
    BY <1>1, <1>4, UploadAssumption DEF Frame, TypesOK, IInv, StateOK
  <2>2. announced' \subseteq used' /\ spilled' \subseteq live'
    BY <1>1, <1>2, <1>3, <1>4 DEF Frame, TypesOK
  <2> QED
    BY <1>1, <1>2, <1>3, <2>1, <2>2 DEF TypesOK
<1> QED
  BY <1>4, <1>5, <1>6, <1>7, <1>8 DEF SInv

(***************************************************************************)
(* A process whose handlers all rest.                                      *)
(***************************************************************************)
LEMMA RestingHandlers ==
  ASSUME NEW h \in Caller, hpc[h] = "idle", req[h] = NoReq, call[h].op = "none", spool[h] = NoSpool
  PROVE  HandlerOK(h)
<1>1. Owns(h) /\ Calling(h)
  BY DEF Owns, Calling, Busy
<1>2. Ranged(h) /\ Checked(h) /\ Over(h)
  BY DEF Ranged, Checked, Over, NoReq
<1> QED
  BY <1>1, <1>2 DEF HandlerOK

(***************************************************************************)
(* The invariant holds initially.                                          *)
(***************************************************************************)
LEMMA InitS == ServerInit => SInv
<1> SUFFICES ASSUME ServerInit PROVE SInv
  OBVIOUS
<1>1. IInv
  BY InitIInv DEF ServerInit
<1>2. ASSUME NEW h \in Caller PROVE HandlerOK(h)
  BY RestingHandlers DEF ServerInit, Init, NoCall
<1>3. TypesOK
  BY RequestTypes, UploadAssumption DEF ServerInit, Init, TypesOK, HandlerPlaces
<1>4. Apart /\ Survivors /\ BlobsMatchDigest
  BY DEF ServerInit, Init, Apart, Survivors, BlobsMatchDigest, Busy
<1> QED
  BY <1>1, <1>2, <1>3, <1>4 DEF SInv

(***************************************************************************)
(* The process dies, and its handlers with it.                             *)
(***************************************************************************)
LEMMA ServerCrashS ==
  ASSUME SInv, ServerCrash
  PROVE  SInv'
<1>1. IInv /\ TypesOK /\ BlobsMatchDigest
  BY DEF SInv
<1>2. /\ Crash /\ hpc' = [h \in Caller |-> "idle"] /\ req' = [h \in Caller |-> NoReq]
      /\ sessLock' = [s \in Sid |-> None] /\ UNCHANGED <<blobs, announced>>
  BY DEF ServerCrash
<1>3. IInv'
  BY <1>1, <1>2, CrashIInv
<1>4. /\ up' = FALSE /\ live' = {} /\ spilled' = {} /\ used' = used /\ faults' = faults - 1 /\ faults > 0
      /\ call' = [c \in Caller |-> NoCall] /\ spool' = [c \in Caller |-> NoSpool]
  BY <1>2 DEF Crash, Fault
<1>5. ASSUME NEW h \in Caller PROVE HandlerOK(h)'
  <2>1. hpc'[h] = "idle" /\ req'[h] = NoReq /\ call'[h].op = "none" /\ spool'[h] = NoSpool
    BY <1>2, <1>4 DEF NoCall
  <2>2. Owns(h)' /\ Calling(h)'
    BY <2>1 DEF Owns, Calling, Busy
  <2>3. Ranged(h)' /\ Checked(h)' /\ Over(h)'
    BY <2>1 DEF Ranged, Checked, Over, NoReq
  <2> QED
    BY <2>2, <2>3 DEF HandlerOK
<1>6. TypesOK'
  <2>1. faults' <= MaxFaults
    BY <1>1, <1>4, UploadAssumption DEF TypesOK, IInv, StateOK
  <2> QED
    BY <1>1, <1>2, <1>4, <2>1, RequestTypes DEF TypesOK, HandlerPlaces
<1>7. Apart' /\ Survivors' /\ BlobsMatchDigest'
  BY <1>1, <1>2, <1>4 DEF Apart, Survivors, BlobsMatchDigest, Busy
<1> QED
  BY <1>3, <1>5, <1>6, <1>7 DEF SInv

(***************************************************************************)
(* A new process empties the upload directory; nobody works yet.           *)
(***************************************************************************)
LEMMA NewManagerS ==
  ASSUME SInv, NewManager, UNCHANGED handlerVars
  PROVE  SInv'
<1>1. IInv /\ TypesOK /\ Apart /\ BlobsMatchDigest
  BY DEF SInv
<1>2. /\ ~up /\ up' = TRUE /\ UNCHANGED <<sessions, used, live, sessionVars, call, spool, faults>>
      /\ UNCHANGED <<hpc, req, sessLock, blobs, announced>>
  BY DEF NewManager, handlerVars
<1>3. IInv'
  BY <1>1, NewManagerIInv
<1>4. ASSUME NEW h \in Caller PROVE HandlerOK(h)'
  <2>1. HandlerOK(h) /\ hpc[h] = "idle"
    BY <1>2 DEF SInv, HandlerOK, Owns, Busy
  <2>2. hpc'[h] = "idle" /\ spool'[h] = NoSpool /\ call'[h].op = "none" /\ ~Busy(h)'
    BY <1>2, <2>1 DEF HandlerOK, Owns, Calling, Busy
  <2>3. Owns(h)' /\ Calling(h)' /\ Checked(h)' /\ Over(h)'
    BY <2>2 DEF Owns, Calling, Checked, Over
  <2>4. Ranged(h)'
    BY <1>2, <2>1, <2>2 DEF HandlerOK, Ranged
  <2> QED
    BY <2>3, <2>4 DEF HandlerOK
<1>5. TypesOK'
  BY <1>1, <1>2 DEF TypesOK, sessionVars
<1>6. Apart' /\ BlobsMatchDigest'
  BY <1>1, <1>2 DEF Apart, BlobsMatchDigest, Busy, Monolithic, SidOf
<1>7. Survivors'
  BY <1>1, <1>2 DEF Survivors, TypesOK
<1> QED
  BY <1>3, <1>4, <1>5, <1>6, <1>7 DEF SInv

(***************************************************************************)
(* A handler's step keeps the invariant.                                   *)
(***************************************************************************)
LEMMA HandlerS ==
  ASSUME SInv, NEW h \in Caller, HandlerNext(h)
  PROVE  SInv'
BY PostMonolithicS, ArriveS, LockSessionS, TouchSessionS, CheckRangeS, EnterAppendS, AppendBodyS,
   AppendRefusedS, CopyBodyS, BodyAppendedS, BodyFailedS, FinalizeS, FinalizeSpoolS, FinalizeUnknownS,
   PutOpenS, PutPublishS, PutRemovesSpoolS, PutFailsS, DiscardS, DiscardingS, UnspoolS, RespondS
   DEF HandlerNext

(***************************************************************************)
(* Every step of the server keeps the invariant.                           *)
(***************************************************************************)
LEMMA NextS == SInv /\ [ServerNext]_serverVars => SInv'
<1> SUFFICES ASSUME SInv, [ServerNext]_serverVars PROVE SInv'
  OBVIOUS
<1>1. IInv /\ TypesOK
  BY DEF SInv
<1>2. CASE \E h \in Caller : HandlerNext(h)
  BY <1>2, HandlerS
<1>3. CASE \E s \in Sid : PostSession(s)
  BY <1>3, PostSessionS
<1>4. CASE BackgroundNext
  <2>1. CASE NewManager
    BY <1>4, <2>1, NewManagerS DEF BackgroundNext
  <2>2. CASE SweeperNext \/ CloserNext \/ \E s \in Sid : TimePasses(s)
    <3>1. IInv'
      BY <1>1, <2>2, NextIInv DEF Next
    <3>2. Frame({}, {}) /\ UNCHANGED <<call, spool, live>>
      BY <1>1, <2>2, FrameBackground
    <3> QED
      BY <1>4, <3>1, <3>2, BackStep DEF BackgroundNext
  <2> QED
    BY <1>4, <2>1, <2>2 DEF BackgroundNext
<1>5. CASE ServerCrash
  BY <1>5, ServerCrashS
<1>6. CASE UNCHANGED serverVars
  <2>1. UNCHANGED vars /\ UNCHANGED handlerVars
    BY <1>6 DEF serverVars
  <2>2. UNCHANGED <<managerVars, sessionVars, disk, call, spool, faults>>
    BY <2>1 DEF vars
  <2>3. IInv' /\ Frame({}, {})
    BY <1>1, <2>1, <2>2, NextIInv, FrameQuiet
  <2> QED
    BY <2>1, <2>2, <2>3, BackStep DEF managerVars
<1> QED
  BY <1>2, <1>3, <1>4, <1>5, <1>6 DEF ServerNext

-----------------------------------------------------------------------------
(***************************************************************************)
(* For any number of handlers, sessions, bodies, offsets and faults, every *)
(* state the server reaches satisfies SInv. IInv is among its parts: what  *)
(* package upload guarantees its callers holds of the server whatever a    *)
(* session is sent, without the bound that UploadManager's own             *)
(* specification puts on that.                                             *)
(***************************************************************************)
THEOREM ServerInvariant == ServerSpec => []SInv
<1>1. ServerInit => SInv
  BY InitS
<1>2. SInv /\ [ServerNext]_serverVars => SInv'
  BY NextS
<1> QED
  BY <1>1, <1>2, PTL DEF ServerSpec

(***************************************************************************)
(* A PATCH that passed the Content-Range check puts its bytes where the    *)
(* range said, whichever PATCHes race for the offset: s.sessLocks is held  *)
(* from the check to the response, and the sweeper does not write.         *)
(***************************************************************************)
THEOREM RangeHonouredHolds == ServerSpec => []RangeHonoured
<1>1. SInv => RangeHonoured
  BY DEF SInv, HandlerOK, Ranged, RangeHonoured, SidOf
<1> QED
  BY <1>1, ServerInvariant, PTL

(***************************************************************************)
(* The bytes kept under a digest have that digest: the spool that was      *)
(* checked is the spool that is stored, and it reads as it did when its    *)
(* digest was taken.                                                       *)
(***************************************************************************)
THEOREM BlobsMatchDigestHolds == ServerSpec => []BlobsMatchDigest
<1>1. SInv => BlobsMatchDigest
  BY DEF SInv
<1> QED
  BY <1>1, ServerInvariant, PTL

(***************************************************************************)
(* A session that a request leaves open has all its bytes, so a PUT that   *)
(* failed can be sent again; the session of a monolithic POST, which       *)
(* nobody can name, is closed before the answer.                           *)
(***************************************************************************)
THEOREM SessionsSurviveOrEndHolds == ServerSpec => []SessionsSurviveOrEnd
<1>1. SInv => SessionsSurviveOrEnd
  <2> SUFFICES ASSUME SInv PROVE SessionsSurviveOrEnd
    OBVIOUS
  <2>1. IInv /\ Survivors
    BY DEF SInv
  <2>2. ASSUME NEW s \in live \ closed
        PROVE  hash[s] = IF s \in spilled THEN file[s] ELSE buf[s]
    BY <2>1, <2>2 DEF IInv, StateOK, BytesOK
  <2>3. SurvivorKeepsItsBytes
    BY <2>1, <2>2 DEF SurvivorKeepsItsBytes, Survivors, Discards, SidOf
  <2>4. MonolithicCleansUp
    BY DEF MonolithicCleansUp, SInv, HandlerOK, Over, SidOf
  <2> QED
    BY <2>3, <2>4 DEF SessionsSurviveOrEnd
<1> QED
  BY <1>1, ServerInvariant, PTL

(***************************************************************************)
(* What package upload promises its callers holds of the server, for       *)
(* bodies of any size: no file of a forgotten session, true snapshots, no  *)
(* write into a closed session, nothing left after Close.                  *)
(***************************************************************************)
THEOREM ServerUploadSafety == ServerSpec => []UploadSafety
<1>1. SInv => UploadSafety
  BY IInvSafety DEF SInv
<1> QED
  BY <1>1, ServerInvariant, PTL
=============================================================================
