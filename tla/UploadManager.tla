---------------------------- MODULE UploadManager ----------------------------
(***************************************************************************)
(* Package upload: sessions that collect the bytes of a blob in memory and *)
(* spill to a file, the manager that registers and expires them, and the   *)
(* spools a finalize reads the bytes back through.                         *)
(*                                                                         *)
(* Callers use the package as its documentation allows: any of them may    *)
(* call any method on any session at any time.  The sweeper and Close run  *)
(* beside them.  A step is one critical section of m.mu or s.mu; the one   *)
(* critical section that spans steps is Append's, which keeps s.mu while   *)
(* the request body arrives.                                               *)
(*                                                                         *)
(* Bytes are chunks, a body is a sequence of chunks and a write delivers   *)
(* one.  sha256 is injective on the contents that occur, so a content is   *)
(* its own digest.  Time is what the sweeper can tell of it: a session is  *)
(* idle once the timeout has passed since its last touch.                  *)
(***************************************************************************)
EXTENDS Integers, Sequences, FiniteSets, Functions

CONSTANTS Caller,       \* goroutines that use the package
          Sid,          \* session ids; a random id is never drawn twice
          Chunk,        \* what one write delivers
          Bodies,       \* request bodies
          MaxInMemory,  \* bytes a session buffers before it spills
          MaxSize,      \* bound: bytes a session is ever sent
          MaxFaults,    \* bound: failing system calls and crashes
          None

ASSUME UploadAssumption ==
  /\ None \notin Caller \cup Sid
  /\ Bodies \subseteq Seq(Chunk)
  /\ {MaxInMemory, MaxSize, MaxFaults} \subseteq Nat

VARIABLES
  up,        \* the process runs
  sessions,  \* m.sessions: the registered sessions
  used,      \* ids drawn so far
  live,      \* session objects that exist in this process
  buf,       \* s.buf
  file,      \* the bytes of the session's file
  spilled,   \* sessions with s.file # nil
  hash,      \* the bytes s.hash has seen; s.size is their number
  closed,    \* sessions with s.closed
  removed,   \* sessions with s.removed
  mu,        \* the caller whose Append holds s.mu
  idle,      \* sessions untouched for longer than the timeout
  disk,      \* sessions whose path exists in the upload directory
  call,      \* what each caller is doing
  spool,     \* the spool it got from Spool
  sweep,     \* the sweeper
  stale,     \* sessions whose last touch is before the sweep's deadline
  shut,      \* Manager.Close
  faults     \* faults still to come

sessionVars == <<buf, file, spilled, hash, removed, closed>>
managerVars == <<up, sessions, used, live>>
actorVars == <<sweep, shut>>
timeVars == <<idle, stale>>
vars == <<managerVars, sessionVars, timeVars, mu, disk, call, spool, actorVars, faults>>

NoCall == [op |-> "none", sid |-> None, rest |-> <<>>]
NoSpool == [sid |-> None, digest |-> <<>>, mem |-> <<>>, path |-> FALSE, removed |-> FALSE]
Resting == [pc |-> "rest", expired |-> {}, cur |-> None]
Serving == [pc |-> "open", left |-> {}, cur |-> None]

Init ==
  /\ up = TRUE
  /\ sessions = {} /\ used = {} /\ live = {}
  /\ buf = [s \in Sid |-> <<>>]
  /\ file = [s \in Sid |-> <<>>]
  /\ hash = [s \in Sid |-> <<>>]
  /\ spilled = {} /\ closed = {} /\ removed = {}
  /\ mu = [s \in Sid |-> None]
  /\ idle = {} /\ stale = {}
  /\ disk = {}
  /\ call = [c \in Caller |-> NoCall]
  /\ spool = [c \in Caller |-> NoSpool]
  /\ sweep = Resting
  /\ shut = Serving
  /\ faults = MaxFaults
-----------------------------------------------------------------------------
touch(s) ==
  /\ idle' = idle \ {s}
  /\ stale' = stale \ {s}

Fault == faults > 0 /\ faults' = faults - 1

Free(s) == mu[s] = None

Return(c) == call' = [call EXCEPT ![c] = NoCall]

(***************************************************************************)
(* More than the timeout passes since the last touch of s.                 *)
(***************************************************************************)
TimePasses(s) ==
  /\ up
  /\ s \in sessions \ idle
  /\ idle' = idle \cup {s}
  /\ UNCHANGED <<managerVars, sessionVars, stale, mu, disk, call, spool, actorVars, faults>>

\* Mutant of Create: does not look at m.closed.
CreateUnchecked(s) ==
  /\ up
  /\ s \notin used
  /\ sessions' = sessions \cup {s}
  /\ used' = used \cup {s}
  /\ live' = live \cup {s}
  /\ UNCHANGED <<up, sessionVars, timeVars, mu, disk, call, spool, actorVars, faults>>

(***************************************************************************)
(* Manager.Create: an empty session under a fresh id; refused once the     *)
(* manager is closed.                                                      *)
(***************************************************************************)
Create(s) ==
  /\ up /\ shut.pc = "open"
  /\ s \notin used
  /\ sessions' = sessions \cup {s}
  /\ used' = used \cup {s}
  /\ live' = live \cup {s}
  /\ UNCHANGED <<up, sessionVars, timeVars, mu, disk, call, spool, actorVars, faults>>

(***************************************************************************)
(* The touch that ends Manager.Get, outside m.mu.                          *)
(***************************************************************************)
GetTouch(s) ==
  /\ up /\ s \in live
  /\ touch(s)
  /\ UNCHANGED <<managerVars, sessionVars, mu, disk, call, spool, actorVars, faults>>
-----------------------------------------------------------------------------
(***************************************************************************)
(* Session.Append and Session.Spool touch the session and then wait for    *)
(* s.mu, behind an Append that may keep it for longer than the timeout.    *)
(***************************************************************************)
Enter(c, op, s, body) ==
  /\ up /\ call[c] = NoCall
  /\ s \in live
  /\ touch(s)
  /\ call' = [call EXCEPT ![c] = [op |-> op, sid |-> s, rest |-> body]]
  /\ UNCHANGED <<managerVars, sessionVars, mu, disk, spool, actorVars, faults>>

AppendEnter(c, s, body) == Enter(c, "append", s, body)

SpoolEnter(c, s) == Enter(c, "spool", s, <<>>)

(***************************************************************************)
(* Append keeps s.mu while the body is copied.                             *)
(***************************************************************************)
AppendStart(c) ==
  LET s == call[c].sid IN
  /\ call[c].op = "append"
  /\ Free(s) /\ s \notin closed
  /\ mu' = [mu EXCEPT ![s] = c]
  /\ call' = [call EXCEPT ![c].op = "copy"]
  /\ UNCHANGED <<managerVars, sessionVars, timeVars, disk, spool, actorVars, faults>>

AppendUnknown(c) ==
  /\ call[c].op = "append"
  /\ Free(call[c].sid) /\ call[c].sid \in closed
  /\ touch(call[c].sid)
  /\ Return(c)
  /\ UNCHANGED <<managerVars, sessionVars, mu, disk, spool, actorVars, faults>>

\* Mutant of write: a spill starts the file empty.
writeLosesBuffer(s, x) ==
  LET spills == s \notin spilled /\ Len(hash[s]) + 1 > MaxInMemory IN
  /\ hash' = [hash EXCEPT ![s] = Append(@, x)]
  /\ IF s \in spilled \/ spills
     THEN /\ file' = [file EXCEPT ![s] = Append(@, x)]
          /\ buf' = [buf EXCEPT ![s] = <<>>]
          /\ spilled' = spilled \cup {s}
          /\ disk' = IF spills THEN disk \cup {s} ELSE disk
     ELSE /\ buf' = [buf EXCEPT ![s] = Append(@, x)]
          /\ UNCHANGED <<file, spilled, disk>>

(***************************************************************************)
(* Session.write of one chunk x: into the file, into a file that spill has *)
(* just made of the buffer, or into the buffer.                            *)
(***************************************************************************)
MustSpill(s) == s \notin spilled /\ Len(hash[s]) + 1 > MaxInMemory

write(s, x) ==
  /\ hash' = [hash EXCEPT ![s] = Append(@, x)]
  /\ \/ /\ s \in spilled
        /\ file' = [file EXCEPT ![s] = Append(@, x)]
        /\ UNCHANGED <<buf, spilled, disk>>
     \/ /\ MustSpill(s)
        /\ s \notin disk
        /\ file' = [file EXCEPT ![s] = Append(buf[s], x)]
        /\ buf' = [buf EXCEPT ![s] = <<>>]
        /\ spilled' = spilled \cup {s}
        /\ disk' = disk \cup {s}
     \/ /\ s \notin spilled /\ ~MustSpill(s)
        /\ buf' = [buf EXCEPT ![s] = Append(@, x)]
        /\ UNCHANGED <<file, spilled, disk>>

AppendWrite(c) ==
  LET s == call[c].sid IN
  /\ call[c].op = "copy"
  /\ call[c].rest # <<>>
  /\ touch(s)
  /\ write(s, Head(call[c].rest))
  /\ call' = [call EXCEPT ![c].rest = Tail(@)]
  /\ UNCHANGED <<managerVars, closed, removed, mu, spool, actorVars, faults>>

AppendEnds(c) ==
  /\ mu' = [mu EXCEPT ![call[c].sid] = None]
  /\ Return(c)
  /\ touch(call[c].sid)
  /\ UNCHANGED <<managerVars, sessionVars, spool, actorVars>>

AppendDone(c) ==
  /\ call[c].op = "copy"
  /\ call[c].rest = <<>>
  /\ AppendEnds(c)
  /\ UNCHANGED <<disk, faults>>

\* Mutant of AppendFails: the error path returns with s.mu locked.
AppendFailsLocked(c) ==
  /\ call[c].op = "copy"
  /\ Return(c)
  /\ touch(call[c].sid)
  /\ UNCHANGED <<managerVars, sessionVars, mu, disk, spool, actorVars, faults>>

(***************************************************************************)
(* Append returns an error and keeps what it has read: the body's reader   *)
(* failed; a write or a spill failed, the latter perhaps leaving a file    *)
(* its own clean-up could not remove; or such a file is in the way.        *)
(***************************************************************************)
AppendFails(c) ==
  LET s == call[c].sid IN
  /\ call[c].op = "copy"
  /\ AppendEnds(c)
  /\ \/ UNCHANGED <<disk, faults>>
     \/ /\ Fault
        /\ call[c].rest # <<>> /\ MustSpill(s)
        /\ disk' = disk \cup {s}
-----------------------------------------------------------------------------
(***************************************************************************)
(* Session.Spool: a snapshot of size and digest, over the buffer's bytes   *)
(* or over the file's path.                                                *)
(***************************************************************************)
Spool(c) ==
  LET s == call[c].sid IN
  /\ call[c].op = "spool"
  /\ Free(s) /\ s \notin closed
  /\ spool' = [spool EXCEPT ![c] =
       [sid |-> s, digest |-> hash[s], mem |-> buf[s],
        path |-> s \in spilled, removed |-> FALSE]]
  /\ Return(c)
  /\ UNCHANGED <<managerVars, sessionVars, timeVars, mu, disk, actorVars, faults>>

SpoolUnknown(c) ==
  /\ call[c].op = "spool"
  /\ Free(call[c].sid) /\ call[c].sid \in closed
  /\ Return(c)
  /\ UNCHANGED <<managerVars, sessionVars, timeVars, mu, disk, spool, actorVars, faults>>

\* Mutant of ReadSpool: reads to the end of the file.
ReadSpoolToEnd(sp) == IF sp.path THEN file[sp.sid] ELSE sp.mem

(***************************************************************************)
(* What a reader of spool sp yields from start to end: the first size      *)
(* bytes of the file, however long it has grown (or all of a shorter one), *)
(* or the captured buffer.                                                 *)
(***************************************************************************)
ReadSpool(sp) ==
  LET bytes == file[sp.sid] IN
  IF ~sp.path THEN sp.mem
  ELSE IF Len(bytes) < Len(sp.digest) THEN bytes ELSE SubSeq(bytes, 1, Len(sp.digest))

(***************************************************************************)
(* Spool.Open: touches the session; a file spool needs its path.           *)
(***************************************************************************)
OpenOK(sp) == ~sp.removed /\ (sp.path => sp.sid \in disk)

OpenSpool(c) ==
  /\ up /\ spool[c] # NoSpool /\ ~spool[c].removed
  /\ touch(spool[c].sid)
  /\ UNCHANGED <<managerVars, sessionVars, mu, disk, call, spool, actorVars, faults>>

(***************************************************************************)
(* Spool.Remove: unlinks the session's own file.                           *)
(***************************************************************************)
RemoveSpool(c) ==
  /\ up /\ spool[c] # NoSpool
  /\ spool' = [spool EXCEPT ![c].removed = TRUE, ![c].mem = <<>>]
  /\ \/ /\ disk' = IF spool[c].path THEN disk \ {spool[c].sid} ELSE disk
        /\ UNCHANGED faults
     \/ /\ spool[c].path /\ spool[c].sid \in disk
        /\ Fault /\ UNCHANGED disk
  /\ UNCHANGED <<managerVars, sessionVars, timeVars, mu, call, actorVars>>

(***************************************************************************)
(* A caller lets go of its spool.                                          *)
(***************************************************************************)
DropSpool(c) ==
  /\ up
  /\ spool' = [spool EXCEPT ![c] = NoSpool]
  /\ UNCHANGED <<managerVars, sessionVars, timeVars, mu, disk, call, actorVars, faults>>
-----------------------------------------------------------------------------
\* Mutant of CloseSucceeds: does not take s.mu.
CloseUnlocked(s) ==
  /\ closed' = closed \cup {s}
  /\ removed' = removed \cup {s}
  /\ disk' = disk \ {s}
  /\ buf' = [buf EXCEPT ![s] = <<>>]
  /\ spilled' = spilled \ {s}
  /\ UNCHANGED <<file, hash, faults>>

(***************************************************************************)
(* Session.close.  The session is closed for good; it counts as removed    *)
(* once its file is gone.  CloseSucceeds and CloseFails tell what it       *)
(* returns: it fails when the file cannot be unlinked, whether or not its  *)
(* descriptor was closed, and also when only the descriptor's close failed.*)
(***************************************************************************)
CloseSucceeds(s) ==
  /\ Free(s)
  /\ closed' = closed \cup {s}
  /\ removed' = removed \cup {s}
  /\ disk' = IF s \in removed THEN disk ELSE disk \ {s}
  /\ buf' = IF s \in removed THEN buf ELSE [buf EXCEPT ![s] = <<>>]
  /\ spilled' = IF s \in removed THEN spilled ELSE spilled \ {s}
  /\ UNCHANGED <<file, hash, faults>>

CloseFails(s) ==
  /\ Free(s)
  /\ s \notin removed
  /\ Fault
  /\ closed' = closed \cup {s}
  /\ buf' = [buf EXCEPT ![s] = <<>>]
  /\ \/ s \in disk /\ spilled' \in {spilled, spilled \ {s}} /\ UNCHANGED <<removed, disk>>
     \/ /\ s \in spilled
        /\ removed' = removed \cup {s}
        /\ disk' = disk \ {s}
        /\ UNCHANGED spilled
  /\ UNCHANGED <<file, hash>>

Forget(s) == sessions' = sessions \ {s}

(***************************************************************************)
(* Manager.Remove: look the session up, close it, and only then forget it. *)
(* A session that cannot be closed stays registered.                       *)
(***************************************************************************)
RemoveStart(c, s) ==
  /\ up /\ call[c] = NoCall
  /\ s \in sessions
  /\ call' = [call EXCEPT ![c] = [op |-> "close", sid |-> s, rest |-> <<>>]]
  /\ UNCHANGED <<managerVars, sessionVars, timeVars, mu, disk, spool, actorVars, faults>>

RemoveClose(c) ==
  /\ call[c].op = "close"
  /\ CloseSucceeds(call[c].sid)
  /\ call' = [call EXCEPT ![c].op = "forget"]
  /\ UNCHANGED <<managerVars, timeVars, mu, spool, actorVars>>

\* Mutant of RemoveFails: forgets the session although its file is there.
RemoveFailsForgets(c) ==
  /\ call[c].op = "close"
  /\ CloseFails(call[c].sid)
  /\ Forget(call[c].sid)
  /\ Return(c)
  /\ UNCHANGED <<up, used, live, timeVars, mu, spool, actorVars>>

RemoveFails(c) ==
  /\ call[c].op = "close"
  /\ CloseFails(call[c].sid)
  /\ Return(c)
  /\ UNCHANGED <<managerVars, timeVars, mu, spool, actorVars>>

RemoveForget(c) ==
  /\ call[c].op = "forget"
  /\ Forget(call[c].sid)
  /\ Return(c)
  /\ UNCHANGED <<up, used, live, sessionVars, timeVars, mu, disk, spool, actorVars, faults>>
-----------------------------------------------------------------------------
(***************************************************************************)
(* Manager.Sweep, run by the sweeper: collect the idle sessions under      *)
(* m.mu; for each, wait for s.mu (Offset), look again, close and forget.   *)
(***************************************************************************)
SweepUnchanged == UNCHANGED <<up, used, live, mu, call, spool, shut>>

\* Mutant of SweepCollect: skips sessions that are closed already.
SweepCollectOpen ==
  /\ up /\ sweep.pc = "rest"
  /\ sweep' = [sweep EXCEPT !.pc = "next", !.expired = (sessions \cap idle) \ closed]
  /\ stale' = (sessions \cap idle) \ closed
  /\ SweepUnchanged /\ UNCHANGED <<sessions, sessionVars, idle, disk, faults>>

SweepCollect ==
  /\ up /\ sweep.pc = "rest"
  /\ sweep' = [sweep EXCEPT !.pc = "next", !.expired = sessions \cap idle]
  /\ stale' = sessions \cap idle
  /\ SweepUnchanged /\ UNCHANGED <<sessions, sessionVars, idle, disk, faults>>

SweepCheck(s) ==
  /\ sweep.pc = "next"
  /\ s \in sweep.expired /\ Free(s)
  /\ sweep' = [sweep EXCEPT !.expired = @ \ {s},
                            !.pc = IF s \in stale THEN "close" ELSE "next",
                            !.cur = IF s \in stale THEN s ELSE None]
  /\ SweepUnchanged /\ UNCHANGED <<sessions, sessionVars, timeVars, disk, faults>>

SweepClose ==
  /\ sweep.pc = "close"
  /\ \/ CloseSucceeds(sweep.cur) /\ sweep' = [sweep EXCEPT !.pc = "forget"]
     \/ CloseFails(sweep.cur) /\ sweep' = [sweep EXCEPT !.pc = "next", !.cur = None]
  /\ SweepUnchanged /\ UNCHANGED <<sessions, timeVars>>

SweepForget ==
  /\ sweep.pc = "forget"
  /\ Forget(sweep.cur)
  /\ sweep' = [sweep EXCEPT !.pc = "next", !.cur = None]
  /\ SweepUnchanged /\ UNCHANGED <<sessionVars, timeVars, disk, faults>>

SweepReturns ==
  /\ sweep.pc = "next" /\ sweep.expired = {}
  /\ sweep' = Resting
  /\ stale' = {}
  /\ SweepUnchanged /\ UNCHANGED <<sessions, sessionVars, idle, disk, faults>>
-----------------------------------------------------------------------------
(***************************************************************************)
(* Manager.Close: refuse new sessions, stop the sweeper and wait for it,   *)
(* then close every session and forget it whether or not that worked.      *)
(***************************************************************************)
ShutUnchanged == UNCHANGED <<up, used, live, timeVars, mu, call, spool>>

CloseBegin ==
  /\ up /\ shut.pc = "open"
  /\ shut' = [shut EXCEPT !.pc = "stop", !.left = sessions]
  /\ ShutUnchanged /\ UNCHANGED <<sessions, sessionVars, disk, sweep, faults>>

CloseStop ==
  /\ shut.pc = "stop"
  /\ sweep.pc = "rest"
  /\ sweep' = [sweep EXCEPT !.pc = "stopped"]
  /\ shut' = [shut EXCEPT !.pc = "next"]
  /\ ShutUnchanged /\ UNCHANGED <<sessions, sessionVars, disk, faults>>

CloseOne(s) ==
  /\ shut.pc = "next"
  /\ s \in shut.left
  /\ CloseSucceeds(s) \/ CloseFails(s)
  /\ shut' = [shut EXCEPT !.pc = "forget", !.left = @ \ {s}, !.cur = s]
  /\ ShutUnchanged /\ UNCHANGED <<sessions, sweep>>

CloseForget ==
  /\ shut.pc = "forget"
  /\ Forget(shut.cur)
  /\ shut' = [shut EXCEPT !.pc = "next", !.cur = None]
  /\ ShutUnchanged /\ UNCHANGED <<sessionVars, disk, sweep, faults>>

CloseReturns ==
  /\ shut.pc = "next" /\ shut.left = {}
  /\ shut' = [shut EXCEPT !.pc = "closed"]
  /\ ShutUnchanged /\ UNCHANGED <<sessions, sessionVars, disk, sweep, faults>>

(***************************************************************************)
(* The process dies: what lives in memory is gone, what is on disk stays.  *)
(* A new process calls NewManager, which empties the upload directory      *)
(* before anything else.                                                   *)
(***************************************************************************)
Crash ==
  /\ up /\ Fault
  /\ up' = FALSE
  /\ sessions' = {} /\ live' = {} /\ spilled' = {} /\ closed' = {} /\ removed' = {}
  /\ buf' = [s \in Sid |-> <<>>]
  /\ file' = [s \in Sid |-> <<>>]
  /\ hash' = [s \in Sid |-> <<>>]
  /\ mu' = [s \in Sid |-> None]
  /\ idle' = {} /\ stale' = {}
  /\ call' = [c \in Caller |-> NoCall]
  /\ spool' = [c \in Caller |-> NoSpool]
  /\ sweep' = Resting
  /\ shut' = Serving
  /\ UNCHANGED <<used, disk>>

NewManager ==
  /\ ~up
  /\ up' = TRUE
  /\ disk' = {}
  /\ UNCHANGED <<sessions, used, live, sessionVars, timeVars, mu, call, spool, actorVars, faults>>
-----------------------------------------------------------------------------
(***************************************************************************)
(* Bytes a session has, and those that Appends are still to deliver.       *)
(***************************************************************************)
Sent(s) ==
  Len(hash[s]) + FoldFunction(LAMBDA k, n : n + IF k.sid = s THEN Len(k.rest) ELSE 0, 0, call)

CallerNext(c) ==
  \/ \E s \in Sid :
       \/ \E body \in Bodies : Sent(s) + Len(body) <= MaxSize /\ AppendEnter(c, s, body)
       \/ SpoolEnter(c, s)
       \/ RemoveStart(c, s)
  \/ AppendStart(c) \/ AppendUnknown(c) \/ Spool(c) \/ SpoolUnknown(c)
  \/ AppendWrite(c) \/ AppendDone(c) \/ AppendFails(c)
  \/ OpenSpool(c) \/ RemoveSpool(c) \/ DropSpool(c)
  \/ RemoveClose(c) \/ RemoveFails(c) \/ RemoveForget(c)

SweeperNext == SweepCollect \/ (\E s \in Sid : SweepCheck(s)) \/ SweepClose \/ SweepForget \/ SweepReturns

CloserProceeds == CloseStop \/ (\E s \in Sid : CloseOne(s)) \/ CloseForget \/ CloseReturns
CloserNext == CloseBegin \/ CloserProceeds

Next ==
  \/ \E c \in Caller : CallerNext(c)
  \/ \E s \in Sid : Create(s) \/ GetTouch(s) \/ TimePasses(s)
  \/ SweeperNext
  \/ CloserNext
  \/ Crash
  \/ NewManager

Spec == Init /\ [][Next]_vars

(***************************************************************************)
(* The scheduler runs every goroutine; a request body ends or its          *)
(* connection breaks; a goroutine that waits for s.mu gets it even if      *)
(* others keep taking it (Go's starvation mode); the sweeper's select,      *)
(* which is random, notices the closed stop channel.                        *)
(***************************************************************************)
Fairness ==
  /\ SF_vars(SweeperNext) /\ SF_vars(CloserProceeds)
  /\ \A c \in Caller : WF_vars(AppendWrite(c) \/ AppendDone(c) \/ AppendFails(c))

FairSpec == Spec /\ Fairness
-----------------------------------------------------------------------------
Content == UNION {[1..n -> Chunk] : n \in 0..MaxSize}

TypeOK ==
  /\ up \in BOOLEAN
  /\ \A S \in {sessions, used, live, spilled, closed, removed, idle, stale, disk} : S \subseteq Sid
  /\ \A f \in {buf, file, hash} : f \in [Sid -> Content]
  /\ mu \in [Sid -> Caller \cup {None}]
  /\ call \in [Caller -> [op : {"none", "append", "copy", "spool", "close", "forget"}, sid : Sid \cup {None}, rest : Content]]
  /\ spool \in [Caller -> [sid : Sid \cup {None}, digest : Content, mem : Content,
                         path : BOOLEAN, removed : BOOLEAN]]
  /\ sweep \in [pc : {"rest", "next", "close", "forget", "stopped"}, expired : SUBSET Sid, cur : Sid \cup {None}]
  /\ shut \in [pc : {"open", "stop", "next", "forget", "closed"}, left : SUBSET Sid, cur : Sid \cup {None}]
  /\ faults \in 0..MaxFaults

(***************************************************************************)
(* Manager.Sweep and Remove: "once a caller observes a session gone from   *)
(* the map, its file is already gone too" - whichever of Remove, the       *)
(* sweeper and a straggling Append meet on the session, and whatever       *)
(* system call fails.  Only Close forgets a session whose unlink failed.   *)
(***************************************************************************)
ForgottenLeavesNoFile ==
  up => \A s \in (used \ sessions) \cap disk : s \in closed /\ shut.pc \in {"forget", "next", "closed"}

(***************************************************************************)
(* A spool is a true snapshot: reading it yields the bytes its digest was  *)
(* taken of, although its session goes on to grow, spills the buffer the   *)
(* spool shares, or is closed.                                             *)
(***************************************************************************)
SpoolReadsItsDigest ==
  \A c \in Caller : spool[c] # NoSpool /\ ~spool[c].removed => ReadSpool(spool[c]) = spool[c].digest

(***************************************************************************)
(* Session.close waits for the Append in progress: no byte is written to a *)
(* session that has been closed and whose file may be gone.                *)
(***************************************************************************)
NoCopyIntoClosed ==
  \A c \in Caller : call[c].op = "copy" => call[c].sid \notin closed /\ mu[call[c].sid] = c

(***************************************************************************)
(* When Close has returned, no session is registered, none will be and no  *)
(* goroutine can give an old one a file.                                   *)
(***************************************************************************)
ClosedManagerIsEmpty ==
  shut.pc = "closed" => sessions = {} /\ live \subseteq closed /\ sweep.pc = "stopped"

(***************************************************************************)
(* A manager keeps its promises to disk and readers at any moment.         *)
(***************************************************************************)
UploadSafety == ForgottenLeavesNoFile /\ SpoolReadsItsDigest /\ NoCopyIntoClosed /\ ClosedManagerIsEmpty

(***************************************************************************)
(* No session stays registered and idle for ever: the sweeper, or Close,   *)
(* gets to it although uploads hold session mutexes and unlinks may fail a *)
(* few times.                                                              *)
(***************************************************************************)
NoSessionIdlesForever == \A s \in Sid : []<>(s \notin sessions \cap idle)

(***************************************************************************)
(* Close returns: it waits for the sweeper, which waits for session        *)
(* mutexes that Appends hold, and no such wait is circular.                *)
(***************************************************************************)
CloseTerminates == (shut.pc # "open") ~> (shut.pc \in {"open", "closed"})

(***************************************************************************)
(* What package upload starts comes to an end: idle sessions and Close.    *)
(***************************************************************************)
UploadsEnd == NoSessionIdlesForever /\ CloseTerminates

(***************************************************************************)
(* Append's comment: a session receiving bytes "is neither swept           *)
(* mid-transfer nor the instant it finishes".  So the sweeper never waits  *)
(* in close for the very session whose Append is copying.                  *)
(***************************************************************************)
SweepSparesReceiving ==
  \A c \in Caller : call[c].op = "copy" => ~(sweep.pc = "close" /\ sweep.cur = call[c].sid)
=============================================================================
