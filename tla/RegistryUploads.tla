--------------------------- MODULE RegistryUploads ---------------------------
(***************************************************************************)
(* The registry's blob upload handlers (POST, PATCH, PUT, GET and DELETE   *)
(* under /v2/<name>/blobs/uploads/) over package upload, whose state and   *)
(* steps are UploadManager's: a handler is one of its callers.             *)
(*                                                                         *)
(* Every handler but a monolithic POST works on a session the client       *)
(* named and holds sessLocks[id] from its first look at the session to     *)
(* the response.  The blob store is seen through what finalize sees of it: *)
(* Put opens the spool, perhaps several times, and stores the bytes or     *)
(* fails; it is modelled in BlobStore.                                     *)
(***************************************************************************)
EXTENDS UploadManager

CONSTANTS Starts,       \* where a PATCH's Content-Range may start
          MaxRequests   \* bound: requests on existing sessions

VARIABLES hpc,       \* where each handler is
          req,       \* its request
          status,    \* the status it will answer with
          sessLock,  \* s.sessLocks: the handler that holds a session's lock
          blobs,     \* stored blobs: the digest and the bytes kept under it
          announced, \* session ids clients have been told
          retry,     \* history: PUTs that failed in the store, with session kept
          requests   \* requests still to come

handlerVars == <<hpc, req, status, sessLock, blobs, announced, retry, requests>>
serverVars == <<vars, handlerVars>>

NoReq == [op |-> "none", sid |-> None, body |-> <<>>, start |-> None, want |-> <<>>]

ServerInit ==
  /\ Init
  /\ hpc = [h \in Caller |-> "idle"]
  /\ req = [h \in Caller |-> NoReq]
  /\ status = [h \in Caller |-> 0]
  /\ sessLock = [s \in Sid |-> None]
  /\ blobs = {}
  /\ announced = {}
  /\ retry = {}
  /\ requests = MaxRequests

Stored(d) == \E x \in blobs : x.digest = d

Goto(h, pc) == hpc' = [hpc EXCEPT ![h] = pc]

Answer(h, code) ==
  /\ hpc' = [hpc EXCEPT ![h] = "done"]
  /\ status' = [status EXCEPT ![h] = code]

(***************************************************************************)
(* An outcome that takes the session with it: status first, then           *)
(* discardSession, removeSpool and the response.                           *)
(***************************************************************************)
DiscardThenAnswer(h, code) ==
  /\ hpc' = [hpc EXCEPT ![h] = "discard"]
  /\ status' = [status EXCEPT ![h] = code]

Monolithic(h) == req[h].op = "mono"

(***************************************************************************)
(* What a failed step answers: a monolithic upload gives up its session,   *)
(* whose id the client never learns; any other upload keeps it.            *)
(***************************************************************************)
FailWith(h, code) ==
  IF Monolithic(h) THEN DiscardThenAnswer(h, code) ELSE Answer(h, code)

UploadUnchanged == UNCHANGED vars
-----------------------------------------------------------------------------
(***************************************************************************)
(* startUpload without ?digest=: a new session, announced with 202.        *)
(***************************************************************************)
PostSession(s) ==
  /\ Create(s)
  /\ announced' = announced \cup {s}
  /\ UNCHANGED <<hpc, req, status, sessLock, blobs, retry, requests>>

(***************************************************************************)
(* startUpload with ?digest=, past knownBlob: a session of its own.        *)
(***************************************************************************)
PostMonolithic(h, s, body, want) ==
  /\ hpc[h] = "idle"
  /\ ~Stored(want)
  /\ Create(s)
  /\ req' = [req EXCEPT ![h] = [op |-> "mono", sid |-> s, body |-> body, start |-> None, want |-> want]]
  /\ Goto(h, "append")
  /\ UNCHANGED <<status, sessLock, blobs, retry, requests, announced>>

(***************************************************************************)
(* A request on session s arrives and waits for the session's lock.        *)
(***************************************************************************)
Arrive(h, r) ==
  /\ up /\ hpc[h] = "idle"
  /\ requests > 0
  /\ r.sid \in announced
  /\ requests' = requests - 1
  /\ req' = [req EXCEPT ![h] = r]
  /\ Goto(h, "lock")
  /\ UNCHANGED <<status, sessLock, blobs, retry, announced>>
  /\ UploadUnchanged

\* Mutant of LockSession: looks the session up without taking its lock.
LockSessionNot(h) ==
  LET s == req[h].sid IN
  /\ hpc[h] = "lock"
  /\ \/ req[h].op = "delete" /\ Goto(h, "discard") /\ UNCHANGED status
     \/ req[h].op # "delete" /\ s \in sessions /\ Goto(h, "touch") /\ UNCHANGED status
     \/ req[h].op # "delete" /\ s \notin sessions /\ Answer(h, 404)
  /\ UNCHANGED <<req, sessLock, blobs, retry, requests, announced>>
  /\ UploadUnchanged

(***************************************************************************)
(* sessLocks.Lock(id), then Manager.Get's lookup; DELETE goes straight to  *)
(* Manager.Remove.                                                         *)
(***************************************************************************)
LockSession(h) ==
  LET s == req[h].sid IN
  /\ hpc[h] = "lock"
  /\ sessLock[s] = None
  /\ sessLock' = [sessLock EXCEPT ![s] = h]
  /\ \/ req[h].op = "delete" /\ Goto(h, "discard") /\ UNCHANGED status
     \/ req[h].op # "delete" /\ s \in sessions /\ Goto(h, "touch") /\ UNCHANGED status
     \/ req[h].op # "delete" /\ s \notin sessions /\ Answer(h, 404)
  /\ UNCHANGED <<req, blobs, retry, requests, announced>>
  /\ UploadUnchanged

(***************************************************************************)
(* Get's touch, and what follows it: GET answers, PUT asks knownBlob and   *)
(* drops the session of a blob that is stored already.  A Content-Range or *)
(* a digest that does not parse, and a failing knownBlob, are answered and *)
(* leave the session alone.                                                *)
(***************************************************************************)
TouchSession(h) ==
  /\ hpc[h] = "touch"
  /\ GetTouch(req[h].sid)
  /\ \/ req[h].op = "get" /\ Free(req[h].sid) /\ Answer(h, 204)
     \/ /\ req[h].op = "patch"
        /\ Goto(h, IF req[h].start = None THEN "append" ELSE "range")
        /\ UNCHANGED status
     \/ req[h].op = "put" /\ Stored(req[h].want) /\ DiscardThenAnswer(h, 201)
     \/ req[h].op = "put" /\ ~Stored(req[h].want) /\ Goto(h, "append") /\ UNCHANGED status
     \/ req[h].op \in {"patch", "put"} /\ Answer(h, 400)
     \/ req[h].op = "put" /\ Answer(h, 500)
  /\ UNCHANGED <<req, sessLock, blobs, retry, requests, announced>>

(***************************************************************************)
(* A PATCH's Content-Range must start at the current offset.               *)
(***************************************************************************)
CheckRange(h) ==
  /\ hpc[h] = "range"
  /\ Free(req[h].sid)
  /\ IF req[h].start = Len(hash[req[h].sid])
     THEN Goto(h, "append") /\ UNCHANGED status
     ELSE Answer(h, 416)
  /\ UNCHANGED <<req, sessLock, blobs, retry, requests, announced>>
  /\ UploadUnchanged

AsRetry(h) == [sid |-> req[h].sid, body |-> req[h].body, want |-> req[h].want]

EnterAppend(h) ==
  /\ hpc[h] = "append"
  /\ AppendEnter(h, req[h].sid, req[h].body)
  /\ Goto(h, "appending")
  /\ UNCHANGED <<req, status, sessLock, blobs, retry, requests, announced>>

AppendBody(h) ==
  /\ hpc[h] = "appending"
  /\ AppendStart(h)
  /\ Goto(h, "copy")
  /\ retry' = {r \in retry : r.sid = req[h].sid => req[h].op = "put" /\ r = AsRetry(h)}
  /\ UNCHANGED <<req, status, sessLock, blobs, requests, announced>>

AppendRefused(h) ==
  /\ hpc[h] = "appending"
  /\ AppendUnknown(h)
  /\ FailWith(h, 404)
  /\ UNCHANGED <<req, sessLock, blobs, retry, requests, announced>>

CopyBody(h) ==
  /\ hpc[h] = "copy"
  /\ AppendWrite(h)
  /\ UNCHANGED handlerVars

BodyAppended(h) ==
  /\ hpc[h] = "copy"
  /\ AppendDone(h)
  /\ \/ req[h].op = "patch" /\ Answer(h, 202)
     \/ req[h].op # "patch" /\ Goto(h, "finalize") /\ UNCHANGED status
  /\ UNCHANGED <<req, sessLock, blobs, retry, requests, announced>>

\* Mutant of BodyFailed: a monolithic upload keeps its session.
BodyFailedKeepsSession(h) ==
  /\ hpc[h] = "copy"
  /\ AppendFails(h)
  /\ Answer(h, 500)
  /\ UNCHANGED <<req, sessLock, blobs, retry, requests, announced>>

BodyFailed(h) ==
  /\ hpc[h] = "copy"
  /\ AppendFails(h)
  /\ FailWith(h, 500)
  /\ UNCHANGED <<req, sessLock, blobs, retry, requests, announced>>
-----------------------------------------------------------------------------
(***************************************************************************)
(* finalize: take the spool and compare digests.                           *)
(***************************************************************************)
Finalize(h) ==
  /\ hpc[h] = "finalize"
  /\ SpoolEnter(h, req[h].sid)
  /\ Goto(h, "spooling")
  /\ UNCHANGED <<req, status, sessLock, blobs, retry, requests, announced>>

FinalizeSpool(h) ==
  /\ hpc[h] = "spooling"
  /\ Spool(h)
  /\ IF hash[req[h].sid] = req[h].want
     THEN Goto(h, "put") /\ UNCHANGED status
     ELSE DiscardThenAnswer(h, 400)
  /\ UNCHANGED <<req, sessLock, blobs, retry, requests, announced>>

FinalizeUnknown(h) ==
  /\ hpc[h] = "spooling"
  /\ SpoolUnknown(h)
  /\ FailWith(h, 404)
  /\ UNCHANGED <<req, sessLock, blobs, retry, requests, announced>>

(***************************************************************************)
(* blob.Store.Put as finalize sees it, one upload per digest at a time: it *)
(* opens the spool (and a raw layer's again), publishes, and then removes  *)
(* the spool; a blob that is there already needs no bytes.                 *)
(***************************************************************************)
DigestFree(h) == \A g \in Caller : hpc[g] = "storing" => req[g].want # req[h].want

PutOpen(h) ==
  /\ \/ hpc[h] = "put" /\ DigestFree(h) /\ ~Stored(req[h].want)
     \/ hpc[h] = "storing"
  /\ OpenSpool(h)
  /\ IF OpenOK(spool[h]) THEN Goto(h, "storing") /\ UNCHANGED status ELSE FailWith(h, 500)
  /\ UNCHANGED <<req, sessLock, blobs, retry, requests, announced>>

PutPublish(h) ==
  /\ \/ hpc[h] = "storing"
        /\ blobs' = blobs \cup {[digest |-> spool[h].digest, bytes |-> ReadSpool(spool[h])]}
     \/ hpc[h] = "put" /\ DigestFree(h) /\ Stored(req[h].want) /\ UNCHANGED blobs
  /\ Goto(h, "published")
  /\ UNCHANGED <<req, status, sessLock, retry, requests, announced>>
  /\ UploadUnchanged

PutRemovesSpool(h) ==
  /\ hpc[h] = "published"
  /\ RemoveSpool(h)
  /\ DiscardThenAnswer(h, 201)
  /\ UNCHANGED <<req, sessLock, blobs, retry, requests, announced>>

\* Mutant of PutFails: a failed finalize removes the spool too.
PutFailsRemovesSpool(h) ==
  /\ hpc[h] = "storing"
  /\ FailWith(h, 500)
  /\ RemoveSpool(h)
  /\ UNCHANGED <<req, sessLock, blobs, retry, requests, announced>>

PutFails(h) ==
  /\ hpc[h] = "storing" \/ (hpc[h] = "put" /\ DigestFree(h))
  /\ FailWith(h, 500)
  /\ retry' = IF Monolithic(h) THEN retry ELSE retry \cup {AsRetry(h)}
  /\ UNCHANGED <<req, sessLock, blobs, requests, announced>>
  /\ UploadUnchanged

(***************************************************************************)
(* RawRefusedError: the same bytes would be refused again.                 *)
(***************************************************************************)
PutRefuses(h) ==
  /\ hpc[h] = "storing"
  /\ DiscardThenAnswer(h, 400)
  /\ UNCHANGED <<req, sessLock, blobs, retry, requests, announced>>
  /\ UploadUnchanged
-----------------------------------------------------------------------------
(***************************************************************************)
(* discardSession and cancelUpload: Manager.Remove.  Only DELETE reports   *)
(* that the session is unknown or could not be removed.                    *)
(***************************************************************************)
AfterDiscard(h, code) ==
  IF req[h].op = "delete" THEN Answer(h, code) ELSE Goto(h, "unspool") /\ UNCHANGED status

Discard(h) ==
  /\ hpc[h] = "discard"
  /\ \/ RemoveStart(h, req[h].sid) /\ Goto(h, "discarding") /\ UNCHANGED status
     \/ req[h].sid \notin sessions /\ AfterDiscard(h, 404) /\ UploadUnchanged
  /\ UNCHANGED <<req, sessLock, blobs, retry, requests, announced>>

Discarding(h) ==
  /\ hpc[h] = "discarding"
  /\ \/ RemoveClose(h) /\ UNCHANGED <<hpc, status>>
     \/ RemoveFails(h) /\ AfterDiscard(h, 500)
     \/ RemoveForget(h) /\ AfterDiscard(h, 204)
  /\ UNCHANGED <<req, sessLock, blobs, retry, requests, announced>>

(***************************************************************************)
(* removeSpool, where finalize has one.                                    *)
(***************************************************************************)
Unspool(h) ==
  /\ hpc[h] = "unspool"
  /\ IF spool[h] # NoSpool THEN RemoveSpool(h) ELSE UploadUnchanged
  /\ Goto(h, "done")
  /\ UNCHANGED <<req, status, sessLock, blobs, retry, requests, announced>>

\* Mutant of Respond: the session's lock is not released.
RespondKeepsLock(h) ==
  /\ hpc[h] = "done"
  /\ Goto(h, "idle")
  /\ req' = [req EXCEPT ![h] = NoReq]
  /\ status' = [status EXCEPT ![h] = 0]
  /\ DropSpool(h)
  /\ UNCHANGED <<sessLock, blobs, retry, requests, announced>>

(***************************************************************************)
(* The response; the deferred unlock.                                      *)
(***************************************************************************)
Respond(h) ==
  /\ hpc[h] = "done"
  /\ Goto(h, "idle")
  /\ req' = [req EXCEPT ![h] = NoReq]
  /\ status' = [status EXCEPT ![h] = 0]
  /\ sessLock' = [s \in Sid |-> IF sessLock[s] = h THEN None ELSE sessLock[s]]
  /\ DropSpool(h)
  /\ UNCHANGED <<blobs, retry, requests, announced>>

ServerCrash ==
  /\ Crash
  /\ hpc' = [h \in Caller |-> "idle"]
  /\ req' = [h \in Caller |-> NoReq]
  /\ status' = [h \in Caller |-> 0]
  /\ sessLock' = [s \in Sid |-> None]
  /\ retry' = {}
  /\ UNCHANGED <<blobs, requests, announced>>
-----------------------------------------------------------------------------
Requests ==
  [op : {"get", "delete"}, sid : Sid, body : {<<>>}, start : {None}, want : {<<>>}]
    \cup [op : {"patch"}, sid : Sid, body : Bodies, start : {None} \cup Starts, want : {<<>>}]
    \cup [op : {"put"}, sid : Sid, body : Bodies, start : {None}, want : Bodies]

HandlerNext(h) ==
  \/ \E s \in Sid, body, want \in Bodies : PostMonolithic(h, s, body, want)
  \/ \E r \in Requests : Arrive(h, r)
  \/ LockSession(h) \/ TouchSession(h) \/ CheckRange(h)
  \/ EnterAppend(h) \/ AppendBody(h) \/ AppendRefused(h)
  \/ CopyBody(h) \/ BodyAppended(h) \/ BodyFailed(h)
  \/ Finalize(h) \/ FinalizeSpool(h) \/ FinalizeUnknown(h)
  \/ PutOpen(h) \/ PutPublish(h) \/ PutRemovesSpool(h) \/ PutFails(h) \/ PutRefuses(h)
  \/ Discard(h) \/ Discarding(h) \/ Unspool(h) \/ Respond(h)

BackgroundNext ==
  /\ SweeperNext \/ CloserNext \/ NewManager \/ \E s \in Sid : TimePasses(s)
  /\ UNCHANGED handlerVars

ServerNext ==
  \/ \E h \in Caller : HandlerNext(h)
  \/ \E s \in Sid : PostSession(s)
  \/ BackgroundNext
  \/ ServerCrash

ServerSpec == ServerInit /\ [][ServerNext]_serverVars

(***************************************************************************)
(* Handlers run, locks they wait for come to them (sessLocks and s.mu are  *)
(* Go mutexes), bodies end or break off and the blob store returns.        *)
(***************************************************************************)
HandlerProceeds(h) ==
  \/ TouchSession(h) \/ CheckRange(h) \/ EnterAppend(h) \/ AppendBody(h) \/ AppendRefused(h)
  \/ CopyBody(h) \/ BodyAppended(h) \/ BodyFailed(h)
  \/ Finalize(h) \/ FinalizeSpool(h) \/ FinalizeUnknown(h)
  \/ PutRemovesSpool(h) \/ Discard(h) \/ Discarding(h) \/ Unspool(h) \/ Respond(h)

StoreReturns(h) == PutPublish(h) \/ PutFails(h) \/ PutRefuses(h)

ServerFairness ==
  \A h \in Caller : SF_serverVars(HandlerProceeds(h) \/ LockSession(h) \/ StoreReturns(h))

FairServerSpec == ServerSpec /\ ServerFairness
-----------------------------------------------------------------------------
HandlerTypeOK ==
  /\ hpc \in [Caller -> {"idle", "lock", "touch", "range", "append", "appending", "copy", "finalize",
                         "spooling", "put",
                         "storing", "published", "discard", "discarding", "unspool", "done"}]
  /\ req \in [Caller -> Requests \cup {NoReq} \cup
       [op : {"mono"}, sid : Sid, body : Bodies, start : {None}, want : Bodies]]
  /\ status \in [Caller -> {0, 201, 202, 204, 400, 404, 416, 500}]
  /\ sessLock \in [Sid -> Caller \cup {None}]
  /\ \A s \in Sid : sessLock[s] # None => req[sessLock[s]].sid = s
  /\ announced \subseteq used
  /\ blobs \subseteq [digest : Content, bytes : Content]
  /\ requests \in 0..MaxRequests

(***************************************************************************)
(* A PATCH that passed the Content-Range check puts its first byte where   *)
(* the range said, even if another PATCH for the same offset came in       *)
(* between: of two that race, one is refused with 416.                     *)
(***************************************************************************)
RangeHonoured ==
  \A h \in Caller :
    hpc[h] = "copy" /\ req[h].start # None =>
      Len(hash[req[h].sid]) = req[h].start + Len(req[h].body) - Len(call[h].rest)

(***************************************************************************)
(* The bytes kept under a digest have that digest: nothing a concurrent    *)
(* PATCH, a spill or a sweep does between the digest check and the store's *)
(* last read changes what is stored.                                       *)
(***************************************************************************)
BlobsMatchDigest == \A x \in blobs : x.bytes = x.digest

(***************************************************************************)
(* finalize: "a PUT's session survives internal failures so the client can *)
(* retry the PUT".  A session that is still open has all its bytes: its    *)
(* file is there, unless the blob is stored and the session on its way out.*)
(***************************************************************************)
SurvivorKeepsItsBytes ==
  \A s \in live \ closed :
    /\ s \in spilled => file[s] = hash[s]
    /\ s \in spilled \ disk => \E h \in Caller : req[h].sid = s /\ hpc[h] \in {"discard", "discarding"}
    /\ s \notin spilled => buf[s] = hash[s]

(***************************************************************************)
(* A monolithic POST never leaves its session behind: when it answers,     *)
(* success or failure, the session is closed, and registered only if its   *)
(* file could not be removed.                                              *)
(***************************************************************************)
MonolithicCleansUp ==
  \A h \in Caller :
    hpc[h] = "done" /\ Monolithic(h) =>
      req[h].sid \in closed /\ (req[h].sid \in sessions => faults < MaxFaults)

(***************************************************************************)
(* A session that a request leaves open is complete, and one that nobody   *)
(* can name again is gone.                                                 *)
(***************************************************************************)
SessionsSurviveOrEnd == SurvivorKeepsItsBytes /\ MonolithicCleansUp

(***************************************************************************)
(* Every request is answered, unless the process dies: no cycle of session *)
(* lock, session mutex, digest lock and sweeper blocks a handler.          *)
(***************************************************************************)
EveryRequestAnswered == \A h \in Caller : hpc[h] # "idle" ~> hpc[h] = "idle"

(***************************************************************************)
(* The README and finalize's comment: after an internal failure the client *)
(* can retry the PUT.  The same PUT, sent again to the session that was    *)
(* kept for it, is not turned away as having the wrong content.            *)
(***************************************************************************)
RetriedPutIsNotRefused ==
  \A h \in Caller :
    req[h].op = "put" /\ AsRetry(h) \in retry /\ hpc[h] = "discard" /\ spool[h] # NoSpool =>
      spool[h].digest = req[h].want
=============================================================================
