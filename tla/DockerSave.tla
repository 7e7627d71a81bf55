----------------------------- MODULE DockerSave -----------------------------
(***************************************************************************)
(* Writing a docker save archive (dockerarchive/stage.go, the second half  *)
(* of write.go and the save command around them).  A feeder queues the     *)
(* blobs in write order for the writer and hands them to workers, which    *)
(* rebuild them into staged files ahead of the writer; the writer copies   *)
(* each into the archive and removes its file.  The first failure cancels  *)
(* the rest, the caller may cancel at any time, and close waits for every  *)
(* goroutine and removes the staging directory.                            *)
(***************************************************************************)
EXTENDS Integers, Sequences, FiniteSets, SequencesExt

CONSTANTS SaveEntries,   \* what the archive holds, in digest order: "blob" or "manifest"
          SaveWorkers,   \* opts.Parallelism goroutines
          MaxSaveFaults  \* bound: operations that fail by themselves

ASSUME SaveAssumption ==
  /\ SaveEntries \in Seq({"blob", "manifest"})
  /\ IsFiniteSet(SaveWorkers)
  /\ MaxSaveFaults \in Nat

VARIABLES
  writer,   \* writeTo and writeArchive: where it is, the entry, its outcome
  feeder,   \* the stager's feeder
  queue,    \* st.queue
  builders, \* the stager's workers
  staged,   \* per entry: done, err, right size
  files,    \* staged files on disk
  inner,    \* the stager's context is cancelled
  souter,   \* the caller's context is cancelled
  serr,     \* st.err
  archive,  \* entries written whole
  output,   \* the output file: none, partial, whole or removed
  sfaults

saveVars == <<writer, feeder, queue, builders, staged, files, inner, souter, serr, archive, output, sfaults>>

EntryIds == DOMAIN SaveEntries
BlobIds == {i \in EntryIds : SaveEntries[i] = "blob"}
QueueCap == 2 * Cardinality(SaveWorkers)

Cancelled == inner \/ souter
SaveFault == sfaults > 0 /\ sfaults' = sfaults - 1
NextBlob(i) == IF \E j \in BlobIds : j > i THEN CHOOSE j \in BlobIds : j > i /\ \A k \in BlobIds : k > i => j <= k
               ELSE Len(SaveEntries) + 1

-----------------------------------------------------------------------------
(* stage: the feeder and the workers *)

FeederOnly == UNCHANGED <<writer, staged, files, inner, souter, serr, archive, output, sfaults>>

feederQueues ==
  /\ feeder.pc = "queue" /\ feeder.i <= Len(SaveEntries)
  /\ Len(queue) < QueueCap
  /\ queue' = Append(queue, feeder.i)
  /\ feeder' = [feeder EXCEPT !.pc = "hand"]
  /\ FeederOnly /\ UNCHANGED builders

feederHands(w) ==
  /\ feeder.pc = "hand" /\ builders[w].pc = "idle"
  /\ builders' = [builders EXCEPT ![w] = [pc |-> "got", blob |-> feeder.i]]
  /\ feeder' = [pc |-> "queue", i |-> NextBlob(feeder.i)]
  /\ FeederOnly /\ UNCHANGED queue

\* No blob left, or the context done in either select: jobs is closed.
feederStops ==
  /\ feeder.pc \in {"queue", "hand"}
  /\ Cancelled \/ (feeder.pc = "queue" /\ feeder.i > Len(SaveEntries))
  /\ feeder' = [feeder EXCEPT !.pc = "exit"]
  /\ FeederOnly /\ UNCHANGED <<queue, builders>>

BuilderOnly == UNCHANGED <<writer, feeder, queue, souter, archive, output>>

\* fail keeps the first failure and cancels the rest.
Failed(w, e) ==
  LET b == builders[w].blob IN
  /\ staged' = [staged EXCEPT ![b].done = TRUE, ![b].err = e]
  /\ files' = files \ {b}
  /\ serr' = IF serr = "none" THEN e ELSE serr
  /\ inner' = TRUE
  /\ builders' = [builders EXCEPT ![w].pc = "idle"]

\* run looks at the context once, then creates the file.
runStarts(w) ==
  /\ builders[w].pc = "got"
  /\ LET b == builders[w].blob IN
     \/ /\ Cancelled
        /\ staged' = [staged EXCEPT ![b].done = TRUE, ![b].err = "cancel"]
        /\ builders' = [builders EXCEPT ![w].pc = "idle"]
        /\ UNCHANGED <<files, inner, serr, sfaults>>
     \/ /\ ~Cancelled
        /\ files' = files \cup {b}
        /\ builders' = [builders EXCEPT ![w].pc = "build"]
        /\ UNCHANGED <<staged, inner, serr, sfaults>>
     \/ ~Cancelled /\ SaveFault /\ Failed(w, "fault")
  /\ BuilderOnly

\* rebuild ends: whole, of another size than its descriptor, failed, or
\* stopped by the context.
rebuild(w) ==
  /\ builders[w].pc = "build"
  /\ LET b == builders[w].blob IN
     \/ /\ staged' = [staged EXCEPT ![b].done = TRUE]
        /\ builders' = [builders EXCEPT ![w].pc = "idle"]
        /\ UNCHANGED <<files, inner, serr, sfaults>>
     \/ /\ SaveFault
        /\ staged' = [staged EXCEPT ![b].done = TRUE, ![b].sized = FALSE]
        /\ builders' = [builders EXCEPT ![w].pc = "idle"]
        /\ UNCHANGED <<files, inner, serr>>
     \/ SaveFault /\ Failed(w, "fault")
     \/ Cancelled /\ Failed(w, "cancel") /\ UNCHANGED sfaults
  /\ BuilderOnly

builderExits(w) ==
  /\ builders[w].pc = "idle" /\ feeder.pc = "exit"
  /\ builders' = [builders EXCEPT ![w].pc = "exit"]
  /\ BuilderOnly /\ UNCHANGED <<staged, files, inner, serr, sfaults>>

-----------------------------------------------------------------------------
(* writeTo *)

WriterOnly == UNCHANGED <<feeder, builders, staged, inner, souter, serr, output>>
Returns(e) == writer' = [writer EXCEPT !.pc = "close", !.err = e]

\* Mutant of failure: the error at hand, whoever caused it.
AsMet(e) == IF souter THEN "cancel" ELSE e

\* The caller's cancellation, else the stager's first failure, else e.
failure(e) == IF souter THEN "cancel" ELSE IF serr # "none" THEN serr ELSE e

Advance == writer' = [writer EXCEPT !.pc = "entry", !.at = @ + 1]

writeManifest ==
  /\ writer.pc = "entry" /\ writer.at \in EntryIds \ BlobIds
  /\ \/ archive' = Append(archive, writer.at) /\ Advance /\ UNCHANGED sfaults
     \/ SaveFault /\ Returns("fault") /\ UNCHANGED archive
  /\ WriterOnly /\ UNCHANGED <<queue, files>>

\* next: the head of the queue or the end of the context, then its result.
nextTakes ==
  /\ writer.pc = "entry" /\ writer.at \in BlobIds
  /\ \/ /\ queue # <<>>
        /\ writer' = [writer EXCEPT !.pc = "wait", !.held = Head(queue)]
        /\ queue' = Tail(queue)
     \/ Cancelled /\ Returns(failure("cancel")) /\ UNCHANGED queue
  /\ WriterOnly /\ UNCHANGED <<archive, files, sfaults>>

\* Mutant of copyStaged: the staged file is left to close.
CopyKeepsFile ==
  /\ writer.pc = "wait" /\ staged[writer.held].done
  /\ LET s == staged[writer.held] IN
     \/ s.err # "none" /\ Returns(failure(s.err)) /\ UNCHANGED <<archive, files, sfaults>>
     \/ s.err = "none" /\ ~s.sized /\ Returns("fault") /\ UNCHANGED <<archive, files, sfaults>>
     \/ s.err = "none" /\ s.sized /\ archive' = Append(archive, writer.at) /\ Advance /\ UNCHANGED <<files, sfaults>>
  /\ WriterOnly /\ UNCHANGED queue

copyStaged ==
  /\ writer.pc = "wait" /\ staged[writer.held].done
  /\ LET s == staged[writer.held] IN
     \/ s.err # "none" /\ Returns(failure(s.err)) /\ UNCHANGED <<archive, files, sfaults>>
     \/ s.err = "none" /\ ~s.sized /\ Returns("fault") /\ UNCHANGED <<archive, files, sfaults>>
     \/ /\ s.err = "none" /\ s.sized
        /\ \/ archive' = Append(archive, writer.held) /\ files' = files \ {writer.held} /\ Advance /\ UNCHANGED sfaults
           \/ SaveFault /\ Returns("fault") /\ UNCHANGED <<archive, files>>
  /\ WriterOnly /\ UNCHANGED queue

\* Mutant of nextStops: once it holds an entry, next waits for its result alone.
NextOutlastsContext == writer.pc = "wait" /\ FALSE /\ UNCHANGED saveVars

\* The context's end also ends the wait for a result.
nextStops ==
  /\ writer.pc = "wait" /\ Cancelled
  /\ Returns(failure("cancel"))
  /\ WriterOnly /\ UNCHANGED <<queue, archive, files, sfaults>>

\* index.json, manifest.json, oci-layout and the end of the tar.
writeTail ==
  /\ writer.pc = "entry" /\ writer.at > Len(SaveEntries)
  /\ (Returns("none") /\ UNCHANGED sfaults) \/ (SaveFault /\ Returns("fault"))
  /\ WriterOnly /\ UNCHANGED <<queue, archive, files>>

\* close: cancel, wait, remove the directory.
closeStager ==
  /\ \/ /\ writer.pc = "close"
        /\ inner' = TRUE
        /\ writer' = [writer EXCEPT !.pc = "closing"]
        /\ UNCHANGED files
     \/ /\ writer.pc = "closing"
        /\ feeder.pc = "exit" /\ \A w \in SaveWorkers : builders[w].pc = "exit"
        /\ files' = {}
        /\ writer' = [writer EXCEPT !.pc = "flush"]
        /\ UNCHANGED inner
  /\ UNCHANGED <<feeder, queue, builders, staged, souter, serr, archive, output, sfaults>>

\* writeArchive: flush and close the output; a failure removes it.
finishOutput ==
  /\ writer.pc = "flush"
  /\ \/ /\ writer' = [writer EXCEPT !.pc = "done"]
        /\ output' = IF writer.err = "none" THEN "whole" ELSE "removed"
        /\ UNCHANGED sfaults
     \/ /\ writer.err = "none" /\ SaveFault
        /\ writer' = [writer EXCEPT !.pc = "done", !.err = "fault"]
        /\ output' = "removed"
  /\ UNCHANGED <<feeder, queue, builders, staged, files, inner, souter, serr, archive>>

saveCancelled ==
  /\ writer.pc # "done" /\ ~souter
  /\ souter' = TRUE
  /\ UNCHANGED <<writer, feeder, queue, builders, staged, files, inner, serr, archive, output, sfaults>>

-----------------------------------------------------------------------------

SaveInit ==
  /\ writer = [pc |-> "entry", at |-> 1, held |-> 0, err |-> "none"]
  /\ feeder = [pc |-> "queue", i |-> NextBlob(0)]
  /\ queue = <<>> /\ archive = <<>> /\ files = {}
  /\ builders = [w \in SaveWorkers |-> [pc |-> "idle", blob |-> 0]]
  /\ staged = [b \in BlobIds |-> [done |-> FALSE, err |-> "none", sized |-> TRUE]]
  /\ inner = FALSE /\ souter = FALSE /\ serr = "none"
  /\ output = "partial"
  /\ sfaults = MaxSaveFaults

FeederStep == feederQueues \/ feederStops \/ \E w \in SaveWorkers : feederHands(w)
BuilderStep(w) == runStarts(w) \/ rebuild(w) \/ builderExits(w)
WriterStep == writeManifest \/ nextTakes \/ copyStaged \/ nextStops \/ writeTail \/ closeStager \/ finishOutput
SaveNext == FeederStep \/ WriterStep \/ saveCancelled \/ \E w \in SaveWorkers : BuilderStep(w)

SaveSpec == SaveInit /\ [][SaveNext]_saveVars

\* The goroutines run and the source's reads return.
SaveFairness ==
  /\ WF_saveVars(FeederStep) /\ WF_saveVars(WriterStep)
  /\ \A w \in SaveWorkers : WF_saveVars(BuilderStep(w))

-----------------------------------------------------------------------------
(* Properties *)

\* "how many staged files exist at once (the queue plus the one the writer
\* holds)": every staged file is waited for, however far the workers run
\* ahead, and when Write has returned no file is left and nobody can make one.
StagingBounded ==
  /\ files \subseteq ToSet(queue) \cup {writer.held}
  /\ Cardinality(files) <= QueueCap + 1
  /\ writer.pc \in {"flush", "done"} =>
       files = {} /\ \A w \in SaveWorkers : builders[w].pc = "exit"

\* A save that succeeds wrote every entry once and in order; one that does not
\* leaves no output behind and reports what really failed: a cancellation
\* only when the caller cancelled.
SaveTellsTheTruth ==
  writer.pc = "done" =>
    /\ writer.err = "none" => output = "whole" /\ archive = [i \in EntryIds |-> i]
    /\ writer.err # "none" => output = "removed"
    /\ writer.err = "cancel" => souter

=============================================================================
