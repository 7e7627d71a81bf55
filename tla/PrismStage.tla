----------------------------- MODULE PrismStage -----------------------------
(***************************************************************************)
(* blob.finalizePrism: the confirming pass writes the decompressed layer   *)
(* into a pipe, the stager takes it apart from there into a pack writer,   *)
(* with the recipe stored by a goroutine of its own, and the staged pack   *)
(* is committed through a live writer.  Both writers are StoreWriter's.    *)
(*                                                                         *)
(* A chunk of the stream is its number.  tar-prism and zrecipe are         *)
(* external: tar-prism sends headers (the odd chunks) to the recipe and    *)
(* contents to a blob, or rejects the archive; Confirm writes the stream   *)
(* and ends with nil or an error.  The goroutine slot Main is the stager's *)
(* while it runs and finalizePrism's own once the stager was collected.    *)
(***************************************************************************)
EXTENDS StoreWriter

CONSTANTS Main, Recipe,           \* members of Client
          BlobKey, PartKey,       \* the keys blobs and the other parts get
          Chunks,                 \* length of the decompressed stream
          Slots                   \* stagePipeSlots, composePipeSlots

ASSUME StageAssumption ==
  /\ Main \in Client /\ Recipe \in Client /\ Main # Recipe
  /\ {BlobKey, PartKey} \subseteq Key
  /\ Chunks \in Nat /\ Slots \in Nat \ {0}
  /\ Nil \notin {"notrepro", "context", "tar", "read", "sink", "decompose",
                 "failed", "raw-decompose", "raw-notrepro", "raw-roundtrip", "prism"}

VARIABLES
  pipe,     \* the pipe from Confirm to the stager
  gone,     \* the request's context is done
  conf,     \* finalizePrism: where it is, chunks written, Confirm's error
  stager,   \* the stager: where it is, chunks read, its error
  recipe,   \* the recipe: its io.Pipe and the PutStream goroutine
  outcome,  \* what finalizePrism returned
  made,     \* history: keys the stager put into the prism
  rejected  \* history: tar-prism rejected the archive

stageVars == <<pipe, gone, conf, stager, recipe, outcome, made, rejected>>
prismVars == <<writerVars, stageVars>>

P == INSTANCE Pipe WITH NoErr <- Nil

\* The Writer as it is when nobody uses it yet.
Fresh(backend) ==
  /\ w' = [NewWriter(backend) EXCEPT !.cause = IF gone THEN "context" ELSE Nil]
  /\ ch' = <<>>
  /\ work' = Idle(backend)
  /\ bfail' = Nil
  /\ stats' = NewStats
  /\ accepted' = [n |-> 0, keys |-> {}]
  /\ UNCHANGED <<clientVars, objects>>

-----------------------------------------------------------------------------
(* finalizePrism up to the commit *)

\* NewPackWriter, the pipe and the stager's goroutine.
StartConfirm ==
  /\ conf.at = "start"
  /\ \/ /\ Fresh("pack")
        /\ pack' = NewPack
        /\ conf' = [conf EXCEPT !.at = "confirm"]
        /\ stager' = [stager EXCEPT !.at = "read"]
        /\ recipe' = "reading"
        /\ UNCHANGED <<outcome, wbudget>>
     \/ /\ Fault
        /\ conf' = [conf EXCEPT !.at = "returned"]
        /\ outcome' = "failed"
        /\ UNCHANGED <<streamVars, clientVars, backendVars, accepted, stager, recipe>>
  /\ UNCHANGED <<pipe, gone, made, rejected>>

ConfirmWrite ==
  /\ conf.at = "confirm"
  /\ conf.n < Chunks
  /\ P!Write(conf.n + 1)
  /\ conf' = [conf EXCEPT !.n = @ + 1]
  /\ UNCHANGED <<writerVars, gone, stager, recipe, outcome, made, rejected>>

\* Confirm returns - not reproducible, cancelled, or failed in some other way (its
\* spool, its engine) - and the stager's stream is ended with its error.
ConfirmEnds ==
  /\ conf.at = "confirm"
  /\ \E cerr \in {Nil, "notrepro", "context", "failed"} :
       /\ cerr = Nil => conf.n = Chunks
       /\ cerr = "context" => gone
       /\ P!CloseWrite(cerr)
       /\ conf' = [conf EXCEPT !.at = "collect", !.cerr = cerr]
  /\ UNCHANGED <<writerVars, gone, stager, recipe, outcome, made, rejected>>

\* Mutant of classifyDecomposeError: the store's errors are not told apart.
ClassifyAll(err) ==
  IF gone THEN "context" ELSE IF err = "read" THEN err ELSE "decompose"

\* classifyDecomposeError, once the stager's error has reached finalizePrism.
classifyDecomposeError(err) ==
  IF gone THEN "context" ELSE IF err \in {"sink", "read"} THEN err ELSE "decompose"

FinalOf(err) ==
  IF gone THEN "context"
  ELSE IF err = "decompose" THEN "raw-decompose"
  ELSE IF err = "notrepro" THEN "raw-notrepro"
  ELSE "failed"

\* Mutant of Collect: what the stager reports is not looked at.
CollectConfirmOnly ==
  /\ conf.at = "collect"
  /\ stager.at = "done"
  /\ IF conf.cerr # Nil
     THEN /\ outcome' = FinalOf(conf.cerr)
          /\ conf' = [conf EXCEPT !.at = "returned"]
          /\ pack' = [pack EXCEPT !.open = FALSE]
          /\ UNCHANGED <<streamVars, clientVars, work, bfail, objects, stats, accepted>>
     ELSE /\ Fresh("live")
          /\ conf' = [conf EXCEPT !.at = "commit"]
          /\ UNCHANGED <<outcome, pack>>
  /\ UNCHANGED <<wbudget, pipe, gone, stager, recipe, made, rejected>>

\* The stager is collected: a failed confirm or staging drops the pack, a
\* good one goes on to the commit.
Collect ==
  /\ conf.at = "collect"
  /\ stager.at = "done"
  /\ IF conf.cerr # Nil \/ stager.err # Nil
     THEN /\ outcome' = FinalOf(IF conf.cerr # Nil THEN conf.cerr ELSE stager.err)
          /\ conf' = [conf EXCEPT !.at = "returned"]
          /\ pack' = [pack EXCEPT !.open = FALSE]
          /\ UNCHANGED <<streamVars, clientVars, work, bfail, objects, stats, accepted>>
     ELSE /\ Fresh("live")
          /\ conf' = [conf EXCEPT !.at = "commit"]
          /\ UNCHANGED <<outcome, pack>>
  /\ UNCHANGED <<wbudget, pipe, gone, stager, recipe, made, rejected>>

-----------------------------------------------------------------------------
(* The stager *)

StagerTo(at) == stager' = [stager EXCEPT !.at = at]
StagerFails(err) == stager' = [stager EXCEPT !.at = "closing", !.err = err]

\* DecomposeTo reads the next chunk, or the end of the stream, and goes on
\* with it or finds the archive malformed.
StagerRead ==
  /\ stager.at = "read"
  /\ \/ \E i \in 1..Chunks :
          /\ P!Read(i)
          /\ stager' = [stager EXCEPT !.at = IF i % 2 = 1 THEN "recipe" ELSE "blob", !.n = i]
        /\ UNCHANGED rejected
     \/ P!ReadEnd(Nil) /\ StagerTo("index") /\ UNCHANGED rejected
     \/ /\ \/ \E i \in 1..Chunks : P!Read(i)
           \/ P!ReadEnd(Nil)
        /\ StagerFails("tar")
        /\ rejected' = TRUE
     \/ /\ \E err \in {"notrepro", "context", "failed"} : P!ReadEnd(err)
        /\ StagerFails("read")
        /\ UNCHANGED rejected
  /\ UNCHANGED <<writerVars, gone, conf, recipe, outcome, made>>

\* A piece of the recipe goes through the io.Pipe to the PutStream goroutine,
\* which takes it at once or has closed its end with the store's error.
RecipeWrite ==
  /\ stager.at = "recipe"
  /\ \/ recipe = "reading" /\ recipe' = "put" /\ StagerTo("read")
     \/ recipe = "failed" /\ StagerFails("sink") /\ UNCHANGED recipe
  /\ UNCHANGED <<writerVars, pipe, gone, conf, outcome, made, rejected>>

\* Blob and Index put their bytes into the pack writer.
StagerPut ==
  /\ \/ stager.at = "blob" /\ StagerTo("blobbed")
        /\ Offer(Main, <<Object(BlobKey)>>) /\ made' = made \cup {BlobKey}
     \/ stager.at = "index" /\ StagerTo("indexed")
        /\ Offer(Main, <<Object(PartKey)>>) /\ made' = made \cup {PartKey}
  /\ UNCHANGED <<wbudget, pipe, gone, conf, recipe, outcome, rejected>>

StagerPutDone ==
  /\ stager.at \in {"blobbed", "indexed"}
  /\ pc[Main] = "idle"
  /\ IF ret[Main]
     THEN StagerTo(IF stager.at = "blobbed" THEN "read" ELSE "closing")
     ELSE StagerFails("sink")
  /\ UNCHANGED <<writerVars, pipe, gone, conf, recipe, outcome, made, rejected>>

\* closeRecipe: end the recipe's stream and wait for its goroutine.
closeRecipe ==
  /\ stager.at = "closing"
  /\ \/ recipe = "reading" /\ recipe' = "eof" /\ UNCHANGED stager
     \/ recipe \in {"stored", "failed"} /\ StagerTo("drain") /\ UNCHANGED recipe
  /\ UNCHANGED <<writerVars, pipe, gone, conf, outcome, made, rejected>>

\* Whatever is left of the stream is read, so that Confirm never blocks.
Drain ==
  /\ stager.at = "drain"
  /\ \/ \E i \in 1..Chunks : P!Read(i) /\ UNCHANGED stager
     \/ P!ReadEnd(pipe.werr) /\ StagerTo("finish")
  /\ UNCHANGED <<writerVars, gone, conf, recipe, outcome, made, rejected>>

\* finish reports a failed recipe; then the pack writer is closed or aborted.
StagerFinish ==
  /\ stager.at = "finish"
  /\ LET err == IF stager.err = Nil /\ recipe = "failed" THEN "sink" ELSE stager.err IN
     /\ stager' = [stager EXCEPT !.at = IF err = Nil THEN "close" ELSE "abort", !.err = err]
     /\ IF err = Nil THEN Close(Main) ELSE Abort(Main)
  /\ UNCHANGED <<wbudget, pipe, gone, conf, recipe, outcome, made, rejected>>

StagerEnds ==
  /\ stager.at \in {"close", "abort"}
  /\ pc[Main] = "idle"
  /\ IF stager.at = "close" /\ ~ret[Main]
     THEN /\ stager' = [stager EXCEPT !.at = "abort", !.err = "sink"]
          /\ Abort(Main)
     ELSE /\ stager' = [stager EXCEPT !.at = "done",
                          !.err = IF @ = Nil THEN Nil ELSE classifyDecomposeError(@)]
          /\ UNCHANGED <<streamVars, clientVars, backendVars, accepted>>
  /\ UNCHANGED <<wbudget, pipe, gone, conf, recipe, outcome, made, rejected>>

-----------------------------------------------------------------------------
(* The recipe's goroutine *)

RecipePut ==
  /\ recipe \in {"put", "eof"}
  /\ recipe' = IF recipe = "put" THEN "putting" ELSE "ending"
  /\ Offer(Recipe, <<Object(PartKey)>>)
  /\ made' = made \cup {PartKey}
  /\ UNCHANGED <<wbudget, pipe, gone, conf, stager, outcome, rejected>>

RecipePutDone ==
  /\ recipe \in {"putting", "ending"}
  /\ pc[Recipe] = "idle"
  /\ recipe' = IF ~ret[Recipe] THEN "failed"
               ELSE IF recipe = "putting" THEN "reading"
               ELSE "stored"
  /\ UNCHANGED <<writerVars, pipe, gone, conf, stager, outcome, made, rejected>>

-----------------------------------------------------------------------------
(* The commit *)

\* commit: the staged pack, then comp.json, then the accounting writer is
\* closed; an error aborts it.
Commit ==
  /\ \/ conf.at = "commit" /\ AddPack(Main) /\ conf' = [conf EXCEPT !.at = "adding"]
     \/ /\ conf.at = "adding" /\ pc[Main] = "idle"
        /\ IF ret[Main]
           THEN Offer(Main, <<Object(PartKey)>>) /\ conf' = [conf EXCEPT !.at = "comp"]
           ELSE Abort(Main) /\ conf' = [conf EXCEPT !.at = "aborting"]
     \/ /\ conf.at = "comp" /\ pc[Main] = "idle"
        /\ IF ret[Main]
           THEN Close(Main) /\ conf' = [conf EXCEPT !.at = "closing"]
           ELSE Abort(Main) /\ conf' = [conf EXCEPT !.at = "aborting"]
  /\ UNCHANGED <<wbudget, pipe, gone, stager, recipe, outcome, made, rejected>>

\* The live writer has returned; with VerifyRoundTrip the prism is read back: that
\* comp.json cannot be read is an error, all that follows a downgrade.
\* The pack is dropped on every path.
Committed ==
  /\ conf.at \in {"aborting", "closing"}
  /\ pc[Main] = "idle"
  /\ \/ conf.at = "closing" /\ ret[Main] /\ outcome' = "prism" /\ UNCHANGED wbudget
     \/ conf.at = "closing" /\ ret[Main] /\ Fault
        /\ outcome' \in {"failed", IF gone THEN "context" ELSE "raw-roundtrip"}
     \/ (conf.at = "closing" => ~ret[Main]) /\ outcome' = FinalOf("failed") /\ UNCHANGED wbudget
  /\ conf' = [conf EXCEPT !.at = "returned"]
  /\ pack' = [pack EXCEPT !.open = FALSE]
  /\ UNCHANGED <<streamVars, clientVars, work, bfail, objects, stats, accepted,
                 pipe, gone, stager, recipe, made, rejected>>

-----------------------------------------------------------------------------

\* The client goes away: the request's context and the writer's with it.
RequestGone ==
  /\ conf.at \notin {"off", "returned"}
  /\ ~gone
  /\ gone' = TRUE
  /\ w' = Cancelled("context")
  /\ UNCHANGED <<ch, clientVars, backendVars, accepted, wbudget,
                 pipe, conf, stager, recipe, outcome, made, rejected>>

StageOff ==
  /\ pipe = P!NewPipe
  /\ gone = FALSE
  /\ conf = [at |-> "off", n |-> 0, cerr |-> Nil]
  /\ stager = [at |-> "off", n |-> 0, err |-> Nil]
  /\ recipe = "off"
  /\ outcome = Nil
  /\ made = {}
  /\ rejected = FALSE

StageInit ==
  /\ w = NewWriter("pack")
  /\ ch = <<>>
  /\ pc = [c \in Client |-> "idle"]
  /\ todo = [c \in Client |-> <<>>]
  /\ ret = [c \in Client |-> TRUE]
  /\ work = Idle("pack")
  /\ bfail = Nil
  /\ objects \in Holdings
  /\ pack = NewPack
  /\ stats = NewStats
  /\ accepted = [n |-> 0, keys |-> {}]
  /\ wbudget = [calls |-> 0, faults |-> WriterFaults]
  /\ pipe = P!NewPipe
  /\ gone = FALSE
  /\ conf = [at |-> "start", n |-> 0, cerr |-> Nil]
  /\ stager = [at |-> "start", n |-> 0, err |-> Nil]
  /\ recipe = "start"
  /\ outcome = Nil
  /\ made = {}
  /\ rejected = FALSE

StagerStep ==
  \/ StagerRead \/ RecipeWrite \/ StagerPut \/ StagerPutDone
  \/ closeRecipe \/ Drain \/ StagerFinish \/ StagerEnds
ConfirmStep == StartConfirm \/ ConfirmWrite \/ ConfirmEnds \/ Collect \/ Commit \/ Committed
RecipeStep == RecipePut \/ RecipePutDone
WriterStep ==
  \/ \E c \in Client : ClientStep(c) \/ AddPackFails(c)
  \/ \E x \in Encoder : BackendStep(x) \/ BackendFails(x)
  \/ BackendReturns
  \/ \E k \in Key : ObjectLost(k)

StageNext ==
  \/ StagerStep \/ ConfirmStep \/ RecipeStep
  \/ RequestGone
  \/ conf.at # "off" /\ WriterStep /\ UNCHANGED stageVars

StageSpec == StageInit /\ [][StageNext]_prismVars

\* Each goroutine runs when it can; so do the writer's.
StageFairness ==
  /\ WF_prismVars(StagerStep)
  /\ WF_prismVars(ConfirmStep)
  /\ WF_prismVars(RecipeStep)

-----------------------------------------------------------------------------
(* Properties *)

\* A blob reported as a prism was staged from the whole of a confirmed
\* stream, and every part of it is in the store, although the objects the
\* pack left out may have been collected between staging and commit.
PrismIsWhole ==
  outcome = "prism" =>
    /\ conf.cerr = Nil
    /\ stager.n = Chunks
    /\ made \subseteq objects

\* A blob is downgraded to raw for its own sake only: decompose-failed means
\* that tar-prism rejected the archive, never that the store failed, the
\* stream broke off or the client went away.
OnlyRejectionGoesRaw == outcome = "raw-decompose" => rejected

\* What finalizePrism reports is true of the stream and of the store.
OutcomeIsRight == PrismIsWhole /\ OnlyRejectionGoesRaw

\* finalizePrism returns, whoever fails first, and leaves nothing behind: the
\* stager and the recipe's goroutine have ended, the writer's backend too,
\* and the pack's descriptor is released.
PushReturns ==
  conf.at # "off" ~>
    /\ outcome # Nil
    /\ recipe \in {"start", "stored", "failed"}
    /\ stager.at \in {"start", "done"}
    /\ stager.at = "done" => w.done /\ ~pack.open

=============================================================================
