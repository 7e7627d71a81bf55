------------------------------ MODULE PrismPull ------------------------------
(***************************************************************************)
(* Blob.WriteTo: a raw blob is copied out of the store, a prism is         *)
(* composed by a goroutine of its own into a pipe and recompressed from    *)
(* there, while a third goroutine closes the pipe when the request goes    *)
(* away.  What was written is hashed and compared with the blob's digest.  *)
(*                                                                         *)
(* A chunk of the content is its number; a damaged chunk is 0.  tar-prism  *)
(* and zrecipe are external: the composer writes the chunks in order, the  *)
(* recompressor turns each into output, and fails when what it has read is *)
(* not the content its parameters record.                                  *)
(***************************************************************************)
EXTENDS Integers, Sequences

CONSTANTS Parts,      \* chunks of the content
          TubeSlots,  \* composePipeSlots
          PullFaults  \* bound: failing reads and writes, damaged content

ASSUME PullAssumption == Parts \in Nat \ {0} /\ TubeSlots \in Nat \ {0} /\ PullFaults \in Nat

VARIABLES
  tube,      \* the pipe between composer and recompressor
  composer,  \* the goroutine running ComposeFrom: at, chunks composed, error
  pull,      \* WriteTo: kind, at, chunks read, Recompress's error
  watcher,   \* the goroutine waiting for the context
  client,    \* "here" until the request's context is done
  out,       \* the chunks written to the client
  pulled,    \* what WriteTo returned
  pfaults

pullVars == <<tube, composer, pull, watcher, client, out, pulled, pfaults>>

T == INSTANCE Pipe WITH pipe <- tube, Slots <- TubeSlots, NoErr <- "nil"

Content == [i \in 1..Parts |-> i]
PullFault == pfaults > 0 /\ pfaults' = pfaults - 1

Ends(r) ==
  /\ pulled' = r
  /\ pull' = [pull EXCEPT !.at = "returned"]

\* Mutant of Verified: what was sent is not compared with the digest.
Unverified == "ok"

\* The hash of what went out decides, after the body has been written.
Verified == IF out = Content THEN "ok" ELSE "mismatch"

-----------------------------------------------------------------------------
\* readParams and openSource; the goroutines of composeRecompress start.
OpenPull ==
  /\ pull.at = "open"
  /\ \/ /\ pull' = [pull EXCEPT !.at = IF pull.kind = "raw" THEN "copy" ELSE "recompress"]
        /\ composer' = [composer EXCEPT !.at = IF pull.kind = "raw" THEN "done" ELSE "compose"]
        /\ watcher' = IF pull.kind = "raw" THEN "gone" ELSE "watch"
        /\ UNCHANGED <<pulled, pfaults>>
     \/ /\ PullFault
        /\ Ends("failed")
        /\ UNCHANGED <<composer, watcher>>
  /\ UNCHANGED <<tube, client, out>>

\* writeRaw through the cancelWriter: a chunk, possibly damaged, or an error.
CopyRaw ==
  /\ pull.at = "copy"
  /\ \/ client # "here" /\ Ends("cancelled") /\ UNCHANGED <<out, pfaults>>
     \/ /\ client = "here" /\ pull.n < Parts
        /\ pull' = [pull EXCEPT !.n = @ + 1]
        /\ \/ out' = Append(out, pull.n + 1) /\ UNCHANGED pfaults
           \/ out' = Append(out, 0) /\ PullFault
        /\ UNCHANGED pulled
     \/ PullFault /\ Ends("failed") /\ UNCHANGED out
     \/ pull.n = Parts /\ Ends(Verified) /\ UNCHANGED <<out, pfaults>>
  /\ UNCHANGED <<tube, composer, watcher, client>>

\* ComposeFrom writes the next chunk, fails on the store, or finds the pipe
\* closed; then it closes its end with its error.
Compose ==
  /\ composer.at = "compose"
  /\ \/ /\ composer.n < Parts
        /\ \/ T!Write(composer.n + 1) /\ UNCHANGED pfaults
           \/ T!Write(0) /\ PullFault
        /\ composer' = [composer EXCEPT !.n = @ + 1]
     \/ /\ composer.n < Parts /\ T!WriteRefused
        /\ composer' = [composer EXCEPT !.at = "close", !.err = "closedpipe"]
        /\ UNCHANGED pfaults
     \/ /\ PullFault
        /\ composer' = [composer EXCEPT !.at = "close", !.err = "store"]
        /\ UNCHANGED tube
     \/ /\ composer.n = Parts
        /\ composer' = [composer EXCEPT !.at = "close"]
        /\ UNCHANGED <<tube, pfaults>>
  /\ UNCHANGED <<pull, watcher, client, out, pulled>>

ComposeCloses ==
  /\ composer.at = "close"
  /\ T!CloseWrite(composer.err)
  /\ composer' = [composer EXCEPT !.at = "done"]
  /\ UNCHANGED <<pull, watcher, client, out, pulled, pfaults>>

\* The watcher closes the pipe for a request that is gone, or is stopped.
Watch ==
  /\ watcher = "watch"
  /\ watcher' = "gone"
  /\ \/ client # "here" /\ T!CloseRead
     \/ pull.at \in {"collect", "returned"} /\ UNCHANGED tube
  /\ UNCHANGED <<composer, pull, client, out, pulled, pfaults>>

RecompressEnds(err) == pull' = [pull EXCEPT !.at = "stop", !.rerr = err]

\* Recompress reads a chunk and writes its output, whose engine may have
\* drifted (AllowVersionMismatch), or stops: at the end of the content, on
\* content it does not recognise, on a read or a write that fails.
Recompress ==
  /\ pull.at = "recompress"
  /\ \/ \E i \in 0..Parts :
          /\ T!Read(i)
          /\ IF client # "here"
             THEN RecompressEnds("context") /\ UNCHANGED <<out, pfaults>>
             ELSE \/ /\ pull' = [pull EXCEPT !.n = @ + 1, !.whole = @ /\ i # 0]
                     /\ \/ out' = Append(out, i) /\ UNCHANGED pfaults
                        \/ out' = Append(out, -i) /\ PullFault
                  \/ RecompressEnds("sink") /\ PullFault /\ UNCHANGED out
     \/ /\ T!ReadEnd("nil")
        /\ RecompressEnds(IF pull.n = Parts /\ pull.whole THEN "nil" ELSE "content")
        /\ UNCHANGED <<out, pfaults>>
     \/ /\ \/ T!ReadEnd("store") \/ T!ReadEnd("closedpipe") \/ T!ReadRefused
        /\ RecompressEnds("read")
        /\ UNCHANGED <<out, pfaults>>
  /\ UNCHANGED <<composer, watcher, client, pulled>>

StopComposer ==
  /\ pull.at = "stop"
  /\ T!CloseRead
  /\ pull' = [pull EXCEPT !.at = "collect"]
  /\ UNCHANGED <<composer, watcher, client, out, pulled, pfaults>>

\* Mutant of Blame: the composer is blamed for a pipe the consumer closed.
BlameComposer ==
  IF (pull.rerr # "nil" \/ composer.err # "nil") /\ client # "here" THEN "cancelled"
  ELSE IF composer.err # "nil" THEN "compose"
  ELSE IF pull.rerr # "nil" THEN "recompress"
  ELSE Verified

\* Which of the two errors is reported.
Blame ==
  IF (pull.rerr # "nil" \/ composer.err # "nil") /\ client # "here" THEN "cancelled"
  ELSE IF composer.err \notin {"nil", "closedpipe"} THEN "compose"
  ELSE IF pull.rerr # "nil" THEN "recompress"
  ELSE Verified

CollectComposer ==
  /\ pull.at = "collect"
  /\ composer.at = "done"
  /\ Ends(Blame)
  /\ UNCHANGED <<tube, composer, watcher, client, out, pfaults>>

ClientGone ==
  /\ pull.at \notin {"off", "returned"}
  /\ client = "here"
  /\ client' = "gone"
  /\ UNCHANGED <<tube, composer, pull, watcher, out, pulled, pfaults>>

-----------------------------------------------------------------------------
PullOff ==
  /\ tube = T!NewPipe
  /\ composer = [at |-> "off", n |-> 0, err |-> "nil"]
  /\ pull = [kind |-> "prism", at |-> "off", n |-> 0, rerr |-> "nil", whole |-> TRUE]
  /\ watcher = "off"
  /\ client = "here"
  /\ out = <<>>
  /\ pulled = "none"
  /\ pfaults = 0

PullInit ==
  /\ tube = T!NewPipe
  /\ composer = [at |-> "off", n |-> 0, err |-> "nil"]
  /\ \E k \in {"raw", "prism"} :
       pull = [kind |-> k, at |-> "open", n |-> 0, rerr |-> "nil", whole |-> TRUE]
  /\ watcher = "off"
  /\ client = "here"
  /\ out = <<>>
  /\ pulled = "none"
  /\ pfaults = PullFaults

ComposerStep == Compose \/ ComposeCloses
PullStep == OpenPull \/ CopyRaw \/ Recompress \/ StopComposer \/ CollectComposer
PullNext == ComposerStep \/ PullStep \/ Watch \/ ClientGone

\* One WriteTo by itself.
PullSpec == PullInit /\ [][PullNext]_pullVars

\* The three goroutines run when they can.
PullFairness ==
  /\ WF_pullVars(ComposerStep)
  /\ WF_pullVars(PullStep)
  /\ WF_pullVars(Watch)

-----------------------------------------------------------------------------
(* Properties *)

\* A pull that reports success delivered exactly the content, whatever was
\* damaged, broke off or drifted on the way.
PullIsWhole == pulled = "ok" => out = Content

\* The error names who failed: "compose" is reported only when the composer
\* itself failed, not because Recompress or the watcher closed its pipe, and
\* nobody is blamed for a client that left.
BlameIsRight ==
  /\ pulled = "compose" => composer.err = "store" /\ client = "here"
  /\ pulled = "recompress" => pull.rerr \in {"sink", "content"} /\ client = "here"

\* WriteTo's result is true: success means the content, an error its cause.
PullIsHonest == PullIsWhole /\ BlameIsRight

\* WriteTo returns and none of its goroutines outlives it for good.
PullEnds ==
  pull.at # "off" ~> pulled # "none" /\ composer.at \in {"off", "done"} /\ watcher # "watch"

=============================================================================
