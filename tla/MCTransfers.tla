----------------------------- MODULE MCTransfers -----------------------------
\* A blob on its way into the store and out of it: callers overlapping on one
\* store.Writer, the staging and commit of a prism, and a pull.  Each initial
\* state starts one of the three; the others stay off.
EXTENDS PrismStage, PrismPull

CONSTANTS k1, k2

MCOffers == {<<k1, k2>>}
MCHoldings == {{}, {k2}}
MCPacks == {[NewPack EXCEPT !.records = <<k1>>, !.skipped = <<k2>>]}

allVars == <<prismVars, pullVars>>

Init ==
  \/ WriterInit /\ StageOff /\ PullOff
  \/ StageInit /\ PullOff
  \/ w = NewWriter("off") /\ ch = <<>> /\ pc = [c \in Client |-> "idle"]
     /\ todo = [c \in Client |-> <<>>] /\ ret = [c \in Client |-> TRUE]
     /\ work = Idle("off") /\ bfail = Nil /\ objects = {} /\ pack = NewPack
     /\ stats = NewStats /\ accepted = [n |-> 0, keys |-> {}]
     /\ wbudget = [calls |-> 0, faults |-> 0]
     /\ StageOff /\ PullInit

Next ==
  \/ StageNext /\ UNCHANGED pullVars
  \/ conf.at = "off" /\ pull.at = "off" /\ WriterNext /\ UNCHANGED <<stageVars, pullVars>>
  \/ PullNext /\ UNCHANGED prismVars

Spec ==
  Init /\ [][Next]_allVars /\ WriterFairness /\ StageFairness /\ PullFairness

\* Nobody is left waiting: every call on a Writer, every push and every pull
\* ends, whichever of the goroutines involved fails first.
EverythingEnds == WriterCallsReturn /\ PushReturns /\ PullEnds
=============================================================================
