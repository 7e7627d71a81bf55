----------------------------- MODULE MCCommands -----------------------------
\* The commands' own concurrency: an import, a save, and a session of the
\* browser.  Each initial state starts one of the three; the others stay off,
\* in a state in which none of their actions is enabled.
EXTENDS Importer, DockerSave, Browser

MCBlobs ==
  LET B(d, s, p) == [digest |-> d, size |-> s, present |-> p]
  IN  <<B("b0", 1, TRUE), B("b1", 1, FALSE), B("b2", 2, FALSE)>>
\* An index of an index under tags in two repositories, and one of its images
\* under a tag of its own.
MCEntries ==
  <<[digest |-> "x2", repos |-> <<"r1", "r2">>, tags |-> [r1 |-> <<"t1", "t2">>, r2 |-> <<"t1">>],
     manifests |-> <<"m1", "m2", "x1", "x2">>],
    [digest |-> "m1", repos |-> <<"r1">>, tags |-> [r1 |-> <<"t3">>], manifests |-> <<"m1">>]>>
MCNeeds == [m1 |-> {"b0", "b1"}, m2 |-> {"b2"}, x1 |-> {"m1", "m2"}, x2 |-> {"x1"}]
\* A plan that is not closed: the index x1 lost a child and was rewritten as x1p, but
\* x2, all of whose children are kept, was not, and still lists x1.
MCUnclosedEntries ==
  <<[digest |-> "x2", repos |-> <<"r1">>, tags |-> [r1 |-> <<"t1">>], manifests |-> <<"m1", "x1p", "x2">>]>>
MCUnclosedNeeds == [m1 |-> {"b0", "b1"}, x1p |-> {"m1"}, x2 |-> {"x1"}]
MCSaveEntries == <<"blob", "manifest", "blob", "blob", "blob">>

ImportOff ==
  /\ phase = "done" /\ at = 1 /\ pool = NewPool /\ outer = FALSE
  /\ stored = {} /\ published = {} /\ tagged = {} /\ ifaults = 0
  /\ rows = [d \in Digests |-> [state |-> "pending", sawStage |-> FALSE]]
  /\ mrows = [m \in Manifests |-> "pending"]
  /\ iresult = [err |-> "off", present |-> 0, processed |-> 0]
SaveOff ==
  /\ writer = [pc |-> "done", at |-> 1, held |-> 0, err |-> "off"]
  /\ feeder = [pc |-> "exit", i |-> 0]
  /\ queue = <<>> /\ archive = <<>> /\ files = {}
  /\ builders = [w \in SaveWorkers |-> [pc |-> "exit", blob |-> 0]]
  /\ staged = [b \in BlobIds |-> [done |-> FALSE, err |-> "none", sized |-> TRUE]]
  /\ inner = FALSE /\ souter = FALSE /\ serr = "none"
  /\ output = "removed" /\ sfaults = 0
BrowserOff ==
  /\ base = <<>> /\ img = NoImage /\ inflight = {} /\ nextID = 0 /\ loadErrors = 0

Init ==
  \/ ImportInit /\ SaveOff /\ BrowserOff
  \/ ImportOff /\ SaveInit /\ BrowserOff
  \/ ImportOff /\ SaveOff /\ BrowserInit

Next ==
  \/ ImportNext /\ UNCHANGED <<saveVars, browserVars>>
  \/ SaveNext /\ UNCHANGED <<importVars, browserVars>>
  \/ BrowserNext /\ UNCHANGED <<importVars, saveVars>>

Spec ==
  /\ Init /\ [][Next]_<<importVars, saveVars, browserVars>>
  /\ ImportFairness /\ SaveFairness /\ BrowserFairness

\* Every command ends, whichever call fails first and whenever the user
\* cancels, and every screen of the browser is loaded or left: no worker,
\* feeder, writer or screen waits for something that never comes (each of
\* the importer, stage of docker archives, ensureLoaded of the browser).
CommandsEnd ==
  /\ <>(phase = "done")
  /\ <>(writer.pc = "done")
  /\ ScreensLoad
=============================================================================
