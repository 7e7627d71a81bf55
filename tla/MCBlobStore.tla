----------------------------- MODULE MCBlobStore -----------------------------
\* Two goroutines and two blobs.  In one half of the initial states only the
\* first is ever called for and may be anything; the second is a "prism" there,
\* which stands for a blob nobody knows.  In the other half both are called for
\* and raw by nature: the holder of one digest waits for the slot that the
\* holder of the other has.
\*
\* The natures that analyze refuses before it makes a pack ("unsupported",
\* "corrupt", "not-reproducible") are handled alike: one stands for the three.
\* VerifyRoundTrip is looked at only once a prism is committed, so it is off for
\* blobs that never get there; AllowRaw is off for a faithful prism, which
\* differs from an unfaithful one in verify only, and for raw blobs.
EXTENDS BlobStore, TLC

CONSTANTS d1, d2, f1

MCDigest == {d1, d2}
MCPart == {f1}
MCParts == d1 :> {f1} @@ d2 :> {}
MCNatures == d1 :> AllNatures \ {"corrupt", "not-reproducible"} @@ d2 :> {"not-tar", "prism"}

OneBlob == nature[d2] = "prism"

MCInit ==
  /\ Init
  /\ ~OneBlob => nature[d1] = "not-tar" /\ ~opts.allowRaw
  /\ opts.verify => nature[d1] \in {"unfaithful", "prism"}
  /\ opts.allowRaw => nature[d1] # "prism"

MCNext == Next /\ (OneBlob => \A p \in Proc : arg'[p] # d2)

MCSpec == MCInit /\ [][MCNext]_vars /\ Fairness
=============================================================================
