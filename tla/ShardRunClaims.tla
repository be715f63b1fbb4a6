--------------------------- MODULE ShardRunClaims ---------------------------
(***************************************************************************)
(* Sentences of the source about the pipeline that its code does not keep. *)
(* Each is stated as its comment or docstring says it; the configuration   *)
(* that checks it ends in a counterexample.                                *)
(***************************************************************************)
EXTENDS MCShardRun

ZeroStamped(p) == {k \in DOMAIN run[p].buffer : run[p].buffer[k] = "zero"}

\* "Adapter ran OK ... but returned 0 records after date filtering"
\* (process_completeness.py:135-137): a zero stamp never covers records that were
\* fetched and validated.
ZeroNeverHidesData ==
    \A p \in Proc : \A k \in ZeroStamped(p) : run[p].outcome[k.venue] # "data"

\* "adapter ran without error (even if 0 records returned)" (process_fetch.py:73-76):
\* a zero stamp never covers a fetch that failed.
ZeroNeverHidesFailure ==
    \A p \in Proc : \A k \in ZeroStamped(p) : run[p].outcome[k.venue] \notin FailedFetch

\* "an expected_unattempted seed and a later record_captured land on the IDENTICAL
\* row_key and the capture cleanly supersedes the seed" (writers.py:53-55).
CaptureSupersedesSeed ==
    \A k \in DOMAIN index : index[k] = "captured" =>
        \A seed \in DOMAIN index \cap {SeedKey(k.bucket, k.venue)} : index[seed] # "unattempted"

\* "These records must NOT be written as captured for the non-trading date"
\* (process_write.py:695-696).
ClosedDayNeverCaptured ==
    \A k \in DOMAIN index : index[k] = "captured" => ClosedTradfi({k.venue}) = {}

\* "consolidator last-write-wins semantics ensure it supersedes the earlier
\* record_captured for this (date, venue) key" (process_completeness.py:693-694).
ThinDaySupersedes ==
    [][\A p \in Proc : run[p].pc = "flush_thin" =>
        \A k \in DOMAIN run[p].buffer \ DOMAIN run'[p].buffer :
            LET capture == TypeKey(k.bucket, k.venue)
            IN  capture \in DOMAIN index' => index'[capture] # "captured"]_vars

\* "each venue's row lands in ITS OWN asset_group bucket ... not always the run's
\* primary bucket" (process_completeness.py:558-561).
RowsInOwnBucket == \A k \in DOMAIN index : k.bucket = AssetGroup[k.venue]

\* "Below 50% completeness = catastrophic failure ... Fail the shard"
\* (process_completeness.py:665-666): an accepted run wrote half of what it expected.
HalfOfExpectedWritten ==
    \A p \in Proc : run[p].pc = "ok" =>
        LET expected == ExpectedVenues(run[p])
        IN  2 * Cardinality(run[p].counts \cap expected) >= Cardinality(expected)

\* "For CeFi/TradFi: zero records on a trading day means something is broken → fail
\* the shard" (process_zero_records.py:11-13): a run without records is not accepted
\* while the fetch of a CeFi venue failed.
BrokenDayFailsShard ==
    \A p \in Proc : run[p].pc = "zero_ok" =>
        \A v \in WithOutcome(run[p], FailedFetch) \ NoAdapter : AssetGroup[v] # "cefi"

\* "A later record_captured / record_empty / record_failed for the same row_key
\* cleanly supersedes the seed" (process_write.py:820-823): a venue that is recorded
\* as failed or as an honest zero is not also recorded as an open gap.
FailureSupersedesSeed ==
    \A k \in DOMAIN index : index[k] \in {"failed", "zero"} =>
        \A row \in RowsOf(index, k.bucket, k.venue) : index[row] # "unattempted"
=============================================================================
