------------------------------ MODULE ShardRun ------------------------------
(***************************************************************************)
(* process_instruments for one date over the venue-grain asset groups:     *)
(* freshness pre-flight, fetch, zero-record handling, validation, per-     *)
(* venue writes, seeding, honest-empty stamps, retries and the final       *)
(* completeness assessment.  Several runs of the date (VMs, a backfill and *)
(* a daily job, a re-run after a crash) share the manifest index and the   *)
(* object store; each step below is one section between two accesses to    *)
(* that shared state.                                                      *)
(***************************************************************************)
EXTENDS Manifest, Naturals, FiniteSets, Sequences

CONSTANTS
    Proc,        \* the runners that may process this date
    Launched,    \* venues whose discovery API is live on the date
    NonTrading,  \* venues whose calendar is closed on the date
    NoAdapter,   \* venues declared NO_ADAPTER_YET
    Dispatch,    \* the asset_groups lists a run may be given
    RedoAll,     \* the redo_all (--force) values a run may be given
    Mode,        \* "batch" or "live"
    MaxRetries   \* the length of retry_delays = [10, 30]

ASSUME ConfigAssumption ==
    /\ Launched \subseteq Venue
    /\ NonTrading \subseteq Venue
    /\ NoAdapter \subseteq Venue
    /\ IsFiniteSet(Venue)
    /\ Dispatch # {}
    /\ Dispatch \subseteq Seq(VenueGrainGroup) \ {<<>>}
    /\ RedoAll \subseteq BOOLEAN
    /\ Mode \in {"batch", "live"}
    /\ MaxRetries \in Nat

VARIABLES
    index,    \* the consolidated manifest, row key -> status
    objects,  \* the instruments.parquet objects, <<bucket, venue>>
    run       \* [Proc -> the local state of the runner's current run]

vars == <<index, objects, run>>

(***************************************************************************)
(* What the fetch and the filters leave of one venue:                      *)
(*   data / invalid        records in force on the date, some valid / none *)
(*   zero                  no record left                                  *)
(*   future                every record lists after the date               *)
(*   retryable, permanent  the two classes of VenueErrorClassification     *)
(***************************************************************************)
Outcome == {"data", "invalid", "zero", "future", "retryable", "permanent"}
FailedFetch == {"retryable", "permanent"}

Flushing == {"flush", "flush_empty", "flush_retry", "flush_final",
             "flush_thin", "flush_zero", "flush_raise"}
Ended == {"idle", "ok", "zero_ok"}
Stage == Ended \cup Flushing \cup
         {"fetch", "fetched", "write", "complete", "retry", "rewrite", "thin"}

Blank == [pc |-> "idle", dispatch |-> CHOOSE d \in Dispatch : TRUE,
          active |-> {}, outcome |-> [v \in {} |-> "zero"], counts |-> {},
          retryable |-> {}, todo |-> {}, buffer |-> NoRows, round |-> 0]

-----------------------------------------------------------------------------
(* Buckets and venue sets of a run.                                        *)

Groups(d) == {d[i] : i \in DOMAIN d}
IsAllRun(d) == Len(d) > 1
PrimaryBucket(d) == IF IsAllRun(d) THEN "sports" ELSE d[1]
VenueBucket(d, v) == IF IsAllRun(d) THEN AssetGroup[v] ELSE d[1]

VenuesFor(d) == {v \in Venue : AssetGroup[v] \in Groups(d)}

\* A run over several groups seeds all three venue-grain groups.
TargetUniverse(d) == IF IsAllRun(d) THEN Venue ELSE VenuesFor(d)

IsDefiBatch(v) == AssetGroup[v] = "defi" /\ Mode = "batch"
ClosedTradfi(S) == {v \in S : AssetGroup[v] = "tradfi" /\ v \in NonTrading}

WithOutcome(r, S) == {v \in r.active : r.outcome[v] \in S}

\* (mutant) failed venues are counted as having run cleanly
NonErrorVenuesAll(r) == r.active

\* A DeFi batch counts every venue that is not retryable as having run cleanly.
NonErrorVenues(r) ==
    {v \in r.active : IF IsDefiBatch(v) THEN r.outcome[v] # "retryable"
                      ELSE r.outcome[v] \notin FailedFetch}

ValidationFailed(r) == WithOutcome(r, {"invalid"})

EmptyOkVenues(r) == (NonErrorVenues(r) \ r.counts) \ ValidationFailed(r)
ExpectedVenues(r) == (r.active \ EmptyOkVenues(r)) \ ValidationFailed(r)
MissingShards(r) == ExpectedVenues(r) \ r.counts

\* The stage-6 write goes to the venue's own bucket, the retry's to the primary one.
WriteBucket(r, v) ==
    IF r.round = 0 THEN VenueBucket(r.dispatch, v) ELSE PrimaryBucket(r.dispatch)

-----------------------------------------------------------------------------
Init == /\ index = NoRows
        /\ objects = {}
        /\ run = [p \in Proc |-> Blank]

Local(p, r) == run' = [run EXCEPT ![p] = r]

\* Stage 1: a run is dispatched for some venues of its groups; the freshness
\* pre-flight reads the bucket of the first group.
Skip(p, d, active) ==
    /\ FALSE \in RedoAll
    /\ \A v \in active : MayBeFresh(index, d[1], v)
    /\ Local(p, Blank)
    /\ UNCHANGED <<index, objects>>

Begin(p, d, active) ==
    /\ \/ TRUE \in RedoAll
       \/ \E v \in active : MayBeStale(index, d[1], v)
    /\ Local(p, [Blank EXCEPT !.pc = "fetch", !.dispatch = d, !.active = active])
    /\ UNCHANGED <<index, objects>>

Start(p) ==
    /\ run[p].pc \in Ended
    /\ \E d \in Dispatch : \E active \in (SUBSET (VenuesFor(d) \cap Launched)) \ {{}} :
        Skip(p, d, active) \/ Begin(p, d, active)

\* Stages 2, 3 and 5: what each venue's adapter returned, filtered and validated.
Fetched(out) == \A v \in DOMAIN out \cap NoAdapter : out[v] = "permanent"

Fetch(p) ==
    /\ run[p].pc = "fetch"
    /\ \E out \in [run[p].active -> Outcome] :
        /\ Fetched(out)
        /\ Local(p, [run[p] EXCEPT !.pc = "fetched", !.outcome = out,
                         !.retryable = {v \in run[p].active : out[v] = "retryable"}])
    /\ UNCHANGED <<index, objects>>

-----------------------------------------------------------------------------
(* Stage 4: no record in any venue.  The rows go to the first group's bucket. *)

StampAbsent(p, S, next) ==
    Local(p, [run[p] EXCEPT !.pc = next,
        !.buffer = Stamp({VenueKey(run[p].dispatch[1], v) : v \in S}, "expected_empty")])

ZeroRecords(p) ==
    LET r == run[p]
        silent == Groups(r.dispatch) = {"defi"} /\ Mode = "batch"
        covered == r.active \ NoAdapter
        future == WithOutcome(r, {"future"})
        tradfi == {v \in covered : AssetGroup[v] = "tradfi"}
        closed == ClosedTradfi(tradfi)
    IN  /\ r.pc = "fetched"
        /\ WithOutcome(r, {"data", "invalid"}) = {}
        /\ \/ silent /\ Local(p, [r EXCEPT !.pc = "zero_ok"])
           \/ ~silent /\ covered = {} /\ StampAbsent(p, r.active, "flush_zero")
           \/ ~silent /\ covered # {} /\ covered = future /\ StampAbsent(p, covered, "flush_zero")
           \/ /\ ~silent /\ covered \notin {{}, future}
              /\ StampAbsent(p, closed, IF closed # {} /\ closed = tradfi
                                        THEN "flush_zero" ELSE "flush_raise")
        /\ UNCHANGED <<index, objects>>

-----------------------------------------------------------------------------
(* Stage 6: per-venue writes, seeding, one flush per bucket.               *)

\* Every record rejected: the shard fails.
RejectAll(p) ==
    /\ run[p].pc = "fetched"
    /\ WithOutcome(run[p], {"data", "invalid"}) # {}
    /\ WithOutcome(run[p], {"data"}) = {}
    /\ Local(p, Blank)
    /\ UNCHANGED <<index, objects>>

\* Closed TradFi venues are stamped first and their look-back records dropped.
PreStamp(p) ==
    LET r == run[p]
        valid == WithOutcome(r, {"data"})
        closed == ClosedTradfi(NonErrorVenues(r) \cup valid)
    IN  /\ r.pc = "fetched"
        /\ valid # {}
        /\ Local(p, [r EXCEPT !.pc = "write", !.counts = closed, !.todo = valid \ closed,
               !.buffer = Stamp({VenueKey(VenueBucket(r.dispatch, v), v) : v \in closed},
                                "expected_empty")])
        /\ UNCHANGED <<index, objects>>

\* writers._write_venue: object first, then the buffered row, then counts.
WriteVenue(p, v) ==
    LET r == run[p]
        b == WriteBucket(r, v)
    IN  /\ r.pc \in {"write", "rewrite"}
        /\ v \in r.todo
        /\ objects' = objects \cup {<<b, v>>}
        /\ Local(p, [r EXCEPT !.todo = @ \ {v}, !.counts = @ \cup {v},
               !.buffer = Merge(@, Stamp({TypeKey(b, v)}, "captured"))])
        /\ UNCHANGED index

\* (mutant) the row is buffered before the object is known to be written
WriteFailsRowKept(p, v) ==
    LET r == run[p]
    IN  /\ r.pc \in {"write", "rewrite"}
        /\ v \in r.todo
        /\ Local(p, [r EXCEPT !.todo = @ \ {v},
               !.buffer = Merge(@, Stamp({TypeKey(WriteBucket(r, v), v)}, "captured"))])
        /\ UNCHANGED <<index, objects>>

\* Three attempts failed, or a manifest row was refused after the object was
\* written, perhaps with the rows of some instrument types already buffered: the
\* error is logged, counts keeps no entry.
WriteFails(p, v) ==
    LET r == run[p]
        b == WriteBucket(r, v)
    IN  /\ r.pc \in {"write", "rewrite"}
        /\ v \in r.todo
        /\ \/ Local(p, [r EXCEPT !.todo = @ \ {v}]) /\ UNCHANGED objects
           \/ Local(p, [r EXCEPT !.todo = @ \ {v}]) /\ objects' = objects \cup {<<b, v>>}
           \/ /\ Local(p, [r EXCEPT !.todo = @ \ {v},
                     !.buffer = Merge(@, Stamp({TypeKey(b, v)}, "captured"))])
              /\ objects' = objects \cup {<<b, v>>}
        /\ UNCHANGED index

\* _seed_expected_unattempted_for_target_universe, from the index as it is now.
SeedRows(idx, d, counts) ==
    LET open == {v \in TargetUniverse(d) : SeedLookup(idx, AssetGroup[v], v) = {}}
        Seeds(S) == {SeedKey(AssetGroup[v], v) : v \in S}
    IN  Merge(Stamp(Seeds(open \ Launched), "expected_empty"),
              Stamp(Seeds((open \cap Launched) \ counts), "unattempted"))

Seed(p) ==
    LET r == run[p]
    IN  /\ r.pc = "write"
        /\ r.todo = {}
        /\ Local(p, [r EXCEPT !.pc = "flush",
               !.buffer = Merge(@, SeedRows(index, r.dispatch, r.counts))])
        /\ UNCHANGED <<index, objects>>

\* ManifestWriter.close(): one writer, one merge per bucket.
Flush(p, b) ==
    LET r == run[p]
        mine == InBucket(r.buffer, b)
    IN  /\ r.pc \in Flushing
        /\ mine # {}
        /\ index' = Merge(index, Only(r.buffer, mine))
        /\ Local(p, [r EXCEPT !.buffer = Only(@, DOMAIN @ \ mine)])
        /\ UNCHANGED objects

AfterFlush == [flush |-> "complete", flush_empty |-> "retry", flush_retry |-> "retry",
               flush_final |-> "thin", flush_thin |-> "ok", flush_zero |-> "zero_ok"]

FlushDone(p) ==
    /\ run[p].pc \in Flushing
    /\ run[p].buffer = NoRows
    /\ Local(p, IF run[p].pc = "flush_raise" THEN Blank
                ELSE [run[p] EXCEPT !.pc = AfterFlush[@]])
    /\ UNCHANGED <<index, objects>>

-----------------------------------------------------------------------------
(* Stage 8: honest-empty stamps, retries, final assessment.                *)

StampEmptyOk(p) ==
    LET r == run[p]
    IN  /\ r.pc = "complete"
        /\ Local(p, [r EXCEPT !.pc = "flush_empty",
               !.buffer = Stamp({VenueKey(VenueBucket(r.dispatch, v), v) :
                                    v \in EmptyOkVenues(r)}, "zero")])
        /\ UNCHANGED <<index, objects>>

\* (mutant) the attempts are not counted against MaxRetries
RetryCandidatesUnbounded(r) == IF r.counts # {} THEN MissingShards(r) \cap r.retryable ELSE {}

RetryCandidates(r) ==
    IF r.round < MaxRetries /\ r.counts # {} THEN MissingShards(r) \cap r.retryable ELSE {}

\* (mutant) the round is not counted
RetryFetchForever(p) ==
    LET r == run[p]
        candidates == RetryCandidates(r)
    IN  /\ r.pc = "retry"
        /\ candidates # {}
        /\ \E out \in [candidates -> Outcome] :
            Local(p, [r EXCEPT !.pc = "rewrite",
                !.todo = {v \in candidates : out[v] = "data"},
                !.retryable = (@ \ candidates) \cup {v \in candidates : out[v] = "retryable"}])
        /\ UNCHANGED <<index, objects>>

\* The records of a retry pass the date filter and the validation only.
RetryFetch(p) ==
    LET r == run[p]
        candidates == RetryCandidates(r)
    IN  /\ r.pc = "retry"
        /\ candidates # {}
        /\ \E out \in [candidates -> Outcome] :
            Local(p, [r EXCEPT !.pc = "rewrite", !.round = @ + 1,
                !.todo = {v \in candidates : out[v] = "data"},
                !.retryable = (@ \ candidates) \cup {v \in candidates : out[v] = "retryable"}])
        /\ UNCHANGED <<index, objects>>

CloseRetry(p) ==
    /\ run[p].pc = "rewrite"
    /\ run[p].todo = {}
    /\ Local(p, [run[p] EXCEPT !.pc = "flush_retry"])
    /\ UNCHANGED <<index, objects>>

CompletenessPct(r) == (Cardinality(r.counts) * 100) \div Cardinality(ExpectedVenues(r))

\* (mutant) every venue still expected is stamped, not only the missing ones
MissingRowsExpected(r) ==
    Stamp({VenueKey(VenueBucket(r.dispatch, v), v) : v \in ExpectedVenues(r)}, "failed")

MissingRows(r) ==
    LET missing == MissingShards(r)
        KeysOf(S) == {VenueKey(VenueBucket(r.dispatch, v), v) : v \in S}
    IN  Merge(Stamp(KeysOf(missing), "failed"),
              Stamp(KeysOf(ClosedTradfi(missing)), "expected_empty"))

\* Below 50% the shard fails before any row is written; so it does when the
\* calendar does not know a missing TradFi venue (UndeclaredTradfiVenueError).
Finalize(p) ==
    LET r == run[p]
        missing == MissingShards(r)
        undeclared == {v \in missing \cap NoAdapter : AssetGroup[v] = "tradfi"}
    IN  /\ r.pc = "retry"
        /\ RetryCandidates(r) = {}
        /\ IF missing = {} THEN Local(p, [r EXCEPT !.pc = "thin"])
           ELSE IF CompletenessPct(r) < 50 \/ undeclared # {} THEN Local(p, Blank)
           ELSE Local(p, [r EXCEPT !.pc = "flush_final", !.buffer = MissingRows(r)])
        /\ UNCHANGED <<index, objects>>

\* Thin-day routing: written CeFi venues far below their trailing median (any of
\* them, the history is not modelled) are recorded as failed in the primary bucket.
ThinDay(p) ==
    LET r == run[p]
        comparable == {v \in r.counts : AssetGroup[v] = "cefi"}
    IN  /\ r.pc = "thin"
        /\ \E thin \in SUBSET comparable :
            Local(p, [r EXCEPT !.pc = "flush_thin",
                !.buffer = Stamp({VenueKey(PrimaryBucket(r.dispatch), v) : v \in thin}, "failed")])
        /\ UNCHANGED <<index, objects>>

-----------------------------------------------------------------------------
\* The runner dies: what is not flushed is lost, what is written stays.
Crash(p) ==
    /\ run[p].pc \notin Ended
    /\ Local(p, Blank)
    /\ UNCHANGED <<index, objects>>

Step(p) ==
    \/ Fetch(p)
    \/ ZeroRecords(p)
    \/ RejectAll(p)
    \/ PreStamp(p)
    \/ \E v \in Venue : WriteVenue(p, v) \/ WriteFails(p, v)
    \/ Seed(p)
    \/ \E b \in Bucket : Flush(p, b)
    \/ FlushDone(p)
    \/ StampEmptyOk(p)
    \/ RetryFetch(p)
    \/ CloseRetry(p)
    \/ Finalize(p)
    \/ ThinDay(p)

Next == \E p \in Proc : Start(p) \/ Step(p) \/ Crash(p)

Spec == Init /\ [][Next]_vars

\* A started run keeps going: every await of the pipeline is bounded by the
\* HTTP client's timeout, every retry loop by its attempt count.
FairSpec == Spec /\ \A p \in Proc : WF_vars(Step(p))

-----------------------------------------------------------------------------
IsRun(r) ==
    /\ DOMAIN r = DOMAIN Blank
    /\ r.pc \in Stage
    /\ r.dispatch \in Dispatch
    /\ r.active \subseteq VenuesFor(r.dispatch)
    /\ DOMAIN r.outcome \subseteq r.active
    /\ \A v \in DOMAIN r.outcome : r.outcome[v] \in Outcome
    /\ r.pc \notin {"idle", "fetch"} => DOMAIN r.outcome = r.active
    /\ r.counts \subseteq r.active
    /\ r.todo \subseteq r.active
    /\ r.retryable \subseteq r.active
    /\ IsIndex(r.buffer)
    /\ r.round \in 0..MaxRetries

TypeOK ==
    /\ IsIndex(index)
    /\ objects \subseteq Bucket \X Venue
    /\ DOMAIN run = Proc
    /\ \A p \in Proc : IsRun(run[p])

\* A captured row stands for an object: no crash, failed write or retry leaves a
\* row that claims data which was never written (writers._write_venue).
CapturedHasObject ==
    \A k \in DOMAIN index : index[k] = "captured" => <<k.bucket, k.venue>> \in objects

\* Apart from the thin-day correction, a run never stamps a gap, a failure or a
\* zero response on a venue it has written, whatever failed before the retry that
\* wrote it (_completeness_and_retry, _seed_expected_unattempted_...).
NoContradictoryStamp ==
    \A p \in Proc : run[p].pc # "flush_thin" =>
        \A k \in DOMAIN run[p].buffer :
            run[p].buffer[k] \in {"zero", "failed", "unattempted"} => k.venue \notin run[p].counts

\* A CeFi or TradFi venue whose fetches all failed ends an accepted run as failed
\* (or as closed, on a day its calendar is): not as a seeded gap, not as an honest
\* zero (_stamp_missing_shards_attempted_failed after the seed of stage 6).
FailureVisible ==
    \A p \in Proc : run[p].pc = "ok" =>
        \A v \in WithOutcome(run[p], FailedFetch) \ run[p].counts :
            LET k == VenueKey(VenueBucket(run[p].dispatch, v), v)
            IN  ~IsDefiBatch(v) =>
                    /\ k \in DOMAIN index
                    /\ index[k] = IF ClosedTradfi({v}) = {} THEN "failed" ELSE "expected_empty"

\* No venue of the target universe is silently absent after an accepted run that
\* wrote something: each has a row in its own group's bucket, also the venues that
\* failed validation, are not launched, or were never requested.
NoSilentAbsence ==
    \A p \in Proc : run[p].pc = "ok" =>
        \A v \in TargetUniverse(run[p].dispatch) : RowsOf(index, AssetGroup[v], v) # {}

\* "NEVER overwrite ANY existing row" (process_write.py:857): a row that says more
\* than a gap never becomes a gap again.
SeedNeverMasks ==
    [][\A k \in DOMAIN index : index'[k] = "unattempted" => index[k] = "unattempted"]_vars

(***************************************************************************)
(* What a reader of the date learns of a venue from the rows in the bucket *)
(* of its group, and the refinement of HonestCoverage it must give while a *)
(* single runner works on the date.                                        *)
(***************************************************************************)
CellOf(v) ==
    LET said == {index[k] : k \in RowsOf(index, AssetGroup[v], v)}
    IN  CASE "captured" \in said -> "captured"
          [] "captured" \notin said /\ "failed" \in said -> "failed"
          [] said \cap {"captured", "failed"} = {} /\ said \cap {"zero", "expected_empty"} # {} -> "empty"
          [] said = {"unattempted"} -> "gap"
          [] said = {} -> "absent"

Coverage == INSTANCE HonestCoverage
    WITH cell <- [v \in Venue |-> CellOf(v)],
         stored <- {v \in Venue : <<AssetGroup[v], v>> \in objects}

\* Cell by cell, the runs only ever add to what the manifest says of the date, and
\* they report a capture only of data that is stored (process_write.py:857-865).
ImplementsCoverage == Coverage!Spec

\* Every run that starts comes to an end: accepted, failed or killed.
RunTerminates == \A p \in Proc : run[p].pc \notin Ended ~> run[p].pc \in Ended
=============================================================================
