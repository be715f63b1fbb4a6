------------------------------ MODULE Manifest ------------------------------
(***************************************************************************)
(* The availability manifest of one calendar date, as the orchestrator     *)
(* writes it.  The writer and the consolidator live in the unified trading *)
(* library, outside this repository; what is modelled here is how          *)
(* instruments-service uses them: which row keys it writes, which rows its *)
(* lookups see, and that a flush merges rows key by key, the last writer   *)
(* winning (process_write.py:820-823, writers.py:396-416).                 *)
(*                                                                         *)
(* instrument_type is part of the consolidator's dedup key                 *)
(* (scripts/drop_stale_xg_shots_shot_rows_2026_07_09.py:10-22), so a row   *)
(* written with it and a row written without it are different rows of the  *)
(* same (date, venue) cell.                                                *)
(***************************************************************************)
CONSTANTS
    Venue,        \* the venues of the configured universe
    AssetGroup    \* [Venue -> asset group], VENUE_TO_ASSET_GROUP

VenueGrainGroup == {"cefi", "defi", "tradfi"}

ASSUME AssetGroupAssumption == AssetGroup \in [Venue -> VenueGrainGroup]

\* One manifest bucket per asset group; "sports" is also the primary bucket of
\* every run over more than one asset group.
Bucket == VenueGrainGroup \cup {"sports"}

(***************************************************************************)
(* Row keys.  The grain says which dimensions the writer gives:            *)
(*   "venue"  {date, venue}: absences and failures                         *)
(*   "chain"  {date, venue = PROTOCOL, chain}: DeFi seeds                  *)
(*   "type"   {date, venue, instrument_type [, chain]}: captures           *)
(***************************************************************************)
Grain == {"venue", "chain", "type"}
Key == [bucket : Bucket, venue : Venue, grain : Grain]

VenueKey(b, v) == [bucket |-> b, venue |-> v, grain |-> "venue"]
TypeKey(b, v) == [bucket |-> b, venue |-> v, grain |-> "type"]

\* writers._canonical_manifest_venue_chain: only a DeFi PROTOCOL-CHAIN venue is split.
SeedKey(b, v) ==
    [bucket |-> b, venue |-> v,
     grain |-> IF AssetGroup[v] = "defi" THEN "chain" ELSE "venue"]

(***************************************************************************)
(* capture_status, with the reason class the code tells apart:             *)
(*   "zero"            empty_confirmed, reason SOURCE_RETURNED_ZERO        *)
(*   "expected_empty"  an EXPECTED_* absence (holiday, pre-launch, ...)    *)
(*   "unattempted"     expected_unattempted, the seeded gap                *)
(***************************************************************************)
Status == {"captured", "zero", "expected_empty", "unattempted", "failed"}

\* An index maps the row keys it holds to their status.
IsIndex(idx) == /\ DOMAIN idx \subseteq Key
                /\ idx = [k \in DOMAIN idx |-> idx[k]]
                /\ \A k \in DOMAIN idx : idx[k] \in Status

NoRows == [k \in {} |-> "failed"]

Stamp(keys, status) == [k \in keys |-> status]

\* (mutant) a flush replaces the index it read (no merge with other rows)
MergeLosesOld(old, new) == IF new = NoRows THEN old ELSE new

\* The consolidator's merge: rows of new replace rows of old with the same key.
Merge(old, new) ==
    [k \in DOMAIN old \cup DOMAIN new |->
        IF k \in DOMAIN new THEN new[k] ELSE old[k]]

InBucket(rows, b) == {k \in DOMAIN rows : k.bucket = b}

Only(rows, keys) == [k \in keys |-> rows[k]]

RowsOf(idx, b, v) == {k \in DOMAIN idx : k.bucket = b /\ k.venue = v}

\* (mutant) only a row that ends the work on the cell counts as found
SeedLookupSkipGated(idx, b, v) ==
    {k \in DOMAIN idx \cap {SeedKey(b, v), TypeKey(b, v)} :
        idx[k] \in {"captured", "zero", "expected_empty"}}

\* lookup(row_key) filters on the dimensions the key gives: a seed's key also
\* matches the captured rows of the cell, whatever their instrument_type.
SeedLookup(idx, b, v) == DOMAIN idx \cap {SeedKey(b, v), TypeKey(b, v)}

\* venue_core._should_skip_shard: statuses that end the work on a cell.
SkipGated(status) == status \in {"captured", "zero", "expected_empty"}

\* check_shard_freshness reads a date's rows venue by venue.  Where a venue's
\* rows disagree the library's choice is not visible here: both answers are kept.
MayBeFresh(idx, b, v) == \E k \in RowsOf(idx, b, v) : SkipGated(idx[k])
MayBeStale(idx, b, v) ==
    \/ RowsOf(idx, b, v) = {}
    \/ \E k \in RowsOf(idx, b, v) : ~SkipGated(idx[k])
=============================================================================
