--------------------------- MODULE SportsManifest ---------------------------
(***************************************************************************)
(* The sports rows of the availability manifest for one calendar date.     *)
(* Sports data is kept per (data_type, league): the row key is             *)
(* {date, data_type, league_id}, and the rows some error paths write       *)
(* without a league are rows of their own, which no per-league row of the  *)
(* same data_type replaces.                                                *)
(***************************************************************************)
CONSTANTS
    DataType,    \* TEAMS, INJURIES, FIXTURE_STATS, ... (the ones a model uses)
    League,      \* canonical league ids
    NoLeague,    \* the league of a row key that has none
    Expected,    \* get_expected_leagues_for_source("api_football")
    Scope,       \* [DataType -> leagues], SPORTS_ENTITY_LEAGUE_COVERAGE
    Covered,     \* the <<data_type, league>> the provider is known to serve
    OffSeason    \* leagues with no entry in the fixture calendar, season over

ASSUME SportsAssumption ==
    /\ NoLeague \notin League
    /\ Expected \subseteq League
    /\ Scope \in [DataType -> SUBSET League]
    /\ Covered \subseteq DataType \X League
    /\ OffSeason \subseteq League

Cell == DataType \X League
Key == DataType \X (League \cup {NoLeague})

(***************************************************************************)
(* capture_status, an absence carrying its reason:                         *)
(*   "no_coverage" EXPECTED_NO_PROVIDER_COVERAGE                           *)
(*   "paused"      EXPECTED_PAUSED_LEAGUE                                  *)
(*   "no_fixture"  EXPECTED_NO_FIXTURE                                     *)
(*   "zero"        SOURCE_RETURNED_ZERO                                    *)
(***************************************************************************)
Absence == {"no_coverage", "paused", "no_fixture", "zero"}
Status == Absence \cup {"captured", "failed"}

IsRows(rows) ==
    /\ DOMAIN rows \subseteq Key
    /\ rows = [k \in DOMAIN rows |-> rows[k]]
    /\ \A k \in DOMAIN rows : rows[k] \in Status

NoRows == [k \in {} |-> "failed"]

Stamp(keys, status) == [k \in keys |-> status]

\* The writer buffers one row per key and the consolidator merges by key: in both
\* the last row wins.
Upsert(old, new) ==
    [k \in DOMAIN old \cup DOMAIN new |->
        IF k \in DOMAIN new THEN new[k] ELSE old[k]]

Captured(rows) == {k \in DOMAIN rows : rows[k] = "captured"}

\* _manifest_captured_leagues_for_data_type
CapturedLeagues(rows, d) == {l \in League : <<d, l>> \in Captured(rows)}

\* _emit_empty_gap_for_league: why an expected league has nothing.
GapReason(d, l) ==
    IF <<d, l>> \notin Covered THEN "no_coverage"
    ELSE IF l \in OffSeason THEN "paused"
    ELSE "no_fixture"

\* emit_empty_gaps_for_entity: one absence per expected league of the entity's
\* scope that is not known to have data.
GapRows(d, known) ==
    [k \in {d} \X ((Expected \cap Scope[d]) \ known) |-> GapReason(k[1], k[2])]
=============================================================================
