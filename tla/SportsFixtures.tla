--------------------------- MODULE SportsFixtures ---------------------------
(***************************************************************************)
(* The fixtures of one date: three kinds of run write them, the daily      *)
(* batch (_write_sports_fixture_venue, _zero_sports_empty_fixture_markers, *)
(* _ensure_canonical_fixtures_for_override) and the two triggers           *)
(* (run_sports_fixtures_daily_repoll, run_sports_fixture_status_refresh),  *)
(* while matches are played, postponed and moved to or from the date.      *)
(***************************************************************************)
EXTENDS SportsManifest

CONSTANTS
    Schedule,   \* the data type of the rows, FIXTURES_SCHEDULE
    Proc,       \* runners
    Fixture,    \* matches that may be listed on the date
    LeagueOf,   \* [Fixture -> League]
    Tracked,    \* the canonical write universe
    Polled,     \* the leagues the repoll asks for
    Resolved,   \* the leagues _resolve_stale_league finds an id for
    LastWindow  \* bound on the days that pass: "refresh" or "past"

ASSUME FixtureAssumption ==
    /\ DataType = {Schedule}
    /\ LeagueOf \in [Fixture -> League]
    /\ Tracked \subseteq League /\ Polled \subseteq League /\ Resolved \subseteq League
    /\ LastWindow \in {"refresh", "past"}

VARIABLES
    window,     \* the window the date is in: the repoll's, the status refresh's, or past both
    listed,     \* the fixtures the provider lists under the date
    status,     \* what the provider says of each fixture
    stored,     \* [Fixture -> the status its fixtures_schedule row holds, or "none"]
    outcome,    \* fixtures with a fixtures_outcomes row
    venue,      \* leagues with an instruments.parquet
    index,      \* the consolidated manifest
    run         \* [Proc -> the local state of the runner's current run]

vars == <<window, listed, status, stored, outcome, venue, index, run>>
world == <<window, listed, status>>
store == <<stored, outcome, venue>>

Live == {"NS", "PST", "FT"}

\* TERMINAL_FIXTURE_STATUSES
Terminal == {"PST", "FT"}

Kind == {"none", "batch", "repoll", "refresh"}
Window == {"repoll", "refresh", "past"}
Stage == {"idle", "venue", "markers", "ensure", "season", "byid", "write", "outcome", "close"}

\* seen: the fetched fixtures with the status the answer gives them.  over is history:
\* the stale rows of matches that were over when this refresh began, without those a
\* failed call gave up.
Nothing == [f \in {} |-> "NS"]
Blank == [pc |-> "idle", kind |-> "none", seen |-> Nothing, todo |-> {}, league |-> NoLeague,
          buffer |-> NoRows, over |-> {}]

Init == /\ window = "repoll"
        /\ listed \in SUBSET Fixture
        /\ status = [f \in Fixture |-> "NS"]
        /\ stored = [f \in Fixture |-> "none"]
        /\ outcome = {} /\ venue = {}
        /\ index = NoRows
        /\ run = [p \in Proc |-> Blank]

Local(p, r) == run' = [run EXCEPT ![p] = r]

Leagues(fixtures) == {LeagueOf[f] : f \in fixtures}
InLeague(l) == {f \in Fixture : LeagueOf[f] = l}

\* What the provider answers now about the fixtures S.
Answer(S) == [f \in S |-> status[f]]

Rows(leagues, s) == Stamp({Schedule} \X leagues, s)

-----------------------------------------------------------------------------
(* The matches and the calendar.                                           *)

Play(f) ==
    /\ status[f] = "NS"
    /\ status' = [status EXCEPT ![f] = "FT"]
    /\ UNCHANGED <<window, listed, store, index, run>>

Postpone(f) ==
    /\ status[f] = "NS"
    /\ status' = [status EXCEPT ![f] = "PST"]
    /\ UNCHANGED <<window, listed, store, index, run>>

\* A match that is not over is rescheduled to another date, or to this one.
Reschedule(f) ==
    /\ status[f] # "FT"
    /\ status' = [status EXCEPT ![f] = "NS"]
    /\ listed' = IF f \in listed THEN listed \ {f} ELSE listed \cup {f}
    /\ UNCHANGED <<window, store, index, run>>

\* _date_window ends with yesterday; _status_refresh_window has the 30 days before
\* that, and no trigger visits the date again after them.
DaysPass ==
    /\ window # LastWindow
    /\ window' = IF window = "repoll" THEN "refresh" ELSE "past"
    /\ UNCHANGED <<listed, status, store, index, run>>

-----------------------------------------------------------------------------
(* The batch run.                                                          *)

\* The API_FOOTBALL adapter lists the date's fixtures.
BatchFetch(p) ==
    /\ run[p].pc = "idle"
    /\ listed # {}
    /\ Local(p, [Blank EXCEPT !.pc = "venue", !.kind = "batch", !.seen = Answer(listed),
                              !.todo = Tracked \cap Leagues(listed)])
    /\ UNCHANGED <<world, store, index>>

BatchFetchEmpty(p) ==
    /\ run[p].pc = "idle"
    /\ listed = {}
    /\ Local(p, [Blank EXCEPT !.pc = "markers", !.kind = "batch"])
    /\ UNCHANGED <<world, store, index>>

\* No record because the fetch raised: _zero_sports_empty_fixture_markers records the
\* failure for every league, then the reference fetch still goes on.
BatchFetchFails(p) ==
    /\ run[p].pc = "idle"
    /\ index' = Upsert(index, Rows(Expected, "failed"))
    /\ Local(p, [Blank EXCEPT !.pc = "ensure", !.kind = "batch"])
    /\ UNCHANGED <<world, store>>

\* The presence probe lists entity=fixtures, which no writer has filled since the split
\* into fixtures_schedule and fixtures_outcomes.
FixturesEntityPresent == {}

\* _zero_sports_empty_fixture_markers after a clean empty answer.  The probe may fail.
ZeroMarkers(p) ==
    /\ run[p].pc = "markers"
    /\ index' \in {index, Upsert(index, Rows(Expected \ FixturesEntityPresent, "no_fixture"))}
    /\ Local(p, [run[p] EXCEPT !.pc = "ensure"])
    /\ UNCHANGED <<world, store>>

WriteVenue(p, l) ==
    /\ run[p].pc = "venue" /\ l \in run[p].todo
    /\ venue' = venue \cup {l}
    /\ Local(p, [run[p] EXCEPT !.todo = @ \ {l}, !.buffer = Upsert(@, Rows({l}, "captured"))])
    /\ UNCHANGED <<world, stored, outcome, index>>

\* The two reasons of _write_sports_fixture_venue.
VenueGaps(known) ==
    [k \in {Schedule} \X (Expected \ known) |-> IF k[2] \in OffSeason THEN "paused" ELSE "no_fixture"]

\* (mutant) only this run's leagues are known
VenueGapsThisRun(p) ==
    /\ run[p].pc = "venue" /\ run[p].todo = {}
    /\ Local(p, [run[p] EXCEPT !.pc = "close",
            !.buffer = Upsert(@, VenueGaps(Tracked \cap Leagues(DOMAIN run[p].seen)))])
    /\ UNCHANGED <<world, store, index>>

\* The absences of the leagues neither this run nor the manifest has; none are stamped
\* when the manifest cannot be read.
CloseVenue(p) ==
    /\ run[p].pc = "venue" /\ run[p].todo = {}
    /\ \E readable \in BOOLEAN :
        Local(p, [run[p] EXCEPT !.pc = "close", !.buffer =
            IF readable
            THEN Upsert(@, VenueGaps((Tracked \cap Leagues(DOMAIN run[p].seen)) \cup CapturedLeagues(index, Schedule)))
            ELSE @])
    /\ UNCHANGED <<world, store, index>>

\* _ensure_canonical_fixtures_for_override asks again, always: it looks for
\* entity=fixtures too.  It may not be reached, and its errors are swallowed.
Ensure(p) ==
    /\ run[p].pc = "ensure"
    /\ Local(p, [run[p] EXCEPT !.pc = "write", !.seen = Answer(listed), !.todo = Tracked \cap Leagues(listed)])
    /\ UNCHANGED <<world, store, index>>

EnsureNothing(p) ==
    /\ run[p].pc = "ensure"
    /\ Local(p, Blank)
    /\ UNCHANGED <<world, store, index>>

-----------------------------------------------------------------------------
(* The triggers.  A fire goes through its dates with one season cache, so  *)
(* an answer about this date is at most as old as the fire.                *)

\* (mutant) the manifest rows are recorded before the files are written
RepollRecordsFirst(p) ==
    /\ run[p].pc = "idle" /\ window = "repoll"
    /\ LET found == {f \in listed : LeagueOf[f] \in Polled}
       IN  /\ found # {}
           /\ Local(p, [Blank EXCEPT !.pc = "write", !.kind = "repoll", !.seen = Answer(found),
                                     !.todo = Tracked \cap Leagues(found),
                                     !.buffer = Rows(Leagues(found), "captured")])
    /\ UNCHANGED <<world, store, index>>

Repoll(p) ==
    /\ run[p].pc = "idle" /\ window = "repoll"
    /\ LET found == {f \in listed : LeagueOf[f] \in Polled}
       IN  /\ found # {}
           /\ Local(p, [Blank EXCEPT !.pc = "write", !.kind = "repoll", !.seen = Answer(found),
                                     !.todo = Tracked \cap Leagues(found)])
    /\ UNCHANGED <<world, store, index>>

RepollFails(p) ==
    /\ run[p].pc = "idle" /\ window = "repoll"
    /\ Local(p, [Blank EXCEPT !.pc = "close", !.kind = "repoll", !.buffer = Rows({NoLeague}, "failed")])
    /\ UNCHANGED <<world, store, index>>

\* (mutant) an absence without a typed reason
RepollReasonUntyped(l) == IF l \in OffSeason THEN "no_fixture" ELSE "empty"

\* The repoll's decision tree for a league without a fixture.
RepollReason(l) ==
    IF <<Schedule, l>> \notin Covered THEN "no_coverage" ELSE IF l \in OffSeason THEN "no_fixture" ELSE "zero"

\* No fixture in any polled league: one absence per league, whatever is stored.
RepollEmpty(p) ==
    /\ run[p].pc = "idle" /\ window = "repoll"
    /\ \A f \in listed : LeagueOf[f] \notin Polled
    /\ Local(p, [Blank EXCEPT !.pc = "close", !.kind = "repoll",
                     !.buffer = [k \in {Schedule} \X Polled |-> RepollReason(k[2])]])
    /\ UNCHANGED <<world, store, index>>

\* _find_stale_fixture_leagues_for_date, _find_stale_fixture_ids_for_date
StaleIds == {f \in Fixture : stored[f] \notin Terminal \cup {"none"}}

\* The scan of run_sports_fixture_status_refresh finds stale leagues; the season lists
\* may be cached from an earlier date of the fire.
Scan(p) ==
    /\ run[p].pc = "idle" /\ window = "refresh"
    /\ StaleIds # {}
    /\ Local(p, [Blank EXCEPT !.pc = "season", !.kind = "refresh", !.seen = Answer(listed),
                              !.todo = Leagues(StaleIds),
                              !.over = {f \in StaleIds : status[f] = "FT"}])
    /\ UNCHANGED <<world, store, index>>

\* (mutant) the terminal fixtures of the league are left out of the answer
SeasonStaleOnly(p) ==
    /\ run[p].pc = "season"
    /\ \E answer \in {run[p].seen, Answer(listed)} :
        LET found == {f \in DOMAIN answer \cap StaleIds : LeagueOf[f] \in run[p].todo \cap Resolved}
        IN  Local(p, [run[p] EXCEPT !.pc = "byid", !.todo = {}, !.seen = [f \in found |-> answer[f]]])
    /\ UNCHANGED <<world, store, index>>

\* get_fixtures_with_raw of the stale leagues, cached or fetched now.
Season(p) ==
    /\ run[p].pc = "season"
    /\ \E answer \in {run[p].seen, Answer(listed)} :
        LET found == {f \in DOMAIN answer : LeagueOf[f] \in run[p].todo \cap Resolved}
        IN  Local(p, [run[p] EXCEPT !.pc = "byid", !.todo = {}, !.seen = [f \in found |-> answer[f]]])
    /\ UNCHANGED <<world, store, index>>

SeasonFails(p) ==
    /\ run[p].pc = "season"
    /\ run[p].todo \cap Resolved # {}
    /\ Local(p, [run[p] EXCEPT !.pc = "close", !.seen = Nothing, !.todo = {}, !.over = {},
                              !.buffer = Rows({NoLeague}, "failed")])
    /\ UNCHANGED <<world, store, index>>

\* Nothing found is nobody's row to write; otherwise the leagues of the answer are written.
ToWrites(p, answer, over) ==
    IF DOMAIN answer = {} THEN Local(p, [run[p] EXCEPT !.pc = "close", !.seen = answer, !.over = over])
    ELSE Local(p, [run[p] EXCEPT !.pc = "write", !.seen = answer, !.over = over,
                                 !.todo = Tracked \cap Leagues(DOMAIN answer)])

\* (mutant) asked for by id only when the season lists gave nothing
ByIdWhenEmpty(p) ==
    /\ run[p].pc = "byid"
    /\ LET seen == run[p].seen
       IN  ToWrites(p, IF DOMAIN seen = {} THEN Answer(StaleIds) ELSE seen, run[p].over)
    /\ UNCHANGED <<world, store, index>>

\* _reschedule_fallback_fetch: the stale fixtures the season lists do not have are asked
\* for by id.
ById(p) ==
    /\ run[p].pc = "byid"
    /\ LET seen == run[p].seen
       IN  ToWrites(p, [f \in DOMAIN seen \cup StaleIds |-> IF f \in DOMAIN seen THEN seen[f] ELSE status[f]],
                    run[p].over)
    /\ UNCHANGED <<world, store, index>>

\* Its errors are reported and swallowed.
ByIdFails(p) ==
    /\ run[p].pc = "byid"
    /\ StaleIds \ DOMAIN run[p].seen # {}
    /\ ToWrites(p, run[p].seen, run[p].over \cap DOMAIN run[p].seen)
    /\ UNCHANGED <<world, store, index>>

-----------------------------------------------------------------------------
(* _write_fixtures_per_league, used by all three.                          *)

\* The league's fixtures_schedule is replaced by the rows of the answer.
WriteSchedule(p, l) ==
    LET seen == run[p].seen
    IN  /\ run[p].pc = "write" /\ l \in run[p].todo
        /\ stored' = [f \in Fixture |-> IF LeagueOf[f] # l THEN stored[f]
                                        ELSE IF f \in DOMAIN seen THEN seen[f] ELSE "none"]
        /\ Local(p, IF \E f \in DOMAIN seen \cap InLeague(l) : seen[f] = "FT"
                    THEN [run[p] EXCEPT !.pc = "outcome", !.league = l, !.todo = @ \ {l}]
                    ELSE [run[p] EXCEPT !.todo = @ \ {l}])
        /\ UNCHANGED <<world, outcome, venue, index>>

\* (mutant) the outcomes file gets the matches that are not over too
WriteOutcomesAll(p) ==
    LET seen == run[p].seen
        l == run[p].league
    IN  /\ run[p].pc = "outcome"
        /\ outcome' = (outcome \ InLeague(l)) \cup (DOMAIN seen \cap InLeague(l))
        /\ Local(p, [run[p] EXCEPT !.pc = "write", !.league = NoLeague])
        /\ UNCHANGED <<world, stored, venue, index>>

\* fixtures_outcomes is replaced when some fixture of the answer is over.
WriteOutcomes(p) ==
    LET seen == run[p].seen
        l == run[p].league
    IN  /\ run[p].pc = "outcome"
        /\ outcome' = (outcome \ InLeague(l)) \cup {f \in DOMAIN seen \cap InLeague(l) : seen[f] = "FT"}
        /\ Local(p, [run[p] EXCEPT !.pc = "write", !.league = NoLeague])
        /\ UNCHANGED <<world, stored, venue, index>>

\* A trigger then records the leagues of its answer, the batch has done so already.
WritesDone(p) ==
    /\ run[p].pc = "write" /\ run[p].todo = {}
    /\ Local(p, IF run[p].kind = "batch" THEN Blank
                ELSE [run[p] EXCEPT !.pc = "close", !.buffer = Rows(Leagues(DOMAIN run[p].seen), "captured")])
    /\ UNCHANGED <<world, store, index>>

Flush(p) ==
    /\ run[p].pc = "close"
    /\ index' = Upsert(index, run[p].buffer)
    /\ Local(p, IF run[p].kind = "batch" THEN [Blank EXCEPT !.pc = "ensure", !.kind = "batch"] ELSE Blank)
    /\ UNCHANGED <<world, store>>

Crash(p) ==
    /\ run[p].pc # "idle"
    /\ Local(p, Blank)
    /\ UNCHANGED <<world, store, index>>

World == DaysPass \/ \E f \in Fixture : Play(f) \/ Postpone(f) \/ Reschedule(f)

Step(p) ==
    \/ \E l \in League : WriteVenue(p, l) \/ WriteSchedule(p, l)
    \/ ZeroMarkers(p) \/ CloseVenue(p) \/ Ensure(p) \/ EnsureNothing(p)
    \/ Season(p) \/ SeasonFails(p) \/ ById(p) \/ ByIdFails(p)
    \/ WriteOutcomes(p) \/ WritesDone(p) \/ Flush(p)

Next ==
    \/ World
    \/ \E p \in Proc :
        \/ BatchFetch(p) \/ BatchFetchEmpty(p) \/ BatchFetchFails(p)
        \/ Repoll(p) \/ RepollFails(p) \/ RepollEmpty(p) \/ Scan(p)
        \/ Step(p) \/ Crash(p)

Spec == Init /\ [][Next]_vars

-----------------------------------------------------------------------------
(* Properties                                                              *)

\* The state is well typed.
TypeOK ==
    /\ window \in Window /\ listed \subseteq Fixture
    /\ status \in [Fixture -> Live]
    /\ stored \in [Fixture -> Live \cup {"none"}]
    /\ outcome \subseteq Fixture /\ venue \subseteq League
    /\ IsRows(index)
    /\ \A p \in Proc : /\ IsRows(run[p].buffer)
                       /\ run[p].pc \in Stage /\ run[p].kind \in Kind
                       /\ DOMAIN run[p].seen \subseteq Fixture
                       /\ \A f \in DOMAIN run[p].seen : run[p].seen[f] \in Live
                       /\ run[p].todo \subseteq League /\ run[p].league \in League \cup {NoLeague}
                       /\ run[p].over \subseteq Fixture

\* No phantom: the row of a captured league, stored or still in a run's buffer, has an
\* instruments or a schedule file behind it, whatever later listings replaced in it.
CapturedHasFixtures ==
    \A k \in Captured(index) \cup UNION {Captured(run[p].buffer) : p \in Proc} :
        k[2] \in venue \cup Leagues({f \in Fixture : stored[f] # "none"})

\* "Status changes propagate": the stored row of a match that is over and still listed
\* under the date is never replaced by an older status and never lost, through crashes,
\* cached season lists and partial answers (one runner).
FinishedStays == [][\A f \in listed : stored[f] = "FT" => stored'[f] = "FT"]_vars

\* The two files of a league agree: an outcome has its schedule row, and that row says
\* the match is over, also when a run died between the two writes.
OutcomeHasRow == \A f \in outcome \cap listed : stored[f] = "FT"

\* _manifest_captured_leagues_for_data_type: a captured row becomes an absence only
\* through a run that found no fixture at all on the date.
CapturedNotMasked ==
    [][\A l \in League : LET k == <<Schedule, l>>
        IN  k \in Captured(index) /\ index'[k] \in Absence
                => \E p \in Proc : run[p].pc \in {"markers", "close"} /\ run[p].seen = Nothing]_vars

\* The status refresh: when a fire records its rows, every match that was over when the
\* fire began but stored as not started has its final row and its outcome, although the
\* season lists may be older, lack the match or its league, and matches move meanwhile;
\* a match only a failed call could have answered for is excepted (one runner).
RefreshSettles ==
    \A p \in Proc : run[p].kind = "refresh" /\ run[p].pc = "close" =>
        \A f \in run[p].over : stored[f] = "FT" /\ f \in outcome

-----------------------------------------------------------------------------
(* What the comments of the code say besides; these do not hold.           *)

\* "a cell whose per-league parquet EXISTS ... must NEVER be stamped empty_confirmed,
\* no matter how ... nothing at all on the zero-fixture-day".
EmptyNeverOverStored ==
    [][\A l \in League : LET k == <<Schedule, l>>
        IN  k \in DOMAIN index' /\ index'[k] \in Absence /\ (\E f \in InLeague(l) : stored[f] # "none")
                => k \in DOMAIN index /\ index[k] = index'[k]]_vars

\* "re-running against the same window is safe": a status refresh drops no row of the
\* date, such as the one an earlier fire recovered by id.
RefreshKeepsRows ==
    [][\A p \in Proc, f \in Fixture :
          run[p].kind = "refresh" /\ stored[f] # "none" => stored'[f] # "none"]_vars
=============================================================================
