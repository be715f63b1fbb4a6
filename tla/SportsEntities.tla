--------------------------- MODULE SportsEntities ---------------------------
(***************************************************************************)
(* Per-fixture enrichment of one date (_fetch_sports_reference_data from   *)
(* _resolve_fixture_ids on): which fixtures are asked for, what is written *)
(* to each league's file, which manifest row each (entity, league) cell    *)
(* ends with.  Fixtures finish while runs go on; several runs of the date  *)
(* share the files and the manifest.                                       *)
(***************************************************************************)
EXTENDS SportsManifest

CONSTANTS
    Proc,       \* the runners that may process this date
    Fixture,    \* the fixtures of the date
    LeagueOf,   \* [Fixture -> league, NoLeague outside the fixtures map]
    Tracked,    \* the canonical write universe
    Recovery    \* the --recovery-fixture-ids lists a run may be given

ASSUME EntityAssumption ==
    /\ LeagueOf \in [Fixture -> League \cup {NoLeague}]
    /\ Tracked \subseteq League
    /\ Recovery \subseteq SUBSET Fixture

VARIABLES
    scheduled,  \* the date's fixtures_schedule files are stored
    finished,   \* fixtures that are over (FT, AET, PEN)
    files,      \* [Cell -> the fixtures with rows in the cell's file]
    index,      \* the consolidated manifest
    run         \* [Proc -> the local state of the runner's current run]

vars == <<scheduled, finished, files, index, run>>

\* What one call for one fixture comes to: rows, an empty answer, an exception.
Answer == {"rows", "none", "error"}

Stage == {"idle", "ensure", "prefetch", "fetch", "entity", "write", "merge", "gaps"}

Blank == [pc |-> "idle", redo |-> FALSE, scoped |-> FALSE, recovery |-> FALSE, ids |-> {}, mapped |-> {},
          queued |-> {}, kept |-> {}, got |-> {}, lost |-> {}, todo |-> {}, entity |-> "none",
          leagues |-> {}, written |-> {}, league |-> NoLeague,
          base |-> {}, buffer |-> NoRows]

Init == /\ scheduled \in BOOLEAN
        /\ finished = {}
        /\ files = [c \in Cell |-> {}]
        /\ index = NoRows
        /\ run = [p \in Proc |-> Blank]

Local(p, r) == run' = [run EXCEPT ![p] = r]

-----------------------------------------------------------------------------
(* Which fixtures a run asks for.                                          *)

Mappable == {f \in Fixture : LeagueOf[f] # NoLeague}
InCell(c) == {f \in Fixture : LeagueOf[f] = c[2]}

\* A match ends.
Finish(f) ==
    /\ f \notin finished
    /\ finished' = finished \cup {f}
    /\ UNCHANGED <<scheduled, files, index, run>>

\* A run asks for the entities S of the fixtures that are over (all of them, or those
\* the stored schedule knows of), cut down to a recovery list if it has one, and reads
\* the fixture map of the stored schedule: empty when there is none or it cannot be
\* read.  A recovery run is a forced one (_promote_redo_all_for_recovery); a forced run
\* for one entity has no manifest to write to (_per_fixture_gcs_fast_path).
Begin(p) ==
    /\ run[p].pc = "idle"
    /\ \E redo \in BOOLEAN, only \in Recovery \cup {Fixture}, S \in (SUBSET DataType) \ {{}},
          mapped \in {{}, IF scheduled THEN Mappable ELSE {}} :
        \E ids \in (SUBSET (finished \cap only)) \ {{}}, scoped \in {FALSE, redo} :
            /\ only # Fixture => redo
            /\ scoped => \E e \in DataType : S = {e}
            /\ redo /\ ~scoped => S = DataType
            /\ Local(p, [Blank EXCEPT !.pc = "ensure", !.redo = redo, !.scoped = scoped, !.ids = ids,
                             !.recovery = (only # Fixture), !.mapped = mapped, !.todo = S])
    /\ UNCHANGED <<scheduled, finished, files, index>>

\* _enrichment_only_fast_path without a finished fixture in the stored schedule, or
\* without a schedule it can read: one absence per entity, for the whole date.
NoFixtures(p) ==
    /\ run[p].pc = "idle"
    /\ \E S \in (SUBSET DataType) \ {{}} :
        index' = Upsert(index, Stamp(S \X {NoLeague}, "no_fixture"))
    /\ UNCHANGED <<scheduled, finished, files, run>>

\* _ensure_canonical_fixtures_for_override, after the map was built; its errors
\* are swallowed.
Ensure(p) ==
    /\ run[p].pc = "ensure"
    /\ scheduled' \in {scheduled, TRUE}
    /\ Local(p, [run[p] EXCEPT !.pc = "prefetch"])
    /\ UNCHANGED <<finished, files, index>>

\* The calls of a run that the league scope and the coverage map allow; a fixture
\* without league in the map is always asked for.
Eligible(r) ==
    {c \in r.todo \X r.ids :
        LET cell == <<c[1], LeagueOf[c[2]]>>
        IN  c[2] \in r.mapped => cell \in Covered /\ cell[2] \in Scope[c[1]]}

\* _read_captured_per_entity_league: what the files hold already, entity by entity,
\* nothing for an entity whose files cannot be listed.
Known(r, readable) ==
    IF r.redo \/ r.mapped = {} THEN {}
    ELSE {c \in readable \X Mappable : c[2] \in files[<<c[1], LeagueOf[c[2]]>>]}

\* _gather_per_fixture_rows up to the calls: which are queued, and which cells are
\* kept because everything the run would ask of them is there (pre_captured_leagues).
Prefetch(p) ==
    LET r == run[p]
    IN  /\ r.pc = "prefetch"
        /\ \E readable \in SUBSET r.todo :
            LET known == Known(r, readable)
                queued == Eligible(r) \ known
                OfCell(calls, c) == {x \in calls : x[1] = c[1] /\ x[2] \in r.mapped \cap InCell(c)}
            IN  Local(p, [r EXCEPT !.pc = "fetch", !.queued = queued,
                    !.kept = {c \in Cell : /\ OfCell(Eligible(r), c) # {}
                                           /\ OfCell(known, c) # {}
                                           /\ OfCell(queued, c) = {}}])
        /\ UNCHANGED <<scheduled, finished, files, index>>

Fetch(p) ==
    /\ run[p].pc = "fetch"
    /\ \E out \in [run[p].queued -> Answer] :
        Local(p, [run[p] EXCEPT !.pc = "entity",
                      !.got = {c \in run[p].queued : out[c] = "rows"},
                      !.lost = {c \in run[p].queued : out[c] = "error"}])
    /\ UNCHANGED <<scheduled, finished, files, index>>

-----------------------------------------------------------------------------
(* _write_per_fixture_entities: the entities one after the other.          *)

Rows(r, e) == {f \in r.ids : <<e, f>> \in r.got}
Lost(r, e) == {f \in r.ids : <<e, f>> \in r.lost}

\* The buffer after per-league rows, and after the count of an entity's rows: a run
\* without manifest records its counts only, under the whole date.
Recorded(r, rows) == IF r.scoped THEN r.buffer ELSE Upsert(r.buffer, rows)
Counted(r, e) == IF r.scoped THEN Upsert(r.buffer, Stamp({<<e, NoLeague>>}, "captured")) ELSE r.buffer

\* The leagues of the map: the whole date's, not those of the failed calls.
MapLeagues(r) == {LeagueOf[f] : f \in r.mapped}

\* An entity with rows and a map is written league by league; rows outside the
\* map or the write universe are dropped with a warning.
StartWrites(p, e) ==
    LET r == run[p]
    IN  /\ r.pc = "entity" /\ e \in r.todo
        /\ Rows(r, e) # {} /\ r.mapped # {}
        /\ Local(p, [r EXCEPT !.pc = "write", !.entity = e, !.written = {}, !.buffer = Counted(r, e),
                        !.leagues = Tracked \cap {LeagueOf[f] : f \in Rows(r, e) \cap r.mapped}])
        /\ UNCHANGED <<scheduled, finished, files, index>>

\* (mutant) the bare path records a row, though it writes no file
BarePathRecords(p, e) ==
    LET r == run[p]
    IN  /\ r.pc = "entity" /\ e \in r.todo
        /\ Rows(r, e) # {} /\ r.mapped = {}
        /\ Local(p, [r EXCEPT !.todo = @ \ {e},
                !.buffer = Recorded(r, Stamp({<<e, LeagueOf[f]>> : f \in Rows(r, e)}, "captured"))])
        /\ UNCHANGED <<scheduled, finished, files, index>>

\* The bare path: rows and no map, nothing is written and no league recorded.
BarePath(p, e) ==
    LET r == run[p]
    IN  /\ r.pc = "entity" /\ e \in r.todo
        /\ Rows(r, e) # {} /\ r.mapped = {}
        /\ Local(p, [r EXCEPT !.todo = @ \ {e}, !.buffer = Counted(r, e)])
        /\ UNCHANGED <<scheduled, finished, files, index>>

\* (mutant) only an entity all of whose calls failed counts as failed
FailEntityAll(p, e) ==
    LET r == run[p]
    IN  /\ r.pc = "entity" /\ e \in r.todo
        /\ Rows(r, e) = {} /\ Lost(r, e) # {}
        /\ IF {<<e, f>> : f \in r.ids} \cap r.queued \subseteq r.lost
           THEN Local(p, [r EXCEPT !.todo = @ \ {e}, !.buffer = Recorded(r, Stamp(
                    {e} \X (IF r.mapped = {} THEN {NoLeague} ELSE MapLeagues(r)), "failed"))])
           ELSE Local(p, [r EXCEPT !.pc = "gaps", !.entity = e, !.written = {}])
        /\ UNCHANGED <<scheduled, finished, files, index>>

\* _handle_empty_fixture_entity: no row at all and some call failed, then every
\* league of the map failed, or the whole date without a map.
FailEntity(p, e) ==
    LET r == run[p]
    IN  /\ r.pc = "entity" /\ e \in r.todo
        /\ Rows(r, e) = {} /\ Lost(r, e) # {}
        /\ Local(p, [r EXCEPT !.todo = @ \ {e}, !.buffer = Recorded(r, Stamp(
                {e} \X (IF r.mapped = {} THEN {NoLeague} ELSE MapLeagues(r)), "failed"))])
        /\ UNCHANGED <<scheduled, finished, files, index>>

\* Every call answered with nothing, or none was made.
EmptyEntity(p, e) ==
    LET r == run[p]
    IN  /\ r.pc = "entity" /\ e \in r.todo
        /\ Rows(r, e) = {} /\ Lost(r, e) = {}
        /\ Local(p, [r EXCEPT !.pc = "gaps", !.entity = e, !.written = {}])
        /\ UNCHANGED <<scheduled, finished, files, index>>

\* _write_fixture_entity_per_league, one league: the file, then the captured row in
\* the writer's buffer.
Store(p, l, rows) ==
    LET r == run[p]
    IN  /\ files' = [files EXCEPT ![<<r.entity, l>>] = rows]
        /\ Local(p, [r EXCEPT !.pc = "write", !.leagues = @ \ {l}, !.written = @ \cup {l},
                        !.league = NoLeague, !.base = {},
                        !.buffer = Recorded(r, Stamp({<<r.entity, l>>}, "captured"))])
        /\ UNCHANGED <<scheduled, finished, index>>

\* (mutant) every league gets the rows of the whole entity
RowsOfAll(r, l) == Rows(r, r.entity) \cap r.mapped

RowsOf(r, l) == {f \in Rows(r, r.entity) \cap r.mapped : LeagueOf[f] = l}

\* Without a recovery list the file is replaced by this run's rows.
WriteLeague(p, l) ==
    /\ run[p].pc = "write" /\ l \in run[p].leagues
    /\ ~run[p].recovery
    /\ Store(p, l, RowsOf(run[p], l))

\* _merge_with_existing_per_league_parquet reads the file (as none, if it cannot be
\* read) and holds no lock on it until the write.
ReadForMerge(p, l) ==
    /\ run[p].pc = "write" /\ l \in run[p].leagues
    /\ run[p].recovery
    /\ \E base \in {files[<<run[p].entity, l>>], {}} :
        Local(p, [run[p] EXCEPT !.pc = "merge", !.league = l, !.base = base])
    /\ UNCHANGED <<scheduled, finished, files, index>>

\* (mutant) recovery overwrites like a full run
WriteUnmerged(p) ==
    /\ run[p].pc = "merge"
    /\ Store(p, run[p].league, RowsOf(run[p], run[p].league))

WriteMerged(p) ==
    /\ run[p].pc = "merge"
    /\ Store(p, run[p].league, run[p].base \cup RowsOf(run[p], run[p].league))

WritesDone(p) ==
    /\ run[p].pc = "write" /\ run[p].leagues = {}
    /\ Local(p, [run[p] EXCEPT !.pc = "gaps"])
    /\ UNCHANGED <<scheduled, finished, files, index>>

EntityDone(p, r) == Local(p, [r EXCEPT !.pc = "entity", !.todo = @ \ {r.entity},
                                       !.entity = "none", !.written = {}])

\* (mutant) only what this run captured or skipped is known to be there
PresentThisRun(e) == {}

\* _list_present_parquet_leagues
Present(e) == {l \in League : files[<<e, l>>] # {}}

\* emit_empty_gaps_for_entity with its two guards, files and manifest; it stamps
\* nothing when either cannot be read.
EmitGaps(p) ==
    LET r == run[p]
        kept == {c[2] : c \in {k \in r.kept : k[1] = r.entity}}
        known == r.written \cup kept \cup Present(r.entity) \cup CapturedLeagues(index, r.entity)
    IN  /\ r.pc = "gaps"
        /\ \E readable \in BOOLEAN :
            EntityDone(p, IF readable THEN [r EXCEPT !.buffer = Recorded(r, GapRows(r.entity, known))] ELSE r)
        /\ UNCHANGED <<scheduled, finished, files, index>>

\* _fetch_sports_reference_block writes the manifest when all entities are done.
Flush(p) ==
    /\ run[p].pc = "entity" /\ run[p].todo = {}
    /\ index' = Upsert(index, run[p].buffer)
    /\ Local(p, Blank)
    /\ UNCHANGED <<scheduled, finished, files>>

\* The process dies, or an exception leaves the block: buffered rows are gone.
Crash(p) ==
    /\ run[p].pc # "idle"
    /\ Local(p, Blank)
    /\ UNCHANGED <<scheduled, finished, files, index>>

Step(p) ==
    \/ Ensure(p) \/ Prefetch(p) \/ Fetch(p)
    \/ \E e \in DataType : StartWrites(p, e) \/ BarePath(p, e) \/ FailEntity(p, e) \/ EmptyEntity(p, e)
    \/ \E l \in League : WriteLeague(p, l) \/ ReadForMerge(p, l)
    \/ WriteMerged(p) \/ WritesDone(p) \/ EmitGaps(p) \/ Flush(p)

Next ==
    \/ \E f \in Fixture : Finish(f)
    \/ \E p \in Proc : Begin(p) \/ NoFixtures(p) \/ Step(p) \/ Crash(p)

Spec == Init /\ [][Next]_vars

-----------------------------------------------------------------------------
(* Properties                                                              *)

RunType == [pc : Stage, redo : BOOLEAN, scoped : BOOLEAN, recovery : BOOLEAN, ids : SUBSET Fixture,
            mapped : SUBSET Fixture, queued : SUBSET (DataType \X Fixture), kept : SUBSET Cell,
            got : SUBSET (DataType \X Fixture), lost : SUBSET (DataType \X Fixture),
            todo : SUBSET DataType, entity : DataType \cup {"none"}, leagues : SUBSET League,
            written : SUBSET League, league : League \cup {NoLeague}, base : SUBSET Fixture]

\* The state is well typed; files hold only fixtures of their league.
TypeOK ==
    /\ scheduled \in BOOLEAN
    /\ finished \subseteq Fixture
    /\ DOMAIN files = Cell
    /\ \A c \in Cell : files[c] \subseteq InCell(c)
    /\ IsRows(index)
    /\ \A p \in Proc : /\ IsRows(run[p].buffer)
                       /\ [k \in DOMAIN run[p] \ {"buffer"} |-> run[p][k]] \in RunType

\* A captured row, stored or waiting in a runner's buffer, has rows in its file:
\* through crashes, recoveries, overwrites and other runners.
CapturedHasRows ==
    \A c \in Captured(index) \cup UNION {Captured(run[p].buffer) : p \in Proc} :
        c \in Cell => files[c] # {}

\* _list_present_parquet_leagues: a cell whose file exists must never be stamped empty.
\* What a flush stores as absent has no file (one runner; the guard is decided before
\* the flush, so another runner could write in between).
EmptyNeverStampedOverData ==
    [][\A c \in Cell : c \in DOMAIN index' /\ index'[c] \in Absence /\ files[c] # {}
            => c \in DOMAIN index /\ index[c] = index'[c]]_vars

\* _merge_with_existing_per_league_parquet: a recovery that could read the file keeps the
\* fixtures it held (an unreadable file or another runner's write in between loses them).
RecoveryPreserves ==
    [][\A p \in Proc, c \in Cell :
          run[p].pc = "merge" /\ run[p].base # {} /\ c = <<run[p].entity, run[p].league>>
              => files[c] \subseteq files'[c]]_vars

\* _handle_empty_fixture_entity: an entity with no row at all and a failed call ends as
\* failed, never as an absence that would not be fetched again.
NothingCapturedNeverEmpty ==
    \A p \in Proc : \A e \in DataType :
        run[p].pc = "entity" /\ Lost(run[p], e) # {} /\ Rows(run[p], e) = {}
            => \A k \in DOMAIN run[p].buffer : k[1] = e => run[p].buffer[k] = "failed"

-----------------------------------------------------------------------------
(* What the comments of the code say besides; these do not hold.           *)

\* "overwrite-on-write ... is safe when we always fetch ALL fixtures for the (date,
\* league) cell": no run makes a stored fixture disappear from its file.
CapturedFixturesSurvive == [][\A c \in Cell : files[c] \subseteq files'[c]]_vars

\* "ANY failure -> record_failed": a league all of whose calls failed is not stamped as
\* an expected absence.
FailedLeagueNeverEmpty ==
    \A p \in Proc : \A c \in Cell :
        LET asked == {x \in run[p].queued : x[1] = c[1] /\ x[2] \in run[p].mapped \cap InCell(c)}
        IN  asked # {} /\ asked \subseteq run[p].lost /\ c \in DOMAIN run[p].buffer
                => run[p].buffer[c] \notin Absence

\* "writing one would create a phantom captured shard with no parquet on disk": a captured
\* row of the whole date stands for at least one file.
AggregateHasFile ==
    \A k \in Captured(index) : k[2] = NoLeague => \E l \in League : files[<<k[1], l>>] # {}
=============================================================================
