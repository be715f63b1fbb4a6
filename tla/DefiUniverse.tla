---------------------------- MODULE DefiUniverse ----------------------------
(***************************************************************************)
(* The DeFi universe of a batch run (_get_or_fetch_defi_universe): fetched *)
(* once for the first date that needs it, checked against the high-water   *)
(* marks of the manifest, kept in the process and filtered for every later *)
(* date of the range.  One runner works through the dates in order; runs   *)
(* follow one another and may die at any step.  Stages 6 and 8 of a date   *)
(* are single steps here; ShardRun has them in detail.                     *)
(*                                                                         *)
(* Instruments are known by the day they become available (0 before the    *)
(* range): at most one per venue and day, which is enough for counts and   *)
(* date filters to differ.                                                 *)
(***************************************************************************)
EXTENDS Naturals, FiniteSets

CONSTANTS
    Venue,         \* the configured DeFi venues, PROTOCOL-CHAIN
    ManifestName,  \* [Venue -> the venue column of its captured rows]
    LaunchDay,     \* [Venue -> first day its discovery API is live]
    LastDay,       \* the range of the batch is 1..LastDay
    MaxRuns        \* bound on the number of runs

ASSUME UniverseAssumption ==
    /\ LastDay \in Nat \ {0}
    /\ MaxRuns \in Nat
    /\ LaunchDay \in [Venue -> Nat]
    /\ \A v, w \in Venue : ManifestName[v] = w => v = w

VARIABLES
    stored,    \* <<day, venue>> -> the instruments captured there, row and object
    zeroed,    \* <<day, venue>> with a SOURCE_RETURNED_ZERO row
    held,      \* the answers the pooled adapters still cache, venue -> instruments
    universe,  \* _defi_universe_cache and _defi_universe_retryable
    run        \* the runner

vars == <<stored, zeroed, held, universe, run>>

Day == 1..LastDay
Instrument == 0..LastDay
Answer == SUBSET Instrument

NotCached == [filled |-> FALSE, records |-> [v \in Venue |-> {}], retryable |-> {}]

\* wrote, asked, failed, regressed and marked are history: the cells stage 6 of this
\* run has written, how often each venue's source was asked for the universe, which
\* venues failed retryably, which regressed, and whether the marks could be read.
Idle(n) == [pc |-> "idle", runs |-> n, day |-> 1, redo |-> FALSE, got |-> [v \in Venue |-> {}],
            wrote |-> {}, asked |-> [v \in Venue |-> 0], failed |-> {}, regressed |-> {},
            marked |-> FALSE]

Init == /\ stored = [c \in {} |-> {}]
        /\ zeroed = {}
        /\ held = [v \in {} |-> {}]
        /\ universe = NotCached
        /\ run = Idle(0)

-----------------------------------------------------------------------------
Active(d) == {v \in Venue : LaunchDay[v] <= d}

\* filter_instruments_by_date: DeFi instruments have no end date.
InForce(S, d) == {i \in S : i <= d}

\* The high-water mark the guard looks up under the venue's own name: the greatest
\* row of the manifest whose venue column is that name.
MarkAtMost(v, n) ==
    \A c \in DOMAIN stored : ManifestName[c[2]] = v => Cardinality(stored[c]) <= n

Regressed(v, S) == S # {} /\ ~MarkAtMost(v, Cardinality(S))

\* (mutant) the threshold is not applied
BlockedNever(v, S) == FALSE

\* _enforce_monotonicity with min_ratio = 0.5: below half of the mark.
Blocked(v, S) == S # {} /\ ~MarkAtMost(v, 2 * Cardinality(S))

\* (mutant) one date past the end of the range
NextDayPast(r) == IF r.day <= LastDay THEN [r EXCEPT !.pc = "day", !.day = @ + 1]
                  ELSE [r EXCEPT !.pc = "done"]

NextDay(r) == IF r.day < LastDay THEN [r EXCEPT !.pc = "day", !.day = @ + 1]
              ELSE [r EXCEPT !.pc = "done"]

Cells(d, S) == {<<d, v>> : v \in S}

\* Captures of day d: each venue of S gets what records holds for that day.
Capture(d, S, records) ==
    [c \in DOMAIN stored \cup Cells(d, S) |->
        IF c \in Cells(d, S) THEN InForce(records[c[2]], d) ELSE stored[c]]

-----------------------------------------------------------------------------
\* InstrumentsHandler.preflight in a new process: both caches are empty.
StartRun ==
    /\ run.pc \in {"idle", "done"}
    /\ run.runs < MaxRuns
    /\ \E redo \in BOOLEAN :
        run' = [Idle(run.runs + 1) EXCEPT !.pc = "day", !.redo = redo]
    /\ universe' = NotCached
    /\ held' = [v \in {} |-> {}]
    /\ UNCHANGED <<stored, zeroed>>

\* No venue is live yet, or all of them have a row that ends the work.
SkipDay ==
    /\ run.pc = "day"
    /\ \/ Active(run.day) = {}
       \/ ~run.redo /\ Cells(run.day, Active(run.day)) \subseteq DOMAIN stored \cup zeroed
    /\ run' = NextDay(run)
    /\ UNCHANGED <<stored, zeroed, held, universe>>

\* Cache miss: every live venue is asked for its whole universe; an adapter that
\* still caches an answer gives that one, a failure is never cached.
FetchUniverse ==
    /\ run.pc = "day"
    /\ Active(run.day) # {}
    /\ ~universe.filled
    /\ \E answered \in SUBSET Active(run.day), got \in [Venue -> Answer] :
       \E retryable \in SUBSET (Active(run.day) \ answered) :
        /\ DOMAIN held \cap Active(run.day) \subseteq answered
        /\ \A v \in Venue \ answered : got[v] = {}
        /\ \A v \in answered \cap DOMAIN held : got[v] = held[v]
        /\ held' = [v \in DOMAIN held \cup answered |-> IF v \in answered THEN got[v] ELSE held[v]]
        /\ run' = [run EXCEPT !.pc = "check", !.got = got, !.failed = retryable,
                     !.asked = [v \in Venue |-> IF v \in Active(run.day) \ DOMAIN held
                                                THEN 1 ELSE 0]]
    /\ UNCHANGED <<stored, zeroed, universe>>

\* whichever fetch returned more
Better(first, again) == IF Cardinality(again) > Cardinality(first) THEN again ELSE first

\* Venues below their mark are asked once more, through the same pooled adapters;
\* what is then still below half of the mark is left out of the cache.
CheckMarks ==
    LET first == run.got
        regressed == {v \in Venue : Regressed(v, first[v])}
    IN  /\ run.pc = "check"
        /\ \E answered \in SUBSET regressed, again \in [regressed -> Answer] :
            LET best == [v \in Venue |-> IF v \in regressed THEN Better(first[v], again[v]) ELSE first[v]]
            IN  /\ regressed \cap DOMAIN held \subseteq answered
                /\ \A v \in regressed \ answered : again[v] = {}
                /\ \A v \in regressed \cap DOMAIN held : again[v] = held[v]
                /\ held' = [v \in DOMAIN held \cup answered |->
                              IF v \in answered THEN again[v] ELSE held[v]]
                /\ universe' = [filled |-> TRUE,
                        records |-> [v \in Venue |-> IF Blocked(v, best[v]) THEN {} ELSE best[v]],
                        retryable |-> run.failed]
                /\ run' = [run EXCEPT !.pc = "write", !.regressed = regressed, !.marked = TRUE,
                        !.asked = [v \in Venue |-> IF v \in regressed \ DOMAIN held
                                                   THEN @[v] + 1 ELSE @[v]]]
        /\ UNCHANGED <<stored, zeroed>>

\* The manifest cannot be read: without marks nothing is compared, nobody is asked
\* again, and the answers go into the cache as they came.
MarksUnread ==
    /\ run.pc = "check"
    /\ universe' = [filled |-> TRUE, records |-> run.got, retryable |-> run.failed]
    /\ run' = [run EXCEPT !.pc = "write", !.marked = FALSE]
    /\ UNCHANGED <<stored, zeroed, held>>

\* (mutant) a hit returns the records without the venues that failed
ReuseForgets ==
    /\ run.pc = "day"
    /\ Active(run.day) # {}
    /\ universe.filled
    /\ universe' = [universe EXCEPT !.retryable = {}]
    /\ run' = [run EXCEPT !.pc = "write"]
    /\ UNCHANGED <<stored, zeroed, held>>

\* (mutant) the universe is dropped and fetched again for every date
ReuseDrops ==
    /\ run.pc = "day"
    /\ Active(run.day) # {}
    /\ universe.filled
    /\ universe' = NotCached
    /\ UNCHANGED <<stored, zeroed, held, run>>

\* Cache hit: the records and the retryable venues of the first fetch.
Reuse ==
    /\ run.pc = "day"
    /\ Active(run.day) # {}
    /\ universe.filled
    /\ run' = [run EXCEPT !.pc = "write"]
    /\ UNCHANGED <<stored, zeroed, held, universe>>

\* Stages 3 to 8 of the date: captures, and a zero row for every live venue that
\* is not retryable and left nothing; a date without any record is passed over.
WriteDay ==
    LET d == run.day
        written == {v \in Venue : InForce(universe.records[v], d) # {}}
    IN  /\ run.pc = "write"
        /\ IF written = {}
           THEN /\ run' = NextDay(run)
                /\ UNCHANGED <<stored, zeroed>>
           ELSE /\ stored' = Capture(d, written, universe.records)
                /\ zeroed' = zeroed \cup
                     Cells(d, (Active(d) \ universe.retryable) \ written)
                /\ run' = [run EXCEPT !.pc = "retry", !.wrote = @ \cup Cells(d, written)]
        /\ UNCHANGED <<held, universe>>

\* _retry_missing_venues: the retryable venues of the cached fetch are asked again
\* for this date; the answers are not checked against any mark.
RetryDay ==
    LET d == run.day
        candidates == Active(d) \cap universe.retryable
    IN  /\ run.pc = "retry"
        /\ \E answer \in [candidates -> Answer] :
            stored' = Capture(d, {v \in candidates : InForce(answer[v], d) # {}}, answer)
        /\ run' = NextDay(run)
        /\ UNCHANGED <<zeroed, held, universe>>

\* A cached answer outlives its hour.
Expire(v) ==
    /\ run.pc \in {"day", "check"}
    /\ v \in DOMAIN held
    /\ held' = [w \in DOMAIN held \ {v} |-> held[w]]
    /\ UNCHANGED <<stored, zeroed, universe, run>>

\* The process dies, or a date fails and the batch with it.
Crash ==
    /\ run.pc \notin {"idle", "done"}
    /\ run' = Idle(run.runs)
    /\ universe' = NotCached
    /\ held' = [v \in {} |-> {}]
    /\ UNCHANGED <<stored, zeroed>>

Next ==
    \/ StartRun
    \/ SkipDay
    \/ FetchUniverse
    \/ CheckMarks
    \/ MarksUnread
    \/ Reuse
    \/ WriteDay
    \/ RetryDay
    \/ \E v \in Venue : Expire(v)
    \/ Crash

Spec == Init /\ [][Next]_vars

-----------------------------------------------------------------------------
IsCells(c) == c \subseteq Day \X Venue

TypeOK ==
    /\ IsCells(DOMAIN stored) /\ stored \in [DOMAIN stored -> Answer]
    /\ IsCells(zeroed)
    /\ DOMAIN held \subseteq Venue /\ held \in [DOMAIN held -> Answer]
    /\ universe \in [filled : BOOLEAN, records : [Venue -> Answer], retryable : SUBSET Venue]
    /\ run \in [pc : {"idle", "day", "check", "write", "retry", "done"}, runs : 0..MaxRuns,
                day : Day, redo : BOOLEAN, got : [Venue -> Answer], wrote : SUBSET (Day \X Venue),
                asked : [Venue -> 0..2], failed : SUBSET Venue, regressed : SUBSET Venue,
                marked : BOOLEAN]

\* The dates of one run tell one story: what stage 6 wrote of a venue on two dates
\* differs by the instruments that became available in between, and by nothing
\* else, whatever the source answered meanwhile (_get_or_fetch_defi_universe).
DaysAgree ==
    \A c1, c2 \in run.wrote :
        c1[2] = c2[2] /\ c1[1] <= c2[1] => stored[c1] = InForce(stored[c2], c1[1])

\* A venue whose fetch failed retryably on the first date is never stamped as an
\* honest zero on any date of the run (_defi_universe_retryable on a cache hit).
RetryableNeverZero ==
    [][\A c \in zeroed' \ zeroed : c[2] \notin run.failed]_vars

\* What a run serves of a venue whose rows carry its own name never falls below
\* half of what the manifest has recorded for it, on the first date and on every
\* later one, if the marks could be read when the universe was fetched
\* (_enforce_defi_monotonicity); a run that could not read them serves what it got.
CollapseNeverServed ==
    universe.filled /\ run.marked =>
        \A v \in Venue : universe.records[v] # {} => MarkAtMost(v, 2 * Cardinality(universe.records[v]))
=============================================================================
