----------------------------- MODULE Catalogue -----------------------------
(***************************************************************************)
(* The lifecycle catalogue of one asset group whose instruments keep their *)
(* ids (cefi, tradfi): jobs of scripts/build_instrument_catalogue.py roll  *)
(* the per-date snapshots by_date/day=D/venue=V/instruments.parquet up     *)
(* into catalog.parquet, one row per instrument ever seen.  A daily        *)
(* "incremental" job reads a trailing window and merges it onto the        *)
(* previous catalogue, a weekly "full" job reads everything; the           *)
(* orchestrator goes on writing snapshots, also of past dates, and         *)
(* migrations delete some, while a job walks over them.                    *)
(*                                                                         *)
(* Left out: the carve-out that never delists DeFi instruments, the        *)
(* builders of sports and prediction, respelled ids and the passes that    *)
(* fold them, tags, and --allow-catalogue-shrink.                          *)
(***************************************************************************)
EXTENDS Integers, FiniteSets, FiniteSetsExt

CONSTANTS
    Instrument, Venue,
    VenueOf,        \* [Instrument -> Venue]
    Answers,        \* the snapshots a capture can bring, each of one venue
    Listed,         \* [Instrument -> Int], the listing date its rows declare
    Ends,           \* [Instrument -> Int or Active], the end its rows declare
    Active,         \* no available_to
    Job,
    WindowMin,      \* WINDOW_DAYS_MIN
    Margin,         \* WINDOW_MARGIN_DAYS
    RecentWindow,   \* _VENUE_RECENT_WINDOW
    MaxRunDays,     \* the days a job may run for
    MaxDay, MaxJobs, MaxEdits   \* bounds: days, jobs, snapshots rewritten or deleted

ASSUME CatalogueAssumption ==
    /\ VenueOf \in [Instrument -> Venue]
    /\ \A S \in Answers : S \subseteq Instrument /\ S # {} /\ \A i, k \in S : VenueOf[i] = VenueOf[k]
    /\ Listed \in [Instrument -> Int] /\ Ends \in [Instrument -> Int \cup {Active}] /\ Active \notin Int
    /\ {WindowMin, Margin, RecentWindow, MaxRunDays, MaxDay, MaxJobs, MaxEdits} \subseteq Nat
    /\ MaxRunDays <= Margin /\ RecentWindow >= 1 /\ MaxDay >= 1
    /\ IsFiniteSet(Instrument)

VARIABLES
    today,
    rows,       \* the rows <<day, instrument>> of all snapshots
    late,       \* the cells <<day, venue>> written after their day
    edits,      \* the snapshots rewritten or deleted so far
    cat,        \* catalog.parquet, its mtime (0: there is none), and history: drift
    staged,     \* the object under _catalogue_staging, if any
    job,        \* the state of each job
    started     \* the jobs begun so far

vars == <<today, rows, late, edits, cat, staged, job, started>>

Day == 1..MaxDay
CellOf(r) == <<r[1], VenueOf[r[2]]>>
Snapshot(c) == {r \in rows : CellOf(r) = c}

-----------------------------------------------------------------------------
(* Rolling up rows                                                         *)

DaysOf(seen, v) == {r[1] : r \in {s \in seen : VenueOf[s[2]] = v}}
Count(seen, v, d) == Cardinality({i \in Instrument : VenueOf[i] = v /\ <<d, i>> \in seen})

\* The k-th smallest value of a function, and twice its median.
Ranked(f, k) ==
    CHOOSE c \in {f[d] : d \in DOMAIN f} :
        /\ Cardinality({d \in DOMAIN f : f[d] < c}) < k
        /\ k <= Cardinality({d \in DOMAIN f : f[d] <= c})
TwiceMedian(f) ==
    LET n == Cardinality(DOMAIN f)
        mid == n \div 2
    IN  IF n % 2 = 1 THEN 2 * Ranked(f, mid + 1) ELSE Ranked(f, mid) + Ranked(f, mid + 1)

\* (mutant) the latest day, however thin
LatestDay(seen, v) == Max(DaysOf(seen, v))

\* _venue_last_full_day: the last day with at least half the venue's recent median.
VenueLastFullDay(seen, v) ==
    LET days == DaysOf(seen, v)
        recent == {d \in days : Cardinality({e \in days : e > d}) < RecentWindow}
        median2 == TwiceMedian([d \in recent |-> Count(seen, v, d)])
        full == {d \in days : 4 * Count(seen, v, d) >= median2}
    IN  Max(IF full = {} THEN days ELSE full)

\* build_catalogue_dataframe: the declared end if there is one, no end if present on the
\* venue's last full day, else the last day seen.
Build(seen) ==
    [i \in {r[2] : r \in seen} |->
        LET days == {r[1] : r \in {s \in seen : s[2] = i}}
        IN  [from |-> Min(days \cup {Listed[i]}),
             to |-> CASE Ends[i] # Active -> Ends[i]
                      [] Ends[i] = Active /\ Max(days) >= VenueLastFullDay(seen, VenueOf[i]) -> Active
                      [] OTHER -> Max(days)]]

Venues(f) == {VenueOf[i] : i \in DOMAIN f}

\* (mutants) whatever is absent from the window is closed; the window's first day counts;
\* the rows absent from the window go; an end stays as it was
MergeAnyVenue(prev, window, since, close) ==
    [i \in DOMAIN prev \cup DOMAIN window |->
        IF i \notin DOMAIN prev THEN window[i]
        ELSE IF i \in DOMAIN window THEN [window[i] EXCEPT !.from = Min({@, prev[i].from})]
        ELSE IF close /\ prev[i].to = Active THEN [prev[i] EXCEPT !.to = since - 1]
        ELSE prev[i]]
MergeFromWindow(prev, window, since, close) ==
    [i \in DOMAIN prev \cup DOMAIN window |-> IF i \in DOMAIN window THEN window[i] ELSE prev[i]]
MergeNoTail(prev, window, since, close) ==
    [i \in DOMAIN window |->
        IF i \in DOMAIN prev THEN [window[i] EXCEPT !.from = Min({@, prev[i].from})] ELSE window[i]]
MergeKeepsEnd(prev, window, since, close) ==
    [i \in DOMAIN prev \cup DOMAIN window |->
        IF i \in DOMAIN prev /\ i \in DOMAIN window
        THEN [prev[i] EXCEPT !.from = Min({@, window[i].from})]
        ELSE IF i \in DOMAIN prev THEN prev[i] ELSE window[i]]

\* _merge_incremental: available_from never moves forward; a row absent from the window is
\* closed before it if its venue was captured in the window, and kept otherwise.
MergeIncremental(prev, window, since, close) ==
    [i \in DOMAIN prev \cup DOMAIN window |->
        IF i \notin DOMAIN prev THEN window[i]
        ELSE IF i \in DOMAIN window THEN [window[i] EXCEPT !.from = Min({@, prev[i].from})]
        ELSE IF close /\ prev[i].to = Active /\ VenueOf[i] \in Venues(window)
             THEN [prev[i] EXCEPT !.to = since - 1]
        ELSE prev[i]]

\* (mutant) the window reaches back to the previous catalogue and no further
WindowNoMargin(mtime) == today - Max({WindowMin} \cup {today - at : at \in mtime})

\* compute_window_start.  mtime has the previous catalogue's, or is empty: "An unknown mtime
\* (metadata unavailable) degrades to the minimum window".
WindowStart(mtime) == today - Max({WindowMin} \cup {(today - at) + Margin : at \in mtime})

\* evaluate_monotonic_guard with the drop diagnostics of promote_catalogue.
Accepted(df) ==
    \/ cat.at = 0
    \/ Cardinality(DOMAIN df) >= Cardinality(DOMAIN cat.rows)
    \/ \A i \in DOMAIN cat.rows \ DOMAIN df : cat.rows[i].to # Active

-----------------------------------------------------------------------------
(* The snapshots                                                           *)

Empty == [i \in {} |-> 0]
Idle == [pc |-> "idle", mode |-> "full", prev |-> Empty, since |-> 1, todo |-> {}, seen |-> {},
         df |-> Empty, calm |-> TRUE, day |-> 1, short |-> FALSE]

Init == /\ today = 1
        /\ rows = {} /\ late = {} /\ edits = 0
        /\ cat = [rows |-> Empty, at |-> 0, drift |-> FALSE]
        /\ staged = {}
        /\ job = [j \in Job |-> Idle]
        /\ started = 0

\* The snapshots change under the jobs that run.
Disturb == job' = [j \in Job |-> IF job[j].pc = "idle" THEN job[j] ELSE [job[j] EXCEPT !.calm = FALSE]]

\* (mutant) the day after
PutNextDay(d, S) ==
    LET c == <<d, VenueOf[CHOOSE i \in S : TRUE]>>
    IN  rows' = (rows \ Snapshot(c)) \cup ({d + 1} \X S)

Put(d, S) ==
    LET c == <<d, VenueOf[CHOOSE i \in S : TRUE]>>
    IN  rows' = (rows \ Snapshot(c)) \cup ({d} \X S)

\* Today's snapshot of a venue is written, or written again (_write_venue).
Capture(S) ==
    /\ Put(today, S) /\ rows' # rows
    /\ Disturb
    /\ UNCHANGED <<today, late, edits, cat, staged, started>>

\* A backfill writes the snapshot of a past day.
Backfill(d, S) ==
    /\ d < today /\ edits < MaxEdits
    /\ Put(d, S) /\ rows' # rows
    /\ late' = late \cup {CellOf(<<d, i>>) : i \in S}
    /\ edits' = edits + 1
    /\ Disturb
    /\ UNCHANGED <<today, cat, staged, started>>

\* A migration deletes a snapshot.
Prune(c) ==
    /\ edits < MaxEdits
    /\ Snapshot(c) # {}
    /\ rows' = rows \ Snapshot(c)
    /\ late' = late \ {c}
    /\ edits' = edits + 1
    /\ Disturb
    /\ UNCHANGED <<today, cat, staged, started>>

NextDay ==
    /\ today < MaxDay
    /\ \A j \in Job : job[j].pc # "idle" => today + 1 - job[j].day <= MaxRunDays
    /\ today' = today + 1
    /\ UNCHANGED <<rows, late, edits, cat, staged, job, started>>

-----------------------------------------------------------------------------
(* run_rollup and promote_catalogue                                        *)

World == <<today, rows, late, edits>>

\* The job loads the previous catalogue (without one it does a full walk) and what it can
\* of its mtime, and lists the snapshots it will read.  short is history: the window begins
\* later than the mtime would have had it.
Begin(j, m, mtime) ==
    /\ job[j].pc = "idle" /\ started < MaxJobs
    /\ LET mode == IF cat.at = 0 THEN "full" ELSE m
           since == IF mode = "incremental" THEN WindowStart(mtime) ELSE 1
       IN  job' = [job EXCEPT ![j] =
                [Idle EXCEPT !.pc = "walk", !.mode = mode, !.since = since, !.day = today,
                             !.prev = IF mode = "incremental" THEN cat.rows ELSE Empty,
                             !.todo = {c \in {CellOf(r) : r \in rows} : c[1] >= since},
                             !.short = mode = "incremental" /\ since > WindowStart({cat.at})]]
    /\ started' = started + 1
    /\ UNCHANGED <<World, cat, staged>>

\* One snapshot is downloaded, in any order; one deleted since the listing is skipped.
Load(j) ==
    /\ job[j].pc = "walk"
    /\ \E c \in job[j].todo :
        job' = [job EXCEPT ![j].todo = @ \ {c}, ![j].seen = @ \cup Snapshot(c)]
    /\ UNCHANGED <<World, cat, staged, started>>

\* The roll-up is merged onto the previous catalogue: an incremental job's own copy, a
\* full job reads the catalogue only now.
MergeOn(j) ==
    LET w == Build(job[j].seen)
    IN  IF job[j].mode = "incremental" THEN MergeIncremental(job[j].prev, w, job[j].since, TRUE)
        ELSE IF cat.at # 0 THEN MergeIncremental(cat.rows, w, 1, FALSE) ELSE w

RollUp(j) ==
    /\ job[j].pc = "walk" /\ job[j].todo = {}
    /\ job' = [job EXCEPT ![j].pc = "decide", ![j].df = MergeOn(j), ![j].prev = Empty]
    /\ UNCHANGED <<World, cat, staged, started>>

\* The guard compares with the catalogue of this moment; a rejected job keeps it.
Decide(j) ==
    /\ job[j].pc = "decide"
    /\ job' = [job EXCEPT ![j] = IF Accepted(job[j].df) THEN [@ EXCEPT !.pc = "stage"] ELSE Idle]
    /\ UNCHANGED <<World, cat, staged, started>>

\* upload_bytes to the temp object, which all jobs share.
Stage(j) ==
    /\ job[j].pc = "stage"
    /\ staged' = {job[j].df}
    /\ job' = [job EXCEPT ![j].pc = "copy"]
    /\ UNCHANGED <<World, cat, started>>

\* "residual drift": days a short window left out, since the last full job.
Drifts(r) == r.mode = "incremental" /\ (r.short \/ cat.drift)

\* copy_blob of whatever the temp object holds.
Copy(j) ==
    /\ job[j].pc = "copy"
    /\ \E df \in staged : cat' = [rows |-> df, at |-> today, drift |-> Drifts(job[j])]
    /\ job' = [job EXCEPT ![j].pc = "clean"]
    /\ UNCHANGED <<World, staged, started>>

\* delete_blob
Clean(j) ==
    /\ job[j].pc = "clean" /\ staged # {}
    /\ staged' = {}
    /\ job' = [job EXCEPT ![j] = Idle]
    /\ UNCHANGED <<World, cat, started>>

\* The job is killed, or a call raises (a missing temp object included).
Die(j) ==
    /\ job[j].pc # "idle"
    /\ job' = [job EXCEPT ![j] = Idle]
    /\ UNCHANGED <<World, cat, staged, started>>

Step(j) == \/ \E m \in {"incremental", "full"}, mtime \in {{cat.at}, {}} : Begin(j, m, mtime)
           \/ Load(j) \/ RollUp(j) \/ Decide(j) \/ Stage(j) \/ Copy(j) \/ Clean(j) \/ Die(j)

Next ==
    \/ \E S \in Answers : Capture(S)
    \/ \E d \in Day, S \in Answers : Backfill(d, S)
    \/ \E c \in Day \X Venue : Prune(c)
    \/ NextDay
    \/ \E j \in Job : Step(j)

Spec == Init /\ [][Next]_vars

-----------------------------------------------------------------------------
(* Properties                                                              *)

Row == [from : Int, to : Int \cup {Active}]
IsCatalogue(f) == DOMAIN f \subseteq Instrument /\ f \in [DOMAIN f -> Row]

\* The state is well typed.
TypeOK ==
    /\ today \in Day /\ rows \subseteq Day \X Instrument /\ late \subseteq Day \X Venue
    /\ edits \in 0..MaxEdits /\ started \in 0..MaxJobs
    /\ IsCatalogue(cat.rows) /\ cat.at \in Nat /\ cat.drift \in BOOLEAN
    /\ \A df \in staged : IsCatalogue(df)
    /\ \A j \in Job :
        /\ job[j].pc \in {"idle", "walk", "decide", "stage", "copy", "clean"}
        /\ job[j].mode \in {"incremental", "full"} /\ job[j].since \in Int /\ job[j].day \in Day
        /\ IsCatalogue(job[j].prev) /\ IsCatalogue(job[j].df)
        /\ job[j].todo \subseteq Day \X Venue /\ job[j].seen \subseteq Day \X Instrument
        /\ job[j].calm \in BOOLEAN /\ job[j].short \in BOOLEAN

\* "a *cumulative, all-instruments-ever* lifecycle catalogue": no instrument leaves it,
\* whatever becomes of the snapshots it was seen in.
NeverLost == [][DOMAIN cat.rows \subseteq DOMAIN cat'.rows]_vars

\* available_from is immutable once set, or moves to an earlier day.
FromNeverLater ==
    [][\A i \in DOMAIN cat.rows \cap DOMAIN cat'.rows : cat'.rows[i].from <= cat.rows[i].from]_vars

\* A promotion by a job under which no snapshot changed.
CalmCopy(j) == Copy(j) /\ job[j].calm

\* The window reaches back far enough: whatever was written on its day is in the catalogue
\* after the next undisturbed promotion, however long there was none, and although
\* snapshots were written behind earlier jobs' backs.  Where an incremental job did not know
\* the mtime and its window came out too short, only the next full job restores this.
OnTimeSeen ==
    [][\A j \in Job : CalmCopy(j) /\ ~ Drifts(job[j]) =>
        \A r \in rows : CellOf(r) \notin late => r[2] \in DOMAIN cat'.rows]_vars

\* A full job is authoritative: where there are snapshots it leaves the end that follows
\* from all of them, whatever incremental jobs made of their windows.
FullAuthoritative ==
    [][\A j \in Job : CalmCopy(j) /\ job[j].mode = "full" =>
        \A i \in DOMAIN Build(rows) : cat'.rows[i].to = Build(rows)[i].to]_vars

\* A latest snapshot with less than half the rows of each of at least two before it closes
\* nobody who was there the day before, unless the venue declares an end.
ThinLast(v) ==
    LET days == DaysOf(rows, v)
        others == days \ {Max(days)}
    IN  /\ Cardinality(others) >= 2
        /\ \A d \in others : Count(rows, v, d) > 2 * Count(rows, v, Max(days))
ThinDayClosesNobody ==
    [][\A j \in Job : CalmCopy(j) /\ job[j].mode = "full" =>
        \A i \in DOMAIN Build(rows) :
            LET v == VenueOf[i]
                others == DaysOf(rows, v) \ {Max(DaysOf(rows, v))}
            IN  ThinLast(v) /\ Ends[i] = Active /\ <<Max(others), i>> \in rows => cat'.rows[i].to = Active]_vars

\* A venue that was not captured in the window is down, not delisted: its rows stay.
OutageNotDelisting ==
    [][\A j \in Job : Copy(j) /\ job[j].mode = "incremental" =>
        \A i \in DOMAIN cat.rows : DaysOf(job[j].seen, VenueOf[i]) = {} => cat'.rows[i] = cat.rows[i]]_vars

-----------------------------------------------------------------------------
(* What the comments of the code say besides; these do not hold.           *)

\* "recovery after an outage stays EXACT": an incremental job closes no instrument that
\* all snapshots together show alive.
CatchUpExact ==
    [][\A j \in Job : CalmCopy(j) /\ job[j].mode = "incremental" =>
        \A i \in DOMAIN cat.rows \cap DOMAIN Build(rows) :
            cat.rows[i].to = Active /\ cat'.rows[i].to # Active => Build(rows)[i].to # Active]_vars
=============================================================================
