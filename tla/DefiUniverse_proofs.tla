------------------------ MODULE DefiUniverse_proofs ------------------------
(***************************************************************************)
(* Theorems about DefiUniverse, for every set of venues, every launch      *)
(* calendar, every range of dates and every number of runs.                *)
(***************************************************************************)
EXTENDS DefiUniverse, FiniteSetTheorems, TLAPS

RunType ==
    [pc : {"idle", "day", "check", "write", "retry", "done"}, runs : 0..MaxRuns,
     day : Day, redo : BOOLEAN, got : [Venue -> Answer], wrote : SUBSET (Day \X Venue),
     asked : [Venue -> 0..2], failed : SUBSET Venue, regressed : SUBSET Venue,
     marked : BOOLEAN]

UniverseType == [filled : BOOLEAN, records : [Venue -> Answer], retryable : SUBSET Venue]

-----------------------------------------------------------------------------
(* Answers, captures and the initial records.                              *)

LEMMA InForceTyped ==
    ASSUME NEW S \in Answer, NEW d
    PROVE  InForce(S, d) \in Answer /\ InForce(S, d) \subseteq S
BY DEF InForce, Answer

LEMMA AnswersFinite == \A S \in Answer : IsFiniteSet(S) /\ Cardinality(S) \in Nat
<1>1. IsFiniteSet(0..LastDay)
  BY UniverseAssumption, FS_Interval
<1> QED
  BY <1>1, FS_Subset, FS_CardinalityType DEF Answer, Instrument

LEMMA CaptureTyped ==
    ASSUME TypeOK, NEW d \in Day, NEW S \in SUBSET Venue,
           NEW records, \A v \in S : records[v] \in Answer
    PROVE  /\ IsCells(DOMAIN Capture(d, S, records))
           /\ Capture(d, S, records) \in [DOMAIN Capture(d, S, records) -> Answer]
<1>1. \A c \in Cells(d, S) : c \in Day \X Venue /\ c[2] \in S
  BY DEF Cells
<1>2. \A c \in Cells(d, S) : InForce(records[c[2]], d) \in Answer
  BY <1>1, InForceTyped
<1>3. IsCells(DOMAIN stored) /\ stored \in [DOMAIN stored -> Answer]
  BY DEF TypeOK
<1> QED
  BY <1>1, <1>2, <1>3 DEF Capture, IsCells

LEMMA IdleTyped ==
    ASSUME NEW n \in 0..MaxRuns
    PROVE  Idle(n) \in RunType
BY UniverseAssumption DEF Idle, RunType, Day, Answer

LEMMA NotCachedTyped == NotCached \in UniverseType
BY DEF NotCached, UniverseType, Answer

LEMMA NextDayTyped ==
    ASSUME NEW r \in RunType
    PROVE  /\ NextDay(r) \in RunType
           /\ NextDay(r).pc \in {"day", "done"}
           /\ NextDay(r).wrote = r.wrote
           /\ NextDay(r).failed = r.failed
           /\ NextDay(r).marked = r.marked
<1>1. r.day \in Day /\ (r.day < LastDay => r.day + 1 \in Day)
  BY UniverseAssumption DEF RunType, Day
<1>2. CASE r.day < LastDay
  <2>1. NextDay(r) = [r EXCEPT !.pc = "day", !.day = r.day + 1]
    BY <1>2 DEF NextDay
  <2> QED
    BY <1>1, <1>2, <2>1 DEF RunType
<1>3. CASE ~(r.day < LastDay)
  <2>1. NextDay(r) = [r EXCEPT !.pc = "done"]
    BY <1>3 DEF NextDay
  <2> QED
    BY <2>1 DEF RunType
<1> QED
  BY <1>2, <1>3

\* The part of the state every action is stated over.
LEMMA Typed ==
    ASSUME TypeOK
    PROVE  run \in RunType /\ universe \in UniverseType
BY DEF TypeOK, RunType, UniverseType

LEMMA TypedBack ==
    ASSUME run' \in RunType, universe' \in UniverseType,
           IsCells(DOMAIN stored'), stored' \in [DOMAIN stored' -> Answer],
           IsCells(zeroed'), DOMAIN held' \subseteq Venue, held' \in [DOMAIN held' -> Answer]
    PROVE  TypeOK'
BY DEF TypeOK, RunType, UniverseType, IsCells

-----------------------------------------------------------------------------
(* Type correctness.  A source is asked at most once before the marks are  *)
(* checked, so its count of two is never exceeded.                         *)

AskedOnce == run.pc = "check" => \A v \in Venue : run.asked[v] \in 0..1

THEOREM TypeInit == Init => TypeOK /\ AskedOnce
<1> SUFFICES ASSUME Init PROVE TypeOK /\ AskedOnce
  OBVIOUS
<1>1. 0 \in 0..MaxRuns
  BY UniverseAssumption
<1>2. run \in RunType /\ universe \in UniverseType
  BY <1>1, IdleTyped, NotCachedTyped DEF Init
<1>3. run.pc = "idle"
  BY DEF Init, Idle
<1> QED
  BY <1>2, <1>3 DEF Init, TypeOK, RunType, UniverseType, IsCells, AskedOnce

LEMMA TypeStartRun == TypeOK /\ StartRun => TypeOK' /\ AskedOnce'
<1> SUFFICES ASSUME TypeOK, StartRun PROVE TypeOK' /\ AskedOnce'
  OBVIOUS
<1>1. run \in RunType /\ run.runs \in 0..MaxRuns /\ run.runs < MaxRuns
  BY Typed DEF StartRun, RunType
<1>2. run.runs + 1 \in 0..MaxRuns
  BY <1>1, UniverseAssumption
<1>3. PICK redo \in BOOLEAN :
        run' = [Idle(run.runs + 1) EXCEPT !.pc = "day", !.redo = redo]
  BY DEF StartRun
<1>4. Idle(run.runs + 1) \in RunType
  BY <1>2, IdleTyped
<1>5. run' \in RunType /\ run'.pc = "day"
  BY <1>3, <1>4 DEF RunType
<1>6. universe' \in UniverseType
  BY NotCachedTyped DEF StartRun
<1>7. IsCells(DOMAIN stored') /\ stored' \in [DOMAIN stored' -> Answer] /\ IsCells(zeroed')
  BY DEF StartRun, TypeOK, IsCells
<1>8. DOMAIN held' \subseteq Venue /\ held' \in [DOMAIN held' -> Answer]
  BY DEF StartRun
<1> QED
  BY <1>5, <1>6, <1>7, <1>8, TypedBack DEF AskedOnce

\* The step leaves everything but the runner as it was.
LEMMA TypeRunOnly ==
    ASSUME TypeOK, UNCHANGED <<stored, zeroed, held, universe>>, run' \in RunType
    PROVE  TypeOK'
<1>1. universe' \in UniverseType
  BY Typed
<1>2. IsCells(DOMAIN stored') /\ stored' \in [DOMAIN stored' -> Answer] /\ IsCells(zeroed')
  BY DEF TypeOK, IsCells
<1>3. DOMAIN held' \subseteq Venue /\ held' \in [DOMAIN held' -> Answer]
  BY DEF TypeOK
<1> QED
  BY <1>1, <1>2, <1>3, TypedBack

LEMMA TypeSkipDay == TypeOK /\ SkipDay => TypeOK' /\ AskedOnce'
<1> SUFFICES ASSUME TypeOK, SkipDay PROVE TypeOK' /\ AskedOnce'
  OBVIOUS
<1>1. run' \in RunType /\ run'.pc \in {"day", "done"}
  BY Typed, NextDayTyped DEF SkipDay
<1>2. UNCHANGED <<stored, zeroed, held, universe>>
  BY DEF SkipDay
<1> QED
  BY <1>1, <1>2, TypeRunOnly DEF AskedOnce

LEMMA TypeReuse == TypeOK /\ Reuse => TypeOK' /\ AskedOnce'
<1> SUFFICES ASSUME TypeOK, Reuse PROVE TypeOK' /\ AskedOnce'
  OBVIOUS
<1>1. run' \in RunType /\ run'.pc = "write"
  BY Typed DEF Reuse, RunType
<1>2. UNCHANGED <<stored, zeroed, held, universe>>
  BY DEF Reuse
<1> QED
  BY <1>1, <1>2, TypeRunOnly DEF AskedOnce

LEMMA TypeCrash == TypeOK /\ Crash => TypeOK' /\ AskedOnce'
<1> SUFFICES ASSUME TypeOK, Crash PROVE TypeOK' /\ AskedOnce'
  OBVIOUS
<1>1. run.runs \in 0..MaxRuns
  BY Typed DEF RunType
<1>2. run' \in RunType /\ run'.pc = "idle"
  BY <1>1, IdleTyped DEF Crash, Idle
<1>3. universe' \in UniverseType
  BY NotCachedTyped DEF Crash
<1>4. IsCells(DOMAIN stored') /\ stored' \in [DOMAIN stored' -> Answer] /\ IsCells(zeroed')
  BY DEF Crash, TypeOK, IsCells
<1>5. DOMAIN held' \subseteq Venue /\ held' \in [DOMAIN held' -> Answer]
  BY DEF Crash
<1> QED
  BY <1>2, <1>3, <1>4, <1>5, TypedBack DEF AskedOnce

LEMMA TypeExpire == TypeOK /\ AskedOnce /\ (\E v \in Venue : Expire(v)) => TypeOK' /\ AskedOnce'
<1> SUFFICES ASSUME TypeOK, AskedOnce, NEW v \in Venue, Expire(v) PROVE TypeOK' /\ AskedOnce'
  OBVIOUS
<1>1. run' \in RunType /\ universe' \in UniverseType
  BY Typed DEF Expire
<1>2. IsCells(DOMAIN stored') /\ stored' \in [DOMAIN stored' -> Answer] /\ IsCells(zeroed')
  BY DEF Expire, TypeOK, IsCells
<1>3. DOMAIN held' \subseteq Venue /\ held' \in [DOMAIN held' -> Answer]
  BY DEF Expire, TypeOK
<1>4. AskedOnce'
  BY DEF Expire, AskedOnce
<1> QED
  BY <1>1, <1>2, <1>3, <1>4, TypedBack

\* A cache miss with the venues that answered, what they gave, and the retryable ones.
FetchWith(answered, got, retryable) ==
    /\ DOMAIN held \cap Active(run.day) \subseteq answered
    /\ \A v \in Venue \ answered : got[v] = {}
    /\ \A v \in answered \cap DOMAIN held : got[v] = held[v]
    /\ held' = [v \in DOMAIN held \cup answered |-> IF v \in answered THEN got[v] ELSE held[v]]
    /\ run' = [run EXCEPT !.pc = "check", !.got = got, !.failed = retryable,
                 !.asked = [v \in Venue |-> IF v \in Active(run.day) \ DOMAIN held
                                            THEN 1 ELSE 0]]

LEMMA FetchUnfolded ==
    ASSUME FetchUniverse
    PROVE  \E answered \in SUBSET Active(run.day), got \in [Venue -> Answer] :
           \E retryable \in SUBSET (Active(run.day) \ answered) : FetchWith(answered, got, retryable)
BY Zenon DEF FetchUniverse, FetchWith

LEMMA TypeFetchUniverse == TypeOK /\ FetchUniverse => TypeOK' /\ AskedOnce'
<1> SUFFICES ASSUME TypeOK, FetchUniverse PROVE TypeOK' /\ AskedOnce'
  OBVIOUS
<1> DEFINE counts == [v \in Venue |-> IF v \in Active(run.day) \ DOMAIN held THEN 1 ELSE 0]
<1>1. PICK answered \in SUBSET Active(run.day), got \in [Venue -> Answer] :
        \E retryable \in SUBSET (Active(run.day) \ answered) : FetchWith(answered, got, retryable)
  BY FetchUnfolded
<1>2. PICK retryable \in SUBSET (Active(run.day) \ answered) :
        /\ held' = [v \in DOMAIN held \cup answered |-> IF v \in answered THEN got[v] ELSE held[v]]
        /\ run' = [run EXCEPT !.pc = "check", !.got = got, !.failed = retryable, !.asked = counts]
  BY <1>1 DEF FetchWith
<1>3. Active(run.day) \subseteq Venue
  BY DEF Active
<1>4. \A v \in Venue : counts[v] \in 0..1
  OBVIOUS
<1>5. counts \in [Venue -> 0..2]
  OBVIOUS
<1>6. run' \in RunType /\ run'.pc = "check" /\ run'.asked = counts
  <2> HIDE DEF counts
  <2>1. run \in RunType
    BY Typed
  <2> QED
    BY <1>2, <1>3, <1>5, <2>1 DEF RunType
<1>7. universe' \in UniverseType
  BY Typed DEF FetchUniverse
<1>8. IsCells(DOMAIN stored') /\ stored' \in [DOMAIN stored' -> Answer] /\ IsCells(zeroed')
  BY DEF FetchUniverse, TypeOK, IsCells
<1>9. DOMAIN held' \subseteq Venue /\ held' \in [DOMAIN held' -> Answer]
  BY <1>2, <1>3 DEF TypeOK
<1> QED
  BY <1>4, <1>6, <1>7, <1>8, <1>9, TypedBack DEF AskedOnce

BelowMark == {v \in Venue : Regressed(v, run.got[v])}

\* What the guard keeps of each venue once the regressed ones were asked again.
BestOf(regressed, again) ==
    [v \in Venue |-> IF v \in regressed THEN Better(run.got[v], again[v]) ELSE run.got[v]]

Kept(best) == [v \in Venue |-> IF Blocked(v, best[v]) THEN {} ELSE best[v]]

CheckWith(regressed, answered, again) ==
    /\ held' = [v \in DOMAIN held \cup answered |-> IF v \in answered THEN again[v] ELSE held[v]]
    /\ universe' = [filled |-> TRUE, records |-> Kept(BestOf(regressed, again)),
                    retryable |-> run.failed]
    /\ run' = [run EXCEPT !.pc = "write", !.regressed = regressed, !.marked = TRUE,
                 !.asked = [v \in Venue |-> IF v \in regressed \ DOMAIN held
                                            THEN @[v] + 1 ELSE @[v]]]

LEMMA CheckUnfolded ==
    ASSUME CheckMarks
    PROVE  \E answered \in SUBSET BelowMark, again \in [BelowMark -> Answer] :
              CheckWith(BelowMark, answered, again)
BY Zenon DEF CheckMarks, CheckWith, BelowMark, BestOf, Kept

LEMMA TypeCheckMarks == TypeOK /\ AskedOnce /\ CheckMarks => TypeOK' /\ AskedOnce'
<1> SUFFICES ASSUME TypeOK, AskedOnce, CheckMarks PROVE TypeOK' /\ AskedOnce'
  OBVIOUS
<1> DEFINE counts == [v \in Venue |-> IF v \in BelowMark \ DOMAIN held
                                      THEN run.asked[v] + 1 ELSE run.asked[v]]
<1>1. PICK answered \in SUBSET BelowMark, again \in [BelowMark -> Answer] :
        CheckWith(BelowMark, answered, again)
  BY CheckUnfolded
<1>2. /\ held' = [v \in DOMAIN held \cup answered |-> IF v \in answered THEN again[v] ELSE held[v]]
      /\ universe' = [filled |-> TRUE, records |-> Kept(BestOf(BelowMark, again)),
                      retryable |-> run.failed]
      /\ run' = [run EXCEPT !.pc = "write", !.regressed = BelowMark, !.marked = TRUE,
                   !.asked = counts]
      /\ BelowMark \in SUBSET Venue
  BY <1>1 DEF CheckWith, BelowMark
<1>3. run \in RunType
  BY Typed
<1>4. counts \in [Venue -> 0..2]
  <2>1. \A v \in Venue : run.asked[v] \in 0..1
    BY DEF AskedOnce, CheckMarks
  <2> QED
    BY <2>1
<1>5. run' \in RunType /\ run'.pc = "write"
  <2> HIDE DEF counts
  <2> QED
    BY <1>2, <1>3, <1>4 DEF RunType
<1>6. BestOf(BelowMark, again) \in [Venue -> Answer]
  <2>1. run.got \in [Venue -> Answer]
    BY <1>3 DEF RunType
  <2> QED
    BY <2>1 DEF BestOf, Better
<1>7. Kept(BestOf(BelowMark, again)) \in [Venue -> Answer]
  BY <1>6 DEF Kept, Answer
<1>8. universe' \in UniverseType
  <2>1. run.failed \in SUBSET Venue
    BY <1>3 DEF RunType
  <2> QED
    BY <1>2, <1>7, <2>1 DEF UniverseType
<1>9. IsCells(DOMAIN stored') /\ stored' \in [DOMAIN stored' -> Answer] /\ IsCells(zeroed')
  BY DEF CheckMarks, TypeOK, IsCells
<1>10. DOMAIN held' \subseteq Venue /\ held' \in [DOMAIN held' -> Answer]
  BY <1>2 DEF TypeOK
<1> QED
  BY <1>5, <1>8, <1>9, <1>10, TypedBack DEF AskedOnce

LEMMA TypeMarksUnread == TypeOK /\ MarksUnread => TypeOK' /\ AskedOnce'
<1> SUFFICES ASSUME TypeOK, MarksUnread PROVE TypeOK' /\ AskedOnce'
  OBVIOUS
<1>1. run \in RunType
  BY Typed
<1>2. run' \in RunType /\ run'.pc = "write"
  BY <1>1 DEF MarksUnread, RunType
<1>3. universe' \in UniverseType
  BY <1>1 DEF MarksUnread, RunType, UniverseType
<1>4. IsCells(DOMAIN stored') /\ stored' \in [DOMAIN stored' -> Answer] /\ IsCells(zeroed')
  BY DEF MarksUnread, TypeOK, IsCells
<1>5. DOMAIN held' \subseteq Venue /\ held' \in [DOMAIN held' -> Answer]
  BY DEF MarksUnread, TypeOK
<1> QED
  BY <1>2, <1>3, <1>4, <1>5, TypedBack DEF AskedOnce

LEMMA TypeWriteDay == TypeOK /\ WriteDay => TypeOK' /\ AskedOnce'
<1> SUFFICES ASSUME TypeOK, WriteDay PROVE TypeOK' /\ AskedOnce'
  OBVIOUS
<1> DEFINE d == run.day
           written == {v \in Venue : InForce(universe.records[v], d) # {}}
           zeros == Cells(d, (Active(d) \ universe.retryable) \ written)
<1>1. run \in RunType /\ universe \in UniverseType /\ d \in Day
  BY Typed DEF RunType
<1>2. CASE written = {}
  <2>1. run' \in RunType /\ run'.pc \in {"day", "done"}
    BY <1>1, <1>2, NextDayTyped DEF WriteDay
  <2>2. UNCHANGED <<stored, zeroed, held, universe>>
    BY <1>2 DEF WriteDay
  <2> QED
    BY <2>1, <2>2, TypeRunOnly DEF AskedOnce
<1>3. CASE written # {}
  <2>1. /\ stored' = Capture(d, written, universe.records)
        /\ zeroed' = zeroed \cup zeros
        /\ run' = [run EXCEPT !.pc = "retry", !.wrote = @ \cup Cells(d, written)]
        /\ UNCHANGED <<held, universe>>
    BY <1>3 DEF WriteDay
  <2>2. written \in SUBSET Venue /\ \A v \in written : universe.records[v] \in Answer
    BY <1>1 DEF UniverseType
  <2>3. IsCells(DOMAIN stored') /\ stored' \in [DOMAIN stored' -> Answer]
    <3> HIDE DEF written
    <3> QED
      BY <1>1, <2>1, <2>2, CaptureTyped
  <2>4. IsCells(zeroed')
    <3>1. zeros \subseteq Day \X Venue
      BY <1>1 DEF Cells, Active
    <3> HIDE DEF zeros
    <3> QED
      BY <2>1, <3>1 DEF IsCells, TypeOK
  <2>5. run' \in RunType /\ run'.pc = "retry"
    <3>1. Cells(d, written) \subseteq Day \X Venue
      BY <1>1 DEF Cells
    <3> HIDE DEF written
    <3> QED
      BY <1>1, <2>1, <3>1 DEF RunType
  <2>6. DOMAIN held' \subseteq Venue /\ held' \in [DOMAIN held' -> Answer] /\ universe' \in UniverseType
    BY <1>1, <2>1 DEF TypeOK
  <2> QED
    BY <2>3, <2>4, <2>5, <2>6, TypedBack DEF AskedOnce
<1> QED
  BY <1>2, <1>3

LEMMA TypeRetryDay == TypeOK /\ RetryDay => TypeOK' /\ AskedOnce'
<1> SUFFICES ASSUME TypeOK, RetryDay PROVE TypeOK' /\ AskedOnce'
  OBVIOUS
<1> DEFINE d == run.day
           candidates == Active(d) \cap universe.retryable
<1>1. run \in RunType /\ d \in Day
  BY Typed DEF RunType
<1>2. PICK answer \in [candidates -> Answer] :
        stored' = Capture(d, {v \in candidates : InForce(answer[v], d) # {}}, answer)
  BY DEF RetryDay
<1>3. IsCells(DOMAIN stored') /\ stored' \in [DOMAIN stored' -> Answer]
  <2>1. {v \in candidates : InForce(answer[v], d) # {}} \in SUBSET Venue
    BY DEF Active
  <2>2. \A v \in {w \in candidates : InForce(answer[w], d) # {}} : answer[v] \in Answer
    OBVIOUS
  <2> QED
    BY <1>1, <1>2, <2>1, <2>2, CaptureTyped
<1>4. run' \in RunType /\ run'.pc \in {"day", "done"}
  BY <1>1, NextDayTyped DEF RetryDay
<1>5. universe' \in UniverseType /\ IsCells(zeroed')
  BY Typed DEF RetryDay, TypeOK, IsCells
<1>6. DOMAIN held' \subseteq Venue /\ held' \in [DOMAIN held' -> Answer]
  BY DEF RetryDay, TypeOK
<1> QED
  BY <1>3, <1>4, <1>5, <1>6, TypedBack DEF AskedOnce

LEMMA TypeStep == TypeOK /\ AskedOnce /\ [Next]_vars => TypeOK' /\ AskedOnce'
<1>1. TypeOK /\ AskedOnce /\ UNCHANGED vars => TypeOK' /\ AskedOnce'
  BY DEF vars, TypeOK, AskedOnce, IsCells
<1> QED
  BY <1>1, TypeStartRun, TypeSkipDay, TypeFetchUniverse, TypeCheckMarks, TypeMarksUnread, TypeReuse,
     TypeWriteDay, TypeRetryDay, TypeExpire, TypeCrash DEF Next

\* Type correctness: every row, cached answer and runner is of its type in every
\* reachable state, whatever the adapters answer.
THEOREM UniverseTypeSafe == Spec => []TypeOK
<1>1. Spec => [](TypeOK /\ AskedOnce)
  BY TypeInit, TypeStep, PTL DEF Spec
<1> QED
  BY <1>1, PTL

-----------------------------------------------------------------------------
(* What one run says of a venue.  The universe is filled once per run, the *)
(* venues that failed have no records in it, and every cell stage 6 wrote  *)
(* is the universe filtered for its day.  That the retry of a date cannot  *)
(* disturb such a cell needs the second conjunct: the venues it may write  *)
(* are exactly those of which stage 6 had nothing to write.                *)

FilledOnce ==
    /\ run.pc \in {"write", "retry"} => universe.filled
    /\ ~universe.filled => run.wrote = {}

FailedIsEmpty ==
    /\ run.pc = "check" => ~universe.filled /\ \A v \in run.failed : run.got[v] = {}
    /\ universe.filled => /\ universe.retryable = run.failed
                          /\ \A v \in run.failed : universe.records[v] = {}

WroteFromUniverse ==
    \A c \in run.wrote : /\ c \in DOMAIN stored
                         /\ stored[c] = InForce(universe.records[c[2]], c[1])
                         /\ stored[c] # {}

CacheInv == FilledOnce /\ FailedIsEmpty /\ WroteFromUniverse

LEMMA CacheInit == Init => CacheInv
<1> SUFFICES ASSUME Init PROVE CacheInv
  OBVIOUS
<1>1. run.pc = "idle" /\ run.wrote = {} /\ ~universe.filled
  BY DEF Init, Idle, NotCached
<1> QED
  BY <1>1 DEF CacheInv, FilledOnce, FailedIsEmpty, WroteFromUniverse

\* A new process, or a dead one: nothing is cached and nothing was written.
LEMMA CacheReset ==
    ASSUME universe' = NotCached, run'.wrote = {}, run'.pc \in {"idle", "day"}
    PROVE  CacheInv'
<1>1. ~universe'.filled
  BY DEF NotCached
<1> QED
  BY <1>1 DEF CacheInv, FilledOnce, FailedIsEmpty, WroteFromUniverse

LEMMA CacheStartRun == TypeOK /\ StartRun => CacheInv'
<1> SUFFICES ASSUME TypeOK, StartRun PROVE CacheInv'
  OBVIOUS
<1>1. PICK redo \in BOOLEAN :
        run' = [Idle(run.runs + 1) EXCEPT !.pc = "day", !.redo = redo]
  BY DEF StartRun
<1>2. run'.wrote = {} /\ run'.pc = "day"
  BY <1>1 DEF Idle
<1> QED
  BY <1>2, CacheReset DEF StartRun

LEMMA CacheCrash == Crash => CacheInv'
<1> SUFFICES ASSUME Crash PROVE CacheInv'
  OBVIOUS
<1>1. run'.wrote = {} /\ run'.pc = "idle"
  BY DEF Crash, Idle
<1> QED
  BY <1>1, CacheReset DEF Crash

LEMMA CacheSkipDay == TypeOK /\ CacheInv /\ SkipDay => CacheInv'
<1> SUFFICES ASSUME TypeOK, CacheInv, SkipDay PROVE CacheInv'
  OBVIOUS
<1>1. run'.pc \in {"day", "done"} /\ run'.wrote = run.wrote /\ run'.failed = run.failed
  BY Typed, NextDayTyped DEF SkipDay
<1>2. universe' = universe /\ stored' = stored
  BY DEF SkipDay
<1> QED
  BY <1>1, <1>2 DEF CacheInv, FilledOnce, FailedIsEmpty, WroteFromUniverse

LEMMA CacheReuse == TypeOK /\ CacheInv /\ Reuse => CacheInv'
<1> SUFFICES ASSUME TypeOK, CacheInv, Reuse PROVE CacheInv'
  OBVIOUS
<1>1. run'.pc = "write" /\ run'.wrote = run.wrote /\ run'.failed = run.failed
  BY Typed DEF Reuse, RunType
<1>2. universe' = universe /\ stored' = stored /\ universe.filled
  BY DEF Reuse
<1> QED
  BY <1>1, <1>2 DEF CacheInv, FilledOnce, FailedIsEmpty, WroteFromUniverse

LEMMA CacheExpire == CacheInv /\ (\E v \in Venue : Expire(v)) => CacheInv'
BY DEF Expire, CacheInv, FilledOnce, FailedIsEmpty, WroteFromUniverse

LEMMA CacheFetchUniverse == TypeOK /\ CacheInv /\ FetchUniverse => CacheInv'
<1> SUFFICES ASSUME TypeOK, CacheInv, FetchUniverse PROVE CacheInv'
  OBVIOUS
<1>1. PICK answered \in SUBSET Active(run.day), got \in [Venue -> Answer] :
        \E retryable \in SUBSET (Active(run.day) \ answered) : FetchWith(answered, got, retryable)
  BY FetchUnfolded
<1>2. PICK retryable \in SUBSET (Active(run.day) \ answered) : FetchWith(answered, got, retryable)
  BY <1>1
<1>3. /\ run'.pc = "check" /\ run'.wrote = run.wrote
      /\ run'.failed = retryable /\ run'.got = got
  BY <1>2, Typed DEF FetchWith, RunType
<1>4. \A v \in retryable : got[v] = {}
  BY <1>2 DEF FetchWith, Active
<1>5. universe' = universe /\ stored' = stored /\ ~universe.filled
  BY DEF FetchUniverse
<1> QED
  BY <1>3, <1>4, <1>5 DEF CacheInv, FilledOnce, FailedIsEmpty, WroteFromUniverse

LEMMA CacheCheckMarks == TypeOK /\ CacheInv /\ CheckMarks => CacheInv'
<1> SUFFICES ASSUME TypeOK, CacheInv, CheckMarks PROVE CacheInv'
  OBVIOUS
<1>1. PICK answered \in SUBSET BelowMark, again \in [BelowMark -> Answer] :
        CheckWith(BelowMark, answered, again)
  BY CheckUnfolded
<1>2. run'.pc = "write" /\ run'.wrote = run.wrote /\ run'.failed = run.failed
  BY <1>1, Typed DEF CheckWith, RunType
<1>3. /\ universe'.filled
      /\ universe'.retryable = run.failed
      /\ universe'.records = Kept(BestOf(BelowMark, again))
  BY <1>1 DEF CheckWith
<1>4. run.wrote = {}
  BY DEF CacheInv, FailedIsEmpty, FilledOnce, CheckMarks
<1>5. \A v \in run.failed : Kept(BestOf(BelowMark, again))[v] = {}
  <2> SUFFICES ASSUME NEW v \in run.failed PROVE Kept(BestOf(BelowMark, again))[v] = {}
    OBVIOUS
  <2>1. v \in Venue /\ run.got[v] = {}
    BY Typed DEF CacheInv, FailedIsEmpty, CheckMarks, RunType
  <2>2. v \notin BelowMark
    BY <2>1 DEF BelowMark, Regressed
  <2>3. BestOf(BelowMark, again)[v] = {}
    BY <2>1, <2>2 DEF BestOf
  <2> QED
    BY <2>1, <2>3 DEF Kept
<1> QED
  BY <1>2, <1>3, <1>4, <1>5 DEF CacheInv, FilledOnce, FailedIsEmpty, WroteFromUniverse

LEMMA CacheMarksUnread == TypeOK /\ CacheInv /\ MarksUnread => CacheInv'
<1> SUFFICES ASSUME TypeOK, CacheInv, MarksUnread PROVE CacheInv'
  OBVIOUS
<1>1. run'.pc = "write" /\ run'.wrote = run.wrote /\ run'.failed = run.failed
  BY Typed DEF MarksUnread, RunType
<1>2. /\ universe'.filled
      /\ universe'.retryable = run.failed
      /\ universe'.records = run.got
  BY DEF MarksUnread
<1>3. run.wrote = {} /\ \A v \in run.failed : run.got[v] = {}
  BY DEF CacheInv, FailedIsEmpty, FilledOnce, MarksUnread
<1> QED
  BY <1>1, <1>2, <1>3 DEF CacheInv, FilledOnce, FailedIsEmpty, WroteFromUniverse

LEMMA CacheWriteDay == TypeOK /\ CacheInv /\ WriteDay => CacheInv'
<1> SUFFICES ASSUME TypeOK, CacheInv, WriteDay PROVE CacheInv'
  OBVIOUS
<1> DEFINE d == run.day
           written == {v \in Venue : InForce(universe.records[v], d) # {}}
<1>1. run \in RunType
  BY Typed
<1>2. CASE written = {}
  <2>1. run'.pc \in {"day", "done"} /\ run'.wrote = run.wrote /\ run'.failed = run.failed
    BY <1>1, <1>2, NextDayTyped DEF WriteDay
  <2>2. universe' = universe /\ stored' = stored
    BY <1>2 DEF WriteDay
  <2> QED
    BY <2>1, <2>2 DEF CacheInv, FilledOnce, FailedIsEmpty, WroteFromUniverse
<1>3. CASE written # {}
  <2>1. /\ stored' = Capture(d, written, universe.records)
        /\ run' = [run EXCEPT !.pc = "retry", !.wrote = @ \cup Cells(d, written)]
        /\ universe' = universe
    BY <1>3 DEF WriteDay
  <2>2. /\ run'.pc = "retry" /\ run'.failed = run.failed
        /\ run'.wrote = run.wrote \cup Cells(d, written)
    <3> HIDE DEF written
    <3> QED
      BY <1>1, <2>1 DEF RunType
  <2>3. WroteFromUniverse'
    <3> SUFFICES ASSUME NEW c \in run'.wrote
                 PROVE  /\ c \in DOMAIN stored'
                        /\ stored'[c] = InForce(universe.records[c[2]], c[1])
                        /\ stored'[c] # {}
      BY <2>1 DEF WroteFromUniverse
    <3>1. CASE c \in Cells(d, written)
      <4>1. c[1] = d /\ c[2] \in written
        BY <3>1 DEF Cells
      <4> QED
        BY <2>1, <3>1, <4>1 DEF Capture
    <3>2. CASE c \notin Cells(d, written)
      <4> HIDE DEF written
      <4> QED
        BY <2>1, <2>2, <3>2 DEF Capture, CacheInv, WroteFromUniverse
    <3> QED
      BY <3>1, <3>2
  <2>4. universe.filled
    BY DEF WriteDay, CacheInv, FilledOnce
  <2> QED
    BY <2>1, <2>2, <2>3, <2>4 DEF CacheInv, FilledOnce, FailedIsEmpty
<1> QED
  BY <1>2, <1>3

LEMMA CacheRetryDay == TypeOK /\ CacheInv /\ RetryDay => CacheInv'
<1> SUFFICES ASSUME TypeOK, CacheInv, RetryDay PROVE CacheInv'
  OBVIOUS
<1> DEFINE d == run.day
           candidates == Active(d) \cap universe.retryable
<1>1. PICK answer \in [candidates -> Answer] :
        stored' = Capture(d, {v \in candidates : InForce(answer[v], d) # {}}, answer)
  BY DEF RetryDay
<1> DEFINE recovered == {v \in candidates : InForce(answer[v], d) # {}}
<1>2. /\ run'.pc \in {"day", "done"} /\ run'.wrote = run.wrote /\ run'.failed = run.failed
      /\ universe' = universe /\ universe.filled
  BY Typed, NextDayTyped DEF RetryDay, CacheInv, FilledOnce
<1>3. WroteFromUniverse'
  <2> SUFFICES ASSUME NEW c \in run.wrote
               PROVE  /\ c \in DOMAIN stored'
                      /\ stored'[c] = InForce(universe.records[c[2]], c[1])
                      /\ stored'[c] # {}
    BY <1>2 DEF WroteFromUniverse
  <2>1. /\ c \in DOMAIN stored
        /\ stored[c] = InForce(universe.records[c[2]], c[1])
        /\ stored[c] # {}
    BY DEF CacheInv, WroteFromUniverse
  <2>2. c \notin Cells(d, recovered)
    <3> SUFFICES ASSUME c \in Cells(d, recovered) PROVE FALSE
      OBVIOUS
    <3>1. c[2] \in universe.retryable
      BY DEF Cells
    <3>2. universe.records[c[2]] = {}
      BY <1>2, <3>1 DEF CacheInv, FailedIsEmpty
    <3> QED
      BY <2>1, <3>2 DEF InForce
  <2> HIDE DEF recovered
  <2>3. stored' = Capture(d, recovered, answer)
    BY <1>1 DEF recovered
  <2> QED
    BY <2>1, <2>2, <2>3 DEF Capture
<1> QED
  BY <1>2, <1>3 DEF CacheInv, FilledOnce, FailedIsEmpty

LEMMA CacheStep == TypeOK /\ CacheInv /\ [Next]_vars => CacheInv'
<1>1. CacheInv /\ UNCHANGED vars => CacheInv'
  BY DEF vars, CacheInv, FilledOnce, FailedIsEmpty, WroteFromUniverse
<1> QED
  BY <1>1, CacheStartRun, CacheSkipDay, CacheFetchUniverse, CacheCheckMarks, CacheMarksUnread, CacheReuse,
     CacheWriteDay, CacheRetryDay, CacheExpire, CacheCrash DEF Next

LEMMA CacheSafe == Spec => []CacheInv
BY CacheInit, CacheStep, UniverseTypeSafe, PTL DEF Spec

\* The dates of one run tell one story: over any range of dates, what stage 6 wrote
\* of a venue on two dates differs only by what became available in between.
THEOREM DaysAgreeSafe == Spec => []DaysAgree
<1>1. TypeOK /\ CacheInv => DaysAgree
  <2> SUFFICES ASSUME TypeOK, CacheInv, NEW c1 \in run.wrote, NEW c2 \in run.wrote,
                      c1[2] = c2[2], c1[1] <= c2[1]
               PROVE  stored[c1] = InForce(stored[c2], c1[1])
    BY DEF DaysAgree
  <2>1. c1 \in Day \X Venue /\ c2 \in Day \X Venue
    BY Typed DEF RunType
  <2>2. /\ stored[c1] = InForce(universe.records[c1[2]], c1[1])
        /\ stored[c2] = InForce(universe.records[c1[2]], c2[1])
    BY DEF CacheInv, WroteFromUniverse
  <2>3. universe.records[c1[2]] \in Answer
    BY <2>1, Typed DEF UniverseType
  <2>4. c1[1] \in Nat /\ c2[1] \in Nat /\ universe.records[c1[2]] \subseteq Nat
    BY <2>1, <2>3, UniverseAssumption DEF Day, Answer, Instrument
  <2> QED
    BY <2>2, <2>4 DEF InForce
<1> QED
  BY <1>1, CacheSafe, UniverseTypeSafe, PTL

\* A venue whose fetch failed retryably is never stamped as an honest zero on any
\* date of the run, also not from the cached universe.
THEOREM RetryableNeverZeroSafe == Spec => RetryableNeverZero
<1>1. CacheInv /\ [Next]_vars => [\A c \in zeroed' \ zeroed : c[2] \notin run.failed]_vars
  <2> SUFFICES ASSUME CacheInv, Next PROVE \A c \in zeroed' \ zeroed : c[2] \notin run.failed
    OBVIOUS
  <2>1. CASE WriteDay
    <3>1. universe.retryable = run.failed
      BY <2>1 DEF WriteDay, CacheInv, FilledOnce, FailedIsEmpty
    <3>2. \A c \in zeroed' \ zeroed : c[2] \notin universe.retryable
      BY <2>1 DEF WriteDay, Cells
    <3> QED
      BY <3>1, <3>2
  <2>2. CASE ~WriteDay
    <3>1. zeroed' = zeroed
      BY <2>2 DEF Next, StartRun, SkipDay, FetchUniverse, CheckMarks, MarksUnread, Reuse, RetryDay,
             Expire, Crash
    <3> QED
      BY <3>1
  <2> QED
    BY <2>1, <2>2
<1> QED
  BY <1>1, CacheSafe, PTL DEF Spec, RetryableNeverZero

-----------------------------------------------------------------------------
(* The collapse guard.  What the guard let through stays above half of the *)
(* marks only because nothing a later date of the run writes can raise a   *)
(* mark it was compared with: a date writes a part of the universe, and a  *)
(* retry writes venues of which the universe holds nothing.                *)

\* Capturing answers of at most n instruments keeps a mark of at most n.
LEMMA MarkKept ==
    ASSUME TypeOK, NEW v \in Venue, NEW n \in Nat, MarkAtMost(v, n),
           NEW d \in Day, NEW S \in SUBSET Venue, NEW records,
           stored' = Capture(d, S, records),
           v \in S => records[v] \in Answer /\ Cardinality(records[v]) <= n
    PROVE  MarkAtMost(v, n)'
<1> SUFFICES ASSUME NEW c \in DOMAIN stored', ManifestName[c[2]] = v
             PROVE  Cardinality(stored'[c]) <= n
  BY DEF MarkAtMost
<1>1. CASE c \in Cells(d, S)
  <2>1. c[1] = d /\ c[2] \in S
    BY <1>1 DEF Cells
  <2>2. c[2] = v
    BY <2>1, UniverseAssumption
  <2>3. stored'[c] = InForce(records[v], d) /\ records[v] \in Answer
    BY <1>1, <2>1, <2>2 DEF Capture
  <2>4. IsFiniteSet(records[v]) /\ InForce(records[v], d) \subseteq records[v]
    BY <2>3, AnswersFinite DEF InForce
  <2>5. Cardinality(InForce(records[v], d)) <= Cardinality(records[v])
    BY <2>4, FS_Subset
  <2>6. Cardinality(InForce(records[v], d)) \in Nat /\ Cardinality(records[v]) \in Nat
    BY <2>3, InForceTyped, AnswersFinite
  <2> QED
    BY <2>1, <2>2, <2>3, <2>5, <2>6
<1>2. CASE c \notin Cells(d, S)
  BY <1>2 DEF Capture, MarkAtMost
<1> QED
  BY <1>1, <1>2

LEMMA CollapseCheckMarks == TypeOK /\ CheckMarks => CollapseNeverServed'
<1> SUFFICES ASSUME TypeOK, CheckMarks, NEW v \in Venue, universe'.records[v] # {}
             PROVE  MarkAtMost(v, 2 * Cardinality(universe.records[v]))'
  BY DEF CollapseNeverServed
<1>1. PICK answered \in SUBSET BelowMark, again \in [BelowMark -> Answer] :
        CheckWith(BelowMark, answered, again)
  BY CheckUnfolded
<1> DEFINE best == BestOf(BelowMark, again)
<1>2. universe'.records[v] = Kept(best)[v]
  BY <1>1 DEF CheckWith
<1>3. universe'.records[v] = best[v] /\ ~Blocked(v, best[v]) /\ best[v] # {}
  <2> HIDE DEF best
  <2> QED
    BY <1>2 DEF Kept
<1>4. MarkAtMost(v, 2 * Cardinality(best[v]))
  BY <1>3 DEF Blocked
<1>5. stored' = stored
  BY DEF CheckMarks
<1> HIDE DEF best
<1> QED
  BY <1>3, <1>4, <1>5 DEF MarkAtMost

\* A date's own steps do not change whether the marks were read.
LEMMA MarkedKept ==
    ASSUME TypeOK, SkipDay \/ Reuse \/ WriteDay \/ RetryDay \/ \E v \in Venue : Expire(v)
    PROVE  run'.marked = run.marked
<1>1. run \in RunType
  BY Typed
<1>2. SkipDay \/ RetryDay => run'.marked = run.marked
  BY <1>1, NextDayTyped DEF SkipDay, RetryDay
<1>3. Reuse \/ (\E v \in Venue : Expire(v)) => run'.marked = run.marked
  BY <1>1 DEF Reuse, Expire, RunType
<1>4. WriteDay => run'.marked = run.marked
  <2> SUFFICES ASSUME WriteDay PROVE run'.marked = run.marked
    OBVIOUS
  <2>1. \/ run' = NextDay(run)
        \/ \E w : run' = [run EXCEPT !.pc = "retry", !.wrote = w]
    BY DEF WriteDay
  <2> QED
    BY <1>1, <2>1, NextDayTyped DEF RunType
<1> QED
  BY <1>2, <1>3, <1>4

LEMMA CollapseWriteDay == TypeOK /\ CacheInv /\ CollapseNeverServed /\ WriteDay => CollapseNeverServed'
<1> SUFFICES ASSUME TypeOK, CacheInv, CollapseNeverServed, WriteDay, run.marked,
                    NEW v \in Venue, universe.records[v] # {}
             PROVE  MarkAtMost(v, 2 * Cardinality(universe.records[v]))'
  BY MarkedKept DEF CollapseNeverServed, WriteDay
<1> DEFINE written == {w \in Venue : InForce(universe.records[w], run.day) # {}}
           n == 2 * Cardinality(universe.records[v])
<1>1. run.day \in Day /\ universe.records[v] \in Answer
  BY Typed DEF RunType, UniverseType
<1>2. Cardinality(universe.records[v]) \in Nat
  BY <1>1, AnswersFinite
<1>3. n \in Nat /\ Cardinality(universe.records[v]) <= n
  BY <1>2
<1>4. MarkAtMost(v, n) /\ universe' = universe
  BY DEF CollapseNeverServed, WriteDay, CacheInv, FilledOnce
<1>5. stored' = stored \/ stored' = Capture(run.day, written, universe.records)
  BY DEF WriteDay
<1>6. written \in SUBSET Venue
  OBVIOUS
<1> HIDE DEF n, written
<1>7. MarkAtMost(v, n)'
  <2>1. CASE stored' = stored
    BY <1>4, <2>1 DEF MarkAtMost, n
  <2>2. CASE stored' = Capture(run.day, written, universe.records)
    BY <1>1, <1>3, <1>4, <1>6, <2>2, MarkKept DEF n
  <2> QED
    BY <1>5, <2>1, <2>2
<1> QED
  BY <1>4, <1>7 DEF n, MarkAtMost

LEMMA CollapseRetryDay == TypeOK /\ CacheInv /\ CollapseNeverServed /\ RetryDay => CollapseNeverServed'
<1> SUFFICES ASSUME TypeOK, CacheInv, CollapseNeverServed, RetryDay, run.marked,
                    NEW v \in Venue, universe.records[v] # {}
             PROVE  MarkAtMost(v, 2 * Cardinality(universe.records[v]))'
  BY MarkedKept DEF CollapseNeverServed, RetryDay
<1> DEFINE candidates == Active(run.day) \cap universe.retryable
           n == 2 * Cardinality(universe.records[v])
<1>1. PICK answer \in [candidates -> Answer] :
        stored' = Capture(run.day, {w \in candidates : InForce(answer[w], run.day) # {}}, answer)
  BY DEF RetryDay
<1> DEFINE recovered == {w \in candidates : InForce(answer[w], run.day) # {}}
<1>2. run.day \in Day /\ universe.records[v] \in Answer
  BY Typed DEF RunType, UniverseType
<1>3. n \in Nat
  BY <1>2, AnswersFinite
<1>4. MarkAtMost(v, n) /\ universe' = universe /\ universe.filled
  BY DEF CollapseNeverServed, RetryDay, CacheInv, FilledOnce
<1>5. v \notin recovered
  BY <1>4 DEF CacheInv, FailedIsEmpty
<1>6. recovered \in SUBSET Venue
  BY DEF Active
<1>7. stored' = Capture(run.day, recovered, answer)
  BY <1>1
<1> HIDE DEF n, recovered, candidates
<1>8. MarkAtMost(v, n)'
  BY <1>2, <1>3, <1>4, <1>5, <1>6, <1>7, MarkKept DEF n
<1> QED
  BY <1>4, <1>8 DEF n, MarkAtMost

LEMMA CollapseStep ==
    TypeOK /\ CacheInv /\ CollapseNeverServed /\ [Next]_vars => CollapseNeverServed'
<1>1. CollapseNeverServed /\ UNCHANGED <<universe, stored>> /\ run'.marked = run.marked
        => CollapseNeverServed'
  BY DEF CollapseNeverServed, MarkAtMost
<1>2. CollapseNeverServed /\ UNCHANGED vars => CollapseNeverServed'
  BY <1>1 DEF vars
<1>3. TypeOK /\ CollapseNeverServed /\ (SkipDay \/ Reuse \/ \E v \in Venue : Expire(v))
        => CollapseNeverServed'
  <2>1. SkipDay \/ Reuse \/ (\E v \in Venue : Expire(v)) => UNCHANGED <<universe, stored>>
    BY DEF SkipDay, Reuse, Expire
  <2> QED
    BY <1>1, <2>1, MarkedKept
<1>4. FetchUniverse => CollapseNeverServed'
  BY DEF FetchUniverse, CollapseNeverServed
<1>5. TypeOK /\ MarksUnread => CollapseNeverServed'
  <2> SUFFICES ASSUME TypeOK, MarksUnread PROVE ~run'.marked
    BY DEF CollapseNeverServed
  <2> QED
    BY Typed DEF MarksUnread, RunType
<1>6. StartRun \/ Crash => CollapseNeverServed'
  <2> SUFFICES ASSUME universe' = NotCached PROVE CollapseNeverServed'
    BY DEF StartRun, Crash
  <2>1. ~universe'.filled
    BY DEF NotCached
  <2> QED
    BY <2>1 DEF CollapseNeverServed
<1> QED
  BY <1>2, <1>3, <1>4, <1>5, <1>6, CollapseCheckMarks, CollapseWriteDay, CollapseRetryDay DEF Next

\* What a run whose marks could be read serves of a venue whose rows carry its own
\* name never falls below half of what the manifest has recorded of it, on any date of
\* any range, whatever the run itself wrote and retried meanwhile.
THEOREM CollapseSafe == Spec => []CollapseNeverServed
<1>1. Init => CollapseNeverServed
  BY DEF Init, NotCached, CollapseNeverServed
<1> QED
  BY <1>1, CollapseStep, CacheSafe, UniverseTypeSafe, PTL DEF Spec
=============================================================================
