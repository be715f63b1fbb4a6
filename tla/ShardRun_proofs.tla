--------------------------- MODULE ShardRun_proofs ---------------------------
(***************************************************************************)
(* Theorems about ShardRun, for every universe of venues, every number of  *)
(* runners, every calendar and every set of dispatches.                    *)
(***************************************************************************)
EXTENDS ShardRun, TLAPS

-----------------------------------------------------------------------------
(* The index operators of Manifest.                                        *)

LEMMA MergeTyped ==
    ASSUME NEW a, NEW b, IsIndex(a), IsIndex(b)
    PROVE  IsIndex(Merge(a, b))
BY DEF IsIndex, Merge

LEMMA StampTyped ==
    ASSUME NEW S \in SUBSET Key, NEW s \in Status
    PROVE  IsIndex(Stamp(S, s))
BY DEF IsIndex, Stamp

LEMMA OnlyTyped ==
    ASSUME NEW a, IsIndex(a), NEW S \in SUBSET DOMAIN a
    PROVE  IsIndex(Only(a, S))
BY DEF IsIndex, Only

LEMMA NoRowsTyped == IsIndex(NoRows)
BY DEF IsIndex, NoRows

LEMMA KeysTyped ==
    ASSUME NEW b \in Bucket, NEW v \in Venue
    PROVE  VenueKey(b, v) \in Key /\ TypeKey(b, v) \in Key /\ SeedKey(b, v) \in Key
BY DEF VenueKey, TypeKey, SeedKey, Key, Grain

-----------------------------------------------------------------------------
(* Dispatches, and the local record of a runner.                           *)

LEMMA DispatchTyped ==
    ASSUME NEW d \in Dispatch
    PROVE  /\ d[1] \in Bucket
           /\ PrimaryBucket(d) \in Bucket
           /\ \A v \in Venue : VenueBucket(d, v) \in Bucket
<1>1. d \in Seq(VenueGrainGroup) /\ d # <<>>
  BY ConfigAssumption
<1>2. d[1] \in VenueGrainGroup
  BY <1>1
<1>3. \A v \in Venue : AssetGroup[v] \in VenueGrainGroup
  BY AssetGroupAssumption
<1> QED
  BY <1>2, <1>3 DEF PrimaryBucket, VenueBucket, Bucket

LEMMA BlankTyped == IsRun(Blank)
<1>1. (CHOOSE d \in Dispatch : TRUE) \in Dispatch
  BY ConfigAssumption
<1>2. 0 \in 0..MaxRetries
  BY ConfigAssumption
<1> QED
  BY <1>1, <1>2, NoRowsTyped DEF Blank, IsRun, Stage, Ended, VenuesFor

\* What a runner does changes its own record only.
LEMMA LocalStep ==
    ASSUME TypeOK, NEW p \in Proc, NEW r, Local(p, r)
    PROVE  /\ DOMAIN run' = Proc
           /\ run'[p] = r
           /\ \A q \in Proc \ {p} : run'[q] = run[q]
BY DEF TypeOK, Local

LEMMA TypedStep ==
    ASSUME TypeOK, NEW p \in Proc, NEW r, Local(p, r), IsRun(r),
           IsIndex(index'), objects' \subseteq Bucket \X Venue
    PROVE  TypeOK'
<1>1. \A q \in Proc : IsRun(run'[q])
  BY LocalStep DEF TypeOK
<1> QED
  BY <1>1, LocalStep DEF TypeOK

LEMMA VenueKeysTyped ==
    ASSUME NEW d \in Dispatch, NEW S \in SUBSET Venue, NEW s \in Status
    PROVE  /\ IsIndex(Stamp({VenueKey(VenueBucket(d, v), v) : v \in S}, s))
           /\ IsIndex(Stamp({VenueKey(PrimaryBucket(d), v) : v \in S}, s))
           /\ IsIndex(Stamp({VenueKey(d[1], v) : v \in S}, s))
<1>1. /\ {VenueKey(VenueBucket(d, v), v) : v \in S} \in SUBSET Key
      /\ {VenueKey(PrimaryBucket(d), v) : v \in S} \in SUBSET Key
      /\ {VenueKey(d[1], v) : v \in S} \in SUBSET Key
  BY DispatchTyped, KeysTyped
<1> QED
  BY <1>1, StampTyped

LEMMA SeedRowsTyped ==
    ASSUME NEW d \in Dispatch, NEW counts
    PROVE  IsIndex(SeedRows(index, d, counts))
<1> DEFINE open == {v \in TargetUniverse(d) : SeedLookup(index, AssetGroup[v], v) = {}}
           Seeds(S) == {SeedKey(AssetGroup[v], v) : v \in S}
<1>1. open \subseteq Venue
  BY DEF TargetUniverse, VenuesFor
<1>2. \A S \in SUBSET Venue : Seeds(S) \in SUBSET Key
  BY AssetGroupAssumption, KeysTyped DEF Bucket
<1>3. IsIndex(Stamp(Seeds(open \ Launched), "expected_empty"))
  BY <1>1, <1>2, StampTyped DEF Status
<1>4. IsIndex(Stamp(Seeds((open \cap Launched) \ counts), "unattempted"))
  BY <1>1, <1>2, StampTyped DEF Status
<1>5. IsIndex(Merge(Stamp(Seeds(open \ Launched), "expected_empty"),
                    Stamp(Seeds((open \cap Launched) \ counts), "unattempted")))
  BY <1>3, <1>4, MergeTyped
<1> QED
  BY <1>5 DEF SeedRows

LEMMA MissingRowsTyped ==
    ASSUME NEW r, IsRun(r)
    PROVE  IsIndex(MissingRows(r))
<1> DEFINE missing == MissingShards(r)
<1>1. missing \in SUBSET Venue /\ ClosedTradfi(missing) \in SUBSET Venue
  BY DEF IsRun, MissingShards, ExpectedVenues, ClosedTradfi, VenuesFor
<1>2. r.dispatch \in Dispatch
  BY DEF IsRun
<1>3. IsIndex(Stamp({VenueKey(VenueBucket(r.dispatch, v), v) : v \in missing}, "failed"))
  BY <1>1, <1>2, VenueKeysTyped DEF Status
<1>4. IsIndex(Stamp({VenueKey(VenueBucket(r.dispatch, v), v) : v \in ClosedTradfi(missing)},
                    "expected_empty"))
  BY <1>1, <1>2, VenueKeysTyped DEF Status
<1> QED
  BY <1>3, <1>4, MergeTyped DEF MissingRows

-----------------------------------------------------------------------------
(* Type correctness.                                                       *)

LEMMA InitTyped == Init => TypeOK
BY BlankTyped, NoRowsTyped DEF Init, TypeOK

LEMMA StartTyped ==
    ASSUME TypeOK, NEW p \in Proc, Start(p)
    PROVE  TypeOK'
<1>1. PICK d \in Dispatch : \E active \in SUBSET VenuesFor(d) :
          Skip(p, d, active) \/ Begin(p, d, active)
  BY DEF Start
<1>0. PICK active \in SUBSET VenuesFor(d) : Skip(p, d, active) \/ Begin(p, d, active)
  BY <1>1
<1>2. CASE Skip(p, d, active)
  BY <1>2, BlankTyped, TypedStep DEF Skip, TypeOK
<1>3. CASE Begin(p, d, active)
  <2> DEFINE r == [Blank EXCEPT !.pc = "fetch", !.dispatch = d, !.active = active]
  <2>1. IsRun(r)
    BY BlankTyped DEF IsRun, Blank, Stage
  <2> QED
    BY <1>3, <2>1, TypedStep DEF Begin, TypeOK
<1> QED
  BY <1>0, <1>2, <1>3

LEMMA FetchTyped ==
    ASSUME TypeOK, NEW p \in Proc, Fetch(p)
    PROVE  TypeOK'
<1>1. PICK out \in [run[p].active -> Outcome] :
        Local(p, [run[p] EXCEPT !.pc = "fetched", !.outcome = out,
                     !.retryable = {v \in run[p].active : out[v] = "retryable"}])
  BY DEF Fetch
<1>2. IsRun([run[p] EXCEPT !.pc = "fetched", !.outcome = out,
                 !.retryable = {v \in run[p].active : out[v] = "retryable"}])
  BY DEF TypeOK, IsRun, Blank, Stage
<1> QED
  BY <1>1, <1>2, TypedStep DEF Fetch, TypeOK

LEMMA ZeroRecordsTyped ==
    ASSUME TypeOK, NEW p \in Proc, ZeroRecords(p)
    PROVE  TypeOK'
<1>1. IsRun(run[p])
  BY DEF TypeOK
<1>2. \A S \in SUBSET run[p].active, next \in Stage \ {"idle", "fetch"} :
        StampAbsent(p, S, next) => TypeOK'
  <2> SUFFICES ASSUME NEW S \in SUBSET run[p].active, NEW next \in Stage \ {"idle", "fetch"},
                      StampAbsent(p, S, next)
               PROVE  TypeOK'
    OBVIOUS
  <2> DEFINE rows == Stamp({VenueKey(run[p].dispatch[1], v) : v \in S}, "expected_empty")
             r == [run[p] EXCEPT !.pc = next, !.buffer = rows]
  <2>1. IsIndex(rows)
    BY <1>1, VenueKeysTyped DEF IsRun, VenuesFor, Status
  <2>2. IsRun(r)
    <3> HIDE DEF rows
    <3> QED BY <1>1, <2>1 DEF IsRun, Blank, ZeroRecords, Stage, Ended, Flushing
  <2> QED
    BY <2>2, TypedStep DEF StampAbsent, ZeroRecords, TypeOK
<1>3. Local(p, [run[p] EXCEPT !.pc = "zero_ok"]) => TypeOK'
  <2>1. IsRun([run[p] EXCEPT !.pc = "zero_ok"])
    BY <1>1 DEF IsRun, Blank, ZeroRecords, Stage, Ended
  <2> QED
    BY <2>1, TypedStep DEF ZeroRecords, TypeOK
<1> DEFINE covered == run[p].active \ NoAdapter
           tradfi == {v \in covered : AssetGroup[v] = "tradfi"}
           closed == ClosedTradfi(tradfi)
<1>4. closed \in SUBSET run[p].active
  BY DEF ClosedTradfi
<1>5. {"flush_zero", "flush_raise"} \subseteq Stage \ {"idle", "fetch"}
  BY DEF Stage, Flushing
<1> QED
  BY <1>2, <1>3, <1>4, <1>5 DEF ZeroRecords

LEMMA PreStampTyped ==
    ASSUME TypeOK, NEW p \in Proc, PreStamp(p)
    PROVE  TypeOK'
<1> DEFINE r == run[p]
           valid == WithOutcome(r, {"data"})
           closed == ClosedTradfi(NonErrorVenues(r) \cup valid)
           rows == Stamp({VenueKey(VenueBucket(r.dispatch, v), v) : v \in closed},
                         "expected_empty")
           new == [r EXCEPT !.pc = "write", !.counts = closed, !.todo = valid \ closed,
                     !.buffer = rows]
<1>1. IsRun(r)
  BY DEF TypeOK
<1>2. closed \in SUBSET r.active /\ valid \in SUBSET r.active
  BY DEF ClosedTradfi, NonErrorVenues, WithOutcome
<1>3. IsIndex(rows)
  BY <1>1, <1>2, VenueKeysTyped DEF IsRun, VenuesFor, Status
<1>4. IsRun(new)
  <2>1. r.pc = "fetched"
    BY DEF PreStamp
  <2> HIDE DEF rows, closed, valid
  <2> QED BY <1>1, <1>2, <1>3, <2>1 DEF IsRun, Blank, Stage
<1> QED
  BY <1>4, TypedStep DEF PreStamp, TypeOK

LEMMA WriteVenueTyped ==
    ASSUME TypeOK, NEW p \in Proc, NEW v \in Venue, WriteVenue(p, v)
    PROVE  TypeOK'
<1> DEFINE r == run[p]
           b == WriteBucket(r, v)
           rows == Merge(r.buffer, Stamp({TypeKey(b, v)}, "captured"))
           new == [r EXCEPT !.todo = @ \ {v}, !.counts = @ \cup {v}, !.buffer = rows]
<1>1. IsRun(r)
  BY DEF TypeOK
<1>2. b \in Bucket
  BY <1>1, DispatchTyped DEF IsRun, WriteBucket
<1>3. IsIndex(rows)
  <2>1. {TypeKey(b, v)} \in SUBSET Key
    BY <1>2, KeysTyped
  <2> QED
    BY <1>1, <2>1, StampTyped, MergeTyped DEF IsRun, Status
<1>4. IsRun(new)
  <2> HIDE DEF rows
  <2> QED BY <1>1, <1>3 DEF IsRun, Blank, WriteVenue
<1>5. objects' \subseteq Bucket \X Venue
  BY <1>2 DEF WriteVenue, TypeOK
<1> QED
  BY <1>4, <1>5, TypedStep DEF WriteVenue, TypeOK

LEMMA WriteFailsTyped ==
    ASSUME TypeOK, NEW p \in Proc, NEW v \in Venue, WriteFails(p, v)
    PROVE  TypeOK'
<1> DEFINE r == run[p]
           b == WriteBucket(r, v)
           rows == Merge(r.buffer, Stamp({TypeKey(b, v)}, "captured"))
           part == [r EXCEPT !.todo = @ \ {v}, !.buffer = rows]
<1>1. IsRun(r)
  BY DEF TypeOK
<1>2. b \in Bucket
  BY <1>1, DispatchTyped DEF IsRun, WriteBucket
<1>3. IsIndex(rows)
  <2>1. {TypeKey(b, v)} \in SUBSET Key
    BY <1>2, KeysTyped
  <2> QED
    BY <1>1, <2>1, StampTyped, MergeTyped DEF IsRun, Status
<1>4. IsRun([r EXCEPT !.todo = @ \ {v}])
  BY <1>1 DEF IsRun, Blank
<1>5. IsRun(part)
  <2> HIDE DEF rows
  <2> QED BY <1>1, <1>3 DEF IsRun, Blank
<1>6. objects' \subseteq Bucket \X Venue
  BY <1>2 DEF WriteFails, TypeOK
<1> QED
  BY <1>4, <1>5, <1>6, TypedStep DEF WriteFails, TypeOK

LEMMA SeedTyped ==
    ASSUME TypeOK, NEW p \in Proc, Seed(p)
    PROVE  TypeOK'
<1> DEFINE r == run[p]
           rows == Merge(r.buffer, SeedRows(index, r.dispatch, r.counts))
<1>1. IsRun(r)
  BY DEF TypeOK
<1>2. IsIndex(rows)
  BY <1>1, SeedRowsTyped, MergeTyped DEF IsRun
<1>3. IsRun([r EXCEPT !.pc = "flush", !.buffer = rows])
  <2> HIDE DEF rows
  <2> QED BY <1>1, <1>2 DEF IsRun, Blank, Seed, Stage, Flushing
<1> QED
  BY <1>3, TypedStep DEF Seed, TypeOK

LEMMA FlushTyped ==
    ASSUME TypeOK, NEW p \in Proc, NEW b \in Bucket, Flush(p, b)
    PROVE  TypeOK'
<1> DEFINE r == run[p]
           mine == InBucket(r.buffer, b)
           rest == Only(r.buffer, DOMAIN r.buffer \ mine)
<1>1. IsRun(r) /\ IsIndex(index)
  BY DEF TypeOK
<1>2. IsIndex(Only(r.buffer, mine)) /\ IsIndex(rest)
  BY <1>1, OnlyTyped DEF IsRun, InBucket
<1>3. IsIndex(index')
  BY <1>1, <1>2, MergeTyped DEF Flush
<1>4. IsRun([r EXCEPT !.buffer = rest])
  <2> HIDE DEF rest
  <2> QED BY <1>1, <1>2 DEF IsRun, Blank
<1> QED
  BY <1>3, <1>4, TypedStep DEF Flush, TypeOK

LEMMA FlushDoneTyped ==
    ASSUME TypeOK, NEW p \in Proc, FlushDone(p)
    PROVE  TypeOK'
<1>1. IsRun(run[p])
  BY DEF TypeOK
<1>2. CASE run[p].pc = "flush_raise"
  BY <1>2, BlankTyped, TypedStep DEF FlushDone, TypeOK
<1>3. CASE run[p].pc # "flush_raise"
  <2>1. AfterFlush[run[p].pc] \in Stage \ {"idle", "fetch"}
    BY <1>3 DEF FlushDone, Flushing, AfterFlush, Stage, Ended
  <2>2. IsRun([run[p] EXCEPT !.pc = AfterFlush[@]])
    BY <1>1, <2>1 DEF IsRun, Blank, FlushDone, Flushing
  <2> QED
    BY <1>3, <2>2, TypedStep DEF FlushDone, TypeOK
<1> QED
  BY <1>2, <1>3

LEMMA StampEmptyOkTyped ==
    ASSUME TypeOK, NEW p \in Proc, StampEmptyOk(p)
    PROVE  TypeOK'
<1> DEFINE r == run[p]
           rows == Stamp({VenueKey(VenueBucket(r.dispatch, v), v) : v \in EmptyOkVenues(r)},
                         "zero")
<1>1. IsRun(r)
  BY DEF TypeOK
<1>2. EmptyOkVenues(r) \in SUBSET Venue
  BY <1>1 DEF IsRun, VenuesFor, EmptyOkVenues, NonErrorVenues
<1>3. IsIndex(rows)
  BY <1>1, <1>2, VenueKeysTyped DEF IsRun, Status
<1>4. IsRun([r EXCEPT !.pc = "flush_empty", !.buffer = rows])
  <2> HIDE DEF rows
  <2> QED BY <1>1, <1>3 DEF IsRun, Blank, StampEmptyOk, Stage, Flushing
<1> QED
  BY <1>4, TypedStep DEF StampEmptyOk, TypeOK

LEMMA RetryFetchTyped ==
    ASSUME TypeOK, NEW p \in Proc, RetryFetch(p)
    PROVE  TypeOK'
<1> DEFINE r == run[p]
           candidates == RetryCandidates(r)
<1>1. PICK out \in [candidates -> Outcome] :
        Local(p, [r EXCEPT !.pc = "rewrite", !.round = @ + 1,
            !.todo = {v \in candidates : out[v] = "data"},
            !.retryable = (@ \ candidates) \cup {v \in candidates : out[v] = "retryable"}])
  BY DEF RetryFetch
<1>2. IsRun(r)
  BY DEF TypeOK
<1>3. candidates \in SUBSET r.active /\ (candidates # {} => r.round < MaxRetries)
  BY DEF RetryCandidates, MissingShards, ExpectedVenues
<1>4. r.round + 1 \in 0..MaxRetries
  BY <1>2, <1>3, ConfigAssumption DEF RetryFetch, IsRun
<1>5. IsRun([r EXCEPT !.pc = "rewrite", !.round = @ + 1,
            !.todo = {v \in candidates : out[v] = "data"},
            !.retryable = (@ \ candidates) \cup {v \in candidates : out[v] = "retryable"}])
  <2> HIDE DEF candidates
  <2> QED BY <1>2, <1>3, <1>4 DEF IsRun, Blank, RetryFetch, Stage
<1> QED
  BY <1>1, <1>5, TypedStep DEF RetryFetch, TypeOK

LEMMA FinalizeTyped ==
    ASSUME TypeOK, NEW p \in Proc, Finalize(p)
    PROVE  TypeOK'
<1> DEFINE r == run[p]
<1>1. IsRun(r) /\ r.pc = "retry"
  BY DEF TypeOK, Finalize
<1>2. IsRun([r EXCEPT !.pc = "thin"])
  BY <1>1 DEF IsRun, Blank, Stage
<1>3. IsRun([r EXCEPT !.pc = "flush_final", !.buffer = MissingRows(r)])
  BY <1>1, MissingRowsTyped DEF IsRun, Blank, Stage, Flushing
<1> QED
  BY <1>2, <1>3, BlankTyped, TypedStep DEF Finalize, TypeOK

LEMMA ThinDayTyped ==
    ASSUME TypeOK, NEW p \in Proc, ThinDay(p)
    PROVE  TypeOK'
<1> DEFINE r == run[p]
           Rows(thin) == Stamp({VenueKey(PrimaryBucket(r.dispatch), v) : v \in thin}, "failed")
<1>1. IsRun(r) /\ r.pc = "thin"
  BY DEF TypeOK, ThinDay
<1>2. PICK thin \in SUBSET r.counts :
        Local(p, [r EXCEPT !.pc = "flush_thin", !.buffer = Rows(thin)])
  BY DEF ThinDay
<1>3. IsIndex(Rows(thin))
  BY <1>1, VenueKeysTyped DEF IsRun, VenuesFor, Status
<1>4. IsRun([r EXCEPT !.pc = "flush_thin", !.buffer = Rows(thin)])
  <2> HIDE DEF Rows
  <2> QED BY <1>1, <1>3 DEF IsRun, Blank, Stage, Flushing
<1> QED
  BY <1>2, <1>4, TypedStep DEF ThinDay, TypeOK

\* The steps that end a run, and the end of a retry's writes.
LEMMA OtherTyped ==
    ASSUME TypeOK, NEW p \in Proc, RejectAll(p) \/ CloseRetry(p) \/ Crash(p)
    PROVE  TypeOK'
<1>1. CASE RejectAll(p) \/ Crash(p)
  BY <1>1, BlankTyped, TypedStep DEF RejectAll, Crash, TypeOK
<1>2. CASE CloseRetry(p)
  <2>1. IsRun([run[p] EXCEPT !.pc = "flush_retry"])
    BY <1>2 DEF CloseRetry, TypeOK, IsRun, Blank, Stage, Flushing
  <2> QED
    BY <1>2, <2>1, TypedStep DEF CloseRetry, TypeOK
<1> QED
  BY <1>1, <1>2

\* Every variable keeps its type.
THEOREM TypeSafe == Spec => []TypeOK
<1>1. TypeOK /\ [Next]_vars => TypeOK'
  <2> SUFFICES ASSUME TypeOK, [Next]_vars
               PROVE  TypeOK'
    OBVIOUS
  <2>1. CASE UNCHANGED vars
    BY <2>1 DEF vars, TypeOK, IsRun, IsIndex
  <2>2. CASE Next
    <3>1. PICK p \in Proc : Start(p) \/ Step(p) \/ Crash(p)
      BY <2>2 DEF Next
    <3>2. CASE Start(p)
      BY <3>2, StartTyped
    <3>3. CASE Crash(p)
      BY <3>3, OtherTyped
    <3>4. CASE Step(p)
      BY <3>4, FetchTyped, ZeroRecordsTyped, PreStampTyped, WriteVenueTyped, WriteFailsTyped,
         SeedTyped, FlushTyped, FlushDoneTyped, StampEmptyOkTyped, RetryFetchTyped,
         FinalizeTyped, ThinDayTyped, OtherTyped
         DEF Step
    <3> QED
      BY <3>1, <3>2, <3>3, <3>4
  <2> QED
    BY <2>1, <2>2
<1> QED
  BY InitTyped, <1>1, PTL DEF Spec
-----------------------------------------------------------------------------
(* What each step does to the record of its runner, in the fields the      *)
(* safety theorems are about.                                              *)

Kept(r, s) == s.dispatch = r.dispatch /\ s.counts = r.counts

LEMMA RunFields ==
    ASSUME TypeOK, NEW p \in Proc
    PROVE  DOMAIN run[p] = {"pc", "dispatch", "active", "outcome", "counts",
                            "retryable", "todo", "buffer", "round"}
BY DEF TypeOK, IsRun, Blank

LEMMA OthersKept ==
    ASSUME TypeOK, NEW p \in Proc, Start(p) \/ Step(p) \/ Crash(p)
    PROVE  \A q \in Proc \ {p} : run'[q] = run[q]
<1> SUFFICES \E r : Local(p, r)
  BY LocalStep
<1>1. CASE Start(p)
  BY <1>1 DEF Start, Skip, Begin
<1>2. CASE Crash(p)
  BY <1>2 DEF Crash
<1>3. CASE Fetch(p) \/ RetryFetch(p)
  BY <1>3 DEF Fetch, RetryFetch
<1>4. CASE ZeroRecords(p)
  BY <1>4 DEF ZeroRecords, StampAbsent
<1>5. CASE RejectAll(p) \/ PreStamp(p) \/ Seed(p) \/ StampEmptyOk(p) \/ CloseRetry(p)
  BY <1>5 DEF RejectAll, PreStamp, Seed, StampEmptyOk, CloseRetry
<1>6. CASE \E v \in Venue : WriteVenue(p, v) \/ WriteFails(p, v)
  BY <1>6 DEF WriteVenue, WriteFails
<1>7. CASE \E b \in Bucket : Flush(p, b)
  BY <1>7 DEF Flush
<1>8. CASE FlushDone(p) \/ Finalize(p) \/ ThinDay(p)
  BY <1>8 DEF FlushDone, Finalize, ThinDay
<1> QED
  BY <1>1, <1>2, <1>3, <1>4, <1>5, <1>6, <1>7, <1>8 DEF Step

LEMMA StartEffect ==
    ASSUME TypeOK, NEW p \in Proc, Start(p)
    PROVE  /\ UNCHANGED <<index, objects>>
           /\ run'[p].pc \in {"idle", "fetch"}
           /\ run'[p].buffer = NoRows
           /\ run'[p].round = 0
<1>1. PICK d \in Dispatch : \E active \in SUBSET VenuesFor(d) :
          Skip(p, d, active) \/ Begin(p, d, active)
  BY DEF Start
<1>2. PICK active \in SUBSET VenuesFor(d) : Skip(p, d, active) \/ Begin(p, d, active)
  BY <1>1
<1>3. \/ run'[p] = Blank
      \/ run'[p] = [Blank EXCEPT !.pc = "fetch", !.dispatch = d, !.active = active]
  <2>1. CASE Skip(p, d, active)
    BY <2>1, LocalStep DEF Skip
  <2>2. CASE Begin(p, d, active)
    BY <2>2, LocalStep DEF Begin
  <2> QED
    BY <1>2, <2>1, <2>2
<1>4. UNCHANGED <<index, objects>>
  BY <1>2 DEF Skip, Begin
<1>5. /\ DOMAIN Blank = {"pc", "dispatch", "active", "outcome", "counts",
                         "retryable", "todo", "buffer", "round"}
      /\ Blank.pc = "idle" /\ Blank.buffer = NoRows /\ Blank.round = 0
  BY DEF Blank
<1> QED
  BY <1>3, <1>4, <1>5

LEMMA BlankEffect ==
    ASSUME TypeOK, NEW p \in Proc, RejectAll(p) \/ Crash(p)
    PROVE  UNCHANGED <<index, objects>> /\ run'[p] = Blank
BY LocalStep DEF RejectAll, Crash

LEMMA FetchEffect ==
    ASSUME TypeOK, NEW p \in Proc, Fetch(p)
    PROVE  /\ UNCHANGED <<index, objects>>
           /\ run[p].pc = "fetch" /\ run'[p].pc = "fetched"
           /\ run'[p].buffer = run[p].buffer
           /\ run'[p].round = run[p].round
<1>1. PICK out \in [run[p].active -> Outcome] :
        Local(p, [run[p] EXCEPT !.pc = "fetched", !.outcome = out,
                     !.retryable = {v \in run[p].active : out[v] = "retryable"}])
  BY DEF Fetch
<1>2. run'[p] = [run[p] EXCEPT !.pc = "fetched", !.outcome = out,
                     !.retryable = {v \in run[p].active : out[v] = "retryable"}]
  BY <1>1, LocalStep
<1> QED
  BY <1>2, RunFields DEF Fetch

LEMMA ZeroRecordsEffect ==
    ASSUME TypeOK, NEW p \in Proc, ZeroRecords(p)
    PROVE  /\ UNCHANGED <<index, objects>>
           /\ run[p].pc = "fetched"
           /\ \/ run'[p].pc = "zero_ok" /\ run'[p].buffer = run[p].buffer
              \/ /\ run'[p].pc \in {"flush_zero", "flush_raise"}
                 /\ \E S : run'[p].buffer = Stamp(S, "expected_empty")
<1>1. run[p].pc = "fetched" /\ UNCHANGED <<index, objects>>
  BY DEF ZeroRecords
<1>2. CASE Local(p, [run[p] EXCEPT !.pc = "zero_ok"])
  BY <1>1, <1>2, LocalStep, RunFields
<1>3. ASSUME NEW S, NEW next, StampAbsent(p, S, next)
      PROVE  run'[p].pc = next /\ \E K : run'[p].buffer = Stamp(K, "expected_empty")
  <2>1. run'[p] = [run[p] EXCEPT !.pc = next,
             !.buffer = Stamp({VenueKey(run[p].dispatch[1], v) : v \in S}, "expected_empty")]
    BY <1>3, LocalStep DEF StampAbsent
  <2> QED
    BY <2>1, RunFields
<1> QED
  BY <1>1, <1>2, <1>3 DEF ZeroRecords

LEMMA PreStampEffect ==
    ASSUME TypeOK, NEW p \in Proc, PreStamp(p)
    PROVE  /\ UNCHANGED <<index, objects>>
           /\ run[p].pc = "fetched" /\ run'[p].pc = "write"
           /\ run'[p].dispatch = run[p].dispatch
           /\ run'[p].round = run[p].round
           /\ run'[p].buffer =
                Stamp({VenueKey(VenueBucket(run[p].dispatch, v), v) : v \in run'[p].counts},
                      "expected_empty")
<1> DEFINE closed == ClosedTradfi(NonErrorVenues(run[p]) \cup WithOutcome(run[p], {"data"}))
<1>1. /\ UNCHANGED <<index, objects>>
      /\ run[p].pc = "fetched"
      /\ run'[p] = [run[p] EXCEPT !.pc = "write", !.counts = closed,
                      !.todo = WithOutcome(run[p], {"data"}) \ closed,
                      !.buffer = Stamp({VenueKey(VenueBucket(run[p].dispatch, v), v) : v \in closed},
                                       "expected_empty")]
  BY LocalStep DEF PreStamp
<1> HIDE DEF closed
<1> QED
  BY <1>1, RunFields

LEMMA WriteVenueEffect ==
    ASSUME TypeOK, NEW p \in Proc, NEW v \in Venue, WriteVenue(p, v)
    PROVE  LET b == WriteBucket(run[p], v)
           IN  /\ index' = index
               /\ objects' = objects \cup {<<b, v>>}
               /\ run[p].pc \in {"write", "rewrite"} /\ run'[p].pc = run[p].pc
               /\ run'[p].dispatch = run[p].dispatch
               /\ run'[p].round = run[p].round
               /\ run'[p].counts = run[p].counts \cup {v}
               /\ run'[p].buffer = Merge(run[p].buffer, Stamp({TypeKey(b, v)}, "captured"))
               /\ v \in run[p].active
<1> DEFINE b == WriteBucket(run[p], v)
<1>1. /\ index' = index
      /\ objects' = objects \cup {<<b, v>>}
      /\ run[p].pc \in {"write", "rewrite"}
      /\ v \in run[p].todo
      /\ run'[p] = [run[p] EXCEPT !.todo = @ \ {v}, !.counts = @ \cup {v},
                      !.buffer = Merge(@, Stamp({TypeKey(b, v)}, "captured"))]
  BY LocalStep DEF WriteVenue
<1>2. v \in run[p].active
  BY <1>1 DEF TypeOK, IsRun
<1> HIDE DEF b
<1> QED
  BY <1>1, <1>2, RunFields DEF b

LEMMA WriteFailsEffect ==
    ASSUME TypeOK, NEW p \in Proc, NEW v \in Venue, WriteFails(p, v)
    PROVE  LET b == WriteBucket(run[p], v)
           IN  /\ index' = index
               /\ objects \subseteq objects'
               /\ run[p].pc \in {"write", "rewrite"} /\ run'[p].pc = run[p].pc
               /\ Kept(run[p], run'[p])
               /\ run'[p].round = run[p].round
               /\ \/ run'[p].buffer = run[p].buffer
                  \/ /\ <<b, v>> \in objects'
                     /\ run'[p].buffer = Merge(run[p].buffer, Stamp({TypeKey(b, v)}, "captured"))
<1> DEFINE b == WriteBucket(run[p], v)
           rows == Merge(run[p].buffer, Stamp({TypeKey(b, v)}, "captured"))
<1>1. index' = index /\ objects \subseteq objects' /\ run[p].pc \in {"write", "rewrite"}
  BY DEF WriteFails
<1>2. \/ Local(p, [run[p] EXCEPT !.todo = @ \ {v}])
      \/ /\ Local(p, [run[p] EXCEPT !.todo = @ \ {v}, !.buffer = rows])
         /\ objects' = objects \cup {<<b, v>>}
  BY DEF WriteFails
<1> HIDE DEF rows, b
<1>3. /\ run'[p].pc = run[p].pc
      /\ Kept(run[p], run'[p])
      /\ run'[p].round = run[p].round
      /\ \/ run'[p].buffer = run[p].buffer
         \/ <<b, v>> \in objects' /\ run'[p].buffer = rows
  <2>1. CASE Local(p, [run[p] EXCEPT !.todo = @ \ {v}])
    <3>1. run'[p] = [run[p] EXCEPT !.todo = @ \ {v}]
      BY <2>1, LocalStep
    <3>2. run'[p].buffer = run[p].buffer
      BY <3>1, RunFields
    <3>3. run'[p].pc = run[p].pc /\ Kept(run[p], run'[p]) /\ run'[p].round = run[p].round
      BY <3>1, RunFields DEF Kept
    <3> QED
      BY <3>2, <3>3
  <2>2. CASE /\ Local(p, [run[p] EXCEPT !.todo = @ \ {v}, !.buffer = rows])
             /\ objects' = objects \cup {<<b, v>>}
    <3>1. run'[p] = [run[p] EXCEPT !.todo = @ \ {v}, !.buffer = rows]
      BY <2>2, LocalStep
    <3> QED
      BY <2>2, <3>1, RunFields DEF Kept
  <2> QED
    BY <1>2, <2>1, <2>2
<1> QED
  BY <1>1, <1>3 DEF rows, b

LEMMA SeedEffect ==
    ASSUME TypeOK, NEW p \in Proc, Seed(p)
    PROVE  /\ UNCHANGED <<index, objects>>
           /\ run[p].pc = "write" /\ run'[p].pc = "flush"
           /\ Kept(run[p], run'[p])
           /\ run'[p].buffer =
                Merge(run[p].buffer, SeedRows(index, run[p].dispatch, run[p].counts))
<1>1. /\ UNCHANGED <<index, objects>>
      /\ run[p].pc = "write"
      /\ run'[p] = [run[p] EXCEPT !.pc = "flush",
                      !.buffer = Merge(@, SeedRows(index, run[p].dispatch, run[p].counts))]
  BY LocalStep DEF Seed
<1> QED
  BY <1>1, RunFields DEF Kept

LEMMA FlushEffect ==
    ASSUME TypeOK, NEW p \in Proc, NEW b \in Bucket, Flush(p, b)
    PROVE  LET mine == InBucket(run[p].buffer, b)
           IN  /\ objects' = objects
               /\ index' = Merge(index, Only(run[p].buffer, mine))
               /\ run[p].pc \in Flushing /\ run'[p].pc = run[p].pc
               /\ Kept(run[p], run'[p])
               /\ run'[p].buffer = Only(run[p].buffer, DOMAIN run[p].buffer \ mine)
<1> DEFINE mine == InBucket(run[p].buffer, b)
<1>1. /\ objects' = objects
      /\ index' = Merge(index, Only(run[p].buffer, mine))
      /\ run[p].pc \in Flushing
      /\ run'[p] = [run[p] EXCEPT !.buffer = Only(@, DOMAIN @ \ mine)]
  BY LocalStep DEF Flush
<1> QED
  BY <1>1, RunFields DEF Kept

LEMMA FlushDoneEffect ==
    ASSUME TypeOK, NEW p \in Proc, FlushDone(p)
    PROVE  /\ UNCHANGED <<index, objects>>
           /\ run[p].pc \in Flushing
           /\ run[p].buffer = NoRows
           /\ \/ run'[p] = Blank
              \/ /\ run'[p].pc = AfterFlush[run[p].pc]
                 /\ run[p].pc # "flush_raise"
                 /\ Kept(run[p], run'[p])
                 /\ run'[p].buffer = NoRows
<1>1. run[p].pc \in Flushing /\ run[p].buffer = NoRows /\ UNCHANGED <<index, objects>>
  BY DEF FlushDone
<1>2. CASE run[p].pc = "flush_raise"
  BY <1>1, <1>2, LocalStep DEF FlushDone
<1>3. CASE run[p].pc # "flush_raise"
  <2>1. run'[p] = [run[p] EXCEPT !.pc = AfterFlush[@]]
    BY <1>3, LocalStep DEF FlushDone
  <2> QED
    BY <1>1, <1>3, <2>1, RunFields DEF Kept
<1> QED
  BY <1>2, <1>3

LEMMA StampEmptyOkEffect ==
    ASSUME TypeOK, NEW p \in Proc, StampEmptyOk(p)
    PROVE  /\ UNCHANGED <<index, objects>>
           /\ run[p].pc = "complete" /\ run'[p].pc = "flush_empty"
           /\ Kept(run[p], run'[p])
           /\ run'[p].buffer =
                Stamp({VenueKey(VenueBucket(run[p].dispatch, v), v) : v \in EmptyOkVenues(run[p])},
                      "zero")
<1>1. /\ UNCHANGED <<index, objects>>
      /\ run[p].pc = "complete"
      /\ run'[p] = [run[p] EXCEPT !.pc = "flush_empty",
              !.buffer = Stamp({VenueKey(VenueBucket(run[p].dispatch, v), v) :
                                   v \in EmptyOkVenues(run[p])}, "zero")]
  BY LocalStep DEF StampEmptyOk
<1> QED
  BY <1>1, RunFields DEF Kept

LEMMA RetryEffect ==
    ASSUME TypeOK, NEW p \in Proc, RetryFetch(p) \/ CloseRetry(p)
    PROVE  /\ UNCHANGED <<index, objects>>
           /\ \/ run[p].pc = "retry" /\ run'[p].pc = "rewrite"
              \/ run[p].pc = "rewrite" /\ run'[p].pc = "flush_retry"
           /\ Kept(run[p], run'[p])
           /\ run'[p].buffer = run[p].buffer
<1>1. CASE RetryFetch(p)
  <2> DEFINE candidates == RetryCandidates(run[p])
  <2>1. PICK out \in [candidates -> Outcome] :
          Local(p, [run[p] EXCEPT !.pc = "rewrite", !.round = @ + 1,
            !.todo = {v \in candidates : out[v] = "data"},
            !.retryable = (@ \ candidates) \cup {v \in candidates : out[v] = "retryable"}])
    BY <1>1 DEF RetryFetch
  <2>2. run'[p] = [run[p] EXCEPT !.pc = "rewrite", !.round = @ + 1,
            !.todo = {v \in candidates : out[v] = "data"},
            !.retryable = (@ \ candidates) \cup {v \in candidates : out[v] = "retryable"}]
    BY <2>1, LocalStep
  <2> QED
    BY <1>1, <2>2, RunFields DEF RetryFetch, Kept
<1>2. CASE CloseRetry(p)
  <2>1. run'[p] = [run[p] EXCEPT !.pc = "flush_retry"]
    BY <1>2, LocalStep DEF CloseRetry
  <2> QED
    BY <1>2, <2>1, RunFields DEF CloseRetry, Kept
<1> QED
  BY <1>1, <1>2

LEMMA FinalizeEffect ==
    ASSUME TypeOK, NEW p \in Proc, Finalize(p)
    PROVE  /\ UNCHANGED <<index, objects>>
           /\ run[p].pc = "retry"
           /\ \/ run'[p] = Blank
              \/ /\ Kept(run[p], run'[p])
                 /\ \/ run'[p].pc = "thin" /\ run'[p].buffer = run[p].buffer
                    \/ run'[p].pc = "flush_final" /\ run'[p].buffer = MissingRows(run[p])
<1>1. run[p].pc = "retry" /\ UNCHANGED <<index, objects>>
  BY DEF Finalize
<1>2. \/ run'[p] = [run[p] EXCEPT !.pc = "thin"]
      \/ run'[p] = Blank
      \/ run'[p] = [run[p] EXCEPT !.pc = "flush_final", !.buffer = MissingRows(run[p])]
  BY LocalStep DEF Finalize
<1> QED
  BY <1>1, <1>2, RunFields DEF Kept

LEMMA ThinDayEffect ==
    ASSUME TypeOK, NEW p \in Proc, ThinDay(p)
    PROVE  /\ UNCHANGED <<index, objects>>
           /\ run[p].pc = "thin" /\ run'[p].pc = "flush_thin"
           /\ Kept(run[p], run'[p])
           /\ \E S : run'[p].buffer = Stamp(S, "failed")
<1>1. /\ UNCHANGED <<index, objects>>
      /\ run[p].pc = "thin"
      /\ \E S : run'[p] = [run[p] EXCEPT !.pc = "flush_thin", !.buffer = Stamp(S, "failed")]
  BY LocalStep DEF ThinDay
<1>2. PICK S : run'[p] = [run[p] EXCEPT !.pc = "flush_thin", !.buffer = Stamp(S, "failed")]
  BY <1>1
<1> QED
  BY <1>1, <1>2, RunFields DEF Kept

-----------------------------------------------------------------------------
(* A captured row stands for an object.                                    *)

StandsFor(rows, stored) ==
    \A k \in DOMAIN rows : rows[k] = "captured" => <<k.bucket, k.venue>> \in stored

\* The inductive invariant: the object is there before the row is even buffered.
ObjectFirst ==
    /\ StandsFor(index, objects)
    /\ \A p \in Proc : StandsFor(run[p].buffer, objects)

LEMMA StandsForStamp ==
    ASSUME NEW S, NEW s, NEW stored, s # "captured"
    PROVE  StandsFor(Stamp(S, s), stored)
BY DEF StandsFor, Stamp

LEMMA StandsForMerge ==
    ASSUME NEW a, NEW b, NEW stored, StandsFor(a, stored), StandsFor(b, stored)
    PROVE  StandsFor(Merge(a, b), stored)
BY DEF StandsFor, Merge

LEMMA StandsForOnly ==
    ASSUME NEW a, NEW stored, StandsFor(a, stored), NEW S \in SUBSET DOMAIN a
    PROVE  StandsFor(Only(a, S), stored)
BY DEF StandsFor, Only

LEMMA StandsForGrows ==
    ASSUME NEW a, NEW old, NEW new, StandsFor(a, old), old \subseteq new
    PROVE  StandsFor(a, new)
BY DEF StandsFor

LEMMA StandsForBlank == \A stored : StandsFor(NoRows, stored) /\ StandsFor(Blank.buffer, stored)
BY DEF StandsFor, Blank, NoRows

\* None of the stamps of a run is a capture.
LEMMA StampsStandFor ==
    ASSUME NEW r, NEW d, NEW counts, NEW stored
    PROVE  StandsFor(SeedRows(index, d, counts), stored) /\ StandsFor(MissingRows(r), stored)
BY StandsForStamp, StandsForMerge DEF SeedRows, MissingRows

LEMMA ObjectFirstStep ==
    ASSUME TypeOK, ObjectFirst, NEW p \in Proc, Start(p) \/ Step(p) \/ Crash(p),
           objects \subseteq objects', StandsFor(index', objects'),
           StandsFor(run'[p].buffer, objects')
    PROVE  ObjectFirst'
<1>1. \A q \in Proc : StandsFor(run'[q].buffer, objects')
  <2> TAKE q \in Proc
  <2>1. CASE q = p
    BY <2>1
  <2>2. CASE q # p
    BY <2>2, OthersKept, StandsForGrows DEF ObjectFirst
  <2> QED
    BY <2>1, <2>2
<1> QED
  BY <1>1 DEF ObjectFirst

LEMMA QuietStep ==
    ASSUME TypeOK, ObjectFirst, NEW p \in Proc, Start(p) \/ Step(p) \/ Crash(p),
           UNCHANGED <<index, objects>>, StandsFor(run'[p].buffer, objects)
    PROVE  ObjectFirst'
BY ObjectFirstStep DEF ObjectFirst

LEMMA ObjectFirstInductive ==
    ASSUME TypeOK, ObjectFirst, NEW p \in Proc, Start(p) \/ Step(p) \/ Crash(p)
    PROVE  ObjectFirst'
<1>0. StandsFor(run[p].buffer, objects) /\ StandsFor(index, objects)
  BY DEF ObjectFirst
<1>1. CASE Start(p)
  BY <1>1, StartEffect, StandsForBlank, QuietStep
<1>2. CASE RejectAll(p) \/ Crash(p)
  BY <1>2, BlankEffect, StandsForBlank, QuietStep
<1>3. CASE Fetch(p)
  BY <1>0, <1>3, FetchEffect, QuietStep
<1>4. CASE ZeroRecords(p)
  BY <1>0, <1>4, ZeroRecordsEffect, StandsForStamp, QuietStep
<1>5. CASE PreStamp(p)
  <2>1. StandsFor(Stamp({VenueKey(VenueBucket(run[p].dispatch, v), v) : v \in run'[p].counts},
                        "expected_empty"), objects)
    BY StandsForStamp
  <2>2. StandsFor(run'[p].buffer, objects) /\ UNCHANGED <<index, objects>>
    BY <1>5, <2>1, PreStampEffect
  <2> QED
    BY <2>2, QuietStep
<1>6. ASSUME NEW v \in Venue, WriteVenue(p, v)
      PROVE  ObjectFirst'
  <2> DEFINE b == WriteBucket(run[p], v)
             new == Stamp({TypeKey(b, v)}, "captured")
  <2>1. /\ objects' = objects \cup {<<b, v>>}
        /\ index' = index
        /\ run'[p].buffer = Merge(run[p].buffer, new)
    BY <1>6, WriteVenueEffect
  <2>2. objects \subseteq objects'
    BY <2>1
  <2>3. StandsFor(new, objects')
    BY <2>1 DEF StandsFor, Stamp, TypeKey
  <2>4. StandsFor(run[p].buffer, objects')
    BY <1>0, <2>2, StandsForGrows
  <2>5. StandsFor(run'[p].buffer, objects')
    <3> HIDE DEF new
    <3> QED BY <2>1, <2>3, <2>4, StandsForMerge
  <2> QED
    BY <1>0, <2>1, <2>2, <2>5, StandsForGrows, ObjectFirstStep
<1>7. ASSUME NEW v \in Venue, WriteFails(p, v)
      PROVE  ObjectFirst'
  <2> DEFINE b == WriteBucket(run[p], v)
             new == Stamp({TypeKey(b, v)}, "captured")
  <2>1. /\ objects \subseteq objects'
        /\ index' = index
        /\ \/ run'[p].buffer = run[p].buffer
           \/ <<b, v>> \in objects' /\ run'[p].buffer = Merge(run[p].buffer, new)
    BY <1>7, WriteFailsEffect
  <2>2. StandsFor(run[p].buffer, objects') /\ StandsFor(index', objects')
    BY <1>0, <2>1, StandsForGrows
  <2>3. <<b, v>> \in objects' => StandsFor(new, objects')
    BY DEF StandsFor, Stamp, TypeKey
  <2> HIDE DEF new
  <2>4. StandsFor(run'[p].buffer, objects')
    BY <2>1, <2>2, <2>3, StandsForMerge
  <2> QED
    BY <2>1, <2>2, <2>4, ObjectFirstStep
<1>8. CASE Seed(p)
  BY <1>0, <1>8, SeedEffect, StampsStandFor, StandsForMerge, QuietStep
<1>9. ASSUME NEW b \in Bucket, Flush(p, b)
      PROVE  ObjectFirst'
  <2> DEFINE mine == InBucket(run[p].buffer, b)
             rest == DOMAIN run[p].buffer \ mine
  <2>1. /\ objects' = objects
        /\ index' = Merge(index, Only(run[p].buffer, mine))
        /\ run'[p].buffer = Only(run[p].buffer, rest)
    BY <1>9, FlushEffect
  <2>2. StandsFor(Only(run[p].buffer, mine), objects) /\ StandsFor(Only(run[p].buffer, rest), objects)
    BY <1>0, StandsForOnly DEF InBucket
  <2> HIDE DEF mine, rest
  <2>3. StandsFor(index', objects)
    BY <1>0, <2>1, <2>2, StandsForMerge
  <2> QED
    BY <2>1, <2>2, <2>3, ObjectFirstStep
<1>10. CASE FlushDone(p)
  BY <1>10, FlushDoneEffect, StandsForBlank, QuietStep
<1>11. CASE StampEmptyOk(p)
  <2>1. StandsFor(Stamp({VenueKey(VenueBucket(run[p].dispatch, v), v) :
                            v \in EmptyOkVenues(run[p])}, "zero"), objects)
    BY StandsForStamp
  <2>2. StandsFor(run'[p].buffer, objects) /\ UNCHANGED <<index, objects>>
    BY <1>11, <2>1, StampEmptyOkEffect
  <2> QED
    BY <2>2, QuietStep
<1>12. CASE RetryFetch(p) \/ CloseRetry(p)
  BY <1>0, <1>12, RetryEffect, QuietStep
<1>13. CASE Finalize(p)
  BY <1>0, <1>13, FinalizeEffect, StampsStandFor, StandsForBlank, QuietStep
<1>14. CASE ThinDay(p)
  BY <1>14, ThinDayEffect, StandsForStamp, QuietStep
<1> QED
  BY <1>1, <1>2, <1>3, <1>4, <1>5, <1>6, <1>7, <1>8, <1>9, <1>10, <1>11, <1>12, <1>13, <1>14
     DEF Step

\* No interleaving of runners, failed write, retry or crash leaves a row that
\* claims a capture whose object was never written (writers._write_venue).
THEOREM CapturedSafe == Spec => []CapturedHasObject
<1>1. Init => ObjectFirst
  BY StandsForBlank DEF Init, ObjectFirst
<1>2. TypeOK /\ ObjectFirst /\ [Next]_vars => ObjectFirst'
  <2>1. ASSUME ObjectFirst, UNCHANGED vars PROVE ObjectFirst'
    BY <2>1 DEF vars, ObjectFirst
  <2> QED
    BY <2>1, ObjectFirstInductive DEF Next
<1>3. ObjectFirst => CapturedHasObject
  BY DEF ObjectFirst, StandsFor, CapturedHasObject
<1> QED
  BY <1>1, <1>2, <1>3, TypeSafe, PTL DEF Spec

-----------------------------------------------------------------------------
(* A run does not contradict itself.                                       *)

Denial == {"zero", "failed", "unattempted"}

Denies(r) == \E k \in DOMAIN r.buffer : r.buffer[k] \in Denial /\ k.venue \in r.counts

\* The inductive invariant.  While venues are being written, the buffer holds
\* nothing a further write could contradict; between the stages it is empty.
Consistent(r) ==
    /\ r.pc \notin Flushing \cup {"write", "rewrite"} => r.buffer = NoRows
    /\ r.pc \in {"write", "rewrite"} =>
            \A k \in DOMAIN r.buffer : r.buffer[k] \in {"captured", "expected_empty"}
    /\ r.pc # "flush_thin" => ~Denies(r)

AllConsistent == \A p \in Proc : Consistent(run[p])

LEMMA EmptyConsistent ==
    ASSUME NEW r, r.buffer = NoRows
    PROVE  Consistent(r)
BY DEF Consistent, Denies, NoRows

LEMMA ConsistentInductive ==
    ASSUME TypeOK, NEW p \in Proc, Consistent(run[p]), Start(p) \/ Step(p) \/ Crash(p)
    PROVE  Consistent(run'[p])
<1>0. Blank.buffer = NoRows
  BY DEF Blank
<1>1. CASE Start(p)
  BY <1>1, StartEffect, EmptyConsistent
<1>2. CASE RejectAll(p) \/ Crash(p)
  BY <1>0, <1>2, BlankEffect, EmptyConsistent
<1>3. CASE Fetch(p)
  <2>1. run'[p].buffer = NoRows
    BY <1>3, FetchEffect DEF Consistent, Flushing
  <2> QED
    BY <2>1, EmptyConsistent
<1>4. CASE ZeroRecords(p)
  <2>1. run[p].buffer = NoRows
    BY <1>4, ZeroRecordsEffect DEF Consistent, Flushing
  <2>2. CASE run'[p].buffer = run[p].buffer
    BY <2>1, <2>2, EmptyConsistent
  <2>3. CASE run'[p].pc \in {"flush_zero", "flush_raise"}
             /\ \E S : run'[p].buffer = Stamp(S, "expected_empty")
    BY <2>3 DEF Consistent, Denies, Denial, Stamp, Flushing
  <2> QED
    BY <1>4, <2>2, <2>3, ZeroRecordsEffect
<1>5. CASE PreStamp(p)
  <2> DEFINE keys == {VenueKey(VenueBucket(run[p].dispatch, v), v) : v \in run'[p].counts}
  <2>1. run'[p].pc = "write" /\ run'[p].buffer = Stamp(keys, "expected_empty")
    BY <1>5, PreStampEffect
  <2> HIDE DEF keys
  <2> QED
    BY <2>1 DEF Consistent, Denies, Denial, Stamp, Flushing
<1>6. ASSUME NEW v \in Venue, WriteVenue(p, v)
      PROVE  Consistent(run'[p])
  <2> DEFINE new == Stamp({TypeKey(WriteBucket(run[p], v), v)}, "captured")
  <2>1. run[p].pc \in {"write", "rewrite"} /\ run'[p].pc = run[p].pc
        /\ run'[p].buffer = Merge(run[p].buffer, new)
    BY <1>6, WriteVenueEffect
  <2>2. \A k \in DOMAIN run'[p].buffer : run'[p].buffer[k] \in {"captured", "expected_empty"}
    BY <2>1 DEF Consistent, Merge, Stamp
  <2> QED
    BY <2>1, <2>2 DEF Consistent, Denies, Denial, Flushing
<1>7. ASSUME NEW v \in Venue, WriteFails(p, v)
      PROVE  Consistent(run'[p])
  <2> DEFINE new == Stamp({TypeKey(WriteBucket(run[p], v), v)}, "captured")
  <2>1. /\ run[p].pc \in {"write", "rewrite"} /\ run'[p].pc = run[p].pc
        /\ run'[p].buffer = run[p].buffer \/ run'[p].buffer = Merge(run[p].buffer, new)
    BY <1>7, WriteFailsEffect
  <2>2. \A k \in DOMAIN run'[p].buffer : run'[p].buffer[k] \in {"captured", "expected_empty"}
    BY <2>1 DEF Consistent, Merge, Stamp
  <2> QED
    BY <2>1, <2>2 DEF Consistent, Denies, Denial, Flushing
<1>8. CASE Seed(p)
  <2> DEFINE seeds == SeedRows(index, run[p].dispatch, run[p].counts)
  <2>1. run[p].pc = "write" /\ run'[p].pc = "flush" /\ run'[p].counts = run[p].counts
        /\ run'[p].buffer = Merge(run[p].buffer, seeds)
    BY <1>8, SeedEffect DEF Kept
  <2>2. \A k \in DOMAIN seeds : seeds[k] \in Denial => k.venue \notin run[p].counts
    BY DEF SeedRows, Merge, Stamp, SeedKey, Denial
  <2>3. \A k \in DOMAIN run[p].buffer : run[p].buffer[k] \notin Denial
    BY <2>1 DEF Consistent, Denial
  <2> HIDE DEF seeds
  <2>4. ~Denies(run'[p])
    BY <2>1, <2>2, <2>3 DEF Denies, Merge
  <2> QED
    BY <2>1, <2>4 DEF Consistent, Flushing
<1>9. ASSUME NEW b \in Bucket, Flush(p, b)
      PROVE  Consistent(run'[p])
  <2> DEFINE rest == DOMAIN run[p].buffer \ InBucket(run[p].buffer, b)
  <2>1. run[p].pc \in Flushing /\ run'[p].pc = run[p].pc /\ run'[p].counts = run[p].counts
        /\ run'[p].buffer = Only(run[p].buffer, rest)
    BY <1>9, FlushEffect DEF Kept
  <2>2. ~Denies(run[p]) => ~Denies(run'[p])
    BY <2>1 DEF Denies, Only
  <2> QED
    BY <2>1, <2>2 DEF Consistent, Flushing
<1>10. CASE FlushDone(p)
  BY <1>0, <1>10, FlushDoneEffect, EmptyConsistent
<1>11. CASE StampEmptyOk(p)
  <2> DEFINE keys == {VenueKey(VenueBucket(run[p].dispatch, v), v) : v \in EmptyOkVenues(run[p])}
  <2>1. run'[p].pc = "flush_empty" /\ run'[p].counts = run[p].counts
        /\ run'[p].buffer = Stamp(keys, "zero")
    BY <1>11, StampEmptyOkEffect DEF Kept
  <2>2. \A k \in keys : k.venue \notin run[p].counts
    BY DEF VenueKey, EmptyOkVenues
  <2> HIDE DEF keys
  <2> QED
    BY <2>1, <2>2 DEF Consistent, Denies, Stamp, Flushing
<1>12. CASE RetryFetch(p) \/ CloseRetry(p)
  <2>1. \/ run[p].pc = "retry" /\ run'[p].pc = "rewrite"
        \/ run[p].pc = "rewrite" /\ run'[p].pc = "flush_retry"
    BY <1>12, RetryEffect
  <2>2. run'[p].counts = run[p].counts /\ run'[p].buffer = run[p].buffer
    BY <1>12, RetryEffect DEF Kept
  <2>3. CASE run[p].pc = "retry"
    <3>1. run'[p].buffer = NoRows
      BY <2>2, <2>3 DEF Consistent, Flushing
    <3> QED
      BY <3>1, EmptyConsistent
  <2>4. CASE run[p].pc = "rewrite" /\ run'[p].pc = "flush_retry"
    BY <2>2, <2>4 DEF Consistent, Denies, Flushing
  <2> QED
    BY <2>1, <2>3, <2>4
<1>13. CASE Finalize(p)
  <2>1. run[p].buffer = NoRows
    BY <1>13, FinalizeEffect DEF Consistent, Flushing
  <2>2. CASE run'[p] = Blank
    BY <1>0, <2>2, EmptyConsistent
  <2>3. CASE run'[p].buffer = run[p].buffer
    BY <2>1, <2>3, EmptyConsistent
  <2>4. CASE run'[p].pc = "flush_final" /\ run'[p].counts = run[p].counts
             /\ run'[p].buffer = MissingRows(run[p])
    <3> DEFINE rows == MissingRows(run[p])
    <3>1. \A k \in DOMAIN rows : k.venue \notin run[p].counts
      BY DEF MissingRows, MissingShards, ClosedTradfi, Merge, Stamp, VenueKey
    <3> HIDE DEF rows
    <3> QED
      BY <2>4, <3>1 DEF rows, Consistent, Denies, Flushing
  <2> QED
    BY <1>13, <2>2, <2>3, <2>4, FinalizeEffect DEF Kept
<1>14. CASE ThinDay(p)
  BY <1>14, ThinDayEffect DEF Consistent, Flushing
<1> QED
  BY <1>1, <1>2, <1>3, <1>4, <1>5, <1>6, <1>7, <1>8, <1>9, <1>10, <1>11, <1>12, <1>13, <1>14
     DEF Step

\* A run that wrote a venue, at once or in a retry, does not stamp it as a gap, a
\* failure or a zero response in any stage before the thin-day correction.
THEOREM ContradictionSafe == Spec => []NoContradictoryStamp
<1>1. Init => AllConsistent
  <2>1. Consistent(Blank)
    BY EmptyConsistent DEF Blank
  <2> QED
    BY <2>1 DEF Init, AllConsistent
<1>2. TypeOK /\ AllConsistent /\ [Next]_vars => AllConsistent'
  <2> SUFFICES ASSUME TypeOK, AllConsistent, [Next]_vars, NEW q \in Proc
               PROVE  Consistent(run'[q])
    BY DEF AllConsistent
  <2>1. CASE UNCHANGED vars
    BY <2>1 DEF vars, AllConsistent
  <2>2. CASE Next
    <3>1. PICK p \in Proc : Start(p) \/ Step(p) \/ Crash(p)
      BY <2>2 DEF Next
    <3>2. CASE q = p
      BY <3>1, <3>2, ConsistentInductive DEF AllConsistent
    <3>3. CASE q # p
      BY <3>1, <3>3, OthersKept DEF AllConsistent
    <3> QED
      BY <3>2, <3>3
  <2> QED
    BY <2>1, <2>2
<1>3. AllConsistent => NoContradictoryStamp
  BY DEF AllConsistent, Consistent, Denies, Denial, NoContradictoryStamp
<1> QED
  BY <1>1, <1>2, <1>3, TypeSafe, PTL DEF Spec

-----------------------------------------------------------------------------
(* No venue of the target universe is silently absent.                     *)

Seeded == {"flush", "complete", "flush_empty", "retry", "rewrite", "flush_retry",
           "flush_final", "thin", "flush_thin", "ok"}

HasRow(rows, v) == RowsOf(rows, AssetGroup[v], v) # {}

\* The inductive invariant: before the seeding, every venue the run has settled has
\* its row in the buffer, in the bucket of its own group; from the seeding on, every
\* venue of the target universe has one in the index or on its way there.
Covered(idx, r) ==
    /\ r.pc \in {"fetch", "fetched", "write"} => r.round = 0
    /\ r.pc = "write" => \A v \in r.counts : HasRow(r.buffer, v)
    /\ r.pc \in Seeded =>
            \A v \in TargetUniverse(r.dispatch) : HasRow(idx, v) \/ HasRow(r.buffer, v)

AllCovered == \A p \in Proc : Covered(index, run[p])

LEMMA OwnBucket ==
    ASSUME NEW d \in Dispatch, NEW v \in VenuesFor(d)
    PROVE  VenueBucket(d, v) = AssetGroup[v]
<1>1. d \in Seq(VenueGrainGroup) /\ d # <<>>
  BY ConfigAssumption
<1>2. CASE Len(d) > 1
  BY <1>2 DEF VenueBucket, IsAllRun
<1>3. CASE ~(Len(d) > 1)
  <2>1. Len(d) \in Nat /\ Len(d) # 0 /\ DOMAIN d = 1..Len(d)
    BY <1>1
  <2>2. Len(d) = 1
    BY <1>3, <2>1
  <2>3. DOMAIN d = {1}
    BY <2>1, <2>2
  <2> QED
    BY <1>3, <2>3 DEF VenueBucket, IsAllRun, VenuesFor, Groups
<1> QED
  BY <1>2, <1>3

LEMMA HasRowMerge ==
    ASSUME NEW a, NEW b, NEW v
    PROVE  HasRow(Merge(a, b), v) <=> HasRow(a, v) \/ HasRow(b, v)
BY DEF HasRow, RowsOf, Merge

LEMMA HasRowStamp ==
    ASSUME NEW S, NEW s, NEW v, NEW k \in S, k.bucket = AssetGroup[v], k.venue = v
    PROVE  HasRow(Stamp(S, s), v)
BY DEF HasRow, RowsOf, Stamp

\* The index only grows.
LEMMA RowsKept ==
    ASSUME TypeOK, NEW p \in Proc, Start(p) \/ Step(p) \/ Crash(p)
    PROVE  DOMAIN index \subseteq DOMAIN index'
<1>1. CASE \E b \in Bucket : Flush(p, b)
  BY <1>1 DEF Flush, Merge
<1>2. CASE ~ \E b \in Bucket : Flush(p, b)
  <2>1. index' = index
    BY <1>2 DEF Start, Skip, Begin, Crash, Step, Fetch, ZeroRecords, RejectAll, PreStamp,
       WriteVenue, WriteFails, Seed, FlushDone, StampEmptyOk, RetryFetch, CloseRetry, Finalize,
       ThinDay
  <2> QED
    BY <2>1
<1> QED
  BY <1>1, <1>2

LEMMA CoveredGrows ==
    ASSUME NEW idx, NEW more, NEW r, Covered(idx, r), DOMAIN idx \subseteq DOMAIN more
    PROVE  Covered(more, r)
BY DEF Covered, HasRow, RowsOf

\* Seeding leaves no venue of the target universe without a row, provided the
\* venues already settled by the run have theirs.
LEMMA SeedCovers ==
    ASSUME NEW idx, NEW d \in Dispatch, NEW counts, NEW v \in TargetUniverse(d),
           v \notin counts
    PROVE  HasRow(idx, v) \/ HasRow(SeedRows(idx, d, counts), v)
<1> DEFINE open == {u \in TargetUniverse(d) : SeedLookup(idx, AssetGroup[u], u) = {}}
           Seeds(S) == {SeedKey(AssetGroup[u], u) : u \in S}
           b == AssetGroup[v]
<1>1. /\ SeedKey(b, v).bucket = b /\ SeedKey(b, v).venue = v
      /\ TypeKey(b, v).bucket = b /\ TypeKey(b, v).venue = v
  BY DEF SeedKey, TypeKey
<1>2. CASE v \notin open
  <2>1. SeedLookup(idx, b, v) # {}
    BY <1>2
  <2> QED
    BY <1>1, <2>1 DEF SeedLookup, HasRow, RowsOf
<1>3. CASE v \in open \ Launched
  <2>1. SeedKey(b, v) \in Seeds(open \ Launched)
    BY <1>3
  <2>2. HasRow(Stamp(Seeds(open \ Launched), "expected_empty"), v)
    BY <1>1, <2>1, HasRowStamp
  <2> QED
    BY <2>2, HasRowMerge DEF SeedRows
<1>4. CASE v \in open \cap Launched
  <2>1. SeedKey(b, v) \in Seeds((open \cap Launched) \ counts)
    BY <1>4
  <2>2. HasRow(Stamp(Seeds((open \cap Launched) \ counts), "unattempted"), v)
    BY <1>1, <2>1, HasRowStamp
  <2> QED
    BY <2>2, HasRowMerge DEF SeedRows
<1> QED
  BY <1>2, <1>3, <1>4

LEMMA CoveredInductive ==
    ASSUME TypeOK, TypeOK', NEW p \in Proc, Consistent(run[p]), Covered(index, run[p]),
           Start(p) \/ Step(p) \/ Crash(p)
    PROVE  Covered(index', run'[p])
<1>0. Blank.pc = "idle" /\ \A idx : Covered(idx, Blank)
  BY DEF Blank, Covered, Seeded
<1>00. \A r : r.buffer = NoRows => \A v : ~HasRow(r.buffer, v)
  BY DEF HasRow, RowsOf, NoRows
<1>1. CASE Start(p)
  BY <1>1, StartEffect DEF Covered, Seeded
<1>2. CASE RejectAll(p) \/ Crash(p)
  BY <1>0, <1>2, BlankEffect
<1>3. CASE Fetch(p)
  BY <1>3, FetchEffect DEF Covered, Seeded
<1>4. CASE ZeroRecords(p)
  BY <1>4, ZeroRecordsEffect DEF Covered, Seeded
<1>5. CASE PreStamp(p)
  <2> DEFINE d == run[p].dispatch
             keys == {VenueKey(VenueBucket(d, v), v) : v \in run'[p].counts}
  <2>1. /\ run[p].pc = "fetched" /\ run'[p].pc = "write"
        /\ run'[p].round = run[p].round /\ run'[p].dispatch = d
        /\ run'[p].buffer = Stamp(keys, "expected_empty")
    BY <1>5, PreStampEffect
  <2>2. ASSUME NEW v \in run'[p].counts PROVE HasRow(run'[p].buffer, v)
    <3>1. v \in VenuesFor(d) /\ d \in Dispatch
      BY <2>1 DEF TypeOK, IsRun
    <3>2. VenueKey(AssetGroup[v], v) \in keys
      BY <3>1, OwnBucket
    <3> HIDE DEF keys
    <3> QED
      BY <2>1, <3>2, HasRowStamp DEF VenueKey
  <2> QED
    BY <2>1, <2>2 DEF Covered, Seeded
<1>6. ASSUME NEW v \in Venue, WriteVenue(p, v)
      PROVE  Covered(index', run'[p])
  <2> DEFINE d == run[p].dispatch
             b == WriteBucket(run[p], v)
             new == Stamp({TypeKey(b, v)}, "captured")
  <2>1. /\ index' = index
        /\ run[p].pc \in {"write", "rewrite"} /\ run'[p].pc = run[p].pc
        /\ run'[p].round = run[p].round /\ run'[p].dispatch = d
        /\ run'[p].counts = run[p].counts \cup {v}
        /\ run'[p].buffer = Merge(run[p].buffer, new)
        /\ v \in run[p].active
    BY <1>6, WriteVenueEffect
  <2>2. \A u : HasRow(run[p].buffer, u) => HasRow(run'[p].buffer, u)
    BY <2>1, HasRowMerge
  <2>3. CASE run[p].pc = "write"
    <3>1. b = AssetGroup[v]
      <4>1. v \in VenuesFor(d) /\ d \in Dispatch
        BY <2>1 DEF TypeOK, IsRun
      <4> QED
        BY <2>3, <4>1, OwnBucket DEF WriteBucket, Covered
    <3>2. HasRow(new, v)
      BY <3>1, HasRowStamp DEF TypeKey
    <3>3. HasRow(run'[p].buffer, v)
      BY <2>1, <3>2, HasRowMerge
    <3> QED
      BY <2>1, <2>2, <2>3, <3>3 DEF Covered, Seeded
  <2>4. CASE run[p].pc = "rewrite"
    BY <2>1, <2>2, <2>4 DEF Covered
  <2> QED
    BY <2>1, <2>3, <2>4
<1>7. ASSUME NEW v \in Venue, WriteFails(p, v)
      PROVE  Covered(index', run'[p])
  <2> DEFINE new == Stamp({TypeKey(WriteBucket(run[p], v), v)}, "captured")
  <2>1. /\ index' = index /\ run'[p].pc = run[p].pc
        /\ run'[p].dispatch = run[p].dispatch /\ run'[p].counts = run[p].counts
        /\ run'[p].round = run[p].round
        /\ run'[p].buffer = run[p].buffer \/ run'[p].buffer = Merge(run[p].buffer, new)
    BY <1>7, WriteFailsEffect DEF Kept
  <2> HIDE DEF new
  <2>2. \A u : HasRow(run[p].buffer, u) => HasRow(run'[p].buffer, u)
    BY <2>1, HasRowMerge
  <2> QED
    BY <2>1, <2>2 DEF Covered
<1>8. CASE Seed(p)
  <2> DEFINE d == run[p].dispatch
             seeds == SeedRows(index, d, run[p].counts)
  <2>1. /\ index' = index /\ run[p].pc = "write" /\ run'[p].pc = "flush"
        /\ run'[p].dispatch = d
        /\ run'[p].buffer = Merge(run[p].buffer, seeds)
    BY <1>8, SeedEffect DEF Kept
  <2>2. ASSUME NEW v \in TargetUniverse(d)
        PROVE  HasRow(index, v) \/ HasRow(run'[p].buffer, v)
    <3>1. CASE v \in run[p].counts
      BY <2>1, <3>1, HasRowMerge DEF Covered
    <3>2. CASE v \notin run[p].counts
      <4>1. d \in Dispatch
        BY DEF TypeOK, IsRun
      <4>2. HasRow(index, v) \/ HasRow(seeds, v)
        BY <3>2, <4>1, SeedCovers
      <4> HIDE DEF seeds
      <4> QED
        BY <2>1, <4>2, HasRowMerge
    <3> QED
      BY <3>1, <3>2
  <2> QED
    BY <2>1, <2>2 DEF Covered
<1>9. ASSUME NEW b \in Bucket, Flush(p, b)
      PROVE  Covered(index', run'[p])
  <2> DEFINE mine == InBucket(run[p].buffer, b)
             rest == DOMAIN run[p].buffer \ mine
  <2>1. /\ index' = Merge(index, Only(run[p].buffer, mine))
        /\ run[p].pc \in Flushing /\ run'[p].pc = run[p].pc
        /\ run'[p].dispatch = run[p].dispatch
        /\ run'[p].buffer = Only(run[p].buffer, rest)
    BY <1>9, FlushEffect DEF Kept
  <2>2. ASSUME NEW v, HasRow(index, v) \/ HasRow(run[p].buffer, v)
        PROVE  HasRow(index', v) \/ HasRow(run'[p].buffer, v)
    <3>1. HasRow(run[p].buffer, v) =>
            HasRow(Only(run[p].buffer, mine), v) \/ HasRow(Only(run[p].buffer, rest), v)
      BY DEF HasRow, RowsOf, Only, InBucket
    <3> HIDE DEF mine, rest
    <3> QED
      BY <2>1, <2>2, <3>1, HasRowMerge
  <2> QED
    BY <2>1, <2>2 DEF Covered, Flushing
<1>10. CASE FlushDone(p)
  <2>1. /\ index' = index /\ run[p].pc \in Flushing /\ run[p].buffer = NoRows
        /\ \/ run'[p] = Blank
           \/ /\ run'[p].pc = AfterFlush[run[p].pc]
              /\ run[p].pc # "flush_raise"
              /\ run'[p].dispatch = run[p].dispatch
              /\ run'[p].buffer = NoRows
    BY <1>10, FlushDoneEffect DEF Kept
  <2>2. CASE run'[p] = Blank
    BY <1>0, <2>2
  <2>3. CASE run'[p].pc = AfterFlush[run[p].pc] /\ run[p].pc # "flush_raise"
             /\ run'[p].dispatch = run[p].dispatch /\ run'[p].buffer = NoRows
    <3>1. CASE run[p].pc \in {"flush", "flush_empty", "flush_retry", "flush_final", "flush_thin"}
      <4>1. run'[p].pc \in {"complete", "retry", "thin", "ok"}
        BY <2>3, <3>1 DEF AfterFlush
      <4>2. run[p].pc \in Seeded
        BY <3>1 DEF Seeded
      <4>3. \A v \in TargetUniverse(run'[p].dispatch) : HasRow(index', v)
        BY <1>00, <2>1, <2>3, <4>2 DEF Covered
      <4> QED
        BY <4>1, <4>3 DEF Covered
    <3>2. CASE run[p].pc = "flush_zero"
      <4>1. run'[p].pc = "zero_ok"
        BY <2>3, <3>2 DEF AfterFlush
      <4> QED
        BY <4>1 DEF Covered, Seeded
    <3> QED
      BY <2>1, <2>3, <3>1, <3>2 DEF Flushing
  <2> QED
    BY <2>1, <2>2, <2>3
\* From "complete" on, the buffer of a stage starts empty: the index has every row.
<1>11. CASE StampEmptyOk(p) \/ ThinDay(p) \/ RetryFetch(p) \/ Finalize(p)
  <2>1. /\ index' = index
        /\ run[p].pc \in {"complete", "thin", "retry", "rewrite"}
        /\ \/ run'[p] = Blank
           \/ /\ run'[p].pc \in Seeded \ {"write"}
              /\ run'[p].dispatch = run[p].dispatch
              /\ run[p].pc = "rewrite" => run'[p].buffer = run[p].buffer
    <3>1. CASE StampEmptyOk(p)
      BY <3>1, StampEmptyOkEffect DEF Kept, Seeded
    <3>2. CASE ThinDay(p)
      BY <3>2, ThinDayEffect DEF Kept, Seeded
    <3>3. CASE RetryFetch(p)
      BY <3>3, RetryEffect DEF Kept, Seeded
    <3>4. CASE Finalize(p)
      BY <3>4, FinalizeEffect DEF Kept, Seeded
    <3> QED
      BY <1>11, <3>1, <3>2, <3>3, <3>4
  <2>2. \A v \in TargetUniverse(run[p].dispatch) : HasRow(index, v) \/ HasRow(run[p].buffer, v)
    BY <2>1 DEF Covered, Seeded
  <2>3. run[p].pc # "rewrite" => \A v \in TargetUniverse(run[p].dispatch) : HasRow(index, v)
    <3> SUFFICES ASSUME run[p].pc # "rewrite" PROVE run[p].buffer = NoRows
      BY <1>00, <2>2
    <3> QED
      BY <2>1 DEF Consistent, Flushing
  <2> QED
    BY <1>0, <2>1, <2>2, <2>3 DEF Covered, Seeded
<1>12. CASE CloseRetry(p)
  BY <1>12, RetryEffect DEF CloseRetry, Covered, Kept, Seeded
<1> QED
  BY <1>1, <1>2, <1>3, <1>4, <1>5, <1>6, <1>7, <1>8, <1>9, <1>10, <1>11, <1>12 DEF Step

\* After an accepted run every venue of its target universe has a row in the bucket
\* of its own group, however many runners share the index and wherever they crash.
THEOREM AbsenceSafe == Spec => []NoSilentAbsence
<1>1. Init => AllConsistent /\ AllCovered
  <2>1. Consistent(Blank) /\ Covered(NoRows, Blank)
    BY EmptyConsistent DEF Blank, Covered, Seeded
  <2> QED
    BY <2>1 DEF Init, AllConsistent, AllCovered
<1>2. TypeOK /\ TypeOK' /\ AllConsistent /\ AllCovered /\ [Next]_vars
        => AllConsistent' /\ AllCovered'
  <2> SUFFICES ASSUME TypeOK, TypeOK', AllConsistent, AllCovered, [Next]_vars, NEW q \in Proc
               PROVE  Consistent(run'[q]) /\ Covered(index', run'[q])
    BY DEF AllConsistent, AllCovered
  <2>1. CASE UNCHANGED vars
    BY <2>1 DEF vars, AllConsistent, AllCovered
  <2>2. CASE Next
    <3>1. PICK p \in Proc : Start(p) \/ Step(p) \/ Crash(p)
      BY <2>2 DEF Next
    <3>2. CASE q = p
      BY <3>1, <3>2, ConsistentInductive, CoveredInductive DEF AllConsistent, AllCovered
    <3>3. CASE q # p
      <4>1. run'[q] = run[q]
        BY <3>1, <3>3, OthersKept
      <4> QED
        BY <3>1, <4>1, RowsKept, CoveredGrows DEF AllConsistent, AllCovered
    <3> QED
      BY <3>2, <3>3
  <2> QED
    BY <2>1, <2>2
<1>3. AllConsistent /\ AllCovered => NoSilentAbsence
  <2> SUFFICES ASSUME AllConsistent, AllCovered, NEW p \in Proc, run[p].pc = "ok",
                      NEW v \in TargetUniverse(run[p].dispatch)
               PROVE  RowsOf(index, AssetGroup[v], v) # {}
    BY DEF NoSilentAbsence
  <2>1. run[p].buffer = NoRows
    BY DEF AllConsistent, Consistent, Flushing
  <2> QED
    BY <2>1 DEF AllCovered, Covered, Seeded, HasRow, RowsOf, NoRows
<1> QED
  BY <1>1, <1>2, <1>3, TypeSafe, PTL DEF Spec

-----------------------------------------------------------------------------
(* What a row says is settled by its grain: captures carry an instrument   *)
(* type, nothing else does.  So no row replaces a capture.                 *)

Sorted(rows) == \A k \in DOMAIN rows : rows[k] = "captured" <=> k.grain = "type"

AllSorted == Sorted(index) /\ \A p \in Proc : Sorted(run[p].buffer)

LEMMA SortedNoRows == Sorted(NoRows) /\ Sorted(Blank.buffer)
BY DEF Sorted, NoRows, Blank

LEMMA SortedMerge ==
    ASSUME NEW a, NEW b, Sorted(a), Sorted(b)
    PROVE  Sorted(Merge(a, b))
BY DEF Sorted, Merge

LEMMA SortedOnly ==
    ASSUME NEW a, Sorted(a), NEW S \in SUBSET DOMAIN a
    PROVE  Sorted(Only(a, S))
BY DEF Sorted, Only

LEMMA SortedStamp ==
    ASSUME NEW S, NEW s, s # "captured", \A k \in S : k.grain # "type"
    PROVE  Sorted(Stamp(S, s))
BY DEF Sorted, Stamp

LEMMA SortedCapture ==
    ASSUME NEW b, NEW v
    PROVE  Sorted(Stamp({TypeKey(b, v)}, "captured"))
BY DEF Sorted, Stamp, TypeKey

LEMMA SortedStamps ==
    ASSUME NEW r, NEW d, NEW counts
    PROVE  Sorted(SeedRows(index, d, counts)) /\ Sorted(MissingRows(r))
<1>1. \A b, v : VenueKey(b, v).grain # "type" /\ SeedKey(b, v).grain # "type"
  BY DEF VenueKey, SeedKey
<1>2. Sorted(SeedRows(index, d, counts))
  <2> DEFINE open == {v \in TargetUniverse(d) : SeedLookup(index, AssetGroup[v], v) = {}}
             Seeds(S) == {SeedKey(AssetGroup[v], v) : v \in S}
             early == Stamp(Seeds(open \ Launched), "expected_empty")
             gaps == Stamp(Seeds((open \cap Launched) \ counts), "unattempted")
  <2>1. SeedRows(index, d, counts) = Merge(early, gaps)
    BY DEF SeedRows
  <2>2. Sorted(early) /\ Sorted(gaps)
    <3>1. \A S : \A k \in Seeds(S) : k.grain # "type"
      BY <1>1
    <3> HIDE DEF Seeds, open
    <3> QED
      BY <3>1, SortedStamp
  <2> HIDE DEF early, gaps
  <2> QED
    BY <2>1, <2>2, SortedMerge
<1>3. Sorted(MissingRows(r))
  <2> DEFINE KeysOf(S) == {VenueKey(VenueBucket(r.dispatch, v), v) : v \in S}
             failed == Stamp(KeysOf(MissingShards(r)), "failed")
             closed == Stamp(KeysOf(ClosedTradfi(MissingShards(r))), "expected_empty")
  <2>1. MissingRows(r) = Merge(failed, closed)
    BY DEF MissingRows
  <2>2. Sorted(failed) /\ Sorted(closed)
    <3>1. \A S : \A k \in KeysOf(S) : k.grain # "type"
      BY <1>1
    <3> HIDE DEF KeysOf
    <3> QED
      BY <3>1, SortedStamp
  <2> HIDE DEF failed, closed
  <2> QED
    BY <2>1, <2>2, SortedMerge
<1> QED
  BY <1>2, <1>3

\* Only stage 4 and the thin-day correction stamp keys that FinalizeEffect and its
\* like leave open: they are keys of the venue grain.
LEMMA SortedSmall ==
    ASSUME TypeOK, NEW p \in Proc, ZeroRecords(p) \/ ThinDay(p), Sorted(run[p].buffer)
    PROVE  index' = index /\ Sorted(run'[p].buffer)
<1>1. \A b, v : VenueKey(b, v).grain # "type"
  BY DEF VenueKey
<1>2. CASE ZeroRecords(p)
  <2>1. ASSUME NEW S, NEW next, StampAbsent(p, S, next)
        PROVE  Sorted(run'[p].buffer)
    <3> DEFINE keys == {VenueKey(run[p].dispatch[1], v) : v \in S}
    <3>1. run'[p] = [run[p] EXCEPT !.pc = next, !.buffer = Stamp(keys, "expected_empty")]
      BY <2>1, LocalStep DEF StampAbsent
    <3>2. \A k \in keys : k.grain # "type"
      BY <1>1
    <3> HIDE DEF keys
    <3>3. Sorted(Stamp(keys, "expected_empty"))
      BY <3>2, SortedStamp
    <3> QED
      BY <3>1, <3>3, RunFields
  <2>2. ASSUME Local(p, [run[p] EXCEPT !.pc = "zero_ok"])
        PROVE  Sorted(run'[p].buffer)
    BY <2>2, LocalStep, RunFields
  <2> QED
    BY <1>2, <2>1, <2>2 DEF ZeroRecords
<1>3. CASE ThinDay(p)
  <2> DEFINE keys(thin) == {VenueKey(PrimaryBucket(run[p].dispatch), v) : v \in thin}
  <2>1. PICK thin : Local(p, [run[p] EXCEPT !.pc = "flush_thin",
                                 !.buffer = Stamp(keys(thin), "failed")])
    BY <1>3 DEF ThinDay
  <2>2. run'[p] = [run[p] EXCEPT !.pc = "flush_thin", !.buffer = Stamp(keys(thin), "failed")]
    BY <2>1, LocalStep
  <2>3. \A k \in keys(thin) : k.grain # "type"
    BY <1>1
  <2> HIDE DEF keys
  <2>4. Sorted(Stamp(keys(thin), "failed"))
    BY <2>3, SortedStamp
  <2> QED
    BY <1>3, <2>2, <2>4, RunFields DEF ThinDay
<1> QED
  BY <1>2, <1>3

LEMMA SortedInductive ==
    ASSUME TypeOK, NEW p \in Proc, Start(p) \/ Step(p) \/ Crash(p),
           Sorted(index), Sorted(run[p].buffer)
    PROVE  Sorted(index') /\ Sorted(run'[p].buffer)
<1>0. \A b, v : VenueKey(b, v).grain # "type"
  BY DEF VenueKey
<1>1. CASE Start(p)
  BY <1>1, StartEffect, SortedNoRows
<1>2. CASE RejectAll(p) \/ Crash(p)
  BY <1>2, BlankEffect, SortedNoRows
<1>3. CASE Fetch(p)
  BY <1>3, FetchEffect
<1>4. CASE ZeroRecords(p) \/ ThinDay(p)
  BY <1>4, SortedSmall
<1>5. CASE PreStamp(p)
  <2> DEFINE keys == {VenueKey(VenueBucket(run[p].dispatch, v), v) : v \in run'[p].counts}
  <2>1. index' = index /\ run'[p].buffer = Stamp(keys, "expected_empty")
    BY <1>5, PreStampEffect
  <2>2. \A k \in keys : k.grain # "type"
    BY <1>0
  <2> HIDE DEF keys
  <2> QED
    BY <2>1, <2>2, SortedStamp
<1>6. ASSUME NEW v \in Venue, WriteVenue(p, v) \/ WriteFails(p, v)
      PROVE  Sorted(index') /\ Sorted(run'[p].buffer)
  <2> DEFINE new == Stamp({TypeKey(WriteBucket(run[p], v), v)}, "captured")
  <2>1. /\ index' = index
        /\ run'[p].buffer = run[p].buffer \/ run'[p].buffer = Merge(run[p].buffer, new)
    BY <1>6, WriteVenueEffect, WriteFailsEffect
  <2>2. Sorted(new)
    BY SortedCapture
  <2> HIDE DEF new
  <2> QED
    BY <2>1, <2>2, SortedMerge
<1>7. CASE Seed(p)
  BY <1>7, SeedEffect, SortedStamps, SortedMerge
<1>8. ASSUME NEW b \in Bucket, Flush(p, b)
      PROVE  Sorted(index') /\ Sorted(run'[p].buffer)
  <2> DEFINE mine == InBucket(run[p].buffer, b)
             rest == DOMAIN run[p].buffer \ mine
  <2>1. /\ index' = Merge(index, Only(run[p].buffer, mine))
        /\ run'[p].buffer = Only(run[p].buffer, rest)
    BY <1>8, FlushEffect
  <2>2. mine \in SUBSET DOMAIN run[p].buffer /\ rest \in SUBSET DOMAIN run[p].buffer
    BY DEF InBucket
  <2> HIDE DEF mine, rest
  <2> QED
    BY <2>1, <2>2, SortedOnly, SortedMerge
<1>9. CASE FlushDone(p)
  BY <1>9, FlushDoneEffect, SortedNoRows
<1>10. CASE StampEmptyOk(p)
  <2> DEFINE keys == {VenueKey(VenueBucket(run[p].dispatch, v), v) : v \in EmptyOkVenues(run[p])}
  <2>1. index' = index /\ run'[p].buffer = Stamp(keys, "zero")
    BY <1>10, StampEmptyOkEffect
  <2>2. \A k \in keys : k.grain # "type"
    BY <1>0
  <2> HIDE DEF keys
  <2> QED
    BY <2>1, <2>2, SortedStamp
<1>11. CASE RetryFetch(p) \/ CloseRetry(p)
  BY <1>11, RetryEffect
<1>12. CASE Finalize(p)
  BY <1>12, FinalizeEffect, SortedStamps, SortedNoRows
<1> QED
  BY <1>1, <1>2, <1>3, <1>4, <1>5, <1>6, <1>7, <1>8, <1>9, <1>10, <1>11, <1>12 DEF Step

\* Spec implies the grain rule for the index and for every run.
LEMMA SortedSafe == Spec => []AllSorted
<1>1. Init => AllSorted
  BY SortedNoRows DEF Init, AllSorted
<1>2. TypeOK /\ AllSorted /\ [Next]_vars => AllSorted'
  <2> SUFFICES ASSUME TypeOK, AllSorted, [Next]_vars PROVE AllSorted'
    OBVIOUS
  <2>1. CASE UNCHANGED vars
    BY <2>1 DEF vars, AllSorted
  <2>2. CASE Next
    <3>1. PICK p \in Proc : Start(p) \/ Step(p) \/ Crash(p)
      BY <2>2 DEF Next
    <3>2. Sorted(index') /\ Sorted(run'[p].buffer)
      BY <3>1, SortedInductive DEF AllSorted
    <3>3. \A q \in Proc \ {p} : Sorted(run'[q].buffer)
      BY <3>1, OthersKept DEF AllSorted
    <3> QED
      BY <3>2, <3>3 DEF AllSorted
  <2> QED
    BY <2>1, <2>2
<1> QED
  BY <1>1, <1>2, TypeSafe, PTL DEF Spec

\* A captured row stays captured, whatever any runner stamps on the venue later: the
\* absences and failures of the writers and of stage 8 have other keys.
THEOREM CapturesFinal ==
    Spec => [][\A k \in DOMAIN index : index[k] = "captured" => index'[k] = "captured"]_vars
<1> DEFINE A == \A k \in DOMAIN index : index[k] = "captured" => index'[k] = "captured"
<1>1. AllSorted /\ AllSorted' /\ TypeOK /\ [Next]_vars => [A]_vars
  <2> SUFFICES ASSUME AllSorted, AllSorted', TypeOK, Next PROVE A
    OBVIOUS
  <2>1. DOMAIN index \subseteq DOMAIN index'
    BY RowsKept DEF Next
  <2> QED
    BY <2>1 DEF AllSorted, Sorted
<1> QED
  BY <1>1, SortedSafe, TypeSafe, PTL DEF Spec

-----------------------------------------------------------------------------
(* One runner at a time: nobody else writes the index between the lookup   *)
(* of a run and its flush, or over the rows it has flushed.                *)

OneRunner == \A p, q \in Proc : p = q

\* What stage 8 stamps on a venue whose fetches all failed.
FailureRow(v) == IF ClosedTradfi({v}) = {} THEN "failed" ELSE "expected_empty"

Unrecovered(r) == {v \in WithOutcome(r, FailedFetch) \ r.counts : ~IsDefiBatch(v)}

FailureKey(r, v) == VenueKey(VenueBucket(r.dispatch, v), v)

Says(rows, k, s) == k \in DOMAIN rows /\ rows[k] = s

\* The inductive invariant: from the final stamps on, the index together with the rows
\* the run has yet to flush says of each such venue that it failed.
Visible(idx, r) ==
    r.pc \in {"flush_final", "thin", "flush_thin", "ok"} =>
        \A v \in Unrecovered(r) : Says(Merge(idx, r.buffer), FailureKey(r, v), FailureRow(v))

AllVisible == \A p \in Proc : Visible(index, run[p])

\* A venue whose fetches all failed is one of the missing shards.
LEMMA UnrecoveredMissing ==
    ASSUME NEW r, NEW v \in Unrecovered(r)
    PROVE  v \in MissingShards(r)
<1>1. v \in r.active /\ v \notin r.counts /\ r.outcome[v] \in {"retryable", "permanent"}
  BY DEF Unrecovered, WithOutcome, FailedFetch
<1>2. v \notin NonErrorVenues(r)
  BY <1>1 DEF NonErrorVenues, Unrecovered, FailedFetch
<1>3. v \notin ValidationFailed(r)
  BY <1>1 DEF ValidationFailed, WithOutcome
<1> QED
  BY <1>1, <1>2, <1>3 DEF MissingShards, ExpectedVenues, EmptyOkVenues

LEMMA MissingRowsSay ==
    ASSUME NEW r, NEW v \in MissingShards(r)
    PROVE  Says(MissingRows(r), FailureKey(r, v), FailureRow(v))
<1> DEFINE missing == MissingShards(r)
           KeysOf(S) == {FailureKey(r, u) : u \in S}
<1>1. MissingRows(r) = Merge(Stamp(KeysOf(missing), "failed"),
                             Stamp(KeysOf(ClosedTradfi(missing)), "expected_empty"))
  BY DEF MissingRows, FailureKey
<1>2. FailureKey(r, v) \in KeysOf(missing)
  OBVIOUS
<1>3. FailureKey(r, v) \in KeysOf(ClosedTradfi(missing)) <=> v \in ClosedTradfi(missing)
  BY DEF FailureKey, VenueKey
<1>4. v \in ClosedTradfi(missing) <=> ClosedTradfi({v}) # {}
  BY DEF ClosedTradfi
<1> HIDE DEF KeysOf, missing
<1> QED
  BY <1>1, <1>2, <1>3, <1>4 DEF Says, Merge, Stamp, FailureRow

\* Flushing does not change what index and buffer say together.
LEMMA FlushSays ==
    ASSUME NEW idx, NEW rows, NEW mine \in SUBSET DOMAIN rows, NEW k, NEW s,
           Says(Merge(idx, rows), k, s)
    PROVE  Says(Merge(Merge(idx, Only(rows, mine)), Only(rows, DOMAIN rows \ mine)), k, s)
BY DEF Says, Merge, Only

LEMMA SaysNoRows ==
    ASSUME NEW idx, NEW k, NEW s
    PROVE  Says(Merge(idx, NoRows), k, s) <=> Says(idx, k, s)
BY DEF Says, Merge, NoRows

\* The last stages leave the fetch results of the run alone.
LEMMA LastStagesKeep ==
    ASSUME TypeOK, NEW p \in Proc,
           Finalize(p) \/ ThinDay(p) \/ FlushDone(p) \/ \E b \in Bucket : Flush(p, b)
    PROVE  \/ run'[p] = Blank
           \/ /\ run'[p].active = run[p].active /\ run'[p].outcome = run[p].outcome
              /\ Kept(run[p], run'[p])
<1>1. CASE Finalize(p)
  <2>1. \/ run'[p] = [run[p] EXCEPT !.pc = "thin"]
        \/ run'[p] = Blank
        \/ run'[p] = [run[p] EXCEPT !.pc = "flush_final", !.buffer = MissingRows(run[p])]
    BY <1>1, LocalStep DEF Finalize
  <2> QED
    BY <2>1, RunFields DEF Kept
<1>2. CASE ThinDay(p)
  <2>1. PICK S : run'[p] = [run[p] EXCEPT !.pc = "flush_thin", !.buffer = S]
    BY <1>2, LocalStep DEF ThinDay
  <2> QED
    BY <2>1, RunFields DEF Kept
<1>3. CASE FlushDone(p)
  <2>1. run'[p] = Blank \/ run'[p] = [run[p] EXCEPT !.pc = AfterFlush[@]]
    BY <1>3, LocalStep DEF FlushDone
  <2> QED
    BY <2>1, RunFields DEF Kept
<1>4. ASSUME NEW b \in Bucket, Flush(p, b)
      PROVE  /\ run'[p].active = run[p].active /\ run'[p].outcome = run[p].outcome
             /\ Kept(run[p], run'[p])
  <2>1. PICK S : run'[p] = [run[p] EXCEPT !.buffer = S]
    BY <1>4, LocalStep DEF Flush
  <2> QED
    BY <2>1, RunFields DEF Kept
<1> QED
  BY <1>1, <1>2, <1>3, <1>4

LEMMA VisibleInductive ==
    ASSUME TypeOK, NEW p \in Proc, Start(p) \/ Step(p) \/ Crash(p),
           Consistent(run[p]), Visible(index, run[p])
    PROVE  Visible(index', run'[p])
<1> DEFINE late == {"flush_final", "thin", "flush_thin", "ok"}
<1>0. Blank.pc = "idle" /\ Visible(index', Blank)
  BY DEF Blank, Visible
<1>K. ASSUME run'[p].active = run[p].active, run'[p].outcome = run[p].outcome,
             Kept(run[p], run'[p])
      PROVE  /\ Unrecovered(run'[p]) = Unrecovered(run[p])
             /\ \A v : FailureKey(run'[p], v) = FailureKey(run[p], v)
  BY <1>K DEF Kept, Unrecovered, WithOutcome, FailureKey
\* Before the last stages there is nothing to show.
<1>1. CASE Start(p) \/ RejectAll(p) \/ Crash(p)
  BY <1>0, <1>1, StartEffect, BlankEffect DEF Visible
<1>2. CASE Fetch(p) \/ ZeroRecords(p) \/ PreStamp(p) \/ Seed(p) \/ StampEmptyOk(p)
           \/ RetryFetch(p) \/ CloseRetry(p)
  <2>1. run'[p].pc \notin late
    <3>1. CASE Fetch(p) \/ ZeroRecords(p)
      BY <3>1, FetchEffect, ZeroRecordsEffect
    <3>2. CASE PreStamp(p) \/ Seed(p) \/ StampEmptyOk(p)
      BY <3>2, PreStampEffect, SeedEffect, StampEmptyOkEffect
    <3>3. CASE RetryFetch(p) \/ CloseRetry(p)
      BY <3>3, RetryEffect
    <3> QED
      BY <1>2, <3>1, <3>2, <3>3
  <2> QED
    BY <2>1 DEF Visible
<1>3. ASSUME NEW v \in Venue, WriteVenue(p, v) \/ WriteFails(p, v)
      PROVE  Visible(index', run'[p])
  <2>1. run'[p].pc \in {"write", "rewrite"}
    BY <1>3, WriteVenueEffect, WriteFailsEffect
  <2> QED
    BY <2>1 DEF Visible
\* Finalize stamps the missing venues, unless there is none.
<1>4. CASE Finalize(p)
  <2>1. CASE run'[p] = Blank
    BY <1>0, <2>1
  <2>2. CASE run'[p] # Blank
    <3>1. /\ Unrecovered(run'[p]) = Unrecovered(run[p])
          /\ \A v : FailureKey(run'[p], v) = FailureKey(run[p], v)
      BY <1>4, <1>K, <2>2, LastStagesKeep
    <3>2. \/ MissingShards(run[p]) = {}
          \/ run'[p].buffer = MissingRows(run[p])
      <4>1. CASE MissingShards(run[p]) = {}
        BY <4>1
      <4>2. CASE MissingShards(run[p]) # {}
        <5>1. \/ Local(p, Blank)
              \/ Local(p, [run[p] EXCEPT !.pc = "flush_final", !.buffer = MissingRows(run[p])])
          BY <1>4, <4>2 DEF Finalize
        <5>2. run'[p] = [run[p] EXCEPT !.pc = "flush_final", !.buffer = MissingRows(run[p])]
          BY <2>2, <5>1, LocalStep
        <5> QED
          BY <5>2, RunFields
      <4> QED
        BY <4>1, <4>2
    <3>3. ASSUME NEW v \in Unrecovered(run[p])
          PROVE  Says(Merge(index', run'[p].buffer), FailureKey(run[p], v), FailureRow(v))
      <4>1. v \in MissingShards(run[p])
        BY UnrecoveredMissing
      <4>2. Says(run'[p].buffer, FailureKey(run[p], v), FailureRow(v))
        BY <3>2, <4>1, MissingRowsSay
      <4> QED
        BY <4>2 DEF Says, Merge
    <3> QED
      BY <3>1, <3>3 DEF Visible
  <2> QED
    BY <2>1, <2>2
\* The thin-day rows are about venues that were written.
<1>5. CASE ThinDay(p)
  <2>1. /\ index' = index /\ run[p].pc = "thin" /\ run'[p].pc = "flush_thin"
        /\ run[p].buffer = NoRows
    BY <1>5, ThinDayEffect DEF Consistent, Flushing
  <2>2. run'[p] # Blank
    BY <1>0, <2>1
  <2>3. /\ Unrecovered(run'[p]) = Unrecovered(run[p])
        /\ \A v : FailureKey(run'[p], v) = FailureKey(run[p], v)
    BY <1>5, <1>K, <2>2, LastStagesKeep
  <2>4. \A k \in DOMAIN run'[p].buffer : k.venue \in run[p].counts
    <3> DEFINE keys(thin) == {VenueKey(PrimaryBucket(run[p].dispatch), v) : v \in thin}
    <3>1. PICK thin \in SUBSET run[p].counts :
             Local(p, [run[p] EXCEPT !.pc = "flush_thin", !.buffer = Stamp(keys(thin), "failed")])
      BY <1>5 DEF ThinDay
    <3>2. run'[p] = [run[p] EXCEPT !.pc = "flush_thin", !.buffer = Stamp(keys(thin), "failed")]
      BY <3>1, LocalStep
    <3>3. \A k \in keys(thin) : k.venue \in run[p].counts
      BY DEF VenueKey
    <3> HIDE DEF keys
    <3>4. run'[p].buffer = Stamp(keys(thin), "failed")
      BY <3>2, RunFields
    <3> QED
      BY <3>3, <3>4 DEF Stamp
  <2>5. ASSUME NEW v \in Unrecovered(run[p])
        PROVE  Says(Merge(index', run'[p].buffer), FailureKey(run[p], v), FailureRow(v))
    <3>1. Says(index, FailureKey(run[p], v), FailureRow(v))
      BY <2>1, SaysNoRows DEF Visible
    <3>2. FailureKey(run[p], v) \notin DOMAIN run'[p].buffer
      BY <2>4 DEF Unrecovered, FailureKey, VenueKey
    <3> QED
      BY <2>1, <3>1, <3>2 DEF Says, Merge
  <2> QED
    BY <2>3, <2>5 DEF Visible
<1>6. ASSUME NEW b \in Bucket, Flush(p, b)
      PROVE  Visible(index', run'[p])
  <2> DEFINE mine == InBucket(run[p].buffer, b)
  <2>1. /\ index' = Merge(index, Only(run[p].buffer, mine))
        /\ run[p].pc \in Flushing /\ run'[p].pc = run[p].pc
        /\ run'[p].buffer = Only(run[p].buffer, DOMAIN run[p].buffer \ mine)
    BY <1>6, FlushEffect
  <2>2. run'[p] # Blank
    BY <1>0, <2>1 DEF Flushing
  <2>3. /\ Unrecovered(run'[p]) = Unrecovered(run[p])
        /\ \A v : FailureKey(run'[p], v) = FailureKey(run[p], v)
    BY <1>6, <1>K, <2>2, LastStagesKeep
  <2>4. mine \in SUBSET DOMAIN run[p].buffer
    BY DEF InBucket
  <2> HIDE DEF mine
  <2>5. ASSUME NEW v \in Unrecovered(run[p]), run[p].pc \in late
        PROVE  Says(Merge(index', run'[p].buffer), FailureKey(run[p], v), FailureRow(v))
    <3>1. Says(Merge(index, run[p].buffer), FailureKey(run[p], v), FailureRow(v))
      BY <2>5 DEF Visible
    <3> QED
      BY <2>1, <2>4, <3>1, FlushSays
  <2> QED
    BY <2>1, <2>3, <2>5 DEF Visible
<1>7. CASE FlushDone(p)
  <2>1. /\ index' = index /\ run[p].pc \in Flushing /\ run[p].buffer = NoRows
        /\ \/ run'[p] = Blank
           \/ run'[p].pc = AfterFlush[run[p].pc] /\ run'[p].buffer = NoRows
    BY <1>7, FlushDoneEffect
  <2>2. CASE run'[p] = Blank
    BY <1>0, <2>2
  <2>3. CASE run'[p] # Blank
    <3>1. /\ Unrecovered(run'[p]) = Unrecovered(run[p])
          /\ \A v : FailureKey(run'[p], v) = FailureKey(run[p], v)
      BY <1>7, <1>K, <2>3, LastStagesKeep
    <3>2. run'[p].pc \in late => run[p].pc \in late
      <4>1. run[p].pc # "flush_raise"
        BY <1>7, <2>3, LocalStep DEF FlushDone
      <4> QED
        BY <2>1, <2>3, <4>1 DEF Flushing, AfterFlush
    <3> QED
      BY <2>1, <2>3, <3>1, <3>2 DEF Visible
  <2> QED
    BY <2>2, <2>3
<1> QED
  BY <1>1, <1>2, <1>3, <1>4, <1>5, <1>6, <1>7 DEF Step

\* After an accepted run each CeFi or TradFi venue (each venue at all in live mode) whose
\* fetches all failed is on record as failed, or as closed: neither the gap seeded before
\* nor a thin-day row written after replaces that row.
THEOREM FailuresVisible == ASSUME OneRunner PROVE Spec => []FailureVisible
<1>1. Init => AllVisible /\ AllConsistent
  <2>1. Consistent(Blank) /\ \A idx : Visible(idx, Blank)
    BY EmptyConsistent DEF Blank, Visible
  <2> QED
    BY <2>1 DEF Init, AllVisible, AllConsistent
<1>2. TypeOK /\ AllConsistent /\ AllVisible /\ [Next]_vars => AllVisible' /\ AllConsistent'
  <2> SUFFICES ASSUME TypeOK, AllConsistent, AllVisible, [Next]_vars, NEW q \in Proc
               PROVE  Visible(index', run'[q]) /\ Consistent(run'[q])
    BY DEF AllVisible, AllConsistent
  <2>1. CASE UNCHANGED vars
    BY <2>1 DEF vars, AllVisible, AllConsistent
  <2>2. CASE Next
    <3>1. Start(q) \/ Step(q) \/ Crash(q)
      BY <2>2 DEF Next, OneRunner
    <3> QED
      BY <3>1, ConsistentInductive, VisibleInductive DEF AllVisible, AllConsistent
  <2> QED
    BY <2>1, <2>2
<1>3. AllVisible /\ AllConsistent => FailureVisible
  <2> SUFFICES ASSUME AllVisible, AllConsistent, NEW p \in Proc, run[p].pc = "ok",
                      NEW v \in Unrecovered(run[p])
               PROVE  Says(index, FailureKey(run[p], v), FailureRow(v))
    BY DEF FailureVisible, Unrecovered, Says, FailureKey, FailureRow
  <2>1. run[p].buffer = NoRows
    BY DEF AllConsistent, Consistent, Flushing
  <2> QED
    BY <2>1, SaysNoRows DEF AllVisible, Visible
<1> QED
  BY <1>1, <1>2, <1>3, TypeSafe, PTL DEF Spec

-----------------------------------------------------------------------------
(* Gaps are seeded only where the manifest has no row.                     *)

\* The inductive invariant: the lookup of a seed stays true until its row is flushed.
SeedsUnseen(idx, r) ==
    \A k \in DOMAIN r.buffer : r.buffer[k] = "unattempted" => k \notin DOMAIN idx

AllSeedsUnseen == \A p \in Proc : SeedsUnseen(index, run[p])

LEMMA NoSeeds ==
    ASSUME NEW idx, NEW r, \A k \in DOMAIN r.buffer : r.buffer[k] # "unattempted"
    PROVE  SeedsUnseen(idx, r)
BY DEF SeedsUnseen

LEMMA NoSeedsStamped ==
    ASSUME NEW idx, NEW r, NEW S, NEW s, s # "unattempted", r.buffer = Stamp(S, s)
    PROVE  SeedsUnseen(idx, r)
BY DEF SeedsUnseen, Stamp

LEMMA NoSeedsBlank ==
    ASSUME NEW idx, NEW r, r.buffer = NoRows \/ r = Blank
    PROVE  SeedsUnseen(idx, r)
BY DEF SeedsUnseen, NoRows, Blank

LEMMA SeedRowsUnseen ==
    ASSUME NEW idx, NEW d, NEW counts, NEW k \in DOMAIN SeedRows(idx, d, counts)
    PROVE  k \notin DOMAIN idx
<1> DEFINE open == {v \in TargetUniverse(d) : SeedLookup(idx, AssetGroup[v], v) = {}}
<1>1. PICK v \in open : k = SeedKey(AssetGroup[v], v)
  BY DEF SeedRows, Merge, Stamp
<1> QED
  BY <1>1 DEF SeedLookup

LEMMA SeedsUnseenInductive ==
    ASSUME TypeOK, NEW p \in Proc, Start(p) \/ Step(p) \/ Crash(p),
           Consistent(run[p]), SeedsUnseen(index, run[p])
    PROVE  SeedsUnseen(index', run'[p])
<1>1. CASE Start(p) \/ RejectAll(p) \/ Crash(p) \/ FlushDone(p)
  BY <1>1, StartEffect, BlankEffect, FlushDoneEffect, NoSeedsBlank
<1>2. CASE Fetch(p)
  BY <1>2, FetchEffect DEF SeedsUnseen
<1>3. CASE ZeroRecords(p)
  BY <1>3, ZeroRecordsEffect, NoSeedsStamped DEF SeedsUnseen
<1>4. CASE PreStamp(p)
  <2> DEFINE keys == {VenueKey(VenueBucket(run[p].dispatch, v), v) : v \in run'[p].counts}
  <2>1. run'[p].buffer = Stamp(keys, "expected_empty")
    BY <1>4, PreStampEffect
  <2> HIDE DEF keys
  <2> QED
    BY <2>1, NoSeedsStamped
<1>5. ASSUME NEW v \in Venue, WriteVenue(p, v) \/ WriteFails(p, v)
      PROVE  SeedsUnseen(index', run'[p])
  <2>1. /\ run[p].pc \in {"write", "rewrite"}
        /\ \/ run'[p].buffer = run[p].buffer
           \/ run'[p].buffer =
                Merge(run[p].buffer, Stamp({TypeKey(WriteBucket(run[p], v), v)}, "captured"))
    BY <1>5, WriteVenueEffect, WriteFailsEffect
  <2>2. \A k \in DOMAIN run'[p].buffer : run'[p].buffer[k] \in {"captured", "expected_empty"}
    BY <2>1 DEF Consistent, Merge, Stamp
  <2> QED
    BY <2>2, NoSeeds
<1>6. CASE Seed(p)
  <2> DEFINE seeds == SeedRows(index, run[p].dispatch, run[p].counts)
  <2>1. index' = index /\ run[p].pc = "write" /\ run'[p].buffer = Merge(run[p].buffer, seeds)
    BY <1>6, SeedEffect
  <2>2. \A k \in DOMAIN run[p].buffer : run[p].buffer[k] \in {"captured", "expected_empty"}
    BY <2>1 DEF Consistent
  <2>3. \A k \in DOMAIN seeds : k \notin DOMAIN index
    BY SeedRowsUnseen
  <2> HIDE DEF seeds
  <2> QED
    BY <2>1, <2>2, <2>3 DEF SeedsUnseen, Merge
<1>7. ASSUME NEW b \in Bucket, Flush(p, b)
      PROVE  SeedsUnseen(index', run'[p])
  <2> DEFINE mine == InBucket(run[p].buffer, b)
  <2>1. /\ index' = Merge(index, Only(run[p].buffer, mine))
        /\ run'[p].buffer = Only(run[p].buffer, DOMAIN run[p].buffer \ mine)
    BY <1>7, FlushEffect
  <2> HIDE DEF mine
  <2> QED
    BY <2>1 DEF SeedsUnseen, Merge, Only
<1>8. CASE StampEmptyOk(p)
  <2> DEFINE keys == {VenueKey(VenueBucket(run[p].dispatch, v), v) : v \in EmptyOkVenues(run[p])}
  <2>1. run'[p].buffer = Stamp(keys, "zero")
    BY <1>8, StampEmptyOkEffect
  <2> HIDE DEF keys
  <2> QED
    BY <2>1, NoSeedsStamped
<1>9. CASE RetryFetch(p) \/ CloseRetry(p)
  BY <1>9, RetryEffect DEF SeedsUnseen
<1>10. CASE Finalize(p)
  <2>1. \/ run'[p] = Blank
        \/ run'[p].buffer = run[p].buffer /\ index' = index
        \/ run'[p].buffer = MissingRows(run[p])
    BY <1>10, FinalizeEffect
  <2>2. \A k \in DOMAIN MissingRows(run[p]) : MissingRows(run[p])[k] # "unattempted"
    BY DEF MissingRows, Merge, Stamp
  <2> QED
    BY <2>1, <2>2, NoSeeds, NoSeedsBlank DEF SeedsUnseen
<1>11. CASE ThinDay(p)
  BY <1>11, ThinDayEffect, NoSeedsStamped
<1> QED
  BY <1>1, <1>2, <1>3, <1>4, <1>5, <1>6, <1>7, <1>8, <1>9, <1>10, <1>11 DEF Step

LEMMA SeedsUnseenSafe == ASSUME OneRunner PROVE Spec => [](AllConsistent /\ AllSeedsUnseen)
<1>1. Init => AllConsistent /\ AllSeedsUnseen
  <2>1. Consistent(Blank) /\ \A idx : SeedsUnseen(idx, Blank)
    BY EmptyConsistent, NoSeedsBlank DEF Blank
  <2> QED
    BY <2>1 DEF Init, AllConsistent, AllSeedsUnseen
<1>2. TypeOK /\ AllConsistent /\ AllSeedsUnseen /\ [Next]_vars => (AllConsistent /\ AllSeedsUnseen)'
  <2> SUFFICES ASSUME TypeOK, AllConsistent, AllSeedsUnseen, [Next]_vars, NEW q \in Proc
               PROVE  Consistent(run'[q]) /\ SeedsUnseen(index', run'[q])
    BY DEF AllConsistent, AllSeedsUnseen
  <2>1. CASE UNCHANGED vars
    BY <2>1 DEF vars, AllConsistent, AllSeedsUnseen
  <2>2. CASE Next
    <3>1. Start(q) \/ Step(q) \/ Crash(q)
      BY <2>2 DEF Next, OneRunner
    <3> QED
      BY <3>1, ConsistentInductive, SeedsUnseenInductive DEF AllConsistent, AllSeedsUnseen
  <2> QED
    BY <2>1, <2>2
<1> QED
  BY <1>1, <1>2, TypeSafe, PTL DEF Spec

\* Only a flush changes the index.
LEMMA IndexSteps ==
    ASSUME NEW p \in Proc, Start(p) \/ Step(p) \/ Crash(p), ~ \E b \in Bucket : Flush(p, b)
    PROVE  index' = index
BY DEF Start, Skip, Begin, Crash, Step, Fetch, ZeroRecords, RejectAll, PreStamp, WriteVenue,
   WriteFails, Seed, FlushDone, StampEmptyOk, RetryFetch, CloseRetry, Finalize, ThinDay

\* A step turns no row into a gap.
LEMMA GapsNotOverRows ==
    ASSUME TypeOK, AllSeedsUnseen, [Next]_vars, NEW k \in DOMAIN index, index'[k] = "unattempted"
    PROVE  index[k] = "unattempted"
<1>1. CASE UNCHANGED vars
  BY <1>1 DEF vars
<1>2. CASE Next
  <2>1. PICK p \in Proc : Start(p) \/ Step(p) \/ Crash(p)
    BY <1>2 DEF Next
  <2>2. CASE \E b \in Bucket : Flush(p, b)
    <3>1. PICK b \in Bucket : index' = Merge(index, Only(run[p].buffer, InBucket(run[p].buffer, b)))
      BY <2>2, FlushEffect
    <3>2. SeedsUnseen(index, run[p])
      BY DEF AllSeedsUnseen
    <3> QED
      BY <3>1, <3>2 DEF SeedsUnseen, Merge, Only, InBucket
  <2>3. CASE ~ \E b \in Bucket : Flush(p, b)
    BY <2>1, <2>3, IndexSteps
  <2> QED
    BY <2>2, <2>3
<1> QED
  BY <1>1, <1>2

\* The seeding of a run never replaces a row that says more than a gap.
THEOREM SeedsNeverMask == ASSUME OneRunner PROVE Spec => SeedNeverMasks
<1> DEFINE A == \A k \in DOMAIN index : index'[k] = "unattempted" => index[k] = "unattempted"
<1>1. TypeOK /\ AllSeedsUnseen /\ [Next]_vars => [A]_vars
  BY GapsNotOverRows
<1> QED
  BY <1>1, SeedsUnseenSafe, TypeSafe, PTL DEF Spec, SeedNeverMasks

-----------------------------------------------------------------------------
(* The runs implement HonestCoverage.                                      *)

Said(v) == {index[k] : k \in RowsOf(index, AssetGroup[v], v)}

\* What the level of a cell tells of the rows of its venue.
LEMMA CellMeans ==
    ASSUME IsIndex(index), NEW v \in Venue
    PROVE  /\ CellOf(v) \in {"absent", "gap", "failed", "empty", "captured"}
           /\ CellOf(v) = "captured" <=> "captured" \in Said(v)
           /\ CellOf(v) = "absent" <=> Said(v) = {}
           /\ CellOf(v) = "gap" <=> Said(v) = {"unattempted"}
<1> DEFINE said == Said(v)
<1>1. said \subseteq {"captured", "zero", "expected_empty", "unattempted", "failed"}
  BY DEF Said, RowsOf, IsIndex, Status
<1>2. CellOf(v) = CASE "captured" \in said -> "captured"
          [] "captured" \notin said /\ "failed" \in said -> "failed"
          [] said \cap {"captured", "failed"} = {} /\ said \cap {"zero", "expected_empty"} # {} -> "empty"
          [] said = {"unattempted"} -> "gap"
          [] said = {} -> "absent"
  BY DEF CellOf, Said
<1> HIDE DEF said
<1>3. CASE "captured" \in said
  BY <1>2, <1>3 DEF said
<1>4. CASE "captured" \notin said /\ "failed" \in said
  BY <1>2, <1>4 DEF said
<1>5. CASE said \cap {"captured", "failed"} = {} /\ said \cap {"zero", "expected_empty"} # {}
  BY <1>2, <1>5 DEF said
<1>6. CASE said = {"unattempted"}
  BY <1>2, <1>6 DEF said
<1>7. CASE said = {}
  BY <1>2, <1>7 DEF said
<1> QED
  BY <1>1, <1>3, <1>4, <1>5, <1>6, <1>7

\* The same of the cell after a step.
LEMMA CellMeansNext ==
    ASSUME IsIndex(index'), NEW v \in Venue
    PROVE  /\ CellOf(v)' \in {"absent", "gap", "failed", "empty", "captured"}
           /\ CellOf(v)' = "captured" <=> "captured" \in Said(v)'
           /\ CellOf(v)' = "absent" <=> Said(v)' = {}
           /\ CellOf(v)' = "gap" <=> Said(v)' = {"unattempted"}
<1> DEFINE said == Said(v)'
<1>1. said \subseteq {"captured", "zero", "expected_empty", "unattempted", "failed"}
  BY DEF Said, RowsOf, IsIndex, Status
<1>2. CellOf(v)' = CASE "captured" \in said -> "captured"
          [] "captured" \notin said /\ "failed" \in said -> "failed"
          [] said \cap {"captured", "failed"} = {} /\ said \cap {"zero", "expected_empty"} # {} -> "empty"
          [] said = {"unattempted"} -> "gap"
          [] said = {} -> "absent"
  BY DEF CellOf, Said
<1> HIDE DEF said
<1>3. CASE "captured" \in said
  BY <1>2, <1>3 DEF said
<1>4. CASE "captured" \notin said /\ "failed" \in said
  BY <1>2, <1>4 DEF said
<1>5. CASE said \cap {"captured", "failed"} = {} /\ said \cap {"zero", "expected_empty"} # {}
  BY <1>2, <1>5 DEF said
<1>6. CASE said = {"unattempted"}
  BY <1>2, <1>6 DEF said
<1>7. CASE said = {}
  BY <1>2, <1>7 DEF said
<1> QED
  BY <1>1, <1>3, <1>4, <1>5, <1>6, <1>7

\* A step of the runner adds to what a cell says, or leaves it.
LEMMA CellsGrow ==
    ASSUME TypeOK, TypeOK', AllSorted, AllSorted', AllSeedsUnseen, Next, NEW v \in Venue
    PROVE  Coverage!MayBecome(CellOf(v), CellOf(v)')
<1> DEFINE mine == RowsOf(index, AssetGroup[v], v)
<1>0. IsIndex(index) /\ IsIndex(index')
  BY DEF TypeOK
<1>1. \A k \in mine : k \in RowsOf(index, AssetGroup[v], v)'
  BY RowsKept DEF Next, RowsOf
<1>2. \A k \in mine : index[k] = "captured" => index'[k] = "captured"
  BY <1>1 DEF AllSorted, Sorted, RowsOf
<1>3. \A k \in mine : index'[k] = "unattempted" => index[k] = "unattempted"
  BY GapsNotOverRows DEF RowsOf
<1>4. "captured" \in Said(v) => "captured" \in Said(v)'
  BY <1>1, <1>2 DEF Said
<1>5. Said(v)' = {} => Said(v) = {}
  BY <1>1 DEF Said
<1>6. Said(v)' = {"unattempted"} => Said(v) \subseteq {"unattempted"}
  BY <1>1, <1>3 DEF Said
<1>7. CellOf(v) = "captured" => CellOf(v)' = "captured"
  BY <1>0, <1>4, CellMeans, CellMeansNext
<1>8. CellOf(v)' = "absent" => CellOf(v) = "absent"
  BY <1>0, <1>5, CellMeans, CellMeansNext
<1>9. CellOf(v)' = "gap" => CellOf(v) \in {"gap", "absent"}
  <2>1. Said(v) \subseteq {"unattempted"} => Said(v) = {"unattempted"} \/ Said(v) = {}
    OBVIOUS
  <2> QED
    BY <1>0, <1>6, <2>1, CellMeans, CellMeansNext
<1>10. /\ CellOf(v) \in {"absent", "gap", "failed", "empty", "captured"}
       /\ CellOf(v)' \in {"absent", "gap", "failed", "empty", "captured"}
  BY <1>0, CellMeans, CellMeansNext
<1> QED
  BY <1>7, <1>8, <1>9, <1>10 DEF Coverage!MayBecome

\* A cell reads captured only when its data is stored.
LEMMA CapturedStored ==
    ASSUME TypeOK', CapturedHasObject', NEW v \in Venue, CellOf(v)' = "captured"
    PROVE  <<AssetGroup[v], v>> \in objects'
<1>1. "captured" \in Said(v)'
  BY CellMeansNext DEF TypeOK
<1>2. PICK k \in RowsOf(index, AssetGroup[v], v)' : index'[k] = "captured"
  BY <1>1 DEF Said
<1> QED
  BY <1>2 DEF RowsOf, CapturedHasObject

\* Objects stay, and no step writes both an object and the index.
LEMMA StoredGrows ==
    ASSUME TypeOK, NEW p \in Proc, Start(p) \/ Step(p) \/ Crash(p)
    PROVE  /\ objects \subseteq objects'
           /\ index' = index \/ objects' = objects
<1>1. CASE \E b \in Bucket : Flush(p, b)
  BY <1>1, FlushEffect
<1>2. CASE \E v \in Venue : WriteVenue(p, v) \/ WriteFails(p, v)
  BY <1>2, WriteVenueEffect, WriteFailsEffect
<1>3. CASE ~ (\E b \in Bucket : Flush(p, b)) /\ ~ \E v \in Venue : WriteVenue(p, v) \/ WriteFails(p, v)
  BY <1>3 DEF Start, Skip, Begin, Crash, Step, Fetch, ZeroRecords, RejectAll, PreStamp,
     Seed, FlushDone, StampEmptyOk, RetryFetch, CloseRetry, Finalize, ThinDay
<1> QED
  BY <1>1, <1>2, <1>3

LEMMA CoverageStep ==
    ASSUME TypeOK, TypeOK', AllSorted, AllSorted', AllSeedsUnseen,
           CapturedHasObject', [Next]_vars
    PROVE  [Coverage!Next]_<<[v \in Venue |-> CellOf(v)],
                             {v \in Venue : <<AssetGroup[v], v>> \in objects}>>
<1> DEFINE cell == [v \in Venue |-> CellOf(v)]
           stored == {v \in Venue : <<AssetGroup[v], v>> \in objects}
<1>1. ASSUME index' = index PROVE cell' = cell
  BY <1>1 DEF CellOf, RowsOf
<1>2. CASE UNCHANGED vars
  BY <1>1, <1>2 DEF vars
<1>3. CASE Next
  <2>1. PICK p \in Proc : Start(p) \/ Step(p) \/ Crash(p)
    BY <1>3 DEF Next
  <2>2. CASE index' = index
    <3>1. stored \subseteq stored' /\ stored' \subseteq Venue
      BY <2>1, StoredGrows
    <3> QED
      BY <1>1, <2>2, <3>1 DEF Coverage!Next, Coverage!Store
  <2>3. CASE objects' = objects
    <3>1. \A v \in Venue : CellOf(v)' \in Coverage!Level
      BY CellMeansNext DEF TypeOK, Coverage!Level
    <3>2. cell' \in [Venue -> Coverage!Level]
      BY <3>1
    <3>3. \A v \in Venue : cell[v] = CellOf(v) /\ cell'[v] = CellOf(v)'
      OBVIOUS
    <3>4. \A v \in Venue : Coverage!MayBecome(CellOf(v), CellOf(v)')
      BY <1>3, CellsGrow
    <3>5. \A v \in Venue : CellOf(v)' = "captured" => v \in stored
      BY <2>3, CapturedStored
    <3>6. stored' = stored
      BY <2>3
    <3> HIDE DEF cell, stored
    <3>7. Coverage!Report
      BY <3>2, <3>3, <3>4, <3>5, <3>6 DEF Coverage!Report, cell, stored
    <3> QED
      BY <3>7 DEF Coverage!Next
  <2> QED
    BY <2>1, <2>2, <2>3, StoredGrows
<1> QED
  BY <1>2, <1>3

\* While one runner works on the date, every step of it is a step of the abstract
\* specification: cells only gain information, and no cell reads captured without data.
THEOREM RunImplementsCoverage == ASSUME OneRunner PROVE Spec => ImplementsCoverage
<1>1. Init => Coverage!Init
  <2> SUFFICES ASSUME Init PROVE Coverage!Init
    OBVIOUS
  <2>1. \A v \in Venue : Said(v) = {}
    BY DEF Init, Said, RowsOf, NoRows
  <2>2. IsIndex(index)
    BY NoRowsTyped DEF Init
  <2>3. \A v \in Venue : CellOf(v) = "absent"
    BY <2>1, <2>2, CellMeans
  <2> QED
    BY <2>3 DEF Init, Coverage!Init
<1> QED
  BY <1>1, CoverageStep, TypeSafe, SortedSafe, SeedsUnseenSafe, CapturedSafe, PTL
     DEF Spec, ImplementsCoverage, Coverage!Spec
=============================================================================
