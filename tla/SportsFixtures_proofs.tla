----------------------- MODULE SportsFixtures_proofs -----------------------
(***************************************************************************)
(* What the batch, the re-poll and the status refresh leave of a date's    *)
(* fixtures, for all schedules, leagues and answers: a captured league has *)
(* a file, whatever runners are at work; with one runner at a time, the    *)
(* row of a match that is over stays, its outcome agrees with it, and only *)
(* a run that found no fixture at all masks a captured league.             *)
(***************************************************************************)
EXTENDS SportsFixtures, SportsManifest_proofs

Answers == UNION {[S -> Live] : S \in SUBSET Fixture}
RunType == [pc : Stage, kind : Kind, seen : Answers, todo : SUBSET League,
            league : League \cup {NoLeague}, buffer : RowSet, over : SUBSET Fixture]

Typed == /\ window \in Window /\ listed \subseteq Fixture
         /\ status \in [Fixture -> Live]
         /\ stored \in [Fixture -> Live \cup {"none"}]
         /\ outcome \subseteq Fixture /\ venue \subseteq League
         /\ index \in RowSet
         /\ run \in [Proc -> RunType]

-----------------------------------------------------------------------------
(* Any number of runners.                                                  *)

\* The re-poll asks for leagues of the write universe only.
PollsTracked == Polled \subseteq Tracked

\* The leagues with a row in the schedule, and those with a file of either kind.
Rowed == Leagues({f \in Fixture : stored[f] # "none"})
Filed == venue \cup Rowed

\* A captured row has a file as soon as it is buffered.
Backed(rows, filed) == \A k \in Captured(rows) : k[2] \in filed

\* A run asks again only for leagues of the write universe; of the leagues it writes, those
\* to come are in its answer and the others are stored.
Fine(r, rowed, filed) ==
    /\ r.pc = "season" => r.todo \subseteq Tracked
    /\ r.pc = "byid" => Leagues(DOMAIN r.seen) \subseteq Tracked
    /\ r.pc \in {"write", "outcome"} =>
          /\ r.kind # "batch" => Leagues(DOMAIN r.seen) \subseteq Tracked
          /\ r.todo \subseteq Tracked \cap Leagues(DOMAIN r.seen)
          /\ (Tracked \cap Leagues(DOMAIN r.seen)) \ r.todo \subseteq rowed
    /\ r.pc \in {"venue", "markers", "ensure"} => r.kind = "batch"
    /\ Backed(r.buffer, filed)

IInv == /\ Typed /\ Rowed \subseteq Tracked
        /\ Backed(index, Filed)
        /\ \A p \in Proc : Fine(run[p], Rowed, Filed)

-----------------------------------------------------------------------------
(* One runner at a time.                                                   *)

OneRunner == \A p, q \in Proc : p = q

\* Every league that may be stored can be asked for by its season list.
TracksResolved == Tracked \subseteq Resolved

\* The fixtures with a schedule row that is not over, and the leagues a run is about to
\* replace.
Stale(rows) == {f \in Fixture : rows[f] \notin Terminal \cup {"none"}}
Ahead(r, rows) == IF r.pc = "byid" THEN Leagues(DOMAIN r.seen \cup Stale(rows)) ELSE r.todo

\* What an answer says is over is over.
Truthful(r, said) == \A f \in DOMAIN r.seen : r.seen[f] = "FT" => said[f] = "FT"

\* A match that is stored as over, in a league to be replaced, is over in the answer too.
Complete(r, rows, matches) ==
    r.pc \in {"season", "byid", "write", "outcome"} =>
        \A f \in matches : rows[f] = "FT" /\ LeagueOf[f] \in Ahead(r, rows)
            => f \in DOMAIN r.seen /\ r.seen[f] = "FT"

\* The refresh asks for every stale league, and for no other.
Asked(r, rows) == r.pc = "season" => r.todo = Leagues(Stale(rows))

\* The outcomes about to be written are those of the schedule just written.
Agreed(r, rows) == r.pc = "outcome" =>
    \A f \in DOMAIN r.seen \cap InLeague(r.league) : rows[f] = r.seen[f]

\* An absence waits in the buffer of a run that is done, which saw no fixture at all or
\* found the league uncaptured.
Unmasked(r, manifest) ==
    /\ \A k \in DOMAIN r.buffer : r.buffer[k] \in Absence
          => r.pc = "close" /\ (r.seen = Nothing \/ k \notin Captured(manifest))
    /\ r.pc = "markers" => r.seen = Nothing

Sure(r) == /\ Truthful(r, status) /\ Complete(r, stored, listed)
           /\ Asked(r, stored) /\ Agreed(r, stored) /\ Unmasked(r, index)

\* What is stored as over is over.
Final == /\ \A f \in Fixture : stored[f] = "FT" => status[f] = "FT"
         /\ \A f \in outcome : status[f] = "FT"

Solo == Final /\ OutcomeHasRow /\ \A p \in Proc : Sure(run[p])

-----------------------------------------------------------------------------
(* Answers, rows and the record of a run.                                  *)

LEMMA AnswersAre ==
    /\ \A x \in Answers : DOMAIN x \in SUBSET Fixture /\ \A f \in DOMAIN x : x[f] \in Live
    /\ \A S \in SUBSET Fixture : [S -> Live] \subseteq Answers
  BY DEF Answers

LEMMA NothingIs == Nothing \in Answers /\ DOMAIN Nothing = {}
  <1>1. Nothing \in [{} -> Live]
    BY DEF Nothing
  <1>. QED
    BY <1>1, AnswersAre DEF Nothing

LEMMA AnswerIs ==
    ASSUME Typed, NEW S \in SUBSET Fixture
    PROVE  /\ Answer(S) \in Answers /\ DOMAIN Answer(S) = S
           /\ \A f \in S : Answer(S)[f] = status[f]
  <1>1. Answer(S) \in [S -> Live]
    BY DEF Answer, Typed
  <1>. QED
    BY <1>1, AnswersAre DEF Answer

LEMMA LeaguesAre ==
    ASSUME NEW S \in SUBSET Fixture
    PROVE  Leagues(S) \subseteq League /\ \A f \in S : LeagueOf[f] \in Leagues(S)
  BY FixtureAssumption DEF Leagues

\* Rows of one status for some leagues, or for the whole date.
LEMMA RowsAre ==
    ASSUME NEW leagues \in SUBSET (League \cup {NoLeague}), NEW s \in Status
    PROVE  /\ IsRows(Rows(leagues, s))
           /\ DOMAIN Rows(leagues, s) = {Schedule} \X leagues
           /\ \A k \in DOMAIN Rows(leagues, s) : Rows(leagues, s)[k] = s /\ k[2] \in leagues
           /\ s # "captured" => Captured(Rows(leagues, s)) = {}
  <1>. DEFINE keys == {Schedule} \X leagues
  <1>1. keys \in SUBSET Key
    BY FixtureAssumption DEF Key
  <1>2. \A k \in keys : k[2] \in leagues
    OBVIOUS
  <1>. HIDE DEF keys
  <1>3. IsStamp(Stamp(keys, s), keys, s)
    BY <1>1, StampIs
  <1>. QED
    BY <1>2, <1>3 DEF Rows, keys, IsStamp

LEMMA StatusHas == "failed" \in Status /\ "captured" \in Status /\ Absence \subseteq Status
                   /\ "failed" \notin Absence /\ "captured" \notin Absence
  BY DEF Status, Absence

LEMMA BlankIs ==
    /\ Blank \in RunType /\ Blank.pc = "idle" /\ Blank.kind = "none" /\ Blank.seen = Nothing
    /\ Blank.todo = {} /\ Blank.buffer = NoRows /\ Blank.over = {}
  <1>1. NoRows \in RowSet
    BY NoRowsFacts, RowSetIs
  <1>. QED
    BY <1>1, NothingIs DEF Blank, RunType, Stage, Kind

LEMMA RunIs ==
    ASSUME Typed, NEW p \in Proc
    PROVE  /\ run[p] \in RunType /\ IsRows(run[p].buffer) /\ run[p].seen \in Answers
           /\ DOMAIN run[p].seen \in SUBSET Fixture
  <1>1. run[p] \in RunType
    BY DEF Typed
  <1>2. run[p].buffer \in RowSet /\ run[p].seen \in Answers
    BY <1>1 DEF RunType
  <1>. QED
    BY <1>1, <1>2, RowSetIs, AnswersAre

\* Only the runner's own record changes.
Moves(p) == run' \in [Proc -> RunType] /\ \A q \in Proc \ {p} : run'[q] = run[q]

LEMMA LocalMoves ==
    ASSUME Typed, NEW p \in Proc, NEW n \in RunType, Local(p, n)
    PROVE  Moves(p) /\ run'[p] = n
  BY DEF Typed, Local, Moves

-----------------------------------------------------------------------------
(* What each action does to its runner's record.                           *)

Quiet == UNCHANGED <<world, store, index>>

LEMMA DoBatchFetch ==
    ASSUME Typed, NEW p \in Proc, BatchFetch(p)
    PROVE  /\ Moves(p) /\ Quiet
           /\ run'[p].pc = "venue" /\ run'[p].kind = "batch" /\ run'[p].buffer = NoRows
           /\ run'[p].seen = Answer(listed)
  <1>. DEFINE n == [Blank EXCEPT !.pc = "venue", !.kind = "batch", !.seen = Answer(listed),
                                 !.todo = Tracked \cap Leagues(listed)]
  <1>1. Answer(listed) \in Answers /\ Tracked \cap Leagues(listed) \subseteq League
    BY AnswerIs, FixtureAssumption DEF Typed
  <1>2. /\ n \in RunType /\ n.pc = "venue" /\ n.kind = "batch" /\ n.buffer = NoRows
        /\ n.seen = Answer(listed)
    BY <1>1, BlankIs DEF RunType, Stage, Kind
  <1>3. Local(p, n) /\ Quiet
    BY DEF BatchFetch, Quiet
  <1>. HIDE DEF n
  <1>. QED
    BY <1>2, <1>3, LocalMoves

LEMMA DoBatchFetchEmpty ==
    ASSUME Typed, NEW p \in Proc, BatchFetchEmpty(p)
    PROVE  /\ Moves(p) /\ Quiet
           /\ run'[p].pc = "markers" /\ run'[p].kind = "batch" /\ run'[p].buffer = NoRows
           /\ run'[p].seen = Nothing
  <1>. DEFINE n == [Blank EXCEPT !.pc = "markers", !.kind = "batch"]
  <1>1. /\ n \in RunType /\ n.pc = "markers" /\ n.kind = "batch" /\ n.buffer = NoRows
        /\ n.seen = Nothing
    BY BlankIs DEF RunType, Stage, Kind
  <1>2. Local(p, n) /\ Quiet
    BY DEF BatchFetchEmpty, Quiet
  <1>. HIDE DEF n
  <1>. QED
    BY <1>1, <1>2, LocalMoves

LEMMA DoEnsure ==
    ASSUME Typed, NEW p \in Proc, Ensure(p)
    PROVE  /\ Moves(p) /\ Quiet /\ run[p].pc = "ensure"
           /\ run'[p].pc = "write" /\ run'[p].kind = run[p].kind /\ run'[p].buffer = run[p].buffer
           /\ run'[p].seen = Answer(listed) /\ run'[p].todo = Tracked \cap Leagues(listed)
  <1>. DEFINE n == [run[p] EXCEPT !.pc = "write", !.seen = Answer(listed), !.todo = Tracked \cap Leagues(listed)]
  <1>1. Answer(listed) \in Answers /\ Tracked \cap Leagues(listed) \subseteq League
    BY AnswerIs, FixtureAssumption DEF Typed
  <1>2. /\ n \in RunType /\ n.pc = "write" /\ n.kind = run[p].kind /\ n.buffer = run[p].buffer
        /\ n.seen = Answer(listed) /\ n.todo = Tracked \cap Leagues(listed)
    BY <1>1, RunIs DEF RunType, Stage
  <1>3. Local(p, n) /\ Quiet /\ run[p].pc = "ensure"
    BY DEF Ensure, Quiet
  <1>. HIDE DEF n
  <1>. QED
    BY <1>2, <1>3, LocalMoves

LEMMA DoBlank ==
    ASSUME Typed, NEW p \in Proc, EnsureNothing(p) \/ Crash(p)
    PROVE  Moves(p) /\ Quiet /\ run'[p] = Blank
  <1>1. Local(p, Blank) /\ Quiet
    BY DEF EnsureNothing, Crash, Quiet
  <1>. QED
    BY <1>1, BlankIs, LocalMoves

LEMMA DoRepoll ==
    ASSUME Typed, NEW p \in Proc, Repoll(p)
    PROVE  LET found == {f \in listed : LeagueOf[f] \in Polled}
           IN  /\ Moves(p) /\ Quiet /\ found \in SUBSET Fixture
               /\ run'[p].pc = "write" /\ run'[p].kind = "repoll" /\ run'[p].buffer = NoRows
               /\ run'[p].seen = Answer(found) /\ run'[p].todo = Tracked \cap Leagues(found)
  <1>. DEFINE found == {f \in listed : LeagueOf[f] \in Polled}
              n == [Blank EXCEPT !.pc = "write", !.kind = "repoll", !.seen = Answer(found),
                                 !.todo = Tracked \cap Leagues(found)]
  <1>1. Local(p, n) /\ Quiet /\ found \in SUBSET Fixture
    BY DEF Repoll, Quiet, Typed
  <1>. HIDE DEF found
  <1>2. Answer(found) \in Answers /\ Tracked \cap Leagues(found) \subseteq League
    BY <1>1, AnswerIs, FixtureAssumption
  <1>3. /\ n \in RunType /\ n.pc = "write" /\ n.kind = "repoll" /\ n.buffer = NoRows
        /\ n.seen = Answer(found) /\ n.todo = Tracked \cap Leagues(found)
    BY <1>2, BlankIs DEF RunType, Stage, Kind
  <1>. HIDE DEF n
  <1>4. Moves(p) /\ run'[p] = n
    BY <1>1, <1>3, LocalMoves
  <1>. QED
    BY <1>1, <1>3, <1>4 DEF found

\* Both failures of a trigger.
LEMMA DoFails ==
    ASSUME Typed, NEW p \in Proc, RepollFails(p) \/ SeasonFails(p)
    PROVE  /\ Moves(p) /\ Quiet
           /\ run'[p].pc = "close" /\ run'[p].seen = Nothing /\ run'[p].over = {}
           /\ run'[p].buffer = Rows({NoLeague}, "failed")
  <1>1. Rows({NoLeague}, "failed") \in RowSet
    BY RowsAre, RowSetIs, StatusHas
  <1>2. CASE RepollFails(p)
    <2>. DEFINE n == [Blank EXCEPT !.pc = "close", !.kind = "repoll", !.buffer = Rows({NoLeague}, "failed")]
    <2>1. /\ n \in RunType /\ n.pc = "close" /\ n.seen = Nothing /\ n.over = {}
          /\ n.buffer = Rows({NoLeague}, "failed")
      BY <1>1, BlankIs DEF RunType, Stage, Kind
    <2>2. Local(p, n) /\ Quiet
      BY <1>2 DEF RepollFails, Quiet
    <2>. HIDE DEF n
    <2>. QED
      BY <2>1, <2>2, LocalMoves
  <1>3. CASE SeasonFails(p)
    <2>. DEFINE n == [run[p] EXCEPT !.pc = "close", !.seen = Nothing, !.todo = {}, !.over = {},
                                    !.buffer = Rows({NoLeague}, "failed")]
    <2>1. /\ n \in RunType /\ n.pc = "close" /\ n.seen = Nothing /\ n.over = {}
          /\ n.buffer = Rows({NoLeague}, "failed")
      BY <1>1, NothingIs, RunIs DEF RunType, Stage
    <2>2. Local(p, n) /\ Quiet
      BY <1>3 DEF SeasonFails, Quiet
    <2>. HIDE DEF n
    <2>. QED
      BY <2>1, <2>2, LocalMoves
  <1>. QED
    BY <1>2, <1>3

LEMMA DoRepollEmpty ==
    ASSUME Typed, NEW p \in Proc, RepollEmpty(p)
    PROVE  /\ Moves(p) /\ Quiet
           /\ run'[p].pc = "close" /\ run'[p].seen = Nothing /\ Captured(run'[p].buffer) = {}
  <1>. DEFINE rows == [k \in {Schedule} \X Polled |-> RepollReason(k[2])]
              n == [Blank EXCEPT !.pc = "close", !.kind = "repoll", !.buffer = rows]
  <1>1. \A l : RepollReason(l) \in Status /\ RepollReason(l) # "captured"
    BY DEF RepollReason, Status, Absence
  <1>2. {Schedule} \X Polled \in SUBSET Key
    BY FixtureAssumption DEF Key
  <1>3. IsRows(rows) /\ Captured(rows) = {}
    BY <1>1, <1>2 DEF IsRows, Captured
  <1>4. Local(p, n) /\ Quiet
    BY DEF RepollEmpty, Quiet
  <1>. HIDE DEF rows
  <1>5. /\ n \in RunType /\ n.pc = "close" /\ n.seen = Nothing /\ n.buffer = rows
    BY <1>3, RowSetIs, BlankIs DEF RunType, Stage, Kind
  <1>. HIDE DEF n
  <1>. QED
    BY <1>3, <1>4, <1>5, LocalMoves

LEMMA DoScan ==
    ASSUME Typed, NEW p \in Proc, Scan(p)
    PROVE  /\ Moves(p) /\ Quiet
           /\ run'[p].pc = "season" /\ run'[p].kind = "refresh" /\ run'[p].buffer = NoRows
           /\ run'[p].seen = Answer(listed) /\ run'[p].todo = Leagues(Stale(stored))
           /\ run'[p].over = {f \in Stale(stored) : status[f] = "FT"}
  <1>. DEFINE over == {f \in StaleIds : status[f] = "FT"}
              n == [Blank EXCEPT !.pc = "season", !.kind = "refresh", !.seen = Answer(listed),
                                 !.todo = Leagues(StaleIds), !.over = over]
  <1>1. Answer(listed) \in Answers /\ Leagues(StaleIds) \subseteq League
    BY AnswerIs, LeaguesAre DEF Typed, StaleIds
  <1>2. /\ n \in RunType /\ n.pc = "season" /\ n.kind = "refresh" /\ n.buffer = NoRows
        /\ n.seen = Answer(listed) /\ n.todo = Leagues(StaleIds) /\ n.over = over
    <2>1. over \subseteq Fixture
      BY DEF StaleIds
    <2>. HIDE DEF over
    <2>. QED
      BY <1>1, <2>1, BlankIs DEF RunType, Stage, Kind
  <1>3. Local(p, n) /\ Quiet
    BY DEF Scan, Quiet
  <1>4. StaleIds = Stale(stored)
    BY DEF StaleIds, Stale
  <1>. HIDE DEF n
  <1>. QED
    BY <1>2, <1>3, <1>4, LocalMoves

\* The answer, cut down to the leagues asked for.
LEMMA DoSeason ==
    ASSUME Typed, NEW p \in Proc, Season(p)
    PROVE  /\ Moves(p) /\ Quiet /\ run[p].pc = "season"
           /\ run'[p].pc = "byid" /\ run'[p].kind = run[p].kind /\ run'[p].buffer = run[p].buffer
           /\ run'[p].over = run[p].over
           /\ \E answer \in {run[p].seen, Answer(listed)} :
                /\ DOMAIN run'[p].seen = {f \in DOMAIN answer : LeagueOf[f] \in run[p].todo \cap Resolved}
                /\ \A f \in DOMAIN run'[p].seen : run'[p].seen[f] = answer[f]
  <1>1. PICK answer \in {run[p].seen, Answer(listed)} :
            LET found == {f \in DOMAIN answer : LeagueOf[f] \in run[p].todo \cap Resolved}
            IN  Local(p, [run[p] EXCEPT !.pc = "byid", !.todo = {}, !.seen = [f \in found |-> answer[f]]])
    BY DEF Season
  <1>. DEFINE found == {f \in DOMAIN answer : LeagueOf[f] \in run[p].todo \cap Resolved}
              kept == [f \in found |-> answer[f]]
              n == [run[p] EXCEPT !.pc = "byid", !.todo = {}, !.seen = kept]
  <1>2. answer \in Answers
    BY RunIs, AnswerIs DEF Typed
  <1>3. DOMAIN answer \in SUBSET Fixture /\ \A f \in DOMAIN answer : answer[f] \in Live
    BY <1>2, AnswersAre
  <1>4. kept \in [found -> Live] /\ found \in SUBSET Fixture
    BY <1>3
  <1>5. kept \in Answers /\ DOMAIN kept = found /\ \A f \in found : kept[f] = answer[f]
    BY <1>4, AnswersAre
  <1>6. Local(p, n)
    BY <1>1
  <1>. HIDE DEF kept
  <1>7. /\ n \in RunType /\ n.pc = "byid" /\ n.kind = run[p].kind /\ n.buffer = run[p].buffer
        /\ n.seen = kept /\ n.over = run[p].over
    BY <1>5, RunIs DEF RunType, Stage
  <1>. HIDE DEF n
  <1>8. Moves(p) /\ run'[p] = n
    BY <1>6, <1>7, LocalMoves
  <1>9. Quiet /\ run[p].pc = "season"
    BY DEF Season, Quiet
  <1>. QED
    BY <1>5, <1>7, <1>8, <1>9

LEMMA DoToWrites ==
    ASSUME Typed, NEW p \in Proc, NEW answer \in Answers, NEW over \in SUBSET Fixture,
           ToWrites(p, answer, over)
    PROVE  /\ Moves(p)
           /\ run'[p].over = over /\ run'[p].seen = answer /\ run'[p].kind = run[p].kind /\ run'[p].buffer = run[p].buffer
           /\ \/ run'[p].pc = "close" /\ DOMAIN answer = {}
              \/ run'[p].pc = "write" /\ run'[p].todo = Tracked \cap Leagues(DOMAIN answer)
  <1>1. CASE DOMAIN answer = {}
    <2>. DEFINE n == [run[p] EXCEPT !.pc = "close", !.seen = answer, !.over = over]
    <2>1. Local(p, n)
      BY <1>1 DEF ToWrites
    <2>2. /\ n \in RunType /\ n.pc = "close" /\ n.kind = run[p].kind /\ n.buffer = run[p].buffer
          /\ n.seen = answer /\ n.over = over
      BY RunIs DEF RunType, Stage
    <2>. HIDE DEF n
    <2>. QED
      BY <1>1, <2>1, <2>2, LocalMoves
  <1>2. CASE DOMAIN answer # {}
    <2>. DEFINE n == [run[p] EXCEPT !.pc = "write", !.seen = answer, !.over = over,
                                    !.todo = Tracked \cap Leagues(DOMAIN answer)]
    <2>1. Local(p, n)
      BY <1>2 DEF ToWrites
    <2>2. Tracked \cap Leagues(DOMAIN answer) \subseteq League
      BY FixtureAssumption
    <2>3. /\ n \in RunType /\ n.pc = "write" /\ n.kind = run[p].kind /\ n.buffer = run[p].buffer
          /\ n.seen = answer /\ n.over = over /\ n.todo = Tracked \cap Leagues(DOMAIN answer)
      BY <2>2, RunIs DEF RunType, Stage
    <2>. HIDE DEF n
    <2>. QED
      BY <2>1, <2>3, LocalMoves
  <1>. QED
    BY <1>1, <1>2

\* The season's answer, with the missing stale fixtures or without.
LEMMA DoById ==
    ASSUME Typed, NEW p \in Proc, ById(p) \/ ByIdFails(p)
    PROVE  /\ Moves(p) /\ Quiet /\ run[p].pc = "byid"
           /\ run'[p].kind = run[p].kind /\ run'[p].buffer = run[p].buffer
           /\ run'[p].over \subseteq run[p].over
           /\ ByIdFails(p) => run'[p].over \subseteq DOMAIN run'[p].seen
           /\ ById(p) => Stale(stored) \subseteq DOMAIN run'[p].seen
           /\ \/ run'[p].pc = "close" /\ DOMAIN run'[p].seen = {}
              \/ run'[p].pc = "write" /\ run'[p].todo = Tracked \cap Leagues(DOMAIN run'[p].seen)
           /\ DOMAIN run[p].seen \subseteq DOMAIN run'[p].seen
           /\ DOMAIN run'[p].seen \subseteq DOMAIN run[p].seen \cup Stale(stored)
           /\ \A f \in DOMAIN run[p].seen : run'[p].seen[f] = run[p].seen[f]
           /\ \A f \in DOMAIN run'[p].seen \ DOMAIN run[p].seen : run'[p].seen[f] = status[f]
  <1>. DEFINE seen == run[p].seen
              more == [f \in DOMAIN seen \cup StaleIds |-> IF f \in DOMAIN seen THEN seen[f] ELSE status[f]]
  <1>1. Quiet /\ run[p].pc = "byid"
    BY DEF ById, ByIdFails, Quiet
  <1>2. seen \in Answers /\ DOMAIN seen \in SUBSET Fixture /\ \A f \in DOMAIN seen : seen[f] \in Live
    BY RunIs, AnswersAre
  <1>3. more \in [DOMAIN seen \cup StaleIds -> Live] /\ StaleIds \in SUBSET Fixture
    BY <1>2 DEF StaleIds, Typed
  <1>4. /\ more \in Answers /\ DOMAIN more = DOMAIN seen \cup StaleIds
        /\ \A f \in DOMAIN seen : more[f] = seen[f]
        /\ \A f \in DOMAIN more \ DOMAIN seen : more[f] = status[f]
    BY <1>2, <1>3, AnswersAre
  <1>5. StaleIds = Stale(stored)
    BY DEF StaleIds, Stale
  <1>. HIDE DEF more
  <1>6. CASE ById(p)
    <2>1. ToWrites(p, more, run[p].over) /\ run[p].over \in SUBSET Fixture
      BY <1>6, RunIs DEF ById, more, RunType
    <2>2. run'[p].seen = more /\ run'[p].over = run[p].over
      BY <1>4, <2>1, DoToWrites
    <2>3. ~ByIdFails(p) \/ run'[p].over \subseteq DOMAIN run'[p].seen
      <3>1. ByIdFails(p) => ToWrites(p, seen, run[p].over \cap DOMAIN seen)
        BY DEF ByIdFails
      <3>. QED
        BY <1>2, <2>1, <3>1, DoToWrites
    <2>. QED
      BY <1>1, <1>4, <1>5, <2>1, <2>2, <2>3, DoToWrites
  <1>7. CASE ByIdFails(p)
    <2>1. ToWrites(p, seen, run[p].over \cap DOMAIN seen) /\ run[p].over \in SUBSET Fixture
      BY <1>7, RunIs DEF ByIdFails, RunType
    <2>2. run'[p].seen = seen /\ run'[p].over = run[p].over \cap DOMAIN seen
      BY <1>2, <2>1, DoToWrites
    <2>3. ById(p) => ToWrites(p, more, run[p].over)
      BY DEF ById, more
    <2>4. ById(p) => run'[p].seen = more
      BY <1>4, <2>1, <2>3, DoToWrites
    <2>. QED
      BY <1>1, <1>2, <1>4, <1>5, <2>1, <2>2, <2>4, DoToWrites
  <1>. QED
    BY <1>6, <1>7

LEMMA DoWritesDone ==
    ASSUME Typed, NEW p \in Proc, WritesDone(p)
    PROVE  /\ Moves(p) /\ Quiet /\ run[p].pc = "write" /\ run[p].todo = {}
           /\ \/ run'[p] = Blank
              \/ /\ run[p].kind # "batch" /\ run'[p].pc = "close" /\ run'[p].seen = run[p].seen
                 /\ run'[p].kind = run[p].kind /\ run'[p].over = run[p].over
                 /\ run'[p].buffer = Rows(Leagues(DOMAIN run[p].seen), "captured")
  <1>1. Quiet /\ run[p].pc = "write" /\ run[p].todo = {}
    BY DEF WritesDone, Quiet
  <1>2. CASE run[p].kind = "batch"
    BY <1>1, <1>2, BlankIs, LocalMoves DEF WritesDone
  <1>3. CASE run[p].kind # "batch"
    <2>. DEFINE rows == Rows(Leagues(DOMAIN run[p].seen), "captured")
                n == [run[p] EXCEPT !.pc = "close", !.buffer = rows]
    <2>1. Leagues(DOMAIN run[p].seen) \in SUBSET (League \cup {NoLeague})
      BY RunIs, LeaguesAre
    <2>2. rows \in RowSet
      BY <2>1, RowsAre, RowSetIs, StatusHas
    <2>3. Local(p, n)
      BY <1>3 DEF WritesDone
    <2>. HIDE DEF rows
    <2>4. /\ n \in RunType /\ n.pc = "close" /\ n.seen = run[p].seen /\ n.buffer = rows
          /\ n.kind = run[p].kind /\ n.over = run[p].over
      BY <2>2, RunIs DEF RunType, Stage
    <2>. HIDE DEF n
    <2>. QED
      BY <1>1, <1>3, <2>3, <2>4, LocalMoves DEF rows
  <1>. QED
    BY <1>2, <1>3

\* The venue pass adds absences at most, of leagues the manifest has no capture of.
LEMMA DoCloseVenue ==
    ASSUME Typed, NEW p \in Proc, CloseVenue(p)
    PROVE  /\ Moves(p) /\ Quiet /\ run[p].pc = "venue"
           /\ run'[p].pc = "close" /\ run'[p].kind = run[p].kind /\ run'[p].seen = run[p].seen
           /\ Captured(run'[p].buffer) \subseteq Captured(run[p].buffer)
           /\ \A k \in DOMAIN run'[p].buffer : run'[p].buffer[k] \in Absence
                => \/ k \in DOMAIN run[p].buffer /\ run[p].buffer[k] = run'[p].buffer[k]
                   \/ k \notin Captured(index)
  <1>. DEFINE known == (Tracked \cap Leagues(DOMAIN run[p].seen)) \cup CapturedLeagues(index, Schedule)
              gaps == VenueGaps(known)
              buffer == Upsert(run[p].buffer, gaps)
  <1>1. Quiet /\ run[p].pc = "venue"
    BY DEF CloseVenue, Quiet
  <1>2. /\ DOMAIN gaps = {Schedule} \X (Expected \ known)
        /\ gaps = [k \in DOMAIN gaps |-> gaps[k]]
        /\ \A k \in DOMAIN gaps : gaps[k] \in Absence
    BY DEF VenueGaps, Absence
  <1>3. ASSUME NEW k \in DOMAIN gaps PROVE k \in Key /\ k \notin Captured(index)
    <2>. HIDE DEF gaps
    <2>1. PICK l \in Expected \ known : k = <<Schedule, l>>
      BY <1>2
    <2>2. l \in League /\ l \notin CapturedLeagues(index, Schedule)
      BY <2>1, SportsAssumption
    <2>. QED
      BY <2>1, <2>2, FixtureAssumption DEF Key, CapturedLeagues
  <1>. HIDE DEF gaps
  <1>4. IsRows(gaps) /\ Captured(gaps) = {}
    BY <1>2, <1>3, StatusHas DEF IsRows, Captured
  <1>5. IsRows(run[p].buffer)
    BY RunIs
  <1>6. /\ IsRows(buffer) /\ DOMAIN buffer = DOMAIN run[p].buffer \cup DOMAIN gaps
        /\ \A k \in DOMAIN run[p].buffer \ DOMAIN gaps : buffer[k] = run[p].buffer[k]
        /\ Captured(buffer) \subseteq Captured(run[p].buffer)
    BY <1>4, <1>5, UpsertFacts
  <1>7. PICK readable \in BOOLEAN :
            Local(p, [run[p] EXCEPT !.pc = "close", !.buffer = IF readable THEN buffer ELSE run[p].buffer])
    BY DEF CloseVenue, gaps
  <1>. DEFINE b == IF readable THEN buffer ELSE run[p].buffer
              n == [run[p] EXCEPT !.pc = "close", !.buffer = b]
  <1>8. b \in RowSet
    BY <1>5, <1>6, RowSetIs
  <1>9. /\ Captured(b) \subseteq Captured(run[p].buffer)
        /\ \A k \in DOMAIN b : \/ k \in DOMAIN run[p].buffer /\ run[p].buffer[k] = b[k]
                               \/ k \notin Captured(index)
    BY <1>3, <1>6
  <1>. HIDE DEF b
  <1>10. /\ n \in RunType /\ n.pc = "close" /\ n.kind = run[p].kind /\ n.seen = run[p].seen
         /\ n.buffer = b
    BY <1>8, RunIs DEF RunType, Stage
  <1>11. Local(p, n)
    BY <1>7 DEF b
  <1>. HIDE DEF n
  <1>. QED
    BY <1>1, <1>9, <1>10, <1>11, LocalMoves

\* A fetch that raised is failed for every expected league, at once.
LEMMA DoBatchFetchFails ==
    ASSUME Typed, NEW p \in Proc, BatchFetchFails(p)
    PROVE  /\ Moves(p) /\ UNCHANGED <<world, store>> /\ IsRows(index')
           /\ Captured(index') \subseteq Captured(index) /\ DOMAIN index \subseteq DOMAIN index'
           /\ \A k \in DOMAIN index' : index'[k] \in Absence => k \in DOMAIN index /\ index'[k] = index[k]
           /\ run'[p].pc = "ensure" /\ run'[p].kind = "batch" /\ run'[p].buffer = NoRows
  <1>. DEFINE rows == Rows(Expected, "failed")
              n == [Blank EXCEPT !.pc = "ensure", !.kind = "batch"]
  <1>1. Expected \in SUBSET (League \cup {NoLeague})
    BY SportsAssumption
  <1>2. /\ IsRows(rows) /\ Captured(rows) = {}
        /\ \A k \in DOMAIN rows : rows[k] = "failed"
    BY <1>1, RowsAre, StatusHas
  <1>. HIDE DEF rows
  <1>3. IsRows(index)
    BY RowSetIs DEF Typed
  <1>4. /\ IsRows(Upsert(index, rows)) /\ DOMAIN Upsert(index, rows) = DOMAIN index \cup DOMAIN rows
        /\ \A k \in DOMAIN rows : Upsert(index, rows)[k] = rows[k]
        /\ \A k \in DOMAIN index \ DOMAIN rows : Upsert(index, rows)[k] = index[k]
        /\ Captured(Upsert(index, rows)) \subseteq Captured(index)
    <2>1. IsRows(rows)
      BY <1>2
    <2>3. IsUpsert(Upsert(index, rows), index, rows)
      BY <2>1, <1>3, UpsertIs
    <2>2. /\ IsRows(Upsert(index, rows)) /\ DOMAIN Upsert(index, rows) = DOMAIN index \cup DOMAIN rows
          /\ \A k \in DOMAIN rows : Upsert(index, rows)[k] = rows[k]
          /\ \A k \in DOMAIN index \ DOMAIN rows : Upsert(index, rows)[k] = index[k]
          /\ Captured(Upsert(index, rows)) \subseteq Captured(index) \cup Captured(rows)
      BY <2>3 DEF IsUpsert
    <2>. QED
      BY <1>2, <2>2
  <1>5. index' = Upsert(index, rows) /\ Local(p, n) /\ UNCHANGED <<world, store>>
    BY DEF BatchFetchFails, rows
  <1>6. n \in RunType /\ n.pc = "ensure" /\ n.kind = "batch" /\ n.buffer = NoRows
    BY BlankIs DEF RunType, Stage, Kind
  <1>. HIDE DEF n
  <1>7. Moves(p) /\ run'[p] = n
    BY <1>5, <1>6, LocalMoves
  <1>8. \A k \in DOMAIN index' : index'[k] \in Absence => k \in DOMAIN index /\ index'[k] = index[k]
    BY <1>2, <1>4, <1>5, StatusHas
  <1>. QED
    BY <1>4, <1>5, <1>6, <1>7, <1>8

LEMMA DoZeroMarkers ==
    ASSUME Typed, NEW p \in Proc, ZeroMarkers(p)
    PROVE  /\ Moves(p) /\ UNCHANGED <<world, store>> /\ IsRows(index')
           /\ Captured(index') \subseteq Captured(index) /\ run[p].pc = "markers"
           /\ run'[p].pc = "ensure" /\ run'[p].kind = run[p].kind /\ run'[p].buffer = run[p].buffer
           /\ run'[p].seen = run[p].seen
  <1>. DEFINE rows == Rows(Expected \ FixturesEntityPresent, "no_fixture")
              n == [run[p] EXCEPT !.pc = "ensure"]
  <1>1. Expected \ FixturesEntityPresent \in SUBSET (League \cup {NoLeague})
    BY SportsAssumption
  <1>2. "no_fixture" \in Status /\ "no_fixture" # "captured"
    BY DEF Status, Absence
  <1>3. IsRows(rows) /\ Captured(rows) = {}
    BY <1>1, <1>2, RowsAre
  <1>4. IsRows(index)
    BY RowSetIs DEF Typed
  <1>. HIDE DEF rows
  <1>5. IsRows(Upsert(index, rows)) /\ Captured(Upsert(index, rows)) \subseteq Captured(index)
    BY <1>3, <1>4, UpsertFacts
  <1>6. /\ index' \in {index, Upsert(index, rows)} /\ Local(p, n) /\ UNCHANGED <<world, store>>
        /\ run[p].pc = "markers"
    BY DEF ZeroMarkers, rows
  <1>7. /\ n \in RunType /\ n.pc = "ensure" /\ n.kind = run[p].kind /\ n.buffer = run[p].buffer
        /\ n.seen = run[p].seen
    BY RunIs DEF RunType, Stage
  <1>. HIDE DEF n
  <1>. QED
    BY <1>4, <1>5, <1>6, <1>7, LocalMoves

LEMMA DoFlush ==
    ASSUME Typed, NEW p \in Proc, Flush(p)
    PROVE  /\ Moves(p) /\ UNCHANGED <<world, store>> /\ run[p].pc = "close"
           /\ IsRows(index') /\ index' = Upsert(index, run[p].buffer)
           /\ Captured(index') \subseteq Captured(index) \cup Captured(run[p].buffer)
           /\ run'[p].pc \in {"idle", "ensure"} /\ run'[p].buffer = NoRows /\ run'[p].seen = Nothing
           /\ run'[p].pc = "ensure" => run'[p].kind = "batch"
  <1>. DEFINE n == IF run[p].kind = "batch" THEN [Blank EXCEPT !.pc = "ensure", !.kind = "batch"] ELSE Blank
  <1>1. IsRows(index) /\ IsRows(run[p].buffer)
    BY RowSetIs, RunIs DEF Typed
  <1>2. /\ IsRows(Upsert(index, run[p].buffer))
        /\ Captured(Upsert(index, run[p].buffer)) \subseteq Captured(index) \cup Captured(run[p].buffer)
    BY <1>1, UpsertFacts
  <1>3. /\ index' = Upsert(index, run[p].buffer) /\ Local(p, n) /\ UNCHANGED <<world, store>>
        /\ run[p].pc = "close"
    BY DEF Flush
  <1>4. /\ n \in RunType /\ n.pc \in {"idle", "ensure"} /\ n.buffer = NoRows /\ n.seen = Nothing
        /\ n.pc = "ensure" => n.kind = "batch"
    BY BlankIs DEF RunType, Stage, Kind
  <1>. HIDE DEF n
  <1>. QED
    BY <1>2, <1>3, <1>4, LocalMoves

LEMMA DoWriteVenue ==
    ASSUME Typed, NEW p \in Proc, NEW l \in League, WriteVenue(p, l)
    PROVE  /\ Moves(p) /\ UNCHANGED <<world, stored, outcome, index>> /\ venue' = venue \cup {l}
           /\ run[p].pc = "venue" /\ run'[p].pc = "venue" /\ run'[p].kind = run[p].kind
           /\ run'[p].seen = run[p].seen
           /\ \A k \in Captured(run'[p].buffer) : k \in Captured(run[p].buffer) \/ k[2] = l
           /\ \A k \in DOMAIN run'[p].buffer : run'[p].buffer[k] \in Absence
                => k \in DOMAIN run[p].buffer /\ run[p].buffer[k] = run'[p].buffer[k]
  <1>. DEFINE rows == Rows({l}, "captured")
              buffer == Upsert(run[p].buffer, rows)
              n == [run[p] EXCEPT !.todo = @ \ {l}, !.buffer = buffer]
  <1>1. {l} \in SUBSET (League \cup {NoLeague})
    OBVIOUS
  <1>2. IsRows(rows) /\ \A k \in DOMAIN rows : rows[k] = "captured" /\ k[2] \in {l}
    BY <1>1, RowsAre, StatusHas
  <1>3. Captured(rows) \subseteq DOMAIN rows
    BY <1>2, RowsFacts
  <1>4. UNCHANGED <<world, stored, outcome, index>> /\ venue' = venue \cup {l} /\ run[p].pc = "venue" /\ Local(p, n)
    BY DEF WriteVenue
  <1>. HIDE DEF rows
  <1>5. /\ IsRows(buffer) /\ DOMAIN buffer = DOMAIN run[p].buffer \cup DOMAIN rows
        /\ \A k \in DOMAIN rows : buffer[k] = rows[k]
        /\ \A k \in DOMAIN run[p].buffer \ DOMAIN rows : buffer[k] = run[p].buffer[k]
        /\ Captured(buffer) \subseteq Captured(run[p].buffer) \cup Captured(rows)
    <2>1. IsRows(rows) /\ IsRows(run[p].buffer)
      BY <1>2, RunIs
    <2>2. IsUpsert(buffer, run[p].buffer, rows)
      BY <2>1, UpsertIs
    <2>. QED
      BY <2>2 DEF IsUpsert
  <1>6. buffer \in RowSet
    BY <1>5, RowSetIs
  <1>. HIDE DEF buffer
  <1>7. /\ n \in RunType /\ n.pc = run[p].pc /\ n.kind = run[p].kind /\ n.seen = run[p].seen
        /\ n.buffer = buffer
    BY <1>6, RunIs DEF RunType
  <1>. HIDE DEF n
  <1>8. Moves(p) /\ run'[p] = n
    BY <1>4, <1>7, LocalMoves
  <1>9. \A k \in Captured(buffer) : k \in Captured(run[p].buffer) \/ k[2] = l
    BY <1>2, <1>3, <1>5
  <1>10. \A k \in DOMAIN buffer : buffer[k] \in Absence
            => k \in DOMAIN run[p].buffer /\ run[p].buffer[k] = buffer[k]
    BY <1>2, <1>5, StatusHas
  <1>. QED
    BY <1>4, <1>7, <1>8, <1>9, <1>10

\* The schedule of one league becomes the answer's; then come its outcomes, if it has any.
LEMMA DoWriteSchedule ==
    ASSUME Typed, NEW p \in Proc, NEW l \in League, WriteSchedule(p, l)
    PROVE  /\ Moves(p) /\ UNCHANGED <<world, outcome, venue, index>>
           /\ run[p].pc = "write" /\ l \in run[p].todo
           /\ stored' \in [Fixture -> Live \cup {"none"}]
           /\ \A f \in Fixture : stored'[f] = IF LeagueOf[f] # l THEN stored[f]
                                              ELSE IF f \in DOMAIN run[p].seen THEN run[p].seen[f]
                                              ELSE "none"
           /\ \/ /\ run'[p].pc = "write"
                 /\ \A f \in DOMAIN run[p].seen \cap InLeague(l) : run[p].seen[f] # "FT"
              \/ run'[p].pc = "outcome" /\ run'[p].league = l
           /\ run'[p].over = run[p].over
           /\ run'[p].todo = run[p].todo \ {l} /\ run'[p].seen = run[p].seen
           /\ run'[p].kind = run[p].kind /\ run'[p].buffer = run[p].buffer
  <1>. DEFINE a == [run[p] EXCEPT !.pc = "outcome", !.league = l, !.todo = @ \ {l}]
              b == [run[p] EXCEPT !.todo = @ \ {l}]
  <1>1. /\ UNCHANGED <<world, outcome, venue, index>> /\ run[p].pc = "write" /\ l \in run[p].todo
        /\ \/ Local(p, a)
           \/ Local(p, b) /\ \A f \in DOMAIN run[p].seen \cap InLeague(l) : run[p].seen[f] # "FT"
        /\ stored' = [f \in Fixture |-> IF LeagueOf[f] # l THEN stored[f]
                                        ELSE IF f \in DOMAIN run[p].seen THEN run[p].seen[f] ELSE "none"]
    BY DEF WriteSchedule
  <1>2. \A f \in DOMAIN run[p].seen : run[p].seen[f] \in Live
    BY RunIs, AnswersAre
  <1>3. stored' \in [Fixture -> Live \cup {"none"}]
    BY <1>1, <1>2 DEF Typed
  <1>4. /\ a \in RunType /\ a.pc = "outcome" /\ a.league = l /\ a.todo = run[p].todo \ {l}
        /\ a.seen = run[p].seen /\ a.kind = run[p].kind /\ a.buffer = run[p].buffer
        /\ a.over = run[p].over
    BY RunIs DEF RunType, Stage
  <1>5. /\ b \in RunType /\ b.pc = run[p].pc /\ b.todo = run[p].todo \ {l}
        /\ b.seen = run[p].seen /\ b.kind = run[p].kind /\ b.buffer = run[p].buffer
        /\ b.over = run[p].over
    BY RunIs DEF RunType
  <1>. HIDE DEF a, b
  <1>6. /\ Moves(p)
        /\ \/ run'[p] = a
           \/ run'[p] = b /\ \A f \in DOMAIN run[p].seen \cap InLeague(l) : run[p].seen[f] # "FT"
    BY <1>1, <1>4, <1>5, LocalMoves
  <1>. QED
    BY <1>1, <1>3, <1>4, <1>5, <1>6

LEMMA DoWriteOutcomes ==
    ASSUME Typed, NEW p \in Proc, WriteOutcomes(p)
    PROVE  LET l == run[p].league
               over == {f \in DOMAIN run[p].seen \cap InLeague(l) : run[p].seen[f] = "FT"}
           IN  /\ Moves(p) /\ UNCHANGED <<world, stored, venue, index>> /\ run[p].pc = "outcome"
               /\ outcome' = (outcome \ InLeague(l)) \cup over /\ over \subseteq Fixture
               /\ run'[p].pc = "write" /\ run'[p].todo = run[p].todo /\ run'[p].seen = run[p].seen
               /\ run'[p].kind = run[p].kind /\ run'[p].buffer = run[p].buffer
               /\ run'[p].over = run[p].over
  <1>. DEFINE n == [run[p] EXCEPT !.pc = "write", !.league = NoLeague]
  <1>1. /\ Local(p, n) /\ UNCHANGED <<world, stored, venue, index>> /\ run[p].pc = "outcome"
        /\ outcome' = (outcome \ InLeague(run[p].league))
              \cup {f \in DOMAIN run[p].seen \cap InLeague(run[p].league) : run[p].seen[f] = "FT"}
    BY DEF WriteOutcomes
  <1>2. /\ n \in RunType /\ n.pc = "write" /\ n.todo = run[p].todo /\ n.seen = run[p].seen
        /\ n.kind = run[p].kind /\ n.buffer = run[p].buffer /\ n.over = run[p].over
    BY RunIs DEF RunType, Stage
  <1>. HIDE DEF n
  <1>3. Moves(p) /\ run'[p] = n
    BY <1>1, <1>2, LocalMoves
  <1>. QED
    BY <1>1, <1>2, <1>3 DEF InLeague

\* The matches and the calendar: a match that is over stays over, and listed or not.
LEMMA DoWorld ==
    ASSUME Typed, World
    PROVE  /\ UNCHANGED <<store, index, run>>
           /\ window' \in Window /\ listed' \subseteq Fixture /\ status' \in [Fixture -> Live]
           /\ \A f \in Fixture : status[f] = "FT" => status'[f] = "FT" /\ (f \in listed' <=> f \in listed)
  <1>1. CASE DaysPass
    BY <1>1 DEF DaysPass, Typed, Window
  <1>2. ASSUME NEW f \in Fixture, Play(f) \/ Postpone(f)
        PROVE  /\ UNCHANGED <<store, index, run, window, listed>> /\ status[f] = "NS"
               /\ \E s \in Live : status' = [status EXCEPT ![f] = s]
    BY <1>2 DEF Play, Postpone, Live
  <1>3. ASSUME NEW f \in Fixture, Reschedule(f)
        PROVE  /\ UNCHANGED <<store, index, run, window>> /\ status[f] # "FT"
               /\ status' = [status EXCEPT ![f] = "NS"] /\ "NS" \in Live
               /\ listed' = IF f \in listed THEN listed \ {f} ELSE listed \cup {f}
    BY <1>3 DEF Reschedule, Live
  <1>4. CASE \E f \in Fixture : Play(f) \/ Postpone(f)
    BY <1>2, <1>4 DEF Typed
  <1>5. CASE \E f \in Fixture : Reschedule(f)
    <2>1. PICK f \in Fixture : Reschedule(f)
      BY <1>5
    <2>. QED
      BY <1>3, <2>1 DEF Typed
  <1>. QED
    BY <1>1, <1>4, <1>5 DEF World

-----------------------------------------------------------------------------
(* The invariant of any number of runners.                                 *)

\* The steps of a runner by what they write.
Talks(p) == \/ BatchFetch(p) \/ BatchFetchEmpty(p) \/ CloseVenue(p) \/ Ensure(p)
            \/ EnsureNothing(p) \/ Crash(p) \/ Repoll(p) \/ RepollFails(p) \/ SeasonFails(p)
            \/ RepollEmpty(p) \/ Scan(p) \/ Season(p) \/ ById(p) \/ ByIdFails(p) \/ WritesDone(p)
Stamps(p) == BatchFetchFails(p) \/ ZeroMarkers(p) \/ Flush(p)
Writes(p) == WriteOutcomes(p) \/ \E l \in League : WriteVenue(p, l) \/ WriteSchedule(p, l)

LEMMA StepsAre == Next <=> World \/ \E p \in Proc : Talks(p) \/ Stamps(p) \/ Writes(p)
  BY DEF Next, Step, Talks, Stamps, Writes

LEMMA TalksQuiet ==
    ASSUME Typed, NEW p \in Proc, Talks(p)
    PROVE  Moves(p) /\ Quiet
  <1>1. CASE BatchFetch(p) \/ BatchFetchEmpty(p) \/ CloseVenue(p) \/ Ensure(p)
    BY <1>1, DoBatchFetch, DoBatchFetchEmpty, DoCloseVenue, DoEnsure
  <1>2. CASE EnsureNothing(p) \/ Crash(p) \/ RepollFails(p) \/ SeasonFails(p) \/ RepollEmpty(p)
    BY <1>2, DoBlank, DoFails, DoRepollEmpty
  <1>3. CASE Repoll(p) \/ Scan(p) \/ Season(p) \/ ById(p) \/ ByIdFails(p) \/ WritesDone(p)
    BY <1>3, DoRepoll, DoScan, DoSeason, DoById, DoWritesDone
  <1>. QED
    BY <1>1, <1>2, <1>3 DEF Talks

LEMMA TypedNext == Typed /\ [Next]_vars => Typed'
  <1>. SUFFICES ASSUME Typed, [Next]_vars PROVE Typed'
    OBVIOUS
  <1>1. CASE UNCHANGED vars
    BY <1>1 DEF vars, Typed
  <1>2. CASE World
    BY <1>2, DoWorld DEF Typed, store
  <1>3. ASSUME NEW p \in Proc, Talks(p) PROVE Typed'
    BY <1>3, TalksQuiet DEF Typed, Moves, Quiet, world, store
  <1>4. ASSUME NEW p \in Proc, Stamps(p) PROVE Typed'
    <2>1. Moves(p) /\ UNCHANGED <<world, store>> /\ IsRows(index')
      BY <1>4, DoBatchFetchFails, DoZeroMarkers, DoFlush DEF Stamps
    <2>. QED
      BY <2>1, RowSetIs DEF Typed, Moves, world, store
  <1>5. ASSUME NEW p \in Proc, NEW l \in League, WriteVenue(p, l) PROVE Typed'
    BY <1>5, DoWriteVenue DEF Typed, Moves, world
  <1>6. ASSUME NEW p \in Proc, NEW l \in League, WriteSchedule(p, l) PROVE Typed'
    BY <1>6, DoWriteSchedule DEF Typed, Moves, world
  <1>7. ASSUME NEW p \in Proc, WriteOutcomes(p) PROVE Typed'
    <2>. DEFINE over == {f \in DOMAIN run[p].seen \cap InLeague(run[p].league) : run[p].seen[f] = "FT"}
    <2>1. /\ Moves(p) /\ UNCHANGED <<world, stored, venue, index>>
          /\ outcome' = (outcome \ InLeague(run[p].league)) \cup over /\ over \subseteq Fixture
      BY <1>7, DoWriteOutcomes
    <2>. HIDE DEF over
    <2>. QED
      BY <2>1 DEF Typed, Moves, world
  <1>. QED
    BY <1>1, <1>2, <1>3, <1>4, <1>5, <1>6, <1>7, StepsAre DEF Writes

LEMMA FineMono ==
    ASSUME NEW r, NEW a, NEW b, NEW c, NEW d, Fine(r, a, b), a \subseteq c, b \subseteq d
    PROVE  Fine(r, c, d)
  BY DEF Fine, Backed

\* What one runner's step must leave for the others.
LEMMA Compose ==
    ASSUME IInv, Typed', NEW p \in Proc, Moves(p),
           Rowed \subseteq Rowed', Filed \subseteq Filed', Rowed' \subseteq Tracked,
           Backed(index', Filed'), Fine(run'[p], Rowed', Filed')
    PROVE  IInv'
  <1>1. ASSUME NEW q \in Proc PROVE Fine(run'[q], Rowed', Filed')
    <2>1. CASE q = p
      BY <2>1
    <2>2. CASE q # p
      <3>1. run'[q] = run[q] /\ Fine(run[q], Rowed, Filed)
        BY <2>2 DEF IInv, Moves
      <3>. QED
        BY <3>1, FineMono
    <2>. QED
      BY <2>1, <2>2
  <1>. QED
    BY <1>1 DEF IInv

LEMMA NothingCaptured == Captured(NoRows) = {} /\ Captured(Rows({NoLeague}, "failed")) = {}
  BY NoRowsFacts, RowsAre, StatusHas

\* A run that neither writes nor asks again, with nothing captured of its own.
LEMMA FineAtRest ==
    ASSUME NEW r, NEW a, NEW b, r.pc \notin {"season", "byid", "write", "outcome"},
           r.pc \in {"venue", "markers", "ensure"} => r.kind = "batch",
           Backed(r.buffer, b)
    PROVE  Fine(r, a, b)
  BY DEF Fine

LEMMA LeaguesMono ==
    ASSUME NEW S, NEW T, S \subseteq T
    PROVE  Leagues(S) \subseteq Leagues(T)
  BY DEF Leagues

LEMMA TalksFine ==
    ASSUME PollsTracked, IInv, NEW p \in Proc, Talks(p)
    PROVE  Fine(run'[p], Rowed, Filed)
  <1>1. Typed /\ Fine(run[p], Rowed, Filed) /\ Rowed \subseteq Tracked
    BY DEF IInv
  <1>2. Backed(run[p].buffer, Filed) /\ Backed(NoRows, Filed)
    BY <1>1, NothingCaptured DEF Fine, Backed
  <1>3. CASE BatchFetch(p) \/ BatchFetchEmpty(p)
    BY <1>1, <1>2, <1>3, DoBatchFetch, DoBatchFetchEmpty, FineAtRest
  <1>4. CASE CloseVenue(p)
    <2>1. run'[p].pc = "close" /\ Captured(run'[p].buffer) \subseteq Captured(run[p].buffer)
      BY <1>1, <1>4, DoCloseVenue
    <2>. QED
      BY <1>2, <2>1, FineAtRest DEF Backed
  <1>5. CASE Ensure(p)
    <2>1. /\ run[p].pc = "ensure" /\ run'[p].pc = "write" /\ run'[p].kind = run[p].kind
          /\ run'[p].buffer = run[p].buffer /\ DOMAIN run'[p].seen = listed
          /\ run'[p].todo = Tracked \cap Leagues(listed)
      BY <1>1, <1>5, DoEnsure, AnswerIs DEF Typed
    <2>. QED
      BY <1>1, <1>2, <2>1 DEF Fine
  <1>6. CASE EnsureNothing(p) \/ Crash(p)
    BY <1>1, <1>2, <1>6, DoBlank, BlankIs, FineAtRest
  <1>7. CASE Repoll(p)
    <2>. DEFINE found == {f \in listed : LeagueOf[f] \in Polled}
    <2>1. Leagues(found) \subseteq Tracked
      BY DEF PollsTracked, Leagues
    <2>2. /\ found \in SUBSET Fixture /\ run'[p].pc = "write" /\ run'[p].buffer = NoRows
          /\ run'[p].seen = Answer(found) /\ run'[p].todo = Tracked \cap Leagues(found)
      BY <1>1, <1>7, DoRepoll
    <2>. HIDE DEF found
    <2>3. DOMAIN run'[p].seen = found
      BY <1>1, <2>2, AnswerIs
    <2>. QED
      BY <1>2, <2>1, <2>2, <2>3 DEF Fine
  <1>8. CASE RepollFails(p) \/ SeasonFails(p) \/ RepollEmpty(p)
    <2>1. run'[p].pc = "close" /\ Captured(run'[p].buffer) = {}
      BY <1>1, <1>8, DoFails, DoRepollEmpty, NothingCaptured
    <2>. QED
      BY <2>1, FineAtRest DEF Backed
  <1>9. CASE Scan(p)
    <2>1. Leagues(Stale(stored)) \subseteq Rowed
      BY LeaguesMono DEF Rowed, Stale
    <2>2. run'[p].pc = "season" /\ run'[p].buffer = NoRows /\ run'[p].todo = Leagues(Stale(stored))
      BY <1>1, <1>9, DoScan
    <2>. QED
      BY <1>1, <1>2, <2>1, <2>2 DEF Fine
  <1>10. CASE Season(p)
    <2>1. PICK answer \in {run[p].seen, Answer(listed)} :
            DOMAIN run'[p].seen = {f \in DOMAIN answer : LeagueOf[f] \in run[p].todo \cap Resolved}
      BY <1>1, <1>10, DoSeason
    <2>2. Leagues(DOMAIN run'[p].seen) \subseteq run[p].todo
      BY <2>1 DEF Leagues
    <2>3. run[p].pc = "season" /\ run'[p].pc = "byid" /\ run'[p].buffer = run[p].buffer
      BY <1>1, <1>10, DoSeason
    <2>. QED
      BY <1>1, <1>2, <2>2, <2>3 DEF Fine
  <1>11. CASE ById(p) \/ ByIdFails(p)
    <2>1. /\ run[p].pc = "byid" /\ run'[p].buffer = run[p].buffer
          /\ \/ run'[p].pc = "close"
             \/ run'[p].pc = "write" /\ run'[p].todo = Tracked \cap Leagues(DOMAIN run'[p].seen)
          /\ DOMAIN run'[p].seen \subseteq DOMAIN run[p].seen \cup Stale(stored)
      BY <1>1, <1>11, DoById
    <2>2. Leagues(Stale(stored)) \subseteq Rowed
      BY LeaguesMono DEF Rowed, Stale
    <2>3. Leagues(DOMAIN run'[p].seen) \subseteq Tracked
      BY <1>1, <2>1, <2>2 DEF Fine, Leagues
    <2>. QED
      BY <1>2, <2>1, <2>3 DEF Fine
  <1>12. CASE WritesDone(p)
    <2>1. CASE run'[p] = Blank
      BY <1>2, <2>1, BlankIs, FineAtRest
    <2>2. CASE run'[p] # Blank
      <3>1. /\ run[p].pc = "write" /\ run[p].todo = {} /\ run[p].kind # "batch" /\ run'[p].pc = "close"
            /\ run'[p].buffer = Rows(Leagues(DOMAIN run[p].seen), "captured")
        BY <1>1, <1>12, <2>2, DoWritesDone
      <3>2. Leagues(DOMAIN run[p].seen) \subseteq Rowed
        BY <1>1, <3>1 DEF Fine
      <3>3. Leagues(DOMAIN run[p].seen) \in SUBSET (League \cup {NoLeague})
        BY <1>1, RunIs, LeaguesAre
      <3>4. \A k \in DOMAIN run'[p].buffer : k[2] \in Leagues(DOMAIN run[p].seen)
        BY <3>1, <3>3, RowsAre, StatusHas
      <3>5. Backed(run'[p].buffer, Filed)
        BY <3>2, <3>4 DEF Backed, Captured, Filed
      <3>. QED
        BY <3>1, <3>5, FineAtRest
    <2>. QED
      BY <2>1, <2>2
  <1>. QED
    BY <1>3, <1>4, <1>5, <1>6, <1>7, <1>8, <1>9, <1>10, <1>11, <1>12 DEF Talks

LEMMA StampsFine ==
    ASSUME IInv, NEW p \in Proc, Stamps(p)
    PROVE  /\ Moves(p) /\ UNCHANGED <<world, store>>
           /\ Backed(index', Filed) /\ Fine(run'[p], Rowed, Filed)
  <1>1. Typed /\ Backed(index, Filed) /\ Fine(run[p], Rowed, Filed)
    BY DEF IInv
  <1>2. Backed(run[p].buffer, Filed) /\ Backed(NoRows, Filed)
    BY <1>1, NothingCaptured DEF Fine, Backed
  <1>3. CASE BatchFetchFails(p)
    <2>1. /\ Moves(p) /\ UNCHANGED <<world, store>> /\ Captured(index') \subseteq Captured(index)
          /\ run'[p].pc = "ensure" /\ run'[p].kind = "batch" /\ run'[p].buffer = NoRows
      BY <1>1, <1>3, DoBatchFetchFails
    <2>. QED
      BY <1>1, <1>2, <2>1, FineAtRest DEF Backed
  <1>4. CASE ZeroMarkers(p)
    <2>1. /\ Moves(p) /\ UNCHANGED <<world, store>> /\ Captured(index') \subseteq Captured(index)
          /\ run[p].pc = "markers" /\ run'[p].pc = "ensure" /\ run'[p].kind = run[p].kind
          /\ run'[p].buffer = run[p].buffer
      BY <1>1, <1>4, DoZeroMarkers
    <2>2. run'[p].kind = "batch"
      BY <1>1, <2>1 DEF Fine
    <2>. QED
      BY <1>1, <1>2, <2>1, <2>2, FineAtRest DEF Backed
  <1>5. CASE Flush(p)
    <2>1. /\ Moves(p) /\ UNCHANGED <<world, store>>
          /\ Captured(index') \subseteq Captured(index) \cup Captured(run[p].buffer)
          /\ run'[p].pc \in {"idle", "ensure"} /\ run'[p].buffer = NoRows
          /\ run'[p].pc = "ensure" => run'[p].kind = "batch"
      BY <1>1, <1>5, DoFlush
    <2>2. Backed(index', Filed)
      BY <1>1, <1>2, <2>1 DEF Backed
    <2>3. Fine(run'[p], Rowed, Filed)
      BY <1>2, <2>1, FineAtRest
    <2>. QED
      BY <2>1, <2>2, <2>3
  <1>. QED
    BY <1>3, <1>4, <1>5 DEF Stamps

\* A league's file may be replaced, but the league keeps one.
LEMMA WriteScheduleKeeps ==
    ASSUME IInv, NEW p \in Proc, NEW l \in League, WriteSchedule(p, l)
    PROVE  Rowed \subseteq Rowed' /\ Rowed' \subseteq Tracked /\ l \in Rowed'
  <1>1. Typed /\ Fine(run[p], Rowed, Filed) /\ Rowed \subseteq Tracked
    BY DEF IInv
  <1>2. /\ run[p].pc = "write" /\ l \in run[p].todo
        /\ stored' \in [Fixture -> Live \cup {"none"}]
        /\ \A f \in Fixture : stored'[f] = IF LeagueOf[f] # l THEN stored[f]
                                           ELSE IF f \in DOMAIN run[p].seen THEN run[p].seen[f]
                                           ELSE "none"
    BY <1>1, DoWriteSchedule
  <1>3. l \in Tracked /\ l \in Leagues(DOMAIN run[p].seen)
    BY <1>1, <1>2 DEF Fine
  <1>4. PICK g \in DOMAIN run[p].seen : LeagueOf[g] = l
    BY <1>3 DEF Leagues
  <1>5. g \in Fixture /\ run[p].seen[g] \in Live
    BY <1>1, <1>4, RunIs, AnswersAre
  <1>6. stored'[g] # "none"
    BY <1>2, <1>4, <1>5 DEF Live
  <1>7. Rowed' = Leagues({f \in Fixture : stored'[f] # "none"})
    BY DEF Rowed
  <1>8. l \in Rowed'
    BY <1>4, <1>5, <1>6, <1>7 DEF Leagues
  <1>9. ASSUME NEW m \in Rowed PROVE m \in Rowed'
    <2>1. PICK f \in Fixture : stored[f] # "none" /\ m = LeagueOf[f]
      BY <1>9 DEF Rowed, Leagues
    <2>2. CASE m = l
      BY <1>8, <2>2
    <2>3. CASE m # l
      <3>1. stored'[f] # "none"
        BY <1>2, <2>1, <2>3
      <3>. QED
        BY <1>7, <2>1, <3>1 DEF Leagues
    <2>. QED
      BY <2>2, <2>3
  <1>10. ASSUME NEW m \in Rowed' PROVE m \in Tracked
    <2>1. PICK f \in Fixture : stored'[f] # "none" /\ m = LeagueOf[f]
      BY <1>7, <1>10 DEF Leagues
    <2>2. CASE m = l
      BY <1>3, <2>2
    <2>3. CASE m # l
      <3>1. stored[f] # "none"
        BY <1>2, <2>1, <2>3
      <3>. QED
        BY <1>1, <2>1, <3>1 DEF Rowed, Leagues
    <2>. QED
      BY <2>2, <2>3
  <1>. QED
    BY <1>8, <1>9, <1>10

LEMMA IInvNext == PollsTracked /\ IInv /\ [Next]_vars => IInv'
  <1>. SUFFICES ASSUME PollsTracked, IInv, [Next]_vars PROVE IInv'
    OBVIOUS
  <1>1. Typed /\ Typed' /\ Backed(index, Filed) /\ Rowed \subseteq Tracked
    BY TypedNext DEF IInv
  <1>2. CASE UNCHANGED vars
    BY <1>1, <1>2 DEF vars, IInv, Rowed, Filed
  <1>3. CASE World
    <2>1. UNCHANGED <<stored, outcome, venue, index, run>>
      BY <1>1, <1>3, DoWorld DEF store
    <2>. QED
      BY <1>1, <2>1 DEF IInv, Rowed, Filed
  <1>4. ASSUME NEW p \in Proc, Talks(p) PROVE IInv'
    <2>1. Moves(p) /\ UNCHANGED <<stored, outcome, venue, index>> /\ Fine(run'[p], Rowed, Filed)
      BY <1>1, <1>4, TalksQuiet, TalksFine DEF Quiet, store
    <2>2. Rowed' = Rowed /\ Filed' = Filed
      BY <2>1 DEF Rowed, Filed
    <2>. QED
      BY <1>1, <2>1, <2>2, Compose
  <1>5. ASSUME NEW p \in Proc, Stamps(p) PROVE IInv'
    <2>1. /\ Moves(p) /\ UNCHANGED <<stored, outcome, venue>>
          /\ Backed(index', Filed) /\ Fine(run'[p], Rowed, Filed)
      BY <1>5, StampsFine DEF store
    <2>2. Rowed' = Rowed /\ Filed' = Filed
      BY <2>1 DEF Rowed, Filed
    <2>. QED
      BY <1>1, <2>1, <2>2, Compose
  <1>6. ASSUME NEW p \in Proc, NEW l \in League, WriteVenue(p, l) PROVE IInv'
    <2>1. /\ Moves(p) /\ UNCHANGED <<stored, index>> /\ venue' = venue \cup {l}
          /\ run[p].pc = "venue" /\ run'[p].pc = "venue" /\ run'[p].kind = run[p].kind
          /\ \A k \in Captured(run'[p].buffer) : k \in Captured(run[p].buffer) \/ k[2] = l
      BY <1>1, <1>6, DoWriteVenue
    <2>2. Rowed' = Rowed /\ Filed' = Filed \cup {l}
      BY <2>1 DEF Rowed, Filed
    <2>3. Fine(run[p], Rowed, Filed)
      BY DEF IInv
    <2>4. run'[p].kind = "batch" /\ Backed(run'[p].buffer, Filed')
      BY <2>1, <2>2, <2>3 DEF Fine, Backed
    <2>5. Fine(run'[p], Rowed', Filed')
      BY <2>1, <2>4, FineAtRest
    <2>6. Backed(index', Filed')
      BY <1>1, <2>1, <2>2 DEF Backed
    <2>. QED
      BY <1>1, <2>1, <2>2, <2>5, <2>6, Compose
  <1>7. ASSUME NEW p \in Proc, NEW l \in League, WriteSchedule(p, l) PROVE IInv'
    <2>1. /\ Moves(p) /\ UNCHANGED <<venue, index>>
          /\ run[p].pc = "write" /\ run'[p].pc \in {"write", "outcome"}
          /\ run'[p].todo = run[p].todo \ {l} /\ run'[p].seen = run[p].seen
          /\ run'[p].kind = run[p].kind /\ run'[p].buffer = run[p].buffer
      BY <1>1, <1>7, DoWriteSchedule
    <2>2. Rowed \subseteq Rowed' /\ Rowed' \subseteq Tracked /\ l \in Rowed'
      BY <1>7, WriteScheduleKeeps
    <2>3. Filed \subseteq Filed'
      BY <2>1, <2>2 DEF Filed
    <2>4. Fine(run[p], Rowed', Filed')
      BY <2>2, <2>3, FineMono DEF IInv
    <2>5. Fine(run'[p], Rowed', Filed')
      BY <2>1, <2>2, <2>4 DEF Fine
    <2>6. Backed(index', Filed')
      BY <1>1, <2>1, <2>3 DEF Backed
    <2>. QED
      BY <1>1, <2>1, <2>2, <2>3, <2>5, <2>6, Compose
  <1>8. ASSUME NEW p \in Proc, WriteOutcomes(p) PROVE IInv'
    <2>1. /\ Moves(p) /\ UNCHANGED <<stored, venue, index>> /\ run[p].pc = "outcome"
          /\ run'[p].pc = "write" /\ run'[p].todo = run[p].todo /\ run'[p].seen = run[p].seen
          /\ run'[p].kind = run[p].kind /\ run'[p].buffer = run[p].buffer
      BY <1>1, <1>8, DoWriteOutcomes
    <2>2. Rowed' = Rowed /\ Filed' = Filed
      BY <2>1 DEF Rowed, Filed
    <2>3. Fine(run[p], Rowed, Filed)
      BY DEF IInv
    <2>4. Fine(run'[p], Rowed, Filed)
      BY <2>1, <2>3 DEF Fine
    <2>. QED
      BY <1>1, <2>1, <2>2, <2>4, Compose
  <1>. QED
    BY <1>2, <1>3, <1>4, <1>5, <1>6, <1>7, <1>8, StepsAre DEF Writes

LEMMA TypedInit == Init => Typed
  <1>1. NoRows \in RowSet
    BY NoRowsFacts, RowSetIs
  <1>. QED
    BY <1>1, BlankIs DEF Init, Typed, Live, Window

LEMMA IInvInit == Init => IInv
  <1>. SUFFICES ASSUME Init PROVE IInv
    OBVIOUS
  <1>1. Rowed = {}
    BY DEF Init, Rowed, Leagues
  <1>2. \A p \in Proc : run[p] = Blank
    BY DEF Init
  <1>3. Backed(NoRows, Filed)
    BY NothingCaptured DEF Backed
  <1>4. \A p \in Proc : Fine(run[p], Rowed, Filed)
    BY <1>2, <1>3, BlankIs, FineAtRest
  <1>. QED
    BY <1>1, <1>3, <1>4, TypedInit DEF Init, IInv

-----------------------------------------------------------------------------
(* Theorems for any number of runners.                                     *)

\* The state is well typed, for all fixtures, leagues and runners.
THEOREM FixtureTypes == Spec => []TypeOK
  <1>1. Typed => TypeOK
    <2>. SUFFICES ASSUME Typed PROVE TypeOK
      OBVIOUS
    <2>1. ASSUME NEW p \in Proc
          PROVE  /\ IsRows(run[p].buffer) /\ run[p].pc \in Stage /\ run[p].kind \in Kind
                 /\ DOMAIN run[p].seen \subseteq Fixture
                 /\ \A f \in DOMAIN run[p].seen : run[p].seen[f] \in Live
                 /\ run[p].todo \subseteq League /\ run[p].league \in League \cup {NoLeague}
                 /\ run[p].over \subseteq Fixture
      BY RunIs, AnswersAre DEF RunType
    <2>. QED
      BY <2>1, RowSetIs DEF Typed, TypeOK
  <1>. QED
    BY <1>1, TypedInit, TypedNext, PTL DEF Spec

\* The invariant behind the files of captured leagues.
THEOREM FixtureInvariant == ASSUME PollsTracked PROVE Spec => []IInv
  BY IInvInit, IInvNext, PTL DEF Spec

\* A captured league has an instruments or a schedule file, whatever the batch and the
\* triggers replace, however many run at once; the re-poll must not poll leagues that are
\* not written.
THEOREM CapturedLeaguesHaveFiles == ASSUME PollsTracked PROVE Spec => []CapturedHasFixtures
  <1>1. IInv => CapturedHasFixtures
    BY DEF IInv, Fine, Backed, CapturedHasFixtures, Filed, Rowed
  <1>. QED
    BY <1>1, FixtureInvariant, PTL

-----------------------------------------------------------------------------
(* The invariant of one runner at a time.                                  *)

\* With one runner only its own record counts.
LEMMA Alone ==
    ASSUME OneRunner, Typed, NEW p \in Proc, Final', OutcomeHasRow', Sure(run[p])'
    PROVE  Solo'
  <1>1. \A q \in Proc : q = p
    BY DEF OneRunner
  <1>. QED
    BY <1>1 DEF Solo

\* What the provider says now of what it lists is true, and has every match that is stored
\* as over.
LEMMA AnswerNow ==
    ASSUME Typed, Final, NEW S \in SUBSET Fixture
    PROVE  /\ DOMAIN Answer(S) = S /\ \A f \in S : Answer(S)[f] = "FT" <=> status[f] = "FT"
           /\ \A f \in S : stored[f] = "FT" => Answer(S)[f] = "FT"
  BY AnswerIs DEF Final

LEMMA RowsNotAbsent ==
    ASSUME NEW leagues \in SUBSET (League \cup {NoLeague}), NEW s \in Status, s \notin Absence
    PROVE  \A k \in DOMAIN Rows(leagues, s) : Rows(leagues, s)[k] \notin Absence
  <1>1. \A k \in DOMAIN Rows(leagues, s) : Rows(leagues, s)[k] = s
    BY RowsAre
  <1>. QED
    BY <1>1

LEMMA NoAbsence ==
    /\ \A k \in DOMAIN NoRows : NoRows[k] \notin Absence
    /\ \A k \in DOMAIN Rows({NoLeague}, "failed") : Rows({NoLeague}, "failed")[k] \notin Absence
  <1>1. {NoLeague} \in SUBSET (League \cup {NoLeague}) /\ "failed" \in Status /\ "failed" \notin Absence
    BY StatusHas
  <1>. QED
    BY <1>1, NoRowsFacts, RowsNotAbsent

LEMMA UnmaskedNoAbsence ==
    ASSUME NEW r, NEW m, \A k \in DOMAIN r.buffer : r.buffer[k] \notin Absence,
           r.pc = "markers" => r.seen = Nothing
    PROVE  Unmasked(r, m)
  BY DEF Unmasked

\* Between two steps of the manifest a run that is not done has no absence to flush.
LEMMA NoneBuffered ==
    ASSUME Typed, NEW r, Unmasked(r, index), r.pc # "close"
    PROVE  \A k \in DOMAIN r.buffer : r.buffer[k] \notin Absence
  BY DEF Unmasked

\* What a step that leaves the world and the files alone must make of the run.
LEMMA TalksSure ==
    ASSUME TracksResolved, IInv, Solo, NEW p \in Proc, Talks(p)
    PROVE  Sure(run'[p])
  <1>. DEFINE r == run[p]
              n == run'[p]
  <1>1. Typed /\ Final /\ Sure(r) /\ Fine(r, Rowed, Filed) /\ Rowed \subseteq Tracked
    BY DEF IInv, Solo
  <1>2. listed \in SUBSET Fixture /\ DOMAIN r.seen \in SUBSET Fixture
    BY <1>1, RunIs DEF Typed
  <1>3. ASSUME n.pc \notin {"season", "byid", "write", "outcome", "markers"}, Truthful(n, status), Unmasked(n, index)
        PROVE  Sure(n)
    BY <1>3 DEF Sure, Complete, Asked, Agreed
  <1>4. ASSUME n.seen = Nothing PROVE Truthful(n, status)
    BY <1>4, NothingIs DEF Truthful
  <1>5. ASSUME NEW S \in SUBSET Fixture, n.seen = Answer(S)
        PROVE  Truthful(n, status) /\ DOMAIN n.seen = S /\ \A f \in S : stored[f] = "FT" => n.seen[f] = "FT"
    BY <1>1, <1>5, AnswerNow DEF Truthful
  <1>6. CASE BatchFetch(p)
    <2>1. n.pc = "venue" /\ n.buffer = NoRows /\ n.seen = Answer(listed)
      BY <1>1, <1>6, DoBatchFetch
    <2>2. Unmasked(n, index)
      BY <2>1, NoAbsence, UnmaskedNoAbsence
    <2>. QED
      BY <1>2, <1>3, <1>5, <2>1, <2>2
  <1>7. CASE BatchFetchEmpty(p)
    <2>1. n.pc = "markers" /\ n.buffer = NoRows /\ n.seen = Nothing
      BY <1>1, <1>7, DoBatchFetchEmpty
    <2>2. Unmasked(n, index)
      BY <2>1, NoAbsence, UnmaskedNoAbsence
    <2>. QED
      BY <1>4, <2>1, <2>2 DEF Sure, Complete, Asked, Agreed
  <1>8. CASE CloseVenue(p)
    <2>1. /\ r.pc = "venue" /\ n.pc = "close" /\ n.seen = r.seen
          /\ \A k \in DOMAIN n.buffer : n.buffer[k] \in Absence
                => \/ k \in DOMAIN r.buffer /\ r.buffer[k] = n.buffer[k]
                   \/ k \notin Captured(index)
      BY <1>1, <1>8, DoCloseVenue
    <2>2. \A k \in DOMAIN r.buffer : r.buffer[k] \notin Absence
      BY <1>1, <2>1, NoneBuffered DEF Sure
    <2>3. Unmasked(n, index)
      BY <2>1, <2>2 DEF Unmasked
    <2>4. Truthful(n, status)
      BY <1>1, <2>1 DEF Sure, Truthful
    <2>. QED
      BY <1>3, <2>1, <2>3, <2>4
  <1>9. CASE Ensure(p)
    <2>1. /\ r.pc = "ensure" /\ n.pc = "write" /\ n.buffer = r.buffer
          /\ n.seen = Answer(listed) /\ n.todo = Tracked \cap Leagues(listed)
      BY <1>1, <1>9, DoEnsure
    <2>2. \A k \in DOMAIN n.buffer : n.buffer[k] \notin Absence
      BY <1>1, <2>1, NoneBuffered DEF Sure
    <2>3. Unmasked(n, index)
      BY <2>1, <2>2, UnmaskedNoAbsence
    <2>4. Truthful(n, status) /\ DOMAIN n.seen = listed /\ \A f \in listed : stored[f] = "FT" => n.seen[f] = "FT"
      BY <1>2, <1>5, <2>1
    <2>. QED
      BY <2>1, <2>3, <2>4 DEF Sure, Complete, Asked, Agreed
  <1>10. CASE EnsureNothing(p) \/ Crash(p)
    <2>1. n.pc = "idle" /\ n.buffer = NoRows /\ n.seen = Nothing
      BY <1>1, <1>10, DoBlank, BlankIs
    <2>2. Unmasked(n, index)
      BY <2>1, NoAbsence, UnmaskedNoAbsence
    <2>. QED
      BY <1>3, <1>4, <2>1, <2>2
  <1>11. CASE Repoll(p)
    <2>. DEFINE found == {f \in listed : LeagueOf[f] \in Polled}
    <2>1. /\ found \in SUBSET Fixture /\ n.pc = "write" /\ n.buffer = NoRows
          /\ n.seen = Answer(found) /\ n.todo = Tracked \cap Leagues(found)
      BY <1>1, <1>11, DoRepoll
    <2>2. \A f \in listed : LeagueOf[f] \in Leagues(found) => f \in found
      BY DEF Leagues
    <2>. HIDE DEF found
    <2>3. Unmasked(n, index)
      BY <2>1, NoAbsence, UnmaskedNoAbsence
    <2>4. Truthful(n, status) /\ DOMAIN n.seen = found /\ \A f \in found : stored[f] = "FT" => n.seen[f] = "FT"
      BY <1>5, <2>1
    <2>. QED
      BY <2>1, <2>2, <2>3, <2>4 DEF Sure, Complete, Ahead, Asked, Agreed
  <1>12. CASE RepollFails(p) \/ SeasonFails(p)
    <2>1. n.pc = "close" /\ n.buffer = Rows({NoLeague}, "failed") /\ n.seen = Nothing
      BY <1>1, <1>12, DoFails
    <2>2. Unmasked(n, index)
      BY <2>1, NoAbsence, UnmaskedNoAbsence
    <2>. QED
      BY <1>3, <1>4, <2>1, <2>2
  <1>13. CASE RepollEmpty(p)
    <2>1. n.pc = "close" /\ n.seen = Nothing
      BY <1>1, <1>13, DoRepollEmpty
    <2>2. Unmasked(n, index)
      BY <2>1 DEF Unmasked
    <2>. QED
      BY <1>3, <1>4, <2>1, <2>2
  <1>14. CASE Scan(p)
    <2>1. n.pc = "season" /\ n.buffer = NoRows /\ n.seen = Answer(listed) /\ n.todo = Leagues(Stale(stored))
      BY <1>1, <1>14, DoScan
    <2>2. Unmasked(n, index)
      BY <2>1, NoAbsence, UnmaskedNoAbsence
    <2>3. Truthful(n, status) /\ DOMAIN n.seen = listed /\ \A f \in listed : stored[f] = "FT" => n.seen[f] = "FT"
      BY <1>2, <1>5, <2>1
    <2>. QED
      BY <2>1, <2>2, <2>3 DEF Sure, Complete, Asked, Agreed
  <1>15. CASE Season(p)
    <2>1. PICK answer \in {r.seen, Answer(listed)} :
            /\ DOMAIN n.seen = {f \in DOMAIN answer : LeagueOf[f] \in r.todo \cap Resolved}
            /\ \A f \in DOMAIN n.seen : n.seen[f] = answer[f]
      BY <1>1, <1>15, DoSeason
    <2>2. r.pc = "season" /\ n.pc = "byid" /\ n.buffer = r.buffer
      BY <1>1, <1>15, DoSeason
    <2>3. /\ \A f \in DOMAIN answer : answer[f] = "FT" => status[f] = "FT"
          /\ \A f \in listed : stored[f] = "FT" /\ LeagueOf[f] \in r.todo => f \in DOMAIN answer /\ answer[f] = "FT"
      <3>1. CASE answer = r.seen
        BY <1>1, <2>2, <3>1 DEF Sure, Truthful, Complete, Ahead
      <3>2. CASE answer = Answer(listed)
        BY <1>1, <1>2, <3>2, AnswerNow
      <3>. QED
        BY <3>1, <3>2
    <2>4. r.todo \subseteq Resolved /\ r.todo = Leagues(Stale(stored))
      BY <1>1, <2>2 DEF Sure, Asked, Fine, TracksResolved
    <2>5. Leagues(DOMAIN n.seen \cup Stale(stored)) \subseteq r.todo
      BY <2>1, <2>4 DEF Leagues
    <2>6. Truthful(n, status)
      BY <2>1, <2>3 DEF Truthful
    <2>7. Complete(n, stored, listed)
      BY <2>1, <2>2, <2>3, <2>4, <2>5 DEF Complete, Ahead
    <2>8. Unmasked(n, index)
      BY <1>1, <2>2, NoneBuffered, UnmaskedNoAbsence DEF Sure
    <2>. QED
      BY <2>2, <2>6, <2>7, <2>8 DEF Sure, Asked, Agreed
  <1>16. CASE ById(p) \/ ByIdFails(p)
    <2>1. /\ r.pc = "byid" /\ n.buffer = r.buffer
          /\ \/ n.pc = "close" /\ DOMAIN n.seen = {}
             \/ n.pc = "write" /\ n.todo = Tracked \cap Leagues(DOMAIN n.seen)
          /\ DOMAIN r.seen \subseteq DOMAIN n.seen
          /\ DOMAIN n.seen \subseteq DOMAIN r.seen \cup Stale(stored)
          /\ \A f \in DOMAIN r.seen : n.seen[f] = r.seen[f]
          /\ \A f \in DOMAIN n.seen \ DOMAIN r.seen : n.seen[f] = status[f]
      BY <1>1, <1>16, DoById
    <2>2. Truthful(n, status)
      BY <1>1, <2>1 DEF Sure, Truthful
    <2>3. Leagues(DOMAIN n.seen) \subseteq Leagues(DOMAIN r.seen \cup Stale(stored))
      BY <2>1, LeaguesMono
    <2>4. Complete(n, stored, listed)
      BY <1>1, <2>1, <2>3 DEF Sure, Complete, Ahead
    <2>5. Unmasked(n, index)
      BY <1>1, <2>1, NoneBuffered, UnmaskedNoAbsence DEF Sure
    <2>. QED
      BY <2>1, <2>2, <2>4, <2>5 DEF Sure, Asked, Agreed
  <1>17. CASE WritesDone(p)
    <2>1. CASE n = Blank
      <3>1. Unmasked(n, index)
        BY <2>1, BlankIs, NoAbsence, UnmaskedNoAbsence
      <3>. QED
        BY <1>3, <1>4, <2>1, <3>1, BlankIs
    <2>2. CASE n # Blank
      <3>1. /\ n.pc = "close" /\ n.seen = r.seen
            /\ n.buffer = Rows(Leagues(DOMAIN r.seen), "captured")
        BY <1>1, <1>17, <2>2, DoWritesDone
      <3>2. Leagues(DOMAIN r.seen) \in SUBSET (League \cup {NoLeague})
        BY <1>2, LeaguesAre
      <3>3. \A k \in DOMAIN n.buffer : n.buffer[k] \notin Absence
        BY <3>1, <3>2, RowsNotAbsent, StatusHas
      <3>4. Unmasked(n, index)
        BY <3>1, <3>3, UnmaskedNoAbsence
      <3>5. Truthful(n, status)
        BY <1>1, <3>1 DEF Sure, Truthful
      <3>. QED
        BY <1>3, <3>1, <3>4, <3>5
    <2>. QED
      BY <2>1, <2>2
  <1>. QED
    BY <1>6, <1>7, <1>8, <1>9, <1>10, <1>11, <1>12, <1>13, <1>14, <1>15, <1>16, <1>17 DEF Talks

\* The runs' facts after a step that leaves status, listing and schedule alone.
LEMMA SureNext ==
    ASSUME UNCHANGED <<status, listed, stored>>, NEW p \in Proc,
           Truthful(run'[p], status), Complete(run'[p], stored, listed),
           Asked(run'[p], stored), Agreed(run'[p], stored), Unmasked(run'[p], index')
    PROVE  Sure(run[p])'
  BY DEF Sure

LEMMA OutcomesStay ==
    ASSUME Typed, Final, OutcomeHasRow, UNCHANGED <<status, listed, stored, outcome>>
    PROVE  Final' /\ OutcomeHasRow'
  BY DEF Final, OutcomeHasRow

\* A run that is not done flushes nothing, one that is done flushes absences it may.
LEMMA StampsSure ==
    ASSUME IInv, Solo, NEW p \in Proc, Stamps(p)
    PROVE  /\ Moves(p) /\ UNCHANGED <<status, listed, stored, outcome>>
           /\ Sure(run[p])'
  <1>. DEFINE r == run[p]
              n == run'[p]
  <1>1. Typed /\ Sure(r)
    BY DEF IInv, Solo
  <1>2. ASSUME UNCHANGED <<world, store>>, n.pc \notin {"season", "byid", "write", "outcome", "markers"},
               Truthful(n, status), \A k \in DOMAIN n.buffer : n.buffer[k] \notin Absence
        PROVE  UNCHANGED <<status, listed, stored, outcome>> /\ Sure(run[p])'
    <2>1. Unmasked(n, index')
      BY <1>2, UnmaskedNoAbsence
    <2>2. Complete(n, stored, listed) /\ Asked(n, stored) /\ Agreed(n, stored)
      BY <1>2 DEF Complete, Asked, Agreed
    <2>. QED
      BY <1>2, <2>1, <2>2, SureNext DEF world, store
  <1>3. CASE BatchFetchFails(p)
    <2>1. Moves(p) /\ UNCHANGED <<world, store>> /\ n.pc = "ensure" /\ n.buffer = NoRows
      BY <1>1, <1>3, DoBatchFetchFails
    <2>2. n.seen = Nothing
      BY <1>1, <1>3, BlankIs DEF BatchFetchFails, Local, Typed, Blank
    <2>. QED
      BY <1>2, <2>1, <2>2, NothingIs, NoAbsence DEF Truthful
  <1>4. CASE ZeroMarkers(p)
    <2>1. /\ Moves(p) /\ UNCHANGED <<world, store>> /\ r.pc = "markers" /\ n.pc = "ensure"
          /\ n.buffer = r.buffer /\ n.seen = r.seen
      BY <1>1, <1>4, DoZeroMarkers
    <2>2. \A k \in DOMAIN r.buffer : r.buffer[k] \notin Absence
      BY <1>1, <2>1, NoneBuffered DEF Sure
    <2>3. Truthful(n, status)
      BY <1>1, <2>1 DEF Sure, Truthful
    <2>. QED
      BY <1>2, <2>1, <2>2, <2>3
  <1>5. CASE Flush(p)
    <2>1. /\ Moves(p) /\ UNCHANGED <<world, store>> /\ n.pc \in {"idle", "ensure"}
          /\ n.buffer = NoRows /\ n.seen = Nothing
      BY <1>1, <1>5, DoFlush
    <2>. QED
      BY <1>2, <2>1, NothingIs, NoAbsence DEF Truthful
  <1>. QED
    BY <1>3, <1>4, <1>5 DEF Stamps

\* The league's schedule is replaced by an answer that has its matches that are over.
LEMMA ScheduleKeepsOver ==
    ASSUME IInv, Solo, NEW p \in Proc, NEW l \in League, WriteSchedule(p, l)
    PROVE  \A f \in listed : stored[f] = "FT" => stored'[f] = "FT"
  <1>1. Typed /\ Sure(run[p]) /\ listed \subseteq Fixture
    BY DEF IInv, Solo, Typed
  <1>2. /\ run[p].pc = "write" /\ l \in run[p].todo
        /\ \A f \in Fixture : stored'[f] = IF LeagueOf[f] # l THEN stored[f]
                                           ELSE IF f \in DOMAIN run[p].seen THEN run[p].seen[f]
                                           ELSE "none"
    BY <1>1, DoWriteSchedule
  <1>3. ASSUME NEW f \in listed, stored[f] = "FT", LeagueOf[f] = l
        PROVE  f \in DOMAIN run[p].seen /\ run[p].seen[f] = "FT"
    BY <1>1, <1>2, <1>3 DEF Sure, Complete, Ahead
  <1>. QED
    BY <1>1, <1>2, <1>3

LEMMA WriteScheduleSure ==
    ASSUME OneRunner, IInv, Solo, Typed', NEW p \in Proc, NEW l \in League, WriteSchedule(p, l)
    PROVE  Solo'
  <1>. DEFINE r == run[p]
              n == run'[p]
  <1>1. Typed /\ Final /\ OutcomeHasRow /\ Sure(r) /\ listed \subseteq Fixture /\ DOMAIN r.seen \subseteq Fixture
    BY RunIs DEF IInv, Solo, Typed
  <1>2. /\ UNCHANGED <<status, listed, outcome, index>> /\ r.pc = "write" /\ l \in r.todo
        /\ \A f \in Fixture : stored'[f] = IF LeagueOf[f] # l THEN stored[f]
                                           ELSE IF f \in DOMAIN r.seen THEN r.seen[f] ELSE "none"
        /\ n.todo = r.todo \ {l} /\ n.seen = r.seen /\ n.buffer = r.buffer
        /\ n.pc = "write" \/ (n.pc = "outcome" /\ n.league = l)
    BY <1>1, DoWriteSchedule DEF world
  <1>3. Final'
    BY <1>1, <1>2 DEF Final, Sure, Truthful
  <1>4. OutcomeHasRow'
    BY <1>1, <1>2, ScheduleKeepsOver DEF OutcomeHasRow
  <1>5. Truthful(n, status)
    BY <1>1, <1>2 DEF Sure, Truthful
  <1>6. Complete(n, stored', listed)
    BY <1>1, <1>2 DEF Sure, Complete, Ahead
  <1>7. Asked(n, stored') /\ Agreed(n, stored')
    BY <1>1, <1>2 DEF Asked, Agreed, InLeague
  <1>8. Unmasked(n, index)
    BY <1>1, <1>2, NoneBuffered, UnmaskedNoAbsence DEF Sure
  <1>9. Sure(run[p])'
    BY <1>2, <1>5, <1>6, <1>7, <1>8 DEF Sure
  <1>. QED
    BY <1>1, <1>3, <1>4, <1>9 DEF Solo, OneRunner

LEMMA WriteOutcomesSure ==
    ASSUME OneRunner, IInv, Solo, Typed', NEW p \in Proc, WriteOutcomes(p)
    PROVE  Solo'
  <1>. DEFINE r == run[p]
              n == run'[p]
              l == r.league
              over == {f \in DOMAIN r.seen \cap InLeague(l) : r.seen[f] = "FT"}
  <1>1. Typed /\ Final /\ OutcomeHasRow /\ Sure(r)
    BY DEF IInv, Solo
  <1>2. /\ UNCHANGED <<status, listed, stored, index>> /\ r.pc = "outcome"
        /\ outcome' = (outcome \ InLeague(l)) \cup over
        /\ n.pc = "write" /\ n.todo = r.todo /\ n.seen = r.seen /\ n.buffer = r.buffer
    BY <1>1, DoWriteOutcomes DEF world
  <1>3. \A f \in over : stored[f] = "FT" /\ status[f] = "FT"
    BY <1>1, <1>2 DEF Sure, Agreed, Truthful
  <1>4. Final'
    BY <1>1, <1>2, <1>3 DEF Final
  <1>5. OutcomeHasRow'
    BY <1>1, <1>2, <1>3 DEF OutcomeHasRow
  <1>6. Truthful(n, status) /\ Complete(n, stored, listed) /\ Asked(n, stored) /\ Agreed(n, stored)
    BY <1>1, <1>2 DEF Sure, Truthful, Complete, Ahead, Asked, Agreed
  <1>7. Unmasked(n, index)
    BY <1>1, <1>2, NoneBuffered, UnmaskedNoAbsence DEF Sure
  <1>8. Sure(run[p])'
    BY <1>2, <1>6, <1>7, SureNext
  <1>. QED
    BY <1>1, <1>4, <1>5, <1>8 DEF Solo, OneRunner

LEMMA WriteVenueSure ==
    ASSUME OneRunner, IInv, Solo, Typed', NEW p \in Proc, NEW l \in League, WriteVenue(p, l)
    PROVE  Solo'
  <1>. DEFINE r == run[p]
              n == run'[p]
  <1>1. Typed /\ Final /\ OutcomeHasRow /\ Sure(r)
    BY DEF IInv, Solo
  <1>2. /\ UNCHANGED <<status, listed, stored, outcome, index>> /\ r.pc = "venue" /\ n.pc = "venue"
        /\ n.seen = r.seen
        /\ \A k \in DOMAIN n.buffer : n.buffer[k] \in Absence
              => k \in DOMAIN r.buffer /\ r.buffer[k] = n.buffer[k]
    BY <1>1, DoWriteVenue DEF world
  <1>3. Truthful(n, status) /\ Complete(n, stored, listed) /\ Asked(n, stored) /\ Agreed(n, stored)
    BY <1>1, <1>2 DEF Sure, Truthful, Complete, Asked, Agreed
  <1>4. \A k \in DOMAIN r.buffer : r.buffer[k] \notin Absence
    BY <1>1, <1>2, NoneBuffered DEF Sure
  <1>5. Unmasked(n, index)
    BY <1>2, <1>4, UnmaskedNoAbsence
  <1>6. Sure(run[p])'
    BY <1>2, <1>3, <1>5, SureNext
  <1>. QED
    BY <1>1, <1>2, <1>6, OutcomesStay, Alone

LEMMA WorldSure ==
    ASSUME IInv, Solo, World
    PROVE  Solo'
  <1>1. Typed /\ Final /\ OutcomeHasRow
    BY DEF IInv, Solo
  <1>2. /\ UNCHANGED <<stored, outcome, index, run>> /\ listed \subseteq Fixture /\ listed' \subseteq Fixture
        /\ \A f \in Fixture : status[f] = "FT" => status'[f] = "FT" /\ (f \in listed' <=> f \in listed)
        /\ outcome \subseteq Fixture
    BY <1>1, DoWorld DEF store, Typed
  <1>3. Final'
    BY <1>1, <1>2 DEF Final
  <1>4. OutcomeHasRow'
    BY <1>1, <1>2 DEF Final, OutcomeHasRow
  <1>5. ASSUME NEW p \in Proc PROVE Sure(run[p])'
    <2>1. Sure(run[p]) /\ DOMAIN run[p].seen \subseteq Fixture
      BY <1>1, RunIs DEF Solo
    <2>2. Truthful(run[p], status')
      BY <1>2, <2>1 DEF Sure, Truthful
    <2>3. Complete(run[p], stored, listed')
      BY <1>1, <1>2, <2>1 DEF Sure, Complete, Final
    <2>. QED
      BY <1>2, <2>1, <2>2, <2>3 DEF Sure
  <1>. QED
    BY <1>3, <1>4, <1>5 DEF Solo

LEMMA SoloNext == OneRunner /\ TracksResolved /\ IInv /\ Solo /\ Typed' /\ [Next]_vars => Solo'
  <1>. SUFFICES ASSUME OneRunner, TracksResolved, IInv, Solo, Typed', [Next]_vars PROVE Solo'
    OBVIOUS
  <1>1. Typed /\ Final /\ OutcomeHasRow
    BY DEF IInv, Solo
  <1>2. CASE UNCHANGED vars
    BY <1>2 DEF vars, Solo, Final, OutcomeHasRow, Sure
  <1>3. CASE World
    BY <1>3, WorldSure
  <1>4. ASSUME NEW p \in Proc, Talks(p) PROVE Solo'
    <2>1. Moves(p) /\ UNCHANGED <<status, listed, stored, outcome, index>> /\ Sure(run'[p])
      BY <1>1, <1>4, TalksQuiet, TalksSure DEF Quiet, world, store
    <2>2. Sure(run[p])'
      BY <2>1 DEF Sure
    <2>. QED
      BY <1>1, <2>1, <2>2, OutcomesStay, Alone
  <1>5. ASSUME NEW p \in Proc, Stamps(p) PROVE Solo'
    BY <1>1, <1>5, StampsSure, OutcomesStay, Alone
  <1>6. ASSUME NEW p \in Proc, Writes(p) PROVE Solo'
    BY <1>6, WriteOutcomesSure, WriteVenueSure, WriteScheduleSure DEF Writes
  <1>. QED
    BY <1>2, <1>3, <1>4, <1>5, <1>6, StepsAre

LEMMA SoloInit == Init => Solo
  <1>. SUFFICES ASSUME Init PROVE Solo
    OBVIOUS
  <1>1. Final /\ OutcomeHasRow
    BY DEF Init, Final, OutcomeHasRow
  <1>2. ASSUME NEW p \in Proc PROVE Sure(run[p])
    <2>1. run[p] = Blank
      BY DEF Init
    <2>2. Unmasked(Blank, index)
      BY BlankIs, NoAbsence, UnmaskedNoAbsence
    <2>3. Truthful(Blank, status)
      BY BlankIs, NothingIs DEF Truthful
    <2>4. Complete(Blank, stored, listed) /\ Asked(Blank, stored) /\ Agreed(Blank, stored)
      BY BlankIs DEF Complete, Asked, Agreed
    <2>. QED
      BY <2>1, <2>2, <2>3, <2>4 DEF Sure
  <1>. QED
    BY <1>1, <1>2 DEF Solo

-----------------------------------------------------------------------------
(* Theorems for one runner at a time: the re-poll's leagues are written,   *)
(* and every tracked league can be asked for by its season list.           *)

\* The invariant behind them.
THEOREM SoloInvariant ==
    ASSUME OneRunner, PollsTracked, TracksResolved
    PROVE  Spec => [](IInv /\ Solo)
  <1>1. Init => IInv /\ Solo
    BY IInvInit, SoloInit
  <1>2. IInv /\ Solo /\ [Next]_vars => (IInv /\ Solo)'
    <2>. SUFFICES ASSUME IInv, Solo, [Next]_vars PROVE (IInv /\ Solo)'
      OBVIOUS
    <2>1. IInv' /\ Typed'
      BY IInvNext DEF IInv
    <2>. QED
      BY <2>1, SoloNext
  <1>. QED
    BY <1>1, <1>2, PTL DEF Spec

\* An outcome has its schedule row, which says that the match is over, whenever a run died.
THEOREM OutcomesHaveRows ==
    ASSUME OneRunner, PollsTracked, TracksResolved
    PROVE  Spec => []OutcomeHasRow
  <1>1. IInv /\ Solo => OutcomeHasRow
    BY DEF Solo
  <1>. QED
    BY <1>1, SoloInvariant, PTL

\* No step of the batch, the re-poll or the status refresh loses or reverts the row of a
\* match that is over and still listed: every answer that replaces its league's file has it.
THEOREM FinishedRowsStay ==
    ASSUME OneRunner, PollsTracked, TracksResolved
    PROVE  Spec => FinishedStays
  <1>. DEFINE A == \A f \in listed : stored[f] = "FT" => stored'[f] = "FT"
  <1>1. IInv /\ Solo /\ [Next]_vars => [A]_vars
    <2>. SUFFICES ASSUME IInv, Solo, Next PROVE A
      OBVIOUS
    <2>0. Typed
      BY DEF IInv
    <2>1. CASE World
      BY <2>0, <2>1, DoWorld DEF store
    <2>2. ASSUME NEW p \in Proc, Talks(p) \/ Stamps(p) PROVE A
      <3>1. UNCHANGED stored
        BY <2>0, <2>2, TalksQuiet, StampsFine DEF Quiet, store
      <3>. QED
        BY <3>1
    <2>3. ASSUME NEW p \in Proc, Writes(p) PROVE A
      <3>1. ASSUME NEW l \in League, WriteSchedule(p, l) PROVE A
        BY <3>1, ScheduleKeepsOver
      <3>2. ASSUME WriteOutcomes(p) \/ \E l \in League : WriteVenue(p, l) PROVE UNCHANGED stored
        BY <2>0, <3>2, DoWriteOutcomes, DoWriteVenue
      <3>. QED
        BY <2>3, <3>1, <3>2 DEF Writes
    <2>. QED
      BY <2>1, <2>2, <2>3, StepsAre
  <1>. QED
    BY <1>1, SoloInvariant, PTL DEF Spec, FinishedStays

\* A captured row becomes an absence only through a run that found no fixture at all: the
\* gaps of a run with fixtures are decided on the manifest it flushes into.
THEOREM CapturedRowsUnmasked ==
    ASSUME OneRunner, PollsTracked, TracksResolved
    PROVE  Spec => CapturedNotMasked
  <1>. DEFINE Step1(k) == k \in Captured(index) /\ index'[k] \in Absence
                            => \E p \in Proc : run[p].pc \in {"markers", "close"} /\ run[p].seen = Nothing
              A == \A l \in League : Step1(<<Schedule, l>>)
  <1>1. IInv /\ Solo /\ [Next]_vars => [A]_vars
    <2>. SUFFICES ASSUME IInv, Solo, Next, NEW l \in League PROVE Step1(<<Schedule, l>>)
      BY DEF vars
    <2>. DEFINE k == <<Schedule, l>>
    <2>0. Typed /\ IsRows(index)
      BY RowSetIs DEF IInv, Typed
    <2>1. ASSUME UNCHANGED index PROVE Step1(k)
      BY <2>0, <2>1, RowsFacts
    <2>2. CASE World
      BY <2>0, <2>1, <2>2, DoWorld
    <2>3. ASSUME NEW p \in Proc, Talks(p) PROVE Step1(k)
      BY <2>0, <2>1, <2>3, TalksQuiet DEF Quiet
    <2>4. ASSUME NEW p \in Proc, Writes(p) PROVE Step1(k)
      BY <2>0, <2>1, <2>4, DoWriteOutcomes, DoWriteVenue, DoWriteSchedule DEF Writes
    <2>5. ASSUME NEW p \in Proc, Stamps(p), k \in Captured(index), index'[k] \in Absence
          PROVE  run[p].pc \in {"markers", "close"} /\ run[p].seen = Nothing
      <3>. HIDE DEF k
      <3>0. k \in DOMAIN index /\ index[k] \notin Absence
        BY <2>0, <2>5, RowsFacts
      <3>1. CASE BatchFetchFails(p)
        BY <2>0, <2>5, <3>0, <3>1, DoBatchFetchFails
      <3>2. CASE ZeroMarkers(p)
        BY <2>0, <3>2, DoZeroMarkers DEF Solo, Sure, Unmasked
      <3>3. CASE Flush(p)
        <4>1. run[p].pc = "close" /\ index' = Upsert(index, run[p].buffer)
          BY <2>0, <3>3, DoFlush
        <4>2. IsRows(run[p].buffer)
          BY <2>0, RunIs
        <4>3. IsRows(index) /\ k \in DOMAIN index /\ Upsert(index, run[p].buffer)[k] # index[k]
          BY <2>0, <2>5, <3>0, <4>1
        <4>4. k \in DOMAIN run[p].buffer /\ Upsert(index, run[p].buffer)[k] = run[p].buffer[k]
          BY <4>2, <4>3, UpsertChanges
        <4>5. run[p].buffer[k] \in Absence
          BY <2>5, <4>1, <4>4
        <4>. QED
          BY <4>1, <4>4, <4>5, <2>5 DEF Solo, Sure, Unmasked
      <3>. QED
        BY <2>5, <3>1, <3>2, <3>3 DEF Stamps
    <2>. QED
      BY <2>2, <2>3, <2>4, <2>5, StepsAre
  <1>. QED
    BY <1>1, SoloInvariant, PTL DEF Spec, CapturedNotMasked

-----------------------------------------------------------------------------
(* One fire of the status refresh, whether or not its leagues can be asked *)
(* for by a season list: what it owes is in its answer, then on file.      *)

\* While it asks, what a fire owes is stale, in a league that is written, and over in
\* the answer if the answer has it; while it writes, the answer has it, and its league is
\* still to come, or its files are written.
Owed(r, rows, outs, said) ==
    r.kind = "refresh" =>
        /\ r.pc \in {"season", "byid"} =>
              \A f \in r.over : /\ f \in Stale(rows) /\ said[f] = "FT"
                                /\ f \in DOMAIN r.seen => r.seen[f] = "FT"
        /\ r.pc \in {"write", "outcome"} =>
              \A f \in r.over : /\ f \in DOMAIN r.seen /\ r.seen[f] = "FT"
                                /\ LeagueOf[f] \in r.todo
                                   \/ /\ rows[f] = "FT"
                                      /\ f \in outs \/ (r.pc = "outcome" /\ r.league = LeagueOf[f])
        /\ r.pc = "close" => \A f \in r.over : rows[f] = "FT" /\ f \in outs

Owing == \A p \in Proc : Owed(run[p], stored, outcome, status)

LEMMA OwingAlone ==
    ASSUME OneRunner, NEW p \in Proc, Owed(run'[p], stored', outcome', status')
    PROVE  Owing'
  BY DEF OneRunner, Owing

\* The steps that leave no refresh behind.
LEMMA NotRefresh ==
    ASSUME IInv, NEW p \in Proc,
           \/ BatchFetch(p) \/ BatchFetchEmpty(p) \/ BatchFetchFails(p) \/ Repoll(p)
           \/ RepollFails(p) \/ RepollEmpty(p) \/ EnsureNothing(p) \/ Crash(p) \/ Flush(p)
           \/ Ensure(p) \/ CloseVenue(p) \/ ZeroMarkers(p) \/ \E l \in League : WriteVenue(p, l)
    PROVE  run'[p].kind # "refresh"
  <1>1. Typed /\ run[p] \in RunType
    BY RunIs DEF IInv
  <1>2. ASSUME NEW n, Local(p, n) PROVE run'[p] = n
    BY <1>1, <1>2 DEF Local, Typed
  <1>3. run[p].pc \in {"venue", "markers", "ensure"} => run[p].kind = "batch"
    BY DEF IInv, Fine
  <1>4. CASE BatchFetch(p) \/ BatchFetchEmpty(p) \/ BatchFetchFails(p) \/ Repoll(p)
    <2>1. CASE BatchFetch(p)
      BY <1>2, <2>1 DEF BatchFetch, Blank
    <2>2. CASE BatchFetchEmpty(p) \/ BatchFetchFails(p)
      BY <1>2, <2>2 DEF BatchFetchEmpty, BatchFetchFails, Blank
    <2>3. CASE Repoll(p)
      BY <1>2, <2>3 DEF Repoll, Blank
    <2>. QED
      BY <1>4, <2>1, <2>2, <2>3
  <1>5. CASE RepollFails(p) \/ RepollEmpty(p)
    <2>1. \E buffer : Local(p, [Blank EXCEPT !.pc = "close", !.kind = "repoll", !.buffer = buffer])
      BY <1>5 DEF RepollFails, RepollEmpty
    <2>. QED
      BY <1>2, <2>1 DEF Blank
  <1>6. CASE EnsureNothing(p) \/ Crash(p) \/ Flush(p)
    <2>1. Local(p, Blank) \/ Local(p, [Blank EXCEPT !.pc = "ensure", !.kind = "batch"])
      BY <1>6 DEF EnsureNothing, Crash, Flush
    <2>2. Blank.kind # "refresh" /\ [Blank EXCEPT !.pc = "ensure", !.kind = "batch"].kind # "refresh"
      BY DEF Blank
    <2>. QED
      BY <1>2, <2>1, <2>2
  <1>7. CASE Ensure(p)
    <2>1. \E seen, todo : Local(p, [run[p] EXCEPT !.pc = "write", !.seen = seen, !.todo = todo])
      BY <1>7 DEF Ensure
    <2>. QED
      BY <1>1, <1>2, <1>3, <1>7, <2>1 DEF Ensure, RunType
  <1>8. CASE CloseVenue(p)
    <2>1. \E buffer : Local(p, [run[p] EXCEPT !.pc = "close", !.buffer = buffer])
      BY <1>8 DEF CloseVenue
    <2>. QED
      BY <1>1, <1>2, <1>3, <1>8, <2>1 DEF CloseVenue, RunType
  <1>9. CASE ZeroMarkers(p)
    BY <1>1, <1>2, <1>3, <1>9 DEF ZeroMarkers, RunType
  <1>10. CASE \E l \in League : WriteVenue(p, l)
    BY <1>1, <1>3, <1>10, DoWriteVenue
  <1>. QED
    BY <1>4, <1>5, <1>6, <1>7, <1>8, <1>9, <1>10

LEMMA AsksOwe ==
    ASSUME IInv, Owing, NEW p \in Proc,
           Scan(p) \/ Season(p) \/ SeasonFails(p) \/ ById(p) \/ ByIdFails(p) \/ WritesDone(p)
    PROVE  Owed(run'[p], stored, outcome, status)
  <1>1. Typed /\ Owed(run[p], stored, outcome, status) /\ Rowed \subseteq Tracked
    BY DEF IInv, Owing
  <1>2. CASE Scan(p)
    <2>1. /\ run'[p].pc = "season" /\ run'[p].seen = Answer(listed)
          /\ run'[p].over = {f \in Stale(stored) : status[f] = "FT"}
      BY <1>1, <1>2, DoScan
    <2>2. DOMAIN run'[p].seen = listed /\ \A f \in listed : run'[p].seen[f] = status[f]
      BY <1>1, <2>1, AnswerIs DEF Typed
    <2>. HIDE <1>2
    <2>3. \A f \in run'[p].over : f \in Stale(stored) /\ status[f] = "FT"
      BY <2>1
    <2>. QED
      BY <2>1, <2>2, <2>3 DEF Owed
  <1>3. CASE Season(p)
    <2>1. PICK answer \in {run[p].seen, Answer(listed)} :
              \A f \in DOMAIN run'[p].seen : f \in DOMAIN answer /\ run'[p].seen[f] = answer[f]
      BY <1>1, <1>3, DoSeason
    <2>2. DOMAIN Answer(listed) = listed /\ \A f \in listed : Answer(listed)[f] = status[f]
      BY <1>1, AnswerIs DEF Typed
    <2>. QED
      BY <1>1, <1>3, <2>1, <2>2, DoSeason DEF Owed
  <1>4. CASE SeasonFails(p)
    BY <1>1, <1>4, DoFails DEF Owed
  <1>5. CASE ById(p) \/ ByIdFails(p)
    <2>. SUFFICES ASSUME run[p].kind = "refresh" PROVE Owed(run'[p], stored, outcome, status)
      BY <1>1, <1>5, DoById DEF Owed
    <2>1. \A f \in run'[p].over : /\ f \in Stale(stored) /\ status[f] = "FT"
                                  /\ f \in DOMAIN run[p].seen => run[p].seen[f] = "FT"
      BY <1>1, <1>5, DoById DEF Owed
    <2>2. \A f \in run'[p].over : f \in DOMAIN run'[p].seen
      BY <1>1, <1>5, <2>1, DoById
    <2>3. \A f \in run'[p].over : run'[p].seen[f] = "FT"
      BY <1>1, <1>5, <2>1, <2>2, DoById
    <2>4. \A f \in run'[p].over : LeagueOf[f] \in Tracked \cap Leagues(DOMAIN run'[p].seen)
      <3>1. \A f \in Stale(stored) : LeagueOf[f] \in Rowed
        BY DEF Stale, Rowed, Leagues
      <3>. QED
        BY <1>1, <2>1, <2>2, <3>1 DEF Leagues
    <2>. QED
      BY <1>1, <1>5, <2>2, <2>3, <2>4, DoById DEF Owed
  <1>6. CASE WritesDone(p)
    BY <1>1, <1>6, DoWritesDone, BlankIs DEF Owed
  <1>. QED
    BY <1>2, <1>3, <1>4, <1>5, <1>6

LEMMA WritesOwe ==
    ASSUME IInv, Owing, NEW p \in Proc, WriteOutcomes(p) \/ \E l \in League : WriteSchedule(p, l)
    PROVE  Owed(run'[p], stored', outcome', status')
  <1>1. Typed /\ Owed(run[p], stored, outcome, status) /\ run[p].over \subseteq Fixture
    BY RunIs DEF IInv, Owing, RunType
  <1>2. CASE WriteOutcomes(p)
    BY <1>1, <1>2, DoWriteOutcomes DEF Owed, InLeague, world
  <1>3. ASSUME NEW l \in League, WriteSchedule(p, l) PROVE Owed(run'[p], stored', outcome', status')
    BY <1>1, <1>3, DoWriteSchedule DEF Owed, InLeague, world
  <1>. QED
    BY <1>2, <1>3

LEMMA OwingNext == OneRunner /\ IInv /\ Owing /\ [Next]_vars => Owing'
  <1>. SUFFICES ASSUME OneRunner, IInv, Owing, [Next]_vars PROVE Owing'
    OBVIOUS
  <1>1. Typed
    BY DEF IInv
  <1>2. CASE UNCHANGED vars
    BY <1>2 DEF vars, Owing
  <1>3. CASE World
    <2>1. UNCHANGED <<stored, outcome, run>>
          /\ \A f \in Fixture : status[f] = "FT" => status'[f] = "FT"
      BY <1>1, <1>3, DoWorld DEF store
    <2>. QED
      BY <2>1 DEF Owing, Owed, Stale
  <1>4. ASSUME NEW p \in Proc,
               \/ Scan(p) \/ Season(p) \/ SeasonFails(p) \/ ById(p) \/ ByIdFails(p) \/ WritesDone(p)
        PROVE  Owing'
    <2>1. UNCHANGED <<stored, outcome, status>>
      BY <1>1, <1>4, TalksQuiet DEF Talks, Quiet, store, world
    <2>. QED
      BY <1>4, <2>1, AsksOwe, OwingAlone
  <1>5. ASSUME NEW p \in Proc, WriteOutcomes(p) \/ \E l \in League : WriteSchedule(p, l)
        PROVE  Owing'
    BY <1>5, WritesOwe, OwingAlone
  <1>6. ASSUME NEW p \in Proc,
               \/ BatchFetch(p) \/ BatchFetchEmpty(p) \/ BatchFetchFails(p) \/ Repoll(p)
               \/ RepollFails(p) \/ RepollEmpty(p) \/ EnsureNothing(p) \/ Crash(p) \/ Flush(p)
               \/ Ensure(p) \/ CloseVenue(p) \/ ZeroMarkers(p) \/ \E l \in League : WriteVenue(p, l)
        PROVE  Owing'
    BY <1>6, NotRefresh, OwingAlone DEF Owed
  <1>. QED
    BY <1>2, <1>3, <1>4, <1>5, <1>6 DEF Next, Step

\* A fire of the status refresh that gets its answers leaves the final row and the
\* outcome of every match that was over, and stored as not over, when it began: for all
\* leagues, also those no season list can be asked for, wherever the matches move.
THEOREM RefreshFireSettles ==
    ASSUME OneRunner, PollsTracked
    PROVE  Spec => []RefreshSettles
  <1>1. Init => Owing
    BY BlankIs DEF Init, Owing, Owed
  <1>2. Owing => RefreshSettles
    BY DEF Owing, Owed, RefreshSettles
  <1>. QED
    BY <1>1, <1>2, OwingNext, FixtureInvariant, PTL DEF Spec
=============================================================================
