------------------------- MODULE SportsCore_proofs -------------------------
(***************************************************************************)
(* What a process leaves of teams, standings and injuries, for all         *)
(* leagues, scopes and numbers of processes: a captured league has its     *)
(* file, no league that has one is newly stamped absent, and an outage is  *)
(* never stamped as an absence.                                            *)
(***************************************************************************)
EXTENDS SportsCore, SportsManifest_proofs

RunType == [pc : Stage, entity : DataType, cached : [Slow -> SUBSET Expected], todo : SUBSET Expected,
            done : SUBSET Expected, wrote : SUBSET Slow, buffer : RowSet]

Typed == /\ files \subseteq Cell /\ visits \in 1..MaxVisits
         /\ index \in RowSet
         /\ run \in RunType

\* A captured row has its file as soon as it is buffered.
Backed(rows) == Captured(rows) \cap Cell \subseteq files

\* The entities the run has left behind.
Past == IF run.pc = "end" THEN DataType
        ELSE IF run.entity = Teams THEN {}
        ELSE IF run.entity = Standings THEN {Teams} ELSE {Teams, Standings}

\* A buffered absence is about an entity that is over, so its league gets no file any more.
Settled == \A k \in DOMAIN run.buffer : run.buffer[k] \in Absence => k[1] \in Past

\* It had none when it was stamped.
Empty == \A c \in DOMAIN run.buffer \cap Cell : run.buffer[c] \in Absence => c \notin files

\* Teams and standings are written, and their gaps stamped, from a cache that has rows.
Filled == run.pc = "write" /\ run.entity \in Slow => run.cached[run.entity] # {}

IInv == /\ Typed
        /\ Backed(index) /\ Backed(run.buffer)
        /\ Settled /\ Empty /\ Filled /\ OutageNeverAbsent

-----------------------------------------------------------------------------
(* The record of the process.                                              *)

LEMMA Types == /\ Teams \in Slow /\ Standings \in Slow /\ Injuries \notin Slow
               /\ Teams # Standings /\ Slow = {Teams, Standings} /\ Slow \subseteq DataType
               /\ DataType = Slow \cup {Injuries} /\ Injuries \in DataType
  BY CoreAssumption DEF Slow

LEMMA FreshFacts ==
    /\ Fresh \in RunType /\ Left \in RunType
    /\ Fresh.buffer = NoRows /\ Left.buffer = NoRows
    /\ Fresh.pc = "before" /\ Left.pc = "after" /\ Fresh.entity = Teams /\ Left.entity = Teams
  <1>1. NoRows \in RowSet
    BY NoRowsFacts, RowSetIs
  <1>2. Cold \in [Slow -> SUBSET Expected]
    BY DEF Cold
  <1>. QED
    BY <1>1, <1>2, Types DEF Fresh, Left, RunType, Stage

\* After an entity the run fetches the next one, or it ends.
LEMMA GoOnFacts ==
    ASSUME NEW r \in RunType
    PROVE  /\ GoOn(r) \in RunType
           /\ GoOn(r).buffer = r.buffer /\ GoOn(r).cached = r.cached
           /\ r.entity = Injuries => GoOn(r).pc = "end" /\ GoOn(r).entity = Injuries
           /\ r.entity \in Slow => GoOn(r).pc = "fetch" /\ GoOn(r).entity = After(r.entity)
  <1>1. CASE r.entity = Injuries
    BY <1>1, Types DEF GoOn, RunType, Stage
  <1>2. CASE r.entity # Injuries
    <2>1. r.entity \in Slow /\ After(r.entity) \in DataType
      BY <1>2, Types DEF RunType, After, Slow
    <2>. QED
      BY <1>2, <2>1 DEF GoOn, RunType, Stage
  <1>. QED
    BY <1>1, <1>2

\* The run with other rows in its buffer.
LEMMA BufferFacts ==
    ASSUME NEW r \in RunType, NEW rows, IsRows(rows)
    PROVE  LET n == [r EXCEPT !.buffer = rows]
           IN  /\ n \in RunType /\ n.buffer = rows /\ n.cached = r.cached
               /\ n.pc = r.pc /\ n.entity = r.entity
  BY RowSetIs DEF RunType

\* The buffer with more rows.
LEMMA AddFacts ==
    ASSUME Typed, NEW rows, IsRows(rows)
    PROVE  /\ IsRows(Add(rows)) /\ DOMAIN Add(rows) = DOMAIN run.buffer \cup DOMAIN rows
           /\ \A k \in DOMAIN rows : Add(rows)[k] = rows[k]
           /\ \A k \in DOMAIN run.buffer \ DOMAIN rows : Add(rows)[k] = run.buffer[k]
           /\ Captured(Add(rows)) \subseteq Captured(run.buffer) \cup Captured(rows)
  <1>1. IsRows(run.buffer)
    BY RowSetIs DEF Typed, RunType
  <1>2. IsUpsert(Add(rows), run.buffer, rows)
    BY <1>1, UpsertIs DEF Add
  <1>. QED
    BY <1>2 DEF IsUpsert

LEMMA FailedKeyFacts ==
    ASSUME NEW t \in Slow, NEW l \in Expected
    PROVE  FailedKey(t, l) \in Key /\ FailedKey(t, l)[1] = t
  <1>1. ApiId[l] \in League /\ l \in League /\ t \in DataType
    BY Types, SportsAssumption, CoreAssumption
  <1>. QED
    BY <1>1 DEF FailedKey, Key

-----------------------------------------------------------------------------
(* One step.                                                               *)

\* A step that neither writes a file nor a row.
LEMMA QuietStep ==
    ASSUME IInv, Unchanged, run' \in RunType, run'.buffer = run.buffer,
           run'.pc # "end", run.pc # "end",
           \/ run'.entity = run.entity
           \/ run.entity = Teams /\ run'.entity = Standings
           \/ run.entity # Injuries /\ run'.entity = Injuries,
           \A t \in Slow : run.cached[t] # {} => run'.cached[t] # {},
           Filled'
    PROVE  IInv'
  <1>1. Typed'
    BY DEF IInv, Typed, Unchanged
  <1>2. Backed(index)' /\ Backed(run.buffer)' /\ Empty'
    BY DEF IInv, Backed, Unchanged, Empty
  <1>3. Past \subseteq Past'
    BY Types DEF Past
  <1>4. Settled'
    BY <1>3 DEF IInv, Settled
  <1>5. OutageNeverAbsent'
    BY DEF IInv, OutageNeverAbsent
  <1>. QED
    BY <1>1, <1>2, <1>4, <1>5 DEF IInv

\* A step that adds no captured row of a league and no absence, and writes no file.
LEMMA FailStep ==
    ASSUME IInv, Unchanged, NEW n \in RunType, NEW keys \in SUBSET Key,
           n.buffer = Add(Stamp(keys, "failed")),
           run' = n, run.pc # "end",
           \/ n.pc = "end"
           \/ n.entity = run.entity
           \/ run.entity = Teams /\ n.entity = Standings
           \/ run.entity # Injuries /\ n.entity = Injuries,
           \A t \in Slow : run.cached[t] # {} => n.cached[t] # {},
           Filled'
    PROVE  IInv'
  <1>. DEFINE rows == Stamp(keys, "failed")
  <1>1. /\ IsRows(rows) /\ DOMAIN rows = keys /\ Captured(rows) = {}
        /\ \A k \in keys : rows[k] = "failed"
    BY StampFacts DEF Status
  <1>. HIDE DEF rows
  <1>2. Typed
    BY DEF IInv
  <1>3. /\ Captured(n.buffer) \subseteq Captured(run.buffer)
        /\ \A k \in DOMAIN n.buffer : n.buffer[k] \in Absence
              => k \in DOMAIN run.buffer /\ run.buffer[k] = n.buffer[k]
    <2>1. n.buffer = Add(rows)
      BY DEF rows
    <2>2. /\ DOMAIN Add(rows) = DOMAIN run.buffer \cup DOMAIN rows
          /\ \A k \in DOMAIN rows : Add(rows)[k] = rows[k]
          /\ \A k \in DOMAIN run.buffer \ DOMAIN rows : Add(rows)[k] = run.buffer[k]
          /\ Captured(Add(rows)) \subseteq Captured(run.buffer) \cup Captured(rows)
      BY <1>1, <1>2, AddFacts
    <2>. QED
      BY <1>1, <2>1, <2>2 DEF Absence
  <1>4. Typed'
    BY <1>2 DEF Typed, Unchanged
  <1>5. Backed(index)' /\ Backed(run.buffer)' /\ Empty'
    BY <1>3 DEF IInv, Backed, Unchanged, Empty
  <1>6. n.pc = "end" \/ Past \subseteq Past'
    BY Types DEF Past
  <1>7. \A k \in DOMAIN n.buffer : k \in Key
    BY <1>4, RowSetIs, RowsFacts DEF Typed, RunType
  <1>8. Settled'
    BY <1>3, <1>6, <1>7 DEF IInv, Settled, Past, Key
  <1>9. OutageNeverAbsent'
    BY <1>3 DEF IInv, OutageNeverAbsent
  <1>. QED
    BY <1>4, <1>5, <1>8, <1>9 DEF IInv

LEMMA StepEarlierDate == ASSUME IInv, NEW t \in Slow, EarlierDate(t) PROVE IInv'
  <1>1. run \in RunType
    BY DEF IInv, Typed
  <1>2. PICK got \in (SUBSET Expected) \ {{}} : run' = [run EXCEPT !.cached[t] = got]
    BY DEF EarlierDate
  <1>3. /\ run' \in RunType /\ run'.buffer = run.buffer /\ run'.pc = "before" /\ run'.entity = run.entity
        /\ \A u \in Slow : run.cached[u] # {} => run'.cached[u] # {}
    BY <1>1, <1>2 DEF RunType, EarlierDate
  <1>. QED
    BY <1>3, QuietStep DEF EarlierDate, Filled

LEMMA StepBegin == ASSUME IInv, Begin PROVE IInv'
  <1>1. run \in RunType
    BY DEF IInv, Typed
  <1>3. /\ run' \in RunType /\ run'.buffer = run.buffer /\ run'.pc = "fetch" /\ run'.entity = run.entity
        /\ run'.cached = run.cached
    BY <1>1 DEF RunType, Begin, Stage
  <1>. QED
    BY <1>3, QuietStep DEF Begin, Filled

LEMMA StepFromCache == ASSUME IInv, FromCache PROVE IInv'
  <1>1. run \in RunType
    BY DEF IInv, Typed
  <1>3. /\ run' \in RunType /\ run'.buffer = run.buffer /\ run'.pc = "write" /\ run'.entity = run.entity
        /\ run'.cached = run.cached
    BY <1>1 DEF RunType, FromCache, Stage
  <1>. QED
    BY <1>3, QuietStep DEF FromCache, Filled

LEMMA StepFetchInjuries == ASSUME IInv, FetchInjuries PROVE IInv'
  <1>1. run \in RunType
    BY DEF IInv, Typed
  <1>3. /\ run' \in RunType /\ run'.buffer = run.buffer /\ run'.pc = "write" /\ run'.entity = run.entity
        /\ run'.cached = run.cached
    BY <1>1 DEF RunType, FetchInjuries, Stage
  <1>. QED
    BY <1>3, QuietStep, Types DEF FetchInjuries, Filled

LEMMA StepFetchSlow == ASSUME IInv, FetchSlow PROVE IInv'
  <1>1. run \in RunType /\ Typed
    BY DEF IInv, Typed
  <1>. DEFINE t == run.entity
  <1>2. PICK got \in SUBSET Expected : \E lost \in SUBSET (Expected \ got) :
            LET r == [run EXCEPT !.cached[t] = got,
                                 !.buffer = Add(Stamp({FailedKey(t, l) : l \in lost}, "failed"))]
            IN  run' = IF got = {} THEN GoOn(r)
                       ELSE [r EXCEPT !.pc = "write", !.todo = got, !.wrote = @ \cup {t}]
    BY DEF FetchSlow
  <1>3. PICK lost \in SUBSET (Expected \ got) :
            LET r == [run EXCEPT !.cached[t] = got,
                                 !.buffer = Add(Stamp({FailedKey(t, l) : l \in lost}, "failed"))]
            IN  run' = IF got = {} THEN GoOn(r)
                       ELSE [r EXCEPT !.pc = "write", !.todo = got, !.wrote = @ \cup {t}]
    BY <1>2
  <1>. DEFINE keys == {FailedKey(t, l) : l \in lost}
              rows == Add(Stamp(keys, "failed"))
              r == [run EXCEPT !.cached[t] = got, !.buffer = rows]
  <1>4. t \in Slow /\ run.pc = "fetch" /\ run.cached[t] = {}
    BY DEF FetchSlow
  <1>5. keys \in SUBSET Key
    BY <1>4, FailedKeyFacts
  <1>6. IsRows(Stamp(keys, "failed"))
    BY <1>5, StampFacts DEF Status
  <1>7. IsRows(rows)
    BY <1>1, <1>6, AddFacts
  <1>8. rows \in RowSet
    BY <1>7, RowSetIs
  <1>. HIDE DEF rows, keys
  <1>9. /\ r \in RunType /\ r.buffer = rows /\ r.pc = "fetch" /\ r.entity = t
        /\ r.cached = [run.cached EXCEPT ![t] = got]
    BY <1>1, <1>4, <1>8 DEF RunType
  <1>10. \A u \in Slow : run.cached[u] # {} => r.cached[u] # {}
    BY <1>1, <1>4, <1>9 DEF RunType
  <1>11. CASE got = {}
    <2>1. run' = GoOn(r)
      BY <1>3, <1>11 DEF rows, keys
    <2>. HIDE DEF r
    <2>2. /\ run' \in RunType /\ run'.buffer = rows /\ run'.cached = r.cached
          /\ run'.pc = "fetch" /\ run'.entity = After(t)
      BY <1>4, <1>9, <2>1, GoOnFacts
    <2>3. \/ t = Teams /\ run'.entity = Standings
          \/ t # Injuries /\ run'.entity = Injuries
      BY <1>4, <2>2, Types DEF After
    <2>. QED
      BY <1>4, <1>5, <1>10, <2>2, <2>3, FailStep DEF FetchSlow, Filled, rows
  <1>12. CASE got # {}
    <2>1. run' = [r EXCEPT !.pc = "write", !.todo = got, !.wrote = @ \cup {t}]
      BY <1>3, <1>12 DEF rows, keys
    <2>2. r.cached[t] = got
      BY <1>1, <1>4, <1>9 DEF RunType
    <2>. HIDE DEF r
    <2>3. /\ run' \in RunType /\ run'.buffer = rows /\ run'.cached = r.cached
          /\ run'.pc = "write" /\ run'.entity = t
      BY <1>4, <1>9, <2>1 DEF RunType, Stage
    <2>. QED
      BY <1>4, <1>5, <1>10, <1>12, <2>2, <2>3, FailStep DEF FetchSlow, Filled, rows
  <1>. QED
    BY <1>11, <1>12

\* The file comes first, so the captured row is backed; the entity is not over, so the
\* league was not stamped absent before.
LEMMA StepWriteLeague == ASSUME IInv, WriteLeague PROVE IInv'
  <1>. DEFINE l == NextLeague
              c == <<run.entity, l>>
              rows == Stamp({c}, "captured")
  <1>1. Typed /\ run \in RunType /\ run.entity \in DataType /\ run.pc = "write"
    BY DEF IInv, Typed, WriteLeague, RunType
  <1>2. l \in run.todo
    BY DEF NextLeague, WriteLeague
  <1>3. l \in Expected /\ c \in Cell /\ c \in Key
    BY <1>1, <1>2, SportsAssumption DEF RunType, Cell, Key
  <1>4. /\ IsRows(rows) /\ DOMAIN rows = {c} /\ rows[c] = "captured" /\ Captured(rows) \subseteq {c}
    <2>1. {c} \in SUBSET Key /\ "captured" \in Status
      BY <1>3 DEF Status
    <2>. HIDE DEF c
    <2>. QED
      BY <2>1, StampFacts
  <1>5. /\ files' = files \cup {c} /\ index' = index /\ visits' = visits
        /\ run' = [run EXCEPT !.todo = @ \ {l}, !.done = @ \cup {l}, !.buffer = Add(rows)]
    BY DEF WriteLeague
  <1>. HIDE DEF rows, l
  <1>6. /\ IsRows(Add(rows)) /\ DOMAIN Add(rows) = DOMAIN run.buffer \cup {c}
        /\ Add(rows)[c] = "captured"
        /\ \A k \in DOMAIN run.buffer \ {c} : Add(rows)[k] = run.buffer[k]
        /\ Captured(Add(rows)) \subseteq Captured(run.buffer) \cup {c}
    BY <1>1, <1>4, AddFacts
  <1>7. Add(rows) \in RowSet
    BY <1>6, RowSetIs
  <1>8. /\ run' \in RunType /\ run'.buffer = Add(rows) /\ run'.pc = "write"
        /\ run'.entity = run.entity /\ run'.cached = run.cached
    BY <1>1, <1>3, <1>5, <1>7 DEF RunType
  <1>9. Typed'
    BY <1>1, <1>3, <1>5, <1>8 DEF Typed
  <1>10. Backed(index)' /\ Backed(run.buffer)'
    BY <1>5, <1>6, <1>8 DEF IInv, Backed
  <1>11. Past' = Past /\ run.entity \notin Past
    BY <1>1, <1>8, Types DEF Past
  <1>12. \A k \in DOMAIN run'.buffer : run'.buffer[k] \in Absence
            => k # c /\ k \in DOMAIN run.buffer /\ run.buffer[k] = run'.buffer[k]
    BY <1>6, <1>8 DEF Absence
  <1>13. Settled' /\ OutageNeverAbsent' /\ Filled'
    BY <1>1, <1>8, <1>11, <1>12 DEF IInv, Settled, OutageNeverAbsent, Filled
  <1>14. Empty'
    BY <1>5, <1>12 DEF IInv, Empty
  <1>. QED
    BY <1>9, <1>10, <1>13, <1>14 DEF IInv

\* The gaps are rows of leagues without a file, about an entity that ends here, whose cache
\* has rows when it is a slow one.
LEMMA StepEmitGaps == ASSUME IInv, EmitGaps PROVE IInv'
  <1>. DEFINE known == run.done \cup Present(run.entity) \cup CapturedLeagues(index, run.entity)
              gaps == GapRows(run.entity, known)
              n == [run EXCEPT !.buffer = Add(gaps)]
  <1>1. Typed /\ run \in RunType /\ run.entity \in DataType /\ run.pc = "write" /\ Unchanged
    BY DEF IInv, Typed, EmitGaps, RunType
  <1>2. run' = GoOn(run) \/ run' = GoOn(n)
    BY DEF EmitGaps
  <1>3. /\ IsRows(gaps) /\ Captured(gaps) = {}
        /\ \A k \in DOMAIN gaps : gaps[k] \in Absence
        /\ DOMAIN gaps = {run.entity} \X ((Expected \cap Scope[run.entity]) \ known)
    BY <1>1, GapFacts
  <1>4. \A k \in DOMAIN gaps : k[1] = run.entity /\ (k \in Cell => k \notin files)
    <2>. SUFFICES ASSUME NEW k \in DOMAIN gaps PROVE k[1] = run.entity /\ k \notin files
      OBVIOUS
    <2>. HIDE DEF gaps
    <2>1. PICK l \in (Expected \cap Scope[run.entity]) \ known : k = <<run.entity, l>>
      BY <1>3
    <2>. QED
      BY <2>1, SportsAssumption DEF Present
  <1>. HIDE DEF gaps
  <1>5. /\ IsRows(Add(gaps)) /\ DOMAIN Add(gaps) = DOMAIN run.buffer \cup DOMAIN gaps
        /\ \A k \in DOMAIN gaps : Add(gaps)[k] = gaps[k]
        /\ \A k \in DOMAIN run.buffer \ DOMAIN gaps : Add(gaps)[k] = run.buffer[k]
        /\ Captured(Add(gaps)) \subseteq Captured(run.buffer)
    BY <1>1, <1>3, AddFacts
  <1>6. /\ n \in RunType /\ n.buffer = Add(gaps) /\ n.cached = run.cached
        /\ n.pc = run.pc /\ n.entity = run.entity
    BY <1>1, <1>5, BufferFacts
  <1>. HIDE DEF n
  <1>7. /\ run' \in RunType /\ run'.cached = run.cached
        /\ run'.buffer = run.buffer \/ run'.buffer = Add(gaps)
        /\ run.entity = Injuries => run'.pc = "end" /\ run'.entity = Injuries
        /\ run.entity \in Slow => run'.pc = "fetch" /\ run'.entity = After(run.entity)
    BY <1>1, <1>2, <1>6, GoOnFacts
  <1>8. Past \subseteq Past' /\ run.entity \in Past'
    BY <1>1, <1>7, Types DEF Past, After
  <1>9. Typed'
    BY <1>1, <1>7 DEF Typed, Unchanged
  <1>10. Backed(index)' /\ Backed(run.buffer)'
    BY <1>1, <1>5, <1>7 DEF IInv, Backed, Unchanged
  <1>11. \A k \in DOMAIN run'.buffer : run'.buffer[k] \in Absence
            => \/ k \in DOMAIN run.buffer /\ run.buffer[k] = run'.buffer[k]
               \/ k \in DOMAIN gaps
    BY <1>5, <1>7
  <1>12. Settled'
    BY <1>4, <1>8, <1>11 DEF IInv, Settled
  <1>13. Empty'
    BY <1>1, <1>4, <1>11 DEF IInv, Empty, Unchanged
  <1>14. OutageNeverAbsent'
    BY <1>1, <1>4, <1>7, <1>11 DEF IInv, OutageNeverAbsent, Filled
  <1>15. Filled'
    BY <1>1, <1>7, Types DEF Filled
  <1>. QED
    BY <1>9, <1>10, <1>12, <1>13, <1>14, <1>15 DEF IInv

LEMMA StepInjuriesFail == ASSUME IInv, InjuriesFail PROVE IInv'
  <1>. DEFINE keys == {Injuries} \X Expected
              n == [run EXCEPT !.buffer = Add(Stamp(keys, "failed"))]
  <1>1. /\ Typed /\ run \in RunType /\ run.entity = Injuries /\ run.pc # "end" /\ Unchanged
        /\ run' = GoOn(n)
    BY DEF IInv, Typed, InjuriesFail
  <1>2. keys \in SUBSET Key
    BY Types, SportsAssumption DEF Key
  <1>3. IsRows(Add(Stamp(keys, "failed")))
    BY <1>1, <1>2, StampFacts, AddFacts DEF Status
  <1>. HIDE DEF keys
  <1>4. /\ n \in RunType /\ n.buffer = Add(Stamp(keys, "failed")) /\ n.cached = run.cached
        /\ n.entity = Injuries
    BY <1>1, <1>3, BufferFacts
  <1>. HIDE DEF n
  <1>5. /\ run' \in RunType /\ run'.buffer = Add(Stamp(keys, "failed")) /\ run'.cached = run.cached
        /\ run'.pc = "end"
    BY <1>1, <1>4, GoOnFacts
  <1>. QED
    BY <1>1, <1>2, <1>5, FailStep DEF Filled

\* What the caller counts has no league: the rows of the leagues are the buffer's.
LEMMA CountFacts ==
    ASSUME Typed, NEW zero \in BOOLEAN
    PROVE  /\ IsRows(CountRows(zero))
           /\ \A k \in DOMAIN CountRows(zero) : k \notin Cell
  <1>. DEFINE keys == run.wrote \X {NoLeague}
  <1>1. keys \in SUBSET Key /\ "captured" \in Status
    BY Types DEF Typed, RunType, Key, Status
  <1>2. \A k \in keys : k \notin Cell
    BY SportsAssumption DEF Cell
  <1>. HIDE DEF keys
  <1>3. IsRows(Stamp(keys, "captured")) /\ DOMAIN Stamp(keys, "captured") = keys
    BY <1>1, StampFacts
  <1>. QED
    BY <1>2, <1>3, NoRowsFacts DEF CountRows, keys

\* What a flush leaves in the index about a league is the buffer's or was there before.
LEMMA FlushFacts ==
    ASSUME Typed, Flush
    PROVE  /\ IsRows(index') /\ UNCHANGED <<files, visits>> /\ run' = Left
           /\ \A c \in DOMAIN index' \cap Cell :
                \/ c \in DOMAIN run.buffer /\ index'[c] = run.buffer[c]
                \/ c \in DOMAIN index /\ index'[c] = index[c]
  <1>1. PICK zero \in BOOLEAN : index' = Upsert(index, Add(CountRows(zero)))
    BY DEF Flush
  <1>. DEFINE rows == Add(CountRows(zero))
  <1>2. /\ IsRows(CountRows(zero))
        /\ \A k \in DOMAIN CountRows(zero) : k \notin Cell
    BY CountFacts
  <1>3. /\ IsRows(rows) /\ DOMAIN rows = DOMAIN run.buffer \cup DOMAIN CountRows(zero)
        /\ \A k \in DOMAIN run.buffer \ DOMAIN CountRows(zero) : rows[k] = run.buffer[k]
    BY <1>2, AddFacts
  <1>. HIDE DEF rows
  <1>4. IsRows(index)
    BY RowSetIs DEF Typed
  <1>5. /\ IsRows(Upsert(index, rows))
        /\ DOMAIN Upsert(index, rows) = DOMAIN index \cup DOMAIN rows
        /\ \A k \in DOMAIN rows : Upsert(index, rows)[k] = rows[k]
        /\ \A k \in DOMAIN index \ DOMAIN rows : Upsert(index, rows)[k] = index[k]
    <2>1. IsRows(rows)
      BY <1>3
    <2>2. IsUpsert(Upsert(index, rows), index, rows)
      BY <2>1, <1>4, UpsertIs
    <2>. QED
      BY <2>2 DEF IsUpsert
  <1>6. index' = Upsert(index, rows)
    BY <1>1 DEF rows
  <1>. QED
    BY <1>2, <1>3, <1>5, <1>6 DEF Flush

\* A run that has nothing buffered stands for nothing.
LEMMA EmptyRun ==
    ASSUME Typed', run'.buffer = NoRows, run'.pc # "write", Backed(index)'
    PROVE  IInv'
  <1>1. DOMAIN run'.buffer = {} /\ Captured(run'.buffer) = {}
    BY NoRowsFacts
  <1>. QED
    BY <1>1 DEF IInv, Backed, Settled, Empty, Filled, OutageNeverAbsent

LEMMA StepFlush == ASSUME IInv, Flush PROVE IInv'
  <1>1. Typed
    BY DEF IInv
  <1>2. /\ IsRows(index') /\ UNCHANGED <<files, visits>> /\ run' = Left
        /\ \A c \in DOMAIN index' \cap Cell :
             \/ c \in DOMAIN run.buffer /\ index'[c] = run.buffer[c]
             \/ c \in DOMAIN index /\ index'[c] = index[c]
    BY <1>1, FlushFacts
  <1>3. Typed' /\ run'.buffer = NoRows /\ run'.pc # "write"
    BY <1>1, <1>2, RowSetIs, FreshFacts DEF Typed
  <1>4. Backed(index)'
    BY <1>2 DEF IInv, Backed, Captured
  <1>. QED
    BY <1>3, <1>4, EmptyRun

LEMMA StepAbandon == ASSUME IInv, Abandon PROVE IInv'
  <1>1. Typed' /\ run'.buffer = NoRows /\ run'.pc # "write" /\ Backed(index)'
    BY FreshFacts DEF IInv, Typed, Abandon, Unchanged, Backed
  <1>. QED
    BY <1>1, EmptyRun

LEMMA StepRestart == ASSUME IInv, Restart PROVE IInv'
  <1>1. visits' \in 1..MaxVisits
    BY CoreAssumption DEF IInv, Typed, Restart
  <1>2. Typed' /\ run'.buffer = NoRows /\ run'.pc # "write" /\ Backed(index)'
    BY <1>1, FreshFacts DEF IInv, Typed, Restart, Backed
  <1>. QED
    BY <1>2, EmptyRun

LEMMA IInvInit == Init => IInv
  <1>. SUFFICES ASSUME Init PROVE IInv
    OBVIOUS
  <1>1. DOMAIN NoRows = {} /\ Captured(NoRows) = {} /\ NoRows \in RowSet
    BY NoRowsFacts, RowSetIs
  <1>2. run.buffer = NoRows /\ run.pc = "before" /\ run \in RunType /\ index = NoRows
    BY FreshFacts DEF Init
  <1>3. Typed
    BY <1>1, <1>2, CoreAssumption DEF Init, Typed
  <1>. QED
    BY <1>1, <1>2, <1>3 DEF IInv, Backed, Settled, Empty, Filled, OutageNeverAbsent

LEMMA IInvNext == IInv /\ [Next]_vars => IInv'
  <1>. SUFFICES ASSUME IInv, [Next]_vars PROVE IInv'
    OBVIOUS
  <1>1. CASE UNCHANGED vars
    BY <1>1 DEF vars, IInv, Typed, Backed, Settled, Past, Empty, Filled, OutageNeverAbsent
  <1>2. ASSUME NEW t \in Slow, EarlierDate(t) PROVE IInv'
    BY <1>2, StepEarlierDate
  <1>3. CASE Begin \/ FromCache \/ FetchSlow \/ FetchInjuries
    BY <1>3, StepBegin, StepFromCache, StepFetchSlow, StepFetchInjuries
  <1>4. CASE WriteLeague \/ EmitGaps \/ InjuriesFail
    BY <1>4, StepWriteLeague, StepEmitGaps, StepInjuriesFail
  <1>5. CASE Flush \/ Abandon \/ Restart
    BY <1>5, StepFlush, StepAbandon, StepRestart
  <1>. QED
    BY <1>1, <1>2, <1>3, <1>4, <1>5 DEF Next

-----------------------------------------------------------------------------
(* The theorems.                                                           *)

\* The inductive invariant holds in every state.
THEOREM CoreInvariant == Spec => []IInv
  BY IInvInit, IInvNext, PTL DEF Spec

\* The state is well typed, for all leagues and processes.
THEOREM CoreTypes == Spec => []TypeOK
  <1>1. IInv => TypeOK
    BY RowSetIs DEF IInv, Typed, RunType, TypeOK
  <1>. QED
    BY <1>1, CoreInvariant, PTL

\* A captured row of a league, flushed by any process, has its file.
THEOREM CapturedRowsHaveFiles == Spec => []CapturedHasFile
  <1>1. IInv => CapturedHasFile
    BY DEF IInv, Backed, CapturedHasFile
  <1>. QED
    BY <1>1, CoreInvariant, PTL

\* No buffered absence about teams or standings when no call brought rows.
THEOREM OutagesStayFailures == Spec => []OutageNeverAbsent
  <1>1. IInv => OutageNeverAbsent
    BY DEF IInv
  <1>. QED
    BY <1>1, CoreInvariant, PTL

\* A step stamps no league that has a file: only a flush writes the index, and the
\* absences it carries were decided on leagues that got no file since.
THEOREM GapsSpareFiles == Spec => EmptyNeverOverFile
  <1>. DEFINE A == \A c \in Cell : c \in DOMAIN index' /\ index'[c] \in Absence /\ c \in files
                      => c \in DOMAIN index /\ index[c] = index'[c]
  <1>1. IInv /\ [Next]_vars => [A]_vars
    <2>. SUFFICES ASSUME IInv, Next PROVE A
      OBVIOUS
    <2>1. CASE Flush
      <3>1. Typed
        BY DEF IInv
      <3>. QED
        BY <2>1, <3>1, FlushFacts DEF IInv, Empty
    <2>2. CASE ~Flush
      <3>1. index' = index
        BY <2>2 DEF Next, EarlierDate, Begin, FromCache, FetchSlow, FetchInjuries, WriteLeague,
                    EmitGaps, InjuriesFail, Abandon, Restart, Unchanged
      <3>. QED
        BY <3>1
    <2>. QED
      BY <2>1, <2>2
  <1>. QED
    BY <1>1, CoreInvariant, PTL DEF Spec, EmptyNeverOverFile
=============================================================================
