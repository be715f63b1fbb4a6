----------------------- MODULE SportsEntities_proofs -----------------------
(***************************************************************************)
(* What the enrichment runs of a date leave, for all fixtures, leagues,    *)
(* entities and answers: a captured row has rows in its file and a failed  *)
(* entity no absence, whatever runners are at work; with one runner at a   *)
(* time, no absence is stored over a file and a recovery only adds to it.  *)
(***************************************************************************)
EXTENDS SportsEntities, SportsManifest_proofs

Calls == DataType \X Fixture
RunRec == [pc : Stage, redo : BOOLEAN, scoped : BOOLEAN, recovery : BOOLEAN, ids : SUBSET Fixture,
           mapped : SUBSET Fixture, queued : SUBSET Calls, kept : SUBSET Cell,
           got : SUBSET Calls, lost : SUBSET Calls,
           todo : SUBSET DataType, entity : DataType \cup {"none"}, leagues : SUBSET League,
           written : SUBSET League, league : League \cup {NoLeague}, base : SUBSET Fixture,
           buffer : RowSet]

Typed == /\ scheduled \in BOOLEAN /\ finished \subseteq Fixture
         /\ files \in [Cell -> SUBSET Fixture]
         /\ index \in RowSet
         /\ run \in [Proc -> RunRec]

-----------------------------------------------------------------------------
(* Any number of runners.                                                  *)

\* A captured row of a league has rows in the league's file.
Backed(rows, stored) == \A c \in Captured(rows) : c \in Cell => stored[c] # {}

\* An entity without any row, one of whose calls failed.
Failing(r, e) == Lost(r, e) # {} /\ Rows(r, e) = {}

\* The entity at work is one still to do; each of its leagues to write has rows of this run,
\* and what a recovery read of the league are fixtures of the league.
AtWork(r) ==
    /\ r.pc \in {"write", "merge", "gaps"} => r.entity \in r.todo /\ ~Failing(r, r.entity)
    /\ r.pc \in {"write", "merge"} => \A l \in r.leagues : RowsOf(r, l) # {}
    /\ r.pc = "merge" => r.league \in r.leagues /\ r.base \subseteq InCell(<<r.entity, r.league>>)

\* Rows are buffered once the calls are made, and those of a failing entity say so.
Owned(r) ==
    /\ r.pc \in {"ensure", "prefetch", "fetch"} => r.buffer = NoRows
    /\ \A e \in DataType : Failing(r, e) =>
          \A k \in DOMAIN r.buffer : k[1] = e => r.buffer[k] = "failed"

Fine(r, stored) == AtWork(r) /\ Owned(r) /\ Backed(r.buffer, stored)

\* A file holds fixtures of its own league.
Sorted == \A c \in Cell : files[c] \subseteq InCell(c)

IInv == Typed /\ Sorted /\ Backed(index, files) /\ \A p \in Proc : Fine(run[p], files)

-----------------------------------------------------------------------------
(* One runner at a time.                                                   *)

OneRunner == \A p, q \in Proc : p = q

\* A buffered absence is of a league without file, of an entity that is done; what a
\* recovery read is still what the file holds.
Sure(r, stored) ==
    /\ \A c \in Cell : c \in DOMAIN r.buffer /\ r.buffer[c] \in Absence
          => stored[c] = {} /\ c[1] \notin r.todo
    /\ r.pc = "merge" => r.base \in {stored[<<r.entity, r.league>>], {}}

Solo == \A p \in Proc : Sure(run[p], files)

-----------------------------------------------------------------------------
(* The record of a run.                                                    *)

LEMMA StatusHas == "failed" \in Status /\ "captured" \in Status /\ Absence \subseteq Status
                   /\ "failed" \notin Absence /\ "captured" \notin Absence
  BY DEF Status, Absence

LEMMA BlankIs == Blank \in RunRec /\ Blank.pc = "idle" /\ Blank.buffer = NoRows
                 /\ Blank.got = {} /\ Blank.lost = {}
  <1>1. NoRows \in RowSet
    BY NoRowsFacts, RowSetIs
  <1>. QED
    BY <1>1 DEF Blank, RunRec, Stage

LEMMA RunIs ==
    ASSUME Typed, NEW p \in Proc
    PROVE  run[p] \in RunRec /\ IsRows(run[p].buffer)
  <1>1. run[p] \in RunRec
    BY DEF Typed
  <1>. QED
    BY <1>1, RowSetIs DEF RunRec

\* Only the runner's own record changes.
Moves(p) == run' \in [Proc -> RunRec] /\ \A q \in Proc \ {p} : run'[q] = run[q]

LEMMA LocalMoves ==
    ASSUME Typed, NEW p \in Proc, NEW n \in RunRec, Local(p, n)
    PROVE  Moves(p) /\ run'[p] = n
  BY DEF Typed, Local, Moves

\* The answers of a run, what they say of an entity and of a league.
Same(r, n) == n.ids = r.ids /\ n.mapped = r.mapped /\ n.got = r.got /\ n.lost = r.lost

LEMMA SameFacts ==
    ASSUME NEW r, NEW n, Same(r, n)
    PROVE  /\ \A e : Rows(n, e) = Rows(r, e) /\ Lost(n, e) = Lost(r, e)
           /\ \A e : Failing(n, e) <=> Failing(r, e)
           /\ n.entity = r.entity => \A l : RowsOf(n, l) = RowsOf(r, l)
  <1>1. \A e : Rows(n, e) = Rows(r, e) /\ Lost(n, e) = Lost(r, e)
    BY DEF Same, Rows, Lost
  <1>. QED
    BY <1>1 DEF Failing, RowsOf, Same

\* A buffer with rows added: each row is an added one or was there.
LEMMA RecordedIs ==
    ASSUME NEW r \in RunRec, NEW rows, IsRows(rows)
    PROVE  /\ Recorded(r, rows) \in RowSet
           /\ \A k \in DOMAIN Recorded(r, rows) :
                \/ k \in DOMAIN rows /\ Recorded(r, rows)[k] = rows[k]
                \/ k \in DOMAIN r.buffer /\ Recorded(r, rows)[k] = r.buffer[k]
  <1>1. r.buffer \in RowSet
    BY DEF RunRec
  <1>2. IsRows(r.buffer)
    BY <1>1, RowSetIs
  <1>3. Upsert(r.buffer, rows) \in RowSet
    BY <1>2, UpsertFacts, RowSetIs
  <1>4. \A k \in DOMAIN Upsert(r.buffer, rows) :
            \/ k \in DOMAIN rows /\ Upsert(r.buffer, rows)[k] = rows[k]
            \/ k \in DOMAIN r.buffer /\ Upsert(r.buffer, rows)[k] = r.buffer[k]
    BY DEF Upsert
  <1>. QED
    BY <1>1, <1>3, <1>4 DEF Recorded

LEMMA CountedIs ==
    ASSUME NEW r \in RunRec, NEW e \in DataType
    PROVE  /\ Counted(r, e) \in RowSet
           /\ \A k \in DOMAIN Counted(r, e) :
                \/ k = <<e, NoLeague>> /\ Counted(r, e)[k] = "captured"
                \/ k \in DOMAIN r.buffer /\ Counted(r, e)[k] = r.buffer[k]
  <1>. DEFINE rows == Stamp({<<e, NoLeague>>}, "captured")
  <1>1. r.buffer \in RowSet
    BY DEF RunRec
  <1>2. IsRows(r.buffer)
    BY <1>1, RowSetIs
  <1>3. {<<e, NoLeague>>} \in SUBSET Key
    BY DEF Key
  <1>4. IsRows(rows) /\ DOMAIN rows = {<<e, NoLeague>>} /\ \A k \in DOMAIN rows : rows[k] = "captured"
    <2>1. "captured" \in Status
      BY StatusHas
    <2>2. IsStamp(rows, {<<e, NoLeague>>}, "captured")
      BY <1>3, <2>1, StampIs
    <2>. QED
      BY <2>2 DEF IsStamp
  <1>. HIDE DEF rows
  <1>5. Upsert(r.buffer, rows) \in RowSet
    BY <1>2, <1>4, UpsertFacts, RowSetIs
  <1>6. \A k \in DOMAIN Upsert(r.buffer, rows) :
            \/ k \in DOMAIN rows /\ Upsert(r.buffer, rows)[k] = rows[k]
            \/ k \in DOMAIN r.buffer /\ Upsert(r.buffer, rows)[k] = r.buffer[k]
    BY DEF Upsert
  <1>7. Counted(r, e) = IF r.scoped THEN Upsert(r.buffer, rows) ELSE r.buffer
    BY DEF Counted, rows
  <1>. QED
    BY <1>1, <1>4, <1>5, <1>6, <1>7

\* The whole date is no league's cell.
LEMMA CellsAre ==
    /\ \A e : <<e, NoLeague>> \notin Cell
    /\ \A e \in DataType, l \in League : <<e, l>> \in Cell /\ <<e, l>> \in Key
    /\ \A e \in DataType, l \in League \cup {NoLeague} : <<e, l>> \in Key
    /\ Cell \subseteq Key
  BY SportsAssumption DEF Cell, Key

-----------------------------------------------------------------------------
(* What each action does to its runner's record.                           *)

Quiet == UNCHANGED <<files, index>> /\ scheduled' \in BOOLEAN /\ finished' \subseteq Fixture

LEMMA DoBegin ==
    ASSUME Typed, NEW p \in Proc, Begin(p)
    PROVE  /\ Moves(p) /\ Quiet
           /\ run'[p].pc = "ensure" /\ run'[p].buffer = NoRows
  <1>1. PICK redo \in BOOLEAN, only \in Recovery \cup {Fixture}, S \in (SUBSET DataType) \ {{}},
             mapped \in {{}, IF scheduled THEN Mappable ELSE {}} :
        \E ids \in (SUBSET (finished \cap only)) \ {{}}, scoped \in {FALSE, redo} :
            /\ only # Fixture => redo
            /\ scoped => \E e \in DataType : S = {e}
            /\ redo /\ ~scoped => S = DataType
            /\ Local(p, [Blank EXCEPT !.pc = "ensure", !.redo = redo, !.scoped = scoped, !.ids = ids,
                             !.recovery = (only # Fixture), !.mapped = mapped, !.todo = S])
    BY Zenon DEF Begin
  <1>2. PICK ids \in (SUBSET (finished \cap only)) \ {{}}, scoped \in {FALSE, redo} :
            Local(p, [Blank EXCEPT !.pc = "ensure", !.redo = redo, !.scoped = scoped, !.ids = ids,
                             !.recovery = (only # Fixture), !.mapped = mapped, !.todo = S])
    BY <1>1, Zenon
  <1>3. ids \subseteq Fixture /\ mapped \subseteq Fixture /\ scoped \in BOOLEAN /\ S \subseteq DataType
    BY DEF Typed, Mappable
  <1>. DEFINE recovery == (only # Fixture)
              n == [Blank EXCEPT !.pc = "ensure", !.redo = redo, !.scoped = scoped, !.ids = ids,
                             !.recovery = recovery, !.mapped = mapped, !.todo = S]
  <1>4. recovery \in BOOLEAN
    OBVIOUS
  <1>7. Local(p, n)
    BY <1>2
  <1>. HIDE DEF recovery
  <1>5. n \in RunRec /\ n.pc = "ensure" /\ n.buffer = NoRows
    <2>1. Blank \in RunRec /\ Blank.buffer = NoRows
      BY BlankIs
    <2>2. n \in RunRec
      BY <1>3, <1>4, <2>1 DEF RunRec, Stage
    <2>. QED
      BY <2>1, <2>2 DEF RunRec
  <1>6. Quiet
    BY DEF Begin, Quiet, Typed
  <1>. HIDE DEF n
  <1>. QED
    BY <1>5, <1>6, <1>7, LocalMoves

LEMMA DoCalls ==
    ASSUME Typed, NEW p \in Proc, Ensure(p) \/ Prefetch(p)
    PROVE  /\ Moves(p) /\ Quiet /\ run[p].pc \in {"ensure", "prefetch"}
           /\ run'[p].pc \in {"prefetch", "fetch"} /\ run'[p].buffer = run[p].buffer
           /\ Same(run[p], run'[p])
  <1>1. CASE Ensure(p)
    <2>. DEFINE n == [run[p] EXCEPT !.pc = "prefetch"]
    <2>1. n \in RunRec /\ n.pc = "prefetch" /\ n.buffer = run[p].buffer /\ Same(run[p], n)
      BY RunIs DEF RunRec, Stage, Same
    <2>2. Local(p, n) /\ Quiet /\ run[p].pc = "ensure"
      BY <1>1 DEF Ensure, Quiet, Typed
    <2>. HIDE DEF n
    <2>. QED
      BY <2>1, <2>2, LocalMoves
  <1>2. CASE Prefetch(p)
    <2>1. PICK queued, kept :
            /\ Local(p, [run[p] EXCEPT !.pc = "fetch", !.queued = queued, !.kept = kept])
            /\ queued \subseteq Calls /\ kept \subseteq Cell
      <3>. DEFINE r == run[p]
                  OfCell(calls, c) == {x \in calls : x[1] = c[1] /\ x[2] \in r.mapped \cap InCell(c)}
                  queued(readable) == Eligible(r) \ Known(r, readable)
                  kept(readable) == {c \in Cell : /\ OfCell(Eligible(r), c) # {}
                                                  /\ OfCell(Known(r, readable), c) # {}
                                                  /\ OfCell(queued(readable), c) = {}}
      <3>1. PICK readable \in SUBSET r.todo :
               Local(p, [r EXCEPT !.pc = "fetch", !.queued = queued(readable), !.kept = kept(readable)])
        BY <1>2 DEF Prefetch
      <3>2. r.todo \subseteq DataType /\ r.ids \subseteq Fixture
        BY RunIs DEF RunRec
      <3>3. Eligible(r) \subseteq DataType \X Fixture
        BY <3>2 DEF Eligible
      <3>4. queued(readable) \subseteq Calls /\ kept(readable) \subseteq Cell
        BY <3>3 DEF Calls
      <3>. HIDE DEF queued, kept
      <3>. QED
        BY <3>1, <3>4
    <2>. DEFINE n == [run[p] EXCEPT !.pc = "fetch", !.queued = queued, !.kept = kept]
    <2>a. run[p] \in RunRec
      BY RunIs
    <2>b. n \in RunRec
      BY <2>1, <2>a DEF RunRec, Stage
    <2>c. n.pc = "fetch" /\ n.buffer = run[p].buffer /\ Same(run[p], n)
      BY <2>a DEF RunRec, Same
    <2>2. n \in RunRec /\ n.pc = "fetch" /\ n.buffer = run[p].buffer /\ Same(run[p], n)
      BY <2>b, <2>c
    <2>3. Quiet /\ run[p].pc = "prefetch"
      BY <1>2 DEF Prefetch, Quiet, Typed
    <2>4. Local(p, n)
      BY <2>1
    <2>. HIDE DEF n
    <2>. QED
      BY <2>2, <2>3, <2>4, LocalMoves
  <1>. QED
    BY <1>1, <1>2

LEMMA DoFetch ==
    ASSUME Typed, NEW p \in Proc, Fetch(p)
    PROVE  /\ Moves(p) /\ Quiet /\ run[p].pc = "fetch"
           /\ run'[p].pc = "entity" /\ run'[p].buffer = run[p].buffer
  <1>1. PICK out \in [run[p].queued -> Answer] :
            Local(p, [run[p] EXCEPT !.pc = "entity",
                      !.got = {c \in run[p].queued : out[c] = "rows"},
                      !.lost = {c \in run[p].queued : out[c] = "error"}])
    BY DEF Fetch
  <1>. DEFINE got == {c \in run[p].queued : out[c] = "rows"}
              lost == {c \in run[p].queued : out[c] = "error"}
              n == [run[p] EXCEPT !.pc = "entity", !.got = got, !.lost = lost]
  <1>2. got \subseteq Calls /\ lost \subseteq Calls
    BY RunIs DEF RunRec
  <1>3. Quiet /\ run[p].pc = "fetch"
    BY DEF Fetch, Quiet, Typed
  <1>4. Local(p, n)
    BY <1>1
  <1>. HIDE DEF got, lost
  <1>5. n \in RunRec /\ n.pc = "entity" /\ n.buffer = run[p].buffer
    <2>1. run[p] \in RunRec
      BY RunIs
    <2>2. got \in SUBSET Calls /\ lost \in SUBSET Calls /\ "entity" \in Stage
      BY <1>2 DEF Stage
    <2>. QED
      BY <2>1, <2>2 DEF RunRec
  <1>. HIDE DEF n
  <1>. QED
    BY <1>3, <1>4, <1>5, LocalMoves

LEMMA StagesAre == \A x \in {"idle", "entity", "write", "merge", "gaps"} : x \in Stage
  BY DEF Stage

LEMMA DoStartWrites ==
    ASSUME Typed, NEW p \in Proc, NEW e \in DataType, StartWrites(p, e)
    PROVE  /\ Moves(p) /\ Quiet /\ run[p].pc = "entity" /\ e \in run[p].todo /\ Rows(run[p], e) # {}
           /\ run'[p].pc = "write" /\ run'[p].entity = e /\ run'[p].todo = run[p].todo
           /\ run'[p].buffer = Counted(run[p], e) /\ Same(run[p], run'[p])
           /\ run'[p].leagues \subseteq {LeagueOf[f] : f \in Rows(run[p], e) \cap run[p].mapped}
  <1>. DEFINE buffer == Counted(run[p], e)
              leagues == Tracked \cap {LeagueOf[f] : f \in Rows(run[p], e) \cap run[p].mapped}
              n == [run[p] EXCEPT !.pc = "write", !.entity = e, !.written = {}, !.buffer = buffer,
                                  !.leagues = leagues]
  <1>1. /\ Local(p, n) /\ Quiet /\ run[p].pc = "entity" /\ e \in run[p].todo /\ Rows(run[p], e) # {}
    BY DEF StartWrites, Quiet, Typed
  <1>2. run[p] \in RunRec
    BY RunIs
  <1>3. buffer \in RowSet /\ leagues \in SUBSET League /\ "write" \in Stage
    BY <1>2, CountedIs, EntityAssumption, StagesAre
  <1>4. leagues \subseteq {LeagueOf[f] : f \in Rows(run[p], e) \cap run[p].mapped}
    OBVIOUS
  <1>. HIDE DEF buffer, leagues
  <1>5. n \in RunRec
    BY <1>2, <1>3 DEF RunRec
  <1>6. /\ n.pc = "write" /\ n.entity = e /\ n.todo = run[p].todo /\ n.buffer = buffer
        /\ n.leagues = leagues /\ Same(run[p], n)
    BY <1>2 DEF RunRec, Same
  <1>. HIDE DEF n
  <1>7. Moves(p) /\ run'[p] = n
    BY <1>1, <1>5, LocalMoves
  <1>. QED
    BY <1>1, <1>4, <1>6, <1>7 DEF buffer

LEMMA DoBarePath ==
    ASSUME Typed, NEW p \in Proc, NEW e \in DataType, BarePath(p, e)
    PROVE  /\ Moves(p) /\ Quiet /\ run[p].pc = "entity" /\ Rows(run[p], e) # {}
           /\ run'[p].pc = "entity" /\ run'[p].todo \subseteq run[p].todo
           /\ run'[p].buffer = Counted(run[p], e) /\ Same(run[p], run'[p])
  <1>. DEFINE buffer == Counted(run[p], e)
              n == [run[p] EXCEPT !.todo = @ \ {e}, !.buffer = buffer]
  <1>1. Local(p, n) /\ Quiet /\ run[p].pc = "entity" /\ Rows(run[p], e) # {}
    BY DEF BarePath, Quiet, Typed
  <1>2. run[p] \in RunRec
    BY RunIs
  <1>3. buffer \in RowSet
    BY <1>2, CountedIs
  <1>. HIDE DEF buffer
  <1>5. n \in RunRec
    BY <1>2, <1>3 DEF RunRec
  <1>6. /\ n.pc = run[p].pc /\ n.todo = run[p].todo \ {e} /\ n.buffer = buffer /\ Same(run[p], n)
    BY <1>2 DEF RunRec, Same
  <1>. HIDE DEF n
  <1>7. Moves(p) /\ run'[p] = n
    BY <1>1, <1>5, LocalMoves
  <1>. QED
    BY <1>1, <1>6, <1>7 DEF buffer

\* A failed entity leaves failed rows of its own only.
LEMMA DoFailEntity ==
    ASSUME Typed, NEW p \in Proc, NEW e \in DataType, FailEntity(p, e)
    PROVE  /\ Moves(p) /\ Quiet /\ run[p].pc = "entity"
           /\ run'[p].pc = "entity" /\ run'[p].todo \subseteq run[p].todo /\ Same(run[p], run'[p])
           /\ \A k \in DOMAIN run'[p].buffer :
                \/ run'[p].buffer[k] = "failed"
                \/ k \in DOMAIN run[p].buffer /\ run'[p].buffer[k] = run[p].buffer[k]
  <1>. DEFINE keys == {e} \X (IF run[p].mapped = {} THEN {NoLeague} ELSE MapLeagues(run[p]))
              rows == Stamp(keys, "failed")
              buffer == Recorded(run[p], rows)
              n == [run[p] EXCEPT !.todo = @ \ {e}, !.buffer = buffer]
  <1>1. Local(p, n) /\ Quiet /\ run[p].pc = "entity"
    BY DEF FailEntity, Quiet, Typed
  <1>2. run[p] \in RunRec
    BY RunIs
  <1>3. MapLeagues(run[p]) \subseteq League \cup {NoLeague}
    BY <1>2, EntityAssumption DEF RunRec, MapLeagues
  <1>4. keys \in SUBSET Key
    BY <1>3 DEF Key
  <1>. HIDE DEF keys
  <1>5. IsRows(rows) /\ \A k \in DOMAIN rows : rows[k] = "failed"
    BY <1>4, StampFacts, StatusHas
  <1>. HIDE DEF rows
  <1>6. /\ buffer \in RowSet
        /\ \A k \in DOMAIN buffer :
                \/ k \in DOMAIN rows /\ buffer[k] = rows[k]
                \/ k \in DOMAIN run[p].buffer /\ buffer[k] = run[p].buffer[k]
    BY <1>2, <1>5, RecordedIs
  <1>. HIDE DEF buffer
  <1>7. n \in RunRec
    BY <1>2, <1>6 DEF RunRec
  <1>8. /\ n.pc = run[p].pc /\ n.todo = run[p].todo \ {e} /\ n.buffer = buffer /\ Same(run[p], n)
    BY <1>2 DEF RunRec, Same
  <1>. HIDE DEF n
  <1>9. Moves(p) /\ run'[p] = n
    BY <1>1, <1>7, LocalMoves
  <1>. QED
    BY <1>1, <1>5, <1>6, <1>8, <1>9

LEMMA DoEmptyEntity ==
    ASSUME Typed, NEW p \in Proc, NEW e \in DataType, EmptyEntity(p, e)
    PROVE  /\ Moves(p) /\ Quiet /\ run[p].pc = "entity" /\ e \in run[p].todo /\ Lost(run[p], e) = {}
           /\ run'[p].pc = "gaps" /\ run'[p].entity = e /\ run'[p].todo = run[p].todo
           /\ run'[p].buffer = run[p].buffer /\ Same(run[p], run'[p])
  <1>. DEFINE n == [run[p] EXCEPT !.pc = "gaps", !.entity = e, !.written = {}]
  <1>1. Local(p, n) /\ Quiet /\ run[p].pc = "entity" /\ e \in run[p].todo /\ Lost(run[p], e) = {}
    BY DEF EmptyEntity, Quiet, Typed
  <1>2. run[p] \in RunRec /\ "gaps" \in Stage
    BY RunIs, StagesAre
  <1>3. n \in RunRec
    BY <1>2 DEF RunRec
  <1>4. /\ n.pc = "gaps" /\ n.entity = e /\ n.todo = run[p].todo /\ n.buffer = run[p].buffer
        /\ Same(run[p], n)
    BY <1>2 DEF RunRec, Same
  <1>. HIDE DEF n
  <1>. QED
    BY <1>1, <1>3, <1>4, LocalMoves

LEMMA DoReadForMerge ==
    ASSUME Typed, Sorted, NEW p \in Proc, NEW l \in League, ReadForMerge(p, l), run[p].entity \in DataType
    PROVE  /\ Moves(p) /\ Quiet /\ run[p].pc = "write" /\ l \in run[p].leagues
           /\ run'[p].pc = "merge" /\ run'[p].entity = run[p].entity /\ run'[p].todo = run[p].todo
           /\ run'[p].leagues = run[p].leagues /\ run'[p].league = l
           /\ run'[p].base \in {files[<<run[p].entity, l>>], {}}
           /\ run'[p].base \subseteq InCell(<<run[p].entity, l>>)
           /\ run'[p].buffer = run[p].buffer /\ Same(run[p], run'[p])
  <1>1. PICK base \in {files[<<run[p].entity, l>>], {}} :
            Local(p, [run[p] EXCEPT !.pc = "merge", !.league = l, !.base = base])
    BY DEF ReadForMerge
  <1>. DEFINE n == [run[p] EXCEPT !.pc = "merge", !.league = l, !.base = base]
  <1>2. Quiet /\ run[p].pc = "write" /\ l \in run[p].leagues
    BY DEF ReadForMerge, Quiet, Typed
  <1>3. run[p] \in RunRec /\ "merge" \in Stage
    BY RunIs, StagesAre
  <1>4. base \in SUBSET Fixture /\ base \subseteq InCell(<<run[p].entity, l>>)
    <2>1. <<run[p].entity, l>> \in Cell
      BY CellsAre
    <2>. QED
      BY <2>1 DEF Typed, Sorted
  <1>5. n \in RunRec
    BY <1>3, <1>4 DEF RunRec
  <1>6. /\ n.pc = "merge" /\ n.entity = run[p].entity /\ n.todo = run[p].todo
        /\ n.leagues = run[p].leagues /\ n.league = l /\ n.base = base
        /\ n.buffer = run[p].buffer /\ Same(run[p], n)
    BY <1>3 DEF RunRec, Same
  <1>7. Local(p, n)
    BY <1>1
  <1>. HIDE DEF n
  <1>8. Moves(p) /\ run'[p] = n
    BY <1>5, <1>7, LocalMoves
  <1>. QED
    BY <1>2, <1>4, <1>6, <1>8

LEMMA DoWritesDone ==
    ASSUME Typed, NEW p \in Proc, WritesDone(p)
    PROVE  /\ Moves(p) /\ Quiet /\ run[p].pc = "write"
           /\ run'[p].pc = "gaps" /\ run'[p].entity = run[p].entity /\ run'[p].todo = run[p].todo
           /\ run'[p].buffer = run[p].buffer /\ Same(run[p], run'[p])
  <1>. DEFINE n == [run[p] EXCEPT !.pc = "gaps"]
  <1>1. Local(p, n) /\ Quiet /\ run[p].pc = "write"
    BY DEF WritesDone, Quiet, Typed
  <1>2. run[p] \in RunRec /\ "gaps" \in Stage
    BY RunIs, StagesAre
  <1>3. n \in RunRec
    BY <1>2 DEF RunRec
  <1>4. /\ n.pc = "gaps" /\ n.entity = run[p].entity /\ n.todo = run[p].todo
        /\ n.buffer = run[p].buffer /\ Same(run[p], n)
    BY <1>2 DEF RunRec, Same
  <1>. HIDE DEF n
  <1>. QED
    BY <1>1, <1>3, <1>4, LocalMoves

\* The gaps of an entity are absences of leagues without a file; then it is done.
LEMMA DoEmitGaps ==
    ASSUME Typed, NEW p \in Proc, EmitGaps(p), run[p].entity \in DataType
    PROVE  /\ Moves(p) /\ Quiet /\ run[p].pc = "gaps"
           /\ run'[p].pc = "entity" /\ run'[p].todo = run[p].todo \ {run[p].entity}
           /\ Same(run[p], run'[p])
           /\ \A k \in DOMAIN run'[p].buffer :
                \/ /\ run'[p].buffer[k] \in Absence /\ k[1] = run[p].entity
                   /\ k \in Cell /\ files[k] = {}
                \/ k \in DOMAIN run[p].buffer /\ run'[p].buffer[k] = run[p].buffer[k]
  <1>. DEFINE r == run[p]
              kept == {c[2] : c \in {k \in r.kept : k[1] = r.entity}}
              known == r.written \cup kept \cup Present(r.entity) \cup CapturedLeagues(index, r.entity)
              rows == GapRows(r.entity, known)
              full == Recorded(r, rows)
  <1>1. PICK readable \in BOOLEAN :
            EntityDone(p, IF readable THEN [r EXCEPT !.buffer = full] ELSE r)
    BY Zenon DEF EmitGaps
  <1>2. Quiet /\ run[p].pc = "gaps"
    BY DEF EmitGaps, Quiet, Typed
  <1>3. r \in RunRec /\ IsRows(r.buffer) /\ "entity" \in Stage
    BY RunIs, StagesAre
  <1>4. /\ IsRows(rows) /\ DOMAIN rows = {r.entity} \X ((Expected \cap Scope[r.entity]) \ known)
        /\ \A k \in DOMAIN rows : rows[k] \in Absence
    BY GapFacts
  <1>5. Present(r.entity) \subseteq known
    OBVIOUS
  <1>. HIDE DEF known, rows
  <1>6. ASSUME NEW k \in DOMAIN rows PROVE k[1] = r.entity /\ k \in Cell /\ files[k] = {}
    <2>1. PICK l \in (Expected \cap Scope[r.entity]) \ known : k = <<r.entity, l>>
      BY <1>4
    <2>2. l \in League /\ l \notin Present(r.entity)
      BY <1>5, SportsAssumption
    <2>. QED
      BY <2>1, <2>2, CellsAre DEF Present
  <1>7. /\ full \in RowSet
        /\ \A k \in DOMAIN full : \/ k \in DOMAIN rows /\ full[k] = rows[k]
                                  \/ k \in DOMAIN r.buffer /\ full[k] = r.buffer[k]
    BY <1>3, <1>4, RecordedIs
  <1>. HIDE DEF full
  <1>. DEFINE b == IF readable THEN full ELSE r.buffer
              n == [r EXCEPT !.pc = "entity", !.todo = @ \ {r.entity}, !.entity = "none", !.written = {},
                             !.buffer = b]
              m == IF readable THEN [r EXCEPT !.buffer = full] ELSE r
  <1>8. /\ b \in RowSet
        /\ \A k \in DOMAIN b : \/ k \in DOMAIN rows /\ b[k] = rows[k]
                               \/ k \in DOMAIN r.buffer /\ b[k] = r.buffer[k]
    BY <1>3, <1>7, RowSetIs
  <1>9. /\ m \in RunRec /\ m.buffer = b /\ m.todo = r.todo /\ m.entity = r.entity /\ Same(r, m)
    BY <1>3, <1>7 DEF RunRec, Same
  <1>10. EntityDone(p, m)
    BY <1>1
  <1>. HIDE DEF m, b
  <1>. DEFINE o == [m EXCEPT !.pc = "entity", !.todo = @ \ {m.entity}, !.entity = "none", !.written = {}]
  <1>11. Local(p, o)
    BY <1>10 DEF EntityDone
  <1>12. o \in RunRec
    BY <1>3, <1>9 DEF RunRec
  <1>13. o.pc = "entity" /\ o.todo = r.todo \ {r.entity} /\ o.buffer = b /\ Same(r, o)
    BY <1>9 DEF RunRec, Same
  <1>. HIDE DEF o
  <1>14. Moves(p) /\ run'[p] = o
    BY <1>11, <1>12, LocalMoves
  <1>. QED
    BY <1>2, <1>4, <1>6, <1>8, <1>13, <1>14

LEMMA DoCrash ==
    ASSUME Typed, NEW p \in Proc, Crash(p)
    PROVE  Moves(p) /\ Quiet /\ run'[p] = Blank
  <1>1. Local(p, Blank) /\ Quiet
    BY DEF Crash, Quiet, Typed
  <1>. QED
    BY <1>1, BlankIs, LocalMoves

LEMMA DoFlush ==
    ASSUME Typed, NEW p \in Proc, Flush(p)
    PROVE  /\ Moves(p) /\ UNCHANGED <<scheduled, finished, files>> /\ run'[p] = Blank
           /\ index' \in RowSet /\ index' = Upsert(index, run[p].buffer)
           /\ Captured(index') \subseteq Captured(index) \cup Captured(run[p].buffer)
  <1>1. /\ Local(p, Blank) /\ UNCHANGED <<scheduled, finished, files>>
        /\ index' = Upsert(index, run[p].buffer)
    BY DEF Flush
  <1>2. IsRows(index) /\ IsRows(run[p].buffer)
    BY RunIs, RowSetIs DEF Typed
  <1>3. /\ IsRows(Upsert(index, run[p].buffer))
        /\ Captured(Upsert(index, run[p].buffer)) \subseteq Captured(index) \cup Captured(run[p].buffer)
    BY <1>2, UpsertFacts
  <1>. QED
    BY <1>1, <1>3, BlankIs, LocalMoves, RowSetIs

\* The absences of a date without fixtures are rows of the whole date.
LEMMA DoNoFixtures ==
    ASSUME Typed, NEW p \in Proc, NoFixtures(p)
    PROVE  /\ UNCHANGED <<scheduled, finished, files, run>>
           /\ index' \in RowSet /\ Captured(index') \subseteq Captured(index)
           /\ \A c \in Cell : /\ c \in DOMAIN index' <=> c \in DOMAIN index
                              /\ c \in DOMAIN index => index'[c] = index[c]
  <1>1. PICK S \in (SUBSET DataType) \ {{}} : index' = Upsert(index, Stamp(S \X {NoLeague}, "no_fixture"))
    BY DEF NoFixtures
  <1>. DEFINE keys == S \X {NoLeague}
              rows == Stamp(keys, "no_fixture")
  <1>2. keys \in SUBSET Key /\ keys \cap Cell = {}
    <2>1. \A k \in keys : \E e \in DataType : k = <<e, NoLeague>>
      OBVIOUS
    <2>. HIDE DEF keys
    <2>. QED
      BY <2>1, CellsAre
  <1>3. "no_fixture" \in Status /\ "no_fixture" # "captured"
    BY DEF Status, Absence
  <1>. HIDE DEF keys
  <1>4. IsRows(rows) /\ DOMAIN rows = keys /\ Captured(rows) = {}
    BY <1>2, <1>3, StampFacts
  <1>5. index' = Upsert(index, rows)
    BY <1>1 DEF keys
  <1>. HIDE DEF rows
  <1>6. IsRows(index)
    BY RowSetIs DEF Typed
  <1>7. IsRows(Upsert(index, rows)) /\ Captured(Upsert(index, rows)) \subseteq Captured(index)
    BY <1>4, <1>6, UpsertFacts
  <1>8. \A c \in Cell : /\ c \in DOMAIN index' <=> c \in DOMAIN index
                        /\ c \in DOMAIN index => index'[c] = index[c]
    BY <1>2, <1>4, <1>5 DEF Upsert
  <1>9. UNCHANGED <<scheduled, finished, files, run>>
    BY DEF NoFixtures
  <1>. QED
    BY <1>5, <1>7, <1>8, <1>9, RowSetIs

LEMMA DoStore ==
    ASSUME Typed, NEW p \in Proc, NEW l \in League, NEW rows \in SUBSET Fixture,
           Store(p, l, rows), run[p].entity \in DataType
    PROVE  /\ Moves(p) /\ UNCHANGED <<scheduled, finished, index>>
           /\ files' \in [Cell -> SUBSET Fixture] /\ files'[<<run[p].entity, l>>] = rows
           /\ \A c \in Cell : c # <<run[p].entity, l>> => files'[c] = files[c]
           /\ run'[p].pc = "write" /\ run'[p].entity = run[p].entity /\ run'[p].todo = run[p].todo
           /\ run'[p].leagues \subseteq run[p].leagues /\ Same(run[p], run'[p])
           /\ \A k \in DOMAIN run'[p].buffer :
                \/ k = <<run[p].entity, l>> /\ run'[p].buffer[k] = "captured"
                \/ k \in DOMAIN run[p].buffer /\ run'[p].buffer[k] = run[p].buffer[k]
  <1>. DEFINE r == run[p]
              stamp == Stamp({<<r.entity, l>>}, "captured")
              buffer == Recorded(r, stamp)
              n == [r EXCEPT !.pc = "write", !.leagues = @ \ {l}, !.written = @ \cup {l},
                        !.league = NoLeague, !.base = {}, !.buffer = buffer]
  <1>1. /\ files' = [files EXCEPT ![<<r.entity, l>>] = rows]
        /\ Local(p, n) /\ UNCHANGED <<scheduled, finished, index>>
    BY DEF Store
  <1>2. r \in RunRec /\ "write" \in Stage
    BY RunIs, StagesAre
  <1>3. <<r.entity, l>> \in Cell /\ {<<r.entity, l>>} \in SUBSET Key
    BY CellsAre
  <1>4. /\ files' \in [Cell -> SUBSET Fixture] /\ files'[<<r.entity, l>>] = rows
        /\ \A c \in Cell : c # <<r.entity, l>> => files'[c] = files[c]
    BY <1>1, <1>3 DEF Typed
  <1>5. IsRows(stamp) /\ DOMAIN stamp = {<<r.entity, l>>} /\ \A k \in DOMAIN stamp : stamp[k] = "captured"
    <2>. DEFINE keys == {<<r.entity, l>>}
    <2>1. keys \in SUBSET Key
      BY <1>3
    <2>. HIDE DEF keys
    <2>2. /\ IsRows(Stamp(keys, "captured")) /\ DOMAIN Stamp(keys, "captured") = keys
          /\ \A k \in keys : Stamp(keys, "captured")[k] = "captured"
      BY <2>1, StampFacts, StatusHas
    <2>. QED
      BY <2>2 DEF keys
  <1>. HIDE DEF stamp
  <1>6. /\ buffer \in RowSet
        /\ \A k \in DOMAIN buffer : \/ k \in DOMAIN stamp /\ buffer[k] = stamp[k]
                                    \/ k \in DOMAIN r.buffer /\ buffer[k] = r.buffer[k]
    BY <1>2, <1>5, RecordedIs
  <1>. HIDE DEF buffer
  <1>7. n \in RunRec
    BY <1>2, <1>6 DEF RunRec
  <1>8. /\ n.pc = "write" /\ n.entity = r.entity /\ n.todo = r.todo /\ n.leagues = r.leagues \ {l}
        /\ n.buffer = buffer /\ Same(r, n)
    BY <1>2 DEF RunRec, Same
  <1>. HIDE DEF n
  <1>9. Moves(p) /\ run'[p] = n
    BY <1>1, <1>7, LocalMoves
  <1>. QED
    BY <1>1, <1>4, <1>5, <1>6, <1>8, <1>9

-----------------------------------------------------------------------------
(* The invariant of any number of runners.                                 *)

\* The steps of a runner by what they write.
Talks(p) ==
    \/ Begin(p) \/ Ensure(p) \/ Prefetch(p) \/ Fetch(p) \/ WritesDone(p) \/ EmitGaps(p) \/ Crash(p)
    \/ \E e \in DataType : StartWrites(p, e) \/ BarePath(p, e) \/ FailEntity(p, e) \/ EmptyEntity(p, e)
    \/ \E l \in League : ReadForMerge(p, l)
Stores(p) == WriteMerged(p) \/ \E l \in League : WriteLeague(p, l)

LEMMA StepsAre ==
    Next <=> \/ \E f \in Fixture : Finish(f)
             \/ \E p \in Proc : Talks(p) \/ Stores(p) \/ Flush(p) \/ NoFixtures(p)
  BY DEF Next, Step, Talks, Stores

\* An entity at work is an entity.
LEMMA AtWorkIs ==
    ASSUME Typed, NEW p \in Proc, AtWork(run[p]), run[p].pc \in {"write", "merge", "gaps"}
    PROVE  run[p].entity \in DataType
  <1>1. run[p].entity \in run[p].todo
    BY DEF AtWork
  <1>. QED
    BY <1>1, RunIs DEF RunRec

\* Rows that are added say failed, or belong to an entity that is not failing and, when they
\* say captured, to a file with rows.
LEMMA OwnedKept ==
    ASSUME NEW r, NEW n, NEW a, NEW b, Same(r, n), Owned(r), Backed(r.buffer, a),
           n.pc \notin {"ensure", "prefetch", "fetch"},
           \A c \in Cell : a[c] # {} => b[c] # {},
           \A k \in DOMAIN n.buffer :
              \/ n.buffer[k] = "failed"
              \/ k \in DOMAIN r.buffer /\ n.buffer[k] = r.buffer[k]
              \/ ~Failing(r, k[1]) /\ (n.buffer[k] = "captured" /\ k \in Cell => b[k] # {})
    PROVE  Owned(n) /\ Backed(n.buffer, b)
  <1>1. \A e : Failing(n, e) <=> Failing(r, e)
    BY SameFacts
  <1>2. ASSUME NEW e \in DataType, Failing(n, e), NEW k \in DOMAIN n.buffer, k[1] = e
        PROVE  n.buffer[k] = "failed"
    BY <1>1, <1>2 DEF Owned
  <1>3. ASSUME NEW k \in DOMAIN n.buffer, n.buffer[k] = "captured", k \in Cell
        PROVE  b[k] # {}
    BY <1>3 DEF Backed, Captured
  <1>. QED
    BY <1>2, <1>3 DEF Owned, Backed, Captured

\* A run that is not at work on an entity.
LEMMA AtRest == ASSUME NEW r, r.pc \notin {"write", "merge", "gaps"} PROVE AtWork(r)
  BY DEF AtWork

LEMMA NothingBuffered == ASSUME NEW stored PROVE Backed(NoRows, stored)
  BY NoRowsFacts DEF Backed

\* A run with an empty buffer that is not at work.
LEMMA FineEmpty ==
    ASSUME NEW r, NEW stored, r.pc \notin {"write", "merge", "gaps"}, r.buffer = NoRows
    PROVE  Fine(r, stored)
  BY AtRest, NothingBuffered, NoRowsFacts DEF Fine, Owned

LEMMA TalksFine ==
    ASSUME IInv, NEW p \in Proc, Talks(p)
    PROVE  Moves(p) /\ Quiet /\ Fine(run'[p], files)
  <1>1. Typed /\ Sorted /\ AtWork(run[p]) /\ Owned(run[p]) /\ Backed(run[p].buffer, files)
    BY DEF IInv, Fine
  <1>2. CASE Begin(p)
    BY <1>1, <1>2, DoBegin, FineEmpty
  <1>3. CASE Crash(p)
    BY <1>1, <1>3, DoCrash, BlankIs, FineEmpty
  <1>4. CASE Ensure(p) \/ Prefetch(p)
    <2>1. /\ Moves(p) /\ Quiet /\ run[p].pc \in {"ensure", "prefetch"}
          /\ run'[p].pc \in {"prefetch", "fetch"} /\ run'[p].buffer = run[p].buffer
      BY <1>1, <1>4, DoCalls
    <2>2. run'[p].buffer = NoRows
      BY <1>1, <2>1 DEF Owned
    <2>. QED
      BY <2>1, <2>2, FineEmpty
  <1>5. CASE Fetch(p)
    <2>1. /\ Moves(p) /\ Quiet /\ run[p].pc = "fetch"
          /\ run'[p].pc = "entity" /\ run'[p].buffer = run[p].buffer
      BY <1>1, <1>5, DoFetch
    <2>2. run'[p].buffer = NoRows
      BY <1>1, <2>1 DEF Owned
    <2>. QED
      BY <2>1, <2>2, FineEmpty
  <1>6. ASSUME NEW e \in DataType, StartWrites(p, e)
        PROVE  Moves(p) /\ Quiet /\ Fine(run'[p], files)
    <2>1. /\ Moves(p) /\ Quiet /\ e \in run[p].todo /\ Rows(run[p], e) # {}
          /\ run'[p].pc = "write" /\ run'[p].entity = e /\ run'[p].todo = run[p].todo
          /\ run'[p].buffer = Counted(run[p], e) /\ Same(run[p], run'[p])
          /\ run'[p].leagues \subseteq {LeagueOf[f] : f \in Rows(run[p], e) \cap run[p].mapped}
      BY <1>1, <1>6, DoStartWrites
    <2>2. ~Failing(run[p], e) /\ ~Failing(run'[p], e) /\ Rows(run'[p], e) = Rows(run[p], e)
      BY <2>1, SameFacts DEF Failing
    <2>3. \A l \in run'[p].leagues : RowsOf(run'[p], l) # {}
      BY <2>1, <2>2 DEF RowsOf, Same
    <2>4. AtWork(run'[p])
      BY <2>1, <2>2, <2>3 DEF AtWork
    <2>5. \A k \in DOMAIN run'[p].buffer :
              \/ k \in DOMAIN run[p].buffer /\ run'[p].buffer[k] = run[p].buffer[k]
              \/ ~Failing(run[p], k[1]) /\ k \notin Cell
      BY <1>1, <2>1, <2>2, RunIs, CountedIs, CellsAre
    <2>. QED
      BY <1>1, <2>1, <2>4, <2>5, OwnedKept DEF Fine
  <1>7. ASSUME NEW e \in DataType, BarePath(p, e)
        PROVE  Moves(p) /\ Quiet /\ Fine(run'[p], files)
    <2>1. /\ Moves(p) /\ Quiet /\ Rows(run[p], e) # {} /\ run'[p].pc = "entity"
          /\ run'[p].buffer = Counted(run[p], e) /\ Same(run[p], run'[p])
      BY <1>1, <1>7, DoBarePath
    <2>2. ~Failing(run[p], e)
      BY <2>1 DEF Failing
    <2>5. \A k \in DOMAIN run'[p].buffer :
              \/ k \in DOMAIN run[p].buffer /\ run'[p].buffer[k] = run[p].buffer[k]
              \/ ~Failing(run[p], k[1]) /\ k \notin Cell
      BY <1>1, <2>1, <2>2, RunIs, CountedIs, CellsAre
    <2>. QED
      BY <1>1, <2>1, <2>5, OwnedKept, AtRest DEF Fine
  <1>8. ASSUME NEW e \in DataType, FailEntity(p, e)
        PROVE  Moves(p) /\ Quiet /\ Fine(run'[p], files)
    <2>1. /\ Moves(p) /\ Quiet /\ run'[p].pc = "entity" /\ Same(run[p], run'[p])
          /\ \A k \in DOMAIN run'[p].buffer :
                \/ run'[p].buffer[k] = "failed"
                \/ k \in DOMAIN run[p].buffer /\ run'[p].buffer[k] = run[p].buffer[k]
      BY <1>1, <1>8, DoFailEntity
    <2>2. Owned(run'[p]) /\ Backed(run'[p].buffer, files)
      BY <1>1, <2>1, OwnedKept
    <2>. QED
      BY <2>1, <2>2, AtRest DEF Fine
  <1>9. ASSUME NEW e \in DataType, EmptyEntity(p, e)
        PROVE  Moves(p) /\ Quiet /\ Fine(run'[p], files)
    <2>1. /\ Moves(p) /\ Quiet /\ e \in run[p].todo /\ Lost(run[p], e) = {}
          /\ run'[p].pc = "gaps" /\ run'[p].entity = e /\ run'[p].todo = run[p].todo
          /\ run'[p].buffer = run[p].buffer /\ Same(run[p], run'[p])
      BY <1>1, <1>9, DoEmptyEntity
    <2>2. ~Failing(run'[p], e)
      BY <2>1, SameFacts DEF Failing
    <2>3. AtWork(run'[p])
      BY <2>1, <2>2 DEF AtWork
    <2>. QED
      BY <1>1, <2>1, <2>3, OwnedKept DEF Fine
  <1>10. ASSUME NEW l \in League, ReadForMerge(p, l)
         PROVE  Moves(p) /\ Quiet /\ Fine(run'[p], files)
    <2>0. run[p].pc = "write" /\ run[p].entity \in DataType
      BY <1>1, <1>10, AtWorkIs DEF ReadForMerge
    <2>1. /\ Moves(p) /\ Quiet /\ l \in run[p].leagues
          /\ run'[p].pc = "merge" /\ run'[p].entity = run[p].entity /\ run'[p].todo = run[p].todo
          /\ run'[p].leagues = run[p].leagues /\ run'[p].league = l
          /\ run'[p].base \subseteq InCell(<<run[p].entity, l>>)
          /\ run'[p].buffer = run[p].buffer /\ Same(run[p], run'[p])
      BY <1>1, <1>10, <2>0, DoReadForMerge
    <2>2. /\ Failing(run'[p], run'[p].entity) <=> Failing(run[p], run[p].entity)
          /\ \A m : RowsOf(run'[p], m) = RowsOf(run[p], m)
      BY <2>1, SameFacts
    <2>3. AtWork(run'[p])
      BY <1>1, <2>0, <2>1, <2>2 DEF AtWork
    <2>4. Owned(run'[p]) /\ Backed(run'[p].buffer, files)
      BY <1>1, <2>1, OwnedKept
    <2>. QED
      BY <2>1, <2>3, <2>4 DEF Fine
  <1>11. CASE WritesDone(p)
    <2>1. /\ Moves(p) /\ Quiet /\ run[p].pc = "write"
          /\ run'[p].pc = "gaps" /\ run'[p].entity = run[p].entity /\ run'[p].todo = run[p].todo
          /\ run'[p].buffer = run[p].buffer /\ Same(run[p], run'[p])
      BY <1>1, <1>11, DoWritesDone
    <2>2. Failing(run'[p], run'[p].entity) <=> Failing(run[p], run[p].entity)
      BY <2>1, SameFacts
    <2>3. AtWork(run'[p])
      BY <1>1, <2>1, <2>2 DEF AtWork
    <2>. QED
      BY <1>1, <2>1, <2>3, OwnedKept DEF Fine
  <1>12. CASE EmitGaps(p)
    <2>0. run[p].pc = "gaps" /\ run[p].entity \in DataType /\ ~Failing(run[p], run[p].entity)
      BY <1>1, <1>12, AtWorkIs DEF EmitGaps, AtWork
    <2>1. /\ Moves(p) /\ Quiet /\ run'[p].pc = "entity" /\ Same(run[p], run'[p])
          /\ \A k \in DOMAIN run'[p].buffer :
                \/ run'[p].buffer[k] \in Absence /\ k[1] = run[p].entity
                \/ k \in DOMAIN run[p].buffer /\ run'[p].buffer[k] = run[p].buffer[k]
      BY <1>1, <1>12, <2>0, DoEmitGaps
    <2>2. \A k \in DOMAIN run'[p].buffer :
              \/ k \in DOMAIN run[p].buffer /\ run'[p].buffer[k] = run[p].buffer[k]
              \/ ~Failing(run[p], k[1]) /\ run'[p].buffer[k] # "captured"
      BY <2>0, <2>1, StatusHas
    <2>3. AtWork(run'[p])
      BY <2>1, AtRest
    <2>. DEFINE n == run'[p]
    <2>4. /\ Same(run[p], n) /\ n.pc = "entity"
          /\ \A k \in DOMAIN n.buffer :
                \/ n.buffer[k] = "failed"
                \/ k \in DOMAIN run[p].buffer /\ n.buffer[k] = run[p].buffer[k]
                \/ ~Failing(run[p], k[1]) /\ (n.buffer[k] = "captured" /\ k \in Cell => files[k] # {})
      BY <2>1, <2>2
    <2>. HIDE DEF n
    <2>5. Owned(n) /\ Backed(n.buffer, files)
      BY <1>1, <2>4, OwnedKept
    <2>. QED
      BY <2>1, <2>3, <2>5 DEF Fine, n
  <1>. QED
    BY <1>2, <1>3, <1>4, <1>5, <1>6, <1>7, <1>8, <1>9, <1>10, <1>11, <1>12 DEF Talks

\* A file is written with rows of its league, of which there are some.
LEMMA StoreFine ==
    ASSUME IInv, NEW p \in Proc, NEW l \in League, NEW rows \in SUBSET Fixture,
           Store(p, l, rows), run[p].pc \in {"write", "merge"},
           rows # {}, rows \subseteq InCell(<<run[p].entity, l>>)
    PROVE  /\ Moves(p) /\ UNCHANGED <<scheduled, finished, index>>
           /\ files' \in [Cell -> SUBSET Fixture] /\ Sorted'
           /\ \A c \in Cell : files[c] # {} => files'[c] # {}
           /\ Fine(run'[p], files')
  <1>1. Typed /\ Sorted /\ AtWork(run[p]) /\ Owned(run[p]) /\ Backed(run[p].buffer, files)
    BY DEF IInv, Fine
  <1>2. run[p].entity \in DataType /\ run[p].entity \in run[p].todo /\ ~Failing(run[p], run[p].entity)
    BY <1>1, AtWorkIs DEF AtWork
  <1>3. /\ Moves(p) /\ UNCHANGED <<scheduled, finished, index>>
        /\ files' \in [Cell -> SUBSET Fixture] /\ files'[<<run[p].entity, l>>] = rows
        /\ \A c \in Cell : c # <<run[p].entity, l>> => files'[c] = files[c]
        /\ run'[p].pc = "write" /\ run'[p].entity = run[p].entity /\ run'[p].todo = run[p].todo
        /\ run'[p].leagues \subseteq run[p].leagues /\ Same(run[p], run'[p])
        /\ \A k \in DOMAIN run'[p].buffer :
              \/ k = <<run[p].entity, l>> /\ run'[p].buffer[k] = "captured"
              \/ k \in DOMAIN run[p].buffer /\ run'[p].buffer[k] = run[p].buffer[k]
    BY <1>1, <1>2, DoStore
  <1>4. Sorted'
    <2>1. ASSUME NEW c \in Cell PROVE files'[c] \subseteq InCell(c)
      BY <1>1, <1>3 DEF Sorted
    <2>. QED
      BY <2>1 DEF Sorted, InCell
  <1>5. \A c \in Cell : files[c] # {} => files'[c] # {}
    BY <1>3
  <1>6. /\ Failing(run'[p], run'[p].entity) <=> Failing(run[p], run[p].entity)
        /\ \A m : RowsOf(run'[p], m) = RowsOf(run[p], m)
    BY <1>3, SameFacts
  <1>7. AtWork(run'[p])
    BY <1>1, <1>2, <1>3, <1>6 DEF AtWork
  <1>8. \A k \in DOMAIN run'[p].buffer :
            \/ k \in DOMAIN run[p].buffer /\ run'[p].buffer[k] = run[p].buffer[k]
            \/ ~Failing(run[p], k[1]) /\ (run'[p].buffer[k] = "captured" /\ k \in Cell => files'[k] # {})
    BY <1>2, <1>3
  <1>9. Owned(run'[p]) /\ Backed(run'[p].buffer, files')
    <2>. DEFINE r == run[p]
                n == run'[p]
                b == files'
    <2>1. /\ Same(r, n) /\ Owned(r) /\ Backed(r.buffer, files)
          /\ n.pc \notin {"ensure", "prefetch", "fetch"}
          /\ \A c \in Cell : files[c] # {} => b[c] # {}
      BY <1>1, <1>3, <1>5
    <2>2. \A k \in DOMAIN n.buffer :
              \/ n.buffer[k] = "failed"
              \/ k \in DOMAIN r.buffer /\ n.buffer[k] = r.buffer[k]
              \/ ~Failing(r, k[1]) /\ (n.buffer[k] = "captured" /\ k \in Cell => b[k] # {})
      BY <1>8
    <2>. HIDE DEF r, n, b
    <2>3. Owned(n) /\ Backed(n.buffer, b)
      BY <2>1, <2>2, OwnedKept
    <2>. QED
      BY <2>3 DEF n, b
  <1>. QED
    BY <1>3, <1>4, <1>5, <1>7, <1>9 DEF Fine

\* What is written of a league: this run's rows of it, with what was read of the file.
LEMMA StoresAre ==
    ASSUME IInv, NEW p \in Proc, Stores(p)
    PROVE  \E l \in League, rows \in SUBSET Fixture :
              /\ Store(p, l, rows) /\ rows # {} /\ rows \subseteq InCell(<<run[p].entity, l>>)
              /\ \/ run[p].pc = "write"
                 \/ run[p].pc = "merge" /\ l = run[p].league /\ run[p].base \subseteq rows
  <1>1. Typed /\ AtWork(run[p])
    BY DEF IInv, Fine
  <1>2. run[p] \in RunRec
    BY <1>1, RunIs
  <1>3. ASSUME NEW l PROVE RowsOf(run[p], l) \in SUBSET Fixture /\ RowsOf(run[p], l) \subseteq InCell(<<run[p].entity, l>>)
    BY <1>2 DEF RowsOf, Rows, InCell, RunRec
  <1>4. ASSUME NEW l \in League, WriteLeague(p, l)
        PROVE  Store(p, l, RowsOf(run[p], l)) /\ RowsOf(run[p], l) # {} /\ run[p].pc = "write"
    BY <1>1, <1>4 DEF WriteLeague, AtWork
  <1>5. ASSUME WriteMerged(p)
        PROVE  LET l == run[p].league
                   rows == run[p].base \cup RowsOf(run[p], l)
               IN  /\ Store(p, l, rows) /\ rows # {} /\ run[p].pc = "merge" /\ l \in League
                   /\ rows \in SUBSET Fixture /\ rows \subseteq InCell(<<run[p].entity, l>>)
    <2>. DEFINE l == run[p].league
                rows == run[p].base \cup RowsOf(run[p], l)
    <2>1. Store(p, l, rows) /\ run[p].pc = "merge"
      BY <1>5 DEF WriteMerged
    <2>2. l \in run[p].leagues /\ RowsOf(run[p], l) # {} /\ run[p].base \subseteq InCell(<<run[p].entity, l>>)
      BY <1>1, <2>1 DEF AtWork
    <2>3. l \in League /\ run[p].base \in SUBSET Fixture
      BY <1>2, <2>2 DEF RunRec
    <2>. QED
      BY <1>3, <2>1, <2>2, <2>3
  <1>6. CASE WriteMerged(p)
    <2>. DEFINE l == run[p].league
                rows == run[p].base \cup RowsOf(run[p], l)
    <2>1. /\ Store(p, l, rows) /\ rows # {} /\ run[p].pc = "merge" /\ l \in League
          /\ rows \in SUBSET Fixture /\ rows \subseteq InCell(<<run[p].entity, l>>)
          /\ run[p].base \subseteq rows
      BY <1>5, <1>6
    <2>. QED
      BY <2>1
  <1>7. ASSUME NEW l \in League, WriteLeague(p, l)
        PROVE  \E rows \in SUBSET Fixture :
                  Store(p, l, rows) /\ rows # {} /\ rows \subseteq InCell(<<run[p].entity, l>>) /\ run[p].pc = "write"
    BY <1>3, <1>4, <1>7
  <1>. QED
    BY <1>6, <1>7 DEF Stores

LEMMA FineMono ==
    ASSUME NEW r, NEW a, NEW b, Fine(r, a), \A c \in Cell : a[c] # {} => b[c] # {}
    PROVE  Fine(r, b)
  BY DEF Fine, Backed

\* What one runner's step must leave for the others.
LEMMA Compose ==
    ASSUME IInv, NEW p \in Proc, Moves(p),
           Typed', Sorted', Backed(index', files'),
           \A c \in Cell : files[c] # {} => files'[c] # {}, Fine(run'[p], files')
    PROVE  IInv'
  <1>1. ASSUME NEW q \in Proc PROVE Fine(run'[q], files')
    <2>1. CASE q = p
      BY <2>1
    <2>2. CASE q # p
      <3>1. run'[q] = run[q] /\ Fine(run[q], files)
        BY <2>2 DEF IInv, Moves
      <3>. QED
        BY <3>1, FineMono
    <2>. QED
      BY <2>1, <2>2
  <1>. QED
    BY <1>1 DEF IInv

LEMMA IInvInit == Init => IInv
  <1>. SUFFICES ASSUME Init PROVE IInv
    OBVIOUS
  <1>1. \A p \in Proc : run[p] = Blank
    BY DEF Init
  <1>2. \A p \in Proc : Fine(run[p], files)
    BY <1>1, BlankIs, FineEmpty
  <1>3. NoRows \in RowSet
    BY NoRowsFacts, RowSetIs
  <1>4. Typed
    BY <1>3, BlankIs DEF Init, Typed
  <1>. QED
    BY <1>2, <1>4, NothingBuffered DEF Init, IInv, Sorted

LEMMA IInvNext == IInv /\ [Next]_vars => IInv'
  <1>. SUFFICES ASSUME IInv, [Next]_vars PROVE IInv'
    OBVIOUS
  <1>0. Typed /\ Sorted /\ Backed(index, files) /\ \A p \in Proc : Backed(run[p].buffer, files)
    BY DEF IInv, Fine
  <1>1. CASE UNCHANGED vars
    BY <1>1 DEF IInv, vars, Typed, Sorted
  <1>2. ASSUME NEW f \in Fixture, Finish(f) PROVE IInv'
    BY <1>2 DEF Finish, IInv, Typed, Sorted
  <1>3. ASSUME NEW p \in Proc, Talks(p) PROVE IInv'
    <2>1. Moves(p) /\ Quiet /\ Fine(run'[p], files)
      BY <1>3, TalksFine
    <2>2. Typed' /\ Sorted' /\ Backed(index', files')
      BY <1>0, <2>1 DEF Typed, Sorted, Moves, Quiet
    <2>. QED
      BY <2>1, <2>2, Compose DEF Quiet
  <1>4. ASSUME NEW p \in Proc, Stores(p) PROVE IInv'
    <2>1. PICK l \in League, rows \in SUBSET Fixture :
              /\ Store(p, l, rows) /\ rows # {} /\ rows \subseteq InCell(<<run[p].entity, l>>)
              /\ run[p].pc \in {"write", "merge"}
      BY <1>4, StoresAre
    <2>2. /\ Moves(p) /\ UNCHANGED <<scheduled, finished, index>>
          /\ files' \in [Cell -> SUBSET Fixture] /\ Sorted'
          /\ \A c \in Cell : files[c] # {} => files'[c] # {}
          /\ Fine(run'[p], files')
      BY <2>1, StoreFine
    <2>3. Typed' /\ Backed(index', files')
      BY <1>0, <2>2 DEF Typed, Moves, Backed
    <2>. QED
      BY <2>2, <2>3, Compose
  <1>5. ASSUME NEW p \in Proc, Flush(p) PROVE IInv'
    <2>1. /\ Moves(p) /\ UNCHANGED <<scheduled, finished, files>> /\ run'[p] = Blank /\ index' \in RowSet
          /\ Captured(index') \subseteq Captured(index) \cup Captured(run[p].buffer)
      BY <1>0, <1>5, DoFlush
    <2>2. Fine(run'[p], files')
      BY <2>1, BlankIs, FineEmpty
    <2>3. Backed(index', files')
      BY <1>0, <2>1 DEF Backed
    <2>4. Typed' /\ Sorted'
      BY <1>0, <2>1 DEF Typed, Sorted, Moves
    <2>. QED
      BY <2>1, <2>2, <2>3, <2>4, Compose
  <1>6. ASSUME NEW p \in Proc, NoFixtures(p) PROVE IInv'
    <2>1. /\ UNCHANGED <<scheduled, finished, files, run>>
          /\ index' \in RowSet /\ Captured(index') \subseteq Captured(index)
      BY <1>0, <1>6, DoNoFixtures
    <2>2. Backed(index', files')
      BY <1>0, <2>1 DEF Backed
    <2>. QED
      BY <2>1, <2>2 DEF IInv, Typed, Sorted
  <1>. QED
    BY <1>1, <1>2, <1>3, <1>4, <1>5, <1>6, StepsAre

-----------------------------------------------------------------------------
(* Theorems for any number of runners.                                     *)

\* The invariant behind the files of captured rows and the rows of failing entities.
THEOREM EntityInvariant == Spec => []IInv
  BY IInvInit, IInvNext, PTL DEF Spec

\* The state is well typed and a file holds fixtures of its league only.
THEOREM EntityTypes == Spec => []TypeOK
  <1>1. IInv => TypeOK
    <2>. SUFFICES ASSUME IInv PROVE TypeOK
      OBVIOUS
    <2>1. Typed /\ Sorted
      BY DEF IInv
    <2>2. ASSUME NEW p \in Proc
          PROVE  /\ IsRows(run[p].buffer)
                 /\ [k \in DOMAIN run[p] \ {"buffer"} |-> run[p][k]] \in RunType
      BY <2>1, RunIs DEF RunRec, RunType, Calls
    <2>. QED
      BY <2>1, <2>2, RowSetIs DEF Typed, Sorted, TypeOK
  <1>. QED
    BY <1>1, EntityInvariant, PTL

\* A captured row, stored or still in a runner's buffer, has rows in its file: through
\* crashes, recoveries, overwrites and any number of other runners.
THEOREM CapturedCellsHaveRows == Spec => []CapturedHasRows
  <1>1. IInv => CapturedHasRows
    BY DEF IInv, Fine, Backed, CapturedHasRows
  <1>. QED
    BY <1>1, EntityInvariant, PTL

\* An entity without any row, one of whose calls failed, is recorded as failed only, so that
\* a later run asks again.
THEOREM FailuresStayFailed == Spec => []NothingCapturedNeverEmpty
  <1>1. IInv => NothingCapturedNeverEmpty
    BY DEF IInv, Fine, Owned, Failing, NothingCapturedNeverEmpty
  <1>. QED
    BY <1>1, EntityInvariant, PTL

-----------------------------------------------------------------------------
(* The invariant of one runner at a time.                                  *)

\* Rows that are added are of the whole date, or no absences, or absences of a league without
\* file and of an entity that is done.
LEMMA SureKept ==
    ASSUME NEW r, NEW n, NEW stored, Sure(r, stored), n.pc # "merge", n.todo \subseteq r.todo,
           \A k \in DOMAIN n.buffer :
              \/ k \notin Cell
              \/ n.buffer[k] \notin Absence
              \/ k \in DOMAIN r.buffer /\ n.buffer[k] = r.buffer[k]
              \/ stored[k] = {} /\ k[1] \notin n.todo
    PROVE  Sure(n, stored)
  BY DEF Sure

LEMMA SureEmpty == ASSUME NEW r, NEW stored, r.pc # "merge", r.buffer = NoRows PROVE Sure(r, stored)
  BY NoRowsFacts DEF Sure

LEMMA TalksSure ==
    ASSUME IInv, Solo, NEW p \in Proc, Talks(p)
    PROVE  Sure(run'[p], files)
  <1>1. Typed /\ Sorted /\ AtWork(run[p]) /\ Owned(run[p]) /\ Sure(run[p], files)
    BY DEF IInv, Fine, Solo
  <1>2. CASE Begin(p) \/ Crash(p)
    BY <1>1, <1>2, DoBegin, DoCrash, BlankIs, SureEmpty
  <1>3. CASE Ensure(p) \/ Prefetch(p)
    <2>1. /\ run[p].pc \in {"ensure", "prefetch"} /\ run'[p].pc \in {"prefetch", "fetch"}
          /\ run'[p].buffer = run[p].buffer
      BY <1>1, <1>3, DoCalls
    <2>. QED
      BY <1>1, <2>1, SureEmpty DEF Owned
  <1>4. CASE Fetch(p)
    <2>1. run[p].pc = "fetch" /\ run'[p].pc = "entity" /\ run'[p].buffer = run[p].buffer
      BY <1>1, <1>4, DoFetch
    <2>. QED
      BY <1>1, <2>1, SureEmpty DEF Owned
  <1>5. ASSUME NEW e \in DataType, StartWrites(p, e) \/ BarePath(p, e) PROVE Sure(run'[p], files)
    <2>1. /\ run'[p].pc \in {"write", "entity"} /\ run'[p].todo \subseteq run[p].todo
          /\ run'[p].buffer = Counted(run[p], e)
      BY <1>1, <1>5, DoStartWrites, DoBarePath
    <2>2. \A k \in DOMAIN run'[p].buffer :
              \/ k \notin Cell
              \/ k \in DOMAIN run[p].buffer /\ run'[p].buffer[k] = run[p].buffer[k]
      BY <1>1, <2>1, RunIs, CountedIs, CellsAre
    <2>. QED
      BY <1>1, <2>1, <2>2, SureKept
  <1>6. ASSUME NEW e \in DataType, FailEntity(p, e) PROVE Sure(run'[p], files)
    <2>1. /\ run'[p].pc = "entity" /\ run'[p].todo \subseteq run[p].todo
          /\ \A k \in DOMAIN run'[p].buffer :
                \/ run'[p].buffer[k] = "failed"
                \/ k \in DOMAIN run[p].buffer /\ run'[p].buffer[k] = run[p].buffer[k]
      BY <1>1, <1>6, DoFailEntity
    <2>2. \A k \in DOMAIN run'[p].buffer :
              \/ run'[p].buffer[k] \notin Absence
              \/ k \in DOMAIN run[p].buffer /\ run'[p].buffer[k] = run[p].buffer[k]
      BY <2>1, StatusHas
    <2>. QED
      BY <1>1, <2>1, <2>2, SureKept
  <1>7. ASSUME NEW e \in DataType, EmptyEntity(p, e) PROVE Sure(run'[p], files)
    <2>1. run'[p].pc = "gaps" /\ run'[p].todo = run[p].todo /\ run'[p].buffer = run[p].buffer
      BY <1>1, <1>7, DoEmptyEntity
    <2>. QED
      BY <1>1, <2>1, SureKept
  <1>8. ASSUME NEW l \in League, ReadForMerge(p, l) PROVE Sure(run'[p], files)
    <2>1. run[p].entity \in DataType
      BY <1>1, <1>8, AtWorkIs DEF ReadForMerge
    <2>2. /\ run'[p].entity = run[p].entity /\ run'[p].todo = run[p].todo /\ run'[p].league = l
          /\ run'[p].base \in {files[<<run[p].entity, l>>], {}} /\ run'[p].buffer = run[p].buffer
      BY <1>1, <1>8, <2>1, DoReadForMerge
    <2>. QED
      BY <1>1, <2>2 DEF Sure
  <1>9. CASE WritesDone(p)
    <2>1. run'[p].pc = "gaps" /\ run'[p].todo = run[p].todo /\ run'[p].buffer = run[p].buffer
      BY <1>1, <1>9, DoWritesDone
    <2>. QED
      BY <1>1, <2>1, SureKept
  <1>10. CASE EmitGaps(p)
    <2>1. run[p].entity \in DataType
      BY <1>1, <1>10, AtWorkIs DEF EmitGaps
    <2>2. /\ run'[p].pc = "entity" /\ run'[p].todo = run[p].todo \ {run[p].entity}
          /\ \A k \in DOMAIN run'[p].buffer :
                \/ k[1] = run[p].entity /\ files[k] = {}
                \/ k \in DOMAIN run[p].buffer /\ run'[p].buffer[k] = run[p].buffer[k]
      BY <1>1, <1>10, <2>1, DoEmitGaps
    <2>. QED
      BY <1>1, <2>2, SureKept
  <1>. QED
    BY <1>2, <1>3, <1>4, <1>5, <1>6, <1>7, <1>8, <1>9, <1>10 DEF Talks

\* The file written is of an entity still to do, none of whose absences is buffered.
LEMMA StoresSure ==
    ASSUME IInv, Solo, NEW p \in Proc, Stores(p)
    PROVE  Sure(run'[p], files')
  <1>1. Typed /\ AtWork(run[p]) /\ Sure(run[p], files)
    BY DEF IInv, Fine, Solo
  <1>2. PICK l \in League, rows \in SUBSET Fixture : Store(p, l, rows) /\ run[p].pc \in {"write", "merge"}
    BY StoresAre
  <1>3. run[p].entity \in DataType /\ run[p].entity \in run[p].todo
    BY <1>1, <1>2, AtWorkIs DEF AtWork
  <1>4. /\ \A c \in Cell : c # <<run[p].entity, l>> => files'[c] = files[c]
        /\ run'[p].pc = "write" /\ run'[p].todo = run[p].todo
        /\ \A k \in DOMAIN run'[p].buffer :
              \/ k = <<run[p].entity, l>> /\ run'[p].buffer[k] = "captured"
              \/ k \in DOMAIN run[p].buffer /\ run'[p].buffer[k] = run[p].buffer[k]
    BY <1>1, <1>2, <1>3, DoStore
  <1>5. ASSUME NEW c \in Cell, c \in DOMAIN run'[p].buffer, run'[p].buffer[c] \in Absence
        PROVE  files'[c] = {} /\ c[1] \notin run'[p].todo
    <2>1. c \in DOMAIN run[p].buffer /\ run[p].buffer[c] \in Absence
      BY <1>4, <1>5, StatusHas
    <2>2. files[c] = {} /\ c[1] \notin run[p].todo
      BY <1>1, <2>1 DEF Sure
    <2>3. c # <<run[p].entity, l>>
      BY <1>3, <2>2
    <2>. QED
      BY <1>4, <2>2, <2>3
  <1>. QED
    BY <1>4, <1>5 DEF Sure

LEMMA SoloInit == Init => Solo
  <1>. SUFFICES ASSUME Init PROVE Solo
    OBVIOUS
  <1>1. \A p \in Proc : run[p] = Blank
    BY DEF Init
  <1>. QED
    BY <1>1, BlankIs, SureEmpty DEF Solo

LEMMA SoloNext == OneRunner /\ IInv /\ Solo /\ [Next]_vars => Solo'
  <1>. SUFFICES ASSUME OneRunner, IInv, Solo, [Next]_vars PROVE Solo'
    OBVIOUS
  <1>0. Typed
    BY DEF IInv
  <1>1. ASSUME NEW p \in Proc, Sure(run'[p], files') PROVE Solo'
    <2>1. \A q \in Proc : q = p
      BY DEF OneRunner
    <2>. QED
      BY <1>1, <2>1 DEF Solo
  <1>2. CASE UNCHANGED <<files, run>>
    BY <1>2 DEF Solo
  <1>3. ASSUME NEW f \in Fixture, Finish(f) PROVE Solo'
    BY <1>2, <1>3 DEF Finish
  <1>4. ASSUME NEW p \in Proc, Talks(p) PROVE Solo'
    <2>1. Sure(run'[p], files) /\ files' = files
      BY <1>4, TalksSure, TalksFine DEF Quiet
    <2>. QED
      BY <1>1, <2>1
  <1>5. ASSUME NEW p \in Proc, Stores(p) PROVE Solo'
    BY <1>1, <1>5, StoresSure
  <1>6. ASSUME NEW p \in Proc, Flush(p) PROVE Solo'
    BY <1>0, <1>1, <1>6, DoFlush, BlankIs, SureEmpty
  <1>7. ASSUME NEW p \in Proc, NoFixtures(p) PROVE Solo'
    BY <1>2, <1>7 DEF NoFixtures
  <1>. QED
    BY <1>2, <1>3, <1>4, <1>5, <1>6, <1>7, StepsAre DEF vars

-----------------------------------------------------------------------------
(* Theorems for one runner at a time.                                      *)

\* The invariant behind the absences and the recoveries of one runner.
THEOREM SoloInvariant == ASSUME OneRunner PROVE Spec => []Solo
  BY SoloInit, SoloNext, EntityInvariant, PTL DEF Spec

\* What a step does to the stored row of a cell: an absence is new only over no file.
LEMMA AbsencesSpareFiles ==
    ASSUME IInv, Solo, [Next]_vars, NEW c \in Cell,
           c \in DOMAIN index', index'[c] \in Absence, files[c] # {}
    PROVE  c \in DOMAIN index /\ index[c] = index'[c]
  <1>0. Typed
    BY DEF IInv
  <1>1. CASE UNCHANGED index
    BY <1>1
  <1>2. ASSUME NEW p \in Proc, Flush(p) PROVE c \in DOMAIN index /\ index[c] = index'[c]
    <2>1. index' = Upsert(index, run[p].buffer)
      BY <1>0, <1>2, DoFlush
    <2>2. c \in DOMAIN run[p].buffer => run[p].buffer[c] \notin Absence
      BY DEF Solo, Sure
    <2>. QED
      BY <2>1, <2>2 DEF Upsert
  <1>3. ASSUME NEW p \in Proc, NoFixtures(p) PROVE c \in DOMAIN index /\ index[c] = index'[c]
    BY <1>0, <1>3, DoNoFixtures
  <1>4. ASSUME NEW p \in Proc, Talks(p) PROVE UNCHANGED index
    BY <1>4, TalksFine DEF Quiet
  <1>5. ASSUME NEW p \in Proc, Stores(p) PROVE UNCHANGED index
    <2>1. \E l, rows : Store(p, l, rows)
      BY <1>5, StoresAre
    <2>. QED
      BY <2>1 DEF Store
  <1>. QED
    BY <1>1, <1>2, <1>3, <1>4, <1>5, StepsAre DEF vars, Finish

\* What a flush stores as absent has no file: the guard is decided entity by entity, before
\* the flush, and nothing of the entity is written in between.
THEOREM AbsencesHaveNoFile == ASSUME OneRunner PROVE Spec => EmptyNeverStampedOverData
  <1>. DEFINE A == \A c \in Cell : c \in DOMAIN index' /\ index'[c] \in Absence /\ files[c] # {}
                      => c \in DOMAIN index /\ index[c] = index'[c]
  <1>1. IInv /\ Solo /\ [Next]_vars => [A]_vars
    BY AbsencesSpareFiles
  <1>. QED
    BY <1>1, EntityInvariant, SoloInvariant, PTL DEF Spec, EmptyNeverStampedOverData

\* A captured cell never becomes an absence again, so no later run takes its data for
\* something that was never there.
THEOREM CapturedNeverMasked ==
    ASSUME OneRunner
    PROVE  Spec => [][\A c \in Cell : c \in Captured(index)
                        => ~(c \in DOMAIN index' /\ index'[c] \in Absence)]_vars
  <1>. DEFINE A == \A c \in Cell : c \in Captured(index) => ~(c \in DOMAIN index' /\ index'[c] \in Absence)
  <1>1. IInv /\ Solo /\ [Next]_vars => [A]_vars
    <2>. SUFFICES ASSUME IInv, Solo, [Next]_vars, NEW c \in Cell, c \in Captured(index),
                         c \in DOMAIN index', index'[c] \in Absence
                  PROVE  FALSE
      OBVIOUS
    <2>1. files[c] # {} /\ index[c] = "captured"
      BY DEF IInv, Backed, Captured
    <2>2. index[c] = index'[c]
      BY <2>1, AbsencesSpareFiles
    <2>. QED
      BY <2>1, <2>2, StatusHas
  <1>. QED
    BY <1>1, EntityInvariant, SoloInvariant, PTL DEF Spec

\* A recovery that could read the file of a league only adds to it.
THEOREM RecoveriesOnlyAdd == ASSUME OneRunner PROVE Spec => RecoveryPreserves
  <1>. DEFINE A == \A p \in Proc, c \in Cell :
                      run[p].pc = "merge" /\ run[p].base # {} /\ c = <<run[p].entity, run[p].league>>
                          => files[c] \subseteq files'[c]
  <1>1. IInv /\ Solo /\ [Next]_vars => [A]_vars
    <2>. SUFFICES ASSUME IInv, Solo, Next, NEW p \in Proc, NEW c \in Cell,
                         run[p].pc = "merge", run[p].base # {}, c = <<run[p].entity, run[p].league>>
                  PROVE  files[c] \subseteq files'[c]
      BY DEF vars
    <2>0. Typed /\ AtWork(run[p]) /\ Sure(run[p], files)
      BY DEF IInv, Fine, Solo
    <2>1. ASSUME NEW q \in Proc, Stores(q) PROVE files[c] \subseteq files'[c]
      <3>1. q = p
        BY DEF OneRunner
      <3>2. PICK l \in League, rows \in SUBSET Fixture :
                Store(p, l, rows) /\ l = run[p].league /\ run[p].base \subseteq rows
        BY <2>1, <3>1, StoresAre
      <3>3. run[p].entity \in DataType
        BY <2>0, AtWorkIs
      <3>4. files'[c] = rows
        BY <2>0, <3>2, <3>3, DoStore
      <3>5. files[c] = run[p].base
        BY <2>0 DEF Sure
      <3>. QED
        BY <3>2, <3>4, <3>5
    <2>2. ASSUME NEW q \in Proc, Talks(q) PROVE UNCHANGED files
      BY <2>2, TalksFine DEF Quiet
    <2>. QED
      BY <2>1, <2>2, StepsAre DEF Finish, Flush, NoFixtures
  <1>. QED
    BY <1>1, EntityInvariant, SoloInvariant, PTL DEF Spec, RecoveryPreserves
=============================================================================
