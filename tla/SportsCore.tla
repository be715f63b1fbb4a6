----------------------------- MODULE SportsCore -----------------------------
(***************************************************************************)
(* The slow-moving sports entities (_fetch_teams_and_standings,            *)
(* _fetch_injuries): a batch process goes through its dates, keeps the     *)
(* teams and standings it fetched for the first of them and writes them    *)
(* under each date, with one manifest flush per date.  Dates share nothing *)
(* but the process's cache, so the module follows one date; the process    *)
(* may have gone through others before it.                                 *)
(***************************************************************************)
EXTENDS SportsManifest, Naturals

CONSTANTS
    Teams, Standings, Injuries,     \* the data types
    MaxVisits,                      \* bound: the processes that come to the date
    ApiId                           \* [Expected -> the provider's number of the league]

ASSUME CoreAssumption ==
    /\ DataType = {Teams, Standings, Injuries}
    /\ Teams # Standings /\ Injuries \notin {Teams, Standings}
    /\ MaxVisits \in Nat \ {0}
    /\ ApiId \in [Expected -> League \ Expected]

VARIABLES
    files,      \* the cells of the date with a parquet
    index,      \* the consolidated rows of the date
    run,        \* the process
    visits      \* the processes there have been

vars == <<files, index, run, visits>>

Slow == {Teams, Standings}

Stage == {"before", "fetch", "write", "end", "after"}

(***************************************************************************)
(* cached: the leagues with rows in _cached_teams_df, _cached_standings_df *)
(* (an empty answer is not cached); wrote: the entities counted so far.    *)
(***************************************************************************)
Cold == [t \in Slow |-> {}]
Fresh == [pc |-> "before", entity |-> Teams, cached |-> Cold,
          todo |-> {}, done |-> {}, wrote |-> {}, buffer |-> NoRows]

\* The process is done with the date; what it still holds is of no more use to it.
Left == [Fresh EXCEPT !.pc = "after"]

Init == /\ files = {}
        /\ index = NoRows
        /\ run = Fresh
        /\ visits = 1

Unchanged == UNCHANGED <<files, index, visits>>

Add(rows) == Upsert(run.buffer, rows)

\* The entities in the order of _fetch_sports_reference_data.
After(e) == IF e = Teams THEN Standings ELSE Injuries
GoOn(r) ==
    IF r.entity = Injuries THEN [r EXCEPT !.pc = "end", !.todo = {}, !.done = {}]
    ELSE [r EXCEPT !.pc = "fetch", !.entity = After(@), !.todo = {}, !.done = {}]

\* An earlier date of the process filled a cache.
EarlierDate(t) ==
    /\ run.pc = "before" /\ run.cached[t] = {}
    /\ \E got \in (SUBSET Expected) \ {{}} : run' = [run EXCEPT !.cached[t] = got]
    /\ Unchanged

\* The process comes to the date.
Begin ==
    /\ run.pc = "before"
    /\ run' = [run EXCEPT !.pc = "fetch"]
    /\ Unchanged

\* _fetch_and_cache_teams, _fetch_and_cache_standings with a warm cache.
FromCache ==
    /\ run.pc = "fetch" /\ run.entity \in Slow
    /\ run.cached[run.entity] # {}
    /\ run' = [run EXCEPT !.pc = "write", !.todo = run.cached[run.entity], !.wrote = @ \cup {run.entity}]
    /\ Unchanged

\* The key of a failed call: the league's id, and for standings its provider number.
FailedKey(t, l) == IF t = Standings THEN <<t, ApiId[l]>> ELSE <<t, l>>

\* (mutant) an answer without rows is kept and goes on to the gaps
FetchSlowAlways ==
    /\ run.pc = "fetch" /\ run.entity \in Slow
    /\ run.cached[run.entity] = {}
    /\ \E got \in SUBSET Expected : \E lost \in SUBSET (Expected \ got) :
        LET t == run.entity
        IN  run' = [run EXCEPT !.cached[t] = got, !.pc = "write", !.todo = got, !.wrote = @ \cup {t},
                               !.buffer = Add(Stamp({FailedKey(t, l) : l \in lost}, "failed"))]
    /\ Unchanged

\* One call per league; a failed one is noted, and the answer is cached if any call
\* brought rows.
FetchSlow ==
    /\ run.pc = "fetch" /\ run.entity \in Slow
    /\ run.cached[run.entity] = {}
    /\ \E got \in SUBSET Expected : \E lost \in SUBSET (Expected \ got) :
        LET t == run.entity
            r == [run EXCEPT !.cached[t] = got,
                             !.buffer = Add(Stamp({FailedKey(t, l) : l \in lost}, "failed"))]
        IN  run' = IF got = {} THEN GoOn(r) ELSE [r EXCEPT !.pc = "write", !.todo = got, !.wrote = @ \cup {t}]
    /\ Unchanged

\* get_injuries(date): one call for all leagues.
FetchInjuries ==
    /\ run.pc = "fetch" /\ run.entity = Injuries
    /\ \E got \in SUBSET Expected : run' = [run EXCEPT !.pc = "write", !.todo = got]
    /\ Unchanged

\* A league's file, then its captured row; the order of the leagues is fixed.
NextLeague == CHOOSE l \in run.todo : TRUE

\* (mutant) a write that failed is recorded all the same
WriteLeagueSwallows ==
    /\ run.pc = "write" /\ run.todo # {}
    /\ files' \in {files, files \cup {<<run.entity, NextLeague>>}}
    /\ run' = [run EXCEPT !.todo = @ \ {NextLeague}, !.done = @ \cup {NextLeague},
                          !.buffer = Add(Stamp({<<run.entity, NextLeague>>}, "captured"))]
    /\ UNCHANGED <<index, visits>>

WriteLeague ==
    /\ run.pc = "write" /\ run.todo # {}
    /\ files' = files \cup {<<run.entity, NextLeague>>}
    /\ run' = [run EXCEPT !.todo = @ \ {NextLeague}, !.done = @ \cup {NextLeague},
                          !.buffer = Add(Stamp({<<run.entity, NextLeague>>}, "captured"))]
    /\ UNCHANGED <<index, visits>>

Present(e) == {l \in League : <<e, l>> \in files}

\* (mutant) the files are not looked at
EmitGapsUnguarded ==
    /\ run.pc = "write" /\ run.todo = {}
    /\ run' = GoOn([run EXCEPT !.buffer = Add(GapRows(run.entity, run.done))])
    /\ Unchanged

\* emit_empty_gaps_for_entity, which gives up when the files or the manifest cannot be
\* read.
EmitGaps ==
    /\ run.pc = "write" /\ run.todo = {}
    /\ LET known == run.done \cup Present(run.entity) \cup CapturedLeagues(index, run.entity)
       IN  run' \in {GoOn(run), GoOn([run EXCEPT !.buffer = Add(GapRows(run.entity, known))])}
    /\ Unchanged

\* An exception of the call, or of anything after it: failed for every expected league,
\* over the rows the run has recorded already.
InjuriesFail ==
    /\ run.entity = Injuries /\ run.pc \in {"fetch", "write"}
    /\ run' = GoOn([run EXCEPT !.buffer = Add(Stamp({Injuries} \X Expected, "failed"))])
    /\ Unchanged

\* (mutant) no league for a league that was not counted
CountRowsUnkeyed(zero) == IF zero THEN Stamp(run.wrote, "captured") ELSE NoRows

\* The caller's rows for the counted entities: _fetch_sports_reference_block has teams and
\* standings in _self_manifested, _zero_sports_reference_fetch has not.
CountRows(zero) == IF zero THEN Stamp(run.wrote \X {NoLeague}, "captured") ELSE NoRows

Flush ==
    /\ run.pc = "end"
    /\ \E zero \in BOOLEAN : index' = Upsert(index, Add(CountRows(zero)))
    /\ run' = Left
    /\ UNCHANGED <<files, visits>>

\* A write of teams or standings raised: the block is given up without its rows.
Abandon ==
    /\ run.pc = "write" /\ run.entity \in Slow
    /\ run' = Left
    /\ Unchanged

\* The process ends or dies; another one takes the date up later.
Restart ==
    /\ run # Fresh /\ visits < MaxVisits
    /\ run' = Fresh
    /\ visits' = visits + 1
    /\ UNCHANGED <<files, index>>

Next ==
    \/ \E t \in Slow : EarlierDate(t)
    \/ Begin \/ FromCache \/ FetchSlow \/ FetchInjuries
    \/ WriteLeague \/ EmitGaps \/ InjuriesFail \/ Flush \/ Abandon \/ Restart

Spec == Init /\ [][Next]_vars

-----------------------------------------------------------------------------
(* Properties                                                              *)

\* The state is well typed.
TypeOK ==
    /\ files \subseteq Cell /\ visits \in 1..MaxVisits
    /\ IsRows(index) /\ IsRows(run.buffer)
    /\ run.pc \in Stage
    /\ run.entity \in DataType /\ run.wrote \subseteq Slow
    /\ run.cached \in [Slow -> SUBSET Expected]
    /\ run.todo \subseteq Expected /\ run.done \subseteq Expected

\* A captured league has its file, also when the rows come from the process's cache.
CapturedHasFile == Captured(index) \cap Cell \subseteq files

\* The presence and manifest guards: what is newly stamped absent has no file,
\* whatever earlier processes wrote and this run did not fetch.
EmptyNeverOverFile ==
    [][\A c \in Cell : c \in DOMAIN index' /\ index'[c] \in Absence /\ c \in files
            => c \in DOMAIN index /\ index[c] = index'[c]]_vars

\* An outage is not an absence: when no call for teams (standings) brought rows, no league
\* is stamped absent, on this date or on a later one of the process.
OutageNeverAbsent ==
    \A k \in DOMAIN run.buffer : k[1] \in Slow /\ run.buffer[k] \in Absence => run.cached[k[1]] # {}

-----------------------------------------------------------------------------
(* What the comments of the code say besides; these do not hold.           *)

\* "these make per-league TEAMS/STANDINGS manifest rows the sole, canonical source of
\* truth going forward".
PerLeagueRowsOnly == \A k \in Captured(index) : k[1] \in Slow => k[2] # NoLeague

\* A noted failure of a call is not overwritten by an absence of the same run.
FailedNeverEmpty ==
    [][\A k \in DOMAIN run.buffer \cap DOMAIN run'.buffer :
          run.buffer[k] = "failed" => run'.buffer[k] \notin Absence]_vars
=============================================================================
