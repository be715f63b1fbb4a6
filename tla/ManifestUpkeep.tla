--------------------------- MODULE ManifestUpkeep ---------------------------
(***************************************************************************)
(* The upkeep of one bucket's availability manifest: the phantom           *)
(* reconciler (scripts/reconcile_phantom_manifest_rows_all.py) and the     *)
(* seeder of the expected universe (scripts/enumerate_expected_universe.py)*)
(* beside the consolidator, which folds the per-VM shards into the index,  *)
(* and a runner that captures what the manifest does not call done.  An    *)
(* atom is one manifest key (for sports a league, data type and date).     *)
(*                                                                         *)
(* Rows keep their capture_status and whether the reconciler wrote it;     *)
(* the shards outstanding are one map, since merging them in any grouping  *)
(* gives the same rows and VM_NAME is unique, so that no run overwrites    *)
(* another's parts.  Nothing pauses the consolidator, the enumerator or    *)
(* the runner while the reconciler works, and nothing obliges an operator  *)
(* to apply it.  Left out: dry runs, the deletion passes, the full-history *)
(* artifact, the CSV report and the scope filters.                         *)
(***************************************************************************)
EXTENDS Naturals, Sequences, FiniteSets

CONSTANTS
    Catalog,    \* the atoms in the order the enumerator yields them
    Absent,     \* the atoms outside an instrument's life or its source's coverage
    Worked,     \* the atoms a runner is started for
    Legacy,     \* [Atom -> the rows it may begin with, and whether its parquet is stored]
    Raises,     \* the atoms whose listing error ends the audit: the market data of sports dates
    Outranks,   \* a captured row outranks later rows of other statuses
    ChunkSize,  \* V2_STREAM_CHUNK_SIZE
    MaxWrites,  \* --max-writes-per-run
    MaxFaults   \* bound: losses, failures, listing errors, deaths, forced runs

Atom == {Catalog[n] : n \in 1..Len(Catalog)}

\* "phantom" is attempted_failed with the reconciler's reason.
Status == {"none", "captured", "failed", "phantom", "empty", "unattempted"}

ASSUME UpkeepAssumption ==
    /\ Catalog \in Seq(Atom)
    /\ Absent \subseteq Atom /\ Worked \subseteq Atom /\ Raises \subseteq Atom
    /\ Legacy \in [Atom -> SUBSET ({"none", "captured", "phantom"} \X BOOLEAN)]
    /\ Outranks \in BOOLEAN
    /\ ChunkSize \in Nat \ {0} /\ MaxWrites \in Nat /\ MaxFaults \in Nat

VARIABLES
    index,      \* _index/availability_index.parquet
    fresh,      \* the shards under _index/per_vm no consolidation has read
    taken,      \* the shards the running consolidation has read and not pruned
    con,        \* the index it is about to write
    objects,    \* the atoms whose parquet is stored
    recorded,   \* the stored atoms a runner, or an earlier one, has recorded as captured
    rec,        \* the reconciler
    enu,        \* the enumerator
    run,        \* the runner
    past,       \* (history) what the apply runs did to rows and captures
    faults

manifest == <<index, fresh, taken, con>>
vars == <<index, fresh, taken, con, objects, recorded, rec, enu, run, past, faults>>

\* What _should_skip_shard skips.
Done == {"captured", "empty"}
Rows == [Atom -> Status]
NoRows == [a \in Atom |-> "none"]

\* _merge_shard_frames for one key: later rows win, but none over a captured one.
Wins(old, new) ==
    IF new = "none" \/ (Outranks /\ old = "captured" /\ new # "captured") THEN old ELSE new
Merge(old, new) == [a \in Atom |-> Wins(old[a], new[a])]

\* merge_canonical_with_outstanding_shards
Merged == Merge(Merge(index, taken), fresh)
Put(S, s) == Merge(fresh, [a \in Atom |-> IF a \in S THEN s ELSE "none"])

Fault == faults < MaxFaults /\ faults' = faults + 1

RecIdle == [pc |-> "idle", doubt |-> {}, flagged |-> {}, frame |-> NoRows]

\* missed: the captured rows whose parquet the audit of this apply run did not find;
\* landed: the atoms whose row a consolidation changed between its second read and its
\* upload; undone: those of both that an upload had the last word on, since no capture of
\* theirs was outstanding in a shard, until a runner records them anew.
PastNone == [missed |-> {}, landed |-> {}, undone |-> {}]
Settled == [past EXCEPT !.missed = {}, !.landed = {}]

EnuIdle == [pc |-> "idle", present |-> {}, captured |-> {}, todo |-> <<>>, written |-> 0]
RunIdle == [pc |-> "idle", atoms |-> {}]

\* A manifest that holds phantoms, rows flagged by an earlier audit, and gaps.
Init ==
    /\ index \in Rows
    /\ fresh = NoRows /\ taken = NoRows /\ con = NoRows
    /\ objects \in SUBSET Atom
    /\ \A a \in Atom : <<index[a], a \in objects>> \in Legacy[a]
    /\ recorded = {a \in objects : index[a] = "captured"}
    /\ rec = RecIdle /\ enu = EnuIdle /\ run = RunIdle
    /\ past = PastNone /\ faults = 0

-----------------------------------------------------------------------------
(* The consolidator, a cron job of another service.                        *)

ConRead ==
    /\ taken = NoRows /\ fresh # NoRows
    /\ con' = Merge(index, fresh)
    /\ taken' = fresh /\ fresh' = NoRows
    /\ UNCHANGED <<index, objects, recorded, rec, enu, run, past, faults>>

ConWrite ==
    /\ taken # NoRows
    /\ index' = con /\ con' = NoRows /\ taken' = NoRows
    /\ past' = IF rec.pc # "upload" THEN past
               ELSE [past EXCEPT !.landed = @ \cup {a \in Atom : con[a] # index[a]}]
    /\ UNCHANGED <<fresh, objects, recorded, rec, enu, run, faults>>

\* It dies before its write; the shards stay.
ConDie ==
    /\ taken # NoRows /\ Fault
    /\ fresh' = Merge(taken, fresh) /\ con' = NoRows /\ taken' = NoRows
    /\ UNCHANGED <<index, objects, recorded, rec, enu, run, past>>

-----------------------------------------------------------------------------
(* The reconciler, when an operator applies it: the forward audit, with or *)
(* without --unphantom, or the reverse one alone (--unphantom-only).       *)

RecRead ==
    /\ rec.pc = "idle"
    /\ \E passes \in {{"forward"}, {"forward", "reverse"}, {"reverse"}} :
          rec' = [pc |-> "audit", frame |-> Merged,
                  doubt |-> {a \in Atom : "forward" \in passes /\ Merged[a] = "captured"},
                  flagged |-> {a \in Atom : "reverse" \in passes /\ Merged[a] = "phantom"}]
    /\ UNCHANGED <<manifest, objects, recorded, enu, run, past, faults>>

\* (mutant) every captured row is taken for a phantom
PhantomsAll(seen) == rec.doubt

\* The captured rows no listing answers for.
Phantoms(seen) == rec.doubt \ seen

Forward(seen) ==
    /\ rec' = [rec EXCEPT !.pc = "reverse", !.doubt = Phantoms(seen)]
    /\ past' = [past EXCEPT !.missed = rec.doubt \ seen]

\* The listings of the captured rows all answer.
RecAudit ==
    /\ rec.pc = "audit"
    /\ Forward(objects)
    /\ UNCHANGED <<manifest, objects, recorded, enu, run, faults>>

\* Some fail: a sports date raises, the others count as empty.
RecAuditErrs ==
    /\ rec.pc = "audit" /\ Fault
    /\ \E failed \in SUBSET rec.doubt :
        /\ failed # {}
        /\ IF failed \cap Raises # {} THEN rec' = RecIdle /\ UNCHANGED past ELSE Forward(objects \ failed)
    /\ UNCHANGED <<manifest, objects, recorded, enu, run>>

\* The flagged rows are listed after them; with nothing to change the run is over.
Reverse(seen) ==
    LET found == rec.flagged \cap seen
    IN  IF rec.doubt \cup found = {}
        THEN rec' = RecIdle
        ELSE rec' = [rec EXCEPT !.pc = "merge", !.flagged = found]

RecReverse ==
    /\ rec.pc = "reverse"
    /\ Reverse(objects)
    /\ UNCHANGED <<manifest, objects, recorded, enu, run, past, faults>>

RecReverseErrs ==
    /\ rec.pc = "reverse" /\ Fault
    /\ \E failed \in SUBSET rec.flagged :
        /\ failed # {}
        /\ IF failed \cap Raises # {} THEN rec' = RecIdle ELSE Reverse(objects \ failed)
    /\ past' = IF rec'.pc = "idle" THEN Settled ELSE past
    /\ UNCHANGED <<manifest, objects, recorded, enu, run>>

\* (mutant) the flip finds no row of the second read
FlipNothing(rows, phantoms, found) == [a \in Atom |-> IF a \in found THEN "captured" ELSE rows[a]]

\* _relocate_indices_by_identity and the two assignments: whatever row the second read
\* has for a flagged key is changed, a key without one is skipped.
Flip(rows, phantoms, found) ==
    [a \in Atom |-> CASE rows[a] = "none" -> "none"
                      [] rows[a] # "none" /\ a \in found -> "captured"
                      [] rows[a] # "none" /\ a \in phantoms \ found -> "phantom"
                      [] OTHER -> rows[a]]

\* (mutant) the snapshot of the first read is flipped
RecMergeFirst ==
    /\ rec.pc = "merge"
    /\ rec' = [RecIdle EXCEPT !.pc = "upload", !.frame = Flip(rec.frame, rec.doubt, rec.flagged)]
    /\ UNCHANGED <<manifest, objects, recorded, enu, run, past, faults>>

\* The second read.
RecMerge ==
    /\ rec.pc = "merge"
    /\ rec' = [RecIdle EXCEPT !.pc = "upload", !.frame = Flip(Merged, rec.doubt, rec.flagged)]
    /\ UNCHANGED <<manifest, objects, recorded, enu, run, past, faults>>

\* (mutant) the frame stays behind
RecUploadOnly ==
    /\ rec.pc = "upload"
    /\ index' = rec.frame
    /\ rec' = [rec EXCEPT !.pc = "idle"]
    /\ past' = Settled
    /\ UNCHANGED <<fresh, taken, con, objects, recorded, enu, run, faults>>

Outstanding == {a \in Atom : "captured" \in {fresh[a], taken[a]}}

\* A plain upload, whatever has been written to the index since.
RecUpload ==
    /\ rec.pc = "upload"
    /\ index' = rec.frame
    /\ rec' = RecIdle
    /\ past' = [Settled EXCEPT !.undone = @ \cup ((past.missed \cup past.landed) \ Outstanding)]
    /\ UNCHANGED <<fresh, taken, con, objects, recorded, enu, run, faults>>

RecDie ==
    /\ rec.pc # "idle" /\ Fault
    /\ rec' = RecIdle /\ past' = Settled
    /\ UNCHANGED <<manifest, objects, recorded, enu, run>>

-----------------------------------------------------------------------------
(* The enumerator, a daily job.                                            *)

Present(rows) == {a \in Atom : rows[a] # "none"}
CapturedIn(rows) == {a \in Atom : rows[a] = "captured"}

\* _download_manifest_sets reads the index, then each shard there is by now.
EnuReadIndex ==
    /\ enu.pc = "idle"
    /\ enu' = [EnuIdle EXCEPT !.pc = "shards", !.present = Present(index), !.captured = CapturedIn(index)]
    /\ UNCHANGED <<manifest, objects, recorded, rec, run, past, faults>>

\* (mutant) without a present-set, alive atoms are passed over
YieldedAbsent(present, captured) == SelectSeq(Catalog, LAMBDA a : a \in Absent \ captured)

\* enumerate_v2: an absence for each atom outside its life unless it is captured, also
\* where a row says so already; a seed for each other atom without row.
Yielded(present, captured) ==
    LET due(a) == IF a \in Absent THEN a \notin captured ELSE a \notin present
        upTo[n \in 0..Len(Catalog)] ==
            IF n = 0 THEN <<>>
            ELSE IF due(Catalog[n]) THEN Append(upTo[n - 1], Catalog[n]) ELSE upTo[n - 1]
    IN  upTo[Len(Catalog)]

EnuReadShards ==
    /\ enu.pc = "shards"
    /\ LET shards == Merge(taken, fresh)
       IN  enu' = [EnuIdle EXCEPT !.pc = "write",
                      !.todo = Yielded(enu.present \cup Present(shards), enu.captured \cup CapturedIn(shards))]
    /\ UNCHANGED <<manifest, objects, recorded, rec, run, past, faults>>

\* The shards cannot be listed: the index alone decides.
EnuSkipShards ==
    /\ enu.pc = "shards" /\ Fault
    /\ enu' = [EnuIdle EXCEPT !.pc = "write", !.todo = Yielded(enu.present, enu.captured)]
    /\ UNCHANGED <<manifest, objects, recorded, rec, run, past>>

ChunkLen == IF Len(enu.todo) < ChunkSize THEN Len(enu.todo) ELSE ChunkSize
Chunk == {enu.todo[n] : n \in 1..ChunkLen}
Seeds == [a \in Atom |-> IF a \notin Chunk THEN "none" ELSE IF a \in Absent THEN "empty" ELSE "unattempted"]

\* _flush: one more part file.
EnuFlush ==
    /\ enu.pc = "write" /\ enu.todo # <<>>
    /\ enu.written + ChunkLen <= MaxWrites
    /\ fresh' = Merge(fresh, Seeds)
    /\ enu' = [enu EXCEPT !.todo = SubSeq(@, ChunkLen + 1, Len(@)), !.written = @ + ChunkLen]
    /\ UNCHANGED <<index, taken, con, objects, recorded, rec, run, past, faults>>

\* The halt-safety stops the run before the chunk is full; flushed parts stay.
EnuHalt ==
    /\ enu.pc = "write" /\ enu.todo # <<>>
    /\ enu.written + ChunkLen > MaxWrites
    /\ enu' = EnuIdle
    /\ UNCHANGED <<manifest, objects, recorded, rec, run, past, faults>>

EnuEnd ==
    /\ enu.pc = "write" /\ enu.todo = <<>>
    /\ enu' = EnuIdle
    /\ UNCHANGED <<manifest, objects, recorded, rec, run, past, faults>>

EnuDie ==
    /\ enu.pc # "idle" /\ Fault
    /\ enu' = EnuIdle
    /\ UNCHANGED <<manifest, objects, recorded, rec, run, past>>

-----------------------------------------------------------------------------
(* The runner.                                                             *)

\* _should_skip_shard: what is captured or an honest absence is not asked for again.
RunStart(a) ==
    /\ run.pc = "idle" /\ a \in Worked
    /\ Merged[a] \notin Done
    /\ run' = [pc |-> "fetch", atoms |-> {a}]
    /\ UNCHANGED <<manifest, objects, recorded, rec, enu, past, faults>>

\* A forced run (redo_all) asks again for what is done.
RunForce(a) ==
    /\ run.pc = "idle" /\ a \in Worked /\ Fault
    /\ run' = [pc |-> "fetch", atoms |-> {a}]
    /\ UNCHANGED <<manifest, objects, recorded, rec, enu, past>>

\* The parquet first, then the row.
RunStore ==
    /\ run.pc = "fetch"
    /\ objects' = objects \cup run.atoms
    /\ run' = [run EXCEPT !.pc = "record"]
    /\ UNCHANGED <<manifest, recorded, rec, enu, past, faults>>

RunRecord ==
    /\ run.pc = "record"
    /\ fresh' = Put(run.atoms, "captured")
    /\ recorded' = recorded \cup (run.atoms \cap objects)
    /\ run' = RunIdle
    /\ past' = [past EXCEPT !.undone = @ \ run.atoms]
    /\ UNCHANGED <<index, taken, con, objects, rec, enu, faults>>

\* An honest absence: the source has nothing, and no parquet says otherwise.
RunEmpty ==
    /\ run.pc = "fetch"
    /\ run.atoms \subseteq Absent \ objects
    /\ fresh' = Put(run.atoms, "empty")
    /\ run' = RunIdle
    /\ UNCHANGED <<index, taken, con, objects, recorded, rec, enu, past, faults>>

RunFail ==
    /\ run.pc = "fetch" /\ Fault
    /\ fresh' = Put(run.atoms, "failed")
    /\ run' = RunIdle
    /\ UNCHANGED <<index, taken, con, objects, recorded, rec, enu, past>>

RunDie ==
    /\ run.pc # "idle" /\ Fault
    /\ run' = RunIdle
    /\ UNCHANGED <<manifest, objects, recorded, rec, enu, past>>

\* A migration deletes or moves a parquet.
Lose(a) ==
    /\ a \in objects /\ Fault
    /\ objects' = objects \ {a}
    /\ recorded' = recorded \ {a}
    /\ UNCHANGED <<manifest, rec, enu, run, past>>

-----------------------------------------------------------------------------
Consolidate == ConRead \/ ConWrite \/ ConDie
Reconcile ==
    \/ RecRead \/ RecAudit \/ RecAuditErrs \/ RecReverse \/ RecReverseErrs
    \/ RecMerge \/ RecUpload \/ RecDie
Enumerate == EnuReadIndex \/ EnuReadShards \/ EnuFlush \/ EnuHalt \/ EnuEnd

Next ==
    \/ Consolidate \/ Reconcile
    \/ Enumerate \/ EnuSkipShards \/ EnuDie
    \/ \E a \in Atom : RunStart(a) \/ RunForce(a) \/ Lose(a)
    \/ RunStore \/ RunRecord \/ RunEmpty \/ RunFail \/ RunDie

Spec == Init /\ [][Next]_vars

-----------------------------------------------------------------------------
(* Properties                                                              *)

\* The state is well typed; nothing of an apply run outlives it, and the enumerator keeps
\* below its limit.
TypeOK ==
    /\ {index, fresh, taken, con, rec.frame} \subseteq Rows
    /\ recorded \subseteq objects /\ objects \subseteq Atom
    /\ rec.pc \in {"idle", "audit", "reverse", "merge", "upload"}
    /\ rec.doubt \subseteq Atom /\ rec.flagged \subseteq Atom
    /\ rec.pc = "idle" => rec = RecIdle
    /\ past.missed \cup past.landed \cup past.undone \subseteq Atom
    /\ enu.pc \in {"idle", "shards", "write"} /\ enu.written \in 0..MaxWrites
    /\ enu.present \subseteq Atom /\ enu.captured \subseteq enu.present
    /\ run.pc \in {"idle", "fetch", "record"} /\ run.atoms \subseteq Atom
    /\ faults \in 0..MaxFaults

\* "real captures are left at captured": a capture recorded with its parquet, and not lost
\* since, is what every reader of the manifest sees, however the jobs interleave, unless an
\* apply run whose audit did not find it has flagged it, or its shard was consolidated
\* between the second read of an apply run and its upload; captured anew it stands again.
CaptureStands == \A a \in recorded \ past.undone : Merged[a] = "captured"

\* "Without the final re-merge, the bulk re-upload of the first snapshot would silently
\* revert" a shard: with it a row disappears only by an upload, and only one that was
\* consolidated after the second read, however long before it the audit began.
NoRowLost ==
    [][\A a \in Atom : Merged[a] # "none" /\ Merged'[a] = "none" => RecUpload /\ a \in past.landed]_vars

\* A captured row without parquet is flagged by the upload of the run that audited it, in
\* spite of what was seeded, consolidated or forced meanwhile, unless it was captured
\* again and that capture waits in a shard.
PhantomsFlipped ==
    [][RecUpload => \A a \in past.missed \ Outstanding : Merged'[a] # "captured"]_vars

\* "ensuring every expected (shard_key, day) tuple has a manifest row": when the enumerator
\* ends, also the atoms no runner is started for have one, though it reads index and shards
\* one after the other and writes in parts; what an upload has undone is excepted.
SeededOnEnd == [][EnuEnd => \A a \in Atom \ past.undone : Merged[a] # "none"]_vars

-----------------------------------------------------------------------------
(* What the scripts say besides; these do not hold in general.             *)

\* "This closes the lost-update window": no row ever disappears.
WindowClosed == [][\A a \in Atom : Merged[a] # "none" => Merged'[a] # "none"]_vars

\* "only true phantoms get flipped": what an upload flags has no parquet.
OnlyTruePhantoms == [][RecUpload => \A a \in objects : index'[a] # "phantom" \/ index[a] = "phantom"]_vars

\* "finds (shard_key, day) tuples with NO manifest row": a seed never meets a row that was
\* there before the enumerator began to read.
SeedsOnlyGaps == [][EnuFlush => \A a \in Chunk : index[a] = "none"]_vars

\* "the fresher shard's version of that row wins": the flip of the second read leaves a
\* row alone that a runner has written, with its parquet, since the audit.
FresherRowWins == [][RecMerge => \A a \in recorded : rec'.frame[a] # "phantom"]_vars

\* The daily job comes round, and goes on with what it has begun.
DailySpec == Spec /\ WF_vars(Enumerate)

\* "every expected (shard_key, day) tuple" is seeded sooner or later by the daily job.
Seeded == \A a \in Atom : []<>(Merged[a] # "none")
=============================================================================
